------------------------- MODULE LockFreeStackProof -------------------------
(***************************************************************************)
(* That the index stack and its free list keep their nodes, and that the   *)
(* stack implements AtomicStack, for any number of threads, nodes and      *)
(* users.                                                                  *)
(***************************************************************************)
EXTENDS LockFreeStack, SequenceTheorems, FiniteSetTheorems, TLAPS

AllocPlaces == {"alloc_ptr", "alloc_id", "alloc_next", "alloc_cas"}

OwnPlaces == {"push_ptr", "push_id", "push_link", "push_cas"}

FreePlaces == {"free_ptr", "free_id", "free_link", "free_cas"}

TakePlaces == {"pop_ptr", "pop_id", "pop_next", "pop_cas"}

Places == AllocPlaces \cup {"push_node"} \cup OwnPlaces \cup {"push_count"}
            \cup TakePlaces \cup {"idle", "pop_undo", "pop_data"} \cup FreePlaces \cup {"pop_return"}

Words == [ptr : Nodes \cup {NULL}, id : Int]

TypeOK ==
    /\ pool \in Words /\ top \in Words
    /\ link \in [Nodes -> Nodes \cup {NULL}] /\ next \in [Nodes -> Nodes \cup {NULL}]
    /\ data \in [Nodes -> Indices \cup {None}]
    /\ fresh \subseteq Nodes /\ spare \in Seq(Nodes) /\ list \in Seq(Nodes)
    /\ count \in Int
    /\ pc \in [Threads -> Places]
    /\ tmp \in [Threads -> Words]
    /\ nxt \in [Threads -> Nodes \cup {NULL}] /\ node \in [Threads -> Nodes \cup {NULL}]
    /\ val \in [Threads -> Indices \cup {None}]
    /\ held \subseteq Indices

(* A thread has a node that is in neither list: Hand(t). *)
Holding(t) == pc[t] \in HandPlaces \cup {"pop_data"}

Hand(t) == IF pc[t] = "pop_data" THEN tmp[t].ptr ELSE node[t]

(* OneHolder, with the lists as sets. *)
Holders ==
    /\ IsInjective(spare) /\ IsInjective(list)
    /\ Range(spare) \cap Range(list) = {}
    /\ fresh \cap (Range(spare) \cup Range(list)) = {}
    /\ \A t \in Threads : Holding(t) => Hand(t) \in Nodes \ (fresh \cup Range(spare) \cup Range(list))
    /\ \A t, u \in Threads : Holding(t) /\ Holding(u) /\ Hand(t) = Hand(u) => t = u
    /\ \A n \in Nodes \ (fresh \cup Range(spare) \cup Range(list)) : \E t \in Threads : Holding(t) /\ Hand(t) = n

(* A thread's copy of a word is no newer than the word, and what it has read   *)
(* or written beside the copy is right as long as the word has not changed.   *)
Current(t) ==
    /\ pc[t] \in {"alloc_next", "alloc_cas", "free_link", "free_cas"} => tmp[t].id <= pool.id
    /\ pc[t] \in {"push_link", "push_cas", "pop_next", "pop_cas"} => tmp[t].id <= top.id
    /\ pc[t] = "alloc_cas" => tmp[t].ptr # NULL /\ (tmp[t] = pool => nxt[t] = link[tmp[t].ptr])
    /\ pc[t] = "pop_cas" => tmp[t].ptr # NULL /\ (tmp[t] = top => nxt[t] = next[tmp[t].ptr])
    /\ pc[t] = "free_cas" => link[node[t]] = tmp[t].ptr
    /\ pc[t] = "push_cas" => next[node[t]] = tmp[t].ptr

Versions == \A t \in Threads : Current(t)

(* Where an index is while it is in a call. *)
Carries(t) ==
    /\ pc[t] \in AllocPlaces \cup {"push_node"} \cup OwnPlaces \cup FreePlaces \cup {"pop_return"} => val[t] \in Indices
    /\ pc[t] \in OwnPlaces => data[node[t]] = val[t]
    /\ pc[t] = "pop_data" => data[tmp[t].ptr] \in Indices
    /\ pc[t] \in {"idle", "pop_undo", "pop_data"} \cup TakePlaces => val[t] = None

Carried ==
    /\ \A n \in Range(list) : data[n] \in Indices
    /\ \A t \in Threads : Carries(t)

(* The count lags behind the list by those who are about to change either; a  *)
(* Pop goes on only if there is a node for it.                                *)
CountAhead == {t \in Threads : pc[t] \in {"push_count", "pop_undo"} \cup TakePlaces}

Undoing == {t \in Threads : pc[t] = "pop_undo"}

Counted ==
    /\ Len(list) = count + Cardinality(CountAhead)
    /\ count + Cardinality(Undoing) >= 0

Found == \A t \in Threads : pc[t] \in {"pop_id", "pop_next"} => tmp[t].ptr # NULL

IInv == TypeOK /\ Holders /\ ListsIntact /\ Versions /\ Carried /\ Counted /\ Found

USE NullAssumption, UserAssumption, ThreadAssumption
USE DEF Indices, None, freeVars, stackVars, Goto, Reload, ReadPtr, ReadId

-----------------------------------------------------------------------------
(* Lists *)

(* The elements of a sequence. *)
LEMMA InRange ==
  ASSUME NEW seq \in Seq(Nodes)
  PROVE  /\ Range(seq) \subseteq Nodes
         /\ \A i \in 1..Len(seq) : seq[i] \in Range(seq)
         /\ \A n \in Range(seq) : \E i \in 1..Len(seq) : n = seq[i]
BY DEF Range

(* A node whose next is the old top becomes the new one. *)
LEMMA PushOnto ==
  ASSUME NEW seq \in Seq(Nodes), NEW n \in Nodes, NEW word \in Words, NEW new \in Words,
         NEW succ \in [Nodes -> Nodes \cup {NULL}],
         Linked(word, succ, seq), IsInjective(seq), n \notin Range(seq), succ[n] = word.ptr, new.ptr = n
  PROVE  /\ <<n>> \o seq \in Seq(Nodes) /\ Len(<<n>> \o seq) = Len(seq) + 1
         /\ Linked(new, succ, <<n>> \o seq) /\ IsInjective(<<n>> \o seq)
         /\ Range(<<n>> \o seq) = Range(seq) \cup {n}
<1> DEFINE long == <<n>> \o seq
<1>1. /\ long \in Seq(Nodes) /\ Len(long) = Len(seq) + 1 /\ Len(seq) \in Nat
      /\ long[1] = n /\ \A i \in 1..Len(seq) : long[i + 1] = seq[i]
      /\ \A i \in 2..Len(long) : long[i] = seq[i - 1] /\ i - 1 \in 1..Len(seq)
  <2>1. <<n>> \in Seq(Nodes) /\ Len(<<n>>) = 1 /\ <<n>>[1] = n
    OBVIOUS
  <2>2. /\ long \in Seq(Nodes) /\ Len(long) = 1 + Len(seq)
        /\ \A i \in 1..(1 + Len(seq)) : long[i] = IF i <= 1 THEN <<n>>[i] ELSE seq[i - 1]
    BY <2>1, ConcatProperties DEF long
  <2> HIDE DEF long
  <2> QED BY <2>1, <2>2
<1> HIDE DEF long
<1>2. DOMAIN long = 1..Len(long) /\ DOMAIN seq = 1..Len(seq) /\ (seq = <<>> <=> Len(seq) = 0)
  BY <1>1
<1>3. Linked(new, succ, long)
  <2>1. long # <<>> /\ new.ptr = long[1]
    BY <1>1, <1>2
  <2>2. ASSUME NEW i \in 1..Len(long)
        PROVE  succ[long[i]] = IF i = Len(long) THEN NULL ELSE long[i + 1]
    <3>1. CASE i = 1
      BY <1>1, <1>2, <3>1 DEF Linked
    <3>2. CASE i > 1
      <4>1. i - 1 \in 1..Len(seq) /\ long[i] = seq[i - 1]
        BY <1>1, <3>2
      <4>2. succ[seq[i - 1]] = IF i - 1 = Len(seq) THEN NULL ELSE seq[(i - 1) + 1]
        BY <1>2, <4>1 DEF Linked
      <4>3. i # Len(long) => long[i + 1] = seq[i]
        BY <1>1, <3>2
      <4> QED BY <1>1, <4>1, <4>2, <4>3
    <3> QED BY <3>1, <3>2
  <2> QED BY <1>2, <2>1, <2>2 DEF Linked
<1>4. IsInjective(long)
  <2> SUFFICES ASSUME NEW i \in 1..Len(long), NEW j \in 1..Len(long), long[i] = long[j]
               PROVE  i = j
    BY <1>2 DEF IsInjective
  <2>1. i = 1 => j = 1
    BY <1>1, InRange
  <2>2. j = 1 => i = 1
    BY <1>1, InRange, SMTT(40)
  <2>3. i > 1 /\ j > 1 => i = j
    <3> SUFFICES ASSUME i > 1, j > 1 PROVE i = j
      OBVIOUS
    <3>1. /\ i - 1 \in 1..Len(seq) /\ long[i] = seq[i - 1]
          /\ j - 1 \in 1..Len(seq) /\ long[j] = seq[j - 1]
      BY <1>1
    <3>2. i - 1 = j - 1
      BY <1>2, <3>1, ZenonT(40) DEF IsInjective
    <3> QED BY <3>2
  <2> QED BY <2>1, <2>2, <2>3
<1>5. Range(long) = Range(seq) \cup {n}
  <2>1. ASSUME NEW i \in 1..Len(long) PROVE long[i] \in Range(seq) \cup {n}
    <3>1. CASE i = 1
      BY <1>1, <3>1
    <3>2. CASE i > 1
      BY <1>1, <3>2, InRange
    <3> QED BY <3>1, <3>2
  <2>2. ASSUME NEW i \in 1..Len(seq) PROVE seq[i] \in Range(long)
    <3>1. i + 1 \in 1..Len(long) /\ long[i + 1] = seq[i]
      BY <1>1
    <3> QED BY <1>1, <3>1, InRange
  <2>3. n \in Range(long)
    BY <1>1, InRange
  <2>4. Range(long) \subseteq Range(seq) \cup {n}
    BY <1>1, <2>1, InRange
  <2>5. Range(seq) \subseteq Range(long)
    BY <2>2, InRange
  <2> QED BY <2>3, <2>4, <2>5
<1> QED BY <1>1, <1>3, <1>4, <1>5 DEF long

(* The node on top goes, its next becomes the top. *)
LEMMA PopFrom ==
  ASSUME NEW seq \in Seq(Nodes), NEW word \in Words, NEW new \in Words,
         NEW succ \in [Nodes -> Nodes \cup {NULL}],
         Linked(word, succ, seq), IsInjective(seq), word.ptr # NULL, new.ptr = succ[word.ptr]
  PROVE  /\ seq # <<>> /\ Tail(seq) \in Seq(Nodes) /\ Len(Tail(seq)) = Len(seq) - 1
         /\ word.ptr = Head(seq) /\ word.ptr \in Range(seq)
         /\ Linked(new, succ, Tail(seq)) /\ IsInjective(Tail(seq))
         /\ Range(Tail(seq)) = Range(seq) \ {word.ptr}
<1>1. seq # <<>> /\ word.ptr = seq[1]
  BY DEF Linked
<1>2. /\ Tail(seq) \in Seq(Nodes) /\ Len(seq) \in Nat \ {0} /\ Len(Tail(seq)) = Len(seq) - 1
      /\ \A i \in 1..Len(Tail(seq)) : Tail(seq)[i] = seq[i + 1]
      /\ DOMAIN Tail(seq) = 1..Len(Tail(seq)) /\ DOMAIN seq = 1..Len(seq)
      /\ (Tail(seq) = <<>> <=> Len(Tail(seq)) = 0)
  <2>1. /\ Tail(seq) \in Seq(Nodes) /\ Len(Tail(seq)) = Len(seq) - 1
        /\ \A i \in 1..Len(Tail(seq)) : Tail(seq)[i] = seq[i + 1]
    BY <1>1, HeadTailProperties
  <2> QED BY <1>1, <2>1, EmptySeq, LenProperties
<1>3. Linked(new, succ, Tail(seq))
  BY <1>1, <1>2 DEF Linked
<1>4. IsInjective(Tail(seq))
  BY <1>2 DEF IsInjective
<1>5. Range(Tail(seq)) = Range(seq) \ {word.ptr}
  <2>1. Range(Tail(seq)) \subseteq Range(seq) \ {word.ptr}
    <3> SUFFICES ASSUME NEW i \in 1..Len(Tail(seq))
                 PROVE  Tail(seq)[i] \in Range(seq) \ {word.ptr}
      BY <1>2 DEF Range
    <3>1. Tail(seq)[i] = seq[i + 1] /\ i + 1 \in 1..Len(seq) /\ i + 1 # 1
      BY <1>2
    <3> QED BY <1>1, <1>2, <3>1, InRange DEF IsInjective
  <2>2. Range(seq) \ {word.ptr} \subseteq Range(Tail(seq))
    <3> SUFFICES ASSUME NEW i \in 1..Len(seq), seq[i] # word.ptr
                 PROVE  seq[i] \in Range(Tail(seq))
      BY InRange
    <3>1. i - 1 \in 1..Len(Tail(seq)) /\ Tail(seq)[i - 1] = seq[i]
      BY <1>1, <1>2
    <3> QED BY <1>2, <3>1, InRange
  <2> QED BY <2>1, <2>2
<1>6. word.ptr = Head(seq) /\ word.ptr \in Range(seq)
  BY <1>1, <1>2, InRange
<1> QED BY <1>1, <1>2, <1>3, <1>4, <1>5, <1>6

(* The nexts of nodes that are not in a list do not matter to it, nor its     *)
(* number.                                                                    *)
LEMMA KeepLinks ==
  ASSUME NEW seq \in Seq(Nodes), NEW word, NEW new, NEW succ, NEW other,
         Linked(word, succ, seq), new.ptr = word.ptr, \A n \in Range(seq) : other[n] = succ[n]
  PROVE  Linked(new, other, seq)
BY InRange DEF Linked

(* The top of a list is one of its nodes. *)
LEMMA TopOf ==
  ASSUME NEW seq \in Seq(Nodes), NEW word, NEW succ, Linked(word, succ, seq)
  PROVE  /\ word.ptr # NULL => seq # <<>> /\ word.ptr \in Range(seq)
         /\ seq # <<>> => word.ptr \in Nodes
BY InRange DEF Linked
-----------------------------------------------------------------------------
(* The exchanges that succeed *)

LEMMA PoolTaken ==
  ASSUME TypeOK, Holders, ListsIntact, Versions, NEW t \in Threads, AllocCas(t, "push_node"), pool = tmp[t]
  PROVE  /\ spare' = Tail(spare) /\ spare' \in Seq(Nodes) /\ pool' \in Words /\ pool'.id = pool.id + 1
         /\ Linked(pool', link', spare') /\ IsInjective(spare')
         /\ pool.ptr \in Range(spare) /\ Range(spare') = Range(spare) \ {pool.ptr}
         /\ node' = [node EXCEPT ![t] = pool.ptr] /\ pc' = [pc EXCEPT ![t] = "push_node"]
         /\ UNCHANGED <<link, fresh, nxt, tmp>>
<1>1. /\ spare' = Tail(spare) /\ pool' = [ptr |-> nxt[t], id |-> pool.id + 1]
      /\ node' = [node EXCEPT ![t] = pool.ptr] /\ pc' = [pc EXCEPT ![t] = "push_node"]
      /\ UNCHANGED <<link, fresh, nxt, tmp>>
  BY DEF AllocCas
<1>2. pool.ptr # NULL /\ nxt[t] = link[pool.ptr]
  BY DEF AllocCas, Versions, Current
<1>3. pool' \in Words /\ pool'.id = pool.id + 1 /\ pool'.ptr = link[pool.ptr]
  BY <1>1, <1>2 DEF TypeOK, Words
<1>4. /\ Tail(spare) \in Seq(Nodes) /\ Linked(pool', link, Tail(spare)) /\ IsInjective(Tail(spare))
      /\ pool.ptr \in Range(spare) /\ Range(Tail(spare)) = Range(spare) \ {pool.ptr}
  BY <1>2, <1>3, PopFrom DEF TypeOK, Holders, ListsIntact
<1> QED BY <1>1, <1>3, <1>4

LEMMA PoolGiven ==
  ASSUME TypeOK, Holders, ListsIntact, Versions, NEW t \in Threads, FreeCas(t, "pop_return"), pool = tmp[t]
  PROVE  /\ spare' = <<node[t]>> \o spare /\ spare' \in Seq(Nodes) /\ pool' \in Words /\ pool'.id = pool.id + 1
         /\ Linked(pool', link', spare') /\ IsInjective(spare')
         /\ node[t] \in Nodes \ Range(spare) /\ Range(spare') = Range(spare) \cup {node[t]}
         /\ pc' = [pc EXCEPT ![t] = "pop_return"]
         /\ UNCHANGED <<link, fresh, nxt, tmp, node>>
<1>1. /\ spare' = <<node[t]>> \o spare /\ pool' = [ptr |-> node[t], id |-> pool.id + 1]
      /\ pc' = [pc EXCEPT ![t] = "pop_return"]
      /\ UNCHANGED <<link, fresh, nxt, tmp, node>>
  BY DEF FreeCas
<1>2. node[t] \in Nodes \ Range(spare)
  BY DEF FreeCas, Holders, Holding, Hand, HandPlaces
<1>3. link[node[t]] = pool.ptr
  BY DEF FreeCas, Versions, Current
<1>4. pool' \in Words /\ pool'.id = pool.id + 1 /\ pool'.ptr = node[t]
  BY <1>1, <1>2 DEF TypeOK, Words
<1>5. /\ <<node[t]>> \o spare \in Seq(Nodes) /\ Linked(pool', link, <<node[t]>> \o spare)
      /\ IsInjective(<<node[t]>> \o spare) /\ Range(<<node[t]>> \o spare) = Range(spare) \cup {node[t]}
  BY <1>2, <1>3, <1>4, PushOnto DEF TypeOK, Holders, ListsIntact
<1> QED BY <1>1, <1>2, <1>4, <1>5

LEMMA Pushed ==
  ASSUME TypeOK, Holders, ListsIntact, Versions, NEW t \in Threads, PushCas(t), top = tmp[t]
  PROVE  /\ list' = <<node[t]>> \o list /\ list' \in Seq(Nodes) /\ top' \in Words /\ top'.id = top.id + 1
         /\ Linked(top', next', list') /\ IsInjective(list') /\ Len(list') = Len(list) + 1
         /\ node[t] \in Nodes \ Range(list) /\ Range(list') = Range(list) \cup {node[t]}
         /\ pc' = [pc EXCEPT ![t] = "push_count"]
         /\ UNCHANGED <<next, data, count, nxt, tmp, node, val, held>>
<1>1. /\ list' = <<node[t]>> \o list /\ top' = [ptr |-> node[t], id |-> top.id + 1]
      /\ pc' = [pc EXCEPT ![t] = "push_count"]
      /\ UNCHANGED <<next, data, count, nxt, tmp, node, val, held>>
  BY DEF PushCas
<1>2. node[t] \in Nodes \ Range(list)
  BY DEF PushCas, Holders, Holding, Hand, HandPlaces
<1>3. next[node[t]] = top.ptr
  BY DEF PushCas, Versions, Current
<1>4. top' \in Words /\ top'.id = top.id + 1 /\ top'.ptr = node[t]
  BY <1>1, <1>2 DEF TypeOK, Words
<1>5. /\ <<node[t]>> \o list \in Seq(Nodes) /\ Linked(top', next, <<node[t]>> \o list)
      /\ Len(<<node[t]>> \o list) = Len(list) + 1
      /\ IsInjective(<<node[t]>> \o list) /\ Range(<<node[t]>> \o list) = Range(list) \cup {node[t]}
  BY <1>2, <1>3, <1>4, PushOnto DEF TypeOK, Holders, ListsIntact
<1> QED BY <1>1, <1>2, <1>4, <1>5

LEMMA Popped ==
  ASSUME TypeOK, Holders, ListsIntact, Versions, NEW t \in Threads, PopCas(t), top = tmp[t]
  PROVE  /\ list' = Tail(list) /\ list' \in Seq(Nodes) /\ top' \in Words /\ top'.id = top.id + 1
         /\ Linked(top', next', list') /\ IsInjective(list') /\ Len(list') = Len(list) - 1
         /\ list # <<>> /\ tmp[t].ptr = Head(list)
         /\ tmp[t].ptr \in Range(list) /\ Range(list') = Range(list) \ {tmp[t].ptr}
         /\ pc' = [pc EXCEPT ![t] = "pop_data"]
         /\ UNCHANGED <<next, data, count, nxt, tmp, node, val, held>>
<1>1. /\ list' = Tail(list) /\ top' = [ptr |-> nxt[t], id |-> top.id + 1]
      /\ pc' = [pc EXCEPT ![t] = "pop_data"]
      /\ UNCHANGED <<next, data, count, nxt, tmp, node, val, held>>
  BY DEF PopCas
<1>2. top.ptr # NULL /\ nxt[t] = next[top.ptr]
  BY DEF PopCas, Versions, Current
<1>3. top' \in Words /\ top'.id = top.id + 1 /\ top'.ptr = next[top.ptr]
  BY <1>1, <1>2 DEF TypeOK, Words
<1>4. /\ list # <<>> /\ top.ptr = Head(list) /\ Len(Tail(list)) = Len(list) - 1
      /\ Tail(list) \in Seq(Nodes) /\ Linked(top', next, Tail(list)) /\ IsInjective(Tail(list))
      /\ top.ptr \in Range(list) /\ Range(Tail(list)) = Range(list) \ {top.ptr}
  BY <1>2, <1>3, PopFrom, SMTT(40) DEF TypeOK, Holders, ListsIntact
<1> QED BY <1>1, <1>3, <1>4

-----------------------------------------------------------------------------
(* Types. *)
LEMMA TypeStep ==
  ASSUME IInv, NEW t \in Threads, Step(t)
  PROVE  TypeOK'
<1>0. TypeOK /\ Holders /\ ListsIntact /\ Versions /\ Carried
  BY DEF IInv
<1> USE <1>0 DEF TypeOK, Places, AllocPlaces, OwnPlaces, FreePlaces, TakePlaces, Leave, NoTop
<1>1. CASE AllocPtr(t) /\ UNCHANGED <<stackVars, val, held>>
  BY <1>1 DEF AllocPtr, Words
<1>2. CASE AllocId(t) /\ UNCHANGED <<stackVars, val, held>>
  BY <1>2 DEF AllocId, Words
<1>3. CASE AllocNew(t, "push_node") /\ UNCHANGED <<stackVars, val, held>>
  BY <1>3 DEF AllocNew
<1>4. CASE AllocNext(t) /\ UNCHANGED <<stackVars, val, held>>
  BY <1>4 DEF AllocNext, Words
<1>5. CASE AllocCas(t, "push_node") /\ UNCHANGED <<stackVars, val, held>>
  <2>1. CASE pool = tmp[t]
    BY <1>5, <2>1, <1>0, InRange, PoolTaken DEF AllocCas
  <2>2. CASE pool # tmp[t]
    BY <1>5, <2>2, ZenonT(40) DEF AllocCas
  <2> QED BY <2>1, <2>2
<1>6. CASE FreePtr(t) /\ UNCHANGED <<stackVars, val, held>>
  BY <1>6 DEF FreePtr, Words
<1>7. CASE FreeId(t) /\ UNCHANGED <<stackVars, val, held>>
  BY <1>7 DEF FreeId, Words
<1>8. CASE FreeLink(t) /\ UNCHANGED <<stackVars, val, held>>
  BY <1>8 DEF FreeLink, Words
<1>9. CASE FreeCas(t, "pop_return") /\ UNCHANGED <<stackVars, val, held>>
  <2>1. CASE pool = tmp[t]
    BY <1>9, <2>1, <1>0, InRange, PoolGiven DEF FreeCas
  <2>2. CASE pool # tmp[t]
    BY <1>9, <2>2, ZenonT(40) DEF FreeCas
  <2> QED BY <2>1, <2>2
<1>10. CASE PushCall(t)
  BY <1>10 DEF PushCall
<1>11. CASE PushNode(t)
  BY <1>11 DEF PushNode
<1>12. CASE PushPtr(t)
  BY <1>12 DEF PushPtr, Words
<1>13. CASE PushId(t)
  BY <1>13 DEF PushId, Words
<1>14. CASE PushLink(t)
  BY <1>14 DEF PushLink, Words
<1>15. CASE PushCas(t)
  <2>1. CASE top = tmp[t]
    BY <1>15, <2>1, <1>0, InRange, Pushed DEF PushCas
  <2>2. CASE top # tmp[t]
    BY <1>15, <2>2 DEF PushCas
  <2> QED BY <2>1, <2>2
<1>16. CASE PushCount(t)
  BY <1>16 DEF PushCount, Words
<1>17. CASE PopDec(t)
  BY <1>17 DEF PopDec
<1>18. CASE PopUndo(t)
  BY <1>18 DEF PopUndo, Words
<1>19. CASE PopPtr(t)
  BY <1>19 DEF PopPtr, Words
<1>20. CASE PopId(t)
  BY <1>20 DEF PopId, Words
<1>21. CASE PopNext(t)
  BY <1>21 DEF PopNext, Words
<1>22. CASE PopCas(t)
  <2>1. CASE top = tmp[t]
    BY <1>22, <2>1, <1>0, InRange, Popped DEF PopCas
  <2>2. CASE top # tmp[t]
    BY <1>22, <2>2, ZenonT(40) DEF PopCas
  <2> QED BY <2>1, <2>2
<1>23. CASE PopData(t)
  <2>1. tmp[t].ptr \in Nodes
    BY <1>23, <1>0 DEF PopData, Holders, Holding, Hand
  <2> QED BY <1>23, <2>1 DEF PopData
<1>24. CASE PopReturn(t)
  <2>1. val[t] \in Indices
    BY <1>24, <1>0 DEF PopReturn, Carried, Carries
  <2>2. held' \subseteq Indices
    BY <1>24, <2>1 DEF PopReturn
  <2> QED BY <1>24, <2>2 DEF PopReturn, Words
<1> QED
  BY <1>1, <1>2, <1>3, <1>4, <1>5, <1>6, <1>7, <1>8, <1>9, <1>10, <1>11, <1>12, <1>13, <1>14, <1>15, <1>16, <1>17, <1>18, <1>19, <1>20, <1>21, <1>22, <1>23, <1>24
  DEF Step, Alloc, Free

(* Both lists stay linked: only nodes in hand are written to. *)
LEMMA ListsStep ==
  ASSUME IInv, NEW t \in Threads, Step(t)
  PROVE  ListsIntact'
<1>0. TypeOK /\ Holders /\ ListsIntact /\ Versions /\ Carried
  BY DEF IInv
<1>1. CASE AllocPtr(t) /\ UNCHANGED <<stackVars, val, held>>
  BY <1>1, <1>0 DEF AllocPtr, ListsIntact
<1>2. CASE AllocId(t) /\ UNCHANGED <<stackVars, val, held>>
  BY <1>2, <1>0 DEF AllocId, ListsIntact
<1>3. CASE AllocNew(t, "push_node") /\ UNCHANGED <<stackVars, val, held>>
  BY <1>3, <1>0 DEF AllocNew, ListsIntact
<1>4. CASE AllocNext(t) /\ UNCHANGED <<stackVars, val, held>>
  BY <1>4, <1>0 DEF AllocNext, ListsIntact
<1>5. CASE AllocCas(t, "push_node") /\ UNCHANGED <<stackVars, val, held>>
  <2>1. CASE pool = tmp[t]
    BY <1>5, <2>1, <1>0, PoolTaken DEF ListsIntact, stackVars, freeVars, AllocCas
  <2>2. CASE pool # tmp[t]
    BY <1>5, <2>2, <1>0 DEF ListsIntact, AllocCas
  <2> QED BY <2>1, <2>2
<1>6. CASE FreePtr(t) /\ UNCHANGED <<stackVars, val, held>>
  BY <1>6, <1>0 DEF FreePtr, ListsIntact
<1>7. CASE FreeId(t) /\ UNCHANGED <<stackVars, val, held>>
  BY <1>7, <1>0 DEF FreeId, ListsIntact
<1>8. CASE FreeLink(t) /\ UNCHANGED <<stackVars, val, held>>
  <2>1. \A n \in Range(spare) : link'[n] = link[n]
    BY <1>8, <1>0, InRange DEF FreeLink, TypeOK, Holders, Holding, Hand, HandPlaces
  <2>2. Linked(pool, link', spare)
    BY <2>1, <1>0, KeepLinks DEF ListsIntact, TypeOK
  <2> QED BY <1>8, <2>2, <1>0 DEF FreeLink, ListsIntact
<1>9. CASE FreeCas(t, "pop_return") /\ UNCHANGED <<stackVars, val, held>>
  <2>1. CASE pool = tmp[t]
    BY <1>9, <2>1, <1>0, PoolGiven DEF ListsIntact, stackVars, freeVars, FreeCas
  <2>2. CASE pool # tmp[t]
    BY <1>9, <2>2, <1>0 DEF ListsIntact, FreeCas
  <2> QED BY <2>1, <2>2
<1>10. CASE PushCall(t)
  BY <1>10, <1>0 DEF PushCall, ListsIntact
<1>11. CASE PushNode(t)
  <2>1. \A n \in Range(list) : next'[n] = next[n]
    BY <1>11, <1>0, InRange DEF PushNode, TypeOK, Holders, Holding, Hand, HandPlaces
  <2>2. Linked(top, next', list)
    BY <2>1, <1>0, KeepLinks DEF ListsIntact, TypeOK
  <2> QED BY <1>11, <2>2, <1>0 DEF PushNode, ListsIntact
<1>12. CASE PushPtr(t)
  BY <1>12, <1>0 DEF PushPtr, ListsIntact
<1>13. CASE PushId(t)
  BY <1>13, <1>0 DEF PushId, ListsIntact
<1>14. CASE PushLink(t)
  <2>1. \A n \in Range(list) : next'[n] = next[n]
    BY <1>14, <1>0, InRange DEF PushLink, TypeOK, Holders, Holding, Hand, HandPlaces
  <2>2. Linked(top, next', list)
    BY <2>1, <1>0, KeepLinks DEF ListsIntact, TypeOK
  <2> QED BY <1>14, <2>2, <1>0 DEF PushLink, ListsIntact
<1>15. CASE PushCas(t)
  <2>1. CASE top = tmp[t]
    BY <1>15, <2>1, <1>0, Pushed DEF ListsIntact, stackVars, freeVars, PushCas
  <2>2. CASE top # tmp[t]
    BY <1>15, <2>2, <1>0 DEF ListsIntact, PushCas
  <2> QED BY <2>1, <2>2
<1>16. CASE PushCount(t)
  BY <1>16, <1>0 DEF PushCount, ListsIntact
<1>17. CASE PopDec(t)
  BY <1>17, <1>0 DEF PopDec, ListsIntact
<1>18. CASE PopUndo(t)
  BY <1>18, <1>0 DEF PopUndo, ListsIntact
<1>19. CASE PopPtr(t)
  BY <1>19, <1>0 DEF PopPtr, ListsIntact
<1>20. CASE PopId(t)
  BY <1>20, <1>0 DEF PopId, ListsIntact
<1>21. CASE PopNext(t)
  BY <1>21, <1>0 DEF PopNext, ListsIntact
<1>22. CASE PopCas(t)
  <2>1. CASE top = tmp[t]
    BY <1>22, <2>1, <1>0, Popped DEF ListsIntact, stackVars, freeVars, PopCas
  <2>2. CASE top # tmp[t]
    BY <1>22, <2>2, <1>0 DEF ListsIntact, PopCas
  <2> QED BY <2>1, <2>2
<1>23. CASE PopData(t)
  BY <1>23, <1>0 DEF PopData, ListsIntact
<1>24. CASE PopReturn(t)
  BY <1>24, <1>0 DEF PopReturn, ListsIntact
<1> QED
  BY <1>1, <1>2, <1>3, <1>4, <1>5, <1>6, <1>7, <1>8, <1>9, <1>10, <1>11, <1>12, <1>13, <1>14, <1>15, <1>16, <1>17, <1>18, <1>19, <1>20, <1>21, <1>22, <1>23, <1>24
  DEF Step, Alloc, Free

(* A step changes the locals of one thread. *)
Others(t) == \A u \in Threads \ {t} :
    /\ pc'[u] = pc[u] /\ tmp'[u] = tmp[u] /\ nxt'[u] = nxt[u]
    /\ node'[u] = node[u] /\ val'[u] = val[u]

LEMMA OthersKept ==
  ASSUME TypeOK, NEW t \in Threads, Step(t)
  PROVE  Others(t)
<1>1. CASE AllocPtr(t) /\ UNCHANGED <<stackVars, val, held>>
  BY <1>1 DEF AllocPtr, TypeOK, Others, Leave
<1>2. CASE AllocId(t) /\ UNCHANGED <<stackVars, val, held>>
  BY <1>2 DEF AllocId, TypeOK, Others, Leave
<1>3. CASE AllocNew(t, "push_node") /\ UNCHANGED <<stackVars, val, held>>
  BY <1>3 DEF AllocNew, TypeOK, Others, Leave
<1>4. CASE AllocNext(t) /\ UNCHANGED <<stackVars, val, held>>
  BY <1>4 DEF AllocNext, TypeOK, Others, Leave
<1>5. CASE AllocCas(t, "push_node") /\ UNCHANGED <<stackVars, val, held>>
  BY <1>5 DEF AllocCas, TypeOK, Others, Leave
<1>6. CASE FreePtr(t) /\ UNCHANGED <<stackVars, val, held>>
  BY <1>6 DEF FreePtr, TypeOK, Others, Leave
<1>7. CASE FreeId(t) /\ UNCHANGED <<stackVars, val, held>>
  BY <1>7 DEF FreeId, TypeOK, Others, Leave
<1>8. CASE FreeLink(t) /\ UNCHANGED <<stackVars, val, held>>
  BY <1>8 DEF FreeLink, TypeOK, Others, Leave
<1>9. CASE FreeCas(t, "pop_return") /\ UNCHANGED <<stackVars, val, held>>
  BY <1>9 DEF FreeCas, TypeOK, Others, Leave
<1>10. CASE PushCall(t)
  BY <1>10 DEF PushCall, TypeOK, Others, Leave
<1>11. CASE PushNode(t)
  BY <1>11 DEF PushNode, TypeOK, Others, Leave
<1>12. CASE PushPtr(t)
  BY <1>12 DEF PushPtr, TypeOK, Others, Leave
<1>13. CASE PushId(t)
  BY <1>13 DEF PushId, TypeOK, Others, Leave
<1>14. CASE PushLink(t)
  BY <1>14 DEF PushLink, TypeOK, Others, Leave
<1>15. CASE PushCas(t)
  BY <1>15 DEF PushCas, TypeOK, Others, Leave
<1>16. CASE PushCount(t)
  BY <1>16 DEF PushCount, TypeOK, Others, Leave
<1>17. CASE PopDec(t)
  BY <1>17 DEF PopDec, TypeOK, Others, Leave
<1>18. CASE PopUndo(t)
  BY <1>18 DEF PopUndo, TypeOK, Others, Leave
<1>19. CASE PopPtr(t)
  BY <1>19 DEF PopPtr, TypeOK, Others, Leave
<1>20. CASE PopId(t)
  BY <1>20 DEF PopId, TypeOK, Others, Leave
<1>21. CASE PopNext(t)
  BY <1>21 DEF PopNext, TypeOK, Others, Leave
<1>22. CASE PopCas(t)
  BY <1>22 DEF PopCas, TypeOK, Others, Leave
<1>23. CASE PopData(t)
  BY <1>23 DEF PopData, TypeOK, Others, Leave
<1>24. CASE PopReturn(t)
  BY <1>24 DEF PopReturn, TypeOK, Others, Leave
<1> QED
  BY <1>1, <1>2, <1>3, <1>4, <1>5, <1>6, <1>7, <1>8, <1>9, <1>10, <1>11, <1>12, <1>13, <1>14, <1>15, <1>16, <1>17, <1>18, <1>19, <1>20, <1>21, <1>22, <1>23, <1>24
  DEF Step, Alloc, Free

-----------------------------------------------------------------------------
(* Who has a node *)

(* A step that moves no node. *)
HoldersAside(t) ==
    /\ UNCHANGED <<fresh, spare, list>>
    /\ Holding(t)' = Holding(t) /\ (Holding(t) => Hand(t)' = Hand(t))

LEMMA HoldersFrame ==
  ASSUME Holders, NEW t \in Threads, Others(t), HoldersAside(t)
  PROVE  Holders'
<1>1. \A u \in Threads : Holding(u)' = Holding(u) /\ (Holding(u) => Hand(u)' = Hand(u))
  BY DEF Others, HoldersAside, Holding, Hand
<1> QED BY <1>1 DEF Holders, HoldersAside

(* A node that t takes into its hands, from the heap or from a list. *)
LEMMA HoldersTake ==
  ASSUME Holders, NEW t \in Threads, Others(t), NEW n \in Nodes,
         ~Holding(t), Holding(t)', Hand(t)' = n, n \in fresh \cup Range(spare) \cup Range(list),
         IsInjective(spare'), IsInjective(list'),
         Range(spare)' = Range(spare) \ {n}, Range(list)' = Range(list) \ {n}, fresh' = fresh \ {n}
  PROVE  Holders'
<1>1. \A u \in Threads \ {t} : Holding(u)' = Holding(u) /\ (Holding(u) => Hand(u)' = Hand(u) /\ Hand(u) # n)
  BY DEF Others, Holding, Hand, Holders
<1>2. \A u, v \in Threads : Holding(u)' /\ Holding(v)' /\ Hand(u)' = Hand(v)' => u = v
  BY <1>1 DEF Holders
<1>3. \A u \in Threads : Holding(u)' => Hand(u)' \in Nodes \ (fresh \cup Range(spare) \cup Range(list))'
  BY <1>1 DEF Holders
<1>4. ASSUME NEW m \in Nodes \ (fresh \cup Range(spare) \cup Range(list))'
      PROVE  \E u \in Threads : Holding(u)' /\ Hand(u)' = m
  <2>1. CASE m = n
    BY <2>1
  <2>2. CASE m # n
    <3>1. PICK u \in Threads : Holding(u) /\ Hand(u) = m
      BY <2>2 DEF Holders
    <3> QED BY <1>1, <3>1
  <2> QED BY <2>1, <2>2
<1> QED BY <1>2, <1>3, <1>4 DEF Holders

(* A node that t gives to one of the lists. *)
LEMMA HoldersGive ==
  ASSUME Holders, NEW t \in Threads, Others(t), Holding(t), ~Holding(t)', fresh' = fresh,
         IsInjective(spare'), IsInjective(list'),
         \/ Range(spare)' = Range(spare) \cup {Hand(t)} /\ Range(list)' = Range(list)
         \/ Range(list)' = Range(list) \cup {Hand(t)} /\ Range(spare)' = Range(spare)
  PROVE  Holders'
<1>1. \A u \in Threads \ {t} : Holding(u)' = Holding(u) /\ (Holding(u) => Hand(u)' = Hand(u) /\ Hand(u) # Hand(t))
  BY DEF Others, Holding, Hand, Holders
<1>2. \A u, v \in Threads : Holding(u)' /\ Holding(v)' /\ Hand(u)' = Hand(v)' => u = v
  BY <1>1 DEF Holders
<1>3. \A u \in Threads : Holding(u)' => Hand(u)' \in Nodes \ (fresh \cup Range(spare) \cup Range(list))'
  BY <1>1 DEF Holders
<1>4. ASSUME NEW m \in Nodes \ (fresh \cup Range(spare) \cup Range(list))'
      PROVE  \E u \in Threads : Holding(u)' /\ Hand(u)' = m
  <2>1. PICK u \in Threads : Holding(u) /\ Hand(u) = m
    BY DEF Holders
  <2> QED BY <1>1, <2>1
<1>5. /\ Range(spare)' \cap Range(list)' = {}
      /\ fresh' \cap (Range(spare)' \cup Range(list)') = {}
  BY DEF Holders
<1> QED BY <1>2, <1>3, <1>4, <1>5 DEF Holders

LEMMA HoldersStep ==
  ASSUME IInv, NEW t \in Threads, Step(t)
  PROVE  Holders'
<1>0. TypeOK /\ Holders /\ ListsIntact /\ Versions /\ Carried
  BY DEF IInv
<1>a. Others(t)
  BY <1>0, OthersKept
<1>1. CASE AllocPtr(t) /\ UNCHANGED <<stackVars, val, held>>
  <2>1. HoldersAside(t)
    BY <1>0, <1>1 DEF AllocPtr, HoldersAside, Holding, Hand, HandPlaces, TypeOK, Leave, stackVars, freeVars
  <2> QED BY <1>0, <1>a, <2>1, HoldersFrame
<1>2. CASE AllocId(t) /\ UNCHANGED <<stackVars, val, held>>
  <2>1. HoldersAside(t)
    BY <1>0, <1>2 DEF AllocId, HoldersAside, Holding, Hand, HandPlaces, TypeOK, Leave, stackVars, freeVars
  <2> QED BY <1>0, <1>a, <2>1, HoldersFrame
<1>3. CASE AllocNew(t, "push_node") /\ UNCHANGED <<stackVars, val, held>>
  <2>1. PICK n \in fresh : node' = [node EXCEPT ![t] = n] /\ fresh' = fresh \ {n}
    BY <1>3 DEF AllocNew
  <2>2. n \in Nodes /\ ~Holding(t) /\ Holding(t)' /\ Hand(t)' = n
    BY <1>0, <2>1, <1>3 DEF AllocNew, Holding, Hand, HandPlaces, TypeOK
  <2>3. spare' = spare /\ list' = list
    BY <1>3 DEF AllocNew, stackVars
  <2>4. Range(spare)' = Range(spare) \ {n} /\ Range(list)' = Range(list) \ {n}
    BY <1>0, <2>1, <2>3 DEF Holders
  <2> QED BY <1>0, <1>a, <2>1, <2>2, <2>3, <2>4, HoldersTake DEF Holders
<1>4. CASE AllocNext(t) /\ UNCHANGED <<stackVars, val, held>>
  <2>1. HoldersAside(t)
    BY <1>0, <1>4 DEF AllocNext, HoldersAside, Holding, Hand, HandPlaces, TypeOK, Leave, stackVars, freeVars
  <2> QED BY <1>0, <1>a, <2>1, HoldersFrame
<1>5. CASE AllocCas(t, "push_node") /\ UNCHANGED <<stackVars, val, held>>
  <2>1. CASE pool = tmp[t]
    <3>1. pool.ptr \in Nodes
      BY <1>0, <2>1, <1>5, InRange, PoolTaken DEF TypeOK
    <3>2. ~Holding(t) /\ Holding(t)' /\ Hand(t)' = pool.ptr
      BY <1>0, <2>1, <1>5, PoolTaken DEF AllocCas, Holding, Hand, HandPlaces, TypeOK
    <3>3. list' = list /\ fresh' = fresh
      BY <1>5 DEF AllocCas, stackVars, freeVars
    <3> QED BY <1>0, <1>a, <2>1, <1>5, <3>1, <3>2, <3>3, HoldersTake, PoolTaken DEF Holders
  <2>2. CASE pool # tmp[t]
    <3>1. HoldersAside(t)
      BY <1>0, <2>2, <1>5 DEF AllocCas, HoldersAside, Holding, Hand, HandPlaces, TypeOK, stackVars, freeVars
    <3> QED BY <1>0, <1>a, <3>1, HoldersFrame
  <2> QED BY <2>1, <2>2
<1>6. CASE FreePtr(t) /\ UNCHANGED <<stackVars, val, held>>
  <2>1. HoldersAside(t)
    BY <1>0, <1>6 DEF FreePtr, HoldersAside, Holding, Hand, HandPlaces, TypeOK, Leave, stackVars, freeVars
  <2> QED BY <1>0, <1>a, <2>1, HoldersFrame
<1>7. CASE FreeId(t) /\ UNCHANGED <<stackVars, val, held>>
  <2>1. HoldersAside(t)
    BY <1>0, <1>7 DEF FreeId, HoldersAside, Holding, Hand, HandPlaces, TypeOK, Leave, stackVars, freeVars
  <2> QED BY <1>0, <1>a, <2>1, HoldersFrame
<1>8. CASE FreeLink(t) /\ UNCHANGED <<stackVars, val, held>>
  <2>1. HoldersAside(t)
    BY <1>0, <1>8 DEF FreeLink, HoldersAside, Holding, Hand, HandPlaces, TypeOK, Leave, stackVars, freeVars
  <2> QED BY <1>0, <1>a, <2>1, HoldersFrame
<1>9. CASE FreeCas(t, "pop_return") /\ UNCHANGED <<stackVars, val, held>>
  <2>1. CASE pool = tmp[t]
    <3>1. Holding(t) /\ ~Holding(t)' /\ Hand(t) = node[t]
      BY <1>0, <2>1, <1>9, PoolGiven DEF FreeCas, Holding, Hand, HandPlaces, TypeOK
    <3>2. list' = list /\ fresh' = fresh
      BY <1>9 DEF FreeCas, stackVars, freeVars
    <3> QED BY <1>0, <1>a, <2>1, <1>9, <3>1, <3>2, HoldersGive, PoolGiven DEF Holders
  <2>2. CASE pool # tmp[t]
    <3>1. HoldersAside(t)
      BY <1>0, <2>2, <1>9 DEF FreeCas, HoldersAside, Holding, Hand, HandPlaces, TypeOK, stackVars, freeVars
    <3> QED BY <1>0, <1>a, <3>1, HoldersFrame
  <2> QED BY <2>1, <2>2
<1>10. CASE PushCall(t)
  <2>1. HoldersAside(t)
    BY <1>0, <1>10 DEF PushCall, MayCall, HoldersAside, Holding, Hand, HandPlaces, TypeOK, Leave, stackVars, freeVars
  <2> QED BY <1>0, <1>a, <2>1, HoldersFrame
<1>11. CASE PushNode(t)
  <2>1. HoldersAside(t)
    BY <1>0, <1>11 DEF PushNode, HoldersAside, Holding, Hand, HandPlaces, TypeOK, Leave, stackVars, freeVars
  <2> QED BY <1>0, <1>a, <2>1, HoldersFrame
<1>12. CASE PushPtr(t)
  <2>1. HoldersAside(t)
    BY <1>0, <1>12 DEF PushPtr, HoldersAside, Holding, Hand, HandPlaces, TypeOK, Leave, stackVars, freeVars
  <2> QED BY <1>0, <1>a, <2>1, HoldersFrame
<1>13. CASE PushId(t)
  <2>1. HoldersAside(t)
    BY <1>0, <1>13 DEF PushId, HoldersAside, Holding, Hand, HandPlaces, TypeOK, Leave, stackVars, freeVars
  <2> QED BY <1>0, <1>a, <2>1, HoldersFrame
<1>14. CASE PushLink(t)
  <2>1. HoldersAside(t)
    BY <1>0, <1>14 DEF PushLink, HoldersAside, Holding, Hand, HandPlaces, TypeOK, Leave, stackVars, freeVars
  <2> QED BY <1>0, <1>a, <2>1, HoldersFrame
<1>15. CASE PushCas(t)
  <2>1. CASE top = tmp[t]
    <3>1. Holding(t) /\ ~Holding(t)' /\ Hand(t) = node[t]
      BY <1>0, <2>1, <1>15, Pushed DEF PushCas, Holding, Hand, HandPlaces, TypeOK
    <3>2. spare' = spare /\ fresh' = fresh
      BY <1>15 DEF PushCas, stackVars, freeVars
    <3> QED BY <1>0, <1>a, <2>1, <1>15, <3>1, <3>2, HoldersGive, Pushed DEF Holders
  <2>2. CASE top # tmp[t]
    <3>1. HoldersAside(t)
      BY <1>0, <2>2, <1>15 DEF PushCas, HoldersAside, Holding, Hand, HandPlaces, TypeOK, stackVars, freeVars
    <3> QED BY <1>0, <1>a, <3>1, HoldersFrame
  <2> QED BY <2>1, <2>2
<1>16. CASE PushCount(t)
  <2>1. HoldersAside(t)
    BY <1>0, <1>16 DEF PushCount, HoldersAside, Holding, Hand, HandPlaces, TypeOK, Leave, stackVars, freeVars
  <2> QED BY <1>0, <1>a, <2>1, HoldersFrame
<1>17. CASE PopDec(t)
  <2>1. HoldersAside(t)
    BY <1>0, <1>17 DEF PopDec, MayCall, HoldersAside, Holding, Hand, HandPlaces, TypeOK, Leave, stackVars, freeVars
  <2> QED BY <1>0, <1>a, <2>1, HoldersFrame
<1>18. CASE PopUndo(t)
  <2>1. HoldersAside(t)
    BY <1>0, <1>18 DEF PopUndo, HoldersAside, Holding, Hand, HandPlaces, TypeOK, Leave, stackVars, freeVars
  <2> QED BY <1>0, <1>a, <2>1, HoldersFrame
<1>19. CASE PopPtr(t)
  <2>1. HoldersAside(t)
    BY <1>0, <1>19 DEF PopPtr, HoldersAside, Holding, Hand, HandPlaces, TypeOK, Leave, stackVars, freeVars
  <2> QED BY <1>0, <1>a, <2>1, HoldersFrame
<1>20. CASE PopId(t)
  <2>1. HoldersAside(t)
    BY <1>0, <1>20 DEF PopId, HoldersAside, Holding, Hand, HandPlaces, TypeOK, Leave, stackVars, freeVars
  <2> QED BY <1>0, <1>a, <2>1, HoldersFrame
<1>21. CASE PopNext(t)
  <2>1. HoldersAside(t)
    BY <1>0, <1>21 DEF PopNext, HoldersAside, Holding, Hand, HandPlaces, TypeOK, Leave, stackVars, freeVars
  <2> QED BY <1>0, <1>a, <2>1, HoldersFrame
<1>22. CASE PopCas(t)
  <2>1. CASE top = tmp[t]
    <3>1. top.ptr \in Nodes
      BY <1>0, <2>1, <1>22, InRange, Popped DEF TypeOK
    <3>2. ~Holding(t) /\ Holding(t)' /\ Hand(t)' = top.ptr
      BY <1>0, <2>1, <1>22, Popped DEF PopCas, Holding, Hand, HandPlaces, TypeOK
    <3>3. spare' = spare /\ fresh' = fresh
      BY <1>22 DEF PopCas, stackVars, freeVars
    <3> QED BY <1>0, <1>a, <2>1, <1>22, <3>1, <3>2, <3>3, HoldersTake, Popped DEF Holders
  <2>2. CASE top # tmp[t]
    <3>1. HoldersAside(t)
      BY <1>0, <2>2, <1>22 DEF PopCas, HoldersAside, Holding, Hand, HandPlaces, TypeOK, stackVars, freeVars
    <3> QED BY <1>0, <1>a, <3>1, HoldersFrame
  <2> QED BY <2>1, <2>2
<1>23. CASE PopData(t)
  <2>1. HoldersAside(t)
    BY <1>0, <1>23 DEF PopData, HoldersAside, Holding, Hand, HandPlaces, TypeOK, Leave, stackVars, freeVars
  <2> QED BY <1>0, <1>a, <2>1, HoldersFrame
<1>24. CASE PopReturn(t)
  <2>1. HoldersAside(t)
    BY <1>0, <1>24 DEF PopReturn, HoldersAside, Holding, Hand, HandPlaces, TypeOK, Leave, stackVars, freeVars
  <2> QED BY <1>0, <1>a, <2>1, HoldersFrame
<1> QED
  BY <1>1, <1>2, <1>3, <1>4, <1>5, <1>6, <1>7, <1>8, <1>9, <1>10, <1>11, <1>12, <1>13, <1>14, <1>15, <1>16, <1>17, <1>18, <1>19, <1>20, <1>21, <1>22, <1>23, <1>24
  DEF Step, Alloc, Free

-----------------------------------------------------------------------------
(* Copies *)

(* What a step of another thread leaves of a copy: a word changes with its    *)
(* number, and only a node in hand is written to.                             *)
CopiesAside(t) ==
    /\ pool' = pool \/ (link' = link /\ pool'.id = pool.id + 1)
    /\ top' = top \/ (next' = next /\ top'.id = top.id + 1)
    /\ link' = link \/ (Holding(t) /\ \A n \in Nodes \ {Hand(t)} : link'[n] = link[n])
    /\ next' = next \/ (Holding(t) /\ \A n \in Nodes \ {Hand(t)} : next'[n] = next[n])

LEMMA CurrentFrame ==
  ASSUME TypeOK, Holders, ListsIntact, Versions, NEW t \in Threads, Others(t), CopiesAside(t)
  PROVE  \A u \in Threads \ {t} : Current(u)'
<1> SUFFICES ASSUME NEW u \in Threads \ {t}
             PROVE  Current(u)'
  OBVIOUS
<1> USE DEF CopiesAside
<1>1. /\ pc'[u] = pc[u] /\ tmp'[u] = tmp[u] /\ nxt'[u] = nxt[u] /\ node'[u] = node[u]
      /\ Current(u)
  BY DEF Others, Versions
<1>2. /\ pool.id \in Int /\ top.id \in Int /\ tmp[u].id \in Int
  BY DEF TypeOK, Words
<1>3. /\ pc[u] \in {"alloc_next", "alloc_cas", "free_link", "free_cas"} => tmp[u].id <= pool'.id
      /\ pc[u] \in {"push_link", "push_cas", "pop_next", "pop_cas"} => tmp[u].id <= top'.id
  BY <1>1, <1>2 DEF Current
<1>4. ASSUME pc[u] = "alloc_cas", tmp[u] = pool'
      PROVE  nxt[u] = link'[tmp[u].ptr]
  <2>1. pool' = pool
    BY <1>1, <1>2, <1>4 DEF Current
  <2>2. pool.ptr \in Range(spare) /\ nxt[u] = link[pool.ptr]
    BY <1>1, <1>4, <2>1, TopOf DEF Current, ListsIntact, TypeOK
  <2>3. pool.ptr \in Nodes /\ (Holding(t) => pool.ptr # Hand(t))
    BY <2>2, InRange DEF Holders, TypeOK
  <2> QED BY <1>4, <2>1, <2>2, <2>3
<1>5. ASSUME pc[u] = "pop_cas", tmp[u] = top'
      PROVE  nxt[u] = next'[tmp[u].ptr]
  <2>1. top' = top
    BY <1>1, <1>2, <1>5 DEF Current
  <2>2. top.ptr \in Range(list) /\ nxt[u] = next[top.ptr]
    BY <1>1, <1>5, <2>1, TopOf DEF Current, ListsIntact, TypeOK
  <2>3. top.ptr \in Nodes /\ (Holding(t) => top.ptr # Hand(t))
    BY <2>2, InRange DEF Holders, TypeOK
  <2> QED BY <1>5, <2>1, <2>2, <2>3
<1>6. ASSUME pc[u] \in {"free_cas", "push_cas"}
      PROVE  link'[node[u]] = link[node[u]] /\ next'[node[u]] = next[node[u]]
  <2>1. Holding(u) /\ Hand(u) = node[u] /\ node[u] \in Nodes
    BY <1>6 DEF Holding, Hand, HandPlaces, Holders
  <2>2. Holding(t) => Hand(t) # node[u]
    BY <2>1 DEF Holders
  <2> QED BY <2>1, <2>2
<1> QED BY <1>1, <1>3, <1>4, <1>5, <1>6 DEF Current

LEMMA VersionsStep ==
  ASSUME IInv, NEW t \in Threads, Step(t)
  PROVE  Versions'
<1>0. TypeOK /\ Holders /\ ListsIntact /\ Versions /\ Carried
  BY DEF IInv
<1>a. Others(t)
  BY <1>0, OthersKept
<1>b. (\A u \in Threads \ {t} : Current(u)') /\ Current(t)' => Versions'
  BY DEF Versions
<1>c. Current(t)
  BY <1>0 DEF Versions
<1>1. CASE AllocPtr(t) /\ UNCHANGED <<stackVars, val, held>>
  <2>1. Current(t)'
    BY <1>0, <1>c, <1>1 DEF AllocPtr, Current, TypeOK, Words, Leave, stackVars, freeVars
  <2>2. CopiesAside(t)
    BY <1>1 DEF CopiesAside, AllocPtr, stackVars, freeVars
  <2> QED BY <1>0, <1>a, <2>1, <2>2, <1>b, CurrentFrame
<1>2. CASE AllocId(t) /\ UNCHANGED <<stackVars, val, held>>
  <2>1. Current(t)'
    BY <1>0, <1>c, <1>2 DEF AllocId, Current, TypeOK, Words, Leave, stackVars, freeVars
  <2>2. CopiesAside(t)
    BY <1>2 DEF CopiesAside, AllocId, stackVars, freeVars
  <2> QED BY <1>0, <1>a, <2>1, <2>2, <1>b, CurrentFrame
<1>3. CASE AllocNew(t, "push_node") /\ UNCHANGED <<stackVars, val, held>>
  <2>1. Current(t)'
    BY <1>0, <1>c, <1>3 DEF AllocNew, Current, TypeOK, Words, Leave, stackVars, freeVars
  <2>2. CopiesAside(t)
    BY <1>3 DEF CopiesAside, AllocNew, stackVars, freeVars
  <2> QED BY <1>0, <1>a, <2>1, <2>2, <1>b, CurrentFrame
<1>4. CASE AllocNext(t) /\ UNCHANGED <<stackVars, val, held>>
  <2>1. Current(t)'
    BY <1>0, <1>c, <1>4 DEF AllocNext, Current, TypeOK, Words, Leave, stackVars, freeVars
  <2>2. CopiesAside(t)
    BY <1>4 DEF CopiesAside, AllocNext, stackVars, freeVars
  <2> QED BY <1>0, <1>a, <2>1, <2>2, <1>b, CurrentFrame
<1>5. CASE AllocCas(t, "push_node") /\ UNCHANGED <<stackVars, val, held>>
  <2>1. CASE pool = tmp[t]
    <3>1. Current(t)'
      <4>1. pc'[t] \notin {"alloc_next", "alloc_cas", "free_link", "free_cas", "push_link", "push_cas", "pop_next", "pop_cas"}
        <5>1. pc' = [pc EXCEPT ![t] = "push_node"]
          BY <1>0, <2>1, <1>5, PoolTaken
        <5> QED BY <1>0, <5>1 DEF TypeOK
      <4> QED BY <4>1 DEF Current
    <3>2. CopiesAside(t)
      BY <1>0, <2>1, <1>5, PoolTaken DEF CopiesAside, stackVars, freeVars, AllocCas
    <3> QED BY <1>0, <1>a, <3>1, <3>2, <1>b, CurrentFrame
  <2>2. CASE pool # tmp[t]
    <3>1. Current(t)'
      BY <1>0, <2>2, <1>5 DEF AllocCas, Current, TypeOK, Words
    <3>2. CopiesAside(t)
      BY <2>2, <1>5 DEF CopiesAside, AllocCas, stackVars, freeVars
    <3> QED BY <1>0, <1>a, <3>1, <3>2, <1>b, CurrentFrame
  <2> QED BY <2>1, <2>2
<1>6. CASE FreePtr(t) /\ UNCHANGED <<stackVars, val, held>>
  <2>1. Current(t)'
    BY <1>0, <1>c, <1>6 DEF FreePtr, Current, TypeOK, Words, Leave, stackVars, freeVars
  <2>2. CopiesAside(t)
    BY <1>6 DEF CopiesAside, FreePtr, stackVars, freeVars
  <2> QED BY <1>0, <1>a, <2>1, <2>2, <1>b, CurrentFrame
<1>7. CASE FreeId(t) /\ UNCHANGED <<stackVars, val, held>>
  <2>1. Current(t)'
    BY <1>0, <1>c, <1>7 DEF FreeId, Current, TypeOK, Words, Leave, stackVars, freeVars
  <2>2. CopiesAside(t)
    BY <1>7 DEF CopiesAside, FreeId, stackVars, freeVars
  <2> QED BY <1>0, <1>a, <2>1, <2>2, <1>b, CurrentFrame
<1>8. CASE FreeLink(t) /\ UNCHANGED <<stackVars, val, held>>
  <2>1. node[t] \in Nodes /\ Holding(t) /\ Hand(t) = node[t]
    BY <1>0, <1>8 DEF FreeLink, Holders, Holding, Hand, HandPlaces
  <2>2. Current(t)'
    BY <1>0, <1>c, <2>1, <1>8 DEF FreeLink, Current, TypeOK, Words
  <2>3. \A n \in Nodes \ {Hand(t)} : link'[n] = link[n]
    BY <1>0, <2>1, <1>8 DEF FreeLink, TypeOK
  <2>4. CopiesAside(t)
    BY <2>1, <2>3, <1>8 DEF CopiesAside, FreeLink, stackVars, freeVars
  <2> QED BY <1>0, <1>a, <2>2, <2>4, <1>b, CurrentFrame
<1>9. CASE FreeCas(t, "pop_return") /\ UNCHANGED <<stackVars, val, held>>
  <2>1. CASE pool = tmp[t]
    <3>1. Current(t)'
      <4>1. pc'[t] \notin {"alloc_next", "alloc_cas", "free_link", "free_cas", "push_link", "push_cas", "pop_next", "pop_cas"}
        <5>1. pc' = [pc EXCEPT ![t] = "pop_return"]
          BY <1>0, <2>1, <1>9, PoolGiven
        <5> QED BY <1>0, <5>1 DEF TypeOK
      <4> QED BY <4>1 DEF Current
    <3>2. CopiesAside(t)
      BY <1>0, <2>1, <1>9, PoolGiven DEF CopiesAside, stackVars, freeVars, FreeCas
    <3> QED BY <1>0, <1>a, <3>1, <3>2, <1>b, CurrentFrame
  <2>2. CASE pool # tmp[t]
    <3>1. Current(t)'
      BY <1>0, <2>2, <1>9 DEF FreeCas, Current, TypeOK, Words
    <3>2. CopiesAside(t)
      BY <2>2, <1>9 DEF CopiesAside, FreeCas, stackVars, freeVars
    <3> QED BY <1>0, <1>a, <3>1, <3>2, <1>b, CurrentFrame
  <2> QED BY <2>1, <2>2
<1>10. CASE PushCall(t)
  <2>1. Current(t)'
    BY <1>0, <1>c, <1>10 DEF PushCall, MayCall, Current, TypeOK, Words, Leave, stackVars, freeVars
  <2>2. CopiesAside(t)
    BY <1>10 DEF CopiesAside, PushCall, stackVars, freeVars
  <2> QED BY <1>0, <1>a, <2>1, <2>2, <1>b, CurrentFrame
<1>11. CASE PushNode(t)
  <2>1. node[t] \in Nodes /\ Holding(t) /\ Hand(t) = node[t]
    BY <1>0, <1>11 DEF PushNode, Holders, Holding, Hand, HandPlaces
  <2>2. Current(t)'
    BY <1>0, <1>c, <2>1, <1>11 DEF PushNode, Current, TypeOK, Words
  <2>3. \A n \in Nodes \ {Hand(t)} : next'[n] = next[n]
    BY <1>0, <2>1, <1>11 DEF PushNode, TypeOK
  <2>4. CopiesAside(t)
    BY <2>1, <2>3, <1>11 DEF CopiesAside, PushNode, stackVars, freeVars
  <2> QED BY <1>0, <1>a, <2>2, <2>4, <1>b, CurrentFrame
<1>12. CASE PushPtr(t)
  <2>1. Current(t)'
    BY <1>0, <1>c, <1>12 DEF PushPtr, Current, TypeOK, Words, Leave, stackVars, freeVars
  <2>2. CopiesAside(t)
    BY <1>12 DEF CopiesAside, PushPtr, stackVars, freeVars
  <2> QED BY <1>0, <1>a, <2>1, <2>2, <1>b, CurrentFrame
<1>13. CASE PushId(t)
  <2>1. Current(t)'
    BY <1>0, <1>c, <1>13 DEF PushId, Current, TypeOK, Words, Leave, stackVars, freeVars
  <2>2. CopiesAside(t)
    BY <1>13 DEF CopiesAside, PushId, stackVars, freeVars
  <2> QED BY <1>0, <1>a, <2>1, <2>2, <1>b, CurrentFrame
<1>14. CASE PushLink(t)
  <2>1. node[t] \in Nodes /\ Holding(t) /\ Hand(t) = node[t]
    BY <1>0, <1>14 DEF PushLink, Holders, Holding, Hand, HandPlaces
  <2>2. Current(t)'
    BY <1>0, <1>c, <2>1, <1>14 DEF PushLink, Current, TypeOK, Words
  <2>3. \A n \in Nodes \ {Hand(t)} : next'[n] = next[n]
    BY <1>0, <2>1, <1>14 DEF PushLink, TypeOK
  <2>4. CopiesAside(t)
    BY <2>1, <2>3, <1>14 DEF CopiesAside, PushLink, stackVars, freeVars
  <2> QED BY <1>0, <1>a, <2>2, <2>4, <1>b, CurrentFrame
<1>15. CASE PushCas(t)
  <2>1. CASE top = tmp[t]
    <3>1. Current(t)'
      <4>1. pc'[t] \notin {"alloc_next", "alloc_cas", "free_link", "free_cas", "push_link", "push_cas", "pop_next", "pop_cas"}
        <5>1. pc' = [pc EXCEPT ![t] = "push_count"]
          BY <1>0, <2>1, <1>15, Pushed
        <5> QED BY <1>0, <5>1 DEF TypeOK
      <4> QED BY <4>1 DEF Current
    <3>2. CopiesAside(t)
      BY <1>0, <2>1, <1>15, Pushed DEF CopiesAside, stackVars, freeVars, PushCas
    <3> QED BY <1>0, <1>a, <3>1, <3>2, <1>b, CurrentFrame
  <2>2. CASE top # tmp[t]
    <3>1. Current(t)'
      BY <1>0, <2>2, <1>15 DEF PushCas, Current, TypeOK, Words
    <3>2. CopiesAside(t)
      BY <2>2, <1>15 DEF CopiesAside, PushCas, stackVars, freeVars
    <3> QED BY <1>0, <1>a, <3>1, <3>2, <1>b, CurrentFrame
  <2> QED BY <2>1, <2>2
<1>16. CASE PushCount(t)
  <2>1. Current(t)'
    BY <1>0, <1>c, <1>16 DEF PushCount, Current, TypeOK, Words, Leave, stackVars, freeVars
  <2>2. CopiesAside(t)
    BY <1>16 DEF CopiesAside, PushCount, stackVars, freeVars
  <2> QED BY <1>0, <1>a, <2>1, <2>2, <1>b, CurrentFrame
<1>17. CASE PopDec(t)
  <2>1. Current(t)'
    BY <1>0, <1>c, <1>17 DEF PopDec, MayCall, Current, TypeOK, Words, Leave, stackVars, freeVars
  <2>2. CopiesAside(t)
    BY <1>17 DEF CopiesAside, PopDec, stackVars, freeVars
  <2> QED BY <1>0, <1>a, <2>1, <2>2, <1>b, CurrentFrame
<1>18. CASE PopUndo(t)
  <2>1. Current(t)'
    BY <1>0, <1>c, <1>18 DEF PopUndo, Current, TypeOK, Words, Leave, stackVars, freeVars
  <2>2. CopiesAside(t)
    BY <1>18 DEF CopiesAside, PopUndo, stackVars, freeVars
  <2> QED BY <1>0, <1>a, <2>1, <2>2, <1>b, CurrentFrame
<1>19. CASE PopPtr(t)
  <2>1. Current(t)'
    BY <1>0, <1>c, <1>19 DEF PopPtr, Current, TypeOK, Words, Leave, stackVars, freeVars
  <2>2. CopiesAside(t)
    BY <1>19 DEF CopiesAside, PopPtr, stackVars, freeVars
  <2> QED BY <1>0, <1>a, <2>1, <2>2, <1>b, CurrentFrame
<1>20. CASE PopId(t)
  <2>1. Current(t)'
    BY <1>0, <1>c, <1>20 DEF PopId, Current, TypeOK, Words, Leave, stackVars, freeVars
  <2>2. CopiesAside(t)
    BY <1>20 DEF CopiesAside, PopId, stackVars, freeVars
  <2> QED BY <1>0, <1>a, <2>1, <2>2, <1>b, CurrentFrame
<1>21. CASE PopNext(t)
  <2>1. Current(t)'
    BY <1>0, <1>c, <1>21 DEF PopNext, Current, TypeOK, Words, Leave, stackVars, freeVars
  <2>2. CopiesAside(t)
    BY <1>21 DEF CopiesAside, PopNext, stackVars, freeVars
  <2> QED BY <1>0, <1>a, <2>1, <2>2, <1>b, CurrentFrame
<1>22. CASE PopCas(t)
  <2>1. CASE top = tmp[t]
    <3>1. Current(t)'
      <4>1. pc'[t] \notin {"alloc_next", "alloc_cas", "free_link", "free_cas", "push_link", "push_cas", "pop_next", "pop_cas"}
        <5>1. pc' = [pc EXCEPT ![t] = "pop_data"]
          BY <1>0, <2>1, <1>22, Popped
        <5> QED BY <1>0, <5>1 DEF TypeOK
      <4> QED BY <4>1 DEF Current
    <3>2. CopiesAside(t)
      BY <1>0, <2>1, <1>22, Popped DEF CopiesAside, stackVars, freeVars, PopCas
    <3> QED BY <1>0, <1>a, <3>1, <3>2, <1>b, CurrentFrame
  <2>2. CASE top # tmp[t]
    <3>1. Current(t)'
      BY <1>0, <2>2, <1>22 DEF PopCas, Current, TypeOK, Words
    <3>2. CopiesAside(t)
      BY <2>2, <1>22 DEF CopiesAside, PopCas, stackVars, freeVars
    <3> QED BY <1>0, <1>a, <3>1, <3>2, <1>b, CurrentFrame
  <2> QED BY <2>1, <2>2
<1>23. CASE PopData(t)
  <2>1. Current(t)'
    BY <1>0, <1>c, <1>23 DEF PopData, Current, TypeOK, Words, Leave, stackVars, freeVars
  <2>2. CopiesAside(t)
    BY <1>23 DEF CopiesAside, PopData, stackVars, freeVars
  <2> QED BY <1>0, <1>a, <2>1, <2>2, <1>b, CurrentFrame
<1>24. CASE PopReturn(t)
  <2>1. Current(t)'
    BY <1>0, <1>c, <1>24 DEF PopReturn, Current, TypeOK, Words, Leave, stackVars, freeVars
  <2>2. CopiesAside(t)
    BY <1>24 DEF CopiesAside, PopReturn, stackVars, freeVars
  <2> QED BY <1>0, <1>a, <2>1, <2>2, <1>b, CurrentFrame
<1> QED
  BY <1>1, <1>2, <1>3, <1>4, <1>5, <1>6, <1>7, <1>8, <1>9, <1>10, <1>11, <1>12, <1>13, <1>14, <1>15, <1>16, <1>17, <1>18, <1>19, <1>20, <1>21, <1>22, <1>23, <1>24
  DEF Step, Alloc, Free

-----------------------------------------------------------------------------
(* What calls carry *)

(* Only a node in hand is written to. *)
DataAside(t) == data' = data \/ (Holding(t) /\ \A n \in Nodes \ {Hand(t)} : data'[n] = data[n])

LEMMA CarriedFrame ==
  ASSUME TypeOK, Holders, Carried, NEW t \in Threads, Others(t), DataAside(t)
  PROVE  /\ \A u \in Threads \ {t} : Carries(u)'
         /\ \A n \in Range(list) : data'[n] \in Indices
<1>1. ASSUME NEW u \in Threads \ {t}
      PROVE  Carries(u)'
  <2>1. /\ pc'[u] = pc[u] /\ tmp'[u] = tmp[u] /\ node'[u] = node[u] /\ val'[u] = val[u]
        /\ Carries(u)
    BY DEF Others, Carried
  <2>2. Holding(u) => data'[Hand(u)] = data[Hand(u)]
    BY DEF DataAside, Holders
  <2>3. /\ pc[u] \in OwnPlaces => data'[node[u]] = data[node[u]]
        /\ pc[u] = "pop_data" => data'[tmp[u].ptr] = data[tmp[u].ptr]
    BY <2>2 DEF Holding, Hand, HandPlaces, OwnPlaces
  <2> QED BY <2>1, <2>3 DEF Carries
<1>2. ASSUME NEW n \in Range(list)
      PROVE  data'[n] \in Indices
  <2>1. n \in Nodes /\ (Holding(t) => n # Hand(t))
    BY InRange DEF Holders, TypeOK
  <2> QED BY <2>1 DEF DataAside, Carried
<1> QED BY <1>1, <1>2

LEMMA CarriedStep ==
  ASSUME IInv, NEW t \in Threads, Step(t)
  PROVE  Carried'
<1>0. TypeOK /\ Holders /\ ListsIntact /\ Versions /\ Carried
  BY DEF IInv
<1>a. Others(t)
  BY <1>0, OthersKept
<1>b. (\A u \in Threads \ {t} : Carries(u)') /\ Carries(t)' /\ (\A n \in Range(list') : data'[n] \in Indices) => Carried'
  BY DEF Carried
<1>c. Carries(t)
  BY <1>0 DEF Carried
<1>1. CASE AllocPtr(t) /\ UNCHANGED <<stackVars, val, held>>
  <2>1. Carries(t)'
    BY <1>0, <1>c, <1>1 DEF AllocPtr, Carries, TypeOK, Leave, stackVars, freeVars, AllocPlaces, OwnPlaces, FreePlaces, TakePlaces
  <2>2. DataAside(t) /\ list' = list
    BY <1>1 DEF DataAside, AllocPtr, stackVars, freeVars
  <2> QED BY <1>0, <1>a, <2>1, <2>2, <1>b, CarriedFrame
<1>2. CASE AllocId(t) /\ UNCHANGED <<stackVars, val, held>>
  <2>1. Carries(t)'
    BY <1>0, <1>c, <1>2 DEF AllocId, Carries, TypeOK, Leave, stackVars, freeVars, AllocPlaces, OwnPlaces, FreePlaces, TakePlaces
  <2>2. DataAside(t) /\ list' = list
    BY <1>2 DEF DataAside, AllocId, stackVars, freeVars
  <2> QED BY <1>0, <1>a, <2>1, <2>2, <1>b, CarriedFrame
<1>3. CASE AllocNew(t, "push_node") /\ UNCHANGED <<stackVars, val, held>>
  <2>1. Carries(t)'
    BY <1>0, <1>c, <1>3 DEF AllocNew, Carries, TypeOK, Leave, stackVars, freeVars, AllocPlaces, OwnPlaces, FreePlaces, TakePlaces
  <2>2. DataAside(t) /\ list' = list
    BY <1>3 DEF DataAside, AllocNew, stackVars, freeVars
  <2> QED BY <1>0, <1>a, <2>1, <2>2, <1>b, CarriedFrame
<1>4. CASE AllocNext(t) /\ UNCHANGED <<stackVars, val, held>>
  <2>1. Carries(t)'
    BY <1>0, <1>c, <1>4 DEF AllocNext, Carries, TypeOK, Leave, stackVars, freeVars, AllocPlaces, OwnPlaces, FreePlaces, TakePlaces
  <2>2. DataAside(t) /\ list' = list
    BY <1>4 DEF DataAside, AllocNext, stackVars, freeVars
  <2> QED BY <1>0, <1>a, <2>1, <2>2, <1>b, CarriedFrame
<1>5. CASE AllocCas(t, "push_node") /\ UNCHANGED <<stackVars, val, held>>
  <2>1. Carries(t)'
    <3>1. CASE pool = tmp[t]
      BY <1>0, <1>c, <3>1, <1>5, PoolTaken DEF AllocCas, Carries, TypeOK, AllocPlaces, OwnPlaces, FreePlaces, TakePlaces
    <3>2. CASE pool # tmp[t]
      BY <1>0, <1>c, <3>2, <1>5 DEF AllocCas, Carries, TypeOK, AllocPlaces, OwnPlaces, FreePlaces, TakePlaces
    <3> QED BY <3>1, <3>2
  <2>2. DataAside(t) /\ list' = list
    BY <1>5 DEF DataAside, stackVars
  <2> QED BY <1>0, <1>a, <2>1, <2>2, <1>b, CarriedFrame
<1>6. CASE FreePtr(t) /\ UNCHANGED <<stackVars, val, held>>
  <2>1. Carries(t)'
    BY <1>0, <1>c, <1>6 DEF FreePtr, Carries, TypeOK, Leave, stackVars, freeVars, AllocPlaces, OwnPlaces, FreePlaces, TakePlaces
  <2>2. DataAside(t) /\ list' = list
    BY <1>6 DEF DataAside, FreePtr, stackVars, freeVars
  <2> QED BY <1>0, <1>a, <2>1, <2>2, <1>b, CarriedFrame
<1>7. CASE FreeId(t) /\ UNCHANGED <<stackVars, val, held>>
  <2>1. Carries(t)'
    BY <1>0, <1>c, <1>7 DEF FreeId, Carries, TypeOK, Leave, stackVars, freeVars, AllocPlaces, OwnPlaces, FreePlaces, TakePlaces
  <2>2. DataAside(t) /\ list' = list
    BY <1>7 DEF DataAside, FreeId, stackVars, freeVars
  <2> QED BY <1>0, <1>a, <2>1, <2>2, <1>b, CarriedFrame
<1>8. CASE FreeLink(t) /\ UNCHANGED <<stackVars, val, held>>
  <2>1. Carries(t)'
    BY <1>0, <1>c, <1>8 DEF FreeLink, Carries, TypeOK, Leave, stackVars, freeVars, AllocPlaces, OwnPlaces, FreePlaces, TakePlaces
  <2>2. DataAside(t) /\ list' = list
    BY <1>8 DEF DataAside, FreeLink, stackVars, freeVars
  <2> QED BY <1>0, <1>a, <2>1, <2>2, <1>b, CarriedFrame
<1>9. CASE FreeCas(t, "pop_return") /\ UNCHANGED <<stackVars, val, held>>
  <2>1. Carries(t)'
    <3>1. CASE pool = tmp[t]
      BY <1>0, <1>c, <3>1, <1>9, PoolGiven DEF FreeCas, Carries, TypeOK, AllocPlaces, OwnPlaces, FreePlaces, TakePlaces
    <3>2. CASE pool # tmp[t]
      BY <1>0, <1>c, <3>2, <1>9 DEF FreeCas, Carries, TypeOK, AllocPlaces, OwnPlaces, FreePlaces, TakePlaces
    <3> QED BY <3>1, <3>2
  <2>2. DataAside(t) /\ list' = list
    BY <1>9 DEF DataAside, stackVars
  <2> QED BY <1>0, <1>a, <2>1, <2>2, <1>b, CarriedFrame
<1>10. CASE PushCall(t)
  <2>1. Carries(t)'
    BY <1>0, <1>c, <1>10 DEF PushCall, MayCall, Carries, TypeOK, Leave, stackVars, freeVars, AllocPlaces, OwnPlaces, FreePlaces, TakePlaces
  <2>2. DataAside(t) /\ list' = list
    BY <1>10 DEF DataAside, PushCall, stackVars, freeVars
  <2> QED BY <1>0, <1>a, <2>1, <2>2, <1>b, CarriedFrame
<1>11. CASE PushNode(t)
  <2>1. node[t] \in Nodes /\ Holding(t) /\ Hand(t) = node[t]
    BY <1>0, <1>11 DEF PushNode, Holders, Holding, Hand, HandPlaces
  <2>2. Carries(t)'
    BY <1>0, <1>c, <2>1, <1>11 DEF PushNode, Carries, TypeOK, AllocPlaces, OwnPlaces, FreePlaces, TakePlaces
  <2>3. DataAside(t) /\ list' = list
    BY <1>0, <2>1, <1>11 DEF PushNode, DataAside, TypeOK
  <2> QED BY <1>0, <1>a, <2>2, <2>3, <1>b, CarriedFrame
<1>12. CASE PushPtr(t)
  <2>1. Carries(t)'
    BY <1>0, <1>c, <1>12 DEF PushPtr, Carries, TypeOK, Leave, stackVars, freeVars, AllocPlaces, OwnPlaces, FreePlaces, TakePlaces
  <2>2. DataAside(t) /\ list' = list
    BY <1>12 DEF DataAside, PushPtr, stackVars, freeVars
  <2> QED BY <1>0, <1>a, <2>1, <2>2, <1>b, CarriedFrame
<1>13. CASE PushId(t)
  <2>1. Carries(t)'
    BY <1>0, <1>c, <1>13 DEF PushId, Carries, TypeOK, Leave, stackVars, freeVars, AllocPlaces, OwnPlaces, FreePlaces, TakePlaces
  <2>2. DataAside(t) /\ list' = list
    BY <1>13 DEF DataAside, PushId, stackVars, freeVars
  <2> QED BY <1>0, <1>a, <2>1, <2>2, <1>b, CarriedFrame
<1>14. CASE PushLink(t)
  <2>1. Carries(t)'
    BY <1>0, <1>c, <1>14 DEF PushLink, Carries, TypeOK, Leave, stackVars, freeVars, AllocPlaces, OwnPlaces, FreePlaces, TakePlaces
  <2>2. DataAside(t) /\ list' = list
    BY <1>14 DEF DataAside, PushLink, stackVars, freeVars
  <2> QED BY <1>0, <1>a, <2>1, <2>2, <1>b, CarriedFrame
<1>15. CASE PushCas(t)
  <2>1. CASE top = tmp[t]
    <3>1. Carries(t)' /\ DataAside(t)
      BY <1>0, <1>c, <2>1, <1>15, Pushed DEF Carries, DataAside, TypeOK, PushCas, AllocPlaces, OwnPlaces, FreePlaces, TakePlaces
    <3>2. data' = data /\ data[node[t]] \in Indices /\ Range(list') = Range(list) \cup {node[t]}
      BY <1>0, <1>c, <2>1, <1>15, Pushed DEF Carries, PushCas, AllocPlaces, OwnPlaces, FreePlaces, TakePlaces
    <3> QED BY <1>0, <1>a, <3>1, <3>2, <1>b, CarriedFrame
  <2>2. CASE top # tmp[t]
    <3>1. Carries(t)' /\ DataAside(t) /\ list' = list
      BY <1>0, <1>c, <2>2, <1>15 DEF PushCas, Carries, DataAside, TypeOK, AllocPlaces, OwnPlaces, FreePlaces, TakePlaces
    <3> QED BY <1>0, <1>a, <3>1, <1>b, CarriedFrame
  <2> QED BY <2>1, <2>2
<1>16. CASE PushCount(t)
  <2>1. Carries(t)'
    BY <1>0, <1>c, <1>16 DEF PushCount, Carries, TypeOK, Leave, stackVars, freeVars, AllocPlaces, OwnPlaces, FreePlaces, TakePlaces
  <2>2. DataAside(t) /\ list' = list
    BY <1>16 DEF DataAside, PushCount, stackVars, freeVars
  <2> QED BY <1>0, <1>a, <2>1, <2>2, <1>b, CarriedFrame
<1>17. CASE PopDec(t)
  <2>1. Carries(t)'
    BY <1>0, <1>c, <1>17 DEF PopDec, MayCall, Carries, TypeOK, Leave, stackVars, freeVars, AllocPlaces, OwnPlaces, FreePlaces, TakePlaces
  <2>2. DataAside(t) /\ list' = list
    BY <1>17 DEF DataAside, PopDec, stackVars, freeVars
  <2> QED BY <1>0, <1>a, <2>1, <2>2, <1>b, CarriedFrame
<1>18. CASE PopUndo(t)
  <2>1. Carries(t)'
    BY <1>0, <1>c, <1>18 DEF PopUndo, Carries, TypeOK, Leave, stackVars, freeVars, AllocPlaces, OwnPlaces, FreePlaces, TakePlaces
  <2>2. DataAside(t) /\ list' = list
    BY <1>18 DEF DataAside, PopUndo, stackVars, freeVars
  <2> QED BY <1>0, <1>a, <2>1, <2>2, <1>b, CarriedFrame
<1>19. CASE PopPtr(t)
  <2>1. Carries(t)'
    BY <1>0, <1>c, <1>19 DEF PopPtr, Carries, TypeOK, Leave, stackVars, freeVars, AllocPlaces, OwnPlaces, FreePlaces, TakePlaces
  <2>2. DataAside(t) /\ list' = list
    BY <1>19 DEF DataAside, PopPtr, stackVars, freeVars
  <2> QED BY <1>0, <1>a, <2>1, <2>2, <1>b, CarriedFrame
<1>20. CASE PopId(t)
  <2>1. Carries(t)'
    BY <1>0, <1>c, <1>20 DEF PopId, Carries, TypeOK, Leave, stackVars, freeVars, AllocPlaces, OwnPlaces, FreePlaces, TakePlaces
  <2>2. DataAside(t) /\ list' = list
    BY <1>20 DEF DataAside, PopId, stackVars, freeVars
  <2> QED BY <1>0, <1>a, <2>1, <2>2, <1>b, CarriedFrame
<1>21. CASE PopNext(t)
  <2>1. Carries(t)'
    BY <1>0, <1>c, <1>21 DEF PopNext, Carries, TypeOK, Leave, stackVars, freeVars, AllocPlaces, OwnPlaces, FreePlaces, TakePlaces
  <2>2. DataAside(t) /\ list' = list
    BY <1>21 DEF DataAside, PopNext, stackVars, freeVars
  <2> QED BY <1>0, <1>a, <2>1, <2>2, <1>b, CarriedFrame
<1>22. CASE PopCas(t)
  <2>1. CASE top = tmp[t]
    <3>1. data[tmp[t].ptr] \in Indices
      BY <1>0, <2>1, <1>22, Popped DEF Carried
    <3>2. Carries(t)' /\ DataAside(t)
      BY <1>0, <1>c, <2>1, <1>22, <3>1, Popped DEF Carries, DataAside, TypeOK, PopCas, AllocPlaces, OwnPlaces, FreePlaces, TakePlaces
    <3>3. data' = data /\ Range(list') \subseteq Range(list)
      BY <1>0, <2>1, <1>22, Popped
    <3> QED BY <1>0, <1>a, <3>2, <3>3, <1>b, CarriedFrame
  <2>2. CASE top # tmp[t]
    <3>1. Carries(t)' /\ DataAside(t) /\ list' = list
      BY <1>0, <1>c, <2>2, <1>22 DEF PopCas, Carries, DataAside, TypeOK, AllocPlaces, OwnPlaces, FreePlaces, TakePlaces
    <3> QED BY <1>0, <1>a, <3>1, <1>b, CarriedFrame
  <2> QED BY <2>1, <2>2
<1>23. CASE PopData(t)
  <2>1. tmp[t].ptr \in Nodes
    BY <1>23, <1>0 DEF PopData, Holders, Holding, Hand
  <2>2. Carries(t)'
    BY <1>0, <1>c, <2>1, <1>23 DEF PopData, Carries, TypeOK, stackVars, AllocPlaces, OwnPlaces, FreePlaces, TakePlaces
  <2>3. DataAside(t) /\ list' = list
    BY <1>23 DEF PopData, DataAside, stackVars
  <2> QED BY <1>0, <1>a, <2>2, <2>3, <1>b, CarriedFrame
<1>24. CASE PopReturn(t)
  <2>1. Carries(t)'
    BY <1>0, <1>c, <1>24 DEF PopReturn, Carries, TypeOK, Leave, stackVars, freeVars, AllocPlaces, OwnPlaces, FreePlaces, TakePlaces
  <2>2. DataAside(t) /\ list' = list
    BY <1>24 DEF DataAside, PopReturn, stackVars, freeVars
  <2> QED BY <1>0, <1>a, <2>1, <2>2, <1>b, CarriedFrame
<1> QED
  BY <1>1, <1>2, <1>3, <1>4, <1>5, <1>6, <1>7, <1>8, <1>9, <1>10, <1>11, <1>12, <1>13, <1>14, <1>15, <1>16, <1>17, <1>18, <1>19, <1>20, <1>21, <1>22, <1>23, <1>24
  DEF Step, Alloc, Free

-----------------------------------------------------------------------------
(* The count *)

(* Two sets of threads that differ in t at most. *)
LEMMA MemberFrame ==
  ASSUME NEW S \in SUBSET Threads, NEW R \in SUBSET Threads, NEW t, R \ {t} = S \ {t}
  PROVE  /\ Cardinality(S) \in Nat /\ Cardinality(R) \in Nat
         /\ Cardinality(R) - Cardinality(S) = (IF t \in R THEN 1 ELSE 0) - (IF t \in S THEN 1 ELSE 0)
<1>1. IsFiniteSet(S) /\ IsFiniteSet(R) /\ IsFiniteSet(S \ {t})
  BY FS_Subset, FS_RemoveElement
<1>2. /\ Cardinality(S) \in Nat /\ Cardinality(R) \in Nat /\ Cardinality(S \ {t}) \in Nat
      /\ Cardinality(S \ {t}) = IF t \in S THEN Cardinality(S) - 1 ELSE Cardinality(S)
      /\ Cardinality(S \ {t}) = IF t \in R THEN Cardinality(R) - 1 ELSE Cardinality(R)
  BY <1>1, FS_RemoveElement, FS_CardinalityType
<1> QED BY <1>2

(* What t does to the length of the list and to the count is what it changes  *)
(* in the set of those who are about to.                                      *)
Ahead(place) == IF place \in {"push_count", "pop_undo"} \cup TakePlaces THEN 1 ELSE 0

Undo(place) == IF place = "pop_undo" THEN 1 ELSE 0

LEMMA UndoneBefore ==
  ASSUME NEW a \in Int, NEW b \in Int, NEW s \in Nat, NEW r \in Nat, NEW u \in 0..1, NEW v \in 0..1,
         a + s >= 0, r - s = v - u, b - a + v - u >= 0 \/ b + v >= 0, u = 1 => s >= 1
  PROVE  b + r >= 0
OBVIOUS

LEMMA CountFrame ==
  ASSUME TypeOK, TypeOK', Counted, NEW t \in Threads, Others(t),
         Len(list') - Len(list) = count' - count + Ahead(pc'[t]) - Ahead(pc[t]),
         count' - count + Undo(pc'[t]) - Undo(pc[t]) >= 0 \/ count' + Undo(pc'[t]) >= 0
  PROVE  Counted'
<1>1. /\ Cardinality(CountAhead) \in Nat /\ Cardinality(CountAhead') \in Nat
      /\ Cardinality(CountAhead') - Cardinality(CountAhead) = Ahead(pc'[t]) - Ahead(pc[t])
  <2>1. /\ CountAhead \in SUBSET Threads /\ CountAhead' \in SUBSET Threads
        /\ CountAhead' \ {t} = CountAhead \ {t}
        /\ Ahead(pc[t]) = IF t \in CountAhead THEN 1 ELSE 0
        /\ Ahead(pc'[t]) = IF t \in CountAhead' THEN 1 ELSE 0
    BY DEF CountAhead, Others, Ahead
  <2> HIDE DEF CountAhead
  <2> QED BY <2>1, MemberFrame
<1>2. /\ Cardinality(Undoing) \in Nat /\ Cardinality(Undoing') \in Nat
      /\ Cardinality(Undoing') - Cardinality(Undoing) = Undo(pc'[t]) - Undo(pc[t])
  <2>1. /\ Undoing \in SUBSET Threads /\ Undoing' \in SUBSET Threads
        /\ Undoing' \ {t} = Undoing \ {t}
        /\ Undo(pc[t]) = IF t \in Undoing THEN 1 ELSE 0
        /\ Undo(pc'[t]) = IF t \in Undoing' THEN 1 ELSE 0
    BY DEF Undoing, Others, Undo
  <2> QED BY <2>1, MemberFrame
<1>3. count \in Int /\ count' \in Int /\ Len(list) \in Nat /\ Len(list') \in Nat
  BY LenProperties DEF TypeOK
<1>4. Ahead(pc[t]) \in Int /\ Ahead(pc'[t]) \in Int /\ Undo(pc[t]) \in Int /\ Undo(pc'[t]) \in Int
  BY DEF Ahead, Undo
<1>5. Len(list') = count' + Cardinality(CountAhead')
  <2>1. Len(list) = count + Cardinality(CountAhead)
    BY DEF Counted
  <2>2. Len(list') - Len(list) = count' - count + (Cardinality(CountAhead') - Cardinality(CountAhead))
    BY <1>1, <1>3, <1>4
  <2> QED BY <1>1, <1>3, <2>1, <2>2
<1>6. count' + Cardinality(Undoing') >= 0
  <2>1. count + Cardinality(Undoing) >= 0
    BY DEF Counted
  <2>2. Undo(pc[t]) = 1 => Cardinality(Undoing) >= 1
    <3>1. Undo(pc[t]) = 1 => t \in Undoing
      BY DEF Undo, Undoing
    <3>2. IsFiniteSet(Undoing) /\ (t \in Undoing => Cardinality(Undoing) # 0)
      BY FS_Subset, FS_EmptySet DEF Undoing
    <3> QED BY <1>2, <3>1, <3>2
  <2>3. Undo(pc[t]) \in 0..1 /\ Undo(pc'[t]) \in 0..1
    BY DEF Undo
  <2> QED BY <1>2, <1>3, <2>1, <2>2, <2>3, UndoneBefore
<1> QED BY <1>5, <1>6 DEF Counted

(* While somebody goes on to take a node there is one. *)
LEMMA NodeForPop ==
  ASSUME TypeOK, ListsIntact, Counted, NEW t \in Threads, pc[t] \in TakePlaces
  PROVE  list # <<>> /\ top.ptr \in Nodes
<1>1. /\ CountAhead \in SUBSET Threads /\ t \in CountAhead /\ t \notin Undoing
      /\ Undoing \subseteq CountAhead
  BY DEF CountAhead, Undoing, TakePlaces
<1>2. IsFiniteSet(CountAhead) /\ Undoing \cup {t} \in SUBSET CountAhead
  BY <1>1, FS_Subset
<1>3. /\ IsFiniteSet(Undoing) /\ Cardinality(Undoing) \in Nat /\ Cardinality(CountAhead) \in Nat
      /\ Cardinality(Undoing \cup {t}) = Cardinality(Undoing) + 1
      /\ Cardinality(Undoing \cup {t}) <= Cardinality(CountAhead)
  BY <1>1, <1>2, FS_Subset, FS_AddElement, FS_CardinalityType
<1>4. Len(list) > 0
  BY <1>3, LenProperties DEF Counted, TypeOK
<1> QED BY <1>4, TopOf DEF ListsIntact, TypeOK

LEMMA CountedStep ==
  ASSUME IInv, NEW t \in Threads, Step(t)
  PROVE  Counted'
<1>0. TypeOK /\ Holders /\ ListsIntact /\ Versions /\ Counted
  BY DEF IInv
<1>a. Others(t)
  BY <1>0, OthersKept
<1>b. TypeOK'
  BY TypeStep
<1>c. /\ count \in Int /\ count' \in Int /\ Len(list) \in Nat /\ Len(list') \in Nat
      /\ pc'[t] \in Places /\ pc' = [pc EXCEPT ![t] = pc'[t]]
  BY <1>0, <1>b, <1>a, LenProperties DEF TypeOK, Others
<1>1. CASE AllocPtr(t) /\ UNCHANGED <<stackVars, val, held>>
  <2>1. Len(list') - Len(list) = count' - count + Ahead(pc'[t]) - Ahead(pc[t])
    BY <1>0, <1>c, <1>1 DEF AllocPtr, Ahead, Undo, TakePlaces, TypeOK, Leave, stackVars, freeVars
  <2>2. count' - count + Undo(pc'[t]) - Undo(pc[t]) >= 0
    BY <1>0, <1>c, <1>1 DEF AllocPtr, Ahead, Undo, TakePlaces, TypeOK, Leave, stackVars, freeVars
  <2> QED BY <1>0, <1>a, <1>b, <2>1, <2>2, CountFrame
<1>2. CASE AllocId(t) /\ UNCHANGED <<stackVars, val, held>>
  <2>1. Len(list') - Len(list) = count' - count + Ahead(pc'[t]) - Ahead(pc[t])
    BY <1>0, <1>c, <1>2 DEF AllocId, Ahead, Undo, TakePlaces, TypeOK, Leave, stackVars, freeVars
  <2>2. count' - count + Undo(pc'[t]) - Undo(pc[t]) >= 0
    BY <1>0, <1>c, <1>2 DEF AllocId, Ahead, Undo, TakePlaces, TypeOK, Leave, stackVars, freeVars
  <2> QED BY <1>0, <1>a, <1>b, <2>1, <2>2, CountFrame
<1>3. CASE AllocNew(t, "push_node") /\ UNCHANGED <<stackVars, val, held>>
  <2>1. Len(list') - Len(list) = count' - count + Ahead(pc'[t]) - Ahead(pc[t])
    BY <1>0, <1>c, <1>3 DEF AllocNew, Ahead, Undo, TakePlaces, TypeOK, Leave, stackVars, freeVars
  <2>2. count' - count + Undo(pc'[t]) - Undo(pc[t]) >= 0
    BY <1>0, <1>c, <1>3 DEF AllocNew, Ahead, Undo, TakePlaces, TypeOK, Leave, stackVars, freeVars
  <2> QED BY <1>0, <1>a, <1>b, <2>1, <2>2, CountFrame
<1>4. CASE AllocNext(t) /\ UNCHANGED <<stackVars, val, held>>
  <2>1. Len(list') - Len(list) = count' - count + Ahead(pc'[t]) - Ahead(pc[t])
    BY <1>0, <1>c, <1>4 DEF AllocNext, Ahead, Undo, TakePlaces, TypeOK, Leave, stackVars, freeVars
  <2>2. count' - count + Undo(pc'[t]) - Undo(pc[t]) >= 0
    BY <1>0, <1>c, <1>4 DEF AllocNext, Ahead, Undo, TakePlaces, TypeOK, Leave, stackVars, freeVars
  <2> QED BY <1>0, <1>a, <1>b, <2>1, <2>2, CountFrame
<1>5. CASE AllocCas(t, "push_node") /\ UNCHANGED <<stackVars, val, held>>
  <2>1. Len(list') - Len(list) = count' - count + Ahead(pc'[t]) - Ahead(pc[t])
    BY <1>0, <1>c, <1>5 DEF AllocCas, Ahead, Undo, TakePlaces, TypeOK, Leave, stackVars, freeVars
  <2>2. count' - count + Undo(pc'[t]) - Undo(pc[t]) >= 0
    BY <1>0, <1>c, <1>5 DEF AllocCas, Ahead, Undo, TakePlaces, TypeOK, Leave, stackVars, freeVars
  <2> QED BY <1>0, <1>a, <1>b, <2>1, <2>2, CountFrame
<1>6. CASE FreePtr(t) /\ UNCHANGED <<stackVars, val, held>>
  <2>1. Len(list') - Len(list) = count' - count + Ahead(pc'[t]) - Ahead(pc[t])
    BY <1>0, <1>c, <1>6 DEF FreePtr, Ahead, Undo, TakePlaces, TypeOK, Leave, stackVars, freeVars
  <2>2. count' - count + Undo(pc'[t]) - Undo(pc[t]) >= 0
    BY <1>0, <1>c, <1>6 DEF FreePtr, Ahead, Undo, TakePlaces, TypeOK, Leave, stackVars, freeVars
  <2> QED BY <1>0, <1>a, <1>b, <2>1, <2>2, CountFrame
<1>7. CASE FreeId(t) /\ UNCHANGED <<stackVars, val, held>>
  <2>1. Len(list') - Len(list) = count' - count + Ahead(pc'[t]) - Ahead(pc[t])
    BY <1>0, <1>c, <1>7 DEF FreeId, Ahead, Undo, TakePlaces, TypeOK, Leave, stackVars, freeVars
  <2>2. count' - count + Undo(pc'[t]) - Undo(pc[t]) >= 0
    BY <1>0, <1>c, <1>7 DEF FreeId, Ahead, Undo, TakePlaces, TypeOK, Leave, stackVars, freeVars
  <2> QED BY <1>0, <1>a, <1>b, <2>1, <2>2, CountFrame
<1>8. CASE FreeLink(t) /\ UNCHANGED <<stackVars, val, held>>
  <2>1. Len(list') - Len(list) = count' - count + Ahead(pc'[t]) - Ahead(pc[t])
    BY <1>0, <1>c, <1>8 DEF FreeLink, Ahead, Undo, TakePlaces, TypeOK, Leave, stackVars, freeVars
  <2>2. count' - count + Undo(pc'[t]) - Undo(pc[t]) >= 0
    BY <1>0, <1>c, <1>8 DEF FreeLink, Ahead, Undo, TakePlaces, TypeOK, Leave, stackVars, freeVars
  <2> QED BY <1>0, <1>a, <1>b, <2>1, <2>2, CountFrame
<1>9. CASE FreeCas(t, "pop_return") /\ UNCHANGED <<stackVars, val, held>>
  <2>1. Len(list') - Len(list) = count' - count + Ahead(pc'[t]) - Ahead(pc[t])
    BY <1>0, <1>c, <1>9 DEF FreeCas, Ahead, Undo, TakePlaces, TypeOK, Leave, stackVars, freeVars
  <2>2. count' - count + Undo(pc'[t]) - Undo(pc[t]) >= 0
    BY <1>0, <1>c, <1>9 DEF FreeCas, Ahead, Undo, TakePlaces, TypeOK, Leave, stackVars, freeVars
  <2> QED BY <1>0, <1>a, <1>b, <2>1, <2>2, CountFrame
<1>10. CASE PushCall(t)
  <2>1. Len(list') - Len(list) = count' - count + Ahead(pc'[t]) - Ahead(pc[t])
    BY <1>0, <1>c, <1>10 DEF PushCall, MayCall, Ahead, Undo, TakePlaces, TypeOK, Leave, stackVars, freeVars
  <2>2. count' - count + Undo(pc'[t]) - Undo(pc[t]) >= 0
    BY <1>0, <1>c, <1>10 DEF PushCall, MayCall, Ahead, Undo, TakePlaces, TypeOK, Leave, stackVars, freeVars
  <2> QED BY <1>0, <1>a, <1>b, <2>1, <2>2, CountFrame
<1>11. CASE PushNode(t)
  <2>1. Len(list') - Len(list) = count' - count + Ahead(pc'[t]) - Ahead(pc[t])
    BY <1>0, <1>c, <1>11 DEF PushNode, Ahead, Undo, TakePlaces, TypeOK, Leave, stackVars, freeVars
  <2>2. count' - count + Undo(pc'[t]) - Undo(pc[t]) >= 0
    BY <1>0, <1>c, <1>11 DEF PushNode, Ahead, Undo, TakePlaces, TypeOK, Leave, stackVars, freeVars
  <2> QED BY <1>0, <1>a, <1>b, <2>1, <2>2, CountFrame
<1>12. CASE PushPtr(t)
  <2>1. Len(list') - Len(list) = count' - count + Ahead(pc'[t]) - Ahead(pc[t])
    BY <1>0, <1>c, <1>12 DEF PushPtr, Ahead, Undo, TakePlaces, TypeOK, Leave, stackVars, freeVars
  <2>2. count' - count + Undo(pc'[t]) - Undo(pc[t]) >= 0
    BY <1>0, <1>c, <1>12 DEF PushPtr, Ahead, Undo, TakePlaces, TypeOK, Leave, stackVars, freeVars
  <2> QED BY <1>0, <1>a, <1>b, <2>1, <2>2, CountFrame
<1>13. CASE PushId(t)
  <2>1. Len(list') - Len(list) = count' - count + Ahead(pc'[t]) - Ahead(pc[t])
    BY <1>0, <1>c, <1>13 DEF PushId, Ahead, Undo, TakePlaces, TypeOK, Leave, stackVars, freeVars
  <2>2. count' - count + Undo(pc'[t]) - Undo(pc[t]) >= 0
    BY <1>0, <1>c, <1>13 DEF PushId, Ahead, Undo, TakePlaces, TypeOK, Leave, stackVars, freeVars
  <2> QED BY <1>0, <1>a, <1>b, <2>1, <2>2, CountFrame
<1>14. CASE PushLink(t)
  <2>1. Len(list') - Len(list) = count' - count + Ahead(pc'[t]) - Ahead(pc[t])
    BY <1>0, <1>c, <1>14 DEF PushLink, Ahead, Undo, TakePlaces, TypeOK, Leave, stackVars, freeVars
  <2>2. count' - count + Undo(pc'[t]) - Undo(pc[t]) >= 0
    BY <1>0, <1>c, <1>14 DEF PushLink, Ahead, Undo, TakePlaces, TypeOK, Leave, stackVars, freeVars
  <2> QED BY <1>0, <1>a, <1>b, <2>1, <2>2, CountFrame
<1>15. CASE PushCas(t)
  <2>1. Len(list') - Len(list) = count' - count + Ahead(pc'[t]) - Ahead(pc[t])
    <3>1. CASE top = tmp[t]
      <4>1. /\ Len(list') = Len(list) + 1 /\ count' = count
            /\ pc'[t] = "push_count" /\ pc[t] = "push_cas"
        <5>1. pc' = [pc EXCEPT ![t] = "push_count"] /\ Len(list') = Len(list) + 1 /\ count' = count /\ pc[t] = "push_cas"
          BY <1>0, <3>1, <1>15, Pushed DEF PushCas
        <5> QED BY <1>0, <5>1 DEF TypeOK
      <4> QED BY <1>c, <4>1 DEF Ahead, TakePlaces
    <3>2. CASE top # tmp[t]
      BY <1>0, <1>c, <3>2, <1>15 DEF PushCas, Ahead, Undo, TakePlaces, TypeOK, Leave, stackVars, freeVars
    <3> QED BY <3>1, <3>2
  <2>2. count' - count + Undo(pc'[t]) - Undo(pc[t]) >= 0
    BY <1>0, <1>c, <1>15 DEF PushCas, Ahead, Undo, TakePlaces, TypeOK, Leave, stackVars, freeVars
  <2> QED BY <1>0, <1>a, <1>b, <2>1, <2>2, CountFrame
<1>16. CASE PushCount(t)
  <2>1. Len(list') - Len(list) = count' - count + Ahead(pc'[t]) - Ahead(pc[t])
    BY <1>0, <1>c, <1>16 DEF PushCount, Ahead, Undo, TakePlaces, TypeOK, Leave, stackVars, freeVars
  <2>2. count' - count + Undo(pc'[t]) - Undo(pc[t]) >= 0
    BY <1>0, <1>c, <1>16 DEF PushCount, Ahead, Undo, TakePlaces, TypeOK, Leave, stackVars, freeVars
  <2> QED BY <1>0, <1>a, <1>b, <2>1, <2>2, CountFrame
<1>17. CASE PopDec(t)
  <2>1. Len(list') - Len(list) = count' - count + Ahead(pc'[t]) - Ahead(pc[t])
    BY <1>0, <1>c, <1>17 DEF PopDec, MayCall, Ahead, Undo, TakePlaces, TypeOK, Leave, stackVars, freeVars
  <2>2. count' - count + Undo(pc'[t]) - Undo(pc[t]) >= 0 \/ count' + Undo(pc'[t]) >= 0
    BY <1>0, <1>c, <1>17 DEF PopDec, MayCall, Ahead, Undo, TakePlaces, TypeOK, Leave, stackVars, freeVars
  <2> QED BY <1>0, <1>a, <1>b, <2>1, <2>2, CountFrame
<1>18. CASE PopUndo(t)
  <2>1. Len(list') - Len(list) = count' - count + Ahead(pc'[t]) - Ahead(pc[t])
    BY <1>0, <1>c, <1>18 DEF PopUndo, Ahead, Undo, TakePlaces, TypeOK, Leave, stackVars, freeVars
  <2>2. count' - count + Undo(pc'[t]) - Undo(pc[t]) >= 0
    BY <1>0, <1>c, <1>18 DEF PopUndo, Ahead, Undo, TakePlaces, TypeOK, Leave, stackVars, freeVars
  <2> QED BY <1>0, <1>a, <1>b, <2>1, <2>2, CountFrame
<1>19. CASE PopPtr(t)
  <2>1. Len(list') - Len(list) = count' - count + Ahead(pc'[t]) - Ahead(pc[t])
    BY <1>0, <1>c, <1>19 DEF PopPtr, Ahead, Undo, TakePlaces, TypeOK, Leave, stackVars, freeVars
  <2>2. count' - count + Undo(pc'[t]) - Undo(pc[t]) >= 0
    BY <1>0, <1>c, <1>19 DEF PopPtr, Ahead, Undo, TakePlaces, TypeOK, Leave, stackVars, freeVars
  <2> QED BY <1>0, <1>a, <1>b, <2>1, <2>2, CountFrame
<1>20. CASE PopId(t)
  <2>1. Len(list') - Len(list) = count' - count + Ahead(pc'[t]) - Ahead(pc[t])
    BY <1>0, <1>c, <1>20 DEF PopId, Ahead, Undo, TakePlaces, TypeOK, Leave, stackVars, freeVars
  <2>2. count' - count + Undo(pc'[t]) - Undo(pc[t]) >= 0
    BY <1>0, <1>c, <1>20 DEF PopId, Ahead, Undo, TakePlaces, TypeOK, Leave, stackVars, freeVars
  <2> QED BY <1>0, <1>a, <1>b, <2>1, <2>2, CountFrame
<1>21. CASE PopNext(t)
  <2>1. Len(list') - Len(list) = count' - count + Ahead(pc'[t]) - Ahead(pc[t])
    BY <1>0, <1>c, <1>21 DEF PopNext, Ahead, Undo, TakePlaces, TypeOK, Leave, stackVars, freeVars
  <2>2. count' - count + Undo(pc'[t]) - Undo(pc[t]) >= 0
    BY <1>0, <1>c, <1>21 DEF PopNext, Ahead, Undo, TakePlaces, TypeOK, Leave, stackVars, freeVars
  <2> QED BY <1>0, <1>a, <1>b, <2>1, <2>2, CountFrame
<1>22. CASE PopCas(t)
  <2>1. Len(list') - Len(list) = count' - count + Ahead(pc'[t]) - Ahead(pc[t])
    <3>1. CASE top = tmp[t]
      <4>1. /\ Len(list') = Len(list) - 1 /\ count' = count
            /\ pc'[t] = "pop_data" /\ pc[t] = "pop_cas"
        <5>1. pc' = [pc EXCEPT ![t] = "pop_data"] /\ Len(list') = Len(list) - 1 /\ count' = count /\ pc[t] = "pop_cas"
          BY <1>0, <3>1, <1>22, Popped DEF PopCas
        <5> QED BY <1>0, <5>1 DEF TypeOK
      <4> QED BY <1>c, <4>1 DEF Ahead, TakePlaces
    <3>2. CASE top # tmp[t]
      BY <1>0, <1>c, <3>2, <1>22 DEF PopCas, Ahead, Undo, TakePlaces, TypeOK, Leave, stackVars, freeVars
    <3> QED BY <3>1, <3>2
  <2>2. count' - count + Undo(pc'[t]) - Undo(pc[t]) >= 0
    BY <1>0, <1>c, <1>22 DEF PopCas, Ahead, Undo, TakePlaces, TypeOK, Leave, stackVars, freeVars
  <2> QED BY <1>0, <1>a, <1>b, <2>1, <2>2, CountFrame
<1>23. CASE PopData(t)
  <2>1. Len(list') - Len(list) = count' - count + Ahead(pc'[t]) - Ahead(pc[t])
    BY <1>0, <1>c, <1>23 DEF PopData, Ahead, Undo, TakePlaces, TypeOK, Leave, stackVars, freeVars
  <2>2. count' - count + Undo(pc'[t]) - Undo(pc[t]) >= 0
    BY <1>0, <1>c, <1>23 DEF PopData, Ahead, Undo, TakePlaces, TypeOK, Leave, stackVars, freeVars
  <2> QED BY <1>0, <1>a, <1>b, <2>1, <2>2, CountFrame
<1>24. CASE PopReturn(t)
  <2>1. Len(list') - Len(list) = count' - count + Ahead(pc'[t]) - Ahead(pc[t])
    BY <1>0, <1>c, <1>24 DEF PopReturn, Ahead, Undo, TakePlaces, TypeOK, Leave, stackVars, freeVars
  <2>2. count' - count + Undo(pc'[t]) - Undo(pc[t]) >= 0
    BY <1>0, <1>c, <1>24 DEF PopReturn, Ahead, Undo, TakePlaces, TypeOK, Leave, stackVars, freeVars
  <2> QED BY <1>0, <1>a, <1>b, <2>1, <2>2, CountFrame
<1> QED
  BY <1>1, <1>2, <1>3, <1>4, <1>5, <1>6, <1>7, <1>8, <1>9, <1>10, <1>11, <1>12, <1>13, <1>14, <1>15, <1>16, <1>17, <1>18, <1>19, <1>20, <1>21, <1>22, <1>23, <1>24
  DEF Step, Alloc, Free

LEMMA FoundStep ==
  ASSUME IInv, NEW t \in Threads, Step(t)
  PROVE  Found'
<1>0. TypeOK /\ ListsIntact /\ Counted /\ Found /\ Others(t) /\ TypeOK'
  BY OthersKept, TypeStep DEF IInv
<1> SUFFICES pc'[t] \in {"pop_id", "pop_next"} => tmp'[t].ptr # NULL
  BY <1>0 DEF Found, Others
<1>n. pc[t] \in {"pop_ptr", "pop_cas"} => top.ptr # NULL
  BY <1>0, NodeForPop DEF TakePlaces
<1>w. tmp[t] \in Words /\ pc \in [Threads -> Places] /\ tmp \in [Threads -> Words]
  BY <1>0 DEF TypeOK
<1>1. CASE AllocPtr(t) /\ UNCHANGED <<stackVars, val, held>>
  BY <1>w, <1>1 DEF AllocPtr
<1>2. CASE AllocId(t) /\ UNCHANGED <<stackVars, val, held>>
  BY <1>w, <1>2 DEF AllocId
<1>3. CASE AllocNew(t, "push_node") /\ UNCHANGED <<stackVars, val, held>>
  BY <1>w, <1>3 DEF AllocNew
<1>4. CASE AllocNext(t) /\ UNCHANGED <<stackVars, val, held>>
  BY <1>w, <1>4 DEF AllocNext
<1>5. CASE AllocCas(t, "push_node") /\ UNCHANGED <<stackVars, val, held>>
  BY <1>w, <1>5 DEF AllocCas
<1>6. CASE FreePtr(t) /\ UNCHANGED <<stackVars, val, held>>
  BY <1>w, <1>6 DEF FreePtr
<1>7. CASE FreeId(t) /\ UNCHANGED <<stackVars, val, held>>
  BY <1>w, <1>7 DEF FreeId
<1>8. CASE FreeLink(t) /\ UNCHANGED <<stackVars, val, held>>
  BY <1>w, <1>8 DEF FreeLink
<1>9. CASE FreeCas(t, "pop_return") /\ UNCHANGED <<stackVars, val, held>>
  BY <1>w, <1>9 DEF FreeCas
<1>10. CASE PushCall(t)
  BY <1>w, <1>10 DEF PushCall, MayCall
<1>11. CASE PushNode(t)
  BY <1>w, <1>11 DEF PushNode
<1>12. CASE PushPtr(t)
  BY <1>w, <1>12 DEF PushPtr
<1>13. CASE PushId(t)
  BY <1>w, <1>13 DEF PushId
<1>14. CASE PushLink(t)
  BY <1>w, <1>14 DEF PushLink
<1>15. CASE PushCas(t)
  BY <1>w, <1>15 DEF PushCas
<1>16. CASE PushCount(t)
  BY <1>w, <1>16 DEF PushCount, Leave
<1>17. CASE PopDec(t)
  BY <1>w, <1>17 DEF PopDec, MayCall
<1>18. CASE PopUndo(t)
  BY <1>w, <1>18 DEF PopUndo, Leave
<1>19. CASE PopPtr(t)
  BY <1>0, <1>n, <1>w, <1>19 DEF PopPtr, Found, Words
<1>20. CASE PopId(t)
  BY <1>0, <1>n, <1>w, <1>20 DEF PopId, Found, Words
<1>21. CASE PopNext(t)
  BY <1>w, <1>21 DEF PopNext
<1>22. CASE PopCas(t)
  BY <1>0, <1>n, <1>w, <1>22 DEF PopCas, Found, Words
<1>23. CASE PopData(t)
  BY <1>w, <1>23 DEF PopData
<1>24. CASE PopReturn(t)
  BY <1>w, <1>24 DEF PopReturn, Leave
<1> QED
  BY <1>1, <1>2, <1>3, <1>4, <1>5, <1>6, <1>7, <1>8, <1>9, <1>10, <1>11, <1>12, <1>13, <1>14, <1>15, <1>16, <1>17, <1>18, <1>19, <1>20, <1>21, <1>22, <1>23, <1>24
  DEF Step, Alloc, Free

LEMMA InitIInv == Init => IInv
<1> SUFFICES ASSUME Init PROVE IInv
  OBVIOUS
<1> USE DEF Init
<1>1. TypeOK
  BY DEF TypeOK, Words, NoTop, Places
<1>2. spare = <<>> /\ list = <<>> /\ Range(spare) = {} /\ Range(list) = {}
  BY DEF Range
<1>3. Holders
  BY <1>2 DEF Holders, IsInjective, Holding, HandPlaces
<1>4. ListsIntact
  BY <1>2 DEF ListsIntact, Linked, NoTop
<1>5. Versions
  BY DEF Versions, Current
<1>6. Carried
  BY <1>2 DEF Carried, Carries, AllocPlaces, OwnPlaces, FreePlaces, TakePlaces
<1>7. Counted
  <2>1. CountAhead = {} /\ Undoing = {}
    BY DEF CountAhead, Undoing, TakePlaces
  <2>2. Len(list) = 0 /\ Cardinality({}) = 0
    BY <1>2, FS_EmptySet
  <2> QED BY <2>1, <2>2 DEF Counted
<1>8. Found
  BY DEF Found
<1> QED BY <1>1, <1>3, <1>4, <1>5, <1>6, <1>7, <1>8 DEF IInv

LEMMA StepIInv ==
  ASSUME IInv, [Next]_vars
  PROVE  IInv'
<1>1. CASE Next
  <2>1. PICK t \in Threads : Step(t)
    BY <1>1 DEF Next
  <2> QED BY <2>1, TypeStep, ListsStep, HoldersStep, VersionsStep, CarriedStep, CountedStep, FoundStep DEF IInv
<1>2. CASE UNCHANGED vars
  <2> USE <1>2 DEF IInv, vars
  <2>1. TypeOK'
    BY DEF TypeOK
  <2>2. Holders'
    BY DEF Holders, Holding, Hand
  <2>3. ListsIntact'
    BY DEF ListsIntact
  <2>4. Versions'
    BY DEF Versions, Current
  <2>5. Carried'
    BY DEF Carried, Carries
  <2>6. Counted' /\ Found'
    BY DEF Counted, CountAhead, Undoing, Found
  <2> QED BY <2>1, <2>2, <2>3, <2>4, <2>5, <2>6
<1> QED BY <1>1, <1>2

(* The inductive invariant of the stack and its pool, for any number of       *)
(* threads and nodes.                                                         *)
THEOREM StackInvariant == Spec => []IInv
<1>1. Init => IInv
  BY InitIInv
<1>2. IInv /\ [Next]_vars => IInv'
  BY StepIInv
<1> QED BY <1>1, <1>2, PTL DEF Spec

(* Whatever the threads' interleaving, no exchange of LockFreeStack.h or      *)
(* FreeList.h succeeds on a stale next: both lists stay what was put in and   *)
(* not taken out.                                                             *)
THEOREM ListsCorrect == Spec => []ListsIntact
<1>1. IInv => ListsIntact
  BY DEF IInv
<1> QED BY <1>1, StackInvariant, PTL

LEMMA OneIndex ==
  ASSUME NEW seq \in Seq(Nodes), IsInjective(seq), NEW i \in DOMAIN seq
  PROVE  {j \in DOMAIN seq : seq[j] = seq[i]} = {i}
BY DEF IsInjective

LEMMA NoIndex ==
  ASSUME NEW seq \in Seq(Nodes), NEW n, n \notin Range(seq)
  PROVE  {j \in DOMAIN seq : seq[j] = n} = {}
BY DEF Range

(* m_Count lets no Pop go on without a node to take: none reads the next of   *)
(* NULL.                                                                      *)
THEOREM PopFindsNode == Spec => []Found
<1>1. IInv => Found
  BY DEF IInv
<1> QED BY <1>1, StackInvariant, PTL

(* Every node of the two structures is in exactly one place: with the heap,   *)
(* in the pool, in the stack, or in the hands of one thread.                  *)
THEOREM HolderCorrect == Spec => []OneHolder
<1>1. IInv => OneHolder
  <2> SUFFICES ASSUME IInv, NEW n \in Nodes
               PROVE  Cardinality({<<"heap">> : x \in {y \in fresh : y = n}}
                        \cup {<<"pool", i>> : i \in {j \in DOMAIN spare : spare[j] = n}}
                        \cup {<<"stack", i>> : i \in {j \in DOMAIN list : list[j] = n}}
                        \cup {<<"thread", t>> : t \in {u \in Threads :
                                \/ pc[u] \in HandPlaces /\ node[u] = n
                                \/ pc[u] = "pop_data" /\ tmp[u].ptr = n}}) = 1
    BY DEF OneHolder
  <2> DEFINE Heap == {y \in fresh : y = n}
             Pool == {j \in DOMAIN spare : spare[j] = n}
             Stk == {j \in DOMAIN list : list[j] = n}
             Hands == {u \in Threads :
                        \/ pc[u] \in HandPlaces /\ node[u] = n
                        \/ pc[u] = "pop_data" /\ tmp[u].ptr = n}
             All == {<<"heap">> : x \in Heap} \cup {<<"pool", i>> : i \in Pool}
                      \cup {<<"stack", i>> : i \in Stk} \cup {<<"thread", t>> : t \in Hands}
  <2>0. /\ spare \in Seq(Nodes) /\ list \in Seq(Nodes) /\ Holders
        /\ IsInjective(spare) /\ IsInjective(list)
    BY DEF IInv, TypeOK, Holders
  <2>1. Hands = {u \in Threads : Holding(u) /\ Hand(u) = n}
    BY DEF Holding, Hand, HandPlaces
  <2>2. n \notin Range(spare) => Pool = {}
    BY <2>0, NoIndex
  <2>3. n \notin Range(list) => Stk = {}
    BY <2>0, NoIndex
  <2>4. n \in fresh \cup Range(spare) \cup Range(list) => Hands = {}
    BY <2>0, <2>1 DEF Holders
  <2>5. \E p : All = {p}
    <3>1. CASE n \in fresh
      <4>1. Heap = {n} /\ Pool = {} /\ Stk = {} /\ Hands = {}
        BY <3>1, <2>0, <2>2, <2>3, <2>4 DEF Holders
      <4> HIDE DEF Heap, Pool, Stk, Hands
      <4>2. All = {<<"heap">>}
        BY <4>1
      <4> QED BY <4>2
    <3>2. CASE n \in Range(spare)
      <4>1. PICK i \in 1..Len(spare) : n = spare[i]
        BY <3>2, <2>0, InRange
      <4>2. Pool = {i}
        BY <4>1, <2>0, OneIndex
      <4>3. Heap = {} /\ Stk = {} /\ Hands = {}
        BY <3>2, <2>0, <2>3, <2>4 DEF Holders
      <4> HIDE DEF Heap, Pool, Stk, Hands
      <4>4. All = {<<"pool", i>>}
        BY <4>2, <4>3
      <4> QED BY <4>4
    <3>3. CASE n \in Range(list)
      <4>1. PICK i \in 1..Len(list) : n = list[i]
        BY <3>3, <2>0, InRange
      <4>2. Stk = {i}
        BY <4>1, <2>0, OneIndex
      <4>3. Heap = {} /\ Pool = {} /\ Hands = {}
        BY <3>3, <2>0, <2>2, <2>4 DEF Holders
      <4> HIDE DEF Heap, Pool, Stk, Hands
      <4>4. All = {<<"stack", i>>}
        BY <4>2, <4>3
      <4> QED BY <4>4
    <3>4. CASE n \in Nodes \ (fresh \cup Range(spare) \cup Range(list))
      <4>1. PICK t \in Threads : Hands = {t}
        BY <3>4, <2>0, <2>1 DEF Holders
      <4>2. Heap = {} /\ Pool = {} /\ Stk = {}
        BY <3>4, <2>0, <2>2, <2>3
      <4> HIDE DEF Heap, Pool, Stk, Hands
      <4>3. All = {<<"thread", t>>}
        BY <4>1, <4>2
      <4> QED BY <4>3
    <3> QED BY <3>1, <3>2, <3>3, <3>4
  <2>6. Cardinality(All) = 1
    BY <2>5, FS_Singleton
  <2> QED BY <2>6
<1> QED BY <1>1, StackInvariant, PTL

(* A Pop answers that the stack is empty only if every node in it is spoken   *)
(* for: m_Count is never ahead of the list.                                   *)
THEOREM EmptyCorrect == Spec => EmptyIsHonest
<1> DEFINE Behind(t) == {u \in Threads \ {t} :
             pc[u] \in {"push_count", "pop_undo", "pop_ptr", "pop_id", "pop_next", "pop_cas"}}
           Honest == \A t \in Threads : pc[t] = "idle" /\ pc'[t] = "pop_undo" => Len(list) <= Cardinality(Behind(t))
<1>1. IInv /\ [Next]_vars => [Honest]_vars
  <2> SUFFICES ASSUME IInv, Next, NEW t \in Threads, pc[t] = "idle", pc'[t] = "pop_undo"
               PROVE  Len(list) <= Cardinality(Behind(t))
    BY DEF vars
  <2>1. PICK u \in Threads : Step(u)
    BY DEF Next
  <2>2. u = t
    BY <2>1, OthersKept DEF IInv, Others
  <2>3. count' = count - 1 /\ count - 1 < 0
    BY <2>1, <2>2 DEF IInv, TypeOK, Step, Alloc, Free, AllocPtr, AllocId, AllocNew, AllocNext, AllocCas,
         FreePtr, FreeId, FreeLink, FreeCas, PushCall, PushNode, PushPtr, PushId, PushLink, PushCas, PushCount,
         PopDec, PopUndo, PopPtr, PopId, PopNext, PopCas, PopData, PopReturn, Leave
  <2>4. Behind(t) = CountAhead
    BY DEF CountAhead, TakePlaces
  <2>5. /\ Len(list) = count + Cardinality(CountAhead) /\ count \in Int /\ Len(list) \in Nat
        /\ Cardinality(CountAhead) \in Nat
    BY FS_Subset, FS_CardinalityType, LenProperties DEF IInv, Counted, TypeOK, CountAhead
  <2> HIDE DEF Behind
  <2> QED BY <2>3, <2>4, <2>5
<1>2. Spec => [][Honest]_vars
  BY <1>1, StackInvariant, PTL DEF Spec
<1> QED BY <1>2 DEF EmptyIsHonest

-----------------------------------------------------------------------------
(* The stack of nodes as a stack of indices *)

(* The stack and the calls of AtomicStack. *)
Content == [i \in DOMAIN list |-> data[list[i]]]

InCall(t) ==
    CASE pc[t] = "pop_data" -> data[tmp[t].ptr]
      [] pc[t] = "push_count" -> None
      [] OTHER -> val[t]

Calls == [t \in Threads |-> InCall(t)]

(* Only the thread that fills a new node writes an index. *)
LEMMA DataKept ==
  ASSUME IInv, NEW t \in Threads, Step(t)
  PROVE  DataAside(t) /\ (pc[t] # "push_node" => data' = data)
<1>1. CASE PushNode(t)
  BY <1>1 DEF IInv, TypeOK, PushNode, DataAside, Holding, Hand, HandPlaces
<1>2. CASE ~PushNode(t)
  <2>1. data' = data
    BY <1>2 DEF Step, Alloc, Free, PushCall, PushPtr, PushId, PushLink, PushCas, PushCount,
        PopDec, PopUndo, PopPtr, PopId, PopNext, PopCas, PopData, PopReturn
  <2> QED BY <2>1 DEF DataAside
<1> QED BY <1>1, <1>2

(* A step of t changes the call of t only. *)
LEMMA CallsFrame ==
  ASSUME IInv, NEW t \in Threads, Step(t)
  PROVE  Calls' = [Calls EXCEPT ![t] = InCall(t)']
<1>1. ASSUME NEW u \in Threads \ {t} PROVE InCall(u)' = InCall(u)
  <2>1. pc'[u] = pc[u] /\ tmp'[u] = tmp[u] /\ val'[u] = val[u] /\ DataAside(t) /\ Holders
    BY OthersKept, DataKept DEF Others, IInv
  <2>2. CASE pc[u] = "pop_data"
    <3>1. tmp[u].ptr \in Nodes /\ (Holding(t) => Hand(t) # tmp[u].ptr)
      BY <2>1, <2>2 DEF Holders, Holding, Hand
    <3>2. data'[tmp[u].ptr] = data[tmp[u].ptr]
      BY <2>1, <3>1 DEF DataAside
    <3> QED BY <2>1, <2>2, <3>2 DEF InCall
  <2>3. CASE pc[u] # "pop_data"
    BY <2>1, <2>3 DEF InCall
  <2> QED BY <2>2, <2>3
<1> QED BY <1>1 DEF Calls

(* A step that leaves the list leaves its indices. *)
LEMMA ContentFrame ==
  ASSUME IInv, NEW t \in Threads, Step(t), list' = list
  PROVE  Content' = Content
<1>1. list \in Seq(Nodes) /\ \A i \in 1..Len(list) : list[i] \in Range(list) /\ list[i] \in Nodes
  BY InRange DEF IInv, TypeOK
<1>2. \A n \in Range(list) : data'[n] = data[n]
  BY <1>1, InRange, DataKept DEF DataAside, Holders, IInv
<1> QED BY <1>1, <1>2 DEF Content

LEMMA ContentIs ==
  ASSUME TypeOK
  PROVE  /\ Content \in Seq(Indices \cup {None}) /\ Len(Content) = Len(list) /\ Len(list) \in Nat
         /\ \A i \in 1..Len(list) : Content[i] = data[list[i]]
<1>1. list \in Seq(Nodes) /\ Len(list) \in Nat /\ DOMAIN list = 1..Len(list)
  BY LenProperties DEF TypeOK
<1>2. \A i \in 1..Len(list) : list[i] \in Nodes
  BY <1>1
<1>3. \A i \in 1..Len(list) : data[list[i]] \in Indices \cup {None}
  BY <1>2 DEF TypeOK
<1>4. Content \in [1..Len(list) -> Indices \cup {None}] /\ \A i \in 1..Len(list) : Content[i] = data[list[i]]
  BY <1>1, <1>3 DEF Content
<1> HIDE DEF Content
<1>5. Content \in Seq(Indices \cup {None}) /\ DOMAIN Content = 1..Len(list)
  BY <1>1, <1>4
<1> QED BY <1>1, <1>4, <1>5, LenProperties

LEMMA ContentPushed ==
  ASSUME IInv, NEW t \in Threads, PushCas(t), top = tmp[t]
  PROVE  Content' = <<val[t]>> \o Content
<1>1. /\ list' = <<node[t]>> \o list /\ data' = data /\ data[node[t]] = val[t]
      /\ list \in Seq(Nodes) /\ node[t] \in Nodes
  BY Pushed DEF IInv, Carried, Carries, PushCas, OwnPlaces, TypeOK
<1>2. /\ Len(list') = Len(list) + 1 /\ DOMAIN list' = 1..(Len(list) + 1) /\ Len(list) \in Nat
      /\ \A i \in 1..(Len(list) + 1) : list'[i] = IF i = 1 THEN node[t] ELSE list[i - 1]
  <2>1. <<node[t]>> \in Seq(Nodes) /\ Len(<<node[t]>>) = 1 /\ <<node[t]>>[1] = node[t]
    BY <1>1
  <2> QED BY <1>1, <2>1, ConcatProperties, LenProperties
<1>3. /\ Content \in Seq(Indices \cup {None}) /\ Len(Content) = Len(list)
      /\ \A i \in 1..Len(list) : Content[i] = data[list[i]]
  BY ContentIs DEF IInv
<1>4. val[t] \in Indices \cup {None}
  BY DEF IInv, TypeOK
<1> DEFINE long == <<val[t]>> \o Content
<1>5. /\ DOMAIN long = 1..(Len(list) + 1) /\ long = [i \in 1..(Len(list) + 1) |-> long[i]]
      /\ \A i \in 1..(Len(list) + 1) : long[i] = IF i = 1 THEN val[t] ELSE Content[i - 1]
  <2>1. <<val[t]>> \in Seq(Indices \cup {None}) /\ Len(<<val[t]>>) = 1 /\ <<val[t]>>[1] = val[t]
    BY <1>4
  <2> HIDE DEF Content
  <2>2. /\ long \in Seq(Indices \cup {None}) /\ Len(long) = 1 + Len(Content)
        /\ \A i \in 1..(1 + Len(Content)) : long[i] = IF i <= 1 THEN <<val[t]>>[i] ELSE Content[i - 1]
    BY <1>3, <2>1, ConcatProperties
  <2> HIDE DEF long
  <2> QED BY <1>2, <1>3, <2>1, <2>2
<1>6. Content' = [i \in 1..(Len(list) + 1) |-> data[list'[i]]]
  BY <1>1, <1>2 DEF Content
<1>7. ASSUME NEW i \in 1..(Len(list) + 1) PROVE data[list'[i]] = long[i]
  <2>1. CASE i = 1
    BY <1>1, <1>2, <1>5, <2>1
  <2>2. CASE i # 1
    <3>1. i - 1 \in 1..Len(list)
      BY <1>2, <2>2
    <3>2. list'[i] = list[i - 1] /\ long[i] = Content[i - 1]
      BY <1>2, <1>5, <2>2
    <3> QED BY <1>3, <3>1, <3>2
  <2> QED BY <2>1, <2>2
<1> HIDE DEF long
<1>8. Content' = long
  BY <1>5, <1>6, <1>7
<1> QED BY <1>8 DEF long

LEMMA ContentPopped ==
  ASSUME IInv, NEW t \in Threads, PopCas(t), top = tmp[t]
  PROVE  Content # <<>> /\ Head(Content) = data[tmp[t].ptr] /\ Content' = Tail(Content)
<1>1. /\ list' = Tail(list) /\ data' = data /\ list # <<>> /\ tmp[t].ptr = Head(list)
      /\ list \in Seq(Nodes)
  BY Popped DEF IInv, TypeOK
<1>2. /\ Content \in Seq(Indices \cup {None}) /\ Len(Content) = Len(list)
      /\ \A i \in 1..Len(list) : Content[i] = data[list[i]]
      /\ Len(list) \in Nat \ {0} /\ Content # <<>>
  <2>1. /\ Content \in Seq(Indices \cup {None}) /\ Len(Content) = Len(list) /\ Len(list) \in Nat
        /\ \A i \in 1..Len(list) : Content[i] = data[list[i]]
    BY ContentIs DEF IInv
  <2>2. Len(list) # 0
    BY <1>1, EmptySeq
  <2> HIDE DEF Content
  <2> QED BY <2>1, <2>2, EmptySeq
<1>3. /\ list' \in Seq(Nodes) /\ Len(list') = Len(list) - 1 /\ DOMAIN list' = 1..Len(list')
      /\ \A i \in 1..Len(list') : list'[i] = list[i + 1]
      /\ Head(list) = list[1]
  <2>1. /\ Tail(list) \in Seq(Nodes) /\ Len(Tail(list)) = Len(list) - 1
        /\ \A i \in 1..Len(Tail(list)) : Tail(list)[i] = list[i + 1]
    BY <1>1, HeadTailProperties
  <2> QED BY <1>1, <2>1, LenProperties
<1> DEFINE rest == Tail(Content)
<1>4. /\ rest = [i \in 1..Len(list') |-> rest[i]] /\ Head(Content) = Content[1]
      /\ \A i \in 1..Len(list') : rest[i] = Content[i + 1]
  <2> HIDE DEF Content
  <2>1. /\ rest \in Seq(Indices \cup {None}) /\ Len(rest) = Len(Content) - 1
        /\ \A i \in 1..Len(rest) : rest[i] = Content[i + 1]
    BY <1>2, HeadTailProperties
  <2>2. Head(Content) = Content[1]
    BY <1>2
  <2> HIDE DEF rest
  <2> QED BY <1>2, <1>3, <2>1, <2>2
<1>5. Content' = [i \in 1..Len(list') |-> data[list'[i]]]
  BY <1>1, <1>3 DEF Content
<1>6. ASSUME NEW i \in 1..Len(list') PROVE data[list'[i]] = rest[i]
  BY <1>2, <1>3, <1>4
<1> HIDE DEF rest
<1>7. Content' = rest
  BY <1>4, <1>5, <1>6
<1>8. Head(Content) = data[tmp[t].ptr]
  BY <1>1, <1>2, <1>3, <1>4
<1> QED BY <1>2, <1>7, <1>8 DEF rest

(* A step that is none of the stack's. *)
LEMMA Stutters ==
  ASSUME IInv, NEW t \in Threads, Step(t), list' = list, InCall(t)' = InCall(t), held' = held
  PROVE  Content' = Content /\ Calls' = Calls /\ held' = held
BY ContentFrame, CallsFrame DEF Calls

LEMMA StackStep ==
  ASSUME IInv, NEW t \in Threads, Step(t)
  PROVE  \/ Content' = Content /\ Calls' = Calls /\ held' = held
         \/ /\ Calls[t] = None /\ Content' = Content
            /\ \E v \in held : Calls' = [Calls EXCEPT ![t] = v] /\ held' = held \ {v}
         \/ /\ Calls[t] # None /\ Content' = <<Calls[t]>> \o Content
            /\ Calls' = [Calls EXCEPT ![t] = None] /\ held' = held
         \/ /\ Content # <<>> /\ Calls[t] = None /\ Content' = Tail(Content)
            /\ Calls' = [Calls EXCEPT ![t] = Head(Content)] /\ held' = held
         \/ /\ Calls[t] # None /\ Content' = Content
            /\ held' = held \cup {Calls[t]} /\ Calls' = [Calls EXCEPT ![t] = None]
<1>c. Carries(t) /\ Calls[t] = InCall(t)
  BY DEF IInv, Carried, Calls
<1>w. /\ pc \in [Threads -> Places] /\ val \in [Threads -> Indices \cup {None}]
      /\ \A v \in Indices : v # None
      /\ pc[t] # "push_node" => data' = data
  BY DataKept DEF IInv, TypeOK
<1>1. CASE AllocPtr(t) /\ UNCHANGED <<stackVars, val, held>>
  <2>1. list' = list /\ held' = held
    BY <1>1 DEF AllocPtr
  <2>2. InCall(t)' = InCall(t)
    BY <1>c, <1>w, <1>1 DEF AllocPtr, InCall
  <2> QED BY <2>1, <2>2, Stutters
<1>2. CASE AllocId(t) /\ UNCHANGED <<stackVars, val, held>>
  <2>1. list' = list /\ held' = held
    BY <1>2 DEF AllocId
  <2>2. InCall(t)' = InCall(t)
    BY <1>c, <1>w, <1>2 DEF AllocId, InCall
  <2> QED BY <2>1, <2>2, Stutters
<1>3. CASE AllocNew(t, "push_node") /\ UNCHANGED <<stackVars, val, held>>
  <2>1. list' = list /\ held' = held
    BY <1>3 DEF AllocNew
  <2>2. InCall(t)' = InCall(t)
    BY <1>c, <1>w, <1>3 DEF AllocNew, InCall
  <2> QED BY <2>1, <2>2, Stutters
<1>4. CASE AllocNext(t) /\ UNCHANGED <<stackVars, val, held>>
  <2>1. list' = list /\ held' = held
    BY <1>4 DEF AllocNext
  <2>2. InCall(t)' = InCall(t)
    BY <1>c, <1>w, <1>4 DEF AllocNext, InCall
  <2> QED BY <2>1, <2>2, Stutters
<1>5. CASE AllocCas(t, "push_node") /\ UNCHANGED <<stackVars, val, held>>
  <2>1. list' = list /\ held' = held
    BY <1>5 DEF AllocCas
  <2>2. InCall(t)' = InCall(t)
    BY <1>c, <1>w, <1>5 DEF AllocCas, InCall
  <2> QED BY <2>1, <2>2, Stutters
<1>6. CASE FreePtr(t) /\ UNCHANGED <<stackVars, val, held>>
  <2>1. list' = list /\ held' = held
    BY <1>6 DEF FreePtr
  <2>2. InCall(t)' = InCall(t)
    BY <1>c, <1>w, <1>6 DEF FreePtr, InCall
  <2> QED BY <2>1, <2>2, Stutters
<1>7. CASE FreeId(t) /\ UNCHANGED <<stackVars, val, held>>
  <2>1. list' = list /\ held' = held
    BY <1>7 DEF FreeId
  <2>2. InCall(t)' = InCall(t)
    BY <1>c, <1>w, <1>7 DEF FreeId, InCall
  <2> QED BY <2>1, <2>2, Stutters
<1>8. CASE FreeLink(t) /\ UNCHANGED <<stackVars, val, held>>
  <2>1. list' = list /\ held' = held
    BY <1>8 DEF FreeLink
  <2>2. InCall(t)' = InCall(t)
    BY <1>c, <1>w, <1>8 DEF FreeLink, InCall
  <2> QED BY <2>1, <2>2, Stutters
<1>9. CASE FreeCas(t, "pop_return") /\ UNCHANGED <<stackVars, val, held>>
  <2>1. list' = list /\ held' = held
    BY <1>9 DEF FreeCas
  <2>2. InCall(t)' = InCall(t)
    BY <1>c, <1>w, <1>9 DEF FreeCas, InCall
  <2> QED BY <2>1, <2>2, Stutters
<1>10. CASE PushCall(t)
  <2>1. PICK v \in held : val' = [val EXCEPT ![t] = v] /\ held' = held \ {v}
    BY <1>10 DEF PushCall
  <2>2. list' = list /\ pc[t] = "idle" /\ pc'[t] = "alloc_ptr" /\ val'[t] = v
    BY <1>w, <1>10, <2>1 DEF PushCall, MayCall
  <2>3. InCall(t) = None /\ InCall(t)' = v
    BY <1>c, <2>2 DEF InCall, Carries
  <2> QED BY <1>c, <2>1, <2>2, <2>3, ContentFrame, CallsFrame
<1>11. CASE PushNode(t)
  <2>1. list' = list /\ held' = held
    BY <1>11 DEF PushNode
  <2>2. InCall(t)' = InCall(t)
    BY <1>c, <1>w, <1>11 DEF PushNode, InCall
  <2> QED BY <2>1, <2>2, Stutters
<1>12. CASE PushPtr(t)
  <2>1. list' = list /\ held' = held
    BY <1>12 DEF PushPtr
  <2>2. InCall(t)' = InCall(t)
    BY <1>c, <1>w, <1>12 DEF PushPtr, InCall
  <2> QED BY <2>1, <2>2, Stutters
<1>13. CASE PushId(t)
  <2>1. list' = list /\ held' = held
    BY <1>13 DEF PushId
  <2>2. InCall(t)' = InCall(t)
    BY <1>c, <1>w, <1>13 DEF PushId, InCall
  <2> QED BY <2>1, <2>2, Stutters
<1>14. CASE PushLink(t)
  <2>1. list' = list /\ held' = held
    BY <1>14 DEF PushLink
  <2>2. InCall(t)' = InCall(t)
    BY <1>c, <1>w, <1>14 DEF PushLink, InCall
  <2> QED BY <2>1, <2>2, Stutters
<1>15. CASE PushCas(t)
  <2>1. CASE top = tmp[t]
    <3>1. InCall(t) = val[t] /\ val[t] \in Indices
      BY <1>c, <1>15 DEF PushCas, InCall, Carries, OwnPlaces
    <3>2. pc' = [pc EXCEPT ![t] = "push_count"] /\ held' = held
      BY <1>15, <2>1, Pushed DEF IInv
    <3>3. InCall(t)' = None
      BY <1>w, <3>2 DEF InCall
    <3> QED BY <1>c, <1>w, <1>15, <2>1, <3>1, <3>2, <3>3, ContentPushed, CallsFrame
  <2>2. CASE top # tmp[t]
    <3>1. list' = list /\ held' = held
      BY <1>15, <2>2 DEF PushCas
    <3>2. InCall(t)' = InCall(t)
      BY <1>w, <1>15, <2>2 DEF PushCas, InCall
    <3> QED BY <3>1, <3>2, Stutters
  <2> QED BY <2>1, <2>2
<1>16. CASE PushCount(t)
  <2>1. list' = list /\ held' = held
    BY <1>16 DEF PushCount, Leave
  <2>2. InCall(t)' = InCall(t)
    BY <1>c, <1>w, <1>16 DEF PushCount, Leave, InCall, Carries
  <2> QED BY <2>1, <2>2, Stutters
<1>17. CASE PopDec(t)
  <2>1. list' = list /\ held' = held
    BY <1>17 DEF PopDec, MayCall
  <2>2. InCall(t)' = InCall(t)
    BY <1>c, <1>w, <1>17 DEF PopDec, MayCall, InCall
  <2> QED BY <2>1, <2>2, Stutters
<1>18. CASE PopUndo(t)
  <2>1. list' = list /\ held' = held
    BY <1>18 DEF PopUndo, Leave
  <2>2. InCall(t)' = InCall(t)
    BY <1>c, <1>w, <1>18 DEF PopUndo, Leave, InCall, Carries
  <2> QED BY <2>1, <2>2, Stutters
<1>19. CASE PopPtr(t)
  <2>1. list' = list /\ held' = held
    BY <1>19 DEF PopPtr
  <2>2. InCall(t)' = InCall(t)
    BY <1>c, <1>w, <1>19 DEF PopPtr, InCall
  <2> QED BY <2>1, <2>2, Stutters
<1>20. CASE PopId(t)
  <2>1. list' = list /\ held' = held
    BY <1>20 DEF PopId
  <2>2. InCall(t)' = InCall(t)
    BY <1>c, <1>w, <1>20 DEF PopId, InCall
  <2> QED BY <2>1, <2>2, Stutters
<1>21. CASE PopNext(t)
  <2>1. list' = list /\ held' = held
    BY <1>21 DEF PopNext
  <2>2. InCall(t)' = InCall(t)
    BY <1>c, <1>w, <1>21 DEF PopNext, InCall
  <2> QED BY <2>1, <2>2, Stutters
<1>22. CASE PopCas(t)
  <2>1. CASE top = tmp[t]
    <3>1. InCall(t) = None
      BY <1>c, <1>22 DEF PopCas, InCall, Carries, TakePlaces
    <3>2. pc' = [pc EXCEPT ![t] = "pop_data"] /\ held' = held /\ data' = data /\ tmp' = tmp
      BY <1>22, <2>1, Popped DEF IInv
    <3>3. InCall(t)' = data[tmp[t].ptr]
      BY <1>w, <3>2 DEF InCall
    <3> QED BY <1>c, <1>22, <2>1, <3>1, <3>2, <3>3, ContentPopped, CallsFrame
  <2>2. CASE top # tmp[t]
    <3>1. list' = list /\ held' = held
      BY <1>22, <2>2 DEF PopCas
    <3>2. InCall(t)' = InCall(t)
      BY <1>w, <1>22, <2>2 DEF PopCas, InCall
    <3> QED BY <3>1, <3>2, Stutters
  <2> QED BY <2>1, <2>2
<1>23. CASE PopData(t)
  <2>1. list' = list /\ held' = held
    BY <1>23 DEF PopData
  <2>2. InCall(t)' = InCall(t)
    BY <1>c, <1>w, <1>23 DEF PopData, InCall, Carries
  <2> QED BY <2>1, <2>2, Stutters
<1>24. CASE PopReturn(t)
  <2>1. InCall(t) = val[t] /\ val[t] \in Indices /\ list' = list /\ held' = held \cup {val[t]}
    BY <1>c, <1>24 DEF PopReturn, InCall, Carries
  <2>2. InCall(t)' = None
    BY <1>w, <1>24 DEF PopReturn, Leave, InCall
  <2> QED BY <1>c, <1>w, <2>1, <2>2, ContentFrame, CallsFrame
<1> QED
  BY <1>1, <1>2, <1>3, <1>4, <1>5, <1>6, <1>7, <1>8, <1>9, <1>10, <1>11, <1>12, <1>13, <1>14, <1>15, <1>16, <1>17, <1>18, <1>19, <1>20, <1>21, <1>22, <1>23, <1>24
  DEF Step, Alloc, Free

(* The index stack implements an atomic one: a Push takes effect at its        *)
(* exchange, a Pop at its own, no index is given to two sessions and none gets *)
(* lost.                                                                       *)
THEOREM StackImplemented == Spec => StackSpec
<1>1. Init => Stack!Init
  BY DEF Init, Stack!Init
<1>2. ASSUME IInv, [Next]_vars PROVE [Stack!Next]_(Stack!vars)
  <2>1. CASE UNCHANGED vars
    BY <2>1 DEF vars, Stack!vars
  <2>2. CASE Next
    <3>1. PICK t \in Threads : Step(t)
      BY <2>2 DEF Next
    <3>2. Content' = Content /\ Calls' = Calls /\ held' = held => UNCHANGED Stack!vars
      BY DEF Content, Calls, InCall, Stack!vars
    <3>3. /\ Calls[t] = None /\ Content' = Content
          /\ \E v \in held : Calls' = [Calls EXCEPT ![t] = v] /\ held' = held \ {v}
          => Stack!PushCall(t)
      BY DEF Content, Calls, InCall, Stack!PushCall
    <3>4. /\ Calls[t] # None /\ Content' = <<Calls[t]>> \o Content
          /\ Calls' = [Calls EXCEPT ![t] = None] /\ held' = held
          => Stack!Push(t)
      BY DEF Content, Calls, InCall, Stack!Push
    <3>5. /\ Content # <<>> /\ Calls[t] = None /\ Content' = Tail(Content)
          /\ Calls' = [Calls EXCEPT ![t] = Head(Content)] /\ held' = held
          => Stack!Pop(t)
      BY DEF Content, Calls, InCall, Stack!Pop
    <3>6. /\ Calls[t] # None /\ Content' = Content
          /\ held' = held \cup {Calls[t]} /\ Calls' = [Calls EXCEPT ![t] = None]
          => Stack!PopReturn(t)
      BY DEF Content, Calls, InCall, Stack!PopReturn
    <3>7. /\ Stack!PushCall(t) => Stack!Next
          /\ Stack!Push(t) => Stack!Next
          /\ Stack!Pop(t) => Stack!Next
          /\ Stack!PopReturn(t) => Stack!Next
      BY DEF Stack!Next
    <3> QED BY <3>1, <3>2, <3>3, <3>4, <3>5, <3>6, <3>7, <1>2, StackStep
  <2> QED BY <1>2, <2>1, <2>2
<1> QED BY <1>1, <1>2, StackInvariant, PTL DEF Spec, StackSpec, Stack!Spec

=============================================================================
