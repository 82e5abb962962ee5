--------------------------- MODULE LockFreeQProof ---------------------------
(***************************************************************************)
(* That the lock-free queue keeps its chain, and implements AtomicQueue,   *)
(* for any number of threads, producers, consumers, nodes and items.       *)
(***************************************************************************)
EXTENDS LockFreeQ, SequenceTheorems, FiniteSetTheorems, TLAPS

(* Where a thread has a new node of its own, and from where its number is in  *)
(* the node.                                                                  *)
LinkPlaces == {"enq_ptr", "enq_id", "enq_link", "help_next", "help_id", "help_cas"}

OwnPlaces == {"enq_next"} \cup LinkPlaces

(* Where tmp is a copy of the rear, and of the front. *)
RearPlaces == {"enq_link", "help_next", "help_id", "help_cas", "enq_number", "enq_cas"}

FrontPlaces == {"deq_next", "deq_data", "deq_cas"}

TakePlaces == {"deq_ptr", "deq_id"} \cup FrontPlaces

Places == {"idle", "enq_alloc", "enq_number", "enq_cas", "enq_count", "deq_undo", "deq_free"}
            \cup OwnPlaces \cup TakePlaces

Ids == Nodes \cup Nat

Words == [ptr : Nodes, id : Nat]

Copies == [ptr : Nodes \cup {None}, id : Nat]

Changes == [ptr : Ids, id : Ids]

TypeOK ==
    /\ front \in Words /\ rear \in Words
    /\ next \in [Nodes -> Ids] /\ data \in [Nodes -> 0..MaxItems]
    /\ count \in Int /\ rearID \in Nat
    /\ free \in Seq(Nodes) /\ chain \in Seq(Nodes)
    /\ items \in 0..MaxItems
    /\ pc \in [Threads -> Places]
    /\ tmp \in [Threads -> Copies]
    /\ chg \in [Threads -> Changes]
    /\ node \in [Threads -> Nodes \cup {None}]
    /\ val \in [Threads -> 0..MaxItems]

Tip == chain[Len(chain)]

(* A node is linked, and the rear is still to be moved to it. *)
Lagging == rear.ptr # Tip

Owns(t) == pc[t] \in OwnPlaces

(* The number of a new node; it becomes the rear's when the node does. *)
Number(t) == IF pc[t] = "enq_next" THEN chg[t].id ELSE next[node[t]]

Holding(t) == Owns(t) \/ pc[t] = "deq_free"

Hand(t) == IF pc[t] = "deq_free" THEN tmp[t].ptr ELSE node[t]

(* The list in memory, and who has the nodes that are not in it. *)
Structure ==
    /\ chain # <<>> /\ ChainIntact
    /\ IsInjective(free) /\ IsInjective(chain) /\ Range(free) \cap Range(chain) = {}
    /\ \A t \in Threads : Holding(t) => Hand(t) \in Nodes \ (Range(free) \cup Range(chain))
    /\ \A t, u \in Threads : Holding(t) /\ Holding(u) /\ Hand(t) = Hand(u) => t = u

(* No number is used twice: not for two nodes, and none that the rear has had *)
(* comes back, so that a copy of the rear is right or will never match.       *)
Fresh(k) == \A t \in Threads : Owns(t) => k # Number(t)

Copy(t) == pc[t] \in RearPlaces =>
    /\ tmp[t].id \in 0..rearID /\ Fresh(tmp[t].id)
    /\ Lagging => tmp[t].id # next[Tip]

Numbers ==
    /\ next[Tip] \in 0..rearID /\ Fresh(next[Tip])
    /\ rear.id \in 0..rearID /\ Fresh(rear.id)
    /\ rear.id = next[Tip] <=> ~Lagging
    /\ \A t \in Threads : Owns(t) => Number(t) \in 1..rearID
    /\ \A t, u \in Threads : Owns(t) /\ Owns(u) /\ Number(t) = Number(u) => t = u
    /\ \A t \in Threads : Copy(t)

(* A _Next is a number only in the last node of the chain, in a new one, or   *)
(* in one that was never used, where it is 0.                                 *)
Pointers(t) ==
    /\ pc[t] \in {"enq_id", "enq_link", "help_next"} => tmp[t].ptr \in Nodes
    /\ pc[t] \in {"enq_id", "enq_link"} /\ next[tmp[t].ptr] = 0 => tmp[t].ptr = Tip
    /\ pc[t] = "enq_id" => tmp[t].ptr # node[t]
    /\ pc[t] = "help_id" => chg[t].ptr \in Nodes
    /\ pc[t] \in {"enq_number", "enq_cas"} => node[t] \in Nodes

Loose ==
    /\ \A n \in Nodes \ {Tip} : next[n] \in Nat =>
         next[n] = 0 \/ \E t \in Threads : pc[t] \in LinkPlaces /\ node[t] = n
    /\ \A t \in Threads : Pointers(t)

(* Who is to move the rear, and where those who would move it, would.         *)
Mover(t) ==
    tmp[t] = rear =>
      /\ pc[t] \in {"enq_number", "enq_cas"} => Lagging /\ node[t] = Tip
      /\ pc[t] \in {"enq_cas", "help_cas"} => Lagging /\ chg[t] = [ptr |-> Tip, id |-> next[Tip]]
      /\ pc[t] = "help_id" => Lagging /\ chg[t].ptr = Tip

Movers ==
    /\ \A t \in Threads : Mover(t)
    /\ Lagging => \E t \in Threads : pc[t] \in {"enq_number", "enq_cas"} /\ tmp[t] = rear

(* A copy of the front is no newer than the front, and what was read beside   *)
(* it is right as long as the front has not changed.                          *)
Taker(t) ==
    /\ pc[t] \in FrontPlaces => tmp[t].id <= front.id
    /\ pc[t] \in FrontPlaces \cup {"deq_id"} => tmp[t].ptr \in Nodes
    /\ pc[t] \in {"deq_data", "deq_cas"} =>
         /\ chg[t].id = tmp[t].id + 1 /\ chg[t].ptr \in Nodes
         /\ tmp[t] = front => Len(chain) > 1 /\ chg[t].ptr = chain[2]
    /\ pc[t] = "deq_cas" /\ tmp[t] = front => val[t] = data[chain[2]]

Takers == \A t \in Threads : Taker(t)

Carries(t) ==
    /\ pc[t] \in {"enq_alloc"} \cup OwnPlaces => val[t] \in 1..MaxItems
    /\ Owns(t) => data[node[t]] = val[t]

Carried ==
    /\ \A i \in 2..Len(chain) : data[chain[i]] \in 1..MaxItems
    /\ \A t \in Threads : Carries(t)

(* The count lags behind the chain by those who are about to change either;   *)
(* and there is a node for everybody who is about to take one.                *)
CountAhead == {t \in Threads : pc[t] \in {"enq_number", "enq_cas", "enq_count", "deq_undo"} \cup TakePlaces}

Undoing == {t \in Threads : pc[t] = "deq_undo"}

Allocating == {t \in Threads : pc[t] = "enq_alloc"}

Counted ==
    /\ Len(chain) - 1 = count + Cardinality(CountAhead)
    /\ count + Cardinality(Undoing) >= 0
    /\ Len(free) >= Cardinality(Allocating)

(* A step of t leaves what the other threads have. *)
Others(t) == \A u \in Threads \ {t} :
    /\ pc'[u] = pc[u] /\ tmp'[u] = tmp[u] /\ chg'[u] = chg[u]
    /\ node'[u] = node[u] /\ val'[u] = val[u]

IInv == TypeOK /\ Structure /\ Numbers /\ Loose /\ Movers /\ Takers /\ Carried /\ Counted /\ NoSelfLink

USE AddressAssumption, ThreadAssumption, BoundAssumption
USE DEF None, NoPair, IsNumber, Goto, At, memory, locals, rest

-----------------------------------------------------------------------------
(* Sequences *)

(* The elements of a sequence. *)
LEMMA InRange ==
  ASSUME NEW seq \in Seq(Nodes)
  PROVE  /\ Range(seq) \subseteq Nodes
         /\ \A i \in 1..Len(seq) : seq[i] \in Range(seq)
         /\ \A n \in Range(seq) : \E i \in 1..Len(seq) : n = seq[i]
BY DEF Range

LEMMA Front ==
  ASSUME NEW seq \in Seq(Nodes), IsInjective(seq), seq # <<>>
  PROVE  /\ Head(seq) = seq[1] /\ Head(seq) \in Range(seq) /\ Tail(seq) \in Seq(Nodes)
         /\ Len(Tail(seq)) = Len(seq) - 1 /\ Len(seq) \in Nat \ {0}
         /\ \A i \in 1..Len(Tail(seq)) : Tail(seq)[i] = seq[i + 1]
         /\ IsInjective(Tail(seq)) /\ Range(Tail(seq)) = Range(seq) \ {Head(seq)}
<1>1. /\ Tail(seq) \in Seq(Nodes) /\ Len(seq) \in Nat \ {0} /\ Len(Tail(seq)) = Len(seq) - 1
      /\ \A i \in 1..Len(Tail(seq)) : Tail(seq)[i] = seq[i + 1]
      /\ DOMAIN Tail(seq) = 1..Len(Tail(seq)) /\ DOMAIN seq = 1..Len(seq)
      /\ Head(seq) = seq[1]
  <2>1. /\ Tail(seq) \in Seq(Nodes) /\ Len(Tail(seq)) = Len(seq) - 1
        /\ \A i \in 1..Len(Tail(seq)) : Tail(seq)[i] = seq[i + 1]
    BY HeadTailProperties
  <2> QED BY <2>1, EmptySeq, LenProperties
<1>2. IsInjective(Tail(seq))
  BY <1>1 DEF IsInjective
<1>3. Range(Tail(seq)) \subseteq Range(seq) \ {Head(seq)}
  <2> SUFFICES ASSUME NEW i \in 1..Len(Tail(seq))
               PROVE  Tail(seq)[i] \in Range(seq) \ {Head(seq)}
    BY <1>1 DEF Range
  <2>1. Tail(seq)[i] = seq[i + 1] /\ i + 1 \in 1..Len(seq) /\ 1 \in 1..Len(seq) /\ i + 1 # 1
    BY <1>1
  <2>2. seq[i + 1] # seq[1]
    BY <1>1, <2>1 DEF IsInjective
  <2>3. seq[i + 1] \in Range(seq)
    BY <2>1, InRange
  <2> QED BY <1>1, <2>1, <2>2, <2>3
<1>4. Range(seq) \ {Head(seq)} \subseteq Range(Tail(seq))
  <2> SUFFICES ASSUME NEW i \in 1..Len(seq), seq[i] # Head(seq)
               PROVE  seq[i] \in Range(Tail(seq))
    BY InRange
  <2>1. i - 1 \in 1..Len(Tail(seq)) /\ Tail(seq)[i - 1] = seq[i]
    BY <1>1
  <2> QED BY <1>1, <2>1, InRange
<1> QED BY <1>1, <1>2, <1>3, <1>4, InRange

LEMMA Prepended ==
  ASSUME NEW seq \in Seq(Nodes), IsInjective(seq), NEW n \in Nodes \ Range(seq)
  PROVE  /\ <<n>> \o seq \in Seq(Nodes) /\ Len(<<n>> \o seq) = Len(seq) + 1
         /\ IsInjective(<<n>> \o seq) /\ Range(<<n>> \o seq) = Range(seq) \cup {n}
<1> DEFINE long == <<n>> \o seq
<1>1. /\ long \in Seq(Nodes) /\ Len(long) = Len(seq) + 1 /\ Len(seq) \in Nat
      /\ \A i \in 1..Len(long) : long[i] = IF i = 1 THEN n ELSE seq[i - 1]
  <2>1. <<n>> \in Seq(Nodes) /\ Len(<<n>>) = 1 /\ <<n>>[1] = n
    OBVIOUS
  <2>2. /\ long \in Seq(Nodes) /\ Len(long) = 1 + Len(seq)
        /\ \A i \in 1..(1 + Len(seq)) : long[i] = IF i <= 1 THEN <<n>>[i] ELSE seq[i - 1]
    BY <2>1, ConcatProperties DEF long
  <2> HIDE DEF long
  <2> QED BY <2>1, <2>2, LenProperties
<1> HIDE DEF long
<1>d. DOMAIN seq = 1..Len(seq)
  BY LenProperties
<1>2. IsInjective(long)
  <2> SUFFICES ASSUME NEW i \in 1..Len(long), NEW j \in 1..Len(long), long[i] = long[j]
               PROVE  i = j
    BY <1>1 DEF IsInjective
  <2>1. i = 1 => j = 1
    BY <1>1, InRange
  <2>2. j = 1 => i = 1
    BY <1>1, InRange, SMTT(40)
  <2>3. i > 1 /\ j > 1 => i = j
    <3> SUFFICES ASSUME i > 1, j > 1 PROVE i = j
      OBVIOUS
    <3>1. /\ i - 1 \in 1..Len(seq) /\ long[i] = seq[i - 1]
          /\ j - 1 \in 1..Len(seq) /\ long[j] = seq[j - 1]
      BY <1>1
    <3>2. i - 1 = j - 1
      BY <1>d, <3>1 DEF IsInjective
    <3> QED BY <3>2
  <2> QED BY <2>1, <2>2, <2>3
<1>3. ASSUME NEW i \in 1..Len(long) PROVE long[i] \in Range(seq) \cup {n}
  <2>1. CASE i = 1
    BY <1>1, <2>1
  <2>2. CASE i > 1
    BY <1>1, <2>2, InRange
  <2> QED BY <2>1, <2>2
<1>4. ASSUME NEW i \in 1..Len(seq) PROVE seq[i] \in Range(long)
  <2>1. i + 1 \in 1..Len(long) /\ long[i + 1] = seq[i]
    BY <1>1
  <2> QED BY <1>1, <2>1, InRange
<1>5. n \in Range(long)
  BY <1>1, InRange
<1>6. Range(long) \subseteq Range(seq) \cup {n}
  BY <1>1, <1>3, InRange
<1>7. Range(seq) \subseteq Range(long)
  BY <1>4, InRange
<1> QED BY <1>1, <1>2, <1>5, <1>6, <1>7 DEF long

LEMMA Appended ==
  ASSUME NEW seq \in Seq(Nodes), IsInjective(seq), NEW n \in Nodes \ Range(seq)
  PROVE  /\ Append(seq, n) \in Seq(Nodes) /\ Len(Append(seq, n)) = Len(seq) + 1 /\ Len(seq) \in Nat
         /\ \A i \in 1..Len(seq) : Append(seq, n)[i] = seq[i]
         /\ Append(seq, n)[Len(seq) + 1] = n
         /\ IsInjective(Append(seq, n)) /\ Range(Append(seq, n)) = Range(seq) \cup {n}
<1>1. /\ Append(seq, n) \in Seq(Nodes) /\ Len(Append(seq, n)) = Len(seq) + 1 /\ Len(seq) \in Nat
      /\ \A i \in 1..Len(seq) : Append(seq, n)[i] = seq[i]
      /\ Append(seq, n)[Len(seq) + 1] = n
      /\ DOMAIN Append(seq, n) = 1..(Len(seq) + 1) /\ DOMAIN seq = 1..Len(seq)
  BY AppendProperties, LenProperties
<1>2. IsInjective(Append(seq, n))
  BY <1>1, InRange DEF IsInjective
<1>3. ASSUME NEW i \in 1..(Len(seq) + 1) PROVE Append(seq, n)[i] \in Range(seq) \cup {n}
  BY <1>1, InRange
<1> DEFINE long == Append(seq, n)
<1> HIDE DEF long
<1>l. /\ long \in Seq(Nodes) /\ Len(long) = Len(seq) + 1 /\ Len(seq) \in Nat
      /\ \A i \in 1..Len(seq) : long[i] = seq[i] /\ seq[i] \in Range(seq)
      /\ long[Len(seq) + 1] = n
      /\ \A i \in 1..(Len(seq) + 1) : long[i] \in Range(seq) \cup {n}
  BY <1>1, <1>3, InRange DEF long
<1>4. Range(long) \subseteq Range(seq) \cup {n}
  BY <1>l, InRange
<1>5. n \in Range(long)
  <2>1. Len(seq) + 1 \in 1..Len(long)
    BY <1>l
  <2> QED BY <1>l, <2>1, InRange
<1>6. Range(seq) \subseteq Range(long)
  <2> SUFFICES ASSUME NEW i \in 1..Len(seq) PROVE seq[i] \in Range(long)
    BY InRange
  <2>1. i \in 1..Len(long)
    BY <1>l
  <2> QED BY <1>l, <2>1, InRange
<1>7. Range(long) = Range(seq) \cup {n}
  BY <1>4, <1>5, <1>6
<1> QED BY <1>1, <1>2, <1>7 DEF long

-----------------------------------------------------------------------------
(* Types *)

(* A thread that is to allocate finds a node in the pool. *)
LEMMA NodeLeft ==
  ASSUME TypeOK, Counted, NEW t \in Threads, pc[t] = "enq_alloc"
  PROVE  free # <<>>
<1>1. IsFiniteSet(Allocating) /\ t \in Allocating
  BY FS_Subset DEF Allocating
<1>2. Cardinality(Allocating) \in Nat /\ Cardinality(Allocating) # 0
  BY <1>1, FS_CardinalityType, FS_EmptySet
<1>3. Len(free) # 0
  BY <1>2, LenProperties DEF Counted, TypeOK
<1> QED BY <1>3, EmptySeq

(* The two ends of the chain. *)
LEMMA Ends ==
  ASSUME TypeOK, chain # <<>>
  PROVE  /\ Len(chain) \in Nat \ {0} /\ Tip \in Nodes /\ Tip \in Range(chain)
         /\ \A i \in 1..Len(chain) : chain[i] \in Nodes /\ chain[i] \in Range(chain)
BY InRange, EmptySeq, LenProperties DEF TypeOK, Tip

LEMMA OthersKept ==
  ASSUME TypeOK, NEW t \in Threads, Step(t)
  PROVE  Others(t)
<1>1. CASE EnqCall(t)
  BY <1>1 DEF EnqCall, TypeOK, Others
<1>2. CASE EnqAlloc(t)
  BY <1>2 DEF EnqAlloc, TypeOK, Others
<1>3. CASE EnqNext(t)
  BY <1>3 DEF EnqNext, TypeOK, Others
<1>4. CASE EnqPtr(t)
  BY <1>4 DEF EnqPtr, TypeOK, Others
<1>5. CASE EnqId(t)
  BY <1>5 DEF EnqId, TypeOK, Others
<1>6. CASE EnqLink(t)
  BY <1>6 DEF EnqLink, TypeOK, Others
<1>7. CASE HelpNext(t)
  BY <1>7 DEF HelpNext, TypeOK, Others
<1>8. CASE HelpId(t)
  BY <1>8 DEF HelpId, TypeOK, Others
<1>9. CASE HelpCas(t)
  BY <1>9 DEF HelpCas, MoveRear, TypeOK, Others
<1>10. CASE EnqNumber(t)
  BY <1>10 DEF EnqNumber, TypeOK, Others
<1>11. CASE EnqCas(t)
  BY <1>11 DEF EnqCas, MoveRear, TypeOK, Others
<1>12. CASE EnqCount(t)
  BY <1>12 DEF EnqCount, Leave, TypeOK, Others
<1>13. CASE DeqDec(t)
  BY <1>13 DEF DeqDec, TypeOK, Others
<1>14. CASE DeqUndo(t)
  BY <1>14 DEF DeqUndo, Leave, TypeOK, Others
<1>15. CASE DeqPtr(t)
  BY <1>15 DEF DeqPtr, TypeOK, Others
<1>16. CASE DeqId(t)
  BY <1>16 DEF DeqId, TypeOK, Others
<1>17. CASE DeqNext(t)
  BY <1>17 DEF DeqNext, TypeOK, Others
<1>18. CASE DeqData(t)
  BY <1>18 DEF DeqData, TypeOK, Others
<1>19. CASE DeqCas(t)
  BY <1>19 DEF DeqCas, TypeOK, Others
<1>20. CASE DeqFree(t)
  BY <1>20 DEF DeqFree, Leave, TypeOK, Others
<1> QED
  BY <1>1, <1>2, <1>3, <1>4, <1>5, <1>6, <1>7, <1>8, <1>9, <1>10, <1>11, <1>12, <1>13, <1>14, <1>15, <1>16, <1>17, <1>18, <1>19, <1>20
  DEF Step, EnQ, DeQ

LEMMA TypeStep ==
  ASSUME IInv, NEW t \in Threads, Step(t)
  PROVE  TypeOK'
<1>0. TypeOK /\ Structure /\ Counted /\ Loose /\ Pointers(t) /\ Mover(t) /\ Taker(t) /\ chain # <<>>
  BY DEF IInv, Loose, Movers, Takers, Structure
<1>1. /\ pc \in [Threads -> Places] /\ tmp \in [Threads -> Copies] /\ chg \in [Threads -> Changes]
      /\ node \in [Threads -> Nodes \cup {None}] /\ val \in [Threads -> 0..MaxItems]
      /\ front \in Words /\ rear \in Words /\ next \in [Nodes -> Ids] /\ data \in [Nodes -> 0..MaxItems]
  BY <1>0 DEF TypeOK
<1>2. Tip \in Nodes /\ next[Tip] \in Nat
  BY <1>0, Ends DEF Structure, ChainIntact, TypeOK, Ids, Tip
<1>n. /\ tmp[t] = [ptr |-> tmp[t].ptr, id |-> tmp[t].id] /\ tmp[t].id \in Nat
      /\ tmp[t].ptr \in Nodes \cup {None}
      /\ chg[t] = [ptr |-> chg[t].ptr, id |-> chg[t].id] /\ chg[t].ptr \in Ids /\ chg[t].id \in Ids
      /\ front.ptr \in Nodes /\ front.id \in Nat /\ rear.ptr \in Nodes /\ rear.id \in Nat
  BY <1>1 DEF Copies, Changes, Words
<1>w. rear \in Copies /\ front \in Copies
  BY <1>1 DEF Copies, Words
<1>3. CASE EnqCall(t)
  BY <1>0, <1>1, <1>3 DEF EnqCall, TypeOK, Places, OwnPlaces, LinkPlaces, RearPlaces, FrontPlaces, TakePlaces
<1>4. CASE EnqAlloc(t)
  <2>1. free # <<>>
    BY <1>0, <1>4, NodeLeft DEF EnqAlloc
  <2>2. Head(free) \in Nodes /\ free' \in Seq(Nodes)
    <3>1. free \in Seq(Nodes) /\ IsInjective(free) /\ free' = Tail(free)
      BY <1>0, <1>4 DEF EnqAlloc, TypeOK, Structure
    <3> QED BY <2>1, <3>1, Front, InRange
  <2>3. data' = [data EXCEPT ![Head(free)] = val[t]] /\ node' = [node EXCEPT ![t] = Head(free)]
    BY <1>4 DEF EnqAlloc
  <2>4. data' \in [Nodes -> 0..MaxItems] /\ node' \in [Threads -> Nodes \cup {None}]
    BY <1>1, <2>2, <2>3
  <2>5. rearID' = rearID + 1 /\ rearID' \in Nat /\ chg' = [chg EXCEPT ![t].id = rearID']
    <3>1. rearID' = rearID + 1 /\ chg' = [chg EXCEPT ![t].id = rearID + 1]
      BY <1>4, Zenon DEF EnqAlloc
    <3>2. rearID \in Nat
      BY <1>0 DEF TypeOK
    <3> QED BY <3>1, <3>2
  <2>6. chg' \in [Threads -> Changes]
    BY <1>1, <2>5, ZenonT(40) DEF Changes, Ids
  <2>7. pc' \in [Threads -> Places]
    BY <1>1, <1>4 DEF EnqAlloc, Places, OwnPlaces
  <2> QED BY <1>0, <1>4, <2>2, <2>4, <2>5, <2>6, <2>7 DEF EnqAlloc, TypeOK
<1>5. CASE EnqNext(t)
  BY <1>0, <1>1, <1>n, <1>5 DEF EnqNext, TypeOK, Places, OwnPlaces, LinkPlaces, RearPlaces, FrontPlaces, TakePlaces
<1>6. CASE EnqPtr(t)
  BY <1>0, <1>1, <1>6 DEF EnqPtr, TypeOK, Taker, Pointers, Ids, Words, Copies, Changes, Places, OwnPlaces, LinkPlaces, RearPlaces, FrontPlaces, TakePlaces
<1>7. CASE EnqId(t)
  BY <1>0, <1>1, <1>7 DEF EnqId, TypeOK, Taker, Pointers, Ids, Words, Copies, Changes, Places, OwnPlaces, LinkPlaces, RearPlaces, FrontPlaces, TakePlaces
<1>8. CASE EnqLink(t)
  <2>1. node[t] \in Nodes \ Range(chain)
    BY <1>0, <1>8 DEF EnqLink, Structure, Holding, Hand, Owns, OwnPlaces, LinkPlaces
  <2>2. chain' \in Seq(Nodes)
    <3>1. chain \in Seq(Nodes) /\ IsInjective(chain) /\ (chain' = Append(chain, node[t]) \/ chain' = chain)
      BY <1>0, <1>8 DEF EnqLink, TypeOK, Structure
    <3> QED BY <2>1, <3>1, Appended
  <2> QED BY <1>0, <1>1, <1>8, <2>1, <2>2 DEF EnqLink, TypeOK, Ids, Places, OwnPlaces, LinkPlaces, RearPlaces, FrontPlaces, TakePlaces
<1>9. CASE HelpNext(t)
  BY <1>0, <1>1, <1>9 DEF HelpNext, TypeOK, Taker, Pointers, Ids, Words, Copies, Changes, Places, OwnPlaces, LinkPlaces, RearPlaces, FrontPlaces, TakePlaces
<1>10. CASE HelpId(t)
  BY <1>0, <1>1, <1>10 DEF HelpId, TypeOK, Taker, Pointers, Ids, Words, Copies, Changes, Places, OwnPlaces, LinkPlaces, RearPlaces, FrontPlaces, TakePlaces
<1>11. CASE HelpCas(t)
  <2>1. tmp[t] = rear => chg[t] \in Words
    BY <1>0, <1>2, <1>11 DEF HelpCas, Mover, Words
  <2>2. rear' \in Words /\ tmp' \in [Threads -> Copies]
    BY <1>1, <1>w, <1>11, <2>1 DEF HelpCas, MoveRear
  <2> QED BY <1>0, <1>1, <1>11, <2>2 DEF HelpCas, MoveRear, TypeOK, Places, OwnPlaces, LinkPlaces, RearPlaces, FrontPlaces, TakePlaces
<1>12. CASE EnqNumber(t)
  BY <1>0, <1>1, <1>12 DEF EnqNumber, TypeOK, Taker, Pointers, Ids, Words, Copies, Changes, Places, OwnPlaces, LinkPlaces, RearPlaces, FrontPlaces, TakePlaces
<1>13. CASE EnqCas(t)
  <2>1. tmp[t] = rear => chg[t] \in Words
    BY <1>0, <1>2, <1>13 DEF EnqCas, Mover, Words
  <2>2. rear' \in Words /\ tmp' \in [Threads -> Copies]
    BY <1>1, <1>w, <1>13, <2>1 DEF EnqCas, MoveRear
  <2> QED BY <1>0, <1>1, <1>13, <2>2 DEF EnqCas, MoveRear, TypeOK, Places, OwnPlaces, LinkPlaces, RearPlaces, FrontPlaces, TakePlaces
<1>14. CASE EnqCount(t)
  BY <1>0, <1>1, <1>14 DEF EnqCount, Leave, TypeOK, Ids, Copies, Changes, Places, OwnPlaces, LinkPlaces, RearPlaces, FrontPlaces, TakePlaces
<1>15. CASE DeqDec(t)
  BY <1>0, <1>1, <1>15 DEF DeqDec, TypeOK, Places, OwnPlaces, LinkPlaces, RearPlaces, FrontPlaces, TakePlaces
<1>16. CASE DeqUndo(t)
  BY <1>0, <1>1, <1>16 DEF DeqUndo, Leave, TypeOK, Ids, Copies, Changes, Places, OwnPlaces, LinkPlaces, RearPlaces, FrontPlaces, TakePlaces
<1>17. CASE DeqPtr(t)
  BY <1>0, <1>1, <1>17 DEF DeqPtr, TypeOK, Taker, Pointers, Ids, Words, Copies, Changes, Places, OwnPlaces, LinkPlaces, RearPlaces, FrontPlaces, TakePlaces
<1>18. CASE DeqId(t)
  BY <1>0, <1>1, <1>n, <1>18 DEF DeqId, TypeOK, Copies, Places, OwnPlaces, LinkPlaces, RearPlaces, FrontPlaces, TakePlaces
<1>19. CASE DeqNext(t)
  <2>1. tmp[t].ptr \in Nodes
    BY <1>0, <1>19 DEF DeqNext, Taker, FrontPlaces
  <2>2. [ptr |-> next[tmp[t].ptr], id |-> tmp[t].id + 1] \in Changes
    BY <1>1, <1>n, <2>1 DEF Changes, Ids
  <2>3. chg' \in [Threads -> Changes] /\ pc' \in [Threads -> Places]
    BY <1>1, <1>19, <2>2 DEF DeqNext, Places, TakePlaces, FrontPlaces
  <2> QED BY <1>0, <1>19, <2>3 DEF DeqNext, TypeOK
<1>20. CASE DeqData(t)
  BY <1>0, <1>1, <1>20 DEF DeqData, TypeOK, Taker, Pointers, Ids, Words, Copies, Changes, Places, OwnPlaces, LinkPlaces, RearPlaces, FrontPlaces, TakePlaces
<1>21. CASE DeqCas(t)
  <2>1. tmp[t] = front => chg[t] \in Words /\ chg[t].ptr \in Nodes
    <3>1. tmp[t] = front => chg[t].ptr \in Nodes /\ chg[t].id \in Nat
      BY <1>0, <1>n, <1>21 DEF DeqCas, Taker
    <3> QED BY <1>n, <3>1 DEF Words
  <2>2. front' \in Words /\ tmp' \in [Threads -> Copies]
    BY <1>1, <1>w, <1>21, <2>1 DEF DeqCas
  <2>3. chain' \in Seq(Nodes)
    BY <1>0, <1>21, Front DEF DeqCas, TypeOK, Structure
  <2> QED BY <1>0, <1>1, <1>21, <2>2, <2>3 DEF DeqCas, TypeOK, Places, OwnPlaces, LinkPlaces, RearPlaces, FrontPlaces, TakePlaces
<1>22. CASE DeqFree(t)
  <2>1. tmp[t].ptr \in Nodes \ Range(free)
    BY <1>0, <1>22 DEF DeqFree, Structure, Holding, Hand
  <2>2. free' \in Seq(Nodes)
    BY <1>0, <1>22, <2>1, Prepended DEF DeqFree, TypeOK, Structure
  <2> QED BY <1>0, <1>1, <1>22, <2>2, SMTT(40) DEF DeqFree, Leave, TypeOK, Ids, Copies, Changes, Places, OwnPlaces, LinkPlaces, RearPlaces, FrontPlaces, TakePlaces
<1> QED
  BY <1>3, <1>4, <1>5, <1>6, <1>7, <1>8, <1>9, <1>10, <1>11, <1>12, <1>13, <1>14, <1>15, <1>16, <1>17, <1>18, <1>19, <1>20, <1>21, <1>22
  DEF Step, EnQ, DeQ

-----------------------------------------------------------------------------
(* Steps that leave the list and the pool *)

Quiet == UNCHANGED <<front, rear, next, data, rearID, free, chain>>

(* The thread keeps its node and number, and its turn to move the rear. *)
Keeps(t) ==
    /\ Holding(t)' => Holding(t) /\ Hand(t)' = Hand(t)
    /\ Owns(t)' <=> Owns(t)
    /\ Owns(t) => Number(t)' = Number(t)
    /\ pc[t] \in LinkPlaces => pc'[t] \in LinkPlaces /\ node'[t] = node[t]
    /\ pc[t] \in {"enq_number", "enq_cas"} /\ tmp[t] = rear =>
         pc'[t] \in {"enq_number", "enq_cas"} /\ tmp'[t] = tmp[t]

Local(t) == Copy(t) /\ Pointers(t) /\ Mover(t) /\ Taker(t) /\ Carries(t)

LEMMA QuietFrame ==
  ASSUME IInv, NEW t \in Threads, Others(t), Quiet, Keeps(t), Local(t)'
  PROVE  Structure' /\ Numbers' /\ Loose' /\ Movers' /\ Takers' /\ Carried'
<1>0. Structure /\ Numbers /\ Loose /\ Movers /\ Takers /\ Carried
  BY DEF IInv
<1>1. /\ front' = front /\ rear' = rear /\ next' = next /\ data' = data /\ rearID' = rearID
      /\ free' = free /\ chain' = chain /\ Tip' = Tip /\ (Lagging' <=> Lagging)
  BY DEF Quiet, Tip, Lagging
<1>2. ASSUME NEW u \in Threads \ {t}
      PROVE  /\ (Holding(u)' <=> Holding(u)) /\ Hand(u)' = Hand(u)
             /\ (Owns(u)' <=> Owns(u)) /\ Number(u)' = Number(u)
             /\ pc'[u] = pc[u] /\ tmp'[u] = tmp[u] /\ chg'[u] = chg[u] /\ node'[u] = node[u] /\ val'[u] = val[u]
  BY <1>1 DEF Others, Holding, Hand, Owns, Number
<1>3. ASSUME NEW u \in Threads
      PROVE  (Owns(u)' <=> Owns(u)) /\ (Owns(u) => Number(u)' = Number(u))
  BY <1>2 DEF Keeps
<1>4. Structure'
  <2>1. chain' # <<>> /\ ChainIntact' /\ IsInjective(free') /\ IsInjective(chain') /\ Range(free') \cap Range(chain') = {}
    BY <1>0, <1>1 DEF Structure, ChainIntact
  <2>2. \A u \in Threads : Holding(u)' => Holding(u) /\ Hand(u)' = Hand(u)
    BY <1>2 DEF Keeps
  <2> QED BY <1>0, <1>1, <2>1, <2>2 DEF Structure
<1>5. Numbers'
  <2>1. \A k : (\A u \in Threads : Owns(u) => k # Number(u)) => (\A u \in Threads : Owns(u)' => k # Number(u)')
    BY <1>3
  <2>2. Copy(t)'
    BY DEF Local
  <2>3. ASSUME NEW u \in Threads \ {t} PROVE Copy(u)'
    <3>1. Copy(u)
      BY <1>0 DEF Numbers
    <3> QED BY <1>1, <1>2, <2>1, <3>1 DEF Copy, Fresh
  <2>4. /\ next'[Tip'] \in 0..rearID' /\ Fresh(next[Tip])' /\ rear'.id \in 0..rearID' /\ Fresh(rear.id)'
        /\ (rear'.id = next'[Tip'] <=> ~Lagging')
    BY <1>0, <1>1, <2>1 DEF Numbers, Fresh
  <2>5. \A u \in Threads : Owns(u)' => Number(u)' \in 1..rearID'
    BY <1>0, <1>1, <1>3 DEF Numbers
  <2>6. \A v, u \in Threads : Owns(v)' /\ Owns(u)' /\ Number(v)' = Number(u)' => v = u
    BY <1>0, <1>3 DEF Numbers
  <2> QED BY <2>2, <2>3, <2>4, <2>5, <2>6 DEF Numbers
<1>6. Loose'
  <2>1. Pointers(t)'
    BY DEF Local
  <2>2. ASSUME NEW u \in Threads \ {t} PROVE Pointers(u)'
    <3>1. Pointers(u)
      BY <1>0 DEF Loose
    <3> QED BY <1>1, <1>2, <3>1 DEF Pointers
  <2>3. ASSUME NEW n \in Nodes \ {Tip'}, next'[n] \in Nat, next'[n] # 0
        PROVE  \E u \in Threads : pc'[u] \in LinkPlaces /\ node'[u] = n
    <3>1. PICK u \in Threads : pc[u] \in LinkPlaces /\ node[u] = n
      BY <1>0, <1>1, <2>3 DEF Loose
    <3> QED BY <1>2, <3>1 DEF Keeps
  <2> QED BY <2>1, <2>2, <2>3 DEF Loose
<1>7. Movers'
  <2>1. Mover(t)'
    BY DEF Local
  <2>2. ASSUME NEW u \in Threads \ {t} PROVE Mover(u)'
    <3>1. Mover(u)
      BY <1>0 DEF Movers
    <3> QED BY <1>1, <1>2, <3>1 DEF Mover
  <2>3. ASSUME Lagging' PROVE \E u \in Threads : pc'[u] \in {"enq_number", "enq_cas"} /\ tmp'[u] = rear'
    <3>1. PICK u \in Threads : pc[u] \in {"enq_number", "enq_cas"} /\ tmp[u] = rear
      BY <1>0, <1>1, <2>3 DEF Movers
    <3> QED BY <1>1, <1>2, <3>1 DEF Keeps
  <2> QED BY <2>1, <2>2, <2>3 DEF Movers
<1>8. Takers'
  <2>1. Taker(t)'
    BY DEF Local
  <2>2. ASSUME NEW u \in Threads \ {t} PROVE Taker(u)'
    <3>1. Taker(u)
      BY <1>0 DEF Takers
    <3> QED BY <1>1, <1>2, <3>1 DEF Taker
  <2> QED BY <2>1, <2>2 DEF Takers
<1>9. Carried'
  <2>1. Carries(t)'
    BY DEF Local
  <2>2. ASSUME NEW u \in Threads \ {t} PROVE Carries(u)'
    <3>1. Carries(u)
      BY <1>0 DEF Carried
    <3> QED BY <1>1, <1>2, <3>1 DEF Carries
  <2> QED BY <1>0, <1>1, <2>1, <2>2 DEF Carried
<1> QED BY <1>4, <1>5, <1>6, <1>7, <1>8, <1>9

(* The rear is the last node of the chain, or the one before it. *)
LEMMA RearPlace ==
  ASSUME TypeOK, Structure
  PROVE  /\ rear.ptr \in Range(chain) /\ rear.ptr \in Nodes /\ Tip \in Nodes /\ next[Tip] \in Nat
         /\ Tip \in Range(chain)
         /\ Lagging => Len(chain) > 1 /\ next[rear.ptr] = Tip
         /\ front.ptr = chain[1] /\ front.ptr \in Nodes
         /\ Len(chain) > 1 => next[front.ptr] = chain[2] /\ chain[2] \in Nodes
         /\ ~(Len(chain) > 1) => front.ptr = Tip
<1>1. /\ Len(chain) \in Nat \ {0} /\ Tip \in Nodes /\ Tip \in Range(chain)
      /\ \A i \in 1..Len(chain) : chain[i] \in Nodes /\ chain[i] \in Range(chain)
  BY Ends DEF Structure
<1>2. /\ front.ptr = chain[1]
      /\ \A i \in 1..(Len(chain) - 1) : next[chain[i]] = chain[i + 1]
      /\ next[Tip] \notin Nodes
      /\ rear.ptr = Tip \/ (Len(chain) > 1 /\ rear.ptr = chain[Len(chain) - 1])
  BY DEF Structure, ChainIntact, Tip
<1>3. next[Tip] \in Nat
  BY <1>1, <1>2 DEF TypeOK, Ids
<1>4. CASE rear.ptr = Tip
  BY <1>1, <1>2, <1>3, <1>4 DEF Lagging, Tip
<1>5. CASE Len(chain) > 1 /\ rear.ptr = chain[Len(chain) - 1]
  <2>1. Len(chain) - 1 \in 1..(Len(chain) - 1) /\ 1 \in 1..(Len(chain) - 1)
    BY <1>1, <1>5
  <2>2. next[chain[Len(chain) - 1]] = chain[(Len(chain) - 1) + 1]
    BY <1>2, <2>1
  <2>3. next[rear.ptr] = Tip
    BY <1>1, <1>5, <2>2 DEF Tip
  <2> QED BY <1>1, <1>2, <1>3, <1>5, <2>1, <2>3 DEF Lagging, Tip
<1> QED BY <1>2, <1>4, <1>5

(* A copy of the rear that is kept, or taken now. *)
LEMMA CopyKept ==
  ASSUME IInv, NEW t \in Threads, Others(t), Quiet, Keeps(t),
         pc'[t] \in RearPlaces => \/ pc[t] \in RearPlaces /\ tmp'[t].id = tmp[t].id
                                  \/ tmp'[t].id = rear.id
  PROVE  Copy(t)'
<1> SUFFICES ASSUME pc'[t] \in RearPlaces PROVE Copy(t)'
  BY DEF Copy
<1>1. /\ rear' = rear /\ next' = next /\ rearID' = rearID /\ Tip' = Tip /\ (Lagging' <=> Lagging)
  BY DEF Quiet, Tip, Lagging
<1>2. ASSUME NEW u \in Threads
      PROVE  (Owns(u)' <=> Owns(u)) /\ (Owns(u) => Number(u)' = Number(u))
  BY <1>1 DEF Keeps, Others, Owns, Number
<1>3. tmp'[t].id \in 0..rearID /\ Fresh(tmp'[t].id) /\ (Lagging => tmp'[t].id # next[Tip])
  BY DEF IInv, Numbers, Copy
<1> QED BY <1>1, <1>2, <1>3 DEF Copy, Fresh

(* What the provers need of a thread. *)
LEMMA Locals ==
  ASSUME IInv, NEW t \in Threads
  PROVE  /\ Copy(t) /\ Pointers(t) /\ Mover(t) /\ Taker(t) /\ Carries(t)
         /\ pc \in [Threads -> Places] /\ tmp \in [Threads -> Copies] /\ chg \in [Threads -> Changes]
         /\ node \in [Threads -> Nodes \cup {None}] /\ val \in [Threads -> 0..MaxItems]
         /\ tmp[t] = [ptr |-> tmp[t].ptr, id |-> tmp[t].id] /\ tmp[t].id \in Nat
         /\ chg[t] = [ptr |-> chg[t].ptr, id |-> chg[t].id]
         /\ front = [ptr |-> front.ptr, id |-> front.id] /\ front.id \in Nat
         /\ rear = [ptr |-> rear.ptr, id |-> rear.id] /\ rear.id \in Nat
         /\ Owns(t) => node[t] \in Nodes /\ node[t] \notin Range(chain)
         /\ next \in [Nodes -> Ids] /\ data \in [Nodes -> 0..MaxItems]
<1>1. /\ pc \in [Threads -> Places] /\ tmp \in [Threads -> Copies] /\ chg \in [Threads -> Changes]
      /\ node \in [Threads -> Nodes \cup {None}] /\ val \in [Threads -> 0..MaxItems]
      /\ front \in Words /\ rear \in Words
      /\ next \in [Nodes -> Ids] /\ data \in [Nodes -> 0..MaxItems]
  BY DEF IInv, TypeOK
<1>2. Copy(t) /\ Pointers(t) /\ Mover(t) /\ Taker(t) /\ Carries(t)
  BY DEF IInv, Numbers, Loose, Movers, Takers, Carried
<1>3. tmp[t] \in Copies /\ chg[t] \in Changes
  BY <1>1
<1>4. /\ tmp[t] = [ptr |-> tmp[t].ptr, id |-> tmp[t].id] /\ tmp[t].id \in Nat
      /\ chg[t] = [ptr |-> chg[t].ptr, id |-> chg[t].id]
      /\ front = [ptr |-> front.ptr, id |-> front.id] /\ front.id \in Nat
      /\ rear = [ptr |-> rear.ptr, id |-> rear.id] /\ rear.id \in Nat
  BY <1>1, <1>3 DEF Copies, Changes, Words
<1>5. Owns(t) => node[t] \in Nodes /\ node[t] \notin Range(chain)
  BY DEF IInv, Structure, Holding, Hand, Owns, OwnPlaces, LinkPlaces
<1> QED BY <1>1, <1>2, <1>4, <1>5

(* The steps that leave the list and the pool: all but those on a new or an old *)
(* node, and the exchanges that succeed.                                       *)
Calm(t) ==
    \/ EnqCall(t) \/ EnqPtr(t) \/ EnqId(t) \/ (EnqLink(t) /\ next[tmp[t].ptr] # tmp[t].id)
    \/ HelpNext(t) \/ HelpId(t) \/ (HelpCas(t) /\ rear # tmp[t])
    \/ EnqNumber(t) \/ (EnqCas(t) /\ rear # tmp[t]) \/ EnqCount(t)
    \/ DeqDec(t) \/ DeqUndo(t) \/ DeqPtr(t) \/ DeqId(t)
    \/ DeqNext(t) \/ DeqData(t) \/ (DeqCas(t) /\ front # tmp[t])

LEMMA CalmStep ==
  ASSUME NEW t \in Threads, Calm(t)
  PROVE  Step(t)
BY DEF Calm, Step, EnQ, DeQ

LEMMA CalmIsQuiet ==
  ASSUME NEW t \in Threads, Calm(t)
  PROVE  Quiet
BY DEF Calm, Quiet, EnqCall, EnqPtr, EnqId, EnqLink, HelpNext, HelpId, HelpCas, EnqNumber, EnqCas, MoveRear,
   EnqCount, DeqDec, DeqUndo, DeqPtr, DeqId, DeqNext, DeqData, DeqCas

LEMMA QuietStep ==
  ASSUME IInv, NEW t \in Threads, Calm(t)
  PROVE  Keeps(t) /\ Local(t)'
<1>0. TypeOK /\ Structure /\ NoSelfLink /\ Numbers /\ Others(t)
  BY OthersKept, CalmStep DEF IInv
<1>1. /\ Copy(t) /\ Pointers(t) /\ Mover(t) /\ Taker(t) /\ Carries(t)
      /\ pc \in [Threads -> Places] /\ tmp \in [Threads -> Copies] /\ chg \in [Threads -> Changes]
      /\ node \in [Threads -> Nodes \cup {None}] /\ val \in [Threads -> 0..MaxItems]
      /\ tmp[t] = [ptr |-> tmp[t].ptr, id |-> tmp[t].id] /\ tmp[t].id \in Nat
      /\ chg[t] = [ptr |-> chg[t].ptr, id |-> chg[t].id]
      /\ front = [ptr |-> front.ptr, id |-> front.id] /\ front.id \in Nat
      /\ rear = [ptr |-> rear.ptr, id |-> rear.id] /\ rear.id \in Nat
      /\ Owns(t) => node[t] \in Nodes /\ node[t] \notin Range(chain)
      /\ next \in [Nodes -> Ids] /\ data \in [Nodes -> 0..MaxItems]
  BY Locals
<1>2. /\ front' = front /\ rear' = rear /\ next' = next /\ data' = data /\ rearID' = rearID
      /\ free' = free /\ chain' = chain /\ Tip' = Tip /\ (Lagging' <=> Lagging)
  BY CalmIsQuiet DEF Quiet, Tip, Lagging
<1>3. /\ rear.ptr \in Range(chain) /\ rear.ptr \in Nodes /\ Tip \in Nodes /\ next[Tip] \in Nat
      /\ Lagging => next[rear.ptr] = Tip
      /\ ~Lagging => rear.ptr = Tip
      /\ front.ptr \in Nodes
      /\ Len(chain) > 1 => next[front.ptr] = chain[2] /\ chain[2] \in Nodes
      /\ ~(Len(chain) > 1) => front.ptr = Tip
  BY <1>0, RearPlace DEF Lagging
<1>p. Nodes \cap Nat = {}
  OBVIOUS
<1>s. Keeps(t) /\ Pointers(t)' /\ Mover(t)' /\ Taker(t)' /\ Carries(t)'
      /\ (pc'[t] \in RearPlaces => \/ pc[t] \in RearPlaces /\ tmp'[t].id = tmp[t].id
                                   \/ tmp'[t].id = rear.id)
      => Keeps(t) /\ Local(t)'
  BY <1>0, CalmIsQuiet, CopyKept DEF Local
<1>4. CASE EnqCall(t)
  <2>1. /\ pc[t] = "idle" /\ tmp'[t] = tmp[t] /\ chg'[t] = chg[t] /\ node'[t] = node[t]
        /\ \/ pc'[t] = "idle" /\ val'[t] = val[t]
           \/ pc'[t] = "enq_alloc" /\ val'[t] \in 1..MaxItems
    BY <1>0, <1>1, <1>4 DEF EnqCall, TypeOK
  <2>2. Keeps(t)
    BY <1>1, <1>2, <2>1 DEF Keeps, Holding, Hand, Owns, Number, OwnPlaces, LinkPlaces, RearPlaces, FrontPlaces
  <2>3. Pointers(t)' /\ Carries(t)'
    BY <1>1, <1>2, <1>3, <1>p, <2>1 DEF Pointers, Carries, Owns, OwnPlaces, LinkPlaces, RearPlaces, FrontPlaces
  <2>4. Mover(t)'
    BY <1>1, <1>2, <1>3, <1>p, <2>1 DEF Mover, Pointers
  <2>5. Taker(t)'
    BY <1>1, <1>2, <1>3, <1>p, <2>1 DEF Taker, FrontPlaces
  <2> QED BY <1>1, <1>s, <2>1, <2>2, <2>3, <2>4, <2>5 DEF RearPlaces
<1>5. CASE EnqPtr(t)
  <2>1. /\ pc[t] = "enq_ptr" /\ pc'[t] = "enq_id"
        /\ tmp'[t].ptr = rear.ptr
        /\ chg'[t] = chg[t]
        /\ node'[t] = node[t]
        /\ val'[t] = val[t]
    BY <1>1, <1>5 DEF EnqPtr, Copies
  <2>2. Keeps(t)
    BY <1>1, <1>2, <2>1 DEF Keeps, Holding, Hand, Owns, Number, OwnPlaces, LinkPlaces, RearPlaces, FrontPlaces
  <2>3. Pointers(t)' /\ Carries(t)'
    BY <1>1, <1>2, <1>3, <1>p, <2>1 DEF Pointers, Carries, Owns, OwnPlaces, LinkPlaces, RearPlaces, FrontPlaces
  <2>4. Mover(t)'
    BY <1>1, <1>2, <1>3, <1>p, <2>1 DEF Mover, Pointers
  <2>5. Taker(t)'
    BY <1>1, <1>2, <1>3, <1>p, <2>1 DEF Taker, FrontPlaces
  <2> QED BY <1>1, <1>s, <2>1, <2>2, <2>3, <2>4, <2>5 DEF RearPlaces
<1>6. CASE EnqId(t)
  <2>1. /\ pc[t] = "enq_id" /\ pc'[t] = "enq_link"
        /\ tmp'[t].ptr = tmp[t].ptr /\ tmp'[t].id = rear.id /\ tmp[t].ptr # node[t]
        /\ chg'[t] = chg[t]
        /\ node'[t] = node[t]
        /\ val'[t] = val[t]
    BY <1>1, <1>6 DEF EnqId, Copies, Pointers
  <2>2. Keeps(t)
    BY <1>1, <1>2, <2>1 DEF Keeps, Holding, Hand, Owns, Number, OwnPlaces, LinkPlaces, RearPlaces, FrontPlaces
  <2>3. Pointers(t)' /\ Carries(t)'
    BY <1>1, <1>2, <1>3, <1>p, <2>1 DEF Pointers, Carries, Owns, OwnPlaces, LinkPlaces, RearPlaces, FrontPlaces
  <2>4. Mover(t)'
    BY <1>1, <1>2, <1>3, <1>p, <2>1 DEF Mover, Pointers
  <2>5. Taker(t)'
    BY <1>1, <1>2, <1>3, <1>p, <2>1 DEF Taker, FrontPlaces
  <2> QED BY <1>1, <1>s, <2>1, <2>2, <2>3, <2>4, <2>5 DEF RearPlaces
<1>7. CASE EnqLink(t) /\ next[tmp[t].ptr] # tmp[t].id
  <2>1. /\ pc[t] = "enq_link" /\ pc'[t] = "help_next"
        /\ tmp'[t] = tmp[t]
        /\ chg'[t] = chg[t]
        /\ node'[t] = node[t]
        /\ val'[t] = val[t]
    BY <1>1, <1>7 DEF EnqLink
  <2>2. Keeps(t)
    BY <1>1, <1>2, <2>1 DEF Keeps, Holding, Hand, Owns, Number, OwnPlaces, LinkPlaces, RearPlaces, FrontPlaces
  <2>3. Pointers(t)' /\ Carries(t)'
    BY <1>1, <1>2, <1>3, <1>p, <2>1 DEF Pointers, Carries, Owns, OwnPlaces, LinkPlaces, RearPlaces, FrontPlaces
  <2>4. Mover(t)'
    BY <1>1, <1>2, <1>3, <1>p, <2>1 DEF Mover, Pointers
  <2>5. Taker(t)'
    BY <1>1, <1>2, <1>3, <1>p, <2>1 DEF Taker, FrontPlaces
  <2> QED BY <1>1, <1>s, <2>1, <2>2, <2>3, <2>4, <2>5 DEF RearPlaces
<1>8. CASE HelpNext(t)
  <2>0. tmp[t].ptr \in Nodes
    BY <1>1, <1>8 DEF HelpNext, Pointers
  <2>1. /\ pc[t] = "help_next" /\ tmp'[t] = tmp[t] /\ node'[t] = node[t] /\ val'[t] = val[t]
        /\ chg'[t].ptr = next[tmp[t].ptr]
        /\ \/ pc'[t] = "enq_ptr"
           \/ pc'[t] = "help_id" /\ next[tmp[t].ptr] \in Nodes
    BY <1>1, <1>8, <2>0 DEF HelpNext, Ids, Changes
  <2>2. Keeps(t)
    BY <1>1, <1>2, <2>1 DEF Keeps, Holding, Hand, Owns, Number, OwnPlaces, LinkPlaces, RearPlaces, FrontPlaces
  <2>3. Pointers(t)' /\ Carries(t)'
    BY <1>1, <1>2, <1>3, <1>p, <2>1 DEF Pointers, Carries, Owns, OwnPlaces, LinkPlaces, RearPlaces, FrontPlaces
  <2>4. Mover(t)'
    BY <1>1, <1>2, <1>3, <1>p, <2>1 DEF Mover, Pointers
  <2>5. Taker(t)'
    BY <1>1, <1>2, <1>3, <1>p, <2>1 DEF Taker, FrontPlaces
  <2> QED BY <1>1, <1>s, <2>1, <2>2, <2>3, <2>4, <2>5 DEF RearPlaces
<1>9. CASE HelpId(t)
  <2>1. /\ pc[t] = "help_id" /\ pc'[t] = "help_cas"
        /\ tmp'[t] = tmp[t]
        /\ chg'[t].ptr = chg[t].ptr /\ chg'[t].id = next[chg[t].ptr] /\ chg'[t] = [ptr |-> chg'[t].ptr, id |-> chg'[t].id]
        /\ node'[t] = node[t]
        /\ val'[t] = val[t]
    BY <1>1, <1>9 DEF HelpId, Changes
  <2>2. Keeps(t)
    BY <1>1, <1>2, <2>1 DEF Keeps, Holding, Hand, Owns, Number, OwnPlaces, LinkPlaces, RearPlaces, FrontPlaces
  <2>3. Pointers(t)' /\ Carries(t)'
    BY <1>1, <1>2, <1>3, <1>p, <2>1 DEF Pointers, Carries, Owns, OwnPlaces, LinkPlaces, RearPlaces, FrontPlaces
  <2>4. Mover(t)'
    BY <1>1, <1>2, <1>3, <1>p, <2>1 DEF Mover, Pointers
  <2>5. Taker(t)'
    BY <1>1, <1>2, <1>3, <1>p, <2>1 DEF Taker, FrontPlaces
  <2> QED BY <1>1, <1>s, <2>1, <2>2, <2>3, <2>4, <2>5 DEF RearPlaces
<1>10. CASE HelpCas(t) /\ rear # tmp[t]
  <2>1. /\ pc[t] = "help_cas" /\ pc'[t] = "enq_ptr"
        /\ rear # tmp[t]
        /\ chg'[t] = chg[t]
        /\ node'[t] = node[t]
        /\ val'[t] = val[t]
    BY <1>1, <1>10 DEF HelpCas, MoveRear
  <2>2. Keeps(t)
    BY <1>1, <1>2, <2>1 DEF Keeps, Holding, Hand, Owns, Number, OwnPlaces, LinkPlaces, RearPlaces, FrontPlaces
  <2>3. Pointers(t)' /\ Carries(t)'
    BY <1>1, <1>2, <1>3, <1>p, <2>1 DEF Pointers, Carries, Owns, OwnPlaces, LinkPlaces, RearPlaces, FrontPlaces
  <2>4. Mover(t)'
    BY <1>1, <1>2, <1>3, <1>p, <2>1 DEF Mover, Pointers
  <2>5. Taker(t)'
    BY <1>1, <1>2, <1>3, <1>p, <2>1 DEF Taker, FrontPlaces
  <2> QED BY <1>1, <1>s, <2>1, <2>2, <2>3, <2>4, <2>5 DEF RearPlaces
<1>11. CASE EnqNumber(t)
  <2>1. /\ pc[t] = "enq_number" /\ pc'[t] = "enq_cas"
        /\ tmp'[t] = tmp[t]
        /\ chg'[t] = [ptr |-> node[t], id |-> next[node[t]]]
        /\ node'[t] = node[t]
        /\ val'[t] = val[t]
    BY <1>1, <1>11 DEF EnqNumber
  <2>2. Keeps(t)
    BY <1>1, <1>2, <2>1 DEF Keeps, Holding, Hand, Owns, Number, OwnPlaces, LinkPlaces, RearPlaces, FrontPlaces
  <2>3. Pointers(t)' /\ Carries(t)'
    BY <1>1, <1>2, <1>3, <1>p, <2>1 DEF Pointers, Carries, Owns, OwnPlaces, LinkPlaces, RearPlaces, FrontPlaces
  <2>4. Mover(t)'
    BY <1>1, <1>2, <1>3, <1>p, <2>1 DEF Mover, Pointers
  <2>5. Taker(t)'
    BY <1>1, <1>2, <1>3, <1>p, <2>1 DEF Taker, FrontPlaces
  <2> QED BY <1>1, <1>s, <2>1, <2>2, <2>3, <2>4, <2>5 DEF RearPlaces
<1>12. CASE EnqCas(t) /\ rear # tmp[t]
  <2>1. /\ pc[t] = "enq_cas" /\ pc'[t] = "enq_count"
        /\ rear # tmp[t]
        /\ chg'[t] = chg[t]
        /\ node'[t] = node[t]
        /\ val'[t] = val[t]
    BY <1>1, <1>12 DEF EnqCas, MoveRear
  <2>2. Keeps(t)
    BY <1>1, <1>2, <2>1 DEF Keeps, Holding, Hand, Owns, Number, OwnPlaces, LinkPlaces, RearPlaces, FrontPlaces
  <2>3. Pointers(t)' /\ Carries(t)'
    BY <1>1, <1>2, <1>3, <1>p, <2>1 DEF Pointers, Carries, Owns, OwnPlaces, LinkPlaces, RearPlaces, FrontPlaces
  <2>4. Mover(t)'
    BY <1>1, <1>2, <1>3, <1>p, <2>1 DEF Mover, Pointers
  <2>5. Taker(t)'
    BY <1>1, <1>2, <1>3, <1>p, <2>1 DEF Taker, FrontPlaces
  <2> QED BY <1>1, <1>s, <2>1, <2>2, <2>3, <2>4, <2>5 DEF RearPlaces
<1>13. CASE EnqCount(t)
  <2>1. pc[t] = "enq_count" /\ pc'[t] = "idle"
    BY <1>1, <1>13 DEF EnqCount, Leave
  <2>2. Keeps(t)
    BY <1>1, <1>2, <2>1 DEF Keeps, Holding, Hand, Owns, Number, OwnPlaces, LinkPlaces, RearPlaces, FrontPlaces
  <2>3. Pointers(t)' /\ Carries(t)'
    BY <1>1, <1>2, <1>3, <1>p, <2>1 DEF Pointers, Carries, Owns, OwnPlaces, LinkPlaces, RearPlaces, FrontPlaces
  <2>4. Mover(t)'
    BY <1>1, <1>2, <1>3, <1>p, <2>1 DEF Mover, Pointers
  <2>5. Taker(t)'
    BY <1>1, <1>2, <1>3, <1>p, <2>1 DEF Taker, FrontPlaces
  <2> QED BY <1>1, <1>s, <2>1, <2>2, <2>3, <2>4, <2>5 DEF RearPlaces
<1>14. CASE DeqDec(t)
  <2>1. /\ pc[t] = "idle" /\ pc'[t] \in {"deq_undo", "deq_ptr"}
        /\ tmp'[t] = tmp[t] /\ chg'[t] = chg[t] /\ node'[t] = node[t] /\ val'[t] = val[t]
    BY <1>1, <1>14 DEF DeqDec
  <2>2. Keeps(t)
    BY <1>1, <1>2, <2>1 DEF Keeps, Holding, Hand, Owns, Number, OwnPlaces, LinkPlaces, RearPlaces, FrontPlaces
  <2>3. Pointers(t)' /\ Carries(t)'
    BY <1>1, <1>2, <1>3, <1>p, <2>1 DEF Pointers, Carries, Owns, OwnPlaces, LinkPlaces, RearPlaces, FrontPlaces
  <2>4. Mover(t)'
    BY <1>1, <1>2, <1>3, <1>p, <2>1 DEF Mover, Pointers
  <2>5. Taker(t)'
    BY <1>1, <1>2, <1>3, <1>p, <2>1 DEF Taker, FrontPlaces
  <2> QED BY <1>1, <1>s, <2>1, <2>2, <2>3, <2>4, <2>5 DEF RearPlaces
<1>15. CASE DeqUndo(t)
  <2>1. pc[t] = "deq_undo" /\ pc'[t] = "idle"
    BY <1>1, <1>15 DEF DeqUndo, Leave
  <2>2. Keeps(t)
    BY <1>1, <1>2, <2>1 DEF Keeps, Holding, Hand, Owns, Number, OwnPlaces, LinkPlaces, RearPlaces, FrontPlaces
  <2>3. Pointers(t)' /\ Carries(t)'
    BY <1>1, <1>2, <1>3, <1>p, <2>1 DEF Pointers, Carries, Owns, OwnPlaces, LinkPlaces, RearPlaces, FrontPlaces
  <2>4. Mover(t)'
    BY <1>1, <1>2, <1>3, <1>p, <2>1 DEF Mover, Pointers
  <2>5. Taker(t)'
    BY <1>1, <1>2, <1>3, <1>p, <2>1 DEF Taker, FrontPlaces
  <2> QED BY <1>1, <1>s, <2>1, <2>2, <2>3, <2>4, <2>5 DEF RearPlaces
<1>16. CASE DeqPtr(t)
  <2>1. /\ pc[t] = "deq_ptr" /\ pc'[t] = "deq_id"
        /\ tmp'[t].ptr = front.ptr
        /\ chg'[t] = chg[t]
        /\ node'[t] = node[t]
        /\ val'[t] = val[t]
    BY <1>1, <1>16 DEF DeqPtr, Copies
  <2>2. Keeps(t)
    BY <1>1, <1>2, <2>1 DEF Keeps, Holding, Hand, Owns, Number, OwnPlaces, LinkPlaces, RearPlaces, FrontPlaces
  <2>3. Pointers(t)' /\ Carries(t)'
    BY <1>1, <1>2, <1>3, <1>p, <2>1 DEF Pointers, Carries, Owns, OwnPlaces, LinkPlaces, RearPlaces, FrontPlaces
  <2>4. Mover(t)'
    BY <1>1, <1>2, <1>3, <1>p, <2>1 DEF Mover, Pointers
  <2>5. Taker(t)'
    BY <1>1, <1>2, <1>3, <1>p, <2>1 DEF Taker, FrontPlaces
  <2> QED BY <1>1, <1>s, <2>1, <2>2, <2>3, <2>4, <2>5 DEF RearPlaces
<1>17. CASE DeqId(t)
  <2>1. /\ pc[t] = "deq_id" /\ pc'[t] = "deq_next"
        /\ tmp'[t].ptr = tmp[t].ptr /\ tmp'[t].id = front.id
        /\ chg'[t] = chg[t]
        /\ node'[t] = node[t]
        /\ val'[t] = val[t]
    BY <1>1, <1>17 DEF DeqId, Copies
  <2>2. Keeps(t)
    BY <1>1, <1>2, <2>1 DEF Keeps, Holding, Hand, Owns, Number, OwnPlaces, LinkPlaces, RearPlaces, FrontPlaces
  <2>3. Pointers(t)' /\ Carries(t)'
    BY <1>1, <1>2, <1>3, <1>p, <2>1 DEF Pointers, Carries, Owns, OwnPlaces, LinkPlaces, RearPlaces, FrontPlaces
  <2>4. Mover(t)'
    BY <1>1, <1>2, <1>3, <1>p, <2>1 DEF Mover, Pointers
  <2>5. Taker(t)'
    BY <1>1, <1>2, <1>3, <1>p, <2>1 DEF Taker, FrontPlaces
  <2> QED BY <1>1, <1>s, <2>1, <2>2, <2>3, <2>4, <2>5 DEF RearPlaces
<1>18. CASE DeqNext(t)
  <2>0. tmp[t].ptr \in Nodes
    BY <1>1, <1>18 DEF DeqNext, Taker, FrontPlaces
  <2>1. /\ pc[t] = "deq_next" /\ pc'[t] = "deq_data"
        /\ tmp'[t] = tmp[t]
        /\ next[tmp[t].ptr] \notin Nat /\ chg'[t].ptr = next[tmp[t].ptr] /\ chg'[t].id = tmp[t].id + 1
        /\ node'[t] = node[t]
        /\ val'[t] = val[t]
    BY <1>1, <1>p, <1>18, <2>0 DEF DeqNext, Ids
  <2>n. next[tmp[t].ptr] \in Nodes
    BY <1>1, <2>0, <2>1 DEF Ids
  <2>f. tmp'[t] = front' => Len(chain') > 1 /\ chg'[t].ptr = chain'[2]
    BY <1>2, <1>3, <2>1
  <2>2. Keeps(t)
    BY <1>1, <1>2, <2>0, <2>1 DEF Keeps, Holding, Hand, Owns, Number, OwnPlaces, LinkPlaces, RearPlaces, FrontPlaces
  <2>3. Pointers(t)' /\ Carries(t)'
    BY <1>1, <1>2, <1>3, <1>p, <2>0, <2>1 DEF Pointers, Carries, Owns, OwnPlaces, LinkPlaces, RearPlaces, FrontPlaces
  <2>4. Mover(t)'
    BY <1>1, <1>2, <1>3, <1>p, <2>0, <2>1 DEF Mover, Pointers
  <2>5. Taker(t)'
    BY <1>1, <1>2, <2>0, <2>1, <2>n, <2>f DEF Taker, FrontPlaces
  <2> QED BY <1>1, <1>s, <2>0, <2>1, <2>2, <2>3, <2>4, <2>5 DEF RearPlaces
<1>19. CASE DeqData(t)
  <2>1. /\ pc[t] = "deq_data" /\ pc'[t] = "deq_cas"
        /\ tmp'[t] = tmp[t]
        /\ chg'[t] = chg[t]
        /\ node'[t] = node[t]
        /\ val'[t] = data[chg[t].ptr]
    BY <1>1, <1>19 DEF DeqData
  <2>2. Keeps(t)
    BY <1>1, <1>2, <2>1 DEF Keeps, Holding, Hand, Owns, Number, OwnPlaces, LinkPlaces, RearPlaces, FrontPlaces
  <2>3. Pointers(t)' /\ Carries(t)'
    BY <1>1, <1>2, <1>3, <1>p, <2>1 DEF Pointers, Carries, Owns, OwnPlaces, LinkPlaces, RearPlaces, FrontPlaces
  <2>4. Mover(t)'
    BY <1>1, <1>2, <1>3, <1>p, <2>1 DEF Mover, Pointers
  <2>5. Taker(t)'
    BY <1>1, <1>2, <1>3, <1>p, <2>1 DEF Taker, FrontPlaces
  <2> QED BY <1>1, <1>s, <2>1, <2>2, <2>3, <2>4, <2>5 DEF RearPlaces
<1>20. CASE DeqCas(t) /\ front # tmp[t]
  <2>1. /\ pc[t] = "deq_cas" /\ pc'[t] = "deq_next"
        /\ tmp'[t] = front
        /\ chg'[t] = chg[t]
        /\ node'[t] = node[t]
        /\ val'[t] = val[t]
    BY <1>1, <1>20 DEF DeqCas
  <2>2. Keeps(t)
    BY <1>1, <1>2, <2>1 DEF Keeps, Holding, Hand, Owns, Number, OwnPlaces, LinkPlaces, RearPlaces, FrontPlaces
  <2>3. Pointers(t)' /\ Carries(t)'
    BY <1>1, <1>2, <1>3, <1>p, <2>1 DEF Pointers, Carries, Owns, OwnPlaces, LinkPlaces, RearPlaces, FrontPlaces
  <2>4. Mover(t)'
    BY <1>1, <1>2, <1>3, <1>p, <2>1 DEF Mover, Pointers
  <2>5. Taker(t)'
    BY <1>1, <1>2, <1>3, <1>p, <2>1 DEF Taker, FrontPlaces
  <2> QED BY <1>1, <1>s, <2>1, <2>2, <2>3, <2>4, <2>5 DEF RearPlaces
<1> QED
  BY <1>4, <1>5, <1>6, <1>7, <1>8, <1>9, <1>10, <1>11, <1>12, <1>13, <1>14, <1>15, <1>16, <1>17, <1>18, <1>19, <1>20
  DEF Calm

-----------------------------------------------------------------------------
(* Steps on a new and on an old node *)

Shape == Structure /\ Numbers /\ Loose /\ Movers /\ Takers /\ Carried

LEMMA OtherThreads ==
  ASSUME NEW t \in Threads, Others(t), NEW u \in Threads \ {t}
  PROVE  /\ (Holding(u)' <=> Holding(u)) /\ Hand(u)' = Hand(u) /\ (Owns(u)' <=> Owns(u))
         /\ Number(u)' = IF pc[u] = "enq_next" THEN Number(u) ELSE next'[node[u]]
         /\ pc'[u] = pc[u] /\ tmp'[u] = tmp[u] /\ chg'[u] = chg[u] /\ node'[u] = node[u] /\ val'[u] = val[u]
BY DEF Others, Holding, Hand, Owns, Number

(* Nobody else has the node in a thread's hands. *)
LEMMA OtherHands ==
  ASSUME Structure, NEW t \in Threads, NEW u \in Threads \ {t}, Holding(t), Owns(u)
  PROVE  node[u] # Hand(t) /\ node[u] \in Nodes /\ node[u] \notin Range(chain) /\ node[u] \notin Range(free)
BY DEF Structure, Holding, Hand, Owns, OwnPlaces, LinkPlaces

(* The node is given back. *)
LEMMA FreeShape ==
  ASSUME IInv, NEW t \in Threads, DeqFree(t)
  PROVE  Shape'
<1>0. TypeOK /\ Structure /\ Numbers /\ Loose /\ Movers /\ Takers /\ Carried /\ Step(t)
  BY DEF IInv, Step, DeQ
<1>a. Others(t)
  BY <1>0, OthersKept
<1>1. /\ pc[t] = "deq_free" /\ pc'[t] = "idle" /\ free' = <<tmp[t].ptr>> \o free
      /\ front' = front /\ rear' = rear /\ next' = next /\ data' = data /\ rearID' = rearID /\ chain' = chain
      /\ Tip' = Tip /\ (Lagging' <=> Lagging)
  BY <1>0 DEF DeqFree, TypeOK, Leave, Tip, Lagging
<1>2. ASSUME NEW u \in Threads \ {t}
      PROVE  /\ (Holding(u)' <=> Holding(u)) /\ Hand(u)' = Hand(u) /\ (Owns(u)' <=> Owns(u)) /\ Number(u)' = Number(u)
             /\ pc'[u] = pc[u] /\ tmp'[u] = tmp[u] /\ chg'[u] = chg[u] /\ node'[u] = node[u] /\ val'[u] = val[u]
  BY <1>a, <1>1, OtherThreads DEF Number
<1>3. ~Owns(t) /\ ~Owns(t)' /\ Holding(t) /\ ~Holding(t)' /\ Hand(t) = tmp[t].ptr
  BY <1>1 DEF Owns, Holding, Hand, OwnPlaces, LinkPlaces
<1>4. Structure'
  <2>1. tmp[t].ptr \in Nodes \ (Range(free) \cup Range(chain))
    BY <1>0, <1>3 DEF Structure
  <2>2. IsInjective(free') /\ Range(free') = Range(free) \cup {tmp[t].ptr}
    BY <1>0, <1>1, <2>1, Prepended DEF Structure, TypeOK
  <2>3. ASSUME NEW u \in Threads, Holding(u)' PROVE Hand(u)' \in Nodes \ (Range(free') \cup Range(chain'))
    BY <1>0, <1>1, <1>2, <1>3, <2>2, <2>3 DEF Structure
  <2>4. chain' # <<>> /\ ChainIntact' /\ IsInjective(chain') /\ Range(free') \cap Range(chain') = {}
    BY <1>0, <1>1, <2>1, <2>2 DEF Structure, ChainIntact
  <2>5. \A v, u \in Threads : Holding(v)' /\ Holding(u)' /\ Hand(v)' = Hand(u)' => v = u
    BY <1>0, <1>2, <1>3 DEF Structure
  <2> QED BY <2>2, <2>3, <2>4, <2>5 DEF Structure
<1>5. Numbers'
  <2>1. \A k : (\A u \in Threads : Owns(u) => k # Number(u)) => (\A u \in Threads : Owns(u)' => k # Number(u)')
    BY <1>2, <1>3
  <2>2. ASSUME NEW u \in Threads PROVE Copy(u)'
    <3>1. Copy(u)
      BY <1>0 DEF Numbers
    <3>2. CASE u = t
      BY <1>1, <3>2 DEF Copy, RearPlaces
    <3>3. CASE u # t
      <4> SUFFICES ASSUME pc'[u] \in RearPlaces PROVE Copy(u)'
        BY DEF Copy
      <4>1. tmp'[u] = tmp[u] /\ tmp[u].id \in 0..rearID /\ Fresh(tmp[u].id) /\ (Lagging => tmp[u].id # next[Tip])
        BY <1>2, <3>1, <3>3 DEF Copy
      <4>2. \A v \in Threads : Owns(v)' => tmp[u].id # Number(v)'
        BY <2>1, <4>1 DEF Fresh
      <4> QED BY <1>1, <4>1, <4>2 DEF Copy, Fresh
    <3> QED BY <3>2, <3>3
  <2>3. /\ next'[Tip'] \in 0..rearID' /\ Fresh(next[Tip])' /\ rear'.id \in 0..rearID' /\ Fresh(rear.id)'
        /\ (rear'.id = next'[Tip'] <=> ~Lagging')
    BY <1>0, <1>1, <2>1 DEF Numbers, Fresh
  <2>4. /\ \A u \in Threads : Owns(u)' => Number(u)' \in 1..rearID'
        /\ \A v, u \in Threads : Owns(v)' /\ Owns(u)' /\ Number(v)' = Number(u)' => v = u
    BY <1>0, <1>1, <1>2, <1>3, SMTT(40) DEF Numbers
  <2> QED BY <2>2, <2>3, <2>4 DEF Numbers
<1>6. Loose'
  <2>1. ASSUME NEW u \in Threads PROVE Pointers(u)'
    <3>1. Pointers(u)
      BY <1>0 DEF Loose
    <3> QED BY <1>1, <1>2, <3>1 DEF Pointers
  <2>2. ASSUME NEW n \in Nodes \ {Tip'}, next'[n] \in Nat, next'[n] # 0
        PROVE  \E u \in Threads : pc'[u] \in LinkPlaces /\ node'[u] = n
    <3>1. PICK u \in Threads : pc[u] \in LinkPlaces /\ node[u] = n
      BY <1>0, <1>1, <2>2 DEF Loose
    <3> QED BY <1>1, <1>2, <3>1 DEF LinkPlaces
  <2> QED BY <2>1, <2>2 DEF Loose
<1>7. Movers'
  <2>1. ASSUME NEW u \in Threads PROVE Mover(u)'
    <3>1. Mover(u)
      BY <1>0 DEF Movers
    <3> QED BY <1>1, <1>2, <3>1 DEF Mover
  <2>2. ASSUME Lagging' PROVE \E u \in Threads : pc'[u] \in {"enq_number", "enq_cas"} /\ tmp'[u] = rear'
    <3>1. PICK u \in Threads : pc[u] \in {"enq_number", "enq_cas"} /\ tmp[u] = rear
      BY <1>0, <1>1, <2>2 DEF Movers
    <3> QED BY <1>1, <1>2, <3>1
  <2> QED BY <2>1, <2>2 DEF Movers
<1>8. Takers'
  <2>1. ASSUME NEW u \in Threads PROVE Taker(u)'
    <3>1. Taker(u)
      BY <1>0 DEF Takers
    <3> QED BY <1>1, <1>2, <3>1 DEF Taker, FrontPlaces
  <2> QED BY <2>1 DEF Takers
<1>9. Carried'
  <2>1. ASSUME NEW u \in Threads PROVE Carries(u)'
    <3>1. Carries(u)
      BY <1>0 DEF Carried
    <3> QED BY <1>1, <1>2, <1>3, <3>1 DEF Carries, OwnPlaces, LinkPlaces
  <2> QED BY <1>0, <1>1, <2>1 DEF Carried
<1> QED BY <1>4, <1>5, <1>6, <1>7, <1>8, <1>9 DEF Shape

(* A node and a number are taken. *)
LEMMA AllocShape ==
  ASSUME IInv, NEW t \in Threads, EnqAlloc(t)
  PROVE  Shape'
<1>0. TypeOK /\ Structure /\ Numbers /\ Loose /\ Movers /\ Takers /\ Carried /\ Counted /\ Step(t)
  BY DEF IInv, Step, EnQ
<1>a. Others(t)
  BY <1>0, OthersKept
<1> DEFINE n == Head(free)
<1>b. /\ free # <<>> /\ n \in Range(free) /\ n \in Nodes /\ n \notin Range(chain) /\ n # Tip
      /\ IsInjective(Tail(free)) /\ Range(Tail(free)) = Range(free) \ {n}
  <2>1. free # <<>>
    BY <1>0, NodeLeft DEF EnqAlloc
  <2>2. free \in Seq(Nodes) /\ IsInjective(free) /\ Range(free) \cap Range(chain) = {} /\ Tip \in Range(chain)
    BY <1>0, Ends DEF TypeOK, Structure
  <2> QED BY <2>1, <2>2, Front, InRange
<1> HIDE DEF n
<1>1. /\ pc[t] = "enq_alloc" /\ pc'[t] = "enq_next" /\ free' = Tail(free)
      /\ front' = front /\ rear' = rear /\ next' = next /\ chain' = chain
      /\ rearID \in Nat /\ rearID' = rearID + 1 /\ chg'[t].id = rearID + 1
      /\ node'[t] = n /\ val'[t] = val[t] /\ val[t] \in 1..MaxItems /\ tmp'[t] = tmp[t]
      /\ data' = [data EXCEPT ![n] = val[t]] /\ data \in [Nodes -> 0..MaxItems]
      /\ Tip' = Tip /\ (Lagging' <=> Lagging)
  <2>1. /\ pc[t] = "enq_alloc" /\ pc' = [pc EXCEPT ![t] = "enq_next"] /\ free' = Tail(free)
        /\ front' = front /\ rear' = rear /\ next' = next /\ chain' = chain
        /\ rearID' = rearID + 1 /\ chg' = [chg EXCEPT ![t].id = rearID + 1]
        /\ node' = [node EXCEPT ![t] = n] /\ val' = val /\ tmp' = tmp
        /\ data' = [data EXCEPT ![n] = val[t]]
    BY Zenon DEF EnqAlloc, n
  <2>2. /\ pc \in [Threads -> Places] /\ node \in [Threads -> Nodes \cup {None}] /\ rearID \in Nat
        /\ data \in [Nodes -> 0..MaxItems] /\ chg \in [Threads -> Changes] /\ chg[t] \in Changes
    BY <1>0 DEF TypeOK
  <2>3. val[t] \in 1..MaxItems
    BY <1>0, <2>1 DEF Carried, Carries
  <2>4. chg'[t].id = rearID + 1
    BY <2>1, <2>2 DEF Changes
  <2> QED BY <2>1, <2>2, <2>3, <2>4 DEF Tip, Lagging
<1>2. ASSUME NEW u \in Threads \ {t}
      PROVE  /\ (Holding(u)' <=> Holding(u)) /\ Hand(u)' = Hand(u) /\ (Owns(u)' <=> Owns(u)) /\ Number(u)' = Number(u)
             /\ pc'[u] = pc[u] /\ tmp'[u] = tmp[u] /\ chg'[u] = chg[u] /\ node'[u] = node[u] /\ val'[u] = val[u]
  BY <1>a, <1>1, OtherThreads DEF Number
<1>3. /\ ~Owns(t) /\ ~Holding(t) /\ Owns(t)' /\ Holding(t)' /\ Hand(t)' = n /\ Number(t)' = rearID + 1
  BY <1>1 DEF Owns, Holding, Hand, Number, OwnPlaces, LinkPlaces
<1>4. Structure'
  <2>1. ASSUME NEW u \in Threads, Holding(u)' PROVE Hand(u)' \in Nodes \ (Range(free') \cup Range(chain'))
    BY <1>0, <1>1, <1>2, <1>3, <1>b, <2>1 DEF Structure
  <2>2. chain' # <<>> /\ ChainIntact' /\ IsInjective(chain') /\ IsInjective(free') /\ Range(free') \cap Range(chain') = {}
    BY <1>0, <1>1, <1>b DEF Structure, ChainIntact
  <2>3. \A u \in Threads \ {t} : Holding(u)' => Hand(u)' # n
    BY <1>0, <1>2, <1>b DEF Structure
  <2>4. \A v, u \in Threads : Holding(v)' /\ Holding(u)' /\ Hand(v)' = Hand(u)' => v = u
    BY <1>0, <1>2, <1>3, <2>3 DEF Structure
  <2> QED BY <2>1, <2>2, <2>4 DEF Structure
<1>5. Numbers'
  <2>1. \A k \in 0..rearID : (\A u \in Threads : Owns(u) => k # Number(u)) => (\A u \in Threads : Owns(u)' => k # Number(u)')
    BY <1>1, <1>2, <1>3
  <2>2. ASSUME NEW u \in Threads PROVE Copy(u)'
    <3>1. Copy(u)
      BY <1>0 DEF Numbers
    <3>2. CASE u = t
      BY <1>1, <3>2 DEF Copy, RearPlaces
    <3>3. CASE u # t
      <4> SUFFICES ASSUME pc'[u] \in RearPlaces PROVE Copy(u)'
        BY DEF Copy
      <4>1. tmp'[u] = tmp[u] /\ tmp[u].id \in 0..rearID /\ Fresh(tmp[u].id) /\ (Lagging => tmp[u].id # next[Tip])
        BY <1>2, <3>1, <3>3 DEF Copy
      <4>2. \A v \in Threads : Owns(v)' => tmp[u].id # Number(v)'
        BY <2>1, <4>1 DEF Fresh
      <4>3. tmp[u].id \in 0..rearID'
        BY <1>1, <4>1
      <4> QED BY <1>1, <4>1, <4>2, <4>3 DEF Copy, Fresh
    <3> QED BY <3>2, <3>3
  <2>3. /\ next'[Tip'] \in 0..rearID' /\ Fresh(next[Tip])' /\ rear'.id \in 0..rearID' /\ Fresh(rear.id)'
        /\ (rear'.id = next'[Tip'] <=> ~Lagging')
    <3>1. next[Tip] \in 0..rearID /\ rear.id \in 0..rearID /\ Fresh(next[Tip]) /\ Fresh(rear.id)
      BY <1>0 DEF Numbers
    <3>2. \A v \in Threads : Owns(v)' => next[Tip] # Number(v)' /\ rear.id # Number(v)'
      BY <2>1, <3>1 DEF Fresh
    <3>3. next[Tip] \in 0..rearID' /\ rear.id \in 0..rearID'
      BY <1>1, <3>1
    <3> QED BY <1>0, <1>1, <3>2, <3>3 DEF Numbers, Fresh
  <2>4. \A u \in Threads \ {t} : Owns(u)' => Number(u)' \in 1..rearID
    BY <1>0, <1>2 DEF Numbers
  <2>5. \A u \in Threads : Owns(u)' => Number(u)' \in 1..rearID'
    BY <1>1, <1>3, <2>4
  <2>6. \A v, u \in Threads : Owns(v)' /\ Owns(u)' /\ Number(v)' = Number(u)' => v = u
    BY <1>0, <1>1, <1>2, <1>3, <2>4 DEF Numbers
  <2> QED BY <2>2, <2>3, <2>5, <2>6 DEF Numbers
<1>6. Loose'
  <2>1. ASSUME NEW u \in Threads PROVE Pointers(u)'
    <3>1. Pointers(u)
      BY <1>0 DEF Loose
    <3> QED BY <1>1, <1>2, <3>1 DEF Pointers
  <2>2. ASSUME NEW m \in Nodes \ {Tip'}, next'[m] \in Nat, next'[m] # 0
        PROVE  \E u \in Threads : pc'[u] \in LinkPlaces /\ node'[u] = m
    <3>1. PICK u \in Threads : pc[u] \in LinkPlaces /\ node[u] = m
      BY <1>0, <1>1, <2>2 DEF Loose
    <3> QED BY <1>1, <1>2, <3>1 DEF LinkPlaces
  <2> QED BY <2>1, <2>2 DEF Loose
<1>7. Movers'
  <2>1. ASSUME NEW u \in Threads PROVE Mover(u)'
    <3>1. Mover(u)
      BY <1>0 DEF Movers
    <3> QED BY <1>1, <1>2, <3>1 DEF Mover
  <2>2. ASSUME Lagging' PROVE \E u \in Threads : pc'[u] \in {"enq_number", "enq_cas"} /\ tmp'[u] = rear'
    <3>1. PICK u \in Threads : pc[u] \in {"enq_number", "enq_cas"} /\ tmp[u] = rear
      BY <1>0, <1>1, <2>2 DEF Movers
    <3> QED BY <1>1, <1>2, <3>1
  <2> QED BY <2>1, <2>2 DEF Movers
<1>d. \A i \in 1..Len(chain) : data'[chain[i]] = data[chain[i]]
  BY <1>0, <1>1, <1>b, Ends DEF Structure
<1>8. Takers'
  <2>1. ASSUME NEW u \in Threads PROVE Taker(u)'
    <3>1. Taker(u)
      BY <1>0 DEF Takers
    <3>2. CASE u = t
      BY <1>1, <3>2 DEF Taker, FrontPlaces
    <3>3. CASE u # t
      <4>1. Len(chain) > 1 => data'[chain[2]] = data[chain[2]]
        BY <1>0, <1>d, Ends DEF Structure
      <4> QED BY <1>1, <1>2, <3>1, <3>3, <4>1 DEF Taker
    <3> QED BY <3>2, <3>3
  <2> QED BY <2>1 DEF Takers
<1>9. Carried'
  <2>1. ASSUME NEW u \in Threads PROVE Carries(u)'
    <3>1. Carries(u)
      BY <1>0 DEF Carried
    <3>2. CASE u = t
      BY <1>1, <1>b, <3>2 DEF Carries
    <3>3. CASE u # t
      <4>1. Owns(u) => node[u] # n /\ node[u] \in Nodes
        BY <1>0, <1>b DEF Structure, Holding, Hand, Owns, OwnPlaces, LinkPlaces
      <4> QED BY <1>1, <1>2, <3>1, <3>3, <4>1 DEF Carries
    <3> QED BY <3>2, <3>3
  <2>2. \A i \in 2..Len(chain') : data'[chain'[i]] \in 1..MaxItems
    BY <1>0, <1>1, <1>d, Ends DEF Carried, Structure
  <2> QED BY <2>1, <2>2 DEF Carried
<1> QED BY <1>4, <1>5, <1>6, <1>7, <1>8, <1>9 DEF Shape

(* The new node's _Next takes its number. *)
LEMMA NextShape ==
  ASSUME IInv, NEW t \in Threads, EnqNext(t)
  PROVE  Shape'
<1>0. TypeOK /\ Structure /\ Numbers /\ Loose /\ Movers /\ Takers /\ Carried /\ Step(t)
  BY DEF IInv, Step, EnQ
<1>a. Others(t)
  BY <1>0, OthersKept
<1>1. /\ pc[t] = "enq_next" /\ pc'[t] = "enq_ptr"
      /\ next' = [next EXCEPT ![node[t]] = chg[t].id]
      /\ front' = front /\ rear' = rear /\ data' = data /\ rearID' = rearID /\ chain' = chain /\ free' = free
      /\ tmp' = tmp /\ chg' = chg /\ node' = node /\ val' = val
      /\ Tip' = Tip /\ (Lagging' <=> Lagging)
  BY <1>0 DEF EnqNext, TypeOK, Tip, Lagging
<1>b. /\ Owns(t) /\ Holding(t) /\ Hand(t) = node[t] /\ Number(t) = chg[t].id
      /\ node[t] \in Nodes /\ node[t] \notin Range(chain) /\ chg[t].id \in 1..rearID
  <2>1. Owns(t) /\ Holding(t) /\ Hand(t) = node[t] /\ Number(t) = chg[t].id
    BY <1>1 DEF Owns, Holding, Hand, Number, OwnPlaces
  <2> QED BY <1>0, <2>1 DEF Structure, Numbers
<1>n. /\ next'[node[t]] = chg[t].id /\ rearID \in Nat
      /\ \A m \in Nodes : m # node[t] => next'[m] = next[m]
  BY <1>0, <1>1, <1>b DEF TypeOK
<1>c. /\ Tip \in Nodes /\ Tip # node[t] /\ next'[Tip] = next[Tip]
      /\ \A i \in 1..Len(chain) : next'[chain[i]] = next[chain[i]]
      /\ Len(chain) \in Nat \ {0}
  BY <1>0, <1>b, <1>n, Ends DEF Structure
<1>2. ASSUME NEW u \in Threads \ {t}
      PROVE  /\ (Holding(u)' <=> Holding(u)) /\ Hand(u)' = Hand(u) /\ (Owns(u)' <=> Owns(u))
             /\ (Owns(u) => Number(u)' = Number(u)) /\ pc'[u] = pc[u]
  <2>1. Owns(u) => node[u] # node[t] /\ node[u] \in Nodes
    BY <1>0, <1>b, OtherHands
  <2>2. Owns(u) => Number(u)' = Number(u)
    BY <1>a, <1>n, <2>1, OtherThreads DEF Number
  <2> QED BY <1>a, <2>2, OtherThreads
<1>3. /\ Owns(t)' /\ Holding(t)' /\ Hand(t)' = Hand(t) /\ Number(t)' = Number(t)
  BY <1>1, <1>n, <1>b DEF Owns, Holding, Hand, Number, OwnPlaces, LinkPlaces
<1>4. Structure'
  <2>1. chain' # <<>> /\ IsInjective(free') /\ IsInjective(chain') /\ Range(free') \cap Range(chain') = {}
    BY <1>0, <1>1 DEF Structure
  <2>2. ChainIntact'
    <3>1. /\ front'.ptr = chain'[1] /\ next'[Tip] \notin Nodes
          /\ \A i \in 1..(Len(chain) - 1) : next'[chain[i]] = chain[i + 1]
      BY <1>0, <1>1, <1>c DEF Structure, ChainIntact, Tip
    <3> QED BY <1>0, <1>1, <1>c, <3>1 DEF Structure, ChainIntact, Tip
  <2>3. \A u \in Threads : (Holding(u)' <=> Holding(u)) /\ Hand(u)' = Hand(u)
    BY <1>2, <1>3, <1>b
  <2> QED BY <1>0, <1>1, <2>1, <2>2, <2>3 DEF Structure
<1>k. ASSUME NEW k, Fresh(k) PROVE \A u \in Threads : Owns(u)' => k # Number(u)'
  BY <1>2, <1>3, <1>b, <1>k DEF Fresh
<1>5. Numbers'
  <2>1. ASSUME NEW u \in Threads PROVE Copy(u)'
    <3>1. Copy(u)
      BY <1>0 DEF Numbers
    <3>2. CASE u = t
      BY <1>1, <3>2 DEF Copy, RearPlaces
    <3>3. CASE u # t
      <4> SUFFICES ASSUME pc'[u] \in RearPlaces PROVE Copy(u)'
        BY DEF Copy
      <4>1. tmp[u].id \in 0..rearID /\ Fresh(tmp[u].id) /\ (Lagging => tmp[u].id # next[Tip])
        BY <1>2, <3>1, <3>3 DEF Copy
      <4>2. \A v \in Threads : Owns(v)' => tmp[u].id # Number(v)'
        BY <1>k, <4>1
      <4> QED BY <1>1, <1>c, <4>1, <4>2 DEF Copy, Fresh
    <3> QED BY <3>2, <3>3
  <2>2. /\ next'[Tip'] \in 0..rearID' /\ Fresh(next[Tip])' /\ rear'.id \in 0..rearID' /\ Fresh(rear.id)'
        /\ (rear'.id = next'[Tip'] <=> ~Lagging')
    <3>1. Fresh(next[Tip]) /\ Fresh(rear.id)
      BY <1>0 DEF Numbers
    <3>2. \A v \in Threads : Owns(v)' => next[Tip] # Number(v)' /\ rear.id # Number(v)'
      BY <1>k, <3>1
    <3> QED BY <1>0, <1>1, <1>c, <3>2 DEF Numbers, Fresh
  <2>3. /\ \A u \in Threads : Owns(u)' => Number(u)' \in 1..rearID'
        /\ \A v, u \in Threads : Owns(v)' /\ Owns(u)' /\ Number(v)' = Number(u)' => v = u
    BY <1>0, <1>1, <1>2, <1>3, <1>b DEF Numbers
  <2> QED BY <2>1, <2>2, <2>3 DEF Numbers
<1>6. Loose'
  <2>1. ASSUME NEW u \in Threads PROVE Pointers(u)'
    <3>1. Pointers(u)
      BY <1>0 DEF Loose
    <3>2. CASE u = t
      BY <1>1, <3>2 DEF Pointers
    <3>3. CASE u # t
      <4>1. pc[u] \in {"enq_id", "enq_link"} /\ next'[tmp[u].ptr] = 0 => next[tmp[u].ptr] = 0
        BY <1>b, <1>n, <3>1 DEF Pointers
      <4> QED BY <1>1, <1>2, <3>1, <3>3, <4>1 DEF Pointers
    <3> QED BY <3>2, <3>3
  <2>2. ASSUME NEW m \in Nodes \ {Tip'}, next'[m] \in Nat, next'[m] # 0
        PROVE  \E u \in Threads : pc'[u] \in LinkPlaces /\ node'[u] = m
    <3>1. CASE m = node[t]
      BY <1>1, <3>1 DEF LinkPlaces
    <3>2. CASE m # node[t]
      <4>1. PICK u \in Threads : pc[u] \in LinkPlaces /\ node[u] = m
        BY <1>0, <1>1, <1>n, <2>2, <3>2 DEF Loose
      <4> QED BY <1>1, <1>2, <3>2, <4>1
    <3> QED BY <3>1, <3>2
  <2> QED BY <2>1, <2>2 DEF Loose
<1>7. Movers'
  <2>1. ASSUME NEW u \in Threads PROVE Mover(u)'
    <3>1. Mover(u)
      BY <1>0 DEF Movers
    <3> QED BY <1>1, <1>2, <1>c, <3>1 DEF Mover
  <2>2. ASSUME Lagging' PROVE \E u \in Threads : pc'[u] \in {"enq_number", "enq_cas"} /\ tmp'[u] = rear'
    <3>1. PICK u \in Threads : pc[u] \in {"enq_number", "enq_cas"} /\ tmp[u] = rear
      BY <1>0, <1>1, <2>2 DEF Movers
    <3> QED BY <1>1, <1>2, <3>1
  <2> QED BY <2>1, <2>2 DEF Movers
<1>8. Takers'
  <2>1. ASSUME NEW u \in Threads PROVE Taker(u)'
    <3>1. Taker(u)
      BY <1>0 DEF Takers
    <3> QED BY <1>1, <1>2, <3>1 DEF Taker, FrontPlaces
  <2> QED BY <2>1 DEF Takers
<1>9. Carried'
  <2>1. ASSUME NEW u \in Threads PROVE Carries(u)'
    <3>1. Carries(u)
      BY <1>0 DEF Carried
    <3> QED BY <1>1, <1>2, <1>3, <1>b, <3>1 DEF Carries, OwnPlaces, LinkPlaces
  <2> QED BY <1>0, <1>1, <2>1 DEF Carried
<1> QED BY <1>4, <1>5, <1>6, <1>7, <1>8, <1>9 DEF Shape

(* A DeQ that got through the count finds an item, and another one if the rear *)
(* is still to be moved to it.                                                *)
LEMMA TwoLeft ==
  ASSUME TypeOK, Movers, Counted, NEW t \in Threads, pc[t] \in TakePlaces
  PROVE  Len(chain) > 1 /\ (Lagging => Len(chain) > 2)
<1>1. /\ IsFiniteSet(CountAhead) /\ IsFiniteSet(Undoing) /\ Undoing \subseteq CountAhead
      /\ t \in CountAhead /\ t \notin Undoing
  BY FS_Subset DEF CountAhead, Undoing, TakePlaces, FrontPlaces
<1>2. /\ Cardinality(CountAhead) \in Nat /\ Cardinality(Undoing) \in Nat
      /\ Len(chain) \in Nat /\ count \in Int
  BY <1>1, FS_CardinalityType, LenProperties DEF TypeOK
<1>3. /\ IsFiniteSet(Undoing \cup {t}) /\ Cardinality(Undoing \cup {t}) = Cardinality(Undoing) + 1
      /\ Cardinality(Undoing \cup {t}) <= Cardinality(CountAhead)
  <2>1. IsFiniteSet(Undoing \cup {t}) /\ Cardinality(Undoing \cup {t}) = Cardinality(Undoing) + 1
    BY <1>1, FS_AddElement
  <2>2. Undoing \cup {t} \subseteq CountAhead
    BY <1>1
  <2> QED BY <1>1, <2>1, <2>2, FS_Subset
<1>4. Len(chain) > 1
  BY <1>2, <1>3 DEF Counted
<1>5. ASSUME Lagging PROVE Len(chain) > 2
  <2>1. PICK u \in Threads : pc[u] \in {"enq_number", "enq_cas"}
    BY <1>5 DEF Movers
  <2>2. u \in CountAhead /\ u \notin Undoing \cup {t}
    BY <2>1 DEF CountAhead, Undoing, TakePlaces, FrontPlaces
  <2>3. Cardinality(Undoing \cup {t} \cup {u}) = Cardinality(Undoing \cup {t}) + 1
    BY <1>3, <2>2, FS_AddElement
  <2>4. Undoing \cup {t} \cup {u} \subseteq CountAhead
    BY <1>1, <2>2
  <2>5. Cardinality(Undoing \cup {t} \cup {u}) <= Cardinality(CountAhead)
    BY <1>1, <2>4, FS_Subset
  <2> QED BY <1>2, <1>3, <2>3, <2>5 DEF Counted
<1> QED BY <1>4, <1>5

(* Commit 1 only succeeds on the last node, with the rear there. *)
LEMMA LinksAtTip ==
  ASSUME IInv, NEW t \in Threads, EnqLink(t), next[tmp[t].ptr] = tmp[t].id
  PROVE  tmp[t].ptr = Tip /\ ~Lagging /\ tmp[t] = rear /\ rear = [ptr |-> Tip, id |-> next[Tip]]
<1>0. Structure /\ Numbers /\ Loose /\ Copy(t) /\ Pointers(t) /\ pc[t] = "enq_link"
  BY DEF IInv, Numbers, Loose, EnqLink
<1>l. /\ tmp[t] = [ptr |-> tmp[t].ptr, id |-> tmp[t].id] /\ tmp[t].id \in Nat
      /\ rear = [ptr |-> rear.ptr, id |-> rear.id]
  BY Locals
<1>1. tmp[t].ptr \in Nodes /\ Fresh(tmp[t].id) /\ (Lagging => tmp[t].id # next[Tip])
  BY <1>0 DEF Copy, Pointers, RearPlaces
<1>2. tmp[t].ptr = Tip
  <2> SUFFICES ASSUME tmp[t].ptr # Tip PROVE FALSE
    OBVIOUS
  <2>1. next[tmp[t].ptr] # 0
    BY <1>0 DEF Pointers
  <2>2. PICK u \in Threads : pc[u] \in LinkPlaces /\ node[u] = tmp[t].ptr
    BY <1>0, <1>1, <1>l, <2>1 DEF Loose
  <2>3. Owns(u) /\ Number(u) = tmp[t].id
    BY <2>2 DEF Owns, Number, OwnPlaces, LinkPlaces
  <2> QED BY <1>1, <2>3 DEF Fresh
<1>3. ~Lagging /\ rear.id = next[Tip] /\ rear.ptr = Tip
  BY <1>0, <1>1, <1>2 DEF Numbers, Lagging
<1> QED BY <1>2, <1>3, <1>l

(* The new node is linked: it is the last one, and the rear is to be moved. *)
LEMMA LinkShape ==
  ASSUME IInv, NEW t \in Threads, EnqLink(t), next[tmp[t].ptr] = tmp[t].id
  PROVE  Shape'
<1>0. TypeOK /\ Structure /\ Numbers /\ Loose /\ Movers /\ Takers /\ Carried /\ Step(t)
  BY DEF IInv, Step, EnQ
<1>a. Others(t)
  BY <1>0, OthersKept
<1> DEFINE n == node[t]
<1>t. tmp[t].ptr = Tip /\ ~Lagging /\ tmp[t] = rear /\ rear = [ptr |-> Tip, id |-> next[Tip]]
  BY LinksAtTip
<1>1. /\ pc[t] = "enq_link" /\ pc'[t] = "enq_number"
      /\ next' = [next EXCEPT ![Tip] = n] /\ chain' = Append(chain, n)
      /\ front' = front /\ rear' = rear /\ data' = data /\ rearID' = rearID /\ free' = free
      /\ tmp' = tmp /\ chg' = chg /\ node' = node /\ val' = val
  <2>1. pc' = [pc EXCEPT ![t] = "enq_number"] /\ next' = [next EXCEPT ![tmp[t].ptr] = n] /\ chain' = Append(chain, n)
    BY <1>0 DEF EnqLink
  <2> QED BY <1>0, <1>t, <2>1 DEF EnqLink, TypeOK
<1>b. /\ Owns(t) /\ Holding(t) /\ Hand(t) = n /\ Number(t) = next[n]
      /\ n \in Nodes /\ n \notin Range(chain) /\ n \notin Range(free) /\ next[n] \in 1..rearID
  <2>1. Owns(t) /\ Holding(t) /\ Hand(t) = n /\ Number(t) = next[n]
    BY <1>1 DEF Owns, Holding, Hand, Number, OwnPlaces, LinkPlaces
  <2> QED BY <1>0, <2>1 DEF Structure, Numbers
<1> HIDE DEF n
<1>e. /\ Tip \in Nodes /\ Tip \in Range(chain) /\ Tip # n /\ Len(chain) \in Nat \ {0} /\ Len(chain) \in 1..Len(chain)
      /\ \A i \in 1..Len(chain) : chain[i] \in Nodes
      /\ \A i \in 1..Len(chain) : i # Len(chain) => chain[i] # Tip
  <2>1. DOMAIN chain = 1..Len(chain)
    BY <1>0, LenProperties DEF TypeOK
  <2>2. /\ Tip \in Nodes /\ Tip \in Range(chain) /\ Len(chain) \in Nat \ {0}
        /\ \A i \in 1..Len(chain) : chain[i] \in Nodes
    BY <1>0, Ends DEF Structure
  <2>3. Tip # n /\ Len(chain) \in 1..Len(chain)
    BY <1>b, <2>2
  <2>4. \A i \in 1..Len(chain) : i # Len(chain) => chain[i] # Tip
    BY <1>0, <2>1, <2>3 DEF Structure, IsInjective, Tip
  <2> QED BY <2>2, <2>3, <2>4
<1>n. /\ next'[Tip] = n /\ next'[n] = next[n]
      /\ \A m \in Nodes : m # Tip => next'[m] = next[m]
  BY <1>0, <1>1, <1>b, <1>e DEF TypeOK
<1>c. /\ chain' \in Seq(Nodes) /\ Len(chain') = Len(chain) + 1
      /\ \A i \in 1..Len(chain) : chain'[i] = chain[i]
      /\ chain'[Len(chain) + 1] = n /\ Tip' = n
      /\ IsInjective(chain') /\ Range(chain') = Range(chain) \cup {n} /\ chain' # <<>>
  BY <1>0, <1>1, <1>b, <1>e, Appended, EmptySeq DEF TypeOK, Structure, Tip
<1>g. Lagging'
  BY <1>1, <1>c, <1>e, <1>t DEF Lagging
<1>2. ASSUME NEW u \in Threads \ {t}
      PROVE  /\ (Holding(u)' <=> Holding(u)) /\ Hand(u)' = Hand(u) /\ (Owns(u)' <=> Owns(u))
             /\ (Owns(u) => Number(u)' = Number(u)) /\ pc'[u] = pc[u]
  <2>1. Owns(u) => node[u] # Tip /\ node[u] \in Nodes
    BY <1>0, <1>b, <1>e, OtherHands
  <2>2. Owns(u) => Number(u)' = Number(u)
    BY <1>a, <1>n, <2>1, OtherThreads DEF Number
  <2> QED BY <1>a, <2>2, OtherThreads
<1>3. ~Owns(t)' /\ ~Holding(t)'
  BY <1>1 DEF Owns, Holding, OwnPlaces, LinkPlaces
<1>4. Structure'
  <2>1. IsInjective(free') /\ Range(free') \cap Range(chain') = {}
    BY <1>0, <1>1, <1>b, <1>c DEF Structure
  <2>2. ChainIntact'
    <3>1. front'.ptr = chain'[1] /\ next'[n] \notin Nodes
      BY <1>0, <1>1, <1>b, <1>c, <1>e, <1>n DEF Structure, ChainIntact
    <3>2. ASSUME NEW i \in 1..Len(chain) PROVE next'[chain'[i]] = chain'[i + 1]
      <4>1. CASE i = Len(chain)
        BY <1>c, <1>e, <1>n, <4>1 DEF Tip
      <4>2. CASE i # Len(chain)
        <5>1. i \in 1..(Len(chain) - 1) /\ i + 1 \in 1..Len(chain)
          BY <1>e, <4>2
        <5>2. next[chain[i]] = chain[i + 1]
          BY <1>0, <5>1 DEF Structure, ChainIntact
        <5> QED BY <1>c, <1>e, <1>n, <4>2, <5>1, <5>2
      <4> QED BY <4>1, <4>2
    <3>3. Len(chain') > 1 /\ rear'.ptr = chain'[Len(chain') - 1]
      <4>1. Len(chain') - 1 = Len(chain) /\ chain'[Len(chain)] = Tip
        BY <1>c, <1>e DEF Tip
      <4>2. rear'.ptr = Tip
        BY <1>1, <1>t DEF Lagging
      <4>3. Len(chain') > 1
        BY <1>c, <1>e
      <4> QED BY <4>1, <4>2, <4>3
    <3>4. 1..(Len(chain') - 1) = 1..Len(chain) /\ chain'[Len(chain')] = n
      BY <1>c, <1>e
    <3> QED BY <3>1, <3>2, <3>3, <3>4 DEF ChainIntact
  <2>3. ASSUME NEW u \in Threads, Holding(u)' PROVE Hand(u)' \in Nodes \ (Range(free') \cup Range(chain'))
    BY <1>0, <1>1, <1>2, <1>3, <1>b, <1>c, <2>3 DEF Structure
  <2>4. \A v, u \in Threads : Holding(v)' /\ Holding(u)' /\ Hand(v)' = Hand(u)' => v = u
    BY <1>0, <1>2, <1>3 DEF Structure
  <2> QED BY <1>c, <2>1, <2>2, <2>3, <2>4 DEF Structure
<1>k. ASSUME NEW k, Fresh(k) PROVE (\A u \in Threads : Owns(u)' => k # Number(u)') /\ k # next[n]
  BY <1>2, <1>3, <1>b, <1>k DEF Fresh
<1>5. Numbers'
  <2>1. ASSUME NEW u \in Threads PROVE Copy(u)'
    <3> SUFFICES ASSUME pc'[u] \in RearPlaces PROVE Copy(u)'
      BY DEF Copy
    <3>1. tmp[u].id \in 0..rearID /\ Fresh(tmp[u].id)
      <4>1. Copy(u) /\ pc[u] \in RearPlaces
        BY <1>0, <1>1, <1>2 DEF Numbers, RearPlaces
      <4> QED BY <4>1 DEF Copy
    <3>2. (\A v \in Threads : Owns(v)' => tmp[u].id # Number(v)') /\ tmp[u].id # next[n]
      BY <1>k, <3>1
    <3> QED BY <1>1, <1>c, <1>n, <3>1, <3>2 DEF Copy, Fresh
  <2>2. /\ next'[Tip'] \in 0..rearID' /\ Fresh(next[Tip])' /\ rear'.id \in 0..rearID' /\ Fresh(rear.id)'
        /\ (rear'.id = next'[Tip'] <=> ~Lagging')
    <3>1. Fresh(rear.id) /\ rear.id \in 0..rearID /\ next'[Tip'] = next[n]
      BY <1>0, <1>c, <1>n DEF Numbers
    <3>2. (\A v \in Threads : Owns(v)' => rear.id # Number(v)') /\ rear.id # next[n]
      BY <1>k, <3>1
    <3>3. \A v \in Threads : Owns(v)' => next[n] # Number(v)'
      BY <1>0, <1>2, <1>3, <1>b DEF Numbers
    <3>4. next[n] \in 0..rearID
      BY <1>b
    <3> QED BY <1>1, <1>g, <3>1, <3>2, <3>3, <3>4 DEF Fresh
  <2>3. /\ \A u \in Threads : Owns(u)' => Number(u)' \in 1..rearID'
        /\ \A v, u \in Threads : Owns(v)' /\ Owns(u)' /\ Number(v)' = Number(u)' => v = u
    BY <1>0, <1>1, <1>2, <1>3 DEF Numbers
  <2> QED BY <2>1, <2>2, <2>3 DEF Numbers
<1>p. n \notin Nat
  BY <1>b
<1>6. Loose'
  <2>1. ASSUME NEW u \in Threads PROVE Pointers(u)'
    <3>1. Pointers(u)
      BY <1>0 DEF Loose
    <3>2. CASE u = t
      BY <1>1, <1>b, <3>2 DEF Pointers, n
    <3>3. CASE u # t
      <4>1. pc[u] \in {"enq_id", "enq_link"} => next'[tmp[u].ptr] # 0
        BY <1>n, <1>p, <3>1 DEF Pointers
      <4> QED BY <1>1, <1>2, <3>1, <3>3, <4>1 DEF Pointers
    <3> QED BY <3>2, <3>3
  <2>2. ASSUME NEW m \in Nodes \ {Tip'}, next'[m] \in Nat, next'[m] # 0
        PROVE  \E u \in Threads : pc'[u] \in LinkPlaces /\ node'[u] = m
    <3>1. m # Tip /\ m # n /\ next[m] \in Nat /\ next[m] # 0
      BY <1>c, <1>n, <1>p, <2>2
    <3>2. PICK u \in Threads : pc[u] \in LinkPlaces /\ node[u] = m
      BY <1>0, <3>1 DEF Loose
    <3>3. u # t
      BY <3>1, <3>2 DEF n
    <3> QED BY <1>1, <1>2, <3>2, <3>3
  <2> QED BY <2>1, <2>2 DEF Loose
<1>7. Movers'
  <2>1. ASSUME NEW u \in Threads PROVE Mover(u)'
    <3>1. Mover(u)
      BY <1>0 DEF Movers
    <3>2. CASE u = t
      BY <1>1, <1>c, <1>g, <3>2 DEF Mover, n
    <3>3. CASE u # t
      BY <1>1, <1>2, <1>t, <3>1, <3>3 DEF Mover
    <3> QED BY <3>2, <3>3
  <2>2. pc'[t] \in {"enq_number", "enq_cas"} /\ tmp'[t] = rear'
    BY <1>1, <1>t
  <2> QED BY <2>1, <2>2 DEF Movers
<1>8. Takers'
  <2>1. ASSUME NEW u \in Threads PROVE Taker(u)'
    <3>1. Taker(u)
      BY <1>0 DEF Takers
    <3>2. CASE u = t
      BY <1>1, <3>2 DEF Taker, FrontPlaces
    <3>3. CASE u # t
      <4>1. Len(chain) > 1 => Len(chain') > 1 /\ chain'[2] = chain[2]
        BY <1>c, <1>e
      <4> QED BY <1>1, <1>2, <3>1, <3>3, <4>1 DEF Taker
    <3> QED BY <3>2, <3>3
  <2> QED BY <2>1 DEF Takers
<1>9. Carried'
  <2>1. ASSUME NEW u \in Threads PROVE Carries(u)'
    <3>1. Carries(u)
      BY <1>0 DEF Carried
    <3> QED BY <1>1, <1>2, <1>3, <3>1 DEF Carries, OwnPlaces, LinkPlaces
  <2>2. ASSUME NEW i \in 2..Len(chain') PROVE data'[chain'[i]] \in 1..MaxItems
    <3>1. data[n] \in 1..MaxItems
      <4>1. Carries(t)
        BY <1>0 DEF Carried
      <4> QED BY <1>1, <1>b, <4>1 DEF Carries, OwnPlaces, LinkPlaces, n
    <3>2. CASE i = Len(chain) + 1
      BY <1>1, <1>c, <3>1, <3>2
    <3>3. CASE i # Len(chain) + 1
      <4>1. i \in 2..Len(chain) /\ i \in 1..Len(chain)
        BY <1>c, <1>e, <3>3
      <4> QED BY <1>0, <1>1, <1>c, <4>1 DEF Carried
    <3> QED BY <3>2, <3>3
  <2> QED BY <2>1, <2>2 DEF Carried
<1> QED BY <1>4, <1>5, <1>6, <1>7, <1>8, <1>9 DEF Shape

(* The rear is moved, by the thread that linked the node or one that helps it. *)
LEMMA MoveShape ==
  ASSUME IInv, NEW t \in Threads, HelpCas(t) \/ EnqCas(t), rear = tmp[t]
  PROVE  Shape'
<1>0. TypeOK /\ Structure /\ Numbers /\ Loose /\ Movers /\ Takers /\ Carried /\ Step(t)
  BY DEF IInv, Step, EnQ
<1>a. Others(t)
  BY <1>0, OthersKept
<1>1. /\ \/ pc[t] = "help_cas" /\ pc'[t] = "enq_ptr"
         \/ pc[t] = "enq_cas" /\ pc'[t] = "enq_count"
      /\ rear' = chg[t] /\ tmp' = tmp
      /\ front' = front /\ next' = next /\ data' = data /\ rearID' = rearID /\ chain' = chain /\ free' = free
      /\ chg' = chg /\ node' = node /\ val' = val /\ Tip' = Tip
  BY <1>0 DEF HelpCas, EnqCas, MoveRear, TypeOK, Tip
<1>b. Lagging /\ rear' = [ptr |-> Tip, id |-> next[Tip]] /\ ~Lagging'
  <2>1. Mover(t)
    BY <1>0 DEF Movers
  <2>2. Lagging /\ rear' = [ptr |-> Tip, id |-> next[Tip]]
    BY <1>1, <2>1 DEF Mover
  <2> QED BY <1>1, <2>2 DEF Lagging
<1>2. ASSUME NEW u \in Threads
      PROVE  /\ (Holding(u)' <=> Holding(u)) /\ Hand(u)' = Hand(u) /\ (Owns(u)' <=> Owns(u))
             /\ Number(u)' = Number(u)
             /\ (u # t => pc'[u] = pc[u])
  <2>1. CASE u = t
    BY <1>1, <2>1 DEF Holding, Hand, Owns, Number, OwnPlaces, LinkPlaces
  <2>2. CASE u # t
    BY <1>a, <1>1, <2>2, OtherThreads DEF Number
  <2> QED BY <2>1, <2>2
<1>4. Structure'
  <2>1. chain' # <<>> /\ IsInjective(free') /\ IsInjective(chain') /\ Range(free') \cap Range(chain') = {}
    BY <1>0, <1>1 DEF Structure
  <2>2. ChainIntact'
    <3>1. rear' = [ptr |-> chain[Len(chain)], id |-> next[chain[Len(chain)]]]
      BY <1>b DEF Tip
    <3> QED BY <1>0, <1>1, <3>1 DEF Structure, ChainIntact
  <2> QED BY <1>0, <1>1, <1>2, <2>1, <2>2 DEF Structure
<1>k. ASSUME NEW k, Fresh(k) PROVE \A u \in Threads : Owns(u)' => k # Number(u)'
  BY <1>2, <1>k DEF Fresh
<1>5. Numbers'
  <2>1. ASSUME NEW u \in Threads PROVE Copy(u)'
    <3> SUFFICES ASSUME pc'[u] \in RearPlaces PROVE Copy(u)'
      BY DEF Copy
    <3>1. tmp[u].id \in 0..rearID /\ Fresh(tmp[u].id)
      <4>1. Copy(u) /\ pc[u] \in RearPlaces
        BY <1>0, <1>1, <1>2 DEF Numbers, RearPlaces
      <4> QED BY <4>1 DEF Copy
    <3>2. \A v \in Threads : Owns(v)' => tmp[u].id # Number(v)'
      BY <1>k, <3>1
    <3> QED BY <1>1, <1>b, <3>1, <3>2 DEF Copy, Fresh
  <2>2. /\ next'[Tip'] \in 0..rearID' /\ Fresh(next[Tip])' /\ rear'.id \in 0..rearID' /\ Fresh(rear.id)'
        /\ (rear'.id = next'[Tip'] <=> ~Lagging')
    <3>1. Fresh(next[Tip]) /\ next[Tip] \in 0..rearID
      BY <1>0 DEF Numbers
    <3>2. \A v \in Threads : Owns(v)' => next[Tip] # Number(v)'
      BY <1>k, <3>1
    <3> QED BY <1>1, <1>b, <3>1, <3>2 DEF Fresh
  <2>3. /\ \A u \in Threads : Owns(u)' => Number(u)' \in 1..rearID'
        /\ \A v, u \in Threads : Owns(v)' /\ Owns(u)' /\ Number(v)' = Number(u)' => v = u
    BY <1>0, <1>1, <1>2 DEF Numbers
  <2> QED BY <2>1, <2>2, <2>3 DEF Numbers
<1>6. Loose'
  <2>1. ASSUME NEW u \in Threads PROVE Pointers(u)'
    <3>1. Pointers(u)
      BY <1>0 DEF Loose
    <3>2. CASE u = t
      BY <1>1, <3>2 DEF Pointers
    <3>3. CASE u # t
      BY <1>1, <1>2, <3>1, <3>3 DEF Pointers
    <3> QED BY <3>2, <3>3
  <2>2. ASSUME NEW m \in Nodes \ {Tip'}, next'[m] \in Nat, next'[m] # 0
        PROVE  \E u \in Threads : pc'[u] \in LinkPlaces /\ node'[u] = m
    <3>1. PICK u \in Threads : pc[u] \in LinkPlaces /\ node[u] = m
      BY <1>0, <1>1, <2>2 DEF Loose
    <3> QED BY <1>1, <1>2, <3>1 DEF LinkPlaces
  <2> QED BY <2>1, <2>2 DEF Loose
<1>7. Movers'
  <2>1. ASSUME NEW u \in Threads PROVE Mover(u)'
    <3>1. CASE u = t
      BY <1>1, <3>1 DEF Mover
    <3>2. CASE u # t
      <4>1. Copy(u)
        BY <1>0 DEF Numbers
      <4>2. pc[u] \in {"help_id", "help_cas", "enq_number", "enq_cas"} => tmp[u] # rear'
        BY <1>b, <4>1 DEF Copy, RearPlaces
      <4> QED BY <1>1, <1>2, <3>2, <4>2 DEF Mover
    <3> QED BY <3>1, <3>2
  <2> QED BY <1>b, <2>1 DEF Movers
<1>8. Takers'
  <2>1. ASSUME NEW u \in Threads PROVE Taker(u)'
    <3>1. Taker(u)
      BY <1>0 DEF Takers
    <3>2. CASE u = t
      BY <1>1, <3>2 DEF Taker, FrontPlaces
    <3>3. CASE u # t
      BY <1>1, <1>2, <3>1, <3>3 DEF Taker
    <3> QED BY <3>2, <3>3
  <2> QED BY <2>1 DEF Takers
<1>9. Carried'
  <2>1. ASSUME NEW u \in Threads PROVE Carries(u)'
    <3>1. Carries(u)
      BY <1>0 DEF Carried
    <3>2. pc'[u] \in {"enq_alloc"} \cup OwnPlaces => pc[u] \in {"enq_alloc"} \cup OwnPlaces
      BY <1>1, <1>2 DEF OwnPlaces, LinkPlaces
    <3> QED BY <1>1, <1>2, <3>1, <3>2 DEF Carries
  <2> QED BY <1>0, <1>1, <2>1 DEF Carried
<1> QED BY <1>4, <1>5, <1>6, <1>7, <1>8, <1>9 DEF Shape

(* The front is moved to the first item, whose node is the dummy from now on. *)
LEMMA TakeShape ==
  ASSUME IInv, NEW t \in Threads, DeqCas(t), front = tmp[t]
  PROVE  Shape'
<1>0. TypeOK /\ Structure /\ Numbers /\ Loose /\ Movers /\ Takers /\ Carried /\ Counted /\ Step(t)
  BY DEF IInv, Step, DeQ
<1>a. Others(t)
  BY <1>0, OthersKept
<1>1. /\ pc[t] = "deq_cas" /\ pc'[t] = "deq_free"
      /\ front' = chg[t] /\ chain' = Tail(chain)
      /\ rear' = rear /\ next' = next /\ data' = data /\ rearID' = rearID /\ free' = free
      /\ tmp' = tmp /\ chg' = chg /\ node' = node /\ val' = val
  BY <1>0 DEF DeqCas, TypeOK
<1>b. /\ Len(chain) > 1 /\ (Lagging => Len(chain) > 2)
      /\ front'.id = front.id + 1 /\ front'.ptr = chain[2] /\ front.id \in Nat
  <2>1. Taker(t) /\ front.id \in Nat
    BY <1>0, Locals DEF Takers
  <2>2. Len(chain) > 1 /\ (Lagging => Len(chain) > 2)
    BY <1>0, <1>1, TwoLeft DEF TakePlaces, FrontPlaces
  <2> QED BY <1>1, <2>1, <2>2 DEF Taker
<1>c. /\ Len(chain) \in Nat \ {0} /\ chain' \in Seq(Nodes) /\ Len(chain') = Len(chain) - 1
      /\ \A i \in 1..Len(chain') : chain'[i] = chain[i + 1]
      /\ IsInjective(chain') /\ Range(chain') = Range(chain) \ {chain[1]}
      /\ chain[1] \in Range(chain) /\ chain[1] \in Nodes
  <2>1. chain \in Seq(Nodes) /\ IsInjective(chain) /\ chain # <<>>
    BY <1>0 DEF TypeOK, Structure
  <2> QED BY <1>1, <2>1, Front, InRange
<1>d. chain' # <<>> /\ Tip' = Tip /\ (Lagging' <=> Lagging) /\ Len(chain') \in 1..Len(chain')
  <2>1. Len(chain') \in 1..Len(chain') /\ chain'[Len(chain')] = chain[Len(chain)]
    BY <1>b, <1>c
  <2>2. chain' # <<>>
    BY <1>c, <2>1, EmptySeq
  <2> QED BY <1>1, <2>1, <2>2 DEF Tip, Lagging
<1>2. ASSUME NEW u \in Threads \ {t}
      PROVE  /\ (Holding(u)' <=> Holding(u)) /\ Hand(u)' = Hand(u) /\ (Owns(u)' <=> Owns(u))
             /\ Number(u)' = Number(u) /\ pc'[u] = pc[u]
  BY <1>a, <1>1, OtherThreads DEF Number
<1>3. /\ ~Owns(t) /\ ~Owns(t)' /\ Holding(t)' /\ Hand(t)' = front.ptr /\ ~Holding(t)
  BY <1>1 DEF Owns, Holding, Hand, OwnPlaces, LinkPlaces
<1>4. Structure'
  <2>1. front.ptr = chain[1] /\ chain[1] \notin Range(free) /\ chain[1] \notin Range(chain')
    BY <1>0, <1>c DEF Structure, ChainIntact
  <2>2. IsInjective(free') /\ Range(free') \cap Range(chain') = {}
    BY <1>0, <1>1, <1>c DEF Structure
  <2>3. ChainIntact'
    <3>1. front'.ptr = chain'[1]
      BY <1>b, <1>c
    <3>2. ASSUME NEW i \in 1..(Len(chain') - 1) PROVE next'[chain'[i]] = chain'[i + 1]
      <4>1. /\ i + 1 \in 1..(Len(chain) - 1) /\ i \in 1..Len(chain') /\ i + 1 \in 1..Len(chain')
        BY <1>c
      <4>2. next[chain[i + 1]] = chain[(i + 1) + 1]
        BY <1>0, <4>1 DEF Structure, ChainIntact
      <4>3. chain'[i] = chain[i + 1] /\ chain'[i + 1] = chain[(i + 1) + 1]
        BY <1>c, <4>1
      <4> QED BY <1>1, <4>2, <4>3
    <3>3. chain'[Len(chain')] = chain[Len(chain)]
      BY <1>c, <1>d
    <3>4. next'[chain'[Len(chain')]] \notin Nodes
      BY <1>0, <1>1, <3>3 DEF Structure, ChainIntact
    <3>5. \/ rear' = [ptr |-> chain'[Len(chain')], id |-> next'[chain'[Len(chain')]]]
          \/ Len(chain') > 1 /\ rear'.ptr = chain'[Len(chain') - 1]
      <4>1. CASE rear = [ptr |-> chain[Len(chain)], id |-> next[chain[Len(chain)]]]
        BY <1>1, <3>3, <4>1
      <4>2. CASE Len(chain) > 1 /\ rear.ptr = chain[Len(chain) - 1]
        <5>1. Lagging
          <6>1. DOMAIN chain = 1..Len(chain)
            BY <1>0, LenProperties DEF TypeOK
          <6>2. Len(chain) - 1 \in 1..Len(chain) /\ Len(chain) \in 1..Len(chain) /\ Len(chain) - 1 # Len(chain)
            BY <1>b, <1>c
          <6> QED BY <1>0, <4>2, <6>1, <6>2 DEF Structure, IsInjective, Lagging, Tip
        <5>2. Len(chain') > 1 /\ Len(chain') - 1 \in 1..Len(chain') /\ (Len(chain') - 1) + 1 = Len(chain) - 1
          BY <1>b, <1>c, <5>1
        <5>3. chain'[Len(chain') - 1] = chain[(Len(chain') - 1) + 1]
          BY <1>c, <5>2
        <5> QED BY <1>1, <4>2, <5>2, <5>3
      <4> QED BY <1>0, <4>1, <4>2 DEF Structure, ChainIntact
    <3> QED BY <3>1, <3>2, <3>4, <3>5 DEF ChainIntact
  <2>4. ASSUME NEW u \in Threads, Holding(u)' PROVE Hand(u)' \in Nodes \ (Range(free') \cup Range(chain'))
    BY <1>0, <1>1, <1>2, <1>3, <1>c, <2>1, <2>4 DEF Structure
  <2>5. \A u \in Threads \ {t} : Holding(u)' => Hand(u)' # front.ptr
    BY <1>0, <1>2, <1>c, <2>1 DEF Structure
  <2>6. \A v, u \in Threads : Holding(v)' /\ Holding(u)' /\ Hand(v)' = Hand(u)' => v = u
    BY <1>0, <1>2, <1>3, <2>5 DEF Structure
  <2> QED BY <1>c, <1>d, <2>2, <2>3, <2>4, <2>6 DEF Structure
<1>k. ASSUME NEW k, Fresh(k) PROVE \A u \in Threads : Owns(u)' => k # Number(u)'
  BY <1>2, <1>3, <1>k DEF Fresh
<1>5. Numbers'
  <2>1. ASSUME NEW u \in Threads PROVE Copy(u)'
    <3> SUFFICES ASSUME pc'[u] \in RearPlaces PROVE Copy(u)'
      BY DEF Copy
    <3>1. tmp[u].id \in 0..rearID /\ Fresh(tmp[u].id) /\ (Lagging => tmp[u].id # next[Tip])
      <4>1. Copy(u) /\ pc[u] \in RearPlaces
        BY <1>0, <1>1, <1>2 DEF Numbers, RearPlaces
      <4> QED BY <4>1 DEF Copy
    <3>2. \A v \in Threads : Owns(v)' => tmp[u].id # Number(v)'
      BY <1>k, <3>1
    <3> QED BY <1>1, <1>d, <3>1, <3>2 DEF Copy, Fresh
  <2>2. /\ next'[Tip'] \in 0..rearID' /\ Fresh(next[Tip])' /\ rear'.id \in 0..rearID' /\ Fresh(rear.id)'
        /\ (rear'.id = next'[Tip'] <=> ~Lagging')
    <3>1. Fresh(next[Tip]) /\ Fresh(rear.id)
      BY <1>0 DEF Numbers
    <3>2. \A v \in Threads : Owns(v)' => next[Tip] # Number(v)' /\ rear.id # Number(v)'
      BY <1>k, <3>1
    <3> QED BY <1>0, <1>1, <1>d, <3>2 DEF Numbers, Fresh
  <2>3. /\ \A u \in Threads : Owns(u)' => Number(u)' \in 1..rearID'
        /\ \A v, u \in Threads : Owns(v)' /\ Owns(u)' /\ Number(v)' = Number(u)' => v = u
    BY <1>0, <1>1, <1>2, <1>3 DEF Numbers
  <2> QED BY <2>1, <2>2, <2>3 DEF Numbers
<1>6. Loose'
  <2>1. ASSUME NEW u \in Threads PROVE Pointers(u)'
    <3>1. Pointers(u)
      BY <1>0 DEF Loose
    <3> QED BY <1>1, <1>2, <1>d, <3>1 DEF Pointers
  <2>2. ASSUME NEW m \in Nodes \ {Tip'}, next'[m] \in Nat, next'[m] # 0
        PROVE  \E u \in Threads : pc'[u] \in LinkPlaces /\ node'[u] = m
    <3>1. PICK u \in Threads : pc[u] \in LinkPlaces /\ node[u] = m
      BY <1>0, <1>1, <1>d, <2>2 DEF Loose
    <3> QED BY <1>1, <1>2, <3>1 DEF LinkPlaces
  <2> QED BY <2>1, <2>2 DEF Loose
<1>7. Movers'
  <2>1. ASSUME NEW u \in Threads PROVE Mover(u)'
    <3>1. Mover(u)
      BY <1>0 DEF Movers
    <3> QED BY <1>1, <1>2, <1>d, <3>1 DEF Mover
  <2>2. ASSUME Lagging' PROVE \E u \in Threads : pc'[u] \in {"enq_number", "enq_cas"} /\ tmp'[u] = rear'
    <3>1. PICK u \in Threads : pc[u] \in {"enq_number", "enq_cas"} /\ tmp[u] = rear
      BY <1>0, <1>d, <2>2 DEF Movers
    <3> QED BY <1>1, <1>2, <3>1
  <2> QED BY <2>1, <2>2 DEF Movers
<1>8. Takers'
  <2>1. ASSUME NEW u \in Threads PROVE Taker(u)'
    <3>1. Taker(u) /\ tmp[u].id \in Nat
      BY <1>0, Locals DEF Takers
    <3>2. CASE u = t
      BY <1>1, <3>2 DEF Taker, FrontPlaces
    <3>3. CASE u # t
      <4>1. pc[u] \in FrontPlaces => tmp[u].id <= front'.id /\ tmp[u] # front'
        BY <1>b, <3>1 DEF Taker
      <4> QED BY <1>1, <1>2, <3>1, <3>3, <4>1 DEF Taker, FrontPlaces
    <3> QED BY <3>2, <3>3
  <2> QED BY <2>1 DEF Takers
<1>9. Carried'
  <2>1. ASSUME NEW u \in Threads PROVE Carries(u)'
    <3>1. Carries(u)
      BY <1>0 DEF Carried
    <3> QED BY <1>1, <1>2, <1>3, <3>1 DEF Carries, OwnPlaces, LinkPlaces
  <2>2. ASSUME NEW i \in 2..Len(chain') PROVE data'[chain'[i]] \in 1..MaxItems
    <3>1. i + 1 \in 2..Len(chain) /\ chain'[i] = chain[i + 1]
      BY <1>c
    <3> QED BY <1>0, <1>1, <3>1 DEF Carried
  <2> QED BY <2>1, <2>2 DEF Carried
<1> QED BY <1>4, <1>5, <1>6, <1>7, <1>8, <1>9 DEF Shape

(* Every step keeps the list, the numbers and what the threads have of them. *)
LEMMA ShapeStep ==
  ASSUME IInv, NEW t \in Threads, Step(t)
  PROVE  Shape'
<1>1. CASE Calm(t)
  <2>1. Others(t) /\ Quiet /\ Keeps(t) /\ Local(t)'
    BY <1>1, OthersKept, CalmIsQuiet, QuietStep DEF IInv
  <2> QED BY <2>1, QuietFrame DEF Shape
<1>2. CASE ~Calm(t)
  <2>1. \/ EnqAlloc(t) \/ EnqNext(t) \/ (EnqLink(t) /\ next[tmp[t].ptr] = tmp[t].id)
        \/ ((HelpCas(t) \/ EnqCas(t)) /\ rear = tmp[t])
        \/ (DeqCas(t) /\ front = tmp[t]) \/ DeqFree(t)
    BY <1>2 DEF Calm, Step, EnQ, DeQ
  <2> QED BY <2>1, AllocShape, NextShape, LinkShape, MoveShape, TakeShape, FreeShape
<1> QED BY <1>1, <1>2

-----------------------------------------------------------------------------
(* The count *)

LEMMA MemberFrame ==
  ASSUME NEW S \in SUBSET Threads, NEW R \in SUBSET Threads, NEW t, R \ {t} = S \ {t}
  PROVE  /\ Cardinality(S) \in Nat /\ Cardinality(R) \in Nat
         /\ Cardinality(R) - Cardinality(S) = (IF t \in R THEN 1 ELSE 0) - (IF t \in S THEN 1 ELSE 0)
<1>1. IsFiniteSet(S) /\ IsFiniteSet(R) /\ IsFiniteSet(S \ {t})
  BY FS_Subset, FS_RemoveElement
<1>2. /\ Cardinality(S) \in Nat /\ Cardinality(R) \in Nat /\ Cardinality(S \ {t}) \in Nat
      /\ Cardinality(S \ {t}) = IF t \in S THEN Cardinality(S) - 1 ELSE Cardinality(S)
      /\ Cardinality(S \ {t}) = IF t \in R THEN Cardinality(R) - 1 ELSE Cardinality(R)
  BY <1>1, FS_RemoveElement, FS_CardinalityType
<1> QED BY <1>2

(* What t does to the length of the chain, to the count and to the pool is    *)
(* what it changes in the set of those who are about to.                      *)
Ahead(place) == IF place \in {"enq_number", "enq_cas", "enq_count", "deq_undo"} \cup TakePlaces THEN 1 ELSE 0

Undo(place) == IF place = "deq_undo" THEN 1 ELSE 0

Needs(place) == IF place = "enq_alloc" THEN 1 ELSE 0

LEMMA UndoneBefore ==
  ASSUME NEW a \in Int, NEW b \in Int, NEW s \in Nat, NEW r \in Nat, NEW u \in 0..1, NEW v \in 0..1,
         a + s >= 0, r - s = v - u, b - a + v - u >= 0 \/ b + v >= 0, u = 1 => s >= 1
  PROVE  b + r >= 0
OBVIOUS

LEMMA AheadBefore ==
  ASSUME NEW a \in Int, NEW b \in Int, NEW l \in Int, NEW m \in Int, NEW s \in Int, NEW r \in Int,
         l - 1 = a + s, m - l = b - a + (r - s)
  PROVE  m - 1 = b + r
OBVIOUS

LEMMA NeedsBefore ==
  ASSUME NEW f \in Nat, NEW g \in Nat, NEW s \in Nat, NEW r \in Nat, NEW u \in 0..1, NEW v \in 0..1,
         f >= s, r - s = v - u, g - f >= v - u \/ (g = f /\ f > s)
  PROVE  g >= r
OBVIOUS

Balanced(t) == Len(chain') - Len(chain) = count' - count + Ahead(pc'[t]) - Ahead(pc[t])

LEMMA CountFrame ==
  ASSUME TypeOK, TypeOK', Counted, NEW t \in Threads, Others(t), Balanced(t),
         count' - count + Undo(pc'[t]) - Undo(pc[t]) >= 0 \/ count' + Undo(pc'[t]) >= 0,
         \/ Len(free') - Len(free) >= Needs(pc'[t]) - Needs(pc[t])
         \/ free' = free /\ Len(free) > Cardinality(Allocating)
  PROVE  Counted'
<1>1. /\ Cardinality(CountAhead) \in Nat /\ Cardinality(CountAhead') \in Nat
      /\ Cardinality(CountAhead') - Cardinality(CountAhead) = Ahead(pc'[t]) - Ahead(pc[t])
  <2>1. /\ CountAhead \in SUBSET Threads /\ CountAhead' \in SUBSET Threads
        /\ CountAhead' \ {t} = CountAhead \ {t}
        /\ Ahead(pc[t]) = IF t \in CountAhead THEN 1 ELSE 0
        /\ Ahead(pc'[t]) = IF t \in CountAhead' THEN 1 ELSE 0
    BY DEF CountAhead, Others, Ahead
  <2> HIDE DEF CountAhead
  <2> QED BY <2>1, MemberFrame
<1>2. /\ Cardinality(Undoing) \in Nat /\ Cardinality(Undoing') \in Nat
      /\ Cardinality(Undoing') - Cardinality(Undoing) = Undo(pc'[t]) - Undo(pc[t])
  <2>1. /\ Undoing \in SUBSET Threads /\ Undoing' \in SUBSET Threads
        /\ Undoing' \ {t} = Undoing \ {t}
        /\ Undo(pc[t]) = IF t \in Undoing THEN 1 ELSE 0
        /\ Undo(pc'[t]) = IF t \in Undoing' THEN 1 ELSE 0
    BY DEF Undoing, Others, Undo
  <2> QED BY <2>1, MemberFrame
<1>p. /\ Cardinality(Allocating) \in Nat /\ Cardinality(Allocating') \in Nat
      /\ Cardinality(Allocating') - Cardinality(Allocating) = Needs(pc'[t]) - Needs(pc[t])
  <2>1. /\ Allocating \in SUBSET Threads /\ Allocating' \in SUBSET Threads
        /\ Allocating' \ {t} = Allocating \ {t}
        /\ Needs(pc[t]) = IF t \in Allocating THEN 1 ELSE 0
        /\ Needs(pc'[t]) = IF t \in Allocating' THEN 1 ELSE 0
    BY DEF Allocating, Others, Needs
  <2> QED BY <2>1, MemberFrame
<1>3. count \in Int /\ count' \in Int /\ Len(chain) \in Nat /\ Len(chain') \in Nat /\ Len(free) \in Nat /\ Len(free') \in Nat
  BY LenProperties DEF TypeOK
<1>4. /\ Ahead(pc[t]) \in Int /\ Ahead(pc'[t]) \in Int
      /\ Undo(pc[t]) \in 0..1 /\ Undo(pc'[t]) \in 0..1 /\ Needs(pc[t]) \in 0..1 /\ Needs(pc'[t]) \in 0..1
  BY DEF Ahead, Undo, Needs
<1>5. Len(chain') - 1 = count' + Cardinality(CountAhead')
  <2>1. Len(chain) - 1 = count + Cardinality(CountAhead)
    BY DEF Counted
  <2>2. Len(chain') - Len(chain) = count' - count + (Cardinality(CountAhead') - Cardinality(CountAhead))
    BY <1>1, <1>3, <1>4 DEF Balanced
  <2>3. Cardinality(CountAhead) \in Int /\ Cardinality(CountAhead') \in Int
    BY <1>1
  <2> QED BY <1>3, <2>1, <2>2, <2>3, AheadBefore, SMTT(40)
<1>6. count' + Cardinality(Undoing') >= 0
  <2>1. count + Cardinality(Undoing) >= 0
    BY DEF Counted
  <2>2. Undo(pc[t]) = 1 => Cardinality(Undoing) >= 1
    <3>1. Undo(pc[t]) = 1 => t \in Undoing
      BY DEF Undo, Undoing
    <3>2. IsFiniteSet(Undoing)
      BY FS_Subset DEF Undoing
    <3> QED BY <1>2, <3>1, <3>2, FS_EmptySet
  <2> QED BY <1>2, <1>3, <1>4, <2>1, <2>2, UndoneBefore
<1>7. Len(free') >= Cardinality(Allocating')
  <2>1. Len(free) >= Cardinality(Allocating)
    BY DEF Counted
  <2> QED BY <1>3, <1>4, <1>p, <2>1, NeedsBefore
<1> QED BY <1>5, <1>6, <1>7 DEF Counted

LEMMA CountedStep ==
  ASSUME IInv, NEW t \in Threads, Step(t)
  PROVE  Counted'
<1>0. TypeOK /\ Structure /\ Counted
  BY DEF IInv
<1>a. Others(t)
  BY <1>0, OthersKept
<1>b. TypeOK'
  BY TypeStep
<1>c. /\ count \in Int /\ count' \in Int /\ Len(chain) \in Nat /\ Len(free) \in Nat
      /\ pc \in [Threads -> Places]
  BY <1>0, <1>b, LenProperties DEF TypeOK
<1>f. ASSUME Len(chain') = Len(chain), Len(free') = Len(free), count' = count, 
             Ahead(pc'[t]) = Ahead(pc[t]), Undo(pc'[t]) = Undo(pc[t]), Needs(pc'[t]) = Needs(pc[t])
      PROVE  Counted'
  <2>1. /\ Len(chain') - Len(chain) = count' - count + Ahead(pc'[t]) - Ahead(pc[t])
        /\ count' - count + Undo(pc'[t]) - Undo(pc[t]) >= 0
        /\ Len(free') - Len(free) >= Needs(pc'[t]) - Needs(pc[t])
    BY <1>c, <1>f DEF Ahead, Undo, Needs
  <2> QED BY <1>0, <1>a, <1>b, <2>1, CountFrame DEF Balanced
<1>1. CASE EnqCall(t)
  <2>1. /\ Len(chain') - Len(chain) = count' - count + Ahead(pc'[t]) - Ahead(pc[t])
        /\ count' - count + Undo(pc'[t]) - Undo(pc[t]) >= 0
    BY <1>c, <1>1 DEF EnqCall, Ahead, Undo, Needs, TakePlaces, FrontPlaces
  <2>2. free' = free /\ Len(free) > Cardinality(Allocating)
    BY <1>1 DEF EnqCall, Allocating
  <2> QED BY <1>0, <1>a, <1>b, <2>1, <2>2, CountFrame DEF Balanced
<1>2. CASE EnqAlloc(t)
  <2>1. /\ pc[t] = "enq_alloc" /\ pc'[t] = "enq_next" /\ free' = Tail(free) /\ chain' = chain /\ count' = count
    BY <1>c, <1>2 DEF EnqAlloc
  <2>2. Len(free') = Len(free) - 1
    BY <1>0, <2>1, NodeLeft, Front DEF TypeOK, Structure
  <2>3. /\ Len(chain') - Len(chain) = count' - count + Ahead(pc'[t]) - Ahead(pc[t])
        /\ count' - count + Undo(pc'[t]) - Undo(pc[t]) >= 0
        /\ Len(free') - Len(free) >= Needs(pc'[t]) - Needs(pc[t])
    BY <1>c, <2>1, <2>2 DEF Ahead, Undo, Needs, TakePlaces, FrontPlaces
  <2> QED BY <1>0, <1>a, <1>b, <2>3, CountFrame DEF Balanced
<1>3. CASE EnqNext(t)
  BY <1>c, <1>f, <1>3 DEF EnqNext, Ahead, Undo, Needs, TakePlaces, FrontPlaces
<1>4. CASE EnqPtr(t)
  BY <1>c, <1>f, <1>4 DEF EnqPtr, Ahead, Undo, Needs, TakePlaces, FrontPlaces
<1>5. CASE EnqId(t)
  BY <1>c, <1>f, <1>5 DEF EnqId, Ahead, Undo, Needs, TakePlaces, FrontPlaces
<1>6. CASE EnqLink(t) /\ next[tmp[t].ptr] = tmp[t].id
  <2>1. /\ pc[t] = "enq_link" /\ pc'[t] = "enq_number" /\ free' = free /\ count' = count
        /\ chain' = Append(chain, node[t])
    BY <1>c, <1>6 DEF EnqLink
  <2>2. node[t] \in Nodes \ Range(chain)
    BY <1>0, <2>1 DEF Structure, Holding, Hand, Owns, OwnPlaces, LinkPlaces
  <2>3. Len(chain') = Len(chain) + 1
    BY <1>0, <2>1, <2>2, Appended DEF TypeOK, Structure
  <2>4. /\ Len(chain') - Len(chain) = count' - count + Ahead(pc'[t]) - Ahead(pc[t])
        /\ count' - count + Undo(pc'[t]) - Undo(pc[t]) >= 0
        /\ Len(free') - Len(free) >= Needs(pc'[t]) - Needs(pc[t])
    BY <1>c, <2>1, <2>3 DEF Ahead, Undo, Needs, TakePlaces, FrontPlaces
  <2> QED BY <1>0, <1>a, <1>b, <2>4, CountFrame DEF Balanced
<1>7. CASE EnqLink(t) /\ next[tmp[t].ptr] # tmp[t].id
  BY <1>c, <1>f, <1>7 DEF EnqLink, Ahead, Undo, Needs, TakePlaces, FrontPlaces
<1>8. CASE HelpNext(t)
  BY <1>c, <1>f, <1>8 DEF HelpNext, Ahead, Undo, Needs, TakePlaces, FrontPlaces
<1>9. CASE HelpId(t)
  BY <1>c, <1>f, <1>9 DEF HelpId, Ahead, Undo, Needs, TakePlaces, FrontPlaces
<1>10. CASE HelpCas(t)
  BY <1>c, <1>f, <1>10 DEF HelpCas, MoveRear, Ahead, Undo, Needs, TakePlaces, FrontPlaces
<1>11. CASE EnqNumber(t)
  BY <1>c, <1>f, <1>11 DEF EnqNumber, Ahead, Undo, Needs, TakePlaces, FrontPlaces
<1>12. CASE EnqCas(t)
  BY <1>c, <1>f, <1>12 DEF EnqCas, MoveRear, Ahead, Undo, Needs, TakePlaces, FrontPlaces
<1>13. CASE EnqCount(t)
  <2>1. /\ Len(chain') - Len(chain) = count' - count + Ahead(pc'[t]) - Ahead(pc[t])
        /\ Len(free') - Len(free) >= Needs(pc'[t]) - Needs(pc[t])
    BY <1>c, <1>13 DEF EnqCount, Leave, Ahead, Undo, Needs, TakePlaces, FrontPlaces
  <2>2. count' - count + Undo(pc'[t]) - Undo(pc[t]) >= 0 \/ count' + Undo(pc'[t]) >= 0
    BY <1>c, <1>13 DEF EnqCount, Leave, Ahead, Undo, Needs, TakePlaces, FrontPlaces
  <2> QED BY <1>0, <1>a, <1>b, <2>1, <2>2, CountFrame DEF Balanced
<1>14. CASE DeqDec(t)
  <2>1. /\ Len(chain') - Len(chain) = count' - count + Ahead(pc'[t]) - Ahead(pc[t])
        /\ Len(free') - Len(free) >= Needs(pc'[t]) - Needs(pc[t])
    BY <1>c, <1>14 DEF DeqDec, Ahead, Undo, Needs, TakePlaces, FrontPlaces
  <2>2. count' - count + Undo(pc'[t]) - Undo(pc[t]) >= 0 \/ count' + Undo(pc'[t]) >= 0
    BY <1>c, <1>14 DEF DeqDec, Ahead, Undo, Needs, TakePlaces, FrontPlaces
  <2> QED BY <1>0, <1>a, <1>b, <2>1, <2>2, CountFrame DEF Balanced
<1>15. CASE DeqUndo(t)
  <2>1. /\ Len(chain') - Len(chain) = count' - count + Ahead(pc'[t]) - Ahead(pc[t])
        /\ Len(free') - Len(free) >= Needs(pc'[t]) - Needs(pc[t])
    BY <1>c, <1>15 DEF DeqUndo, Leave, Ahead, Undo, Needs, TakePlaces, FrontPlaces
  <2>2. count' - count + Undo(pc'[t]) - Undo(pc[t]) >= 0 \/ count' + Undo(pc'[t]) >= 0
    BY <1>c, <1>15 DEF DeqUndo, Leave, Ahead, Undo, Needs, TakePlaces, FrontPlaces
  <2> QED BY <1>0, <1>a, <1>b, <2>1, <2>2, CountFrame DEF Balanced
<1>16. CASE DeqPtr(t)
  BY <1>c, <1>f, <1>16 DEF DeqPtr, Ahead, Undo, Needs, TakePlaces, FrontPlaces
<1>17. CASE DeqId(t)
  BY <1>c, <1>f, <1>17 DEF DeqId, Ahead, Undo, Needs, TakePlaces, FrontPlaces
<1>18. CASE DeqNext(t)
  BY <1>c, <1>f, <1>18 DEF DeqNext, Ahead, Undo, Needs, TakePlaces, FrontPlaces
<1>19. CASE DeqData(t)
  BY <1>c, <1>f, <1>19 DEF DeqData, Ahead, Undo, Needs, TakePlaces, FrontPlaces
<1>20. CASE DeqCas(t) /\ front = tmp[t]
  <2>1. /\ pc[t] = "deq_cas" /\ pc'[t] = "deq_free" /\ free' = free /\ count' = count
        /\ chain' = Tail(chain)
    BY <1>c, <1>20 DEF DeqCas
  <2>2. Len(chain') = Len(chain) - 1
    BY <1>0, <2>1, Front DEF TypeOK, Structure
  <2>3. /\ Len(chain') - Len(chain) = count' - count + Ahead(pc'[t]) - Ahead(pc[t])
        /\ count' - count + Undo(pc'[t]) - Undo(pc[t]) >= 0
        /\ Len(free') - Len(free) >= Needs(pc'[t]) - Needs(pc[t])
    BY <1>c, <2>1, <2>2 DEF Ahead, Undo, Needs, TakePlaces, FrontPlaces
  <2> QED BY <1>0, <1>a, <1>b, <2>3, CountFrame DEF Balanced
<1>21. CASE DeqCas(t) /\ front # tmp[t]
  BY <1>c, <1>f, <1>21 DEF DeqCas, Ahead, Undo, Needs, TakePlaces, FrontPlaces
<1>22. CASE DeqFree(t)
  <2>1. /\ pc[t] = "deq_free" /\ pc'[t] = "idle" /\ chain' = chain /\ count' = count
        /\ free' = <<tmp[t].ptr>> \o free
    BY <1>c, <1>22 DEF DeqFree, Leave
  <2>2. tmp[t].ptr \in Nodes \ Range(free)
    BY <1>0, <2>1 DEF Structure, Holding, Hand
  <2>3. Len(free') = Len(free) + 1
    BY <1>0, <2>1, <2>2, Prepended DEF TypeOK, Structure
  <2>4. /\ Len(chain') - Len(chain) = count' - count + Ahead(pc'[t]) - Ahead(pc[t])
        /\ count' - count + Undo(pc'[t]) - Undo(pc[t]) >= 0
        /\ Len(free') - Len(free) >= Needs(pc'[t]) - Needs(pc[t])
    BY <1>c, <2>1, <2>3 DEF Ahead, Undo, Needs, TakePlaces, FrontPlaces
  <2> QED BY <1>0, <1>a, <1>b, <2>4, CountFrame DEF Balanced
<1> QED
  BY <1>1, <1>2, <1>3, <1>4, <1>5, <1>6, <1>7, <1>8, <1>9, <1>10, <1>11, <1>12, <1>13, <1>14, <1>15, <1>16, <1>17, <1>18, <1>19, <1>20, <1>21, <1>22
  DEF Step, EnQ, DeQ

-----------------------------------------------------------------------------
(* The invariant *)

(* The rear is not the new node: that is neither in the chain nor anybody's   *)
(* copy of its end.                                                           *)
LEMMA NoSelfLinkStep ==
  ASSUME IInv, NEW t \in Threads, Step(t)
  PROVE  NoSelfLink'
<1>1. NoSelfLink /\ Pointers(t)
  BY DEF IInv, Loose
<1>2. CASE EnqId(t)
  BY <1>1, <1>2 DEF EnqId, Pointers, NoSelfLink
<1>3. CASE EnqCall(t)
  BY <1>1, <1>3 DEF EnqCall, NoSelfLink
<1>4. CASE ~EnqId(t) /\ ~EnqCall(t)
  <2>1. crash' = crash
    BY <1>4 DEF Step, EnQ, DeQ, EnqAlloc, EnqNext, EnqPtr, EnqLink, HelpNext, HelpId, HelpCas, EnqNumber,
       EnqCas, MoveRear, EnqCount, DeqDec, DeqUndo, DeqPtr, DeqId, DeqNext, DeqData, DeqCas, DeqFree
  <2> QED BY <1>1, <2>1 DEF NoSelfLink
<1> QED BY <1>2, <1>3, <1>4

LEMMA InitIInv == Init => IInv
<1> SUFFICES ASSUME Init PROVE IInv
  OBVIOUS
<1>1. /\ Heap \in Seq(Nodes) /\ IsInjective(Heap) /\ Heap # <<>> /\ Heap[1] \in Nodes
  BY Front DEF IsInjective, Nodes
<1>2. /\ free \in Seq(Nodes) /\ IsInjective(free) /\ Heap[1] \notin Range(free)
  BY <1>1, Front DEF Init
<1>3. /\ chain = <<Heap[1]>> /\ Len(chain) = 1 /\ chain[1] = Heap[1] /\ chain \in Seq(Nodes) /\ Tip = Heap[1]
      /\ DOMAIN chain = 1..1 /\ Range(chain) = {Heap[1]} /\ chain # <<>>
  BY <1>1 DEF Init, Tip, Range
<1>4. TypeOK
  BY <1>1, <1>2, <1>3 DEF Init, TypeOK, Words, Ids, Copies, Changes, Places
<1>t. ASSUME NEW t \in Threads
      PROVE  /\ pc[t] = "idle" /\ ~Owns(t) /\ ~Holding(t)
             /\ Copy(t) /\ Pointers(t) /\ Mover(t) /\ Taker(t) /\ Carries(t)
  BY DEF Init, Owns, Holding, Copy, Pointers, Mover, Taker, Carries, OwnPlaces, LinkPlaces, RearPlaces, FrontPlaces
<1>5. Structure
  <2>1. IsInjective(chain)
    BY <1>3 DEF IsInjective
  <2>2. ChainIntact
    BY <1>1, <1>3 DEF Init, ChainIntact
  <2> QED BY <1>1, <1>2, <1>3, <1>t, <2>1, <2>2 DEF Structure
<1>6. Numbers
  BY <1>1, <1>3, <1>t DEF Init, Numbers, Fresh, Lagging
<1>7. Loose
  BY <1>t DEF Init, Loose
<1>8. Movers
  BY <1>3, <1>t DEF Init, Movers, Lagging
<1>9. Takers /\ Carried
  BY <1>3, <1>t DEF Takers, Carried
<1>10. Counted
  <2>1. CountAhead = {} /\ Undoing = {} /\ Allocating = {}
    BY <1>t DEF CountAhead, Undoing, Allocating, TakePlaces, FrontPlaces
  <2>2. Len(free) \in Nat
    BY <1>2, LenProperties
  <2> QED BY <1>3, <2>1, <2>2, FS_EmptySet DEF Init, Counted
<1> QED BY <1>4, <1>5, <1>6, <1>7, <1>8, <1>9, <1>10 DEF Init, IInv, NoSelfLink

LEMMA StepIInv ==
  ASSUME IInv, [Next]_vars
  PROVE  IInv'
<1>1. CASE Next
  <2>1. PICK t \in Threads : Step(t)
    BY <1>1 DEF Next
  <2> QED BY <2>1, TypeStep, ShapeStep, CountedStep, NoSelfLinkStep DEF IInv, Shape
<1>2. CASE UNCHANGED vars
  <2> USE <1>2 DEF IInv, vars
  <2>1. TypeOK'
    BY DEF TypeOK
  <2>2. Structure'
    BY DEF Structure, ChainIntact, Holding, Hand, Owns
  <2>3. Numbers'
    BY DEF Numbers, Fresh, Copy, Number, Owns, Lagging, Tip
  <2>4. Loose'
    BY DEF Loose, Pointers, Tip
  <2>5. Movers'
    BY DEF Movers, Mover, Lagging, Tip
  <2>6. Takers' /\ Carried'
    BY DEF Takers, Taker, Carried, Carries, Owns
  <2>7. Counted' /\ NoSelfLink'
    BY DEF Counted, CountAhead, Undoing, Allocating, NoSelfLink
  <2> QED BY <2>1, <2>2, <2>3, <2>4, <2>5, <2>6, <2>7
<1> QED BY <1>1, <1>2

(* The inductive invariant of the queue, for any number of threads, nodes and *)
(* items.                                                                     *)
THEOREM QueueInvariant == Spec => []IInv
<1>1. Init => IInv
  BY InitIInv
<1>2. IInv /\ [Next]_vars => IInv'
  BY StepIInv
<1> QED BY <1>1, <1>2, PTL DEF Spec

(* LockFreeQ.h's list stays what was linked and not dequeued, and its rear is *)
(* the last node or the one before it: no exchange succeeds on a node that    *)
(* was freed and used again.                                                  *)
THEOREM ChainCorrect == Spec => []ChainIntact
<1>1. IInv => ChainIntact
  BY DEF IInv, Structure
<1> QED BY <1>1, QueueInvariant, PTL

(* The Crash() of EnQ for a rear that is the new node is never reached. *)
THEOREM SelfLinkNever == Spec => []NoSelfLink
<1>1. IInv => NoSelfLink
  BY DEF IInv
<1> QED BY <1>1, QueueInvariant, PTL

(* A DeQ answers that the queue is empty only if every item in it is spoken   *)
(* for: m_Count is never ahead of the list.                                   *)
THEOREM EmptyCorrect == Spec => DeqIsHonest
<1> DEFINE Behind(t) == {u \in Threads \ {t} :
        pc[u] \in {"enq_number", "enq_cas", "enq_count", "deq_undo",
                   "deq_ptr", "deq_id", "deq_next", "deq_data", "deq_cas"}}
           Honest == \A t \in Threads : pc[t] = "idle" /\ pc'[t] = "deq_undo" => Len(chain) - 1 <= Cardinality(Behind(t))
<1>1. IInv /\ [Next]_vars => [Honest]_vars
  <2> SUFFICES ASSUME IInv, Next, NEW t \in Threads, pc[t] = "idle", pc'[t] = "deq_undo"
               PROVE  Len(chain) - 1 <= Cardinality(Behind(t))
    BY DEF vars
  <2>1. PICK u \in Threads : Step(u)
    BY DEF Next
  <2>2. u = t
    BY <2>1, OthersKept DEF IInv, Others
  <2>3. count' = count - 1 /\ count - 1 < 0
    <3>1. EnqCall(t) \/ DeqDec(t)
      BY <2>1, <2>2 DEF Step, EnQ, DeQ, EnqAlloc, EnqNext, EnqPtr, EnqId, EnqLink, HelpNext, HelpId, HelpCas,
         EnqNumber, EnqCas, MoveRear, EnqCount, DeqUndo, DeqPtr, DeqId, DeqNext, DeqData, DeqCas, DeqFree
    <3>2. pc \in [Threads -> Places]
      BY DEF IInv, TypeOK
    <3> QED BY <3>1, <3>2 DEF EnqCall, DeqDec
  <2>4. Behind(t) = CountAhead
    BY DEF CountAhead, TakePlaces, FrontPlaces
  <2>5. /\ Len(chain) - 1 = count + Cardinality(CountAhead) /\ count \in Int /\ Len(chain) \in Nat
        /\ Cardinality(CountAhead) \in Nat
    BY FS_Subset, FS_CardinalityType, LenProperties DEF IInv, Counted, TypeOK, CountAhead
  <2> HIDE DEF Behind
  <2> QED BY <2>3, <2>4, <2>5
<1>2. Spec => [][Honest]_vars
  BY <1>1, QueueInvariant, PTL DEF Spec
<1> QED BY <1>2 DEF DeqIsHonest

-----------------------------------------------------------------------------
(* The chain of nodes as a queue of items *)

(* The queue of AtomicQueue, and what its threads have dequeued. *)
Content == [i \in 1..(Len(chain) - 1) |-> data[chain[i + 1]]]

GotBy(t) == IF pc[t] = "deq_free" THEN val[t] ELSE None

Got == [t \in Threads |-> GotBy(t)]

(* A step of t changes what t has got only. *)
LEMMA GotFrame ==
  ASSUME IInv, NEW t \in Threads, Step(t)
  PROVE  Got' = [Got EXCEPT ![t] = GotBy(t)']
<1>1. \A u \in Threads \ {t} : GotBy(u)' = GotBy(u)
  BY OthersKept DEF IInv, Others, GotBy
<1> QED BY <1>1 DEF Got

(* The item of a linked node is not written. *)
LEMMA DataKept ==
  ASSUME IInv, NEW t \in Threads, Step(t), NEW i \in 1..Len(chain)
  PROVE  data'[chain[i]] = data[chain[i]]
<1>1. CASE EnqAlloc(t)
  <2>1. free # <<>> /\ free \in Seq(Nodes) /\ IsInjective(free)
    BY <1>1, NodeLeft DEF IInv, EnqAlloc, TypeOK, Structure
  <2>2. Head(free) \in Range(free)
    BY <2>1, Front
  <2>3. chain[i] \in Nodes /\ chain[i] \in Range(chain)
    BY Ends DEF IInv, Structure
  <2>4. data' = [data EXCEPT ![Head(free)] = val[t]]
    BY <1>1 DEF EnqAlloc
  <2> QED BY <2>2, <2>3, <2>4 DEF IInv, TypeOK, Structure
<1>2. CASE ~EnqAlloc(t)
  BY <1>2 DEF Step, EnQ, DeQ, EnqCall, EnqNext, EnqPtr, EnqId, EnqLink, HelpNext, HelpId, HelpCas, EnqNumber,
     EnqCas, MoveRear, EnqCount, DeqDec, DeqUndo, DeqPtr, DeqId, DeqNext, DeqData, DeqCas, DeqFree
<1> QED BY <1>1, <1>2

LEMMA ContentIs ==
  ASSUME IInv
  PROVE  /\ Len(chain) \in Nat \ {0} /\ Content \in Seq(1..MaxItems) /\ Len(Content) = Len(chain) - 1
         /\ \A i \in 1..(Len(chain) - 1) : Content[i] = data[chain[i + 1]]
<1>1. Len(chain) \in Nat \ {0}
  BY Ends DEF IInv, Structure
<1>2. ASSUME NEW i \in 1..(Len(chain) - 1) PROVE data[chain[i + 1]] \in 1..MaxItems
  <2>1. i + 1 \in 2..Len(chain)
    BY <1>1
  <2> QED BY <2>1 DEF IInv, Carried
<1>3. /\ Content \in [1..(Len(chain) - 1) -> 1..MaxItems]
      /\ \A i \in 1..(Len(chain) - 1) : Content[i] = data[chain[i + 1]]
  BY <1>2 DEF Content
<1> HIDE DEF Content
<1>4. Content \in Seq(1..MaxItems) /\ DOMAIN Content = 1..(Len(chain) - 1) /\ Len(chain) - 1 \in Nat
  <2> DEFINE k == Len(chain) - 1
  <2>1. k \in Nat /\ Content \in [1..k -> 1..MaxItems]
    BY <1>1, <1>3
  <2> HIDE DEF k
  <2>2. Content \in Seq(1..MaxItems) /\ DOMAIN Content = 1..k
    BY <2>1
  <2> QED BY <2>1, <2>2 DEF k
<1> QED BY <1>1, <1>3, <1>4, LenProperties

(* A step that leaves the chain leaves its items. *)
LEMMA ContentFrame ==
  ASSUME IInv, NEW t \in Threads, Step(t), chain' = chain
  PROVE  Content' = Content
<1>1. Len(chain) \in Nat \ {0}
  BY ContentIs
<1>2. ASSUME NEW i \in 1..(Len(chain) - 1) PROVE data'[chain[i + 1]] = data[chain[i + 1]]
  <2>1. i + 1 \in 1..Len(chain)
    BY <1>1
  <2> QED BY <2>1, DataKept
<1> QED BY <1>2 DEF Content

LEMMA ContentLinked ==
  ASSUME IInv, NEW t \in Threads, EnqLink(t), next[tmp[t].ptr] = tmp[t].id
  PROVE  val[t] \in 1..MaxItems /\ Content' = Append(Content, val[t])
<1>1. /\ pc[t] = "enq_link" /\ chain' = Append(chain, node[t]) /\ data' = data
      /\ val[t] \in 1..MaxItems /\ data[node[t]] = val[t]
      /\ node[t] \in Nodes \ Range(chain) /\ chain \in Seq(Nodes) /\ IsInjective(chain)
  <2>1. pc[t] = "enq_link" /\ chain' = Append(chain, node[t]) /\ data' = data
    BY DEF EnqLink
  <2>2. Owns(t) /\ Holding(t) /\ Hand(t) = node[t]
    BY <2>1 DEF Owns, Holding, Hand, OwnPlaces, LinkPlaces
  <2>3. val[t] \in 1..MaxItems /\ data[node[t]] = val[t]
    BY <2>2 DEF IInv, Carried, Carries, Owns
  <2> QED BY <2>1, <2>2, <2>3 DEF IInv, Structure, TypeOK
<1>2. /\ Len(chain') = Len(chain) + 1 /\ Len(chain) \in Nat \ {0}
      /\ \A i \in 1..Len(chain) : chain'[i] = chain[i]
      /\ chain'[Len(chain) + 1] = node[t]
  BY <1>1, Appended, ContentIs
<1>3. /\ Content \in Seq(1..MaxItems) /\ Len(Content) = Len(chain) - 1
      /\ \A i \in 1..(Len(chain) - 1) : Content[i] = data[chain[i + 1]]
  BY ContentIs
<1> DEFINE long == Append(Content, val[t])
<1>4. /\ long = [i \in 1..Len(chain) |-> long[i]]
      /\ \A i \in 1..(Len(chain) - 1) : long[i] = Content[i]
      /\ long[Len(chain)] = val[t]
  <2> HIDE DEF Content
  <2>1. /\ long \in Seq(1..MaxItems) /\ Len(long) = Len(Content) + 1
        /\ \A i \in 1..Len(Content) : long[i] = Content[i]
        /\ long[Len(Content) + 1] = val[t]
    BY <1>1, <1>3, AppendProperties
  <2> HIDE DEF long
  <2>2. Len(Content) + 1 = Len(chain)
    BY <1>2, <1>3
  <2> QED BY <1>2, <1>3, <2>1, <2>2
<1>5. Content' = [i \in 1..Len(chain) |-> data[chain'[i + 1]]]
  <2>1. Len(chain') - 1 = Len(chain)
    BY <1>2
  <2> QED BY <1>1, <2>1 DEF Content
<1>6. ASSUME NEW i \in 1..Len(chain) PROVE data[chain'[i + 1]] = long[i]
  <2>1. CASE i = Len(chain)
    BY <1>1, <1>2, <1>4, <2>1
  <2>2. CASE i # Len(chain)
    <3>1. i \in 1..(Len(chain) - 1) /\ i + 1 \in 1..Len(chain)
      BY <1>2, <2>2
    <3> QED BY <1>2, <1>3, <1>4, <3>1
  <2> QED BY <2>1, <2>2
<1> HIDE DEF long
<1>7. Content' = long
  BY <1>4, <1>5, <1>6
<1> QED BY <1>1, <1>7 DEF long

LEMMA ContentTaken ==
  ASSUME IInv, NEW t \in Threads, DeqCas(t), front = tmp[t]
  PROVE  Content # <<>> /\ Head(Content) = val[t] /\ Content' = Tail(Content)
<1>1. /\ chain' = Tail(chain) /\ data' = data /\ pc[t] = "deq_cas"
      /\ Len(chain) > 1 /\ val[t] = data[chain[2]] /\ chain \in Seq(Nodes) /\ chain # <<>>
  <2>1. chain' = Tail(chain) /\ data' = data /\ pc[t] = "deq_cas"
    BY DEF DeqCas
  <2> QED BY <2>1, Locals DEF IInv, Taker, TypeOK, Structure
<1>2. /\ Content \in Seq(1..MaxItems) /\ Len(Content) = Len(chain) - 1 /\ Len(chain) \in Nat
      /\ \A i \in 1..(Len(chain) - 1) : Content[i] = data[chain[i + 1]]
  BY ContentIs
<1>3. /\ Len(chain') = Len(chain) - 1 /\ \A i \in 1..Len(chain') : chain'[i] = chain[i + 1]
  BY <1>1, HeadTailProperties
<1> DEFINE left == Tail(Content)
<1>4. /\ left = [i \in 1..(Len(chain) - 2) |-> left[i]]
      /\ \A i \in 1..(Len(chain) - 2) : left[i] = Content[i + 1]
      /\ Head(Content) = Content[1] /\ Content # <<>>
  <2> HIDE DEF Content
  <2>1. Content # <<>>
    BY <1>1, <1>2, EmptySeq
  <2>2. /\ left \in Seq(1..MaxItems) /\ Len(left) = Len(Content) - 1
        /\ \A i \in 1..Len(left) : left[i] = Content[i + 1]
    BY <1>2, <2>1, HeadTailProperties
  <2>3. Head(Content) = Content[1]
    BY <1>2, <2>1
  <2>4. Len(Content) - 1 = Len(chain) - 2
    BY <1>2
  <2> HIDE DEF left
  <2> QED BY <2>1, <2>2, <2>3, <2>4
<1>5. Content' = [i \in 1..(Len(chain) - 2) |-> data[chain'[i + 1]]]
  <2>1. Len(chain') - 1 = Len(chain) - 2
    BY <1>2, <1>3
  <2> QED BY <1>1, <2>1 DEF Content
<1>6. ASSUME NEW i \in 1..(Len(chain) - 2) PROVE data[chain'[i + 1]] = left[i]
  <2>1. i + 1 \in 1..Len(chain') /\ i + 1 \in 1..(Len(chain) - 1)
    BY <1>2, <1>3
  <2> QED BY <1>2, <1>3, <1>4, <2>1
<1> HIDE DEF left
<1>7. Content' = left
  BY <1>4, <1>5, <1>6
<1>8. Head(Content) = val[t]
  <2>1. Content[1] = data[chain[1 + 1]]
    BY <1>1, <1>2
  <2> QED BY <1>1, <1>4, <2>1
<1> QED BY <1>4, <1>7, <1>8 DEF left

LEMMA QueueStep ==
  ASSUME IInv, NEW t \in Threads, Step(t)
  PROVE  \/ Content' = Content /\ Got' = Got
         \/ \E v \in 1..MaxItems : Content' = Append(Content, v) /\ Got' = Got
         \/ /\ Content # <<>> /\ Got[t] = None
            /\ Got' = [Got EXCEPT ![t] = Head(Content)] /\ Content' = Tail(Content)
         \/ Got' = [Got EXCEPT ![t] = None] /\ Content' = Content
<1>w. pc \in [Threads -> Places] /\ Got[t] = GotBy(t)
  BY DEF IInv, TypeOK, Got
<1>g. GotBy(t)' = GotBy(t) => Got' = Got
  BY GotFrame DEF Got
<1>1. CASE EnqLink(t) /\ next[tmp[t].ptr] = tmp[t].id
  <2>1. pc[t] = "enq_link" /\ pc'[t] = "enq_number"
    BY <1>w, <1>1 DEF EnqLink
  <2>2. Got' = Got
    BY <1>g, <2>1 DEF GotBy
  <2> QED BY <1>1, <2>2, ContentLinked
<1>2. CASE DeqCas(t) /\ front = tmp[t]
  <2>1. pc[t] = "deq_cas" /\ pc'[t] = "deq_free" /\ val' = val
    BY <1>w, <1>2 DEF DeqCas
  <2>2. GotBy(t) = None /\ GotBy(t)' = val[t]
    BY <2>1 DEF GotBy
  <2>3. Content # <<>> /\ Head(Content) = val[t] /\ Content' = Tail(Content)
    BY <1>2, ContentTaken
  <2>4. Got' = [Got EXCEPT ![t] = val[t]]
    BY <2>2, GotFrame
  <2> QED BY <1>w, <2>2, <2>3, <2>4
<1>3. CASE DeqFree(t)
  <2>1. pc'[t] = "idle" /\ chain' = chain
    BY <1>w, <1>3 DEF DeqFree, Leave
  <2>2. GotBy(t)' = None
    BY <2>1 DEF GotBy
  <2> QED BY <2>1, <2>2, GotFrame, ContentFrame
<1>4. CASE ~(EnqLink(t) /\ next[tmp[t].ptr] = tmp[t].id) /\ ~(DeqCas(t) /\ front = tmp[t]) /\ ~DeqFree(t)
  <2>1. chain' = chain
    BY <1>4 DEF Step, EnQ, DeQ, EnqCall, EnqAlloc, EnqNext, EnqPtr, EnqId, EnqLink, HelpNext, HelpId, HelpCas,
       EnqNumber, EnqCas, MoveRear, EnqCount, DeqDec, DeqUndo, DeqPtr, DeqId, DeqNext, DeqData, DeqCas
  <2>2. pc[t] # "deq_free" /\ pc'[t] # "deq_free"
    BY <1>w, <1>4 DEF Step, EnQ, DeQ, EnqCall, EnqAlloc, EnqNext, EnqPtr, EnqId, EnqLink, HelpNext, HelpId, HelpCas,
       EnqNumber, EnqCas, MoveRear, EnqCount, DeqDec, DeqUndo, DeqPtr, DeqId, DeqNext, DeqData, DeqCas, Leave
  <2>3. Got' = Got
    BY <1>g, <2>2 DEF GotBy
  <2> QED BY <2>1, <2>3, ContentFrame
<1> QED BY <1>1, <1>2, <1>3, <1>4

(* The queue implements an atomic one: an EnQ takes effect when its node is   *)
(* linked, a DeQ at its exchange; no item is lost, taken twice or overtaken.  *)
THEOREM QueueImplemented == Spec => QueueSpec
<1>1. Init => Queue!Init
  <2> SUFFICES ASSUME Init PROVE Queue!Init
    OBVIOUS
  <2>1. Len(chain) = 1 /\ \A t \in Threads : pc[t] = "idle"
    BY DEF Init
  <2>2. [i \in 1..(Len(chain) - 1) |-> data[chain[i + 1]]] = <<>>
    BY <2>1
  <2> QED BY <2>1, <2>2 DEF Queue!Init
<1>2. ASSUME IInv, [Next]_vars
      PROVE  [Queue!Next]_<<[i \in 1..(Len(chain) - 1) |-> data[chain[i + 1]]],
                            [t \in Threads |-> IF pc[t] = "deq_free" THEN val[t] ELSE None]>>
  <2>1. CASE UNCHANGED vars
    BY <2>1 DEF vars
  <2>2. CASE Next
    <3>1. PICK t \in Threads : Step(t)
      BY <2>2 DEF Next
    <3>2. Content' = Content /\ Got' = Got
          => UNCHANGED <<[i \in 1..(Len(chain) - 1) |-> data[chain[i + 1]]],
                         [u \in Threads |-> IF pc[u] = "deq_free" THEN val[u] ELSE None]>>
      BY DEF Content, Got, GotBy
    <3>3. ASSUME NEW v \in 1..MaxItems, Content' = Append(Content, v), Got' = Got
          PROVE  Queue!EnQ(v)
      BY <3>3 DEF Content, Got, GotBy, Queue!EnQ
    <3>4. /\ Content # <<>> /\ Got[t] = None
          /\ Got' = [Got EXCEPT ![t] = Head(Content)] /\ Content' = Tail(Content)
          => Queue!DeQ(t)
      BY DEF Content, Got, GotBy, Queue!DeQ
    <3>5. Got' = [Got EXCEPT ![t] = None] /\ Content' = Content => Queue!Return(t)
      BY DEF Content, Got, GotBy, Queue!Return
    <3>6. (\E v \in 1..MaxItems : Queue!EnQ(v)) \/ Queue!DeQ(t) \/ Queue!Return(t) => Queue!Next
      BY DEF Queue!Next
    <3> QED BY <1>2, <3>1, <3>2, <3>3, <3>4, <3>5, <3>6, QueueStep
  <2> QED BY <1>2, <2>1, <2>2
<1>3. IInv /\ [Next]_vars
      => [Queue!Next]_<<[i \in 1..(Len(chain) - 1) |-> data[chain[i + 1]]],
                        [t \in Threads |-> IF pc[t] = "deq_free" THEN val[t] ELSE None]>>
  BY <1>2
<1> QED BY <1>1, <1>3, QueueInvariant, PTL DEF Spec, QueueSpec, Queue!Spec

=============================================================================
