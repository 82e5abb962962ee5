------------------------------ MODULE FreeList ------------------------------
(***************************************************************************)
(* FreeList.h: the pool every lock-free structure takes its nodes from. A  *)
(* linked list whose top is a pointer with a number beside it; both are    *)
(* exchanged together, and the number changes with every exchange, so that *)
(* a node that was taken and came back is not taken for one that stayed.   *)
(*                                                                         *)
(* One action is one access to shared memory. A node's memory stays        *)
(* readable for ever: a thread with an old pointer reads what its present  *)
(* owner, or the pool, has written there.                                  *)
(***************************************************************************)
EXTENDS Integers, Sequences

CONSTANTS Nodes, Threads, NULL

ASSUME NullAssumption == NULL \notin Nodes

VARIABLES
    pool,     \* *m_TopCheck of the pool: _TopPtr and _ID
    link,     \* FreeList::Node::_Next
    fresh,    \* nodes the heap has not given out
    spare,    \* history: the nodes in the list, top first
    (* thread locals *)
    pc,
    tmp,      \* tempTop
    nxt,      \* tempTop._TopPtr->_Next, as read for the exchange
    node      \* the node Alloc returned, or Free was given

freeVars == <<pool, link, fresh, spare>>

Goto(t, place) == pc' = [pc EXCEPT ![t] = place]

(* A call is over, and with it its locals. *)
NoTop == [ptr |-> NULL, id |-> 0]

Leave(t) ==
    /\ Goto(t, "idle")
    /\ tmp' = [tmp EXCEPT ![t] = NoTop]
    /\ nxt' = [nxt EXCEPT ![t] = NULL]
    /\ node' = [node EXCEPT ![t] = NULL]

(* InterlockedCompareExchange128: when the word is not what is expected the *)
(* call stores in tmp what it is.                                           *)
Reload(t, word, again) == tmp' = [tmp EXCEPT ![t] = word] /\ Goto(t, again)

(* A pointer and its number, read one after the other. *)
ReadPtr(t, place, word, then) ==
    /\ pc[t] = place
    /\ tmp' = [tmp EXCEPT ![t].ptr = word.ptr]
    /\ Goto(t, then)
    /\ UNCHANGED <<nxt, node>>

ReadId(t, place, word, then) ==
    /\ pc[t] = place
    /\ tmp' = [tmp EXCEPT ![t].id = word.id]
    /\ Goto(t, then)
    /\ UNCHANGED <<nxt, node>>

---------------------------------------------------------------------------
(* Alloc; back is where its caller goes on. *)

AllocPtr(t) == ReadPtr(t, "alloc_ptr", pool, "alloc_id") /\ UNCHANGED freeVars

AllocId(t) == ReadId(t, "alloc_id", pool, "alloc_next") /\ UNCHANGED freeVars

AllocNew(t, back) ==
    /\ pc[t] = "alloc_next" /\ tmp[t].ptr = NULL
    /\ \E n \in fresh : node' = [node EXCEPT ![t] = n] /\ fresh' = fresh \ {n}
    /\ Goto(t, back)
    /\ UNCHANGED <<pool, link, spare, tmp, nxt>>

AllocNext(t) ==
    /\ pc[t] = "alloc_next" /\ tmp[t].ptr # NULL
    /\ nxt' = [nxt EXCEPT ![t] = link[tmp[t].ptr]]
    /\ Goto(t, "alloc_cas")
    /\ UNCHANGED <<freeVars, tmp, node>>

(* Mutant of AllocCas: the pointer is compared without its number. *)
AllocCasAba(t, back) ==
    /\ pc[t] = "alloc_cas"
    /\ \/ /\ pool.ptr = tmp[t].ptr
          /\ pool' = [ptr |-> nxt[t], id |-> pool.id + 1]
          /\ spare' = Tail(spare)
          /\ node' = [node EXCEPT ![t] = tmp[t].ptr]
          /\ Goto(t, back)
          /\ UNCHANGED tmp
       \/ /\ pool.ptr # tmp[t].ptr
          /\ Reload(t, pool, "alloc_next")
          /\ UNCHANGED <<pool, spare, node>>
    /\ UNCHANGED <<link, fresh, nxt>>

AllocCas(t, back) ==
    /\ pc[t] = "alloc_cas"
    /\ \/ /\ pool = tmp[t]
          /\ pool' = [ptr |-> nxt[t], id |-> pool.id + 1]
          /\ spare' = Tail(spare)
          /\ node' = [node EXCEPT ![t] = tmp[t].ptr]
          /\ Goto(t, back)
          /\ UNCHANGED tmp
       \/ /\ pool # tmp[t]
          /\ Reload(t, pool, "alloc_next")
          /\ UNCHANGED <<pool, spare, node>>
    /\ UNCHANGED <<link, fresh, nxt>>

---------------------------------------------------------------------------
(* Free *)

FreePtr(t) == ReadPtr(t, "free_ptr", pool, "free_id") /\ UNCHANGED freeVars

FreeId(t) == ReadId(t, "free_id", pool, "free_link") /\ UNCHANGED freeVars

FreeLink(t) ==
    /\ pc[t] = "free_link"
    /\ link' = [link EXCEPT ![node[t]] = tmp[t].ptr]
    /\ Goto(t, "free_cas")
    /\ UNCHANGED <<pool, fresh, spare, tmp, nxt, node>>

FreeCas(t, back) ==
    /\ pc[t] = "free_cas"
    /\ \/ /\ pool = tmp[t]
          /\ pool' = [ptr |-> node[t], id |-> pool.id + 1]
          /\ spare' = <<node[t]>> \o spare
          /\ Goto(t, back)
          /\ UNCHANGED tmp
       \/ /\ pool # tmp[t]
          /\ Reload(t, pool, "free_link")
          /\ UNCHANGED <<pool, spare>>
    /\ UNCHANGED <<link, fresh, nxt, node>>

---------------------------------------------------------------------------
(* The memory of a list: from the top along _Next to NULL. *)
Linked(word, next, list) ==
    /\ word.ptr = IF list = <<>> THEN NULL ELSE list[1]
    /\ \A i \in DOMAIN list : next[list[i]] = IF i = Len(list) THEN NULL ELSE list[i + 1]
=============================================================================
