------------------------------ MODULE LockFreeQ ------------------------------
(***************************************************************************)
(* LockFreeQ.h (ENQ_MODE 2): _SendQ of a session and m_ThreadQ. A linked   *)
(* list that begins with a dummy node. The _Next of the last node is not   *)
(* NULL but a number of its own, at or above KERNEL_ADDRESS, that the rear *)
(* word holds beside the pointer: linking a node exchanges that number, so *)
(* that it fails on a node that is not the last one any more, or again.    *)
(*                                                                         *)
(* One action is one access to shared memory. Nodes come from a FreeList,  *)
(* whose own steps are in module FreeList: here a stack, on top of what the *)
(* heap will give when the pool is empty.                                  *)
(***************************************************************************)
EXTENDS Integers, Sequences, FiniteSets

CONSTANTS
    Threads,
    Heap,        \* node addresses, in the order in which the heap gives them
    MaxQCount,   \* m_MaxQCount
    MaxItems,    \* bound: items enqueued
    Producers,   \* who may call EnQ
    Crews,       \* who may call DeQ: one of these sets of threads
    Stopped      \* threads that may stop anywhere for ever

Nodes == {Heap[i] : i \in DOMAIN Heap}

(* Numbers are counted from KERNEL_ADDRESS; no node lies there. *)
ASSUME AddressAssumption ==
    /\ Heap \in Seq(Nodes) /\ Heap # <<>> /\ Nodes \cap Nat = {}
    /\ \A i, j \in DOMAIN Heap : Heap[i] = Heap[j] => i = j

ASSUME ThreadAssumption == IsFiniteSet(Threads)

ASSUME BoundAssumption == MaxQCount \in Nat /\ MaxItems \in Nat

ASSUME RoleAssumption == Producers \subseteq Threads /\ Crews \subseteq SUBSET Threads

VARIABLES
    front, rear,  \* *m_FrontCheck and *m_RearCheck: _NodePtr and _ID
    next,         \* Node::_Next
    data,         \* Node::_Data
    count,        \* m_Count
    rearID,       \* m_RearID
    free,         \* the nodes in m_MemoryPool, the next one first
    chain,        \* history: the nodes linked and not dequeued, dummy first
    items,        \* items enqueued so far, their numbers are the items
    crash,        \* the Crash() that was reached: "full" or "self", or "no"
    consumers,    \* who calls DeQ, one of Crews
    (* thread locals *)
    pc,
    tmp,          \* tempRear or tempFront
    chg,          \* changeValue
    node,         \* newNode
    val           \* the data to enqueue, or tempData

memory == <<front, rear, next, data, count, rearID, free, chain>>
locals == <<tmp, chg, node, val>>
rest == <<items, crash, consumers>>
vars == <<memory, rest, pc, locals>>

None == 0
NoPair == [ptr |-> None, id |-> 0]

IsNumber(x) == x \notin Nodes

Goto(t, place) == pc' = [pc EXCEPT ![t] = place]

(* Thread t is at place, in a process that lives. *)
At(t, place) == crash = "no" /\ pc[t] = place

(* A call is over, and with it its locals. *)
Leave(t) ==
    /\ Goto(t, "idle")
    /\ tmp' = [tmp EXCEPT ![t] = NoPair]
    /\ chg' = [chg EXCEPT ![t] = NoPair]
    /\ node' = [node EXCEPT ![t] = None]
    /\ val' = [val EXCEPT ![t] = None]

---------------------------------------------------------------------------
(* EnQ *)

(* The pool takes new nodes from the heap as needed; in the model no call      *)
(* begins that would need more than Heap.                                      *)
EnqCall(t) ==
    /\ At(t, "idle") /\ t \in Producers /\ items < MaxItems
    /\ Len(free) > Cardinality({u \in Threads : pc[u] = "enq_alloc"})
    /\ \/ /\ MaxQCount < count
          /\ crash' = "full"
          /\ UNCHANGED <<items, val, pc>>
       \/ /\ MaxQCount >= count
          /\ items' = items + 1
          /\ val' = [val EXCEPT ![t] = items + 1]
          /\ Goto(t, "enq_alloc")
          /\ UNCHANGED crash
    /\ UNCHANGED <<memory, consumers, tmp, chg, node>>

(* Mutant of EnqAlloc: the last node's _Next is NULL, as in ENQ_MODE 1. *)
EnqAllocNull(t) ==
    LET n == Head(free)
    IN  /\ At(t, "enq_alloc")
        /\ free' = Tail(free)
        /\ node' = [node EXCEPT ![t] = n]
        /\ data' = [data EXCEPT ![n] = val[t]]
        /\ chg' = [chg EXCEPT ![t].id = 0]
        /\ Goto(t, "enq_next")
        /\ UNCHANGED <<front, rear, next, count, rearID, chain, rest, tmp, val>>

(* The new node and its number; nobody else has either. *)
EnqAlloc(t) ==
    LET n == Head(free)
    IN  /\ At(t, "enq_alloc")
        /\ free' = Tail(free)
        /\ node' = [node EXCEPT ![t] = n]
        /\ data' = [data EXCEPT ![n] = val[t]]
        /\ rearID' = rearID + 1
        /\ chg' = [chg EXCEPT ![t].id = rearID + 1]
        /\ Goto(t, "enq_next")
        /\ UNCHANGED <<front, rear, next, count, chain, rest, tmp, val>>

EnqNext(t) ==
    /\ At(t, "enq_next")
    /\ next' = [next EXCEPT ![node[t]] = chg[t].id]
    /\ Goto(t, "enq_ptr")
    /\ UNCHANGED <<front, rear, data, count, rearID, free, chain, rest, locals>>

EnqPtr(t) ==
    /\ At(t, "enq_ptr")
    /\ tmp' = [tmp EXCEPT ![t].ptr = rear.ptr]
    /\ Goto(t, "enq_id")
    /\ UNCHANGED <<memory, rest, chg, node, val>>

(* With the check that the rear is not the node about to be linked. *)
EnqId(t) ==
    /\ At(t, "enq_id")
    /\ tmp' = [tmp EXCEPT ![t].id = rear.id]
    /\ crash' = IF tmp[t].ptr = node[t] THEN "self" ELSE "no"
    /\ Goto(t, "enq_link")
    /\ UNCHANGED <<memory, items, consumers, chg, node, val>>

(* Mutant of EnqLink: it waits for the other thread to move the rear. *)
EnqLinkNoHelp(t) ==
    LET p == tmp[t].ptr
    IN  /\ At(t, "enq_link")
        /\ \/ /\ next[p] = tmp[t].id
              /\ next' = [next EXCEPT ![p] = node[t]]
              /\ chain' = Append(chain, node[t])
              /\ Goto(t, "enq_number")
           \/ /\ next[p] # tmp[t].id
              /\ Goto(t, "enq_ptr")
              /\ UNCHANGED <<next, chain>>
        /\ UNCHANGED <<front, rear, data, count, rearID, free, rest, locals>>

(* Commit 1. *)
EnqLink(t) ==
    LET p == tmp[t].ptr
    IN  /\ At(t, "enq_link")
        /\ \/ /\ next[p] = tmp[t].id
              /\ next' = [next EXCEPT ![p] = node[t]]
              /\ chain' = Append(chain, node[t])
              /\ Goto(t, "enq_number")
           \/ /\ next[p] # tmp[t].id
              /\ Goto(t, "help_next")
              /\ UNCHANGED <<next, chain>>
        /\ UNCHANGED <<front, rear, data, count, rearID, free, rest, locals>>

(* Another node is linked there: move the rear for its thread, and try again. *)
HelpNext(t) ==
    /\ At(t, "help_next")
    /\ chg' = [chg EXCEPT ![t].ptr = next[tmp[t].ptr]]
    /\ Goto(t, IF IsNumber(next[tmp[t].ptr]) THEN "enq_ptr" ELSE "help_id")
    /\ UNCHANGED <<memory, rest, tmp, node, val>>

HelpId(t) ==
    /\ At(t, "help_id")
    /\ chg' = [chg EXCEPT ![t].id = next[chg[t].ptr]]
    /\ Goto(t, "help_cas")
    /\ UNCHANGED <<memory, rest, tmp, node, val>>

(* InterlockedCompareExchange128 on *m_RearCheck. *)
MoveRear(t, then) ==
    /\ \/ rear = tmp[t] /\ rear' = chg[t] /\ UNCHANGED tmp
       \/ rear # tmp[t] /\ tmp' = [tmp EXCEPT ![t] = rear] /\ UNCHANGED rear
    /\ Goto(t, then)
    /\ UNCHANGED <<front, next, data, count, rearID, free, chain, rest, chg, node, val>>

HelpCas(t) == At(t, "help_cas") /\ MoveRear(t, "enq_ptr")

EnqNumber(t) ==
    /\ At(t, "enq_number")
    /\ chg' = [chg EXCEPT ![t] = [ptr |-> node[t], id |-> next[node[t]]]]
    /\ Goto(t, "enq_cas")
    /\ UNCHANGED <<memory, rest, tmp, node, val>>

EnqCas(t) == At(t, "enq_cas") /\ MoveRear(t, "enq_count")

EnqCount(t) ==
    /\ At(t, "enq_count")
    /\ count' = count + 1
    /\ Leave(t)
    /\ UNCHANGED <<front, rear, next, data, rearID, free, chain, rest>>

EnQ(t) ==
    \/ EnqCall(t) \/ EnqAlloc(t) \/ EnqNext(t)
    \/ EnqPtr(t) \/ EnqId(t) \/ EnqLink(t) \/ EnqNumber(t) \/ EnqCas(t) \/ EnqCount(t)
    \/ HelpNext(t) \/ HelpId(t) \/ HelpCas(t)

---------------------------------------------------------------------------
(* DeQ: the count is taken first, and tells whether there is something. *)

(* Mutant of DeqDec: the test is off by one. *)
DeqDecLate(t) ==
    /\ At(t, "idle") /\ t \in consumers
    /\ count' = count - 1
    /\ Goto(t, IF count < 0 THEN "deq_undo" ELSE "deq_ptr")
    /\ UNCHANGED <<front, rear, next, data, rearID, free, chain, rest, locals>>

DeqDec(t) ==
    /\ At(t, "idle") /\ t \in consumers
    /\ count' = count - 1
    /\ Goto(t, IF count - 1 < 0 THEN "deq_undo" ELSE "deq_ptr")
    /\ UNCHANGED <<front, rear, next, data, rearID, free, chain, rest, locals>>

(* Mutant of DeqUndo: the count is not given back. *)
DeqUndoNot(t) ==
    /\ At(t, "deq_undo")
    /\ Leave(t)
    /\ UNCHANGED <<memory, rest>>

DeqUndo(t) ==
    /\ At(t, "deq_undo")
    /\ count' = count + 1
    /\ Leave(t)
    /\ UNCHANGED <<front, rear, next, data, rearID, free, chain, rest>>

DeqPtr(t) ==
    /\ At(t, "deq_ptr")
    /\ tmp' = [tmp EXCEPT ![t].ptr = front.ptr]
    /\ Goto(t, "deq_id")
    /\ UNCHANGED <<memory, rest, chg, node, val>>

DeqId(t) ==
    /\ At(t, "deq_id")
    /\ tmp' = [tmp EXCEPT ![t].id = front.id]
    /\ Goto(t, "deq_next")
    /\ UNCHANGED <<memory, rest, chg, node, val>>

(* Where the next is a number the code reads it again, until it is a node. *)
DeqNext(t) ==
    /\ At(t, "deq_next")
    /\ ~IsNumber(next[tmp[t].ptr])
    /\ chg' = [chg EXCEPT ![t] = [ptr |-> next[tmp[t].ptr], id |-> tmp[t].id + 1]]
    /\ Goto(t, "deq_data")
    /\ UNCHANGED <<memory, rest, tmp, node, val>>

(* Mutant of DeqData: the data of the dummy that goes, not of the new one. *)
DeqDataOfFront(t) ==
    /\ At(t, "deq_data")
    /\ val' = [val EXCEPT ![t] = data[tmp[t].ptr]]
    /\ Goto(t, "deq_cas")
    /\ UNCHANGED <<memory, rest, tmp, chg, node>>

(* The data is read before the exchange, after it the node can be gone. *)
DeqData(t) ==
    /\ At(t, "deq_data")
    /\ val' = [val EXCEPT ![t] = data[chg[t].ptr]]
    /\ Goto(t, "deq_cas")
    /\ UNCHANGED <<memory, rest, tmp, chg, node>>

(* Mutant of DeqCas: the pointer is compared without its number. *)
DeqCasAba(t) ==
    /\ At(t, "deq_cas")
    /\ \/ /\ front.ptr = tmp[t].ptr
          /\ front' = chg[t]
          /\ chain' = Tail(chain)
          /\ Goto(t, "deq_free")
          /\ UNCHANGED tmp
       \/ /\ front.ptr # tmp[t].ptr
          /\ tmp' = [tmp EXCEPT ![t] = front]
          /\ Goto(t, "deq_next")
          /\ UNCHANGED <<front, chain>>
    /\ UNCHANGED <<rear, next, data, count, rearID, free, rest, chg, node, val>>

DeqCas(t) ==
    /\ At(t, "deq_cas")
    /\ \/ /\ front = tmp[t]
          /\ front' = chg[t]
          /\ chain' = Tail(chain)
          /\ Goto(t, "deq_free")
          /\ UNCHANGED tmp
       \/ /\ front # tmp[t]
          /\ tmp' = [tmp EXCEPT ![t] = front]
          /\ Goto(t, "deq_next")
          /\ UNCHANGED <<front, chain>>
    /\ UNCHANGED <<rear, next, data, count, rearID, free, rest, chg, node, val>>

DeqFree(t) ==
    /\ At(t, "deq_free")
    /\ free' = <<tmp[t].ptr>> \o free
    /\ Leave(t)
    /\ UNCHANGED <<front, rear, next, data, count, rearID, chain, rest>>

DeQ(t) ==
    \/ DeqDec(t) \/ DeqUndo(t) \/ DeqPtr(t) \/ DeqId(t)
    \/ DeqNext(t) \/ DeqData(t) \/ DeqCas(t) \/ DeqFree(t)

---------------------------------------------------------------------------
Init ==
    /\ front = [ptr |-> Heap[1], id |-> 0]
    /\ rear = [ptr |-> Heap[1], id |-> 0]
    /\ next = [n \in Nodes |-> 0]
    /\ free = Tail(Heap)
    /\ chain = <<Heap[1]>>
    /\ data = [n \in Nodes |-> None]
    /\ count = 0
    /\ rearID = 0
    /\ items = 0
    /\ crash = "no"
    /\ consumers \in Crews
    /\ pc = [t \in Threads |-> "idle"]
    /\ tmp = [t \in Threads |-> NoPair]
    /\ chg = [t \in Threads |-> NoPair]
    /\ node = [t \in Threads |-> None]
    /\ val = [t \in Threads |-> None]

Step(t) == EnQ(t) \/ DeQ(t)

Next == \E t \in Threads : Step(t)

Spec == Init /\ [][Next]_vars

(* The scheduler runs every thread that is inside a call, but for those that *)
(* stop. Nobody has to call.                                                  *)
InCall(t) == pc[t] # "idle" /\ Step(t)

FairSpec == Spec /\ \A t \in Threads \ Stopped : WF_vars(InCall(t))

---------------------------------------------------------------------------
(* Safety *)

(* The list in memory, from the front along _Next, is what was linked and not *)
(* dequeued; it ends in the number of its last node. The rear is that node    *)
(* with its number, or the one before it while a thread is still to move it.  *)
ChainIntact ==
    LET last == Len(chain)
    IN  /\ front.ptr = chain[1]
        /\ \A i \in 1..(last - 1) : next[chain[i]] = chain[i + 1]
        /\ IsNumber(next[chain[last]])
        /\ \/ rear = [ptr |-> chain[last], id |-> next[chain[last]]]
           \/ last > 1 /\ rear.ptr = chain[last - 1]

(* The rear is never behind the front, so that it is never a node that was    *)
(* freed and is about to be linked again: the Crash() of EnQ is not reached.  *)
NoSelfLink == crash # "self"

(* A DeQ returns false only when every item in the list is spoken for: by an  *)
(* EnQ that has not counted it yet, by a DeQ that will take it, or through    *)
(* the count another failing DeQ has not given back yet. With one consumer,   *)
(* as both queues of the server have, no finished EnQ is ever overlooked.     *)
DeqIsHonest == [][\A t \in Threads : pc[t] = "idle" /\ pc'[t] = "deq_undo" =>
    Len(chain) - 1 <= Cardinality({u \in Threads \ {t} :
        pc[u] \in {"enq_number", "enq_cas", "enq_count", "deq_undo",
                   "deq_ptr", "deq_id", "deq_next", "deq_data", "deq_cas"}})]_vars

(* The queue takes effect at Commit 1 and at DeQ's exchange, as an atomic     *)
(* first-in first-out queue.                                                  *)
Queue == INSTANCE AtomicQueue WITH
    Values <- 1..MaxItems,
    queue <- [i \in 1..(Len(chain) - 1) |-> data[chain[i + 1]]],
    got <- [t \in Threads |-> IF pc[t] = "deq_free" THEN val[t] ELSE None]
QueueSpec == Queue!Spec

---------------------------------------------------------------------------
(* Liveness *)

DeqPlaces == {"deq_undo", "deq_ptr", "deq_id", "deq_next", "deq_data", "deq_cas", "deq_free"}

Returns(t) == pc[t] = "idle" \/ crash # "no"

(* Wherever some thread stops, the calls of the others return: every EnQ, and *)
(* every DeQ of a queue that has one consumer, as the queues of the server    *)
(* have one at a time.                                                        *)
CallsReturn == \A t \in Threads \ Stopped :
    (pc[t] \in DeqPlaces => consumers = {t}) ~> Returns(t)
=============================================================================
