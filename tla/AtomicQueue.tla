----------------------------- MODULE AtomicQueue -----------------------------
(***************************************************************************)
(* What LockFreeQ promises: every EnQ and every DeQ that succeeds takes    *)
(* effect at one instant, first in, first out.                             *)
(***************************************************************************)
EXTENDS Sequences

CONSTANTS Values, Threads, None

VARIABLES
    queue,  \* the content
    got     \* what a thread has dequeued and not returned yet

Init == queue = <<>> /\ got = [t \in Threads |-> None]

EnQ(v) == queue' = Append(queue, v) /\ UNCHANGED got

DeQ(t) ==
    /\ queue # <<>> /\ got[t] = None
    /\ got' = [got EXCEPT ![t] = Head(queue)]
    /\ queue' = Tail(queue)

Return(t) == got' = [got EXCEPT ![t] = None] /\ UNCHANGED queue

Next == (\E v \in Values : EnQ(v)) \/ (\E t \in Threads : DeQ(t) \/ Return(t))

Spec == Init /\ [][Next]_<<queue, got>>
=============================================================================
