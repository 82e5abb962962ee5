----------------------------- MODULE AtomicStack -----------------------------
(***************************************************************************)
(* What m_IndexStack promises: a Push and a Pop that succeeds take effect  *)
(* at one instant, a Pop returns what was on top then, and every value is  *)
(* in one place: in the stack, in one call, or with the users.             *)
(***************************************************************************)
EXTENDS Sequences

CONSTANTS Values, Threads, None

VARIABLES
    stack,  \* the content, top first
    inCall, \* what a thread's call is to push, or has popped
    users   \* the values somebody has

vars == <<stack, inCall, users>>

Init == stack = <<>> /\ inCall = [t \in Threads |-> None] /\ users = Values

PushCall(t) ==
    /\ inCall[t] = None
    /\ \E v \in users : inCall' = [inCall EXCEPT ![t] = v] /\ users' = users \ {v}
    /\ UNCHANGED stack

Push(t) ==
    /\ inCall[t] # None
    /\ stack' = <<inCall[t]>> \o stack
    /\ inCall' = [inCall EXCEPT ![t] = None]
    /\ UNCHANGED users

Pop(t) ==
    /\ stack # <<>> /\ inCall[t] = None
    /\ inCall' = [inCall EXCEPT ![t] = Head(stack)]
    /\ stack' = Tail(stack)
    /\ UNCHANGED users

PopReturn(t) ==
    /\ inCall[t] # None
    /\ users' = users \cup {inCall[t]}
    /\ inCall' = [inCall EXCEPT ![t] = None]
    /\ UNCHANGED stack

Next == \E t \in Threads : PushCall(t) \/ Push(t) \/ Pop(t) \/ PopReturn(t)

Spec == Init /\ [][Next]_vars
=============================================================================
