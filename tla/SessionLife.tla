----------------------------- MODULE SessionLife -----------------------------
(***************************************************************************)
(* What the session table promises, without counts, flags or threads: a    *)
(* session ID is given out once, whoever works on a session began while it *)
(* was open, and a session is closed when nobody works on it any more.     *)
(***************************************************************************)
EXTENDS Integers

CONSTANTS
    Ids,      \* session IDs, a slot and a serial
    Parties   \* who can work on a session: threads, the kernel's operations

VARIABLES
    open,     \* the sessions that exist
    last,     \* the serial of the latest one
    uses      \* who works on which: a set of <<party, ID>>

life == <<open, last, uses>>

TypeOK == open \subseteq Ids /\ last \in Nat /\ uses \subseteq Parties \X Ids

Init == open = {} /\ last = 0 /\ uses = {}

OpenSession(i) ==
    /\ i[2] = last + 1
    /\ open' = open \cup {i}
    /\ last' = i[2]
    /\ \E p \in Parties : uses' = uses \cup {<<p, i>>}

(* Somebody begins, ends or hands over its work. *)
Use ==
    /\ \A u \in uses' \ uses : u[1] \in Parties /\ u[2] \in open
    /\ UNCHANGED <<open, last>>

CloseSession(i) ==
    /\ i \in open
    /\ \A u \in uses : u[2] # i
    /\ open' = open \ {i}
    /\ UNCHANGED <<last, uses>>

Next == Use \/ \E i \in Ids : OpenSession(i) \/ CloseSession(i)

Spec == Init /\ [][Next]_life
=============================================================================
