--------------------------- MODULE MessageStream ---------------------------
(***************************************************************************)
(* What the receive path promises: the messages of a session reach the       *)
(* content whole, each once, in the order they were sent; the server refuses *)
(* a session only for a malformed message, when all before it were delivered. *)
(***************************************************************************)
EXTENDS Sequences, Naturals

CONSTANT Conversations  \* records: the messages, and whether a malformed one follows

VARIABLES conv, delivered, state

vars == <<conv, delivered, state>>

Init == conv \in Conversations /\ delivered = <<>> /\ state = "closed"

Open ==
    /\ state = "closed"
    /\ state' = "open"
    /\ conv' \in Conversations
    /\ delivered' = <<>>

Deliver ==
    /\ state = "open" /\ Len(delivered) < Len(conv.msgs)
    /\ delivered' = Append(delivered, conv.msgs[Len(delivered) + 1])
    /\ UNCHANGED <<conv, state>>

Refuse ==
    /\ state = "open" /\ conv.broken /\ Len(delivered) = Len(conv.msgs)
    /\ state' = "refused"
    /\ UNCHANGED <<conv, delivered>>

\* the connection is lost, or the server has disconnected for another reason
Close ==
    /\ state \in {"open", "refused"}
    /\ state' = "closed"
    /\ UNCHANGED <<conv, delivered>>

Next == Open \/ Deliver \/ Refuse \/ Close

Spec == Init /\ [][Next]_vars
=============================================================================
