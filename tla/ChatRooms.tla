------------------------------ MODULE ChatRooms ------------------------------
(***************************************************************************)
(* What the content promises, without lists, packets or threads: a client  *)
(* is in the sector it moved to last; what it says is queued once to each  *)
(* client that is then in its sector or in one next to it, itself among    *)
(* them; an answer is queued to its client alone; and nothing else is done *)
(* for the clients until everybody who is owed an answer has been given    *)
(* it, or has gone.                                                        *)
(***************************************************************************)
EXTENDS Integers

CONSTANTS Sessions, Columns, Rows,
    Nowhere   \* no sector

Sectors == (0..(Columns - 1)) \X (0..(Rows - 1))

VARIABLES
    where,  \* the sector of each client there is
    owed,   \* to whom the answer in hand has not been queued yet
    mail,   \* how many answers are queued to a session
    gone,   \* the sessions that are being released or have been
    down    \* the server has crashed

rooms == <<where, owed, mail, gone, down>>

Init ==
    /\ where = [s \in {} |-> Nowhere]
    /\ owed = {}
    /\ mail = [s \in Sessions |-> 0]
    /\ gone = {}
    /\ down = FALSE

Near(c, d) == c[1] - d[1] \in -1..1 /\ c[2] - d[2] \in -1..1

Audience(c) == {r \in DOMAIN where : where[r] \in Sectors /\ Near(where[r], c)}

(* The server runs, and nobody waits for an answer. *)
Free == ~down /\ owed = {}

Join(s) ==
    /\ Free /\ s \notin DOMAIN where
    /\ where' = [r \in DOMAIN where \cup {s} |-> IF r = s THEN Nowhere ELSE where[r]]
    /\ UNCHANGED <<owed, mail, gone, down>>

Leave(s) ==
    /\ Free /\ s \in DOMAIN where
    /\ where' = [r \in DOMAIN where \ {s} |-> where[r]]
    /\ UNCHANGED <<owed, mail, gone, down>>

Login(s) ==
    /\ Free /\ s \in DOMAIN where
    /\ owed' = {s}
    /\ UNCHANGED <<where, mail, gone, down>>

Move(s, c) ==
    /\ Free /\ s \in DOMAIN where
    /\ where' = [where EXCEPT ![s] = c]
    /\ owed' = {s}
    /\ UNCHANGED <<mail, gone, down>>

Say(s) ==
    /\ Free /\ s \in DOMAIN where /\ where[s] \in Sectors
    /\ owed' = Audience(where[s])
    /\ UNCHANGED <<where, mail, gone, down>>

Give(s) ==
    /\ ~down /\ s \in owed
    /\ owed' = owed \ {s}
    /\ mail' = IF s \in gone THEN mail ELSE [mail EXCEPT ![s] = @ + 1]
    /\ UNCHANGED <<where, gone, down>>

(* An answer was sent, or dropped with the session. *)
Sent(s) ==
    /\ ~down /\ mail[s] > 0
    /\ mail' = [mail EXCEPT ![s] = @ - 1]
    /\ UNCHANGED <<where, owed, gone, down>>

Go(s) ==
    /\ ~down
    /\ gone' = gone \cup {s}
    /\ UNCHANGED <<where, owed, mail, down>>

(* Crash(), at some place of a step. *)
Crash ==
    /\ ~down /\ down'
    /\ owed' \subseteq owed
    /\ \A s \in Sessions : mail'[s] <= mail[s]
    /\ UNCHANGED <<where, gone>>

Next ==
    \/ \E s \in Sessions :
        \/ Join(s) \/ Leave(s) \/ Login(s) \/ Say(s)
        \/ \E c \in Sectors : Move(s, c)
        \/ Give(s) \/ Sent(s) \/ Go(s)
    \/ Crash

Spec == Init /\ [][Next]_rooms
=============================================================================
