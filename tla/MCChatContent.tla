--------------------------- MODULE MCChatContent ---------------------------
(* Instances of ChatContent for TLC. *)
EXTENDS ChatContent

(* Of three sectors in a row the first and the last hear the middle one, but  *)
(* not each other. A client that has not logged in has account 0, so that     *)
(* what it sends after the login is refused.                                  *)
Moves == [type : {"move"}, account : {0}, to : {<<0, 0>>, <<1, 0>>, <<2, 0>>}]

Chats == [type : {"chat"}, account : {0}]

Logins == [type : {"login"}, account : {7}]

Beats == [type : {"heartbeat"}]

AllMessages == Moves \cup Chats \cup Logins \cup Beats

FewMessages == [type : {"move"}, account : {0}, to : {<<0, 0>>}] \cup Logins

(* Bound: of MaxRecv messages the last is a chat, which meets whatever the    *)
(* others have led to.                                                        *)
LastIsChat ==
    received < MaxRecv /\ received' = MaxRecv =>
        \E w \in Workers :
            at[w] = "idle" /\ at'[w] # "idle" /\ body'[hand'[w].packet] \in Chats

Symmetry == Permutations(Sessions) \cup Permutations(Workers)
=============================================================================
