----------------------------- MODULE NetServerInv -----------------------------
(***************************************************************************)
(* The inductive invariant behind the safety properties of NetServer, in   *)
(* named parts. None of the properties is inductive alone: that a count of *)
(* zero means that nobody uses the slot (RefCount) rests on who may own    *)
(* its OVERLAPPEDs and its gather array, these rest on a slot not being    *)
(* released in use (Lifetime), and that rests on RefCount again.           *)
(***************************************************************************)
EXTENDS NetServer

(* The steps of a thread by what it is doing: entering AcquireSession, *)
AcqPlaces == {"acq_inc", "acq_flag", "acq_id"}

(* handling a completion, *)
IOPlaces == {"recv", "sent", "eof", "final", "rp_inc", "rp_cancel", "rp_issue", "rp_fail"}

(* having a released slot in its hands, *)
ReleasePlaces == {"rel_packets", "rel_clear", "rel_push"}

(* in AcceptUser, before and after the slot is an open session, *)
OpenPlaces == {"acc_id", "acc_flag"}
AcceptPlaces == {"acc_used", "acc_join", "acc_recv", "acc_fail"}

(* between a completed receive and the next WSARecv, *)
RecvPlaces == {"recv", "rp_inc", "rp_cancel", "rp_issue"}

(* and owning the gather array. *)
SendPlaces == {"post_count", "post_unflag", "post_inc", "post_deq", "post_cancel", "post_send", "sent"}

(* A slot that no session has used yet. *)
Virgin(s) == id[s][2] = 0

(* Which thread can be where, with which locals. *)
Control ==
    /\ \A t \in Threads :
        /\ pc[t] = "idle" => ~io[t]
        /\ pc[t] \in IOPlaces => io[t]
        /\ io[t] => t \in Workers
        /\ pc[t] \in OpenPlaces \cup AcceptPlaces => t = Acceptor
        /\ pc[t] = "mon_id" => t = Monitor
        /\ op[t] = "enq" => t = Updater
        /\ pc[t] = "enq" => t = Updater
        /\ nxt[t] = "pqcs" => t = Updater
        /\ nxt[t] = "drop" => pc[t] = "drop"
        /\ pc[t] = "pqcs" => nxt[t] = "pqcs"
    /\ pc[Acceptor] = "acc_id" => serial < MaxSerial

(* Every ID a thread, a packet or the content works with has been handed out, *)
(* so that none of them can be the ID of a slot that was never used.          *)
Issued ==
    /\ \A s \in Slots :
        /\ id[s][1] = s
        /\ Virgin(s) => ~used[s] /\ recvIO[s] = "prepaid" /\ sendIO[s] = "none"
    /\ \A t \in Threads :
        /\ pc[t] \in AcqPlaces \cup UsePlaces => arg[t][2] > 0
        /\ nxt[t] = "pqcs" => arg[t][2] > 0
        /\ pc[t] = "mon_id" => ~Virgin(cur[t])
        /\ io[t] => ~Virgin(cur[t])
    /\ pc[Acceptor] \in {"acc_flag"} \cup AcceptPlaces => ~Virgin(cur[Acceptor])
    /\ \A i \in Ids : posts[i] > 0 => i[2] > 0
    /\ \A i \in clients \cup todo : i[2] > 0

(* The same of the jobs; the content does not acquire the session of a leave. *)
IssuedJob == {j \in Job : j.type = "leave" \/ j.id[2] > 0}
IssuedJobs == jobs \in Seq(IssuedJob)

(* A slot in the hands of a releaser or of the accept thread is in no other's, *)
(* and the receive on it is in the state that belongs to the place.           *)
Ownership ==
    /\ \A t \in Threads : pc[t] \in ReleasePlaces =>
        /\ released[cur[t]]
        /\ cur[t] \notin freeIdx
        /\ ~Opening(cur[t])
        /\ \A u \in Threads : pc[u] \in ReleasePlaces /\ cur[u] = cur[t] => u = t
        /\ recvIO[cur[t]] = IF pc[t] = "rel_push" THEN "prepaid" ELSE "none"
    /\ pc[Acceptor] \in OpenPlaces \cup AcceptPlaces =>
        /\ cur[Acceptor] \notin freeIdx
        /\ recvIO[cur[Acceptor]] = "prepaid"
    /\ pc[Acceptor] = "acc_id" => released[cur[Acceptor]] \/ Virgin(cur[Acceptor])
    /\ \A s \in freeIdx : (released[s] \/ Virgin(s)) /\ recvIO[s] = "prepaid"

(* A slot that is not an open session is in somebody's hands. *)
Owned == \A s \in Slots : released[s] \/ Virgin(s) =>
    \/ Opening(s)
    \/ s \in freeIdx
    \/ \E t \in Threads : pc[t] \in ReleasePlaces /\ cur[t] = s

(* One worker at most is between a receive and the next one on a slot. *)
RecvPhase == \A t \in Threads : pc[t] \in RecvPlaces =>
    /\ recvIO[cur[t]] = "none"
    /\ \A u \in Threads : pc[u] \in RecvPlaces /\ cur[u] = cur[t] => u = t

(* One thread at most owns the gather array, when no send is posted, and while *)
(* there is an owner or a send _SendFlag is up.                               *)
SendPhase ==
    /\ \A t \in Threads : pc[t] \in SendPlaces =>
        /\ sendFlag[cur[t]] /\ sendIO[cur[t]] = "none"
        /\ \A u \in Threads : pc[u] \in SendPlaces /\ cur[u] = cur[t] => u = t
    /\ \A s \in Slots : sendIO[s] # "none" => sendFlag[s]

(* What cannot be released: a slot that is used, that has an operation posted, *)
(* that AcquireSession has seen unreleased, or that the accept thread opened.  *)
Lifetime ==
    /\ NoUseAfterRelease
    /\ NoIOAcrossRelease
    /\ \A t \in Threads : pc[t] = "acq_id" => ~released[cur[t]]
    /\ pc[Acceptor] \in AcceptPlaces => ~released[cur[Acceptor]]

(* A slot in which no session has been opened yet. Its release flag is down from *)
(* the constructor on, so that only its ID keeps AcquireSession out.            *)
Unopened(s) == Virgin(s) \/ (Opening(s) /\ ~released[s])

(* No job but a leave names one. *)
JobsKnown(queue) == \A k \in DOMAIN queue : queue[k].type # "leave" => ~Unopened(queue[k].id[1])

(* Nobody works with the ID of such a slot; the monitor may meet the new ID of a *)
(* slot that was in use before, but there the release flag is still up.         *)
Known ==
    /\ \A t \in Threads :
        /\ pc[t] \in AcqPlaces \cup UsePlaces => ~Unopened(arg[t][1])
        /\ nxt[t] = "pqcs" => ~Unopened(arg[t][1])
        /\ pc[t] = "mon_id" \/ io[t] => ~Unopened(cur[t])
    /\ \A i \in Ids : posts[i] > 0 => ~Unopened(i[1])
    /\ \A i \in clients \cup todo : ~Unopened(i[1])
    /\ JobsKnown(jobs)
    /\ \A s \in Slots : Unopened(s) => ~used[s] /\ sendIO[s] = "none"

(* The ID that is about to be opened carries the latest serial. *)
Latest == pc[Acceptor] = "acc_flag" => id[cur[Acceptor]][2] = serial

(* The clients that jobs of a type are about. *)
Of(type, queue) == {queue[k].id : k \in {j \in DOMAIN queue : queue[j].type = type}}

(* Who is in m_ClientMap or about to be, and who is about to be deleted. *)
Present == clients \cup Of("join", jobs)
Leaving == Of("leave", jobs)

(* The places of a thread that has the ID of the client whose leave it will queue. *)
LeavePlaces == {"rel_clear", "rel_push", "rel_leave"}

(* OnClientJoin was called for the session in a slot, and it is not cleared yet. *)
Joined(s) == recvIO[s] # "prepaid" \/ (pc[Acceptor] \in {"acc_recv", "acc_fail"} /\ cur[Acceptor] = s)

(* A client is present from its join to its leave, once; no ID comes back. *)
Attendance ==
    /\ \A s \in Slots : Joined(s) => id[s] \in Present \ Leaving
    /\ \A t \in Threads : pc[t] \in LeavePlaces =>
        /\ gone[t] \in Present \ Leaving
        /\ \A u \in Threads : pc[u] \in LeavePlaces /\ gone[u] = gone[t] => u = t
        /\ \A s \in Slots : Joined(s) /\ id[s] = gone[t] => pc[t] = "rel_clear"
        /\ pc[t] = "rel_clear" => gone[t] = id[cur[t]]
    /\ \A i \in Present :
        \/ i \in Leaving
        \/ Joined(i[1]) /\ id[i[1]] = i
        \/ \E t \in Threads : pc[t] \in LeavePlaces /\ gone[t] = i

(* The accept thread's new ID is nobody else's. *)
Novelty ==
    /\ \A i \in Present \cup Leaving : i[2] <= serial
    /\ \A s \in Slots : id[s][2] <= serial
    /\ \A t \in Threads : pc[t] \in LeavePlaces => gone[t][2] <= serial
    /\ pc[Acceptor] \in {"acc_flag", "acc_used", "acc_join"} =>
        /\ id[cur[Acceptor]] \notin Present \cup Leaving
        /\ \A t \in Threads : pc[t] \in LeavePlaces => gone[t] # id[cur[Acceptor]]

(* The gather array is empty when SendPost fills it, and so is all that is to be *)
(* sent when the slot is cleared; it holds a packet only while its size says so. *)
GatherEmpty ==
    /\ \A s \in Slots : (~sendFlag[s] => inflight[s] = 0) /\ (first[s] = "packet" => inflight[s] > 0)
    /\ \A t \in Threads :
        /\ pc[t] \in {"post_count", "post_unflag", "post_inc", "post_deq", "rel_clear"} => inflight[cur[t]] = 0
        /\ pc[t] \in {"post_inc", "post_deq"} => sendQ[cur[t]] > 0
        /\ pc[t] = "rel_clear" => sendQ[cur[t]] = 0

(* Behind NoStrandedPackets. What a thread still does before it posts the ID of *)
(* the packets it put into a _SendQ, and that a call begins at the slot it names. *)
Errands == \A t \in Threads :
    /\ nxt[t] = "pqcs" => pc[t] \in {"drop", "rel_cas", "pqcs"} \cup ReleasePlaces \cup {"rel_leave"}
    /\ pc[t] \in AcqPlaces => cur[t] = arg[t][1]

(* Nothing more can be sent on a slot: Disconnect, or the client has closed. *)
Dead(s) == cancel[s] \/ peer[s] # "up"

(* A flag that is up is somebody's, who will look at the queue or hand over to a *)
(* send; a send that failed leaves it up, on a slot that is dead.               *)
FlagsUsed == \A s \in Slots : sendFlag[s] =>
    \/ \E t \in Threads : pc[t] \in SendPlaces /\ cur[t] = s
    \/ sendIO[s] # "none"
    \/ Dead(s)

SendsFail == \A s \in Slots : sendIO[s] = "fail" => Dead(s)

(* A slot goes back to the stack, and becomes a session, with an empty queue. *)
Shelved ==
    /\ \A s \in freeIdx : ~sendFlag[s] /\ sendQ[s] = 0
    /\ \A t \in Threads : pc[t] = "rel_push" => ~sendFlag[cur[t]] /\ sendQ[cur[t]] = 0
    /\ pc[Acceptor] \in OpenPlaces => sendQ[cur[Acceptor]] = 0

(* NoStrandedPackets, of a slot. *)
Looked(s) == Open(s) /\ sendQ[s] > 0 =>
    \/ posts[id[s]] > 0 \/ (\E t \in Threads : WillLook(t, s)) \/ sendIO[s] # "none" \/ Dead(s)

Awake == Errands /\ FlagsUsed /\ SendsFail /\ Shelved /\ \A s \in Slots : Looked(s)

(* Behind NoCrash. *)
(* Clients that say that they leave, wait until that is processed, and do nothing *)
(* the server refuses, while nobody is timed out.                                *)
PoliteClients ==
    Manner = "polite" /\ Kinds \subseteq {"chat", "bye"} /\ Closings \subseteq {"reset"} /\ OptionOn = FALSE

CalmJobs(queue) == \A k \in DOMAIN queue : queue[k].type # "timeout" /\ queue[k].kind # "bad"

(* So nobody is disconnected. *)
Calm ==
    /\ \A t \in Threads :
        /\ pc[t] \notin {"cancel", "expire", "mon_id", "eof"}
        /\ pc[t] \in AcqPlaces => op[t] \notin {"cancel", "expire"}
    /\ \A s \in Slots : ~cancel[s] /\ recvIO[s] # "eof" /\ peer[s] # "fin"
    /\ CalmJobs(jobs)

(* A client closes only where it has said so, until its slot is given back; *)
Announced == \A s \in Slots : peer[s] # "up" =>
    \/ reserve[s] \/ s \in freeIdx
    \/ \E t \in Threads : pc[t] = "rel_push" /\ cur[t] = s

(* a session whose client is there has a receive posted or handled; *)
Served == \A s \in Slots : peer[s] = "up" =>
    \/ recvIO[s] \in {"prepaid", "pending", "data"}
    \/ \E t \in Threads : pc[t] \in RecvPlaces /\ cur[t] = s

(* a receive fails only where the client has closed; *)
Excused ==
    /\ \A s \in Slots : recvIO[s] = "fail" => peer[s] # "up"
    /\ pc[Acceptor] = "acc_fail" => peer[cur[Acceptor]] # "up"

(* so a session that is released had been announced. *)
Told == \A t \in Threads : pc[t] = "rel_packets" => reserve[cur[t]]

Farewell == Announced /\ Served /\ Excused /\ Told

Polite == Calm /\ Farewell /\ crash \notin {"reserve", "eof"}

(* The invariant: every state the server reaches satisfies all of these, and  *)
(* every step from a state that does leads to one that does.                  *)
IInv ==
    /\ TypeOK /\ Control /\ Issued /\ IssuedJobs
    /\ Ownership /\ Owned /\ RecvPhase /\ SendPhase /\ Lifetime
    /\ Known /\ Latest
    /\ JobOrder /\ Attendance /\ Novelty /\ GatherEmpty
    /\ RefCount
=============================================================================
