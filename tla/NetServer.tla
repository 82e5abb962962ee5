------------------------------ MODULE NetServer ------------------------------
(***************************************************************************)
(* The threads of the chatting server around the session table: AcceptUser *)
(* on the accept thread, the IOCP worker loop, the monitor thread's scan   *)
(* and the update thread that runs the content one job at a time; with the *)
(* kernel's side of an overlapped operation and the clients.               *)
(***************************************************************************)
EXTENDS NetSession

CONSTANTS
    Kinds,         \* what clients send: "chat", "bye" (the message "="),
                   \* "bad" (refused by the content), "garbage" (by the framing)
    Manner,        \* when a client closes: "rude" at any time, "hasty" once it
                   \* has sent "=", "polite" once that has been processed
    Closings,      \* how it closes: "reset" (RST) or "fin"
    OptionOn,      \* m_TimeOutOption._OptionOn
    HeapFlags,     \* the values an uninitialised _SendFlag can have,
    HeapPackets,   \* and an uninitialised _DeQPacketArray[0]
    AttachMayFail, \* CreateIoCompletionPort may fail
    MaxSent,       \* bound: messages of a client in one session
    MaxJobs        \* bound: a time-out is reported only to a shorter m_ThreadQ

ASSUME ClientAssumption ==
    /\ Kinds \subseteq {"chat", "bye", "bad", "garbage"}
    /\ Manner \in {"rude", "hasty", "polite"}
    /\ Closings \subseteq {"reset", "fin"}
    /\ HeapFlags \subseteq BOOLEAN
    /\ HeapPackets \subseteq {"null", "heap"}
    /\ {OptionOn, AttachMayFail} \subseteq BOOLEAN
    /\ {MaxSent, MaxJobs} \subseteq Nat

VARIABLES
    clients,    \* m_ClientMap
    todo,       \* the recipients the current message still goes to
    peer,       \* the client's end of the connection of a slot
    sent,       \* messages it has sent in this session
    said        \* one of them was "="

upd == <<clients, todo>>
net == <<peer, sent, said>>
vars == <<ref, ctl, snd, recvIO, srv, jobs, crash, pc, loc, upd, net>>

---------------------------------------------------------------------------
(* AcceptThread *)

(* Mutant: the release flag is cleared before the new ID is stored. *)
AccPopOpen(s) ==
    /\ At(Acceptor, "idle") /\ s \in freeIdx /\ serial < MaxSerial
    /\ freeIdx' = freeIdx \ {s}
    /\ released' = [released EXCEPT ![s] = FALSE]
    /\ cur' = [cur EXCEPT ![Acceptor] = s]
    /\ peer' = [peer EXCEPT ![s] = "up"]
    /\ Goto(Acceptor, "acc_id")
    /\ UNCHANGED <<ioCount, id, ctl, snd, recvIO, serial, posts, jobs, nxt, op, arg, io, gone, upd, sent, said>>

(* accept() returned a client; AcceptUser, up to the successful Pop that ends  *)
(* its spin on m_IndexStack.                                                   *)
AccPop(s) ==
    /\ At(Acceptor, "idle")
    /\ s \in freeIdx
    /\ serial < MaxSerial
    /\ freeIdx' = freeIdx \ {s}
    /\ cur' = [cur EXCEPT ![Acceptor] = s]
    /\ peer' = [peer EXCEPT ![s] = "up"]
    /\ sent' = [sent EXCEPT ![s] = 0]
    /\ said' = [said EXCEPT ![s] = FALSE]
    /\ Goto(Acceptor, "acc_id")
    /\ UNCHANGED <<ref, ctl, snd, recvIO, serial, posts, jobs, nxt, op, arg, io, gone, upd>>

(* The new ID first, *)
AccId ==
    LET s == cur[Acceptor]
    IN  /\ At(Acceptor, "acc_id")
        /\ serial' = serial + 1
        /\ id' = [id EXCEPT ![s] = <<s, serial + 1>>]
        /\ Goto(Acceptor, "acc_flag")
        /\ UNCHANGED <<ioCount, released, ctl, snd, recvIO, freeIdx, posts, jobs, loc, upd, net>>

(* and only then the release flag. *)
AccFlag ==
    LET s == cur[Acceptor]
    IN  /\ At(Acceptor, "acc_flag")
        /\ released' = [released EXCEPT ![s] = FALSE]
        /\ Goto(Acceptor, "acc_used")
        /\ UNCHANGED <<ioCount, id, ctl, snd, recvIO, srv, jobs, loc, upd, net>>

(* Mutant: OnClientJoin is forgotten. *)
AccNoJoin ==
    LET s == cur[Acceptor]
    IN  /\ At(Acceptor, "acc_used")
        /\ used' = [used EXCEPT ![s] = TRUE]
        /\ Goto(Acceptor, "acc_recv")
        /\ UNCHANGED <<ref, cancel, reserve, snd, recvIO, srv, jobs, loc, upd, net>>

AccUsed ==
    LET s == cur[Acceptor]
    IN  /\ At(Acceptor, "acc_used")
        /\ used' = [used EXCEPT ![s] = TRUE]
        /\ Goto(Acceptor, "acc_join")
        /\ UNCHANGED <<ref, cancel, reserve, snd, recvIO, srv, jobs, loc, upd, net>>

(* CreateIoCompletionPort failed: AcceptUser returns, the slot is not given back. *)
AccAttachFail ==
    LET s == cur[Acceptor]
    IN  /\ At(Acceptor, "acc_join")
        /\ AttachMayFail
        /\ used' = [used EXCEPT ![s] = FALSE]
        /\ Goto(Acceptor, "idle")
        /\ UNCHANGED <<ref, cancel, reserve, snd, recvIO, srv, jobs, loc, upd, net>>

AccJoin ==
    /\ At(Acceptor, "acc_join")
    /\ Enqueue("join", id[cur[Acceptor]], "none")
    /\ Goto(Acceptor, "acc_recv")
    /\ UNCHANGED <<ref, ctl, snd, recvIO, srv, loc, upd, net>>

(* The first WSARecv takes over the prepaid count; _bIOCancel is not read. *)
AccRecv(failed) ==
    LET s == cur[Acceptor]
    IN  /\ At(Acceptor, "acc_recv")
        /\ failed => peer[s] = "reset"
        /\ recvIO' = [recvIO EXCEPT ![s] = IF failed THEN @ ELSE "pending"]
        /\ Goto(Acceptor, IF failed THEN "acc_fail" ELSE "idle")
        /\ UNCHANGED <<ref, ctl, snd, srv, jobs, loc, upd, net>>

(* Mutant: AcceptUser gives the index back itself. *)
AccFailPush ==
    /\ At(Acceptor, "acc_fail")
    /\ recvIO' = [recvIO EXCEPT ![cur[Acceptor]] = "none"]
    /\ Decrement(Acceptor, "idle")
    /\ freeIdx' = freeIdx \cup {cur[Acceptor]}
    /\ UNCHANGED <<released, id, ctl, snd, serial, posts, jobs, loc, upd, net>>

AccFail ==
    /\ At(Acceptor, "acc_fail")
    /\ recvIO' = [recvIO EXCEPT ![cur[Acceptor]] = "none"]
    /\ Decrement(Acceptor, "idle")
    /\ UNCHANGED <<released, id, ctl, snd, srv, jobs, loc, upd, net>>

Accept ==
    \/ \E s \in Slots : AccPop(s)
    \/ AccId \/ AccFlag \/ AccUsed \/ AccAttachFail \/ AccJoin
    \/ \E failed \in BOOLEAN : AccRecv(failed)
    \/ AccFail

---------------------------------------------------------------------------
(* WorkerThread: GetQueuedCompletionStatus returns one of three packets. *)

GetRecv(w, s) ==
    /\ At(w, "idle")
    /\ recvIO[s] \in {"data", "fail", "eof"}
    /\ recvIO' = [recvIO EXCEPT ![s] = "none"]
    /\ cur' = [cur EXCEPT ![w] = s]
    /\ io' = [io EXCEPT ![w] = TRUE]
    /\ Goto(w, CASE recvIO[s] = "data" -> "recv" [] recvIO[s] = "eof" -> "eof" [] OTHER -> "final")
    /\ UNCHANGED <<ref, ctl, snd, srv, jobs, nxt, op, arg, gone, upd, net>>

(* A failed send keeps _SendFlag and the gather array; the release empties it. *)
GetSend(w, s) ==
    /\ At(w, "idle")
    /\ sendIO[s] \in {"sent", "fail"}
    /\ sendIO' = [sendIO EXCEPT ![s] = "none"]
    /\ cur' = [cur EXCEPT ![w] = s]
    /\ io' = [io EXCEPT ![w] = TRUE]
    /\ Goto(w, IF sendIO[s] = "sent" THEN "sent" ELSE "final")
    /\ UNCHANGED <<ref, ctl, sendFlag, sendQ, inflight, first, recvIO, srv, jobs, nxt, op, arg, gone, upd, net>>

GetPost(w, i) ==
    /\ At(w, "idle")
    /\ posts[i] > 0
    /\ posts' = [posts EXCEPT ![i] = @ - 1]
    /\ Call(w, "post_flag", i)
    /\ UNCHANGED <<ref, ctl, snd, recvIO, freeIdx, serial, jobs, nxt, io, gone, upd, net>>

(* RecvPacket, one message out of the ring buffer: OnRecv. *)
RecvMessage(w, kind) ==
    LET s == cur[w]
    IN  /\ At(w, "recv")
        /\ sent[s] < MaxSent
        /\ kind # "garbage"
        /\ sent' = [sent EXCEPT ![s] = @ + 1]
        /\ said' = [said EXCEPT ![s] = @ \/ kind = "bye"]
        /\ Enqueue("message", id[s], kind)
        /\ UNCHANGED <<ref, ctl, snd, recvIO, srv, pc, loc, upd, peer>>

(* RecvPacket, a header or a body that is refused. *)
RecvGarbage(w) ==
    /\ At(w, "recv")
    /\ "garbage" \in Kinds
    /\ Call(w, "cancel", id[cur[w]])
    /\ UNCHANGED <<ref, ctl, snd, recvIO, srv, jobs, nxt, io, gone, upd, net>>

(* RecvPacket, the ring buffer holds no further message. *)
RecvDone(w) ==
    /\ At(w, "recv")
    /\ Goto(w, "rp_inc")
    /\ UNCHANGED <<ref, ctl, snd, recvIO, srv, jobs, loc, upd, net>>

(* Mutant: no SendPost after a completed send. *)
SendCompleteOnly(w) ==
    /\ At(w, "sent")
    /\ DeQPacket(cur[w])
    /\ sendFlag' = [sendFlag EXCEPT ![cur[w]] = FALSE]
    /\ Goto(w, "final")
    /\ UNCHANGED <<ref, ctl, sendQ, sendIO, recvIO, srv, jobs, loc, upd, net>>

(* A send is complete: DeQPacket, then the flag, then SendPost. *)
SendComplete(w) ==
    /\ At(w, "sent")
    /\ DeQPacket(cur[w])
    /\ sendFlag' = [sendFlag EXCEPT ![cur[w]] = FALSE]
    /\ Call(w, "post_flag", id[cur[w]])
    /\ UNCHANGED <<ref, ctl, sendQ, sendIO, recvIO, srv, jobs, nxt, io, gone, upd, net>>

(* The decrement for the completion itself. *)
Final(w) ==
    /\ At(w, "final")
    /\ io' = [io EXCEPT ![w] = FALSE]
    /\ Decrement(w, "idle")
    /\ UNCHANGED <<released, id, ctl, snd, recvIO, srv, jobs, nxt, op, arg, cur, gone, upd, net>>

Work(w) ==
    \/ \E s \in Slots : GetRecv(w, s) \/ GetSend(w, s)
    \/ \E i \in Ids : GetPost(w, i)
    \/ \E kind \in Kinds : RecvMessage(w, kind)
    \/ RecvGarbage(w) \/ RecvDone(w) \/ SendComplete(w) \/ Final(w)

---------------------------------------------------------------------------
(* UpdateThread: the jobs in order; a message may be sent on to clients. *)

NextJob(type) ==
    /\ At(Updater, "idle")
    /\ todo = {}
    /\ jobs # <<>>
    /\ Head(jobs).type = type

(* FindClient comes back empty: Crash(). *)
MissingClient ==
    /\ crash = "none" /\ pc[Updater] = "idle" /\ todo = {} /\ jobs # <<>>
    /\ Head(jobs).type \in {"message", "leave"}
    /\ Head(jobs).id \notin clients

CreateNewUser ==
    /\ NextJob("join")
    /\ clients' = clients \cup {Head(jobs).id}
    /\ jobs' = Tail(jobs)
    /\ UNCHANGED <<ref, ctl, snd, recvIO, srv, pc, loc, todo, net>>

DeleteUser ==
    /\ NextJob("leave")
    /\ Head(jobs).id \in clients
    /\ clients' = clients \ {Head(jobs).id}
    /\ jobs' = Tail(jobs)
    /\ UNCHANGED <<ref, ctl, snd, recvIO, srv, pc, loc, todo, net>>

(* Time-out: Disconnect. *)
TimeOut ==
    /\ NextJob("timeout")
    /\ Call(Updater, "cancel", Head(jobs).id)
    /\ jobs' = Tail(jobs)
    /\ UNCHANGED <<ref, ctl, snd, recvIO, srv, nxt, io, gone, upd, net>>

(* A message the content refuses, before or after FindClient: Disconnect. *)
BadMessage ==
    /\ NextJob("message")
    /\ Head(jobs).kind = "bad"
    /\ Call(Updater, "cancel", Head(jobs).id)
    /\ jobs' = Tail(jobs)
    /\ UNCHANGED <<ref, ctl, snd, recvIO, srv, nxt, io, gone, upd, net>>

(* A message that is sent to some clients; "=" first marks its sender. *)
ChatMessage(recipients) ==
    /\ NextJob("message")
    /\ Head(jobs).id \in clients /\ Head(jobs).kind \in {"chat", "bye"}
    /\ jobs' = Tail(jobs)
    /\ todo' = recipients
    /\ IF Head(jobs).kind = "bye"
         THEN Call(Updater, "mark", Head(jobs).id)
         ELSE UNCHANGED <<op, arg, cur, pc>>
    /\ UNCHANGED <<ref, ctl, snd, recvIO, srv, nxt, io, gone, clients, net>>

(* SendPacket to the next recipient; if it succeeds Pqcs follows. *)
SendNext(i) ==
    /\ At(Updater, "idle")
    /\ i \in todo
    /\ todo' = todo \ {i}
    /\ Call(Updater, "enq", i)
    /\ UNCHANGED <<ref, ctl, snd, recvIO, srv, jobs, nxt, io, gone, clients, net>>

Update ==
    \/ CreateNewUser \/ DeleteUser \/ TimeOut \/ BadMessage
    \/ \E recipients \in SUBSET clients : ChatMessage(recipients)
    \/ \E i \in Ids : SendNext(i)

---------------------------------------------------------------------------
(* MonitorThread, one slot of its scan. *)

MonUsed(s) ==
    /\ At(Monitor, "idle")
    /\ OptionOn
    /\ used[s]
    /\ cur' = [cur EXCEPT ![Monitor] = s]
    /\ Goto(Monitor, "mon_id")
    /\ UNCHANGED <<ref, ctl, snd, recvIO, srv, jobs, nxt, op, arg, io, gone, upd, net>>

MonId ==
    /\ At(Monitor, "mon_id")
    /\ Call(Monitor, "expire", id[cur[Monitor]])
    /\ UNCHANGED <<ref, ctl, snd, recvIO, srv, jobs, nxt, io, gone, upd, net>>

(* The session has been silent for too long, or has not. *)
MonExpire(late) ==
    /\ At(Monitor, "expire")
    /\ IF late
         THEN Len(jobs) < MaxJobs /\ Enqueue("timeout", id[cur[Monitor]], "none")
         ELSE UNCHANGED jobs
    /\ Goto(Monitor, "drop")
    /\ UNCHANGED <<ref, ctl, snd, recvIO, srv, loc, upd, net>>

Watch == (\E s \in Slots : MonUsed(s)) \/ MonId \/ (\E late \in BOOLEAN : MonExpire(late))

---------------------------------------------------------------------------
(* The routines of NetSession, on any thread. *)

Routine(t) ==
    \/ AcqInc(t) \/ AcqFlag(t) \/ AcqId(t) \/ AcqFail(t) \/ Drop(t)
    \/ RelCas(t) \/ RelPackets(t) \/ RelClear(t) \/ RelPush(t) \/ RelLeave(t)
    \/ Cancel(t) \/ EnQ(t) \/ Pqcs(t) \/ Mark(t)
    \/ PostFlag(t) \/ PostCount(t) \/ PostUnflag(t) \/ PostRecheck(t) \/ PostInc(t)
    \/ PostDeq(t) \/ PostCancel(t) \/ Drop2(t)
    \/ \E failed \in BOOLEAN : (failed => peer[cur[t]] = "reset") /\ PostSend(t, failed)
    \/ RpInc(t) \/ RpCancel(t) \/ RpFail(t)
    \/ \E failed \in BOOLEAN : (failed => peer[cur[t]] = "reset") /\ RpIssue(t, failed)

---------------------------------------------------------------------------
(* The kernel and the clients *)

Alive == crash = "none" /\ UNCHANGED crash

MayClose(s) ==
    CASE Manner = "rude"   -> TRUE
      [] Manner = "hasty"  -> said[s]
      [] Manner = "polite" -> reserve[s]

PeerClose(s, how) ==
    /\ Alive
    /\ peer[s] = "up" /\ MayClose(s)
    /\ peer' = [peer EXCEPT ![s] = how]
    /\ UNCHANGED <<ref, ctl, snd, recvIO, srv, jobs, pc, loc, upd, sent, said>>

(* What was sent before a FIN is received before it; a reset loses it. *)
MayReceive(s, result) ==
    CASE result = "data" -> peer[s] # "reset" /\ sent[s] < MaxSent
      [] result = "fail" -> peer[s] = "reset"
      [] result = "eof"  -> peer[s] = "fin"

RecvComplete(s, result) ==
    /\ Alive
    /\ recvIO[s] = "pending" /\ MayReceive(s, result)
    /\ recvIO' = [recvIO EXCEPT ![s] = result]
    /\ UNCHANGED <<ref, ctl, snd, srv, jobs, pc, loc, upd, net>>

SendDone(s) ==
    /\ Alive
    /\ sendIO[s] = "pending"
    /\ sendIO' = [sendIO EXCEPT ![s] = IF peer[s] = "reset" THEN "fail" ELSE "sent"]
    /\ UNCHANGED <<ref, ctl, sendFlag, sendQ, inflight, first, recvIO, srv, jobs, pc, loc, upd, net>>

Kernel == \E s \in Slots :
    \/ \E result \in {"data", "fail", "eof"} : RecvComplete(s, result)
    \/ SendDone(s)
    \/ \E how \in Closings : PeerClose(s, how)

---------------------------------------------------------------------------
Init ==
    /\ ioCount = [s \in Slots |-> 1]
    /\ released = [s \in Slots |-> FALSE]
    /\ id = [s \in Slots |-> <<s, 0>>]
    /\ used = [s \in Slots |-> FALSE]
    /\ cancel = [s \in Slots |-> FALSE]
    /\ reserve = [s \in Slots |-> FALSE]
    /\ sendFlag \in [Slots -> HeapFlags]
    /\ sendQ = [s \in Slots |-> 0]
    /\ inflight = [s \in Slots |-> 0]
    /\ first \in [Slots -> HeapPackets]
    /\ recvIO = [s \in Slots |-> "prepaid"]
    /\ sendIO = [s \in Slots |-> "none"]
    /\ freeIdx = Slots
    /\ serial = 0
    /\ posts = [i \in Ids |-> 0]
    /\ jobs = <<>>
    /\ crash = "none"
    /\ pc = [t \in Threads |-> "idle"]
    /\ nxt = [t \in Threads |-> "ret"]
    /\ op = [t \in Threads |-> "cancel"]
    /\ cur \in {[t \in Threads |-> s] : s \in Slots}
    /\ arg = [t \in Threads |-> <<cur[t], 0>>]
    /\ io = [t \in Threads |-> FALSE]
    /\ gone = arg
    /\ clients = {}
    /\ todo = {}
    /\ peer = [s \in Slots |-> "reset"]
    /\ sent = [s \in Slots |-> 0]
    /\ said = [s \in Slots |-> FALSE]

(* A thread, or the content, finds one of its checks failed: Crash(). *)
Crashes ==
    /\ crash = "none"
    /\ crash' \in (UNION {Failing(t) : t \in Threads}) \cup (IF MissingClient THEN {"client"} ELSE {})
    /\ UNCHANGED <<ref, ctl, snd, recvIO, srv, jobs, pc, loc, upd, net>>

ThreadStep(t) ==
    \/ Routine(t) /\ UNCHANGED <<upd, net>>
    \/ t = Acceptor /\ Accept
    \/ t \in Workers /\ Work(t)
    \/ t = Updater /\ Update
    \/ t = Monitor /\ Watch

Next == (\E t \in Threads : ThreadStep(t)) \/ Kernel \/ Crashes

Spec == Init /\ [][Next]_vars

(* The scheduler runs every thread; the completion port is a queue, so that   *)
(* the packets behind it are not overtaken for ever; a reset fails the        *)
(* pending receive, and the clients read, so that a posted send completes.    *)
Fairness ==
    /\ \A t \in Threads : WF_vars(ThreadStep(t))
    /\ \A i \in Slots \X (1..MaxSerial) : SF_vars(\E w \in Workers : GetPost(w, i))
    /\ \A s \in Slots : WF_vars(RecvComplete(s, "fail")) /\ WF_vars(SendDone(s))

FairSpec == Spec /\ Fairness

---------------------------------------------------------------------------
(* Who refers to a session *)

(* Steps of a thread that holds the count it took on cur, *)
HoldPlaces ==
    {"acq_flag", "acq_id", "acq_fail", "drop", "drop2", "cancel", "enq", "mark", "expire",
     "post_flag", "post_count", "post_unflag", "post_recheck", "post_inc", "post_deq",
     "post_cancel", "post_send", "rp_cancel", "rp_issue", "rp_fail"}

(* and steps of SendPost that hold a second one. *)
LogPlaces == {"post_deq", "post_cancel", "post_send", "drop2"}

Holders(s) == {t \in Threads : cur[t] = s /\ pc[t] \in HoldPlaces}
LogHolders(s) == {t \in Threads : cur[t] = s /\ pc[t] \in LogPlaces}
Completing(s) == {t \in Threads : cur[t] = s /\ io[t]}
Overlapped(s) == (IF recvIO[s] # "none" THEN 1 ELSE 0) + (IF sendIO[s] # "none" THEN 1 ELSE 0)

(* A thread past AcquireSession, and before the decrement. *)
UsePlaces == {"cancel", "enq", "mark", "expire", "post_flag", "post_count", "post_unflag",
              "post_recheck", "post_inc", "post_deq", "post_cancel", "post_send"}

Releasing(s) == {t \in Threads : cur[t] = s /\ pc[t] \in {"rel_packets", "rel_clear", "rel_push"}}
Opening(s) == pc[Acceptor] \in {"acc_id", "acc_flag"} /\ cur[Acceptor] = s
Open(s) == ~released[s] /\ id[s] # <<s, 0>> /\ ~Opening(s)

---------------------------------------------------------------------------
(* Types *)

Places ==
    HoldPlaces \cup
    {"idle", "acq_inc", "rel_cas", "rel_packets", "rel_clear", "rel_push", "rel_leave", "pqcs",
     "recv", "sent", "eof", "final", "rp_inc", "mon_id",
     "acc_id", "acc_flag", "acc_used", "acc_join", "acc_recv", "acc_fail"}

Job == [type : {"join", "message", "timeout", "leave"}, id : Ids, kind : Kinds \cup {"none"}]

(* The values every variable of the server takes. *)
TypeOK ==
    /\ ioCount \in [Slots -> Int]
    /\ released \in [Slots -> BOOLEAN]
    /\ id \in [Slots -> Ids]
    /\ used \in [Slots -> BOOLEAN]
    /\ cancel \in [Slots -> BOOLEAN]
    /\ reserve \in [Slots -> BOOLEAN]
    /\ sendFlag \in [Slots -> BOOLEAN]
    /\ sendQ \in [Slots -> Nat]
    /\ inflight \in [Slots -> Nat]
    /\ first \in [Slots -> FirstEntries]
    /\ recvIO \in [Slots -> RecvStates]
    /\ sendIO \in [Slots -> SendStates]
    /\ freeIdx \subseteq Slots
    /\ serial \in 0..MaxSerial
    /\ posts \in [Ids -> Nat]
    /\ jobs \in Seq(Job)
    /\ crash \in Checks \cup {"none", "client"}
    /\ pc \in [Threads -> Places]
    /\ nxt \in [Threads -> {"ret", "pqcs", "drop"}]
    /\ op \in [Threads -> Bodies]
    /\ arg \in [Threads -> Ids]
    /\ gone \in [Threads -> Ids]
    /\ cur \in [Threads -> Slots]
    /\ io \in [Threads -> BOOLEAN]
    /\ clients \subseteq Ids
    /\ todo \subseteq Ids
    /\ peer \in [Slots -> {"up", "reset", "fin"}]
    /\ sent \in [Slots -> Nat]
    /\ said \in [Slots -> BOOLEAN]

---------------------------------------------------------------------------
(* Safety *)

(* _IOCount counts exactly the references that exist: the calls of threads  *)
(* that hold the session, the completion a worker is handling, the operation *)
(* posted on _RecvOL (or the receive of the next AcceptUser) and on _SendOL. *)
RefCount == \A s \in Slots :
    ioCount[s] = Cardinality(Holders(s)) + Cardinality(LogHolders(s))
                 + Cardinality(Completing(s)) + Overlapped(s)

(* A thread that passed AcquireSession(arg) works on that session and no     *)
(* other until its decrement: nobody releases the slot under it, and no      *)
(* AcceptUser gives it a new ID. So does a worker for its completion.        *)
NoUseAfterRelease == \A t \in Threads :
    /\ pc[t] \in UsePlaces => id[cur[t]] = arg[t] /\ ~released[cur[t]]
    /\ io[t] => ~released[cur[t]]

(* When a slot is released and handed to the next client no operation is     *)
(* outstanding on its two OVERLAPPEDs (the check of line 1639 in AcceptUser).*)
NoIOAcrossRelease == \A s \in Slots :
    released[s] => sendIO[s] = "none" /\ recvIO[s] \in {"none", "prepaid"}

(* An index of m_SessionArray is in exactly one hand: on m_IndexStack, with   *)
(* the accept thread, with an open session, or with the one thread that       *)
(* releases it; or it was lost when CreateIoCompletionPort failed (unused,    *)
(* with its receive never posted).                                            *)
OneOwner == \A s \in Slots :
    LET owners == {<<"releaser", t>> : t \in Releasing(s)}
                  \cup {o \in {<<"stack", s>>, <<"accept", s>>, <<"session", s>>} :
                        CASE o[1] = "stack"   -> s \in freeIdx
                          [] o[1] = "accept"  -> Opening(s)
                          [] o[1] = "session" -> Open(s)}
    IN  Cardinality(owners) = 1

(* The _SendFlag protocol: the gather array has at most one user, a SendPost  *)
(* past the exchange, a posted WSASend or its completion, and while it has    *)
(* one the flag is up.                                                        *)
GatherUsers(s) ==
    {<<"thread", t>> : t \in {u \in Threads :
        cur[u] = s /\ pc[u] \in {"post_count", "post_unflag", "post_inc", "post_deq",
                                "post_cancel", "post_send", "sent"}}}
    \cup (IF sendIO[s] = "none" THEN {} ELSE {<<"kernel", s>>})

OneSender == \A s \in Slots :
    /\ Cardinality(GatherUsers(s)) <= 1
    /\ GatherUsers(s) # {} => sendFlag[s]

(* No lost wake-up: when packets wait in the _SendQ of a session that is     *)
(* connected and not cancelled, somebody is still going to look: a posted ID,*)
(* a thread that is about to post it or to enter SendPost with it, a         *)
(* SendPost that will look at the queue again, or a send under way.          *)
WillLook(t, s) ==
    \/ arg[t] = id[s] /\ nxt[t] = "pqcs"
    \/ arg[t] = id[s] /\ op[t] = "post_flag" /\ pc[t] \in {"acq_inc", "acq_flag", "acq_id"}
    \/ cur[t] = s /\ pc[t] \in {"post_flag", "post_count", "post_unflag", "post_recheck",
                                "post_inc", "post_deq", "post_cancel", "post_send", "sent"}

NoStrandedPackets == crash = "none" => \A s \in Slots :
    Open(s) /\ sendQ[s] > 0 =>
        \/ posts[id[s]] > 0 \/ (\E t \in Threads : WillLook(t, s)) \/ sendIO[s] # "none"
        \/ cancel[s] \/ peer[s] # "up"

(* The jobs of a client reach the content in an order it can handle: it joins *)
(* once, sends only while it is in m_ClientMap and leaves once.               *)
Earlier(k, type) == \E j \in 1..(k - 1) : jobs[j].type = type /\ jobs[j].id = jobs[k].id
JobOrder == \A k \in DOMAIN jobs :
    LET present == jobs[k].id \in clients \/ Earlier(k, "join")
    IN  /\ jobs[k].type \in {"message", "leave"} => present /\ ~Earlier(k, "leave")
        /\ jobs[k].type = "join" => ~present

(* m_ClientMap forgets nobody: a client in it whose session is gone is about  *)
(* to be deleted, by a leave in the queue or by the thread releasing it.      *)
NoGhostClient == \A i \in clients :
    \/ Open(SlotOf(i)) /\ id[SlotOf(i)] = i
    \/ \E k \in DOMAIN jobs : jobs[k].type = "leave" /\ jobs[k].id = i
    \/ \E t \in Threads : pc[t] \in {"rel_clear", "rel_push", "rel_leave"} /\ gone[t] = i
    \/ \E t \in Releasing(SlotOf(i)) : pc[t] = "rel_packets" /\ id[SlotOf(i)] = i

(* None of the checks of the code's own bookkeeping finds it wrong, whatever  *)
(* the clients do and the heap held: the counts, the send queue and the gather *)
(* array, m_ClientMap. A check that finds a pointer nobody stored says nothing *)
(* of the bookkeeping: "heap" is NoHeapPointer's. The check for 0 bytes is of  *)
(* what a client does ("eof"), and so is "reserve".                            *)
NoInternalCrash == crash \notin {"count", "send", "recv", "client"}

(* ReleaseSession's check for a packet left in the gather array never meets a *)
(* value the server did not store there (NetServerLib.cpp:910).               *)
NoHeapPointer == crash # "heap"

(* A server whose clients announce that they leave, and wait until that is   *)
(* processed, never dies.                                                    *)
NoCrash == crash = "none"

(* The gather array is large enough for what accumulates in the _SendQ while  *)
(* a send is under way (NetServerLib.cpp:1322).                               *)
GatherFits == crash # "array"

(* Once a session's I/O is cancelled RecvPost posts no receive on it, and     *)
(* SendPost no send (NetServerLib.cpp:1161 and 1365). AcceptUser's first      *)
(* receive, which no comment says this of, is not among them.                 *)
NoIOAfterCancel == [][\A t \in Threads : cancel[cur[t]] =>
    /\ pc[t] = "rp_issue" => (recvIO'[cur[t]] = "pending" => recvIO[cur[t]] = "pending")
    /\ pc[t] = "post_send" => (sendIO'[cur[t]] = "pending" => sendIO[cur[t]] = "pending")]_vars

---------------------------------------------------------------------------
(* What the session table promises: SessionLife *)

InUse ==
    {<<t, arg[t]>> : t \in {u \in Threads : pc[u] \in UsePlaces}}
    \cup {<<t, id[cur[t]]>> : t \in {u \in Threads : io[u]}}
    \cup {<<Acceptor, id[s]>> : s \in {r \in Slots :
            cur[Acceptor] = r /\ pc[Acceptor] \in {"acc_used", "acc_join", "acc_recv", "acc_fail"}}}
    \cup {<<"recv", id[s]>> : s \in {r \in Slots : recvIO[r] \notin {"none", "prepaid"}}}
    \cup {<<"send", id[s]>> : s \in {r \in Slots : sendIO[r] # "none"}}

Life == INSTANCE SessionLife WITH
    Parties <- Threads \cup {"recv", "send"},
    open <- {id[s] : s \in {r \in Slots : Open(r)}},
    last <- IF pc[Acceptor] = "acc_flag" THEN serial - 1 ELSE serial,
    uses <- InUse

(* Every step of the server opens, uses or closes sessions as SessionLife     *)
(* allows, or changes none of that.                                           *)
LifeSpec == Life!Spec

---------------------------------------------------------------------------
(* Liveness *)

Connected(i) == Open(SlotOf(i)) /\ id[SlotOf(i)] = i

(* A session whose client reset the connection is closed, and its client      *)
(* leaves m_ClientMap.                                                        *)
ResetIsNoticed == \A i \in Slots \X (1..MaxSerial) :
    Connected(i) /\ peer[SlotOf(i)] = "reset"
        ~> ~Connected(i) /\ i \notin clients /\ \A k \in DOMAIN jobs : jobs[k].id # i

(* Packets put into a _SendQ are all gathered into a send, or dropped with    *)
(* the session.                                                               *)
PacketsLeave == \A s \in Slots : sendQ[s] > 0 ~> sendQ[s] = 0
=============================================================================
