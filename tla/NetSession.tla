----------------------------- MODULE NetSession -----------------------------
(***************************************************************************)
(* The session table of the IOCP server (NetServerLib.cpp): the reference  *)
(* word _IOCount of a Session slot, whose top bit is the release flag, and *)
(* the routines every thread of the server runs on it: AcquireSession,     *)
(* ReleaseSession, Disconnect, SendPacket, SendPost and RecvPost.          *)
(*                                                                         *)
(* One action is one access to memory that another thread may touch: an    *)
(* Interlocked operation, a read of a shared word, a call of the kernel.   *)
(* The threads' own loops, the kernel and the clients are in NetServer.    *)
(***************************************************************************)
EXTENDS Integers, Sequences, FiniteSets

CONSTANTS
    Slots,      \* indices of m_SessionArray
    Workers,    \* the IOCP worker threads
    Acceptor,   \* AcceptThread
    Updater,    \* UpdateThread, the single content thread
    Monitor,    \* MonitorThread
    MaxSerial,  \* bound: session IDs handed out
    ArrayCap    \* Session::DEQ_PACKET_ARRAY_SIZE

Threads == Workers \cup {Acceptor, Updater, Monitor}

ASSUME ThreadAssumption ==
    /\ IsFiniteSet(Workers)
    /\ {Acceptor, Updater, Monitor} \cap Workers = {}
    /\ Acceptor # Updater /\ Updater # Monitor /\ Monitor # Acceptor

ASSUME BoundAssumption == MaxSerial \in Nat /\ ArrayCap \in Nat \ {0}

VARIABLES
    (* struct Session *)
    ioCount,    \* low 31 bits of _IOCount
    released,   \* top bit of _IOCount, the release flag
    id,         \* _ID
    used,       \* _USED
    cancel,     \* _bIOCancel
    reserve,    \* _bReserveDiscon
    sendFlag,   \* _SendFlag
    sendQ,      \* number of packets in _SendQ
    inflight,   \* _DeQArraySize
    first,      \* what _DeQPacketArray[0] holds, see FirstEntries
    recvIO,     \* what _RecvOL stands for, see RecvStates
    sendIO,     \* what _SendOL stands for, see SendStates
    (* the rest of NetServer and its content *)
    freeIdx,    \* content of m_IndexStack
    serial,     \* m_SessionID
    posts,      \* PQCS(-1, NULL, id) packets in the completion port
    jobs,       \* m_ThreadQ
    crash,      \* the Crash() the process died in, or "none"
    (* thread locals *)
    pc, nxt,    \* control: the next step, and where the current call returns
    op,         \* what the caller of AcquireSession does once it has the session
    arg,        \* the session ID the thread works for
    cur,        \* curSession, the slot it points at
    io,         \* the thread is handling a completion of cur
    gone        \* tempSessionID of ReleaseSession

ref == <<ioCount, released, id>>
ctl == <<used, cancel, reserve>>
snd == <<sendFlag, sendQ, inflight, first, sendIO>>
srv == <<freeIdx, serial, posts>>
loc == <<nxt, op, arg, cur, io, gone>>

(* A session ID is an index and a serial; serial 0 is the constructor's ID. *)
Ids == Slots \X (0..MaxSerial)
SlotOf(i) == i[1]

(* "prepaid": the count of 1 kept for the WSARecv of the next AcceptUser.   *)
(* "none": no receive; "pending": WSARecv posted; the others: its           *)
(* completion waits in the port, with data, failed, or with 0 bytes.        *)
RecvStates == {"prepaid", "none", "pending", "data", "fail", "eof"}
SendStates == {"none", "pending", "sent", "fail"}

(* "heap": a value other than nullptr that was in the memory when the array  *)
(* of sessions was allocated; no constructor writes this member.             *)
FirstEntries == {"null", "packet", "heap"}

(* The bodies AcquireSession guards, by their first step. *)
Bodies == {"cancel", "enq", "mark", "expire", "post_flag"}

---------------------------------------------------------------------------
(* Assertions: the Crash() calls, each by the state in which it is reached. *)

ZeroCount(s) == ioCount[s] = 0 /\ ~released[s]

(* "count": _IOCount is 0 where the thread itself must hold one, or the     *)
(* release flag is missing in ReleaseSession; "reserve": a session goes     *)
(* that did not announce it; "send": a packet survives ReleasePacket, or    *)
(* SendPost finds the gather array in use or nothing to send; "heap": what  *)
(* survives it, by the same check, is a pointer that is nobody's; "array":  *)
(* more packets than the gather array holds; "recv": a failed WSARecv gave  *)
(* back the last count; "eof": 0 bytes received without an error.           *)
Checks == {"count", "reserve", "send", "heap", "array", "recv", "eof"}

Fails(t, check) ==
    LET s == cur[t]
        Reads(places) == pc[t] \in places
    IN  \/ /\ check = "count"
           /\ \/ /\ Reads({"recv", "sent", "final", "rp_inc", "rp_cancel", "post_deq", "post_cancel"})
                 /\ ZeroCount(s)
              \/ Reads({"rel_packets"}) /\ ~released[s]
        \/ check = "reserve" /\ Reads({"rel_packets"}) /\ ~reserve[s]
        \/ /\ check = "send"
           /\ \/ Reads({"rel_clear"}) /\ (sendQ[s] > 0 \/ first[s] = "packet")
              \/ Reads({"post_deq"}) /\ (sendQ[s] = 0 \/ inflight[s] > 0)
        \/ check = "heap" /\ Reads({"rel_clear"}) /\ first[s] = "heap"
        \/ check = "array" /\ Reads({"post_deq"}) /\ sendQ[s] > ArrayCap
        \/ check = "recv" /\ Reads({"rp_fail"}) /\ ioCount[s] = 1 /\ ~released[s]
        \/ check = "eof" /\ Reads({"eof"})

---------------------------------------------------------------------------
(* Control *)

Goto(t, place) == pc' = [pc EXCEPT ![t] = place]

(* Where a call that is over returns to: to nxt when the caller has more to *)
(* do, to the end of the completion a worker is handling, or to the loop.   *)
After(t) == IF nxt[t] # "ret" THEN nxt[t] ELSE IF io[t] THEN "final" ELSE "idle"

Failing(t) == {check \in Checks : Fails(t, check)}

(* Thread t is at place, none of the checks made there fails, it goes on. *)
At(t, place) == crash = "none" /\ pc[t] = place /\ Failing(t) = {} /\ UNCHANGED crash

(* A call on the session named i, beginning with AcquireSession(i). *)
Call(t, body, i) ==
    /\ op' = [op EXCEPT ![t] = body]
    /\ arg' = [arg EXCEPT ![t] = i]
    /\ cur' = [cur EXCEPT ![t] = SlotOf(i)]
    /\ Goto(t, "acq_inc")

Enqueue(type, i, kind) == jobs' = Append(jobs, [type |-> type, id |-> i, kind |-> kind])

(* InterlockedDecrement(_IOCount), and ReleaseSession if that gives 0. *)
Decrement(t, next) ==
    LET s == cur[t]
    IN  /\ ioCount' = [ioCount EXCEPT ![s] = @ - 1]
        /\ Goto(t, IF ioCount[s] = 1 /\ ~released[s] THEN "rel_cas" ELSE next)

Increment(t) == ioCount' = [ioCount EXCEPT ![cur[t]] = @ + 1]

---------------------------------------------------------------------------
(* AcquireSession: raise the count, then look whether that was allowed. *)

AcqInc(t) ==
    /\ At(t, "acq_inc")
    /\ Increment(t)
    /\ Goto(t, "acq_flag")
    /\ UNCHANGED <<released, id, ctl, snd, recvIO, srv, jobs, loc>>

AcqFlag(t) ==
    /\ At(t, "acq_flag")
    /\ Goto(t, IF released[cur[t]] THEN "acq_fail" ELSE "acq_id")
    /\ UNCHANGED <<ref, ctl, snd, recvIO, srv, jobs, loc>>

(* Mutant: the ID is not compared. *)
AcqIdUnchecked(t) ==
    /\ At(t, "acq_id")
    /\ Goto(t, op[t])
    /\ UNCHANGED <<ref, ctl, snd, recvIO, srv, jobs, loc>>

AcqId(t) ==
    /\ At(t, "acq_id")
    /\ Goto(t, IF id[cur[t]] # arg[t] THEN "acq_fail" ELSE op[t])
    /\ UNCHANGED <<ref, ctl, snd, recvIO, srv, jobs, loc>>

AcqFail(t) ==
    /\ At(t, "acq_fail")
    /\ Decrement(t, After(t))
    /\ UNCHANGED <<released, id, ctl, snd, recvIO, srv, jobs, loc>>

(* The decrement that ends every use of an acquired session. *)
Drop(t) ==
    /\ At(t, "drop")
    /\ nxt' = [nxt EXCEPT ![t] = IF @ = "drop" THEN "ret" ELSE @]
    /\ Decrement(t, IF nxt[t] = "pqcs" THEN "pqcs" ELSE IF io[t] THEN "final" ELSE "idle")
    /\ UNCHANGED <<released, id, ctl, snd, recvIO, srv, jobs, op, arg, cur, io, gone>>

---------------------------------------------------------------------------
(* ReleaseSession *)

(* Mutant: an InterlockedOr in place of the compare-and-swap. *)
RelOr(t) ==
    /\ At(t, "rel_cas")
    /\ released' = [released EXCEPT ![cur[t]] = TRUE]
    /\ Goto(t, "rel_packets")
    /\ UNCHANGED <<ioCount, id, ctl, snd, recvIO, srv, jobs, loc>>

RelCas(t) ==
    /\ At(t, "rel_cas")
    /\ released' = [released EXCEPT ![cur[t]] = @ \/ ioCount[cur[t]] = 0]
    /\ Goto(t, IF ZeroCount(cur[t]) THEN "rel_packets" ELSE After(t))
    /\ UNCHANGED <<ioCount, id, ctl, snd, recvIO, srv, jobs, loc>>

(* DeQPacket: the entries below _DeQArraySize are released and cleared. *)
DeQPacket(s) ==
    /\ inflight' = [inflight EXCEPT ![s] = 0]
    /\ first' = [first EXCEPT ![s] = IF inflight[s] > 0 THEN "null" ELSE @]

(* Mutant: only the gather array is emptied. *)
RelGathered(t) ==
    /\ At(t, "rel_packets")
    /\ DeQPacket(cur[t])
    /\ gone' = [gone EXCEPT ![t] = id[cur[t]]]
    /\ Goto(t, "rel_clear")
    /\ UNCHANGED <<ref, ctl, sendFlag, sendQ, sendIO, recvIO, srv, jobs, nxt, op, arg, cur, io>>

RelPackets(t) ==
    /\ At(t, "rel_packets")
    /\ sendQ' = [sendQ EXCEPT ![cur[t]] = 0]
    /\ DeQPacket(cur[t])
    /\ gone' = [gone EXCEPT ![t] = id[cur[t]]]
    /\ Goto(t, "rel_clear")
    /\ UNCHANGED <<ref, ctl, sendFlag, sendIO, recvIO, srv, jobs, nxt, op, arg, cur, io>>

(* SessionClear up to the push of the index. *)
RelClear(t) ==
    /\ At(t, "rel_clear")
    /\ Increment(t)
    /\ recvIO' = [recvIO EXCEPT ![cur[t]] = "prepaid"]
    /\ sendFlag' = [sendFlag EXCEPT ![cur[t]] = FALSE]
    /\ used' = [used EXCEPT ![cur[t]] = FALSE]
    /\ cancel' = [cancel EXCEPT ![cur[t]] = FALSE]
    /\ reserve' = [reserve EXCEPT ![cur[t]] = FALSE]
    /\ Goto(t, "rel_push")
    /\ UNCHANGED <<released, id, sendQ, inflight, first, sendIO, srv, jobs, loc>>

(* Mutant: OnClientLeave is forgotten. *)
RelPushOnly(t) ==
    /\ At(t, "rel_push")
    /\ freeIdx' = freeIdx \cup {cur[t]}
    /\ Goto(t, After(t))
    /\ UNCHANGED <<ref, ctl, snd, recvIO, serial, posts, jobs, loc>>

RelPush(t) ==
    /\ At(t, "rel_push")
    /\ freeIdx' = freeIdx \cup {cur[t]}
    /\ Goto(t, "rel_leave")
    /\ UNCHANGED <<ref, ctl, snd, recvIO, serial, posts, jobs, loc>>

(* OnClientLeave *)
RelLeave(t) ==
    /\ At(t, "rel_leave")
    /\ Enqueue("leave", gone[t], "none")
    /\ Goto(t, After(t))
    /\ UNCHANGED <<ref, ctl, snd, recvIO, srv, loc>>

---------------------------------------------------------------------------
(* What is done with an acquired session *)

Cancelled(state) == IF state = "pending" THEN "fail" ELSE state

(* Disconnect: the flag, then CancelIoEx on whatever is pending. *)
Cancel(t) ==
    /\ At(t, "cancel")
    /\ cancel' = [cancel EXCEPT ![cur[t]] = TRUE]
    /\ recvIO' = [recvIO EXCEPT ![cur[t]] = Cancelled(@)]
    /\ sendIO' = [sendIO EXCEPT ![cur[t]] = Cancelled(@)]
    /\ Goto(t, "drop")
    /\ UNCHANGED <<ref, used, reserve, sendFlag, sendQ, inflight, first, srv, jobs, loc>>

(* SendPacket; only when it succeeds does its caller post the ID. *)
EnQ(t) ==
    /\ At(t, "enq")
    /\ sendQ' = [sendQ EXCEPT ![cur[t]] = @ + 1]
    /\ nxt' = [nxt EXCEPT ![t] = "pqcs"]
    /\ Goto(t, "drop")
    /\ UNCHANGED <<ref, ctl, sendFlag, inflight, first, sendIO, recvIO, srv, jobs, op, arg, cur, io, gone>>

Pqcs(t) ==
    /\ At(t, "pqcs")
    /\ posts' = [posts EXCEPT ![arg[t]] = @ + 1]
    /\ nxt' = [nxt EXCEPT ![t] = "ret"]
    /\ Goto(t, "idle")
    /\ UNCHANGED <<ref, ctl, snd, recvIO, freeIdx, serial, jobs, op, arg, cur, io, gone>>

(* The chat message "=" announces that the client is about to leave. *)
Mark(t) ==
    /\ At(t, "mark")
    /\ reserve' = [reserve EXCEPT ![cur[t]] = TRUE]
    /\ Goto(t, "drop")
    /\ UNCHANGED <<ref, used, cancel, snd, recvIO, srv, jobs, loc>>

---------------------------------------------------------------------------
(* SendPost: whoever turns _SendFlag from 0 to 1 owns the gather array. *)

PostFlag(t) ==
    /\ At(t, "post_flag")
    /\ sendFlag' = [sendFlag EXCEPT ![cur[t]] = TRUE]
    /\ Goto(t, IF sendFlag[cur[t]] THEN "drop" ELSE "post_count")
    /\ UNCHANGED <<ref, ctl, sendQ, inflight, first, sendIO, recvIO, srv, jobs, loc>>

PostCount(t) ==
    /\ At(t, "post_count")
    /\ Goto(t, IF sendQ[cur[t]] = 0 THEN "post_unflag" ELSE "post_inc")
    /\ UNCHANGED <<ref, ctl, snd, recvIO, srv, jobs, loc>>

PostUnflag(t) ==
    /\ At(t, "post_unflag")
    /\ sendFlag' = [sendFlag EXCEPT ![cur[t]] = FALSE]
    /\ Goto(t, "post_recheck")
    /\ UNCHANGED <<ref, ctl, sendQ, inflight, first, sendIO, recvIO, srv, jobs, loc>>

(* Mutant: the queue is not looked at again after the flag is down. *)
PostGiveUp(t) ==
    /\ At(t, "post_recheck")
    /\ Goto(t, "drop")
    /\ UNCHANGED <<ref, ctl, snd, recvIO, srv, jobs, loc>>

PostRecheck(t) ==
    /\ At(t, "post_recheck")
    /\ Goto(t, IF sendQ[cur[t]] > 0 THEN "post_flag" ELSE "drop")
    /\ UNCHANGED <<ref, ctl, snd, recvIO, srv, jobs, loc>>

(* Mutant: the second count is not taken. *)
PostNoInc(t) ==
    /\ At(t, "post_inc")
    /\ Goto(t, "post_deq")
    /\ UNCHANGED <<ref, ctl, snd, recvIO, srv, jobs, loc>>

(* A second count, so that the session outlives the completion of its send. *)
PostInc(t) ==
    /\ At(t, "post_inc")
    /\ Increment(t)
    /\ Goto(t, "post_deq")
    /\ UNCHANGED <<released, id, ctl, snd, recvIO, srv, jobs, loc>>

PostDeq(t) ==
    /\ At(t, "post_deq")
    /\ inflight' = [inflight EXCEPT ![cur[t]] = sendQ[cur[t]]]
    /\ first' = [first EXCEPT ![cur[t]] = "packet"]
    /\ sendQ' = [sendQ EXCEPT ![cur[t]] = 0]
    /\ Goto(t, "post_cancel")
    /\ UNCHANGED <<ref, ctl, sendFlag, sendIO, recvIO, srv, jobs, loc>>

PostCancel(t) ==
    /\ At(t, "post_cancel")
    /\ Goto(t, IF cancel[cur[t]] THEN "drop2" ELSE "post_send")
    /\ UNCHANGED <<ref, ctl, snd, recvIO, srv, jobs, loc>>

(* Mutant: the flag comes down when the send is posted. *)
PostSendUnflags(t, failed) ==
    /\ At(t, "post_send")
    /\ sendIO' = [sendIO EXCEPT ![cur[t]] = IF failed THEN @ ELSE "pending"]
    /\ sendFlag' = [sendFlag EXCEPT ![cur[t]] = FALSE]
    /\ Goto(t, IF failed THEN "drop2" ELSE "drop")
    /\ UNCHANGED <<ref, ctl, sendQ, inflight, first, recvIO, srv, jobs, loc>>

(* WSASend: the acquired count passes to the posted send. *)
PostSend(t, failed) ==
    /\ At(t, "post_send")
    /\ sendIO' = [sendIO EXCEPT ![cur[t]] = IF failed THEN @ ELSE "pending"]
    /\ Goto(t, IF failed THEN "drop2" ELSE "drop")
    /\ UNCHANGED <<ref, ctl, sendFlag, sendQ, inflight, first, recvIO, srv, jobs, loc>>

(* Mutant: one decrement for the two counts. *)
DropOnce(t) ==
    /\ At(t, "drop2")
    /\ Decrement(t, IF io[t] THEN "final" ELSE "idle")
    /\ UNCHANGED <<released, id, ctl, snd, recvIO, srv, jobs, loc>>

(* The first of the two decrements of a send that was not posted. *)
Drop2(t) ==
    /\ At(t, "drop2")
    /\ nxt' = [nxt EXCEPT ![t] = "drop"]
    /\ Decrement(t, "drop")
    /\ UNCHANGED <<released, id, ctl, snd, recvIO, srv, jobs, op, arg, cur, io, gone>>

---------------------------------------------------------------------------
(* RecvPost, called by the worker that handled the previous receive. *)

(* Mutant: the next receive is not counted. *)
RpNoInc(t) ==
    /\ At(t, "rp_inc")
    /\ Goto(t, "rp_cancel")
    /\ UNCHANGED <<ref, ctl, snd, recvIO, srv, jobs, loc>>

RpInc(t) ==
    /\ At(t, "rp_inc")
    /\ Increment(t)
    /\ Goto(t, "rp_cancel")
    /\ UNCHANGED <<released, id, ctl, snd, recvIO, srv, jobs, loc>>

RpCancel(t) ==
    /\ At(t, "rp_cancel")
    /\ Goto(t, IF cancel[cur[t]] THEN "drop" ELSE "rp_issue")
    /\ UNCHANGED <<ref, ctl, snd, recvIO, srv, jobs, loc>>

RpIssue(t, failed) ==
    /\ At(t, "rp_issue")
    /\ recvIO' = [recvIO EXCEPT ![cur[t]] = IF failed THEN @ ELSE "pending"]
    /\ Goto(t, IF failed THEN "rp_fail" ELSE After(t))
    /\ UNCHANGED <<ref, ctl, snd, srv, jobs, loc>>

(* A hard error of WSARecv: the decrement must not be the last one. *)
RpFail(t) ==
    /\ At(t, "rp_fail")
    /\ ioCount' = [ioCount EXCEPT ![cur[t]] = @ - 1]
    /\ Goto(t, After(t))
    /\ UNCHANGED <<released, id, ctl, snd, recvIO, srv, jobs, loc>>

=============================================================================
