--------------------------- MODULE NetServerProof ---------------------------
(***************************************************************************)
(* The step lemmas of Awake (a _SendFlag that is up is somebody's who      *)
(* looks at the queue again, so that no packet is stranded), of Known and  *)
(* of Latest, that the invariant of NetServerInv is inductive, the         *)
(* theorems about the server that follow from it, and that NetServer       *)
(* implements SessionLife.                                                 *)
(***************************************************************************)
EXTENDS NetServerSessions

USE ThreadAssumption DEF Threads
USE DEF ref, ctl, snd, srv, loc, upd, net
USE DEF At, Goto, After, Decrement, Increment, Call, Enqueue, NextJob, SlotOf, Cancelled
USE DEF AcqPlaces, IOPlaces, OpenPlaces, AcceptPlaces, UsePlaces, Bodies, ReleasePlaces,
     RecvPlaces, SendPlaces

-----------------------------------------------------------------------------
(* FlagsUsed: a step of t after which every flag that is up has its reason. *)
FlagsAside(t) ==
    /\ Others(t)
    /\ \A s \in Slots : sendFlag'[s] =>
        \/ pc'[t] \in SendPlaces /\ cur'[t] = s
        \/ sendIO'[s] # "none"
        \/ Dead(s)'
        \/ sendFlag[s] /\ sendIO[s] = "none" /\ ~Dead(s) /\ ~(pc[t] \in SendPlaces /\ cur[t] = s)

LEMMA FlagsFrame ==
  ASSUME TypeOK, FlagsUsed, NEW t \in Threads, FlagsAside(t)
  PROVE  FlagsUsed'
<1> SUFFICES ASSUME NEW s \in Slots, sendFlag'[s], sendIO'[s] = "none", ~Dead(s)'
             PROVE  \E u \in Threads : pc'[u] \in SendPlaces /\ cur'[u] = s
  BY DEF FlagsUsed
<1>1. CASE pc'[t] \in SendPlaces /\ cur'[t] = s
  BY <1>1
<1>2. CASE sendFlag[s] /\ sendIO[s] = "none" /\ ~Dead(s) /\ ~(pc[t] \in SendPlaces /\ cur[t] = s)
  <2>1. PICK u \in Threads : pc[u] \in SendPlaces /\ cur[u] = s
    BY <1>2 DEF FlagsUsed
  <2>2. u # t
    BY <1>2, <2>1
  <2> QED BY <2>1, <2>2 DEF FlagsAside, Others
<1> QED BY <1>1, <1>2 DEF FlagsAside

(* The steps of the routines of NetSession. *)
LEMMA RoutineFlags ==
  ASSUME TypeOK, TypeOK', SendsFail, Shelved, FlagsUsed, NEW t \in Threads,
         Routine(t), UNCHANGED <<upd, net>>
  PROVE  FlagsAside(t)
<1>1. CASE AcqInc(t)
  BY <1>1 DEF TypeOK, FlagsAside, Others, Dead, AcqInc
<1>2. CASE AcqFlag(t)
  BY <1>2 DEF TypeOK, FlagsAside, Others, Dead, AcqFlag
<1>3. CASE AcqId(t)
  BY <1>3 DEF TypeOK, FlagsAside, Others, Dead, AcqId
<1>4. CASE AcqFail(t)
  BY <1>4 DEF TypeOK, FlagsAside, Others, Dead, AcqFail
<1>5. CASE Drop(t)
  BY <1>5 DEF TypeOK, FlagsAside, Others, Dead, Drop
<1>6. CASE RelCas(t)
  BY <1>6 DEF TypeOK, FlagsAside, Others, Dead, RelCas
<1>7. CASE RelPackets(t)
  BY <1>7 DEF TypeOK, FlagsAside, Others, Dead, RelPackets
<1>8. CASE RelClear(t)
  BY <1>8 DEF TypeOK, FlagsAside, Others, Dead, RelClear
<1>9. CASE RelPush(t)
  BY <1>9 DEF TypeOK, FlagsAside, Others, Dead, RelPush
<1>10. CASE RelLeave(t)
  BY <1>10 DEF TypeOK, FlagsAside, Others, Dead, RelLeave
<1>11. CASE Cancel(t)
  BY <1>11 DEF TypeOK, FlagsAside, Others, Dead, Cancel
<1>12. CASE EnQ(t)
  BY <1>12 DEF TypeOK, FlagsAside, Others, Dead, EnQ
<1>13. CASE Pqcs(t)
  BY <1>13 DEF TypeOK, FlagsAside, Others, Dead, Pqcs
<1>14. CASE Mark(t)
  BY <1>14 DEF TypeOK, FlagsAside, Others, Dead, Mark
<1>15. CASE PostFlag(t)
  BY <1>15 DEF TypeOK, FlagsAside, Others, Dead, PostFlag
<1>16. CASE PostCount(t)
  BY <1>16 DEF TypeOK, FlagsAside, Others, Dead, PostCount
<1>17. CASE PostUnflag(t)
  BY <1>17 DEF TypeOK, FlagsAside, Others, Dead, PostUnflag
<1>18. CASE PostRecheck(t)
  BY <1>18 DEF TypeOK, FlagsAside, Others, Dead, PostRecheck
<1>19. CASE PostInc(t)
  BY <1>19 DEF TypeOK, FlagsAside, Others, Dead, PostInc
<1>20. CASE PostDeq(t)
  BY <1>20 DEF TypeOK, FlagsAside, Others, Dead, PostDeq
<1>21. CASE PostCancel(t)
  BY <1>21 DEF TypeOK, FlagsAside, Others, Dead, PostCancel
<1>22. ASSUME NEW failed \in BOOLEAN, failed => peer[cur[t]] = "reset", PostSend(t, failed)
      PROVE  FlagsAside(t)
  BY <1>22 DEF TypeOK, FlagsAside, Others, Dead, PostSend
<1>23. CASE Drop2(t)
  BY <1>23 DEF TypeOK, FlagsAside, Others, Dead, Drop2
<1>24. CASE RpInc(t)
  BY <1>24 DEF TypeOK, FlagsAside, Others, Dead, RpInc
<1>25. CASE RpCancel(t)
  BY <1>25 DEF TypeOK, FlagsAside, Others, Dead, RpCancel
<1>26. ASSUME NEW failed \in BOOLEAN, failed => peer[cur[t]] = "reset", RpIssue(t, failed)
      PROVE  FlagsAside(t)
  BY <1>26 DEF TypeOK, FlagsAside, Others, Dead, RpIssue
<1>27. CASE RpFail(t)
  BY <1>27 DEF TypeOK, FlagsAside, Others, Dead, RpFail
<1> QED BY <1>1, <1>2, <1>3, <1>4, <1>5, <1>6, <1>7, <1>8, <1>9, <1>10, <1>11, <1>12, <1>13,
     <1>14, <1>15, <1>16, <1>17, <1>18, <1>19, <1>20, <1>21, <1>22, <1>23, <1>24, <1>25, <1>26,
     <1>27 DEF Routine

(* The same for the actions of the accept thread. *)
LEMMA AcceptFlags ==
  ASSUME TypeOK, TypeOK', SendsFail, Shelved, FlagsUsed, Accept
  PROVE  FlagsAside(Acceptor)
<1>1. ASSUME NEW s \in Slots, AccPop(s)
      PROVE  FlagsAside(Acceptor)
  BY <1>1 DEF TypeOK, FlagsAside, Others, Dead, AccPop, Shelved
<1>2. CASE AccId
  BY <1>2 DEF TypeOK, FlagsAside, Others, Dead, AccId
<1>3. CASE AccFlag
  BY <1>3 DEF TypeOK, FlagsAside, Others, Dead, AccFlag
<1>4. CASE AccUsed
  BY <1>4 DEF TypeOK, FlagsAside, Others, Dead, AccUsed
<1>5. CASE AccAttachFail
  BY <1>5 DEF TypeOK, FlagsAside, Others, Dead, AccAttachFail
<1>6. CASE AccJoin
  BY <1>6 DEF TypeOK, FlagsAside, Others, Dead, AccJoin
<1>7. ASSUME NEW failed \in BOOLEAN, AccRecv(failed)
      PROVE  FlagsAside(Acceptor)
  BY <1>7 DEF TypeOK, FlagsAside, Others, Dead, AccRecv
<1>8. CASE AccFail
  BY <1>8 DEF TypeOK, FlagsAside, Others, Dead, AccFail
<1> QED BY <1>1, <1>2, <1>3, <1>4, <1>5, <1>6, <1>7, <1>8 DEF Accept

(* The same for the actions of a worker. *)
LEMMA WorkFlags ==
  ASSUME TypeOK, TypeOK', SendsFail, Shelved, FlagsUsed, NEW w \in Workers, Work(w)
  PROVE  FlagsAside(w)
<1>1. ASSUME NEW s \in Slots, GetRecv(w, s)
      PROVE  FlagsAside(w)
  BY <1>1 DEF TypeOK, FlagsAside, Others, Dead, GetRecv
<1>2. ASSUME NEW s \in Slots, GetSend(w, s)
      PROVE  FlagsAside(w)
  BY <1>2 DEF TypeOK, FlagsAside, Others, Dead, GetSend, SendsFail
<1>3. ASSUME NEW i \in Ids, GetPost(w, i)
      PROVE  FlagsAside(w)
  BY <1>3 DEF TypeOK, FlagsAside, Others, Dead, GetPost
<1>4. ASSUME NEW kind \in Kinds, RecvMessage(w, kind)
      PROVE  FlagsAside(w)
  BY <1>4 DEF TypeOK, FlagsAside, Others, Dead, RecvMessage
<1>5. CASE RecvGarbage(w)
  BY <1>5 DEF TypeOK, FlagsAside, Others, Dead, RecvGarbage
<1>6. CASE RecvDone(w)
  BY <1>6 DEF TypeOK, FlagsAside, Others, Dead, RecvDone
<1>7. CASE SendComplete(w)
  BY <1>7 DEF TypeOK, FlagsAside, Others, Dead, SendComplete
<1>8. CASE Final(w)
  BY <1>8 DEF TypeOK, FlagsAside, Others, Dead, Final
<1> QED BY <1>1, <1>2, <1>3, <1>4, <1>5, <1>6, <1>7, <1>8 DEF Work

(* The same for the actions of the update thread. *)
LEMMA UpdateFlags ==
  ASSUME TypeOK, TypeOK', SendsFail, Shelved, FlagsUsed, Update
  PROVE  FlagsAside(Updater)
<1>1. CASE CreateNewUser
  BY <1>1 DEF TypeOK, FlagsAside, Others, Dead, CreateNewUser
<1>2. CASE DeleteUser
  BY <1>2 DEF TypeOK, FlagsAside, Others, Dead, DeleteUser
<1>3. CASE TimeOut
  BY <1>3 DEF TypeOK, FlagsAside, Others, Dead, TimeOut
<1>4. CASE BadMessage
  BY <1>4 DEF TypeOK, FlagsAside, Others, Dead, BadMessage
<1>5. ASSUME NEW recipients \in SUBSET clients, ChatMessage(recipients)
      PROVE  FlagsAside(Updater)
  BY <1>5, ChatMessageMoves DEF TypeOK, FlagsAside, Others, Dead, ChatMessage
<1>6. ASSUME NEW i \in Ids, SendNext(i)
      PROVE  FlagsAside(Updater)
  BY <1>6 DEF TypeOK, FlagsAside, Others, Dead, SendNext
<1> QED BY <1>1, <1>2, <1>3, <1>4, <1>5, <1>6 DEF Update

(* The same for the actions of the monitor thread. *)
LEMMA WatchFlags ==
  ASSUME TypeOK, TypeOK', SendsFail, Shelved, FlagsUsed, Watch
  PROVE  FlagsAside(Monitor)
<1>1. ASSUME NEW s \in Slots, MonUsed(s)
      PROVE  FlagsAside(Monitor)
  BY <1>1 DEF TypeOK, FlagsAside, Others, Dead, MonUsed
<1>2. CASE MonId
  BY <1>2 DEF TypeOK, FlagsAside, Others, Dead, MonId
<1>3. ASSUME NEW late \in BOOLEAN, MonExpire(late)
      PROVE  FlagsAside(Monitor)
  BY <1>3 DEF TypeOK, FlagsAside, Others, Dead, MonExpire
<1> QED BY <1>1, <1>2, <1>3 DEF Watch

(* The same for the actions of the kernel and the clients. *)
LEMMA KernelFlags ==
  ASSUME TypeOK, TypeOK', SendsFail, Shelved, FlagsUsed, Kernel
  PROVE  FlagsAside(Acceptor)
<1>1. ASSUME NEW s \in Slots, NEW how \in Closings, PeerClose(s, how)
      PROVE  FlagsAside(Acceptor)
  BY <1>1 DEF TypeOK, FlagsAside, Others, Dead, PeerClose
<1>2. ASSUME NEW s \in Slots, NEW result \in {"data", "fail", "eof"}, RecvComplete(s, result)
      PROVE  FlagsAside(Acceptor)
  BY <1>2 DEF TypeOK, FlagsAside, Others, Dead, RecvComplete
<1>3. ASSUME NEW s \in Slots, SendDone(s)
      PROVE  FlagsAside(Acceptor)
  BY <1>3 DEF TypeOK, FlagsAside, Others, Dead, SendDone
<1> QED BY <1>1, <1>2, <1>3 DEF Kernel

-----------------------------------------------------------------------------
(* Looked: a step of t after which somebody looks at every queue in use. *)
LookAside(t) ==
    /\ Others(t) /\ \A u \in Threads \ {t} : nxt'[u] = nxt[u] /\ op'[u] = op[u] /\ arg'[u] = arg[u]
    /\ UNCHANGED id
    /\ \A s \in Slots : Open(s)' /\ sendQ'[s] > 0 =>
        \/ posts'[id[s]] > 0 \/ WillLook(t, s)' \/ sendIO'[s] # "none" \/ Dead(s)'
        \/ \E u \in Threads \ {t} : WillLook(u, s)
        \/ /\ Open(s) /\ sendQ[s] > 0
           /\ ~(posts[id[s]] > 0) /\ ~WillLook(t, s) /\ sendIO[s] = "none" /\ ~Dead(s)

LEMMA LookFrame ==
  ASSUME TypeOK, \A s \in Slots : Looked(s), NEW t \in Threads, LookAside(t)
  PROVE  \A s \in Slots : Looked(s)'
<1> SUFFICES ASSUME NEW s \in Slots, Open(s)', sendQ'[s] > 0, ~(posts'[id'[s]] > 0), sendIO'[s] = "none", ~Dead(s)'
             PROVE  \E u \in Threads : WillLook(u, s)'
  BY DEF Looked
<1>1. CASE WillLook(t, s)'
  BY <1>1
<1>2. ASSUME NEW u \in Threads \ {t}, WillLook(u, s)
      PROVE  WillLook(u, s)'
  BY <1>2 DEF LookAside, Others, WillLook
<1>3. CASE /\ Open(s) /\ sendQ[s] > 0
           /\ ~(posts[id[s]] > 0) /\ ~WillLook(t, s) /\ sendIO[s] = "none" /\ ~Dead(s)
  <2>1. PICK u \in Threads : WillLook(u, s)
    BY <1>3 DEF Looked
  <2>2. u \in Threads \ {t}
    BY <1>3, <2>1
  <2> QED BY <1>2, <2>2, <2>1
<1> QED BY <1>1, <1>2, <1>3 DEF LookAside

(* The new ID is stored in a slot that is not open yet. *)
LEMMA AccIdLooked ==
  ASSUME TypeOK, \A s \in Slots : Looked(s), AccId
  PROVE  \A s \in Slots : Looked(s)'
<1> SUFFICES ASSUME NEW s \in Slots, Open(s)'
             PROVE  Looked(s)'
  BY DEF Looked
<1>1. /\ pc[Acceptor] = "acc_id" /\ pc'[Acceptor] = "acc_flag" /\ \A u \in Threads \ {Acceptor} : pc'[u] = pc[u]
      /\ \A r \in Slots : r # cur[Acceptor] => id'[r] = id[r]
      /\ UNCHANGED <<cur, nxt, op, arg, released, sendQ, posts, sendIO, cancel, peer>>
  BY DEF AccId, TypeOK
<1>2. s # cur[Acceptor]
  BY <1>1 DEF Open, Opening
<1>3. id'[s] = id[s] /\ Open(s)
  BY <1>1, <1>2 DEF Open, Opening
<1>4. ASSUME NEW u \in Threads, WillLook(u, s)
      PROVE  WillLook(u, s)'
  BY <1>1, <1>3, <1>4 DEF WillLook
<1> QED BY <1>1, <1>3, <1>4 DEF Looked, Dead

(* The next client gets a slot that is not open. *)
LEMMA AccPopLooked ==
  ASSUME TypeOK, Issued, Ownership, Errands, NEW s \in Slots, AccPop(s)
  PROVE  LookAside(Acceptor)
<1>1. /\ pc[Acceptor] = "idle" /\ pc'[Acceptor] = "acc_id" /\ cur'[Acceptor] = s
      /\ \A u \in Threads \ {Acceptor} : pc'[u] = pc[u] /\ cur'[u] = cur[u]
      /\ \A r \in Slots \ {s} : peer'[r] = peer[r]
      /\ UNCHANGED <<nxt, op, arg, io, id, released, sendQ, posts, sendIO, cancel>>
  BY DEF AccPop, TypeOK
<1>2. ~Open(s)'
  BY <1>1 DEF Open, Opening
<1>3. \A r \in Slots \ {s} : Open(r)' => Open(r)
  BY <1>1 DEF Open, Opening
<1>4. \A r \in Slots : ~WillLook(Acceptor, r)
  BY <1>1 DEF WillLook, Errands
<1> QED BY <1>1, <1>2, <1>3, <1>4 DEF LookAside, Others, Dead

LEMMA ChatMessageLooked ==
  ASSUME TypeOK, Errands, NEW recipients \in SUBSET clients, ChatMessage(recipients)
  PROVE  LookAside(Updater)
<1>1. /\ pc[Updater] = "idle" /\ pc'[Updater] \in {"idle", "acq_inc"} /\ Others(Updater)
      /\ \A u \in Threads \ {Updater} : arg'[u] = arg[u] /\ op'[u] = op[u]
  <2>1. CASE Head(jobs).kind = "bye"
    BY <2>1, ChatMessageMoves DEF TypeOK, ChatMessage
  <2>2. CASE Head(jobs).kind # "bye"
    BY <2>2, ChatMessageMoves DEF ChatMessage
  <2> QED BY <2>1, <2>2
<1>2. UNCHANGED <<nxt, id, released, sendQ, posts, sendIO, cancel, peer>>
  BY DEF ChatMessage
<1>3. \A r \in Slots : ~WillLook(Updater, r)
  BY <1>1 DEF WillLook, Errands
<1>4. \A r \in Slots : Open(r)' => Open(r)
  BY <1>1, <1>2 DEF Open, Opening, Others
<1> QED BY <1>1, <1>2, <1>3, <1>4 DEF LookAside, Dead

(* AcquireSession for a session that is open goes through. *)
LEMMA AcquireLooked ==
  ASSUME TypeOK, Issued, Errands, NEW t \in Threads, AcqFlag(t) \/ AcqId(t),
         UNCHANGED <<upd, net>>
  PROVE  LookAside(t)
<1>1. PICK s \in Slots : s = cur[t] /\ s = arg[t][1]
  BY DEF TypeOK, Errands, AcqFlag, AcqId
<1>2. /\ \/ pc[t] = "acq_flag" /\ pc'[t] = IF released[s] THEN "acq_fail" ELSE "acq_id"
         \/ pc[t] = "acq_id" /\ pc'[t] = IF id[s] # arg[t] THEN "acq_fail" ELSE op[t]
      /\ \A u \in Threads \ {t} : pc'[u] = pc[u]
      /\ UNCHANGED <<nxt, op, arg, cur, io, id, released, sendQ, posts, sendIO, cancel, peer>>
  BY <1>1 DEF AcqFlag, AcqId, TypeOK
<1>3. op[t] \in Bodies
  BY DEF TypeOK
<1>4. \A r \in Slots : Open(r)' => Open(r)
  BY <1>2, <1>3 DEF Open, Opening
<1>5. ASSUME NEW r \in Slots, Open(r), WillLook(t, r)
      PROVE  WillLook(t, r)'
  <2>1. CASE nxt[t] = "pqcs"
    BY <1>2, <1>5, <2>1 DEF Errands
  <2>2. CASE arg[t] = id[r] /\ op[t] = "post_flag"
    <3>1. r = s
      BY <1>1, <2>2 DEF Issued
    <3> QED BY <1>1, <1>2, <1>5, <2>2, <3>1 DEF WillLook, Open
  <2> QED BY <1>2, <1>5, <2>1, <2>2 DEF WillLook
<1> QED BY <1>2, <1>4, <1>5 DEF LookAside, Others, Dead

(* A flag that is up already is somebody's. *)
LEMMA PostFlagLooked ==
  ASSUME TypeOK, Errands, FlagsUsed, NEW t \in Threads, PostFlag(t),
         UNCHANGED <<upd, net>>
  PROVE  LookAside(t)
<1>1. PICK s \in Slots : s = cur[t]
  BY DEF TypeOK
<1>2. /\ pc[t] = "post_flag" /\ pc'[t] = IF sendFlag[s] THEN "drop" ELSE "post_count"
      /\ \A u \in Threads \ {t} : pc'[u] = pc[u]
      /\ UNCHANGED <<nxt, op, arg, cur, io, id, released, sendQ, posts, sendIO, cancel, peer>>
  BY <1>1 DEF PostFlag, TypeOK
<1>3. \A r \in Slots : Open(r)' => Open(r)
  BY <1>2 DEF Open, Opening
<1>4. \A r \in Slots : WillLook(t, r) => r = s
  BY <1>1, <1>2 DEF WillLook, Errands
<1>5. CASE sendFlag[s]
  <2>1. \/ \E u \in Threads \ {t} : WillLook(u, s)
        \/ sendIO[s] # "none"
        \/ Dead(s)
    BY <1>2, <1>5 DEF FlagsUsed, WillLook
  <2> QED BY <1>2, <1>3, <1>4, <2>1 DEF LookAside, Others, Dead
<1>6. CASE ~sendFlag[s]
  <2>1. WillLook(t, s)'
    BY <1>1, <1>2, <1>6 DEF WillLook
  <2> QED BY <1>2, <1>3, <1>4, <2>1 DEF LookAside, Others, Dead
<1> QED BY <1>5, <1>6

(* The ID is posted. *)
LEMMA PqcsLooked ==
  ASSUME TypeOK, Errands, NEW t \in Threads, Pqcs(t),
         UNCHANGED <<upd, net>>
  PROVE  LookAside(t)
<1>1. PICK i \in Ids : i = arg[t]
  BY DEF TypeOK
<1>2. /\ pc[t] = "pqcs" /\ pc'[t] = "idle" /\ posts'[i] > 0 /\ (\A j \in Ids \ {i} : posts'[j] = posts[j])
      /\ \A u \in Threads \ {t} : pc'[u] = pc[u] /\ nxt'[u] = nxt[u]
      /\ UNCHANGED <<op, arg, cur, io, id, released, sendQ, sendIO, cancel, peer>>
  BY <1>1 DEF Pqcs, TypeOK
<1>3. \A r \in Slots : id[r] \in Ids
  BY DEF TypeOK
<1>4. \A r \in Slots : Open(r)' => Open(r)
  BY <1>2 DEF Open, Opening
<1>5. \A r \in Slots : WillLook(t, r) => id[r] = i
  BY <1>1, <1>2 DEF WillLook
<1> QED BY <1>2, <1>3, <1>4, <1>5 DEF LookAside, Others, Dead

(* A send that completed is followed up, one that failed is on a dead slot. *)
LEMMA GetSendLooked ==
  ASSUME TypeOK, Errands, SendsFail, NEW w \in Workers, NEW s \in Slots, GetSend(w, s)
  PROVE  LookAside(w)
<1>1. /\ pc[w] = "idle" /\ pc'[w] = (IF sendIO[s] = "sent" THEN "sent" ELSE "final") /\ cur'[w] = s
      /\ sendIO[s] \in {"sent", "fail"} /\ \A r \in Slots \ {s} : sendIO'[r] = sendIO[r]
      /\ \A u \in Threads \ {w} : pc'[u] = pc[u] /\ cur'[u] = cur[u] /\ io'[u] = io[u]
      /\ UNCHANGED <<nxt, op, arg, id, released, sendQ, posts, cancel, peer>>
  BY DEF GetSend, TypeOK
<1>2. \A r \in Slots : Open(r)' => Open(r)
  BY <1>1 DEF Open, Opening
<1>3. \A r \in Slots : ~WillLook(w, r)
  BY <1>1 DEF WillLook, Errands
<1>4. WillLook(w, s)' \/ Dead(s)'
  BY <1>1 DEF WillLook, SendsFail, Dead
<1> QED BY <1>1, <1>2, <1>3, <1>4 DEF LookAside, Others, Dead

(* A send is posted, or it failed because the client has closed. *)
LEMMA PostSendLooked ==
  ASSUME TypeOK, Errands, NEW t \in Threads, NEW failed \in BOOLEAN, failed => peer[cur[t]] = "reset",
         PostSend(t, failed), UNCHANGED <<upd, net>>
  PROVE  LookAside(t)
<1>1. PICK s \in Slots : s = cur[t]
  BY DEF TypeOK
<1>2. /\ pc[t] = "post_send" /\ pc'[t] \in {"drop2", "drop"} /\ (failed \/ sendIO'[s] = "pending")
      /\ \A u \in Threads \ {t} : pc'[u] = pc[u]
      /\ \A r \in Slots \ {s} : sendIO'[r] = sendIO[r]
      /\ UNCHANGED <<nxt, op, arg, cur, io, id, released, sendQ, posts, cancel, peer>>
  BY <1>1 DEF PostSend, TypeOK
<1>3. \A r \in Slots : Open(r)' => Open(r)
  BY <1>2 DEF Open, Opening
<1>4. sendIO'[s] # "none" \/ Dead(s)'
  BY <1>1, <1>2 DEF Dead
<1>5. \A r \in Slots : WillLook(t, r) => r = s
  BY <1>1, <1>2 DEF WillLook, Errands
<1> QED BY <1>2, <1>3, <1>4, <1>5 DEF LookAside, Others, Dead

(* The steps of the routines of NetSession. *)
LEMMA RoutineLooked ==
  ASSUME TypeOK, TypeOK', Control, Issued, Ownership, Lifetime,
         Errands, FlagsUsed, SendsFail, Shelved, \A r \in Slots : Looked(r), NEW t \in Threads,
         Routine(t), UNCHANGED <<upd, net>>
  PROVE  LookAside(t)
<1>1. CASE AcqInc(t)
  BY <1>1 DEF TypeOK, Errands, LookAside, Others, WillLook, Open, Opening, Dead, AcqInc
<1>2. CASE AcqFlag(t)
  BY <1>2, AcquireLooked
<1>3. CASE AcqId(t)
  BY <1>3, AcquireLooked
<1>4. CASE AcqFail(t)
  BY <1>4 DEF TypeOK, Errands, LookAside, Others, WillLook, Open, Opening, Dead, AcqFail
<1>5. CASE Drop(t)
  BY <1>5 DEF TypeOK, Errands, LookAside, Others, WillLook, Open, Opening, Dead, Drop
<1>6. CASE RelCas(t)
  BY <1>6 DEF TypeOK, Errands, LookAside, Others, WillLook, Open, Opening, Dead, RelCas
<1>7. CASE RelPackets(t)
  BY <1>7 DEF TypeOK, Errands, LookAside, Others, WillLook, Open, Opening, Dead, RelPackets
<1>8. CASE RelClear(t)
  BY <1>8 DEF TypeOK, Errands, LookAside, Others, WillLook, Open, Opening, Dead, RelClear,
     Ownership
<1>9. CASE RelPush(t)
  BY <1>9 DEF TypeOK, Errands, LookAside, Others, WillLook, Open, Opening, Dead, RelPush
<1>10. CASE RelLeave(t)
  BY <1>10 DEF TypeOK, Errands, LookAside, Others, WillLook, Open, Opening, Dead, RelLeave
<1>11. CASE Cancel(t)
  BY <1>11 DEF TypeOK, Errands, LookAside, Others, WillLook, Open, Opening, Dead, Cancel
<1>12. CASE EnQ(t)
  BY <1>12 DEF TypeOK, Errands, LookAside, Others, WillLook, Open, Opening, Dead, EnQ, Lifetime,
     NoUseAfterRelease
<1>13. CASE Pqcs(t)
  BY <1>13, PqcsLooked
<1>14. CASE Mark(t)
  BY <1>14 DEF TypeOK, Errands, LookAside, Others, WillLook, Open, Opening, Dead, Mark
<1>15. CASE PostFlag(t)
  BY <1>15, PostFlagLooked
<1>16. CASE PostCount(t)
  BY <1>16 DEF TypeOK, Errands, LookAside, Others, WillLook, Open, Opening, Dead, PostCount
<1>17. CASE PostUnflag(t)
  BY <1>17 DEF TypeOK, Errands, LookAside, Others, WillLook, Open, Opening, Dead, PostUnflag
<1>18. CASE PostRecheck(t)
  BY <1>18 DEF TypeOK, Errands, LookAside, Others, WillLook, Open, Opening, Dead, PostRecheck
<1>19. CASE PostInc(t)
  BY <1>19 DEF TypeOK, Errands, LookAside, Others, WillLook, Open, Opening, Dead, PostInc
<1>20. CASE PostDeq(t)
  BY <1>20, SMTT(40) DEF TypeOK, Errands, LookAside, Others, WillLook, Open, Opening, Dead, PostDeq
<1>21. CASE PostCancel(t)
  BY <1>21, SMTT(40) DEF TypeOK, Errands, LookAside, Others, WillLook, Open, Opening, Dead, PostCancel
<1>22. ASSUME NEW failed \in BOOLEAN, failed => peer[cur[t]] = "reset", PostSend(t, failed)
      PROVE  LookAside(t)
  BY <1>22, PostSendLooked
<1>23. CASE Drop2(t)
  BY <1>23 DEF TypeOK, Errands, LookAside, Others, WillLook, Open, Opening, Dead, Drop2
<1>24. CASE RpInc(t)
  BY <1>24 DEF TypeOK, Errands, LookAside, Others, WillLook, Open, Opening, Dead, RpInc
<1>25. CASE RpCancel(t)
  BY <1>25 DEF TypeOK, Errands, LookAside, Others, WillLook, Open, Opening, Dead, RpCancel
<1>26. ASSUME NEW failed \in BOOLEAN, failed => peer[cur[t]] = "reset", RpIssue(t, failed)
      PROVE  LookAside(t)
  BY <1>26 DEF TypeOK, Errands, LookAside, Others, WillLook, Open, Opening, Dead, RpIssue
<1>27. CASE RpFail(t)
  BY <1>27 DEF TypeOK, Errands, LookAside, Others, WillLook, Open, Opening, Dead, RpFail
<1> QED BY <1>1, <1>2, <1>3, <1>4, <1>5, <1>6, <1>7, <1>8, <1>9, <1>10, <1>11, <1>12, <1>13,
     <1>14, <1>15, <1>16, <1>17, <1>18, <1>19, <1>20, <1>21, <1>22, <1>23, <1>24, <1>25, <1>26,
     <1>27 DEF Routine

(* The same for the actions of the accept thread. *)
LEMMA AcceptLooked ==
  ASSUME TypeOK, TypeOK', Control, Issued, Ownership, Lifetime,
         Errands, FlagsUsed, SendsFail, Shelved, \A r \in Slots : Looked(r), Accept
  PROVE  LookAside(Acceptor) \/ \A r \in Slots : Looked(r)'
<1>1. ASSUME NEW s \in Slots, AccPop(s)
      PROVE  LookAside(Acceptor) \/ \A r \in Slots : Looked(r)'
  BY <1>1, AccPopLooked
<1>2. CASE AccId
  BY <1>2, AccIdLooked
<1>3. CASE AccFlag
  BY <1>3 DEF TypeOK, Errands, LookAside, Others, WillLook, Open, Opening, Dead, AccFlag,
     Shelved
<1>4. CASE AccUsed
  BY <1>4 DEF TypeOK, Errands, LookAside, Others, WillLook, Open, Opening, Dead, AccUsed
<1>5. CASE AccAttachFail
  BY <1>5 DEF TypeOK, Errands, LookAside, Others, WillLook, Open, Opening, Dead, AccAttachFail
<1>6. CASE AccJoin
  BY <1>6 DEF TypeOK, Errands, LookAside, Others, WillLook, Open, Opening, Dead, AccJoin
<1>7. ASSUME NEW failed \in BOOLEAN, AccRecv(failed)
      PROVE  LookAside(Acceptor) \/ \A r \in Slots : Looked(r)'
  BY <1>7 DEF TypeOK, Errands, LookAside, Others, WillLook, Open, Opening, Dead, AccRecv
<1>8. CASE AccFail
  BY <1>8 DEF TypeOK, Errands, LookAside, Others, WillLook, Open, Opening, Dead, AccFail
<1> QED BY <1>1, <1>2, <1>3, <1>4, <1>5, <1>6, <1>7, <1>8 DEF Accept

(* The same for the actions of a worker. *)
LEMMA WorkLooked ==
  ASSUME TypeOK, TypeOK', Control, Issued, Ownership, Lifetime,
         Errands, FlagsUsed, SendsFail, Shelved, \A r \in Slots : Looked(r), NEW w \in Workers, Work(w)
  PROVE  LookAside(w)
<1>1. ASSUME NEW s \in Slots, GetRecv(w, s)
      PROVE  LookAside(w)
  BY <1>1 DEF TypeOK, Errands, LookAside, Others, WillLook, Open, Opening, Dead, GetRecv
<1>2. ASSUME NEW s \in Slots, GetSend(w, s)
      PROVE  LookAside(w)
  BY <1>2, GetSendLooked
<1>3. ASSUME NEW i \in Ids, GetPost(w, i)
      PROVE  LookAside(w)
  BY <1>3 DEF TypeOK, Errands, LookAside, Others, WillLook, Open, Opening, Dead, GetPost
<1>4. ASSUME NEW kind \in Kinds, RecvMessage(w, kind)
      PROVE  LookAside(w)
  BY <1>4 DEF TypeOK, Errands, LookAside, Others, WillLook, Open, Opening, Dead, RecvMessage
<1>5. CASE RecvGarbage(w)
  BY <1>5 DEF TypeOK, Errands, LookAside, Others, WillLook, Open, Opening, Dead, RecvGarbage
<1>6. CASE RecvDone(w)
  BY <1>6 DEF TypeOK, Errands, LookAside, Others, WillLook, Open, Opening, Dead, RecvDone
<1>7. CASE SendComplete(w)
  BY <1>7 DEF TypeOK, Errands, LookAside, Others, WillLook, Open, Opening, Dead, SendComplete
<1>8. CASE Final(w)
  BY <1>8 DEF TypeOK, Errands, LookAside, Others, WillLook, Open, Opening, Dead, Final
<1> QED BY <1>1, <1>2, <1>3, <1>4, <1>5, <1>6, <1>7, <1>8 DEF Work

(* The same for the actions of the update thread. *)
LEMMA UpdateLooked ==
  ASSUME TypeOK, TypeOK', Control, Issued, Ownership, Lifetime,
         Errands, FlagsUsed, SendsFail, Shelved, \A r \in Slots : Looked(r), Update
  PROVE  LookAside(Updater)
<1>1. CASE CreateNewUser
  BY <1>1 DEF TypeOK, Errands, LookAside, Others, WillLook, Open, Opening, Dead, CreateNewUser
<1>2. CASE DeleteUser
  BY <1>2 DEF TypeOK, Errands, LookAside, Others, WillLook, Open, Opening, Dead, DeleteUser
<1>3. CASE TimeOut
  BY <1>3 DEF TypeOK, Errands, LookAside, Others, WillLook, Open, Opening, Dead, TimeOut
<1>4. CASE BadMessage
  BY <1>4 DEF TypeOK, Errands, LookAside, Others, WillLook, Open, Opening, Dead, BadMessage
<1>5. ASSUME NEW recipients \in SUBSET clients, ChatMessage(recipients)
      PROVE  LookAside(Updater)
  BY <1>5, ChatMessageLooked
<1>6. ASSUME NEW i \in Ids, SendNext(i)
      PROVE  LookAside(Updater)
  BY <1>6 DEF TypeOK, Errands, LookAside, Others, WillLook, Open, Opening, Dead, SendNext
<1> QED BY <1>1, <1>2, <1>3, <1>4, <1>5, <1>6 DEF Update

(* The same for the actions of the monitor thread. *)
LEMMA WatchLooked ==
  ASSUME TypeOK, TypeOK', Control, Issued, Ownership, Lifetime,
         Errands, FlagsUsed, SendsFail, Shelved, \A r \in Slots : Looked(r), Watch
  PROVE  LookAside(Monitor)
<1>1. ASSUME NEW s \in Slots, MonUsed(s)
      PROVE  LookAside(Monitor)
  BY <1>1 DEF TypeOK, Errands, LookAside, Others, WillLook, Open, Opening, Dead, MonUsed
<1>2. CASE MonId
  BY <1>2 DEF TypeOK, Errands, LookAside, Others, WillLook, Open, Opening, Dead, MonId
<1>3. ASSUME NEW late \in BOOLEAN, MonExpire(late)
      PROVE  LookAside(Monitor)
  BY <1>3 DEF TypeOK, Errands, LookAside, Others, WillLook, Open, Opening, Dead, MonExpire
<1> QED BY <1>1, <1>2, <1>3 DEF Watch

(* The same for the actions of the kernel and the clients. *)
LEMMA KernelLooked ==
  ASSUME TypeOK, TypeOK', Control, Issued, Ownership, Lifetime,
         Errands, FlagsUsed, SendsFail, Shelved, \A r \in Slots : Looked(r), Kernel
  PROVE  LookAside(Acceptor)
<1>1. ASSUME NEW s \in Slots, NEW how \in Closings, PeerClose(s, how)
      PROVE  LookAside(Acceptor)
  BY <1>1 DEF TypeOK, Errands, LookAside, Others, WillLook, Open, Opening, Dead, PeerClose
<1>2. ASSUME NEW s \in Slots, NEW result \in {"data", "fail", "eof"}, RecvComplete(s, result)
      PROVE  LookAside(Acceptor)
  BY <1>2 DEF TypeOK, Errands, LookAside, Others, WillLook, Open, Opening, Dead, RecvComplete
<1>3. ASSUME NEW s \in Slots, SendDone(s)
      PROVE  LookAside(Acceptor)
  BY <1>3 DEF TypeOK, Errands, LookAside, Others, WillLook, Open, Opening, Dead, SendDone
<1> QED BY <1>1, <1>2, <1>3 DEF Kernel

-----------------------------------------------------------------------------
(* Every step keeps Awake. *)
LEMMA AwakeStep ==
  ASSUME TypeOK, TypeOK', Control, Issued, Ownership, Owned, Lifetime, Known, GatherEmpty, Awake, [Next]_vars
  PROVE  Awake'
<1> USE DEF Awake
<1>1. CASE Crashes \/ UNCHANGED vars
  <2>1. UNCHANGED <<ref, ctl, snd, srv, pc, loc, net>>
    BY <1>1 DEF Crashes, vars
  <2>2. Errands' /\ SendsFail' /\ Shelved' /\ FlagsUsed'
    BY <2>1 DEF Errands, SendsFail, Shelved, FlagsUsed, Dead
  <2>3. \A r \in Slots : Looked(r)'
    BY <2>1 DEF Looked, Open, Opening, Dead, WillLook
  <2> QED BY <2>2, <2>3
<1>2. CASE Kernel
  <2>1. Errands' /\ SendsFail' /\ Shelved'
    BY <1>2, KernelErrands, KernelFails, KernelShelved
  <2>2. FlagsUsed'
    BY <1>2, KernelFlags, FlagsFrame
  <2>3. \A r \in Slots : Looked(r)'
    BY <1>2, KernelLooked, LookFrame
  <2> QED BY <2>1, <2>2, <2>3
<1>3. ASSUME NEW t \in Threads, ThreadStep(t)
      PROVE  Awake'
  <2>1. Errands'
    BY <1>3, RoutineErrands, AcceptErrands, WorkErrands, UpdateErrands, WatchErrands DEF ThreadStep
  <2>2. SendsFail'
    BY <1>3, RoutineFails, AcceptFails, WorkFails, UpdateFails, WatchFails DEF ThreadStep
  <2>3. Shelved'
    BY <1>3, RoutineShelved, AcceptShelved, WorkShelved, UpdateShelved, WatchShelved DEF ThreadStep
  <2>4. \E u \in Threads : FlagsAside(u)
    BY <1>3, RoutineFlags, AcceptFlags, WorkFlags, UpdateFlags, WatchFlags DEF ThreadStep
  <2>5. FlagsUsed'
    BY <2>4, FlagsFrame
  <2>6. (\E u \in Threads : LookAside(u)) \/ \A r \in Slots : Looked(r)'
    BY <1>3, RoutineLooked, AcceptLooked, WorkLooked, UpdateLooked, WatchLooked DEF ThreadStep
  <2>7. \A r \in Slots : Looked(r)'
    BY <2>6, LookFrame
  <2> QED BY <2>1, <2>2, <2>3, <2>5, <2>7
<1> QED BY <1>1, <1>2, <1>3 DEF Next

(* In the beginning every queue is empty and, if the heap's bytes are 0, no flag is up. *)
LEMMA InitAwake ==
  ASSUME HeapFlags \subseteq {FALSE}, Init
  PROVE  Awake
<1>1. \A t \in Threads : pc[t] = "idle" /\ nxt[t] = "ret"
  BY DEF Init
<1>2. \A s \in Slots : sendQ[s] = 0 /\ ~sendFlag[s] /\ sendIO[s] = "none"
  BY DEF Init
<1>3. freeIdx \subseteq Slots
  BY DEF Init
<1> QED BY <1>1, <1>2, <1>3 DEF Awake, Errands, FlagsUsed, SendsFail, Shelved, Looked

-----------------------------------------------------------------------------
(* A slot a thread uses has been opened. *)
LEMMA InUseOpened ==
  ASSUME TypeOK, Issued, Lifetime, Known, NEW t \in Threads, pc[t] \in UsePlaces
  PROVE  cur[t] \in Slots /\ id[cur[t]] = arg[t] /\ cur[t] = arg[t][1] /\ ~Unopened(cur[t])
BY DEF TypeOK, Issued, Lifetime, NoUseAfterRelease, Known

(* A slot whose receive is not the prepaid one has been opened. *)
LEMMA RecvOpened ==
  ASSUME TypeOK, Issued, Ownership, NEW s \in Slots, recvIO[s] # "prepaid"
  PROVE  ~Unopened(s)
BY DEF Issued, Ownership, Unopened, Opening

(* So is one that AcceptUser goes on with. *)
LEMMA AcceptOpened ==
  ASSUME TypeOK, Issued, pc[Acceptor] \in AcceptPlaces
  PROVE  cur[Acceptor] \in Slots /\ ~Unopened(cur[Acceptor]) /\ id[cur[Acceptor]][1] = cur[Acceptor]
BY DEF TypeOK, Issued, Unopened, Opening

(* The jobs of m_ThreadQ, when one is taken and when one is added. *)
LEMMA HeadKnown ==
  ASSUME TypeOK, Known, jobs # <<>>
  PROVE  /\ JobsKnown(Tail(jobs))
         /\ Head(jobs).type # "leave" => ~Unopened(Head(jobs).id[1])
<1>1. JobsKnown(jobs) /\ jobs \in Seq(Job)
  BY DEF Known, JobsKnown, TypeOK
<1>2. Head(jobs) = jobs[1] /\ 1 \in DOMAIN jobs
  BY <1>1
<1>3. \A k \in DOMAIN Tail(jobs) : k + 1 \in DOMAIN jobs /\ Tail(jobs)[k] = jobs[k + 1]
  BY <1>1
<1> QED BY <1>1, <1>2, <1>3 DEF JobsKnown

(* A job that is added may name an opened slot, or be a leave. *)
LEMMA EnqueueKnown ==
  ASSUME TypeOK, Known, NEW type, NEW i, NEW kind, type = "leave" \/ ~Unopened(i[1])
  PROVE  JobsKnown(Append(jobs, [type |-> type, id |-> i, kind |-> kind]))
<1> DEFINE job == [type |-> type, id |-> i, kind |-> kind]
<1>1. JobsKnown(jobs) /\ jobs \in Seq(Job)
  BY DEF Known, JobsKnown, TypeOK
<1>2. job.type = type /\ job.id = i
  OBVIOUS
<1> HIDE DEF job
<1>3. \A k \in DOMAIN Append(jobs, job) :
        \/ k \in DOMAIN jobs /\ Append(jobs, job)[k] = jobs[k]
        \/ Append(jobs, job)[k] = job
  BY <1>1
<1>4. JobsKnown(Append(jobs, job))
  BY <1>1, <1>2, <1>3 DEF JobsKnown
<1> QED BY <1>4 DEF job

(* A step of t that opens no slot and names only slots that have been opened. *)
KnownAside(t) ==
    /\ Others(t) /\ \A u \in Threads \ {t} : arg'[u] = arg[u] /\ nxt'[u] = nxt[u]
    /\ pc'[t] \in AcqPlaces \cup UsePlaces => ~Unopened(arg'[t][1])
    /\ nxt'[t] = "pqcs" => ~Unopened(arg'[t][1])
    /\ pc'[t] = "mon_id" \/ io'[t] => ~Unopened(cur'[t])
    /\ \/ t # Acceptor
       \/ pc[t] \notin OpenPlaces /\ pc'[t] \notin OpenPlaces
       \/ pc'[t] = pc[t] /\ cur'[t] = cur[t]
    /\ UNCHANGED <<id, serial>>
    /\ \A s \in Slots : released[s] => released'[s]
    /\ (\E u \in Threads : RelCas(u)) \/ UNCHANGED released
    /\ \A i \in Ids : posts'[i] > 0 => posts[i] > 0 \/ ~Unopened(i[1])
    /\ \A i \in clients' \cup todo' : i \in clients \cup todo \/ ~Unopened(i[1])
    /\ JobsKnown(jobs')
    /\ \A s \in Slots : Unopened(s) => ~used'[s] /\ sendIO'[s] = "none"

(* The three that open a slot. *)
Opens == (\E s \in Slots : AccPop(s)) \/ AccId \/ AccFlag

(* Such a step keeps Known and Latest. *)
LEMMA KnownFrame ==
  ASSUME TypeOK, TypeOK', Known, Latest, NEW t \in Threads, KnownAside(t)
  PROVE  Known' /\ Latest'
<1>1. \A s \in Slots : Opening(s)' <=> Opening(s)
  BY DEF KnownAside, Others, Opening
<1>2. \A s \in Slots : Unopened(s)' => Unopened(s)
  BY <1>1 DEF KnownAside, Unopened, Virgin, TypeOK
<1>3. \A u \in Threads : cur'[u] \in Slots /\ arg'[u][1] \in Slots
  BY DEF TypeOK, Ids
<1>4. \A u \in Threads :
        /\ pc'[u] \in AcqPlaces \cup UsePlaces => ~Unopened(arg'[u][1])
        /\ nxt'[u] = "pqcs" => ~Unopened(arg'[u][1])
        /\ pc'[u] = "mon_id" \/ io'[u] => ~Unopened(cur'[u])
  BY DEF KnownAside, Others, Known
<1>5. \A i \in Ids : i[1] \in Slots
  BY DEF Ids
<1>6. \A u \in Threads :
        /\ pc'[u] \in AcqPlaces \cup UsePlaces => ~Unopened(arg[u][1])'
        /\ nxt'[u] = "pqcs" => ~Unopened(arg[u][1])'
        /\ pc'[u] = "mon_id" \/ io'[u] => ~Unopened(cur[u])'
  BY <1>2, <1>3, <1>4
<1>7. \A i \in Ids : posts'[i] > 0 => ~Unopened(i[1])'
  BY <1>2, <1>5 DEF KnownAside, Known
<1>8. \A i \in clients' \cup todo' : ~Unopened(i[1])'
  BY <1>2, <1>5 DEF KnownAside, Known, TypeOK
<1>9. JobsKnown(jobs)'
  <2>1. JobsKnown(jobs')
    BY DEF KnownAside
  <2>2. \A k \in DOMAIN jobs' : jobs'[k] \in Job /\ jobs'[k].id \in Ids
    <3>1. jobs' \in Seq(Job)
      BY DEF TypeOK
    <3>2. \A k \in DOMAIN jobs' : jobs'[k] \in Job
      BY <3>1
    <3> QED BY <3>2 DEF Job
  <2>3. \A k \in DOMAIN jobs' : jobs'[k].type # "leave" => ~Unopened(jobs[k].id[1])'
    BY <1>2, <1>5, <2>1, <2>2 DEF JobsKnown
  <2> QED BY <2>3 DEF JobsKnown
<1>10. \A s \in Slots : Unopened(s)' => ~used'[s] /\ sendIO'[s] = "none"
  BY <1>2 DEF KnownAside
<1>11. Known'
  BY <1>6, <1>7, <1>8, <1>9, <1>10 DEF Known
<1>12. Latest'
  BY DEF Latest, KnownAside, Others
<1> QED BY <1>11, <1>12

(* The steps that put a job into m_ThreadQ, or pass a message on. *)
LEMMA RecvMessageKnown ==
  ASSUME TypeOK, Control, Issued, Known, NEW w \in Workers, NEW kind \in Kinds, RecvMessage(w, kind)
  PROVE  KnownAside(w)
<1>1. io[w] /\ cur[w] \in Slots /\ id[cur[w]][1] = cur[w] /\ ~Unopened(cur[w])
  BY DEF TypeOK, Control, Issued, Known, RecvMessage
<1>2. jobs' = Append(jobs, [type |-> "message", id |-> id[cur[w]], kind |-> kind])
  BY DEF RecvMessage
<1>3. JobsKnown(jobs')
  BY <1>1, <1>2, EnqueueKnown
<1> QED BY <1>3 DEF TypeOK, Control, Known, KnownAside, Others, RecvMessage

(* The monitor reports the session it has acquired. *)
LEMMA MonExpireKnown ==
  ASSUME TypeOK, Control, Issued, Lifetime, Known, NEW late \in BOOLEAN, MonExpire(late)
  PROVE  KnownAside(Monitor)
<1>1. id[cur[Monitor]][1] = cur[Monitor] /\ ~Unopened(cur[Monitor])
  BY InUseOpened DEF Issued, MonExpire
<1>2. JobsKnown(jobs')
  <2>1. CASE late
    <3>1. jobs' = Append(jobs, [type |-> "timeout", id |-> id[cur[Monitor]], kind |-> "none"])
      BY <2>1 DEF MonExpire
    <3> QED BY <1>1, <3>1, EnqueueKnown
  <2>2. CASE ~late
    BY <2>2 DEF MonExpire, Known
  <2> QED BY <2>1, <2>2
<1> QED BY <1>2 DEF TypeOK, Control, Known, KnownAside, Others, MonExpire

(* A message is sent on to clients, and marks its sender. *)
LEMMA ChatMessageKnown ==
  ASSUME TypeOK, Control, Known, NEW recipients \in SUBSET clients, ChatMessage(recipients)
  PROVE  KnownAside(Updater)
<1>1. /\ pc[Updater] = "idle" /\ pc'[Updater] \in {"idle", "acq_inc"}
      /\ Others(Updater) /\ \A u \in Threads \ {Updater} : arg'[u] = arg[u]
  BY ChatMessageMoves
<1>2. jobs # <<>> /\ Head(jobs).type = "message" /\ jobs' = Tail(jobs)
  BY DEF ChatMessage
<1>3. JobsKnown(jobs') /\ ~Unopened(Head(jobs).id[1])
  BY <1>2, HeadKnown
<1>4. pc'[Updater] = "acq_inc" => arg'[Updater] = Head(jobs).id
  BY <1>1 DEF ChatMessage, TypeOK
<1>5. nxt[Updater] # "pqcs" \/ arg'[Updater] = arg[Updater] \/ arg'[Updater] = Head(jobs).id
  BY DEF ChatMessage, TypeOK
<1>6. ~io'[Updater] /\ UNCHANGED <<nxt, io, released, id, serial, posts, clients, used, sendIO>>
  BY <1>1 DEF ChatMessage, Control
<1>7. todo' \subseteq clients
  BY DEF ChatMessage
<1> QED BY <1>1, <1>3, <1>4, <1>5, <1>6, <1>7 DEF Known, KnownAside, Others

(* WSASend is called for a session. *)
LEMMA PostSendKnown ==
  ASSUME TypeOK, Issued, Lifetime, Known, NEW t \in Threads, NEW failed \in BOOLEAN,
         PostSend(t, failed), UNCHANGED <<upd, net>>
  PROVE  KnownAside(t)
<1>1. PICK s \in Slots : s = cur[t]
  BY DEF TypeOK
<1>2. ~Unopened(s)
  BY <1>1, InUseOpened DEF PostSend
<1>3. /\ pc'[t] \in {"drop2", "drop"} /\ pc[t] = "post_send"
      /\ \A u \in Threads \ {t} : pc'[u] = pc[u]
      /\ \A r \in Slots \ {s} : sendIO'[r] = sendIO[r]
      /\ UNCHANGED <<nxt, op, arg, cur, io, id, serial, released, posts, clients, todo, jobs, used>>
  BY <1>1 DEF PostSend, TypeOK
<1> QED BY <1>2, <1>3 DEF Known, KnownAside, Others

(* Every action but those that open a slot names only such slots. *)
LEMMA RoutineKnown ==
  ASSUME TypeOK, Control, Issued, Ownership, RecvPhase, Lifetime, Known, NEW t \in Threads,
         Routine(t), UNCHANGED <<upd, net>>
  PROVE  KnownAside(t)
<1>1. CASE AcqInc(t)
  BY <1>1 DEF TypeOK, Control, Known, KnownAside, Others, AcqInc
<1>2. CASE AcqFlag(t)
  BY <1>2 DEF TypeOK, Control, Known, KnownAside, Others, AcqFlag
<1>3. CASE AcqId(t)
  BY <1>3 DEF TypeOK, Control, Known, KnownAside, Others, AcqId
<1>4. CASE AcqFail(t)
  BY <1>4 DEF TypeOK, Control, Known, KnownAside, Others, AcqFail
<1>5. CASE Drop(t)
  BY <1>5 DEF TypeOK, Control, Known, KnownAside, Others, Drop
<1>6. CASE RelCas(t)
  BY <1>6 DEF TypeOK, Control, Known, KnownAside, Others, RelCas
<1>7. CASE RelPackets(t)
  BY <1>7 DEF TypeOK, Control, Known, KnownAside, Others, RelPackets
<1>8. CASE RelClear(t)
  BY <1>8 DEF TypeOK, Control, Known, KnownAside, Others, RelClear
<1>9. CASE RelPush(t)
  BY <1>9 DEF TypeOK, Control, Known, KnownAside, Others, RelPush
<1>10. CASE RelLeave(t)
  BY <1>10, EnqueueKnown DEF TypeOK, Control, Known, KnownAside, Others, RelLeave
<1>11. CASE Cancel(t)
  BY <1>11 DEF TypeOK, Control, Known, KnownAside, Others, Cancel
<1>12. CASE EnQ(t)
  BY <1>12 DEF TypeOK, Control, Known, KnownAside, Others, EnQ
<1>13. CASE Pqcs(t)
  BY <1>13 DEF TypeOK, Control, Known, KnownAside, Others, Pqcs
<1>14. CASE Mark(t)
  BY <1>14 DEF TypeOK, Control, Known, KnownAside, Others, Mark
<1>15. CASE PostFlag(t)
  BY <1>15 DEF TypeOK, Control, Known, KnownAside, Others, PostFlag
<1>16. CASE PostCount(t)
  BY <1>16 DEF TypeOK, Control, Known, KnownAside, Others, PostCount
<1>17. CASE PostUnflag(t)
  BY <1>17 DEF TypeOK, Control, Known, KnownAside, Others, PostUnflag
<1>18. CASE PostRecheck(t)
  BY <1>18 DEF TypeOK, Control, Known, KnownAside, Others, PostRecheck
<1>19. CASE PostInc(t)
  BY <1>19 DEF TypeOK, Control, Known, KnownAside, Others, PostInc
<1>20. CASE PostDeq(t)
  BY <1>20 DEF TypeOK, Control, Known, KnownAside, Others, PostDeq
<1>21. CASE PostCancel(t)
  BY <1>21 DEF TypeOK, Control, Known, KnownAside, Others, PostCancel
<1>22. ASSUME NEW failed \in BOOLEAN, PostSend(t, failed)
      PROVE  KnownAside(t)
  BY <1>22, PostSendKnown
<1>23. CASE Drop2(t)
  BY <1>23 DEF TypeOK, Control, Known, KnownAside, Others, Drop2
<1>24. CASE RpInc(t)
  BY <1>24 DEF TypeOK, Control, Known, KnownAside, Others, RpInc
<1>25. CASE RpCancel(t)
  BY <1>25 DEF TypeOK, Control, Known, KnownAside, Others, RpCancel
<1>26. ASSUME NEW failed \in BOOLEAN, RpIssue(t, failed)
      PROVE  KnownAside(t)
  BY <1>26 DEF TypeOK, Control, Known, KnownAside, Others, RpIssue
<1>27. CASE RpFail(t)
  BY <1>27 DEF TypeOK, Control, Known, KnownAside, Others, RpFail
<1> QED BY <1>1, <1>2, <1>3, <1>4, <1>5, <1>6, <1>7, <1>8, <1>9, <1>10, <1>11, <1>12, <1>13,
     <1>14, <1>15, <1>16, <1>17, <1>18, <1>19, <1>20, <1>21, <1>22, <1>23, <1>24, <1>25, <1>26,
     <1>27 DEF Routine

(* The same for the actions of the accept thread behind those. *)
LEMMA AcceptKnown ==
  ASSUME TypeOK, Control, Issued, Ownership, RecvPhase, Lifetime, Known, Accept
  PROVE  KnownAside(Acceptor) \/ Opens
<1>1. ASSUME NEW s \in Slots, AccPop(s)
      PROVE  KnownAside(Acceptor) \/ Opens
  BY <1>1 DEF Opens
<1>2. CASE AccId
  BY <1>2 DEF Opens
<1>3. CASE AccFlag
  BY <1>3 DEF Opens
<1>4. CASE AccUsed
  BY <1>4 DEF TypeOK, Control, Known, KnownAside, Others, AccUsed, Unopened, Opening, Issued,
     Lifetime
<1>5. CASE AccAttachFail
  BY <1>5 DEF TypeOK, Control, Known, KnownAside, Others, AccAttachFail
<1>6. CASE AccJoin
  BY <1>6, EnqueueKnown, AcceptOpened DEF TypeOK, Control, Known, KnownAside, Others, AccJoin
<1>7. ASSUME NEW failed \in BOOLEAN, AccRecv(failed)
      PROVE  KnownAside(Acceptor) \/ Opens
  BY <1>7 DEF TypeOK, Control, Known, KnownAside, Others, AccRecv
<1>8. CASE AccFail
  BY <1>8 DEF TypeOK, Control, Known, KnownAside, Others, AccFail
<1> QED BY <1>1, <1>2, <1>3, <1>4, <1>5, <1>6, <1>7, <1>8 DEF Accept

(* The same for the actions of a worker. *)
LEMMA WorkKnown ==
  ASSUME TypeOK, Control, Issued, Ownership, RecvPhase, Lifetime, Known, NEW w \in Workers, Work(w)
  PROVE  KnownAside(w)
<1>1. ASSUME NEW s \in Slots, GetRecv(w, s)
      PROVE  KnownAside(w)
  BY <1>1, RecvOpened DEF TypeOK, Control, Known, KnownAside, Others, GetRecv
<1>2. ASSUME NEW s \in Slots, GetSend(w, s)
      PROVE  KnownAside(w)
  BY <1>2 DEF TypeOK, Control, Known, KnownAside, Others, GetSend
<1>3. ASSUME NEW i \in Ids, GetPost(w, i)
      PROVE  KnownAside(w)
  BY <1>3 DEF TypeOK, Control, Known, KnownAside, Others, GetPost
<1>4. ASSUME NEW kind \in Kinds, RecvMessage(w, kind)
      PROVE  KnownAside(w)
  BY <1>4, RecvMessageKnown
<1>5. CASE RecvGarbage(w)
  BY <1>5 DEF TypeOK, Control, Known, KnownAside, Others, RecvGarbage, Issued
<1>6. CASE RecvDone(w)
  BY <1>6 DEF TypeOK, Control, Known, KnownAside, Others, RecvDone
<1>7. CASE SendComplete(w)
  BY <1>7 DEF TypeOK, Control, Known, KnownAside, Others, SendComplete, Issued
<1>8. CASE Final(w)
  BY <1>8 DEF TypeOK, Control, Known, KnownAside, Others, Final
<1> QED BY <1>1, <1>2, <1>3, <1>4, <1>5, <1>6, <1>7, <1>8 DEF Work

(* The same for the actions of the update thread. *)
LEMMA UpdateKnown ==
  ASSUME TypeOK, Control, Issued, Ownership, RecvPhase, Lifetime, Known, Update
  PROVE  KnownAside(Updater)
<1>1. CASE CreateNewUser
  BY <1>1, HeadKnown DEF TypeOK, Control, Known, KnownAside, Others, CreateNewUser
<1>2. CASE DeleteUser
  BY <1>2, HeadKnown DEF TypeOK, Control, Known, KnownAside, Others, DeleteUser
<1>3. CASE TimeOut
  BY <1>3, HeadKnown DEF TypeOK, Control, Known, KnownAside, Others, TimeOut
<1>4. CASE BadMessage
  BY <1>4, HeadKnown DEF TypeOK, Control, Known, KnownAside, Others, BadMessage
<1>5. ASSUME NEW recipients \in SUBSET clients, ChatMessage(recipients)
      PROVE  KnownAside(Updater)
  BY <1>5, ChatMessageKnown
<1>6. ASSUME NEW i \in Ids, SendNext(i)
      PROVE  KnownAside(Updater)
  BY <1>6 DEF TypeOK, Control, Known, KnownAside, Others, SendNext
<1> QED BY <1>1, <1>2, <1>3, <1>4, <1>5, <1>6 DEF Update

(* The same for the actions of the monitor thread. *)
LEMMA WatchKnown ==
  ASSUME TypeOK, Control, Issued, Ownership, RecvPhase, Lifetime, Known, Watch
  PROVE  KnownAside(Monitor)
<1>1. ASSUME NEW s \in Slots, MonUsed(s)
      PROVE  KnownAside(Monitor)
  BY <1>1 DEF TypeOK, Control, Known, KnownAside, Others, MonUsed
<1>2. CASE MonId
  BY <1>2 DEF TypeOK, Control, Known, KnownAside, Others, MonId, Issued
<1>3. ASSUME NEW late \in BOOLEAN, MonExpire(late)
      PROVE  KnownAside(Monitor)
  BY <1>3, MonExpireKnown
<1> QED BY <1>1, <1>2, <1>3 DEF Watch

(* The same for the actions of the kernel and the clients. *)
LEMMA KernelKnown ==
  ASSUME TypeOK, Control, Issued, Ownership, RecvPhase, Lifetime, Known, Kernel
  PROVE  KnownAside(Acceptor)
<1>1. ASSUME NEW s \in Slots, NEW how \in Closings, PeerClose(s, how)
      PROVE  KnownAside(Acceptor)
  BY <1>1 DEF TypeOK, Control, Known, KnownAside, Others, PeerClose
<1>2. ASSUME NEW s \in Slots, NEW result \in {"data", "fail", "eof"}, RecvComplete(s, result)
      PROVE  KnownAside(Acceptor)
  BY <1>2 DEF TypeOK, Control, Known, KnownAside, Others, RecvComplete
<1>3. ASSUME NEW s \in Slots, SendDone(s)
      PROVE  KnownAside(Acceptor)
  BY <1>3 DEF TypeOK, Control, Known, KnownAside, Others, SendDone
<1> QED BY <1>1, <1>2, <1>3 DEF Kernel

(* The steps that open a slot change nothing that Known looks at but the place *)
(* of the accept thread and its slot.                                          *)
LEMMA OpensFrame ==
  ASSUME TypeOK, TypeOK', Control, Known, \A s \in Slots : Unopened(s)' => Unopened(s),
         UNCHANGED <<posts, clients, todo, jobs, used, sendIO, nxt, arg, io>>,
         \A u \in Threads \ {Acceptor} : pc'[u] = pc[u] /\ cur'[u] = cur[u],
         pc'[Acceptor] \in OpenPlaces \cup {"acc_used"}
  PROVE  Known'
<1>1. Acceptor \in Threads /\ Acceptor \notin Workers /\ Acceptor # Updater
  OBVIOUS
<1>2. ~io[Acceptor] /\ nxt[Acceptor] # "pqcs"
  BY <1>1 DEF Control
<1>3. \A u \in Threads :
        /\ pc'[u] \in AcqPlaces \cup UsePlaces => ~Unopened(arg'[u][1]) /\ arg'[u][1] \in Slots
        /\ nxt'[u] = "pqcs" => ~Unopened(arg'[u][1]) /\ arg'[u][1] \in Slots
        /\ pc'[u] = "mon_id" \/ io'[u] => ~Unopened(cur'[u]) /\ cur'[u] \in Slots
  <2>1. \A u \in Threads : arg'[u][1] \in Slots /\ cur'[u] \in Slots
    BY DEF TypeOK, Ids
  <2>2. ASSUME NEW u \in Threads, u # Acceptor
        PROVE  /\ pc'[u] \in AcqPlaces \cup UsePlaces => ~Unopened(arg'[u][1])
               /\ nxt'[u] = "pqcs" => ~Unopened(arg'[u][1])
               /\ pc'[u] = "mon_id" \/ io'[u] => ~Unopened(cur'[u])
    BY <2>2 DEF Known
  <2>3. pc'[Acceptor] \notin AcqPlaces \cup UsePlaces /\ pc'[Acceptor] # "mon_id"
        /\ ~io'[Acceptor] /\ nxt'[Acceptor] # "pqcs"
    BY <1>2
  <2> QED BY <2>1, <2>2, <2>3
<1>4. \A u \in Threads :
        /\ pc'[u] \in AcqPlaces \cup UsePlaces => ~Unopened(arg[u][1])'
        /\ nxt'[u] = "pqcs" => ~Unopened(arg[u][1])'
        /\ pc'[u] = "mon_id" \/ io'[u] => ~Unopened(cur[u])'
  BY <1>3
<1>5. \A i \in Ids : i[1] \in Slots
  BY DEF Ids
<1>6. (\A i \in Ids : posts'[i] > 0 => ~Unopened(i[1])') /\ (\A i \in clients' \cup todo' : ~Unopened(i[1])')
  BY <1>5 DEF Known, TypeOK
<1>7. JobsKnown(jobs)'
  <2>1. \A k \in DOMAIN jobs : jobs[k] \in Job
    <3>1. jobs \in Seq(Job)
      BY DEF TypeOK
    <3> QED BY <3>1
  <2>2. \A k \in DOMAIN jobs : jobs[k].id[1] \in Slots
    BY <1>5, <2>1 DEF Job
  <2>3. \A k \in DOMAIN jobs : jobs[k].type # "leave" => ~Unopened(jobs[k].id[1])
    BY DEF Known, JobsKnown
  <2>4. \A k \in DOMAIN jobs' : jobs'[k].type # "leave" => ~Unopened(jobs[k].id[1])'
    BY <2>2, <2>3
  <2> QED BY <2>4 DEF JobsKnown
<1>8. \A s \in Slots : Unopened(s)' => ~used'[s] /\ sendIO'[s] = "none"
  BY DEF Known
<1> QED BY <1>4, <1>6, <1>7, <1>8 DEF Known

(* They keep Known and Latest. *)
LEMMA OpensKnown ==
  ASSUME TypeOK, TypeOK', Control, Issued, Ownership, Known, Opens
  PROVE  Known' /\ Latest'
<1>1. ASSUME NEW s \in Slots, AccPop(s)
      PROVE  Known' /\ Latest'
  <2>1. released[s] \/ Virgin(s)
    BY <1>1 DEF AccPop, Ownership
  <2>2. /\ pc' = [pc EXCEPT ![Acceptor] = "acc_id"] /\ cur' = [cur EXCEPT ![Acceptor] = s]
        /\ UNCHANGED <<released, id, posts, clients, todo, jobs, used, sendIO, nxt, arg, io>>
    BY <1>1 DEF AccPop
  <2>3. /\ pc'[Acceptor] = "acc_id" /\ cur'[Acceptor] = s
        /\ \A u \in Threads \ {Acceptor} : pc'[u] = pc[u] /\ cur'[u] = cur[u]
    BY <2>2 DEF TypeOK
  <2>4. \A r \in Slots : Unopened(r)' => Unopened(r)
    BY <2>1, <2>2, <2>3 DEF Unopened, Opening, Virgin
  <2>5. Known'
    BY <2>2, <2>3, <2>4, OpensFrame
  <2> QED BY <2>3, <2>5 DEF Latest
<1>2. CASE AccId
  <2>1. PICK s \in Slots : s = cur[Acceptor]
    BY DEF TypeOK
  <2>2. /\ pc[Acceptor] = "acc_id" /\ pc' = [pc EXCEPT ![Acceptor] = "acc_flag"]
        /\ id' = [id EXCEPT ![s] = <<s, serial + 1>>] /\ serial' = serial + 1
        /\ UNCHANGED <<released, cur, posts, clients, todo, jobs, used, sendIO, nxt, arg, io>>
    BY <1>2, <2>1 DEF AccId
  <2>3. pc'[Acceptor] = "acc_flag" /\ \A u \in Threads \ {Acceptor} : pc'[u] = pc[u] /\ cur'[u] = cur[u]
    BY <2>2 DEF TypeOK
  <2>4. id'[s] = <<s, serial'>> /\ \A r \in Slots \ {s} : id'[r] = id[r]
    BY <2>2 DEF TypeOK
  <2>5. \A r \in Slots : Unopened(r)' => Unopened(r)
    <3>1. serial' # 0
      BY <2>2 DEF TypeOK
    <3>2. ~Virgin(s)'
      BY <2>4, <3>1 DEF Virgin
    <3> QED BY <2>1, <2>2, <2>3, <2>4, <3>2 DEF Unopened, Opening, Virgin
  <2>6. Known'
    BY <2>2, <2>3, <2>5, OpensFrame
  <2> QED BY <2>1, <2>2, <2>4, <2>6 DEF Latest
<1>3. CASE AccFlag
  <2>1. /\ pc[Acceptor] = "acc_flag" /\ pc' = [pc EXCEPT ![Acceptor] = "acc_used"]
        /\ released' = [released EXCEPT ![cur[Acceptor]] = FALSE]
        /\ UNCHANGED <<id, cur, posts, clients, todo, jobs, used, sendIO, nxt, arg, io>>
    BY <1>3 DEF AccFlag
  <2>2. pc'[Acceptor] = "acc_used" /\ \A u \in Threads \ {Acceptor} : pc'[u] = pc[u] /\ cur'[u] = cur[u]
    BY <2>1 DEF TypeOK
  <2>3. \A r \in Slots : Unopened(r)' => Unopened(r)
    BY <2>1, <2>2 DEF Unopened, Opening, Virgin
  <2>4. Known'
    BY <2>1, <2>2, <2>3, OpensFrame
  <2> QED BY <2>2, <2>4 DEF Latest
<1> QED BY <1>1, <1>2, <1>3 DEF Opens

(* Every step opens a slot, or names only slots that have been opened. *)
LEMMA StepsAside ==
  ASSUME TypeOK, Control, Issued, Ownership, RecvPhase, Lifetime, Known, [Next]_vars
  PROVE  Opens \/ \E t \in Threads : KnownAside(t)
<1>1. CASE Crashes \/ UNCHANGED vars
  <2>1. KnownAside(Acceptor)
    BY <1>1 DEF Crashes, vars, TypeOK, Control, Known, KnownAside, Others
  <2> QED BY <2>1
<1>2. CASE Kernel
  BY <1>2, KernelKnown
<1>3. ASSUME NEW t \in Threads, ThreadStep(t)
      PROVE  Opens \/ KnownAside(t)
  BY <1>3, RoutineKnown, AcceptKnown, WorkKnown, UpdateKnown, WatchKnown DEF ThreadStep
<1> QED BY <1>1, <1>2, <1>3 DEF Next

(* Every step keeps Known and Latest. *)
LEMMA KnownStep ==
  ASSUME TypeOK, TypeOK', Control, Issued, Ownership, RecvPhase, Lifetime, Known, Latest, [Next]_vars
  PROVE  Known' /\ Latest'
BY StepsAside, OpensKnown, KnownFrame
-----------------------------------------------------------------------------
(* The invariant holds initially. *)
LEMMA InitInv ==
  ASSUME Init
  PROVE  IInv
<1>1. TypeOK
  BY InitTypes DEF TypeInv
<1>2. \A t \in Threads : pc[t] = "idle" /\ ~io[t] /\ nxt[t] = "ret" /\ op[t] = "cancel"
  BY DEF Init
<1>3. \A s \in Slots : Virgin(s) /\ id[s][1] = s /\ ~released[s] /\ recvIO[s] = "prepaid" /\ sendIO[s] = "none"
  BY DEF Init, Virgin
<1>4. Control
  BY <1>2 DEF Control, IOPlaces, OpenPlaces, AcceptPlaces
<1>5. Issued
  BY <1>2, <1>3 DEF Init, Issued, AcqPlaces, UsePlaces, AcceptPlaces
<1>6. IssuedJobs
  BY DEF Init, IssuedJobs
<1>7. Possession
  BY <1>2, <1>3 DEF Init, Possession, Ownership, Owned, ReleasePlaces, OpenPlaces, AcceptPlaces
<1>8. RecvPhase /\ SendPhase
  BY <1>2, <1>3 DEF RecvPhase, SendPhase, RecvPlaces, SendPlaces
<1>9. Lifetime
  BY <1>2, <1>3 DEF Lifetime, NoUseAfterRelease, NoIOAcrossRelease, UsePlaces, AcceptPlaces
<1>10. RefCount
  <2>1. ASSUME NEW s \in Slots
        PROVE  Holders(s) = {} /\ LogHolders(s) = {} /\ Completing(s) = {}
    BY <1>2 DEF Holders, LogHolders, Completing, HoldPlaces, LogPlaces
  <2>2. \A s \in Slots : Overlapped(s) = 1 /\ ioCount[s] = 1
    BY <1>3 DEF Init, Overlapped
  <2> QED BY <2>1, <2>2, FS_EmptySet DEF RefCount
<1>11. Known
  BY <1>2, <1>3 DEF Init, Known, JobsKnown, AcqPlaces, UsePlaces
<1>12. Latest
  BY <1>2 DEF Latest
<1>13. jobs = <<>> /\ clients = {} /\ serial = 0 /\ (\A s \in Slots : id[s] = <<s, 0>> /\ inflight[s] = 0)
  BY DEF Init
<1>14. Present = {} /\ Leaving = {}
  BY <1>13 DEF Present, Leaving, Of
<1>15. JobOrder
  BY <1>13 DEF JobOrder
<1>16. Attendance
  <2>1. \A s \in Slots : ~Joined(s)
    BY <1>2, <1>3 DEF Joined
  <2> QED BY <1>2, <1>14, <2>1 DEF Attendance, LeavePlaces
<1>17. Novelty
  BY <1>2, <1>13, <1>14 DEF Novelty, LeavePlaces
<1>18. GatherEmpty
  <2>1. \A s \in Slots : first[s] # "packet"
    BY ClientAssumption DEF Init
  <2> QED BY <1>2, <1>13, <2>1 DEF GatherEmpty
<1> QED BY <1>1, <1>4, <1>5, <1>6, <1>7, <1>8, <1>9, <1>10, <1>11, <1>12, <1>15, <1>16, <1>17, <1>18 DEF IInv, Possession

(* Every step keeps the invariant. *)
LEMMA NextInv ==
  ASSUME IInv, [Next]_vars
  PROVE  IInv'
<1> USE DEF IInv
<1>1. Possession
  BY DEF Possession
<1>2. TypeOK'
  BY NextTypes DEF TypeInv, SerialLeft, Control
<1>3. Control'
  BY ControlStep
<1>4. Issued' /\ IssuedJobs'
  BY IssuedStep, IssuedJobsStep
<1>5. Ownership' /\ Owned'
  BY <1>1, PossessionStep DEF Possession
<1>6. RecvPhase' /\ SendPhase'
  BY <1>1, RecvPhaseStep, SendPhaseStep
<1>7. Lifetime'
  BY <1>1, LifetimeStep
<1>8. RefCount'
  BY <1>2, RefCountStep
<1>9. Known' /\ Latest'
  BY <1>2, KnownStep
<1>10. JobOrder' /\ Attendance' /\ Novelty'
  <2>1. Clients
    BY OrderOfJobs DEF Clients
  <2>2. Clients'
    BY <1>2, <2>1, ClientsStep
  <2>3. InOrder(jobs, clients)'
    BY <2>2 DEF Clients
  <2>4. JobOrder'
    BY <2>3 DEF JobOrder, Earlier, InOrder, Before
  <2> QED BY <2>2, <2>4 DEF Clients
<1>11. GatherEmpty'
  BY <1>2, GatherStep
<1> QED BY <1>2, <1>3, <1>4, <1>5, <1>6, <1>7, <1>8, <1>9, <1>10, <1>11

(* The inductive invariant holds in every reachable state. *)
THEOREM Invariance == Spec => []IInv
<1>1. Init => IInv
  BY InitInv
<1>2. IInv /\ [Next]_vars => IInv'
  BY NextInv
<1> QED BY <1>1, <1>2, PTL DEF Spec

(* Whatever the numbers of slots, workers and messages, and with every       *)
(* interleaving of AcquireSession, ReleaseSession, the completions and the   *)
(* clients: _IOCount is the number of references that exist, no more (a      *)
(* session that can never be released) and no fewer (one that is released in *)
(* use).                                                                     *)
THEOREM CountCorrect == Spec => []RefCount
<1>1. IInv => RefCount
  BY DEF IInv
<1> QED BY <1>1, Invariance, PTL

(* A thread that passed AcquireSession(id), or handles a completion, works   *)
(* on that session until its decrement: the slot is neither released nor     *)
(* given a new ID under it.                                                  *)
THEOREM UseCorrect == Spec => []NoUseAfterRelease
<1>1. IInv => NoUseAfterRelease
  BY DEF IInv, Lifetime
<1> QED BY <1>1, Invariance, PTL

(* No slot is released, or handed to the next client, while an operation on  *)
(* one of its two OVERLAPPEDs is outstanding.                                *)
THEOREM OverlappedCorrect == Spec => []NoIOAcrossRelease
<1>1. IInv => NoIOAcrossRelease
  BY DEF IInv, Lifetime
<1> QED BY <1>1, Invariance, PTL

(* Whatever the interleaving of the accept thread, the workers and the thread  *)
(* that releases a slot and queues its leave only after the slot is free       *)
(* again: the jobs of a client reach the content in an order it can handle.    *)
THEOREM OrderCorrect == Spec => []JobOrder
<1>1. IInv => JobOrder
  BY DEF IInv
<1> QED BY <1>1, Invariance, PTL

(* A client in m_ClientMap whose session is gone is about to be deleted: no    *)
(* leave is lost.                                                              *)
THEOREM GhostCorrect == Spec => []NoGhostClient
<1>1. IInv => NoGhostClient
  BY NoGhosts DEF IInv
<1> QED BY <1>1, Invariance, PTL

(* Whatever the clients do and the heap held: no Crash() finds the server's     *)
(* bookkeeping wrong, that is the counts, the send queue, a packet in the       *)
(* gather array, a failed receive, a client the content must know. It does not  *)
(* say that ReleaseSession's check of the gather array passes: that one also    *)
(* reads an entry nobody wrote (NoHeapPointer, HeapCorrect).                    *)
THEOREM ChecksCorrect == Spec => []NoInternalCrash
<1>1. Init => NoInternalCrash
  BY DEF Init, NoInternalCrash
<1>2. IInv /\ NoInternalCrash /\ [Next]_vars => NoInternalCrash'
  <2> SUFFICES ASSUME IInv, NoInternalCrash, [Next]_vars
               PROVE  NoInternalCrash'
    OBVIOUS
  <2>1. Clients
    BY OrderOfJobs DEF IInv, Clients
  <2> QED BY <2>1, NoInternalCrashStep DEF IInv
<1> QED BY <1>1, <1>2, Invariance, PTL DEF Spec

(* A step leaves a gather array's first entry as it was, or stores in it. *)
LEMMA FirstStep ==
  ASSUME TypeOK, NEW s \in Slots, [Next]_vars
  PROVE  first'[s] \in {first[s], "null", "packet"}
<1>1. ASSUME NEW t \in Threads, Routine(t)
      PROVE  first'[s] \in {first[s], "null", "packet"}
  <2>1. CASE RelPackets(t)
    BY <2>1 DEF RelPackets, DeQPacket, TypeOK
  <2>2. CASE PostDeq(t)
    BY <2>2 DEF PostDeq, TypeOK
  <2>3. CASE AcqInc(t) \/ AcqFlag(t) \/ AcqId(t) \/ AcqFail(t) \/ Drop(t) \/ RelCas(t)
    BY <2>3 DEF AcqInc, AcqFlag, AcqId, AcqFail, Drop, RelCas
  <2>4. CASE RelClear(t) \/ RelPush(t) \/ RelLeave(t) \/ Cancel(t) \/ EnQ(t) \/ Pqcs(t) \/ Mark(t)
    BY <2>4 DEF RelClear, RelPush, RelLeave, Cancel, EnQ, Pqcs, Mark
  <2>5. CASE PostFlag(t) \/ PostCount(t) \/ PostUnflag(t) \/ PostRecheck(t) \/ PostInc(t)
    BY <2>5 DEF PostFlag, PostCount, PostUnflag, PostRecheck, PostInc
  <2>6. CASE PostCancel(t) \/ Drop2(t) \/ \E failed \in BOOLEAN : PostSend(t, failed)
    BY <2>6 DEF PostCancel, Drop2, PostSend
  <2>7. CASE RpInc(t) \/ RpCancel(t) \/ RpFail(t) \/ \E failed \in BOOLEAN : RpIssue(t, failed)
    BY <2>7 DEF RpInc, RpCancel, RpFail, RpIssue
  <2> QED BY <1>1, <2>1, <2>2, <2>3, <2>4, <2>5, <2>6, <2>7 DEF Routine
<1>2. Accept => first' = first
  BY DEF Accept, AccPop, AccId, AccFlag, AccUsed, AccAttachFail, AccJoin, AccRecv, AccFail
<1>3. ASSUME NEW w \in Workers, Work(w)
      PROVE  first'[s] \in {first[s], "null", "packet"}
  <2>1. CASE SendComplete(w)
    BY <2>1 DEF SendComplete, DeQPacket, TypeOK
  <2>2. CASE \/ \E r \in Slots : GetRecv(w, r) \/ GetSend(w, r)
             \/ \E i \in Ids : GetPost(w, i)
             \/ \E kind \in Kinds : RecvMessage(w, kind)
             \/ RecvGarbage(w) \/ RecvDone(w) \/ Final(w)
    BY <2>2 DEF GetRecv, GetSend, GetPost, RecvMessage, RecvGarbage, RecvDone, Final
  <2> QED BY <1>3, <2>1, <2>2 DEF Work
<1>4. Update => first' = first
  BY DEF Update, CreateNewUser, DeleteUser, TimeOut, BadMessage, ChatMessage, SendNext
<1>5. Watch => first' = first
  BY DEF Watch, MonUsed, MonId, MonExpire
<1>6. Kernel => first' = first
  BY DEF Kernel, RecvComplete, SendDone, PeerClose
<1>7. Crashes \/ UNCHANGED vars => first' = first
  BY DEF Crashes, vars
<1> QED BY <1>1, <1>2, <1>3, <1>4, <1>5, <1>6, <1>7 DEF Next, ThreadStep

(* The heap held no pointer, so no check finds one. *)
NoHeap == crash # "heap" /\ \A s \in Slots : first[s] # "heap"

LEMMA NoHeapStep ==
  ASSUME TypeOK, NoHeap, [Next]_vars
  PROVE  NoHeap'
<1>1. \A s \in Slots : first'[s] # "heap"
  BY FirstStep DEF NoHeap
<1>2. \A t \in Threads : ~Fails(t, "heap")
  BY DEF Fails, NoHeap, TypeOK
<1>3. crash' # "heap"
  BY <1>2, CrashSteps DEF Crashes, Failing, NoHeap
<1> QED BY <1>1, <1>3 DEF NoHeap

(* If the memory the sessions are allocated in holds zeros, ReleaseSession      *)
(* never takes what is left in a gather array for a packet. Without that it     *)
(* does: see the run fresh.                                                     *)
THEOREM HeapCorrect ==
  ASSUME HeapPackets \subseteq {"null"}
  PROVE  Spec => []NoHeapPointer
<1>1. Init => NoHeap
  <2> SUFFICES ASSUME Init
               PROVE  NoHeap
    OBVIOUS
  <2>1. first \in [Slots -> HeapPackets] /\ crash = "none"
    BY DEF Init
  <2> QED BY <2>1 DEF NoHeap
<1>2. IInv /\ NoHeap /\ [Next]_vars => NoHeap'
  BY NoHeapStep DEF IInv
<1>3. NoHeap => NoHeapPointer
  BY DEF NoHeap, NoHeapPointer
<1> QED BY <1>1, <1>2, <1>3, Invariance, PTL DEF Spec

(* If the constructor's _SendFlag is 0 no packet is forgotten: while packets   *)
(* wait in the _SendQ of a session that is connected and not cancelled,        *)
(* somebody is still going to look. (A flag that happens to be 1 is nobody's,  *)
(* and what the first session of the slot is to be sent waits for ever.)       *)
THEOREM PacketsCorrect ==
  ASSUME HeapFlags \subseteq {FALSE}
  PROVE  Spec => []NoStrandedPackets
<1>1. Init => Awake
  BY InitAwake
<1>2. IInv /\ IInv' /\ Awake /\ [Next]_vars => Awake'
  BY AwakeStep DEF IInv
<1>3. Awake => NoStrandedPackets
  BY DEF Awake, Looked, Dead, NoStrandedPackets
<1> QED BY <1>1, <1>2, <1>3, Invariance, PTL DEF Spec

(* The gather array of a session has at most one user. *)
LEMMA UniqueSender ==
  ASSUME TypeOK, SendPhase
  PROVE  OneSender
<1> SUFFICES ASSUME NEW s \in Slots
             PROVE  Cardinality(GatherUsers(s)) <= 1 /\ (GatherUsers(s) # {} => sendFlag[s])
  BY DEF OneSender
<1> DEFINE T == {u \in Threads : cur[u] = s /\ pc[u] \in SendPlaces}
<1>1. GatherUsers(s) = {<<"thread", t>> : t \in T} \cup (IF sendIO[s] = "none" THEN {} ELSE {<<"kernel", s>>})
  BY DEF GatherUsers, SendPlaces
<1>2. CASE sendIO[s] # "none"
  <2>1. T = {}
    BY <1>2 DEF SendPhase
  <2>2. GatherUsers(s) = {<<"kernel", s>>}
    BY <1>1, <1>2, <2>1
  <2>3. Cardinality(GatherUsers(s)) = 1
    BY <2>2, FS_Singleton
  <2> QED BY <1>2, <2>3 DEF SendPhase
<1>3. CASE sendIO[s] = "none" /\ T = {}
  <2>1. GatherUsers(s) = {}
    BY <1>1, <1>3
  <2> QED BY <2>1, FS_EmptySet
<1>4. CASE sendIO[s] = "none" /\ T # {}
  <2>1. PICK t \in T : TRUE
    BY <1>4
  <2>2. T = {t} /\ sendFlag[s]
    BY <2>1 DEF SendPhase
  <2>3. GatherUsers(s) = {<<"thread", t>>}
    BY <1>1, <1>4, <2>2
  <2>4. Cardinality(GatherUsers(s)) = 1
    BY <2>3, FS_Singleton
  <2> QED BY <2>2, <2>4
<1> QED BY <1>2, <1>3, <1>4

(* With every interleaving of SendPost, of posted IDs and of send            *)
(* completions: at most one of them uses the gather array of a session, and  *)
(* while one does _SendFlag is up.                                           *)
THEOREM SenderCorrect == Spec => []OneSender
<1>1. IInv => OneSender
  BY UniqueSender DEF IInv
<1> QED BY <1>1, Invariance, PTL

(* Every slot is in exactly one hand. *)
LEMMA UniqueOwner ==
  ASSUME TypeOK, Issued, Ownership, Owned
  PROVE  OneOwner
<1> SUFFICES ASSUME NEW s \in Slots
             PROVE  Cardinality({<<"releaser", t>> : t \in Releasing(s)}
                  \cup {o \in {<<"stack", s>>, <<"accept", s>>, <<"session", s>>} :
                        CASE o[1] = "stack"   -> s \in freeIdx
                          [] o[1] = "accept"  -> Opening(s)
                          [] o[1] = "session" -> Open(s)}) = 1
  BY DEF OneOwner
<1> DEFINE R == {<<"releaser", t>> : t \in Releasing(s)}
           P == {o \in {<<"stack", s>>, <<"accept", s>>, <<"session", s>>} :
                        CASE o[1] = "stack"   -> s \in freeIdx
                          [] o[1] = "accept"  -> Opening(s)
                          [] o[1] = "session" -> Open(s)}
<1>1. P = (IF s \in freeIdx THEN {<<"stack", s>>} ELSE {}) \cup (IF Opening(s) THEN {<<"accept", s>>} ELSE {})
          \cup (IF Open(s) THEN {<<"session", s>>} ELSE {})
  <2>1. <<"stack", s>> \in P <=> s \in freeIdx
    OBVIOUS
  <2>2. <<"accept", s>> \in P <=> Opening(s)
    OBVIOUS
  <2>3. <<"session", s>> \in P <=> Open(s)
    OBVIOUS
  <2>4. P \subseteq {<<"stack", s>>, <<"accept", s>>, <<"session", s>>}
    OBVIOUS
  <2> HIDE DEF P
  <2> QED BY <2>1, <2>2, <2>3, <2>4
<1>2. Open(s) <=> ~released[s] /\ ~Virgin(s) /\ ~Opening(s)
  <2>1. id[s] = <<s, 0>> <=> Virgin(s)
    BY DEF TypeOK, Issued, Virgin, Ids
  <2> QED BY <2>1 DEF Open
<1>3. \A t \in Threads : t \in Releasing(s) <=> pc[t] \in ReleasePlaces /\ cur[t] = s
  BY DEF Releasing, ReleasePlaces
<1>4. CASE s \in freeIdx
  <2>1. ~Opening(s) /\ ~Open(s) /\ Releasing(s) = {}
    BY <1>2, <1>3, <1>4 DEF Ownership, Opening, OpenPlaces, Releasing
  <2>2. R \cup P = {<<"stack", s>>}
    BY <1>1, <1>4, <2>1
  <2> QED BY <2>2, FS_Singleton
<1>5. CASE Opening(s)
  <2>1. s \notin freeIdx /\ ~Open(s) /\ Releasing(s) = {}
    BY <1>2, <1>3, <1>5 DEF Ownership, Opening, OpenPlaces, Releasing
  <2>2. R \cup P = {<<"accept", s>>}
    BY <1>1, <1>5, <2>1
  <2> QED BY <2>2, FS_Singleton
<1>6. CASE Releasing(s) # {}
  <2>1. PICK t \in Threads : t \in Releasing(s)
    BY <1>6 DEF Releasing
  <2>2. s \notin freeIdx /\ ~Opening(s) /\ ~Open(s) /\ Releasing(s) = {t}
    BY <1>2, <1>3, <2>1 DEF Ownership, Releasing
  <2>3. R \cup P = {<<"releaser", t>>}
    BY <1>1, <2>2
  <2> QED BY <2>3, FS_Singleton
<1>7. CASE s \notin freeIdx /\ ~Opening(s) /\ Releasing(s) = {}
  <2>1. Open(s)
    BY <1>2, <1>3, <1>7 DEF Owned
  <2>2. R \cup P = {<<"session", s>>}
    BY <1>1, <1>7, <2>1
  <2> QED BY <2>2, FS_Singleton
<1> QED BY <1>4, <1>5, <1>6, <1>7

(* An index of m_SessionArray is never in two hands (twice on m_IndexStack,  *)
(* with two releasers, on the stack while its session is open) and never in  *)
(* none.                                                                     *)
THEOREM OwnerCorrect == Spec => []OneOwner
<1>1. IInv => OneOwner
  BY UniqueOwner DEF IInv
<1> QED BY <1>1, Invariance, PTL
-----------------------------------------------------------------------------
(* What SessionLife calls open and last. *)
OpenIds == {id[s] : s \in {r \in Slots : Open(r)}}
LastId == IF pc[Acceptor] = "acc_flag" THEN serial - 1 ELSE serial

(* A session is open from the release flag coming down to its going up. *)
LEMMA OpenIff ==
  ASSUME TypeOK, Issued
  PROVE  \A s \in Slots : Open(s) <=> ~released[s] /\ ~Unopened(s)
<1>1. \A s \in Slots : id[s] = <<s, 0>> <=> Virgin(s)
  BY DEF TypeOK, Issued, Virgin, Ids
<1> QED BY <1>1 DEF Open, Unopened

(* Whoever works on a session works on an open one. *)
UsesAreOpen == \A u \in InUse : u[1] \in Threads \cup {"recv", "send"} /\ u[2] \in OpenIds

(* In every state of the invariant they do. *)
LEMMA UsesOpen == IInv => UsesAreOpen
<1> SUFFICES ASSUME IInv, NEW u \in InUse
             PROVE  u[1] \in Threads \cup {"recv", "send"} /\ u[2] \in OpenIds
  BY DEF UsesAreOpen
<1> USE DEF IInv
<1>1. \A s \in Slots : ~released[s] /\ ~Unopened(s) => id[s] \in OpenIds
  BY OpenIff DEF OpenIds
<1>2. ASSUME NEW t \in Threads, pc[t] \in UsePlaces, u = <<t, arg[t]>>
      PROVE  u[2] \in OpenIds
  <2>1. ~released[cur[t]]
    BY <1>2 DEF Lifetime, NoUseAfterRelease
  <2>2. cur[t] \in Slots /\ id[cur[t]] = arg[t] /\ ~Unopened(cur[t])
    BY <1>2, InUseOpened
  <2> QED BY <1>1, <1>2, <2>1, <2>2
<1>3. ASSUME NEW t \in Threads, io[t], u = <<t, id[cur[t]]>>
      PROVE  u[2] \in OpenIds
  BY <1>1, <1>3 DEF TypeOK, Lifetime, NoUseAfterRelease, Known
<1>4. ASSUME NEW s \in Slots, cur[Acceptor] = s, pc[Acceptor] \in AcceptPlaces, u = <<Acceptor, id[s]>>
      PROVE  u[2] \in OpenIds
  <2>1. ~released[s]
    BY <1>4 DEF Lifetime
  <2> QED BY <1>1, <1>4, <2>1, AcceptOpened
<1>5. ASSUME NEW s \in Slots, recvIO[s] \notin {"none", "prepaid"}, u = <<"recv", id[s]>>
      PROVE  u[2] \in OpenIds
  <2>1. ~released[s]
    BY <1>5 DEF Lifetime, NoIOAcrossRelease
  <2> QED BY <1>1, <1>5, <2>1, RecvOpened
<1>6. ASSUME NEW s \in Slots, sendIO[s] # "none", u = <<"send", id[s]>>
      PROVE  u[2] \in OpenIds
  BY <1>1, <1>6 DEF Lifetime, NoIOAcrossRelease, Known
<1> QED BY <1>2, <1>3, <1>4, <1>5, <1>6 DEF InUse

(* A step that opens and closes nothing is a step of the users. *)
LEMMA QuietStep ==
  ASSUME IInv', OpenIds' = OpenIds, LastId' = LastId
  PROVE  Life!Use
<1>1. UsesAreOpen'
  BY UsesOpen, PTL
<1> QED BY <1>1 DEF UsesAreOpen, Life!Use, OpenIds, LastId

(* Such are the steps but AccFlag and RelCas. *)
LEMMA AsideQuiet ==
  ASSUME TypeOK, TypeOK', NEW t \in Threads, KnownAside(t), UNCHANGED released
  PROVE  OpenIds' = OpenIds /\ LastId' = LastId
<1>1. \A s \in Slots : Opening(s)' <=> Opening(s)
  BY DEF KnownAside, Others, Opening
<1>2. (\A s \in Slots : Open(s)' <=> Open(s)) /\ id' = id
  BY <1>1 DEF KnownAside, Open
<1>3. OpenIds' = OpenIds
  BY <1>2 DEF OpenIds
<1>4. LastId' = LastId
  BY DEF LastId, KnownAside, Others
<1> QED BY <1>3, <1>4

(* The accept thread takes an index. *)
LEMMA AccPopQuiet ==
  ASSUME TypeOK, Issued, Ownership, NEW s \in Slots, AccPop(s)
  PROVE  OpenIds' = OpenIds /\ LastId' = LastId
<1>1. /\ pc[Acceptor] = "idle" /\ pc'[Acceptor] = "acc_id" /\ cur'[Acceptor] = s
      /\ released[s] \/ Virgin(s)
      /\ UNCHANGED <<released, id, serial>>
  BY DEF AccPop, TypeOK, Ownership
<1>2. Virgin(s) => id[s] = <<s, 0>>
  BY DEF TypeOK, Issued, Virgin, Ids
<1>3. (\A r \in Slots : Open(r)' <=> Open(r)) /\ id' = id
  BY <1>1, <1>2 DEF Open, Opening
<1>4. OpenIds' = OpenIds
  BY <1>3 DEF OpenIds
<1>5. LastId' = LastId
  BY <1>1 DEF LastId
<1> QED BY <1>4, <1>5

(* It gives the slot its new ID. *)
LEMMA AccIdQuiet ==
  ASSUME TypeOK, AccId
  PROVE  OpenIds' = OpenIds /\ LastId' = LastId
<1>1. PICK s \in Slots : s = cur[Acceptor]
  BY DEF TypeOK
<1>2. /\ pc[Acceptor] = "acc_id" /\ pc'[Acceptor] = "acc_flag" /\ cur' = cur
      /\ id' = [id EXCEPT ![s] = <<s, serial + 1>>] /\ serial' = serial + 1
      /\ UNCHANGED released
  BY <1>1 DEF AccId, TypeOK
<1>3. Opening(s) /\ Opening(s)' /\ \A r \in Slots \ {s} : ~Opening(r) /\ ~Opening(r)' /\ id'[r] = id[r]
  BY <1>1, <1>2 DEF Opening, TypeOK
<1>4. \A r \in Slots : (Open(r)' <=> Open(r)) /\ (Open(r) => id'[r] = id[r])
  BY <1>2, <1>3 DEF Open
<1>5. OpenIds' = OpenIds
  BY <1>4 DEF OpenIds
<1>6. LastId' = LastId
  BY <1>2 DEF LastId, TypeOK
<1> QED BY <1>5, <1>6

(* When it lowers the release flag the session is open. *)
LEMMA AccFlagOpens ==
  ASSUME IInv, IInv', AccFlag
  PROVE  \E i \in Ids : Life!OpenSession(i)
<1> USE DEF IInv
<1>1. PICK s \in Slots : s = cur[Acceptor]
  BY DEF TypeOK
<1>2. /\ pc[Acceptor] = "acc_flag" /\ pc' = [pc EXCEPT ![Acceptor] = "acc_used"]
      /\ released' = [released EXCEPT ![s] = FALSE]
      /\ UNCHANGED <<id, cur, serial, recvIO, sendIO, arg, io>>
  BY <1>1 DEF AccFlag
<1>3. pc'[Acceptor] = "acc_used" /\ \A u \in Threads \ {Acceptor} : pc'[u] = pc[u]
  BY <1>2 DEF TypeOK
<1>4. id[s] \in Ids /\ id[s][2] = serial /\ id[s] # <<s, 0>>
  BY <1>1, <1>2 DEF TypeOK, Latest, Issued, Virgin
<1>5. \A r \in Slots : Open(r)' <=> Open(r) \/ r = s
  BY <1>1, <1>2, <1>3, <1>4 DEF Open, Opening, TypeOK
<1>6. OpenIds' = OpenIds \cup {id[s]}
  BY <1>2, <1>5 DEF OpenIds
<1>7. LastId' = serial /\ LastId = serial - 1 /\ serial \in Nat
  BY <1>2, <1>3, BoundAssumption DEF LastId, TypeOK
<1>8. InUse' = InUse \cup {<<Acceptor, id[s]>>}
  <2>1. {t \in Threads : pc'[t] \in UsePlaces} = {t \in Threads : pc[t] \in UsePlaces}
    BY <1>2, <1>3
  <2>2. {r \in Slots : cur'[Acceptor] = r /\ pc'[Acceptor] \in AcceptPlaces} = {s}
    BY <1>1, <1>2, <1>3
  <2>3. {r \in Slots : cur[Acceptor] = r /\ pc[Acceptor] \in AcceptPlaces} = {}
    BY <1>2
  <2> QED BY <1>2, <2>1, <2>2, <2>3 DEF InUse
<1>9. PICK i \in Ids : i = id[s]
  BY <1>4
<1>10. Life!OpenSession(i)
  BY <1>4, <1>6, <1>7, <1>8, <1>9 DEF Life!OpenSession, OpenIds, LastId
<1> QED BY <1>10

(* When the count is zero at the compare-and-swap the session is closed. *)
LEMMA RelCasCloses ==
  ASSUME IInv, IInv', NEW t \in Threads, RelCas(t), released' # released
  PROVE  \E i \in Ids : Life!CloseSession(i)
<1> USE DEF IInv
<1>1. PICK s \in Slots : s = cur[t]
  BY DEF TypeOK
<1>2. /\ pc[t] = "rel_cas" /\ pc' = [pc EXCEPT ![t] = IF ZeroCount(s) THEN "rel_packets" ELSE After(t)]
      /\ released' = [released EXCEPT ![s] = released[s] \/ ioCount[s] = 0]
      /\ UNCHANGED <<id, cur, serial, recvIO, sendIO, arg, io>>
  BY <1>1 DEF RelCas
<1>3. ioCount[s] = 0 /\ ~released[s]
  BY <1>2 DEF TypeOK
<1>4. pc'[t] = "rel_packets" /\ \A u \in Threads \ {t} : pc'[u] = pc[u]
  BY <1>2, <1>3 DEF ZeroCount, TypeOK
<1>5. released'[s] /\ \A r \in Slots \ {s} : released'[r] = released[r]
  BY <1>2, <1>3 DEF TypeOK
<1>6. ~Unopened(s)
  <2>1. recvIO[s] = "none"
    BY <1>3, NoCountNoUse
  <2> QED BY <2>1, RecvOpened
<1>7. Open(s)
  BY <1>3, <1>6, OpenIff
<1>8. \A r \in Slots : Open(r)' <=> Open(r) /\ r # s
  BY <1>2, <1>4, <1>5 DEF Open, Opening
<1>9. \A r \in Slots : id[r] \in Ids /\ id[r][1] = r
  BY DEF TypeOK, Issued
<1>10. OpenIds' = OpenIds \ {id[s]}
  BY <1>2, <1>8, <1>9 DEF OpenIds
<1>11. LastId' = LastId
  BY <1>2, <1>4 DEF LastId
<1>12. InUse' = InUse
  <2>1. {u \in Threads : pc'[u] \in UsePlaces} = {u \in Threads : pc[u] \in UsePlaces}
    BY <1>2, <1>4
  <2>2. pc'[Acceptor] \in AcceptPlaces <=> pc[Acceptor] \in AcceptPlaces
    BY <1>2, <1>4
  <2> QED BY <1>2, <2>1, <2>2 DEF InUse
<1>13. \A u \in InUse : u[2] # id[s]
  <2>1. UsesAreOpen'
    BY UsesOpen, PTL
  <2> QED BY <1>10, <1>12, <2>1 DEF UsesAreOpen
<1>14. id[s] \in OpenIds
  BY <1>7 DEF OpenIds
<1>15. PICK i \in Ids : i = id[s]
  BY <1>9
<1>16. Life!CloseSession(i)
  BY <1>10, <1>11, <1>12, <1>13, <1>14, <1>15 DEF Life!CloseSession, OpenIds, LastId
<1> QED BY <1>16

(* The server starts where SessionLife starts. *)
LEMMA LifeInit ==
  ASSUME Init
  PROVE  Life!Init
<1>1. \A t \in Threads : pc[t] = "idle" /\ ~io[t]
  BY DEF Init
<1>2. \A s \in Slots : ~Open(s) /\ recvIO[s] = "prepaid" /\ sendIO[s] = "none"
  BY DEF Init, Open
<1>3. OpenIds = {} /\ LastId = 0
  BY <1>1, <1>2 DEF OpenIds, LastId, Init
<1>4. InUse = {}
  BY <1>1, <1>2 DEF InUse
<1> QED BY <1>3, <1>4 DEF Life!Init, OpenIds, LastId

(* Every step is one of SessionLife, or changes nothing there. *)
LEMMA LifeNext ==
  ASSUME IInv, IInv', [Next]_vars
  PROVE  [Life!Next]_(Life!life)
<1> USE DEF IInv
<1>1. Life!Use => Life!Next
  BY DEF Life!Next
<1>2. CASE Opens
  <2>1. ASSUME NEW s \in Slots, AccPop(s)
        PROVE  Life!Next
    BY <1>1, <2>1, AccPopQuiet, QuietStep
  <2>2. CASE AccId
    BY <1>1, <2>2, AccIdQuiet, QuietStep
  <2>3. CASE AccFlag
    BY <2>3, AccFlagOpens DEF Life!Next
  <2> QED BY <1>2, <2>1, <2>2, <2>3 DEF Opens
<1>3. ASSUME NEW t \in Threads, KnownAside(t)
      PROVE  Life!Next
  <2>1. CASE UNCHANGED released
    BY <1>1, <1>3, <2>1, AsideQuiet, QuietStep
  <2>2. CASE ~UNCHANGED released
    <3>1. PICK u \in Threads : RelCas(u)
      BY <1>3, <2>2 DEF KnownAside
    <3> QED BY <2>2, <3>1, RelCasCloses DEF Life!Next
  <2> QED BY <2>1, <2>2
<1> QED BY <1>2, <1>3, StepsAside

(* Every behaviour of the threads, the kernel and the clients is one of the  *)
(* session table as SessionLife states it: an ID is given out once and in    *)
(* order, nobody begins to work on a session that is not open, and a session *)
(* is closed (the compare-and-swap of ReleaseSession) when nobody works on   *)
(* it any more.                                                              *)
THEOREM LifeImplemented == Spec => LifeSpec
<1>1. Init => Life!Init
  BY LifeInit
<1>2. IInv /\ IInv' /\ [Next]_vars => [Life!Next]_(Life!life)
  BY LifeNext
<1> QED BY <1>1, <1>2, Invariance, PTL DEF Spec, LifeSpec, Life!Spec

-----------------------------------------------------------------------------
(* Clients that announce that they leave *)

(* A job that is no time-out and not refused keeps the queue calm, *)
LEMMA AppendCalm ==
  ASSUME NEW queue \in Seq(Job), CalmJobs(queue), NEW j \in Job, j.type # "timeout", j.kind # "bad"
  PROVE  CalmJobs(Append(queue, j))
<1>1. /\ Append(queue, j) \in Seq(Job) /\ Len(Append(queue, j)) = Len(queue) + 1
      /\ DOMAIN queue = 1..Len(queue) /\ DOMAIN Append(queue, j) = 1..(Len(queue) + 1)
      /\ Len(queue) \in Nat
  OBVIOUS
<1>2. ASSUME NEW k \in DOMAIN Append(queue, j)
      PROVE  Append(queue, j)[k] = IF k = Len(queue) + 1 THEN j ELSE queue[k]
  BY <1>1, <1>2
<1> QED BY <1>1, <1>2 DEF CalmJobs

(* and so does taking one. *)
LEMMA TailCalm ==
  ASSUME NEW queue \in Seq(Job), CalmJobs(queue), queue # <<>>
  PROVE  CalmJobs(Tail(queue))
<1>1. /\ DOMAIN Tail(queue) = 1..(Len(queue) - 1) /\ DOMAIN queue = 1..Len(queue) /\ Len(queue) \in Nat
      /\ \A k \in 1..(Len(queue) - 1) : Tail(queue)[k] = queue[k + 1]
  OBVIOUS
<1> QED BY <1>1 DEF CalmJobs

(* The job the update thread takes disconnects nobody. *)
LEMMA HeadCalm ==
  ASSUME NEW queue \in Seq(Job), CalmJobs(queue), queue # <<>>
  PROVE  Head(queue).type # "timeout" /\ Head(queue).kind # "bad"
<1>1. 1 \in DOMAIN queue /\ Head(queue) = queue[1]
  OBVIOUS
<1> QED BY <1>1 DEF CalmJobs

(* What the accept thread, the workers and a release queue. *)
LEMMA EnqueueCalm ==
  ASSUME jobs \in Seq(Job), CalmJobs(jobs), NEW type \in {"join", "message", "leave"}, NEW i \in Ids,
         NEW kind \in Kinds \cup {"none"}, kind # "bad", Enqueue(type, i, kind)
  PROVE  CalmJobs(jobs)'
<1>1. [type |-> type, id |-> i, kind |-> kind] \in Job
  BY DEF Job
<1> QED BY <1>1, AppendCalm

(* The steps of the routines of NetSession. *)
LEMMA RoutineCalm ==
  ASSUME TypeOK, PoliteClients, Calm, NEW t \in Threads, Routine(t), UNCHANGED <<upd, net>>
  PROVE  Calm'
<1>1. CASE AcqInc(t)
  BY <1>1 DEF TypeOK, Calm, AcqInc
<1>2. CASE AcqFlag(t)
  BY <1>2 DEF TypeOK, Calm, AcqFlag
<1>3. CASE AcqId(t)
  BY <1>3 DEF TypeOK, Calm, AcqId
<1>4. CASE AcqFail(t)
  BY <1>4 DEF TypeOK, Calm, AcqFail
<1>5. CASE Drop(t)
  BY <1>5 DEF TypeOK, Calm, Drop
<1>6. CASE RelCas(t)
  BY <1>6 DEF TypeOK, Calm, RelCas
<1>7. CASE RelPackets(t)
  BY <1>7 DEF TypeOK, Calm, RelPackets
<1>8. CASE RelClear(t)
  BY <1>8 DEF TypeOK, Calm, RelClear
<1>9. CASE RelPush(t)
  BY <1>9 DEF TypeOK, Calm, RelPush
<1>10. CASE RelLeave(t)
  <2>1. CalmJobs(jobs)'
    <3>1. gone[t] \in Ids
      BY <1>10 DEF TypeOK, RelLeave
    <3> QED BY <1>10, <3>1, EnqueueCalm DEF TypeOK, Calm, RelLeave
  <2> QED BY <1>10, <2>1 DEF TypeOK, Calm, RelLeave
<1>11. CASE Cancel(t)
  BY <1>11 DEF TypeOK, Calm, Cancel
<1>12. CASE EnQ(t)
  BY <1>12 DEF TypeOK, Calm, EnQ
<1>13. CASE Pqcs(t)
  BY <1>13 DEF TypeOK, Calm, Pqcs
<1>14. CASE Mark(t)
  BY <1>14 DEF TypeOK, Calm, Mark
<1>15. CASE PostFlag(t)
  BY <1>15 DEF TypeOK, Calm, PostFlag
<1>16. CASE PostCount(t)
  BY <1>16 DEF TypeOK, Calm, PostCount
<1>17. CASE PostUnflag(t)
  BY <1>17 DEF TypeOK, Calm, PostUnflag
<1>18. CASE PostRecheck(t)
  BY <1>18 DEF TypeOK, Calm, PostRecheck
<1>19. CASE PostInc(t)
  BY <1>19 DEF TypeOK, Calm, PostInc
<1>20. CASE PostDeq(t)
  BY <1>20 DEF TypeOK, Calm, PostDeq
<1>21. CASE PostCancel(t)
  BY <1>21 DEF TypeOK, Calm, PostCancel
<1>22. ASSUME NEW failed \in BOOLEAN, failed => peer[cur[t]] = "reset", PostSend(t, failed)
      PROVE  Calm'
  BY <1>22 DEF TypeOK, Calm, PostSend
<1>23. CASE Drop2(t)
  BY <1>23 DEF TypeOK, Calm, Drop2
<1>24. CASE RpInc(t)
  BY <1>24 DEF TypeOK, Calm, RpInc
<1>25. CASE RpCancel(t)
  BY <1>25 DEF TypeOK, Calm, RpCancel
<1>26. ASSUME NEW failed \in BOOLEAN, failed => peer[cur[t]] = "reset", RpIssue(t, failed)
      PROVE  Calm'
  BY <1>26 DEF TypeOK, Calm, RpIssue
<1>27. CASE RpFail(t)
  BY <1>27 DEF TypeOK, Calm, RpFail
<1> QED BY <1>1, <1>2, <1>3, <1>4, <1>5, <1>6, <1>7, <1>8, <1>9, <1>10, <1>11, <1>12, <1>13, <1>14,
     <1>15, <1>16, <1>17, <1>18, <1>19, <1>20, <1>21, <1>22, <1>23, <1>24, <1>25, <1>26, <1>27 DEF Routine

(* The same for the actions of the accept thread. *)
LEMMA AcceptCalm ==
  ASSUME TypeOK, PoliteClients, Calm, Accept
  PROVE  Calm'
<1>1. ASSUME NEW s \in Slots, AccPop(s)
      PROVE  Calm'
  BY <1>1 DEF TypeOK, Calm, AccPop
<1>2. CASE AccId
  BY <1>2 DEF TypeOK, Calm, AccId
<1>3. CASE AccFlag
  BY <1>3 DEF TypeOK, Calm, AccFlag
<1>4. CASE AccUsed
  BY <1>4 DEF TypeOK, Calm, AccUsed
<1>5. CASE AccAttachFail
  BY <1>5 DEF TypeOK, Calm, AccAttachFail
<1>6. CASE AccJoin
  <2>1. CalmJobs(jobs)'
    <3>1. id[cur[Acceptor]] \in Ids
      BY <1>6 DEF TypeOK, AccJoin
    <3> QED BY <1>6, <3>1, EnqueueCalm DEF TypeOK, Calm, AccJoin
  <2> QED BY <1>6, <2>1 DEF TypeOK, Calm, AccJoin
<1>7. ASSUME NEW failed \in BOOLEAN, AccRecv(failed)
      PROVE  Calm'
  BY <1>7 DEF TypeOK, Calm, AccRecv
<1>8. CASE AccFail
  BY <1>8 DEF TypeOK, Calm, AccFail
<1> QED BY <1>1, <1>2, <1>3, <1>4, <1>5, <1>6, <1>7, <1>8 DEF Accept

(* The same for the actions of a worker. *)
LEMMA WorkCalm ==
  ASSUME TypeOK, PoliteClients, Calm, NEW w \in Workers, Work(w)
  PROVE  Calm'
<1>1. ASSUME NEW s \in Slots, GetRecv(w, s)
      PROVE  Calm'
  BY <1>1 DEF TypeOK, Calm, GetRecv
<1>2. ASSUME NEW s \in Slots, GetSend(w, s)
      PROVE  Calm'
  BY <1>2 DEF TypeOK, Calm, GetSend
<1>3. ASSUME NEW i \in Ids, GetPost(w, i)
      PROVE  Calm'
  BY <1>3 DEF TypeOK, Calm, GetPost
<1>4. ASSUME NEW kind \in Kinds, RecvMessage(w, kind)
      PROVE  Calm'
  <2>1. CalmJobs(jobs)'
    <3>1. id[cur[w]] \in Ids /\ kind # "bad" /\ kind \in Kinds
      BY <1>4 DEF TypeOK, PoliteClients, RecvMessage
    <3> QED BY <1>4, <3>1, EnqueueCalm DEF TypeOK, Calm, RecvMessage
  <2> QED BY <1>4, <2>1 DEF TypeOK, Calm, RecvMessage
<1>5. CASE RecvGarbage(w)
  BY <1>5 DEF PoliteClients, RecvGarbage
<1>6. CASE RecvDone(w)
  BY <1>6 DEF TypeOK, Calm, RecvDone
<1>7. CASE SendComplete(w)
  BY <1>7 DEF TypeOK, Calm, SendComplete
<1>8. CASE Final(w)
  BY <1>8 DEF TypeOK, Calm, Final
<1> QED BY <1>1, <1>2, <1>3, <1>4, <1>5, <1>6, <1>7, <1>8 DEF Work

(* The same for the actions of the update thread. *)
LEMMA UpdateCalm ==
  ASSUME TypeOK, PoliteClients, Calm, Update
  PROVE  Calm'
<1>1. CASE CreateNewUser
  BY <1>1, TailCalm DEF TypeOK, Calm, CreateNewUser
<1>2. CASE DeleteUser
  BY <1>2, TailCalm DEF TypeOK, Calm, DeleteUser
<1>3. CASE TimeOut
  BY <1>3, HeadCalm DEF TypeOK, Calm, TimeOut
<1>4. CASE BadMessage
  BY <1>4, HeadCalm DEF TypeOK, Calm, BadMessage
<1>5. ASSUME NEW recipients \in SUBSET clients, ChatMessage(recipients)
      PROVE  Calm'
  BY <1>5, TailCalm, SMTT(40) DEF TypeOK, Calm, ChatMessage
<1>6. ASSUME NEW i \in Ids, SendNext(i)
      PROVE  Calm'
  BY <1>6 DEF TypeOK, Calm, SendNext
<1> QED BY <1>1, <1>2, <1>3, <1>4, <1>5, <1>6 DEF Update

(* The same for the actions of the monitor thread. *)
LEMMA WatchCalm ==
  ASSUME TypeOK, PoliteClients, Calm, Watch
  PROVE  Calm'
<1>1. ASSUME NEW s \in Slots, MonUsed(s)
      PROVE  Calm'
  BY <1>1 DEF PoliteClients, MonUsed
<1>2. CASE MonId
  BY <1>2 DEF Calm, MonId
<1>3. ASSUME NEW late \in BOOLEAN, MonExpire(late)
      PROVE  Calm'
  BY <1>3 DEF Calm, MonExpire
<1> QED BY <1>1, <1>2, <1>3 DEF Watch

(* The same for the actions of the kernel and the clients. *)
LEMMA KernelCalm ==
  ASSUME TypeOK, PoliteClients, Calm, Kernel
  PROVE  Calm'
<1>1. ASSUME NEW s \in Slots, NEW how \in Closings, PeerClose(s, how)
      PROVE  Calm'
  BY <1>1, ClientAssumption DEF TypeOK, Calm, PoliteClients, Alive, PeerClose
<1>2. ASSUME NEW s \in Slots, NEW result \in {"data", "fail", "eof"}, RecvComplete(s, result)
      PROVE  Calm'
  BY <1>2 DEF TypeOK, Calm, Alive, MayReceive, RecvComplete
<1>3. ASSUME NEW s \in Slots, SendDone(s)
      PROVE  Calm'
  BY <1>3 DEF TypeOK, Calm, Alive, SendDone
<1> QED BY <1>1, <1>2, <1>3 DEF Kernel

(* What most steps leave alone of that. *)
Gentle(t) ==
    /\ Others(t)
    /\ \A s \in Slots : peer'[s] = peer[s] /\ recvIO'[s] = recvIO[s] /\ (reserve[s] => reserve'[s])
    /\ freeIdx \subseteq freeIdx'
    /\ pc[t] = "rel_push" => cur[t] \in freeIdx'
    /\ pc'[t] \notin {"rel_packets", "acc_fail"}
    /\ pc[t] \in RecvPlaces => pc'[t] \in RecvPlaces /\ cur'[t] = cur[t]

(* Such a step keeps Farewell. *)
LEMMA GentleFarewell ==
  ASSUME TypeOK, Farewell, NEW t \in Threads, Gentle(t)
  PROVE  Farewell'
<1>1. \A u \in Threads \ {t} : pc'[u] = pc[u] /\ cur'[u] = cur[u]
  BY DEF Gentle, Others
<1>2. \A u \in Threads : cur[u] \in Slots
  BY DEF TypeOK
<1>3. Announced'
  BY <1>1 DEF Gentle, Farewell, Announced
<1>4. Served'
  BY <1>1 DEF Gentle, Farewell, Served
<1>5. Excused'
  BY <1>1, <1>2 DEF Gentle, Farewell, Excused
<1>6. Told'
  BY <1>1, <1>2 DEF Gentle, Farewell, Told
<1> QED BY <1>3, <1>4, <1>5, <1>6 DEF Farewell

(* A thread that handles a receive holds a count. *)
LEMMA CountServes ==
  ASSUME TypeOK, Control, RefCount, NEW s \in Slots, ioCount[s] = 0
  PROVE  /\ recvIO[s] = "none"
         /\ \A t \in Threads : cur[t] = s => pc[t] \notin RecvPlaces
BY NoCountNoUse DEF Control

(* The release begins with a count of 0, so the receive has failed: the client *)
(* has closed, and had announced it.                                           *)
LEMMA RelCasFarewell ==
  ASSUME IInv, Farewell, NEW t \in Threads, RelCas(t), UNCHANGED <<upd, net>>
  PROVE  Farewell'
<1> USE DEF IInv
<1>1. PICK s \in Slots : s = cur[t]
  BY DEF TypeOK
<1>2. /\ pc[t] = "rel_cas" /\ UNCHANGED <<peer, recvIO, reserve, freeIdx, cur>>
      /\ \A u \in Threads \ {t} : pc'[u] = pc[u]
      /\ pc'[t] = IF ZeroCount(s) THEN "rel_packets" ELSE After(t)
  BY <1>1 DEF RelCas, TypeOK
<1>3. pc'[t] # "acc_fail" /\ (pc'[t] = "rel_packets" => ZeroCount(s))
  BY <1>2 DEF TypeOK
<1>4. ASSUME ZeroCount(s)
      PROVE  reserve[s]
  <2>1. /\ recvIO[s] = "none"
        /\ \A u \in Threads : cur[u] = s => pc[u] \notin RecvPlaces
    BY <1>4, CountServes DEF ZeroCount
  <2>2. peer[s] # "up"
    BY <2>1 DEF Farewell, Served
  <2>3. s \notin freeIdx
    BY <2>1 DEF Ownership
  <2>4. ASSUME NEW u \in Threads, pc[u] = "rel_push", cur[u] = s
        PROVE  FALSE
    BY <1>4, <2>4 DEF Ownership, ZeroCount
  <2> QED BY <2>2, <2>3, <2>4 DEF Farewell, Announced
<1>5. Announced'
  BY <1>2 DEF Farewell, Announced
<1>6. Served'
  BY <1>2 DEF Farewell, Served
<1>7. Excused'
  BY <1>2, <1>3 DEF Farewell, Excused
<1>8. Told'
  BY <1>1, <1>2, <1>3, <1>4 DEF Farewell, Told
<1> QED BY <1>5, <1>6, <1>7, <1>8 DEF Farewell

(* The slot that is cleared is nobody else's. *)
LEMMA RelClearFarewell ==
  ASSUME IInv, Farewell, NEW t \in Threads, RelClear(t), UNCHANGED <<upd, net>>
  PROVE  Farewell'
<1> USE DEF IInv
<1>1. PICK s \in Slots : s = cur[t]
  BY DEF TypeOK
<1>2. /\ pc[t] = "rel_clear" /\ pc'[t] = "rel_push" /\ UNCHANGED <<peer, freeIdx, cur>>
      /\ \A u \in Threads \ {t} : pc'[u] = pc[u]
      /\ recvIO'[s] = "prepaid"
      /\ \A r \in Slots \ {s} : recvIO'[r] = recvIO[r] /\ reserve'[r] = reserve[r]
  BY <1>1 DEF RelClear, TypeOK
<1>3. \A u \in Threads \ {t} : pc[u] = "rel_packets" => cur[u] # s
  BY <1>1, <1>2 DEF Ownership
<1>4. \A u \in Threads : cur[u] \in Slots
  BY DEF TypeOK
<1>5. Announced'
  BY <1>1, <1>2 DEF Farewell, Announced
<1>6. Served'
  BY <1>2 DEF Farewell, Served
<1>7. Excused'
  BY <1>2 DEF Farewell, Excused
<1>8. Told'
  BY <1>2, <1>3, <1>4 DEF Farewell, Told
<1> QED BY <1>5, <1>6, <1>7, <1>8 DEF Farewell

(* The next receive is posted, or fails because the client has closed. *)
LEMMA RpIssueFarewell ==
  ASSUME TypeOK, Farewell, NEW t \in Threads, NEW failed \in BOOLEAN, failed => peer[cur[t]] = "reset",
         RpIssue(t, failed), UNCHANGED <<upd, net>>
  PROVE  Farewell'
<1>1. PICK s \in Slots : s = cur[t]
  BY DEF TypeOK
<1>2. /\ pc[t] = "rp_issue" /\ pc'[t] \notin {"rel_packets", "acc_fail"}
      /\ UNCHANGED <<peer, reserve, freeIdx, cur>>
      /\ \A u \in Threads \ {t} : pc'[u] = pc[u]
      /\ recvIO'[s] = IF failed THEN recvIO[s] ELSE "pending"
      /\ \A r \in Slots \ {s} : recvIO'[r] = recvIO[r]
  BY <1>1 DEF RpIssue, TypeOK
<1>3. \A u \in Threads : cur[u] \in Slots
  BY DEF TypeOK
<1>5. Announced'
  BY <1>1, <1>2 DEF Farewell, Announced
<1>6. Served'
  BY <1>1, <1>2 DEF Farewell, Served
<1>7. Excused'
  BY <1>2, <1>3 DEF Farewell, Excused
<1>8. Told'
  BY <1>2, <1>3 DEF Farewell, Told
<1> QED BY <1>5, <1>6, <1>7, <1>8 DEF Farewell

(* AcceptUser: the slot comes from the stack with its prepaid count. *)
LEMMA AccPopFarewell ==
  ASSUME IInv, Farewell, NEW s \in Slots, AccPop(s)
  PROVE  Farewell'
<1> USE DEF IInv
<1>1. /\ s \in freeIdx /\ freeIdx' = freeIdx \ {s} /\ peer'[s] = "up" /\ recvIO[s] = "prepaid"
      /\ pc[Acceptor] = "idle" /\ pc'[Acceptor] = "acc_id"
      /\ \A u \in Threads \ {Acceptor} : pc'[u] = pc[u] /\ cur'[u] = cur[u]
      /\ \A r \in Slots \ {s} : peer'[r] = peer[r]
      /\ UNCHANGED <<recvIO, reserve>>
  BY DEF AccPop, TypeOK, Ownership
<1>2. \A u \in Threads : cur[u] \in Slots
  BY DEF TypeOK
<1>5. Announced'
  BY <1>1 DEF Farewell, Announced
<1>6. Served'
  BY <1>1 DEF Farewell, Served
<1>7. Excused'
  BY <1>1 DEF Farewell, Excused
<1>8. Told'
  BY <1>1 DEF Farewell, Told
<1> QED BY <1>5, <1>6, <1>7, <1>8 DEF Farewell

(* The first receive of a session. *)
LEMMA AccRecvFarewell ==
  ASSUME TypeOK, Farewell, NEW failed \in BOOLEAN, AccRecv(failed)
  PROVE  Farewell'
<1>1. PICK s \in Slots : s = cur[Acceptor]
  BY DEF TypeOK
<1>2. /\ pc[Acceptor] = "acc_recv" /\ pc'[Acceptor] = IF failed THEN "acc_fail" ELSE "idle"
      /\ failed => peer[s] = "reset"
      /\ UNCHANGED <<peer, reserve, freeIdx, cur>>
      /\ \A u \in Threads \ {Acceptor} : pc'[u] = pc[u]
      /\ recvIO'[s] = IF failed THEN recvIO[s] ELSE "pending"
      /\ \A r \in Slots \ {s} : recvIO'[r] = recvIO[r]
  BY <1>1 DEF AccRecv, TypeOK
<1>5. Announced'
  BY <1>1, <1>2 DEF Farewell, Announced
<1>6. Served'
  BY <1>1, <1>2 DEF Farewell, Served
<1>7. Excused'
  BY <1>1, <1>2 DEF Farewell, Excused
<1>8. Told'
  BY <1>2 DEF Farewell, Told
<1> QED BY <1>5, <1>6, <1>7, <1>8 DEF Farewell

(* It failed. *)
LEMMA AccFailFarewell ==
  ASSUME TypeOK, Farewell, AccFail, UNCHANGED <<upd, net>>
  PROVE  Farewell'
<1>1. PICK s \in Slots : s = cur[Acceptor]
  BY DEF TypeOK
<1>2. /\ pc[Acceptor] = "acc_fail" /\ pc'[Acceptor] \in {"idle", "rel_cas"}
      /\ UNCHANGED <<peer, reserve, freeIdx, cur>>
      /\ \A u \in Threads \ {Acceptor} : pc'[u] = pc[u]
      /\ recvIO'[s] = "none"
      /\ \A r \in Slots \ {s} : recvIO'[r] = recvIO[r]
  BY <1>1 DEF AccFail, TypeOK
<1>5. Announced'
  BY <1>1, <1>2 DEF Farewell, Announced
<1>6. Served'
  BY <1>1, <1>2 DEF Farewell, Served, Excused
<1>7. Excused'
  BY <1>1, <1>2 DEF Farewell, Excused
<1>8. Told'
  BY <1>2 DEF Farewell, Told
<1> QED BY <1>5, <1>6, <1>7, <1>8 DEF Farewell

(* A worker takes a completed receive. *)
LEMMA GetRecvFarewell ==
  ASSUME TypeOK, Calm, Farewell, NEW w \in Workers, NEW s \in Slots, GetRecv(w, s)
  PROVE  Farewell'
<1>1. /\ recvIO[s] \in {"data", "fail"}
      /\ pc[w] = "idle" /\ pc'[w] = IF recvIO[s] = "data" THEN "recv" ELSE "final"
      /\ cur'[w] = s
      /\ UNCHANGED <<peer, reserve, freeIdx>>
      /\ \A u \in Threads \ {w} : pc'[u] = pc[u] /\ cur'[u] = cur[u]
      /\ recvIO'[s] = "none"
      /\ \A r \in Slots \ {s} : recvIO'[r] = recvIO[r]
  BY DEF GetRecv, TypeOK, Calm
<1>5. Announced'
  BY <1>1 DEF Farewell, Announced
<1>6. Served'
  BY <1>1 DEF Farewell, Served, Excused
<1>7. Excused'
  BY <1>1, SMTT(40) DEF Farewell, Excused, TypeOK
<1>8. Told'
  BY <1>1 DEF Farewell, Told
<1> QED BY <1>5, <1>6, <1>7, <1>8 DEF Farewell

(* The clients close where they may, and receives complete. *)
LEMMA KernelFarewell ==
  ASSUME TypeOK, PoliteClients, Calm, Farewell, Kernel
  PROVE  Farewell'
<1>1. ASSUME NEW s \in Slots, NEW how \in Closings, PeerClose(s, how)
      PROVE  Farewell'
  <2>1. /\ reserve[s] /\ peer'[s] = how /\ how = "reset"
        /\ \A r \in Slots \ {s} : peer'[r] = peer[r]
        /\ UNCHANGED <<reserve, recvIO, freeIdx, pc, cur>>
    BY <1>1 DEF PeerClose, MayClose, PoliteClients, TypeOK
  <2>2. cur[Acceptor] \in Slots
    BY DEF TypeOK
  <2> QED BY <2>1, <2>2 DEF Farewell, Announced, Served, Excused, Told
<1>2. ASSUME NEW s \in Slots, NEW result \in {"data", "fail", "eof"}, RecvComplete(s, result)
      PROVE  Farewell'
  <2>1. /\ recvIO'[s] = result /\ (result # "data" => peer[s] # "up")
        /\ \A r \in Slots \ {s} : recvIO'[r] = recvIO[r]
        /\ UNCHANGED <<reserve, peer, freeIdx, pc, cur>>
    BY <1>2 DEF RecvComplete, MayReceive, TypeOK
  <2> QED BY <2>1 DEF Farewell, Announced, Served, Excused, Told
<1>3. ASSUME NEW s \in Slots, SendDone(s)
      PROVE  Farewell'
  <2>1. UNCHANGED <<reserve, recvIO, peer, freeIdx, pc, cur>>
    BY <1>3 DEF SendDone
  <2> QED BY <2>1 DEF Farewell, Announced, Served, Excused, Told
<1> QED BY <1>1, <1>2, <1>3 DEF Kernel

(* Passing a message on. *)
LEMMA ChatMessageGentle ==
  ASSUME TypeOK, NEW recipients \in SUBSET clients, ChatMessage(recipients)
  PROVE  Gentle(Updater)
<1>1. UNCHANGED <<peer, recvIO, reserve, freeIdx>>
  BY DEF ChatMessage
<1>2. /\ pc[Updater] = "idle" /\ pc'[Updater] \in {"idle", "acq_inc"} /\ Others(Updater)
  BY ChatMessageMoves DEF ChatMessage
<1> QED BY <1>1, <1>2 DEF Gentle

(* The steps of the routines of NetSession. *)
LEMMA RoutineFarewell ==
  ASSUME IInv, PoliteClients, Calm, Farewell, NEW t \in Threads, Routine(t), UNCHANGED <<upd, net>>
  PROVE  Farewell'
<1> TypeOK
  BY DEF IInv
<1>1. CASE AcqInc(t)
  <2>1. Gentle(t)
    BY <1>1 DEF TypeOK, Gentle, Others, AcqInc
  <2> QED BY <2>1, GentleFarewell
<1>2. CASE AcqFlag(t)
  <2>1. Gentle(t)
    BY <1>2 DEF TypeOK, Gentle, Others, AcqFlag
  <2> QED BY <2>1, GentleFarewell
<1>3. CASE AcqId(t)
  <2>1. Gentle(t)
    BY <1>3 DEF TypeOK, Gentle, Others, AcqId
  <2> QED BY <2>1, GentleFarewell
<1>4. CASE AcqFail(t)
  <2>1. Gentle(t)
    BY <1>4 DEF TypeOK, Gentle, Others, AcqFail
  <2> QED BY <2>1, GentleFarewell
<1>5. CASE Drop(t)
  <2>1. Gentle(t)
    BY <1>5 DEF TypeOK, Gentle, Others, Drop
  <2> QED BY <2>1, GentleFarewell
<1>6. CASE RelCas(t)
  BY <1>6, RelCasFarewell
<1>7. CASE RelPackets(t)
  <2>1. Gentle(t)
    BY <1>7 DEF TypeOK, Gentle, Others, RelPackets
  <2> QED BY <2>1, GentleFarewell
<1>8. CASE RelClear(t)
  BY <1>8, RelClearFarewell
<1>9. CASE RelPush(t)
  <2>1. Gentle(t)
    BY <1>9 DEF TypeOK, Gentle, Others, RelPush
  <2> QED BY <2>1, GentleFarewell
<1>10. CASE RelLeave(t)
  <2>1. Gentle(t)
    BY <1>10 DEF TypeOK, Gentle, Others, RelLeave
  <2> QED BY <2>1, GentleFarewell
<1>11. CASE Cancel(t)
  BY <1>11 DEF Calm, Cancel
<1>12. CASE EnQ(t)
  <2>1. Gentle(t)
    BY <1>12 DEF TypeOK, Gentle, Others, EnQ
  <2> QED BY <2>1, GentleFarewell
<1>13. CASE Pqcs(t)
  <2>1. Gentle(t)
    BY <1>13 DEF TypeOK, Gentle, Others, Pqcs
  <2> QED BY <2>1, GentleFarewell
<1>14. CASE Mark(t)
  <2>1. Gentle(t)
    BY <1>14 DEF TypeOK, Gentle, Others, Mark
  <2> QED BY <2>1, GentleFarewell
<1>15. CASE PostFlag(t)
  <2>1. Gentle(t)
    BY <1>15 DEF TypeOK, Gentle, Others, PostFlag
  <2> QED BY <2>1, GentleFarewell
<1>16. CASE PostCount(t)
  <2>1. Gentle(t)
    BY <1>16 DEF TypeOK, Gentle, Others, PostCount
  <2> QED BY <2>1, GentleFarewell
<1>17. CASE PostUnflag(t)
  <2>1. Gentle(t)
    BY <1>17 DEF TypeOK, Gentle, Others, PostUnflag
  <2> QED BY <2>1, GentleFarewell
<1>18. CASE PostRecheck(t)
  <2>1. Gentle(t)
    BY <1>18 DEF TypeOK, Gentle, Others, PostRecheck
  <2> QED BY <2>1, GentleFarewell
<1>19. CASE PostInc(t)
  <2>1. Gentle(t)
    BY <1>19 DEF TypeOK, Gentle, Others, PostInc
  <2> QED BY <2>1, GentleFarewell
<1>20. CASE PostDeq(t)
  <2>1. Gentle(t)
    BY <1>20 DEF TypeOK, Gentle, Others, PostDeq
  <2> QED BY <2>1, GentleFarewell
<1>21. CASE PostCancel(t)
  <2>1. Gentle(t)
    BY <1>21 DEF TypeOK, Gentle, Others, PostCancel
  <2> QED BY <2>1, GentleFarewell
<1>22. ASSUME NEW failed \in BOOLEAN, failed => peer[cur[t]] = "reset", PostSend(t, failed)
      PROVE  Farewell'
  <2>1. Gentle(t)
    BY <1>22 DEF TypeOK, Gentle, Others, PostSend
  <2> QED BY <2>1, GentleFarewell
<1>23. CASE Drop2(t)
  <2>1. Gentle(t)
    BY <1>23 DEF TypeOK, Gentle, Others, Drop2
  <2> QED BY <2>1, GentleFarewell
<1>24. CASE RpInc(t)
  <2>1. Gentle(t)
    BY <1>24 DEF TypeOK, Gentle, Others, RpInc
  <2> QED BY <2>1, GentleFarewell
<1>25. CASE RpCancel(t)
  <2>1. Gentle(t)
    BY <1>25 DEF TypeOK, Gentle, Others, RpCancel, Calm
  <2> QED BY <2>1, GentleFarewell
<1>26. ASSUME NEW failed \in BOOLEAN, failed => peer[cur[t]] = "reset", RpIssue(t, failed)
      PROVE  Farewell'
  BY <1>26, RpIssueFarewell DEF IInv
<1>27. CASE RpFail(t)
  <2>1. Gentle(t)
    BY <1>27 DEF TypeOK, Gentle, Others, RpFail
  <2> QED BY <2>1, GentleFarewell
<1> QED BY <1>1, <1>2, <1>3, <1>4, <1>5, <1>6, <1>7, <1>8, <1>9, <1>10, <1>11, <1>12, <1>13, <1>14,
     <1>15, <1>16, <1>17, <1>18, <1>19, <1>20, <1>21, <1>22, <1>23, <1>24, <1>25, <1>26, <1>27 DEF Routine

(* The same for the actions of the accept thread. *)
LEMMA AcceptFarewell ==
  ASSUME IInv, PoliteClients, Calm, Farewell, Accept
  PROVE  Farewell'
<1> TypeOK
  BY DEF IInv
<1>1. ASSUME NEW s \in Slots, AccPop(s)
      PROVE  Farewell'
  BY <1>1, AccPopFarewell
<1>2. CASE AccId
  <2>1. Gentle(Acceptor)
    BY <1>2 DEF TypeOK, Gentle, Others, AccId
  <2> QED BY <2>1, GentleFarewell
<1>3. CASE AccFlag
  <2>1. Gentle(Acceptor)
    BY <1>3 DEF TypeOK, Gentle, Others, AccFlag
  <2> QED BY <2>1, GentleFarewell
<1>4. CASE AccUsed
  <2>1. Gentle(Acceptor)
    BY <1>4 DEF TypeOK, Gentle, Others, AccUsed
  <2> QED BY <2>1, GentleFarewell
<1>5. CASE AccAttachFail
  <2>1. Gentle(Acceptor)
    BY <1>5 DEF TypeOK, Gentle, Others, AccAttachFail
  <2> QED BY <2>1, GentleFarewell
<1>6. CASE AccJoin
  <2>1. Gentle(Acceptor)
    BY <1>6 DEF TypeOK, Gentle, Others, AccJoin
  <2> QED BY <2>1, GentleFarewell
<1>7. ASSUME NEW failed \in BOOLEAN, AccRecv(failed)
      PROVE  Farewell'
  BY <1>7, AccRecvFarewell DEF IInv
<1>8. CASE AccFail
  BY <1>8, AccFailFarewell DEF IInv, AccFail
<1> QED BY <1>1, <1>2, <1>3, <1>4, <1>5, <1>6, <1>7, <1>8 DEF Accept

(* The same for the actions of a worker. *)
LEMMA WorkFarewell ==
  ASSUME IInv, PoliteClients, Calm, Farewell, NEW w \in Workers, Work(w)
  PROVE  Farewell'
<1> TypeOK
  BY DEF IInv
<1>1. ASSUME NEW s \in Slots, GetRecv(w, s)
      PROVE  Farewell'
  BY <1>1, GetRecvFarewell DEF IInv
<1>2. ASSUME NEW s \in Slots, GetSend(w, s)
      PROVE  Farewell'
  <2>1. Gentle(w)
    BY <1>2 DEF TypeOK, Gentle, Others, GetSend
  <2> QED BY <2>1, GentleFarewell
<1>3. ASSUME NEW i \in Ids, GetPost(w, i)
      PROVE  Farewell'
  <2>1. Gentle(w)
    BY <1>3 DEF TypeOK, Gentle, Others, GetPost
  <2> QED BY <2>1, GentleFarewell
<1>4. ASSUME NEW kind \in Kinds, RecvMessage(w, kind)
      PROVE  Farewell'
  <2>1. Gentle(w)
    BY <1>4 DEF TypeOK, Gentle, Others, RecvMessage
  <2> QED BY <2>1, GentleFarewell
<1>5. CASE RecvGarbage(w)
  BY <1>5 DEF PoliteClients, RecvGarbage
<1>6. CASE RecvDone(w)
  <2>1. Gentle(w)
    BY <1>6 DEF TypeOK, Gentle, Others, RecvDone
  <2> QED BY <2>1, GentleFarewell
<1>7. CASE SendComplete(w)
  <2>1. Gentle(w)
    BY <1>7 DEF TypeOK, Gentle, Others, SendComplete
  <2> QED BY <2>1, GentleFarewell
<1>8. CASE Final(w)
  <2>1. Gentle(w)
    BY <1>8 DEF TypeOK, Gentle, Others, Final
  <2> QED BY <2>1, GentleFarewell
<1> QED BY <1>1, <1>2, <1>3, <1>4, <1>5, <1>6, <1>7, <1>8 DEF Work

(* The same for the actions of the update thread. *)
LEMMA UpdateFarewell ==
  ASSUME IInv, PoliteClients, Calm, Farewell, Update
  PROVE  Farewell'
<1> TypeOK
  BY DEF IInv
<1>1. CASE CreateNewUser
  <2>1. Gentle(Updater)
    BY <1>1 DEF TypeOK, Gentle, Others, CreateNewUser
  <2> QED BY <2>1, GentleFarewell
<1>2. CASE DeleteUser
  <2>1. Gentle(Updater)
    BY <1>2 DEF TypeOK, Gentle, Others, DeleteUser
  <2> QED BY <2>1, GentleFarewell
<1>3. CASE TimeOut
  <2>1. Gentle(Updater)
    BY <1>3 DEF TypeOK, Gentle, Others, TimeOut
  <2> QED BY <2>1, GentleFarewell
<1>4. CASE BadMessage
  <2>1. Gentle(Updater)
    BY <1>4 DEF TypeOK, Gentle, Others, BadMessage
  <2> QED BY <2>1, GentleFarewell
<1>5. ASSUME NEW recipients \in SUBSET clients, ChatMessage(recipients)
      PROVE  Farewell'
  BY <1>5, ChatMessageGentle, GentleFarewell DEF IInv
<1>6. ASSUME NEW i \in Ids, SendNext(i)
      PROVE  Farewell'
  <2>1. Gentle(Updater)
    BY <1>6 DEF TypeOK, Gentle, Others, SendNext
  <2> QED BY <2>1, GentleFarewell
<1> QED BY <1>1, <1>2, <1>3, <1>4, <1>5, <1>6 DEF Update

(* The same for the actions of the monitor thread. *)
LEMMA WatchFarewell ==
  ASSUME IInv, PoliteClients, Calm, Farewell, Watch
  PROVE  Farewell'
<1> TypeOK
  BY DEF IInv
<1>1. ASSUME NEW s \in Slots, MonUsed(s)
      PROVE  Farewell'
  BY <1>1 DEF PoliteClients, MonUsed
<1>2. CASE MonId
  BY <1>2 DEF Calm, MonId
<1>3. ASSUME NEW late \in BOOLEAN, MonExpire(late)
      PROVE  Farewell'
  BY <1>3 DEF Calm, MonExpire
<1> QED BY <1>1, <1>2, <1>3 DEF Watch

(* Every step keeps Polite. *)
LEMMA PoliteStep ==
  ASSUME IInv, IInv', PoliteClients, Polite, [Next]_vars
  PROVE  Polite'
<1> USE DEF Polite
<1>1. TypeOK
  BY DEF IInv
<1>2. crash' \notin {"reserve", "eof"}
  <2>1. \A t \in Threads : ~Fails(t, "reserve") /\ ~Fails(t, "eof")
    BY DEF Fails, Calm, Farewell, Told
  <2>2. Crashes => crash' \notin {"reserve", "eof"}
    BY <2>1 DEF Crashes, Failing
  <2> QED BY <2>2, CrashSteps
<1>3. CASE Crashes \/ UNCHANGED vars
  <2>1. UNCHANGED <<pc, op, cancel, recvIO, peer, jobs, reserve, freeIdx, cur>>
    BY <1>3 DEF Crashes, vars
  <2> QED BY <1>2, <2>1 DEF Calm, Farewell, Announced, Served, Excused, Told
<1>4. CASE Kernel
  BY <1>1, <1>2, <1>4, KernelCalm, KernelFarewell
<1>5. ASSUME NEW t \in Threads, ThreadStep(t)
      PROVE  Polite'
  <2>1. Calm'
    BY <1>1, <1>5, RoutineCalm, AcceptCalm, WorkCalm, UpdateCalm, WatchCalm DEF ThreadStep
  <2>2. Farewell'
    BY <1>5, RoutineFarewell, AcceptFarewell, WorkFarewell, UpdateFarewell, WatchFarewell DEF ThreadStep
  <2> QED BY <1>2, <2>1, <2>2
<1> QED BY <1>3, <1>4, <1>5 DEF Next

(* No session has begun. *)
LEMMA InitPolite == Init => Polite
<1> SUFFICES ASSUME Init
             PROVE  Polite
  OBVIOUS
<1>1. Calm
  BY DEF Init, Calm, CalmJobs
<1>2. Farewell
  BY DEF Init, Farewell, Announced, Served, Excused, Told
<1> QED BY <1>1, <1>2 DEF Init, Polite

(* A server whose clients announce that they leave, wait until that is processed, *)
(* are refused nothing and not timed out, never dies, unless packets overrun the   *)
(* gather array (see the run overflow) or the heap held no zeros (see the run      *)
(* fresh): ReleaseSession finds _bReserveDiscon up (NetServerLib.cpp:854),         *)
(* whichever thread releases the session and whatever else is in progress.        *)
THEOREM PoliteCorrect ==
  ASSUME PoliteClients, HeapPackets \subseteq {"null"}
  PROVE  Spec /\ []GatherFits => []NoCrash
<1>1. Init => Polite
  BY InitPolite
<1>2. IInv /\ IInv' /\ Polite /\ [Next]_vars => Polite'
  BY PoliteStep
<1>3. IInv /\ Polite /\ NoInternalCrash /\ NoHeapPointer /\ GatherFits => NoCrash
  BY DEF IInv, TypeOK, Checks, Polite, NoInternalCrash, NoHeapPointer, GatherFits, NoCrash
<1> QED BY <1>1, <1>2, <1>3, Invariance, ChecksCorrect, HeapCorrect, PTL DEF Spec
=============================================================================
