------------------------- MODULE NetServerSessions --------------------------
(***************************************************************************)
(* The step lemmas of what a slot may be used for, of the clients, and of  *)
(* the gather arrays.                                                      *)
(* Possession (Ownership and Owned): a slot without an open session is on  *)
(* m_IndexStack, with the accept thread, or with the one thread that       *)
(* releases it; most steps are those of a Bystander. RecvPhase, SendPhase  *)
(* and Lifetime: who owns the two OVERLAPPEDs of a slot and its gather     *)
(* array, and that no slot is released under its users; a predicate for    *)
(* each (RecvAside, SendAside, LifeAside) says what a step may do without  *)
(* disturbing it.                                                          *)
(* Clients: a client is in m_ClientMap from the job of its join to the job *)
(* of its leave, its messages come between them, and no ID comes back.     *)
(* Most steps begin and end no client's (ClientsAside).                    *)
(* GatherEmpty: what SendPost and ReleaseSession find in the gather array  *)
(* and in the _SendQ, so that none of the checks of the server's own       *)
(* bookkeeping fails. Errands, SendsFail and Shelved: which sends can      *)
(* still fail, and where packets and flags may be at all.                  *)
(***************************************************************************)
EXTENDS NetServerBasics

USE ThreadAssumption DEF Threads, ref, ctl, snd, srv, loc, upd, net
USE DEF At, Goto, After, Decrement, Increment, Call, Enqueue, NextJob, SlotOf, Cancelled
USE DEF AcqPlaces, IOPlaces, OpenPlaces, AcceptPlaces, UsePlaces, Bodies, ReleasePlaces,
     RecvPlaces, SendPlaces

(* Who has the slots that have no open session, and that somebody has them. *)
Possession == Ownership /\ Owned

(* The places of a thread that has a slot in its hands. *)
Aside == ReleasePlaces \cup OpenPlaces \cup AcceptPlaces

(* A step that moves no slot from hand to hand. *)
Bystander(t) ==
    /\ Others(t)
    /\ \/ pc'[t] = pc[t] /\ cur'[t] = cur[t]
       \/ pc[t] \notin Aside /\ pc'[t] \notin Aside
       \/ pc[t] = "rel_packets" /\ pc'[t] = "rel_clear" /\ cur'[t] = cur[t]
       \/ pc[t] \in AcceptPlaces /\ pc'[t] \in AcceptPlaces \cup {"idle"} /\ cur'[t] = cur[t]
    /\ UNCHANGED <<released, id, freeIdx>>
    /\ \A s \in Slots : recvIO[s] = "prepaid" => recvIO'[s] = "prepaid"
    /\ \A s \in Slots : recvIO[s] = "none" /\ released[s] => recvIO'[s] = "none"

(* Such a step keeps Possession. *)
LEMMA BystanderPossession ==
  ASSUME TypeOK, Possession, NEW t \in Threads, Bystander(t)
  PROVE  Possession'
<1>1. \A u \in Threads :
        /\ pc'[u] \in ReleasePlaces <=> pc[u] \in ReleasePlaces
        /\ pc[u] \in ReleasePlaces => cur'[u] = cur[u] /\ (pc'[u] = "rel_push" <=> pc[u] = "rel_push")
        /\ pc'[u] \in OpenPlaces \/ pc[u] \in OpenPlaces => pc'[u] = pc[u] /\ cur'[u] = cur[u]
        /\ pc'[u] \in AcceptPlaces => pc[u] \in AcceptPlaces /\ cur'[u] = cur[u]
  BY DEF Bystander, Others, Aside
<1>2. UNCHANGED <<released, id, freeIdx>>
  BY DEF Bystander
<1>3. \A s \in Slots : Opening(s)' <=> Opening(s)
  BY <1>1 DEF Opening
<1>4. \A u \in Threads : cur[u] \in Slots
  BY DEF TypeOK
<1>5. ASSUME NEW u \in Threads, pc'[u] \in ReleasePlaces
      PROVE  /\ released'[cur'[u]] /\ cur'[u] \notin freeIdx' /\ ~Opening(cur[u])'
             /\ \A v \in Threads : pc'[v] \in ReleasePlaces /\ cur'[v] = cur'[u] => v = u
             /\ recvIO'[cur'[u]] = IF pc'[u] = "rel_push" THEN "prepaid" ELSE "none"
  <2>1. pc[u] \in ReleasePlaces /\ cur'[u] = cur[u] /\ (pc'[u] = "rel_push" <=> pc[u] = "rel_push")
    BY <1>1, <1>5
  <2>2. released'[cur'[u]] /\ cur'[u] \notin freeIdx' /\ ~Opening(cur[u])'
    BY <1>2, <1>3, <1>4, <2>1 DEF Possession, Ownership
  <2>3. \A v \in Threads : pc'[v] \in ReleasePlaces /\ cur'[v] = cur'[u] => v = u
    BY <1>1, <2>1 DEF Possession, Ownership
  <2>4. recvIO'[cur'[u]] = IF pc'[u] = "rel_push" THEN "prepaid" ELSE "none"
    BY <1>4, <2>1 DEF Possession, Ownership, Bystander
  <2> QED BY <2>2, <2>3, <2>4
<1>6. Ownership'
  <2>1. pc'[Acceptor] \in OpenPlaces \cup AcceptPlaces =>
        /\ cur'[Acceptor] \notin freeIdx'
        /\ recvIO'[cur'[Acceptor]] = "prepaid"
    <3>1. pc'[Acceptor] \in OpenPlaces \cup AcceptPlaces =>
             pc[Acceptor] \in OpenPlaces \cup AcceptPlaces /\ cur'[Acceptor] = cur[Acceptor]
      BY <1>1
    <3> QED BY <1>2, <1>4, <3>1 DEF Possession, Ownership, Bystander
  <2>2. pc'[Acceptor] = "acc_id" => released'[cur'[Acceptor]] \/ Virgin(cur[Acceptor])'
    BY <1>1, <1>2 DEF Possession, Ownership, Virgin
  <2>3. \A s \in freeIdx' : (released'[s] \/ Virgin(s)') /\ recvIO'[s] = "prepaid"
    BY <1>2 DEF Possession, Ownership, Bystander, Virgin, TypeOK
  <2>4. \A u \in Threads : pc'[u] \in ReleasePlaces => cur'[u] = cur[u]
    BY <1>1
  <2> QED BY <1>5, <2>1, <2>2, <2>3, <2>4 DEF Ownership
<1>7. Owned'
  BY <1>1, <1>2, <1>3 DEF Possession, Owned, Virgin
<1> QED BY <1>6, <1>7 DEF Possession

(* The compare-and-swap of ReleaseSession: it succeeds only on a count of    *)
(* zero, when the slot is in nobody's hands, and then the thread is its only *)
(* releaser.                                                                 *)
LEMMA RelCasPossession ==
  ASSUME TypeOK, Control, Possession, RefCount, NEW t \in Threads, RelCas(t)
  PROVE  Possession'
<1> DEFINE s == cur[t]
<1>1. s \in Slots
  BY DEF TypeOK
<1>2. CASE ~ZeroCount(s)
  <2>1. pc[t] = "rel_cas" /\ pc' = [pc EXCEPT ![t] = After(t)] /\ released' = released
    BY ZenonT(60), <1>2 DEF RelCas, ZeroCount, TypeOK
  <2>2. After(t) \in {"final", "idle", "pqcs"}
    BY <2>1, AfterPlaces
  <2>3. Bystander(t)
    BY <2>1, <2>2 DEF Bystander, Others, Aside, RelCas, TypeOK
  <2> QED BY <2>3, BystanderPossession
<1>3. CASE ZeroCount(s)
  <2>1. recvIO[s] = "none" /\ ~released[s]
    BY <1>1, <1>3, NoCountNoUse DEF ZeroCount
  <2>2. /\ pc[t] = "rel_cas" /\ pc' = [pc EXCEPT ![t] = "rel_packets"]
        /\ released' = [released EXCEPT ![s] = TRUE]
        /\ UNCHANGED <<id, freeIdx, recvIO, cur>>
    BY <1>3 DEF RelCas, ZeroCount, TypeOK
  <2>3. s \notin freeIdx /\ ~(pc[Acceptor] \in OpenPlaces \cup AcceptPlaces /\ cur[Acceptor] = s)
    BY <2>1 DEF Possession, Ownership
  <2>4. \A u \in Threads : pc[u] \in ReleasePlaces => cur[u] # s
    BY <2>1 DEF Possession, Ownership
  <2> HIDE DEF s
  <2>5. Ownership'
    BY <1>1, <2>1, <2>2, <2>3, <2>4 DEF s, TypeOK, Possession, Ownership, Opening, Virgin
  <2>6. Owned'
    BY <1>1, <2>2 DEF s, TypeOK, Possession, Owned, Opening, Virgin
  <2> QED BY <2>5, <2>6 DEF Possession
<1> QED BY <1>2, <1>3

(* SessionClear prepays the count of the next session. *)
LEMMA RelClearPossession ==
  ASSUME TypeOK, Control, Possession, NEW t \in Threads, RelClear(t)
  PROVE  Possession'
<1>1. /\ pc[t] = "rel_clear" /\ pc' = [pc EXCEPT ![t] = "rel_push"] /\ cur[t] \in Slots
      /\ recvIO' = [recvIO EXCEPT ![cur[t]] = "prepaid"]
      /\ UNCHANGED <<released, id, freeIdx, cur>>
  BY DEF RelClear, TypeOK
<1>2. \A u \in Threads : (pc'[u] \in ReleasePlaces <=> pc[u] \in ReleasePlaces) /\ (u # t => pc'[u] = pc[u])
  BY <1>1 DEF TypeOK
<1>3. /\ t = Acceptor => pc'[Acceptor] \notin OpenPlaces \cup AcceptPlaces
      /\ t # Acceptor => pc'[Acceptor] = pc[Acceptor]
  BY <1>1 DEF TypeOK
<1>4. \A s \in Slots : recvIO'[s] = IF s = cur[t] THEN "prepaid" ELSE recvIO[s]
  BY <1>1 DEF TypeOK
<1>5. ASSUME NEW u \in Threads, pc'[u] \in ReleasePlaces
      PROVE  /\ released[cur[u]] /\ cur[u] \notin freeIdx /\ ~Opening(cur[u])'
             /\ \A v \in Threads : pc'[v] \in ReleasePlaces /\ cur[v] = cur[u] => v = u
             /\ recvIO'[cur[u]] = IF pc'[u] = "rel_push" THEN "prepaid" ELSE "none"
  <2>1. pc[u] \in ReleasePlaces /\ cur[u] \in Slots
    BY <1>2, <1>5 DEF TypeOK
  <2>2. released[cur[u]] /\ cur[u] \notin freeIdx /\ ~Opening(cur[u])'
    BY <1>1, <1>3, <2>1 DEF Possession, Ownership, Opening
  <2>3. \A v \in Threads : pc'[v] \in ReleasePlaces /\ cur[v] = cur[u] => v = u
    BY <1>2, <2>1 DEF Possession, Ownership
  <2>4. recvIO'[cur[u]] = IF pc'[u] = "rel_push" THEN "prepaid" ELSE "none"
    <3>1. CASE u = t
      BY <1>1, <1>4, <2>1, <3>1 DEF TypeOK
    <3>2. CASE u # t
      BY <1>1, <1>2, <1>4, <2>1, <3>2 DEF Possession, Ownership
    <3> QED BY <3>1, <3>2
  <2> QED BY <2>2, <2>3, <2>4
<1>6. /\ pc'[Acceptor] \in OpenPlaces \cup AcceptPlaces =>
          cur[Acceptor] \notin freeIdx /\ recvIO'[cur[Acceptor]] = "prepaid"
      /\ pc'[Acceptor] = "acc_id" => released[cur[Acceptor]] \/ Virgin(cur[Acceptor])
  BY <1>3, <1>4 DEF Possession, Ownership, TypeOK
<1>7. \A s \in freeIdx : (released[s] \/ Virgin(s)) /\ recvIO'[s] = "prepaid"
  BY <1>4 DEF Possession, Ownership, TypeOK
<1>8. Ownership'
  BY <1>1, <1>5, <1>6, <1>7 DEF Ownership, Virgin
<1>9. Owned'
  BY <1>1, <1>2, <1>3 DEF Possession, Owned, Opening, Virgin
<1> QED BY <1>8, <1>9 DEF Possession

(* The slot passes from the releaser to m_IndexStack. *)
LEMMA RelPushPossession ==
  ASSUME TypeOK, Control, Possession, Lifetime, NEW t \in Threads, RelPush(t)
  PROVE  Possession'
<1>1. /\ pc[t] = "rel_push" /\ pc' = [pc EXCEPT ![t] = "rel_leave"] /\ cur[t] \in Slots
      /\ freeIdx' = freeIdx \cup {cur[t]}
      /\ UNCHANGED <<released, id, recvIO, cur>>
  BY DEF RelPush, TypeOK
<1>2. /\ released[cur[t]] /\ recvIO[cur[t]] = "prepaid" /\ ~Opening(cur[t])
      /\ \A u \in Threads : pc[u] \in ReleasePlaces /\ cur[u] = cur[t] => u = t
  BY <1>1 DEF Possession, Ownership
<1>3. pc[Acceptor] \in OpenPlaces \cup AcceptPlaces => cur[Acceptor] # cur[t]
  BY <1>2 DEF Opening, Lifetime
<1>4. \A u \in Threads : pc'[u] \in ReleasePlaces => pc[u] = pc'[u] /\ u # t
  BY <1>1 DEF TypeOK
<1>5. /\ t = Acceptor => pc'[Acceptor] \notin OpenPlaces \cup AcceptPlaces
      /\ t # Acceptor => pc'[Acceptor] = pc[Acceptor]
  BY <1>1 DEF TypeOK
<1>6. ASSUME NEW u \in Threads, pc'[u] \in ReleasePlaces
      PROVE  /\ released[cur[u]] /\ cur[u] \notin freeIdx' /\ ~Opening(cur[u])'
             /\ \A v \in Threads : pc'[v] \in ReleasePlaces /\ cur[v] = cur[u] => v = u
             /\ recvIO[cur[u]] = IF pc'[u] = "rel_push" THEN "prepaid" ELSE "none"
  BY <1>1, <1>2, <1>4, <1>5, <1>6 DEF Possession, Ownership, Opening
<1>7. /\ pc'[Acceptor] \in OpenPlaces \cup AcceptPlaces =>
          cur[Acceptor] \notin freeIdx' /\ recvIO[cur[Acceptor]] = "prepaid"
      /\ pc'[Acceptor] = "acc_id" => released[cur[Acceptor]] \/ Virgin(cur[Acceptor])
  BY <1>1, <1>3, <1>5 DEF Possession, Ownership
<1>8. \A s \in freeIdx' : (released[s] \/ Virgin(s)) /\ recvIO[s] = "prepaid"
  BY <1>1, <1>2 DEF Possession, Ownership
<1>9. Ownership'
  BY <1>1, <1>6, <1>7, <1>8 DEF Ownership, Virgin
<1>10. Owned'
  <2>1. ASSUME NEW s \in Slots, released[s] \/ Virgin(s), s # cur[t]
        PROVE  Opening(s)' \/ s \in freeIdx' \/ \E u \in Threads : pc'[u] \in ReleasePlaces /\ cur[u] = s
    BY <1>1, <1>5, <2>1 DEF TypeOK, Possession, Owned, Opening
  <2> QED BY <1>1, <2>1 DEF Owned, Virgin
<1> QED BY <1>9, <1>10 DEF Possession

(* It passes from m_IndexStack to the accept thread. *)
LEMMA AccPopPossession ==
  ASSUME TypeOK, Control, Possession, NEW z \in Slots, AccPop(z)
  PROVE  Possession'
<1>1. /\ pc[Acceptor] = "idle" /\ pc' = [pc EXCEPT ![Acceptor] = "acc_id"]
      /\ cur' = [cur EXCEPT ![Acceptor] = z]
      /\ z \in freeIdx /\ freeIdx' = freeIdx \ {z}
      /\ UNCHANGED <<released, id, recvIO>>
  BY DEF AccPop
<1>2. Ownership'
  BY <1>1 DEF TypeOK, Possession, Ownership, Opening, Virgin
<1>3. \A u \in Threads : pc[u] \in ReleasePlaces => pc'[u] = pc[u] /\ cur'[u] = cur[u]
  BY <1>1 DEF TypeOK
<1>4. Opening(z)' /\ \A s \in Slots : ~Opening(s)
  BY <1>1 DEF TypeOK, Opening
<1>5. Owned'
  <2>1. ASSUME NEW s \in Slots, released[s] \/ Virgin(s), s # z
        PROVE  s \in freeIdx' \/ \E u \in Threads : pc'[u] \in ReleasePlaces /\ cur'[u] = s
    BY <1>1, <1>3, <1>4, <2>1 DEF Possession, Owned
  <2> QED BY <1>1, <1>4, <2>1 DEF Owned, Virgin
<1> QED BY <1>2, <1>5 DEF Possession

(* It becomes an open session. *)
LEMMA AccFlagPossession ==
  ASSUME TypeOK, Control, Issued, Possession, AccFlag
  PROVE  Possession'
<1>1. /\ pc[Acceptor] = "acc_flag" /\ pc' = [pc EXCEPT ![Acceptor] = "acc_used"] /\ cur[Acceptor] \in Slots
      /\ released' = [released EXCEPT ![cur[Acceptor]] = FALSE] /\ ~Virgin(cur[Acceptor])
      /\ UNCHANGED <<id, recvIO, freeIdx, cur>>
  BY DEF AccFlag, TypeOK, Issued
<1>2. Ownership'
  BY <1>1 DEF TypeOK, Possession, Ownership, Opening, Virgin
<1>3. \A u \in Threads : pc[u] \in ReleasePlaces => pc'[u] = pc[u]
  BY <1>1 DEF TypeOK
<1>4. \A s \in Slots : Opening(s) => s = cur[Acceptor]
  BY DEF Opening
<1>5. ASSUME NEW s \in Slots, released'[s] \/ Virgin(s)
      PROVE  s \in freeIdx \/ \E u \in Threads : pc'[u] \in ReleasePlaces /\ cur[u] = s
  <2>1. s # cur[Acceptor] /\ (released[s] \/ Virgin(s))
    BY <1>1, <1>5 DEF TypeOK
  <2> QED BY <1>3, <1>4, <2>1 DEF Possession, Owned
<1>6. Owned'
  BY <1>1, <1>5 DEF Owned, Virgin
<1> QED BY <1>2, <1>6 DEF Possession

(* The new ID, while the slot is in the accept thread's hands. *)
LEMMA AccIdPossession ==
  ASSUME TypeOK, Control, Issued, Possession, AccId
  PROVE  Possession'
<1>1. /\ pc[Acceptor] = "acc_id" /\ pc' = [pc EXCEPT ![Acceptor] = "acc_flag"] /\ cur[Acceptor] \in Slots
      /\ id' = [id EXCEPT ![cur[Acceptor]] = id'[cur[Acceptor]]] /\ UNCHANGED <<released, recvIO, freeIdx, cur>>
  BY DEF AccId, TypeOK
<1>2. /\ \A s \in Slots : s # cur[Acceptor] => id'[s] = id[s]
      /\ \A u \in Threads : pc'[u] \in ReleasePlaces <=> pc[u] \in ReleasePlaces
      /\ \A u \in Threads : pc[u] \in ReleasePlaces => pc'[u] = pc[u]
      /\ \A s \in Slots : Opening(s)' <=> Opening(s)
  BY <1>1 DEF TypeOK, Opening
<1>3. Opening(cur[Acceptor]) /\ cur[Acceptor] \notin freeIdx
  BY <1>1 DEF Opening, Possession, Ownership
<1>4. Ownership'
  <2>1. ASSUME NEW s \in freeIdx
        PROVE  (released[s] \/ id'[s][2] = 0) /\ recvIO[s] = "prepaid"
    <3>1. s \in Slots /\ s # cur[Acceptor]
      BY <1>3 DEF TypeOK
    <3>2. (released[s] \/ id[s][2] = 0) /\ recvIO[s] = "prepaid"
      BY DEF Possession, Ownership, Virgin
    <3> QED BY <1>2, <3>1, <3>2
  <2>2. cur[Acceptor] \notin freeIdx /\ recvIO[cur[Acceptor]] = "prepaid" /\ pc'[Acceptor] # "acc_id"
    BY <1>1 DEF TypeOK, Possession, Ownership
  <2>3. ASSUME NEW t \in Threads, pc'[t] \in ReleasePlaces
        PROVE  /\ released[cur[t]] /\ cur[t] \notin freeIdx /\ cur[t] # cur[Acceptor]
               /\ \A u \in Threads : pc'[u] \in ReleasePlaces /\ cur[u] = cur[t] => u = t
               /\ recvIO[cur[t]] = IF pc'[t] = "rel_push" THEN "prepaid" ELSE "none"
    BY <1>1, <1>2, <2>3 DEF Opening, Possession, Ownership
  <2> QED BY <1>1, <2>1, <2>2, <2>3 DEF Ownership, Opening, Virgin
<1>5. Owned'
  BY <1>1, <1>2, <1>3 DEF Possession, Owned, Virgin
<1> QED BY <1>4, <1>5 DEF Possession

(* The accept thread is done with the slot: the prepaid count becomes the    *)
(* posted WSARecv, or is given back.                                         *)
LEMMA PrepaidTaken ==
  ASSUME TypeOK, Control, Issued, Possession, Lifetime,
         pc[Acceptor] \in AcceptPlaces,
         pc' = [pc EXCEPT ![Acceptor] = pc'[Acceptor]], pc'[Acceptor] \notin Aside \ AcceptPlaces,
         NEW r, recvIO' = [recvIO EXCEPT ![cur[Acceptor]] = r],
              r = "prepaid" \/ pc'[Acceptor] \notin AcceptPlaces,
         UNCHANGED <<released, id, freeIdx, cur>>
  PROVE  Possession'
<1>1. cur[Acceptor] \in Slots /\ cur[Acceptor] \notin freeIdx /\ ~released[cur[Acceptor]]
      /\ recvIO[cur[Acceptor]] = "prepaid"
  BY DEF TypeOK, Possession, Ownership, Lifetime
<1>2. \A u \in Threads : (pc'[u] \in ReleasePlaces <=> pc[u] \in ReleasePlaces) /\ (u # Acceptor => pc'[u] = pc[u])
  BY DEF TypeOK, Aside
<1>3. \A s \in Slots : ~Opening(s) /\ ~Opening(s)'
  BY DEF Opening, Aside
<1>4. \A s \in Slots : s # cur[Acceptor] => recvIO'[s] = recvIO[s]
  BY <1>1 DEF TypeOK
<1>5. \A u \in Threads : pc[u] \in ReleasePlaces => pc'[u] = pc[u] /\ cur[u] # cur[Acceptor] /\ cur[u] \in Slots
  BY <1>1, <1>2 DEF TypeOK, Possession, Ownership
<1>6. pc'[Acceptor] \in OpenPlaces \cup AcceptPlaces => recvIO'[cur[Acceptor]] = "prepaid"
  BY <1>1 DEF TypeOK, Aside
<1>7. Ownership'
  BY <1>1, <1>2, <1>3, <1>4, <1>5, <1>6 DEF TypeOK, Possession, Ownership, Aside, Virgin
<1>8. Owned'
  BY <1>2, <1>3 DEF Possession, Owned, Virgin
<1> QED BY <1>7, <1>8 DEF Possession

(* Passing a message on moves the update thread only. *)
LEMMA ChatMessageMoves ==
  ASSUME TypeOK, NEW recipients \in SUBSET clients, ChatMessage(recipients)
  PROVE  /\ pc[Updater] = "idle" /\ pc'[Updater] \in {"idle", "acq_inc"}
         /\ Others(Updater) /\ \A u \in Threads \ {Updater} : arg'[u] = arg[u]
<1>1. CASE Head(jobs).kind = "bye"
  BY <1>1 DEF TypeOK, ChatMessage, Others
<1>2. CASE Head(jobs).kind # "bye"
  BY <1>2 DEF ChatMessage, Others
<1> QED BY <1>1, <1>2

(* Every other action is that of a bystander. *)
LEMMA RoutinePossession ==
  ASSUME TypeOK, Control, Issued, Possession, RecvPhase, Lifetime, RefCount, NEW t \in Threads,
         Routine(t), UNCHANGED <<upd, net>>
  PROVE  Bystander(t) \/ Possession'
<1>1. CASE AcqInc(t)
  BY <1>1 DEF TypeOK, Control, Bystander, Others, Aside, AcqInc
<1>2. CASE AcqFlag(t)
  BY <1>2 DEF TypeOK, Control, Bystander, Others, Aside, AcqFlag
<1>3. CASE AcqId(t)
  BY <1>3 DEF TypeOK, Control, Bystander, Others, Aside, AcqId
<1>4. CASE AcqFail(t)
  BY <1>4 DEF TypeOK, Control, Bystander, Others, Aside, AcqFail
<1>5. CASE Drop(t)
  BY <1>5 DEF TypeOK, Control, Bystander, Others, Aside, Drop
<1>6. CASE RelCas(t)
  BY <1>6, RelCasPossession
<1>7. CASE RelPackets(t)
  BY <1>7 DEF TypeOK, Control, Bystander, Others, Aside, RelPackets
<1>8. CASE RelClear(t)
  BY <1>8, RelClearPossession
<1>9. CASE RelPush(t)
  BY <1>9, RelPushPossession
<1>10. CASE RelLeave(t)
  BY <1>10 DEF TypeOK, Control, Bystander, Others, Aside, RelLeave
<1>11. CASE Cancel(t)
  BY SMTT(30), <1>11 DEF TypeOK, Control, Bystander, Others, Aside, Cancel, Issued, Possession, Ownership,
     RecvPhase, Lifetime, NoUseAfterRelease, NoIOAcrossRelease
<1>12. CASE EnQ(t)
  BY <1>12 DEF TypeOK, Control, Bystander, Others, Aside, EnQ
<1>13. CASE Pqcs(t)
  BY <1>13 DEF TypeOK, Control, Bystander, Others, Aside, Pqcs
<1>14. CASE Mark(t)
  BY <1>14 DEF TypeOK, Control, Bystander, Others, Aside, Mark
<1>15. CASE PostFlag(t)
  BY <1>15 DEF TypeOK, Control, Bystander, Others, Aside, PostFlag
<1>16. CASE PostCount(t)
  BY <1>16 DEF TypeOK, Control, Bystander, Others, Aside, PostCount
<1>17. CASE PostUnflag(t)
  BY <1>17 DEF TypeOK, Control, Bystander, Others, Aside, PostUnflag
<1>18. CASE PostRecheck(t)
  BY <1>18 DEF TypeOK, Control, Bystander, Others, Aside, PostRecheck
<1>19. CASE PostInc(t)
  BY <1>19 DEF TypeOK, Control, Bystander, Others, Aside, PostInc
<1>20. CASE PostDeq(t)
  BY <1>20 DEF TypeOK, Control, Bystander, Others, Aside, PostDeq
<1>21. CASE PostCancel(t)
  BY <1>21 DEF TypeOK, Control, Bystander, Others, Aside, PostCancel
<1>22. ASSUME NEW failed \in BOOLEAN, PostSend(t, failed)
       PROVE  Bystander(t) \/ Possession'
  BY <1>22 DEF TypeOK, Control, Bystander, Others, Aside, PostSend
<1>23. CASE Drop2(t)
  BY <1>23 DEF TypeOK, Control, Bystander, Others, Aside, Drop2
<1>24. CASE RpInc(t)
  BY <1>24 DEF TypeOK, Control, Bystander, Others, Aside, RpInc
<1>25. CASE RpCancel(t)
  BY <1>25 DEF TypeOK, Control, Bystander, Others, Aside, RpCancel
<1>26. ASSUME NEW failed \in BOOLEAN, RpIssue(t, failed)
       PROVE  Bystander(t) \/ Possession'
  BY <1>26 DEF TypeOK, Control, Bystander, Others, Aside, RpIssue, Issued, Possession,
     Ownership, RecvPhase, Lifetime, NoUseAfterRelease, NoIOAcrossRelease
<1>27. CASE RpFail(t)
  BY <1>27 DEF TypeOK, Control, Bystander, Others, Aside, RpFail
<1> QED BY <1>1, <1>2, <1>3, <1>4, <1>5, <1>6, <1>7, <1>8, <1>9, <1>10, <1>11, <1>12, <1>13,
           <1>14, <1>15, <1>16, <1>17, <1>18, <1>19, <1>20, <1>21, <1>22, <1>23, <1>24, <1>25,
           <1>26, <1>27 DEF Routine

(* The same for the actions of the accept thread. *)
LEMMA AcceptPossession ==
  ASSUME TypeOK, Control, Issued, Possession, RecvPhase, Lifetime, RefCount, Accept
  PROVE  Bystander(Acceptor) \/ Possession'
<1>1. ASSUME NEW s \in Slots, AccPop(s)
      PROVE  Bystander(Acceptor) \/ Possession'
  BY <1>1, AccPopPossession
<1>2. CASE AccId
  BY <1>2, AccIdPossession
<1>3. CASE AccFlag
  BY <1>3, AccFlagPossession
<1>4. CASE AccUsed
  BY <1>4 DEF TypeOK, Control, Bystander, Others, Aside, AccUsed
<1>5. CASE AccAttachFail
  BY <1>5 DEF TypeOK, Control, Bystander, Others, Aside, AccAttachFail
<1>6. CASE AccJoin
  BY <1>6 DEF TypeOK, Control, Bystander, Others, Aside, AccJoin
<1>7. ASSUME NEW failed \in BOOLEAN, AccRecv(failed)
      PROVE  Bystander(Acceptor) \/ Possession'
  <2>1. CASE failed
    BY <1>7, <2>1 DEF TypeOK, Bystander, Others, Aside, AccRecv
  <2>2. CASE ~failed
    BY <1>7, <2>2, PrepaidTaken DEF TypeOK, Aside, AccRecv
  <2> QED BY <2>1, <2>2
<1>8. CASE AccFail
  BY <1>8, PrepaidTaken DEF TypeOK, Aside, AccFail
<1> QED BY <1>1, <1>2, <1>3, <1>4, <1>5, <1>6, <1>7, <1>8 DEF Accept

(* The same for the actions of a worker. *)
LEMMA WorkPossession ==
  ASSUME TypeOK, Control, Issued, Possession, RecvPhase, Lifetime, RefCount, NEW w \in Workers,
         Work(w)
  PROVE  Bystander(w)
<1>1. ASSUME NEW s \in Slots, GetRecv(w, s)
      PROVE  Bystander(w)
  BY <1>1 DEF TypeOK, Control, Bystander, Others, Aside, GetRecv, Issued, Possession, Ownership,
     RecvPhase, Lifetime, NoUseAfterRelease, NoIOAcrossRelease
<1>2. ASSUME NEW s \in Slots, GetSend(w, s)
      PROVE  Bystander(w)
  BY <1>2 DEF TypeOK, Control, Bystander, Others, Aside, GetSend
<1>3. ASSUME NEW i \in Ids, GetPost(w, i)
      PROVE  Bystander(w)
  BY <1>3 DEF TypeOK, Control, Bystander, Others, Aside, GetPost, Issued
<1>4. ASSUME NEW kind \in Kinds, RecvMessage(w, kind)
      PROVE  Bystander(w)
  BY <1>4 DEF TypeOK, Control, Bystander, Others, Aside, RecvMessage
<1>5. CASE RecvGarbage(w)
  BY <1>5 DEF TypeOK, Control, Bystander, Others, Aside, RecvGarbage, Issued
<1>6. CASE RecvDone(w)
  BY <1>6 DEF TypeOK, Control, Bystander, Others, Aside, RecvDone
<1>7. CASE SendComplete(w)
  BY <1>7 DEF TypeOK, Control, Bystander, Others, Aside, SendComplete, Issued
<1>8. CASE Final(w)
  BY <1>8 DEF TypeOK, Control, Bystander, Others, Aside, Final
<1> QED BY <1>1, <1>2, <1>3, <1>4, <1>5, <1>6, <1>7, <1>8 DEF Work

(* The same for the actions of the update thread. *)
LEMMA UpdatePossession ==
  ASSUME TypeOK, Control, Issued, Possession, RecvPhase, Lifetime, RefCount, Update
  PROVE  Bystander(Updater)
<1>1. CASE CreateNewUser
  BY <1>1 DEF TypeOK, Control, Bystander, Others, Aside, CreateNewUser
<1>2. CASE DeleteUser
  BY <1>2 DEF TypeOK, Control, Bystander, Others, Aside, DeleteUser
<1>3. CASE TimeOut
  BY <1>3 DEF TypeOK, Control, Bystander, Others, Aside, TimeOut, Issued
<1>4. CASE BadMessage
  BY <1>4 DEF TypeOK, Control, Bystander, Others, Aside, BadMessage, Issued
<1>5. ASSUME NEW recipients \in SUBSET clients, ChatMessage(recipients)
      PROVE  Bystander(Updater)
  BY <1>5, ChatMessageMoves DEF Bystander, Aside, ChatMessage
<1>6. ASSUME NEW i \in Ids, SendNext(i)
      PROVE  Bystander(Updater)
  BY <1>6 DEF TypeOK, Control, Bystander, Others, Aside, SendNext, Issued
<1> QED BY <1>1, <1>2, <1>3, <1>4, <1>5, <1>6 DEF Update

(* The same for the actions of the monitor thread. *)
LEMMA WatchPossession ==
  ASSUME TypeOK, Control, Issued, Possession, RecvPhase, Lifetime, RefCount, Watch
  PROVE  Bystander(Monitor)
<1>1. ASSUME NEW s \in Slots, MonUsed(s)
      PROVE  Bystander(Monitor)
  BY <1>1 DEF TypeOK, Control, Bystander, Others, Aside, MonUsed
<1>2. CASE MonId
  BY <1>2 DEF TypeOK, Control, Bystander, Others, Aside, MonId, Issued
<1>3. ASSUME NEW late \in BOOLEAN, MonExpire(late)
      PROVE  Bystander(Monitor)
  BY <1>3 DEF TypeOK, Control, Bystander, Others, Aside, MonExpire
<1> QED BY <1>1, <1>2, <1>3 DEF Watch

(* The same for the actions of the kernel and the clients. *)
LEMMA KernelPossession ==
  ASSUME TypeOK, Control, Issued, Possession, RecvPhase, Lifetime, RefCount, Kernel
  PROVE  Bystander(Acceptor)
<1>1. ASSUME NEW s \in Slots, NEW how \in Closings, PeerClose(s, how)
      PROVE  Bystander(Acceptor)
  BY <1>1 DEF TypeOK, Control, Bystander, Others, Aside, PeerClose
<1>2. ASSUME NEW s \in Slots, NEW result \in {"data", "fail", "eof"}, RecvComplete(s, result)
      PROVE  Bystander(Acceptor)
  BY SMTT(30), <1>2 DEF TypeOK, Control, Bystander, Others, Aside, RecvComplete, Issued, Possession,
     Ownership, RecvPhase, Lifetime, NoUseAfterRelease, NoIOAcrossRelease
<1>3. ASSUME NEW s \in Slots, SendDone(s)
      PROVE  Bystander(Acceptor)
  BY <1>3 DEF TypeOK, Control, Bystander, Others, Aside, SendDone
<1> QED BY <1>1, <1>2, <1>3 DEF Kernel

(* Every step keeps Possession. *)
LEMMA PossessionStep ==
  ASSUME TypeOK, Control, Issued, Possession, RecvPhase, Lifetime, RefCount, [Next]_vars
  PROVE  Possession'
<1>1. CASE Crashes \/ UNCHANGED vars
  <2>1. Bystander(Acceptor)
    BY <1>1 DEF Crashes, vars, Bystander, Others
  <2> QED BY <2>1, BystanderPossession
<1>2. CASE Kernel
  BY <1>2, KernelPossession, BystanderPossession
<1>3. ASSUME NEW t \in Threads, ThreadStep(t)
      PROVE  Possession'
  BY <1>3, BystanderPossession, RoutinePossession, AcceptPossession, WorkPossession,
     UpdatePossession,
     WatchPossession DEF ThreadStep
<1> QED BY <1>1, <1>2, <1>3 DEF Next

-----------------------------------------------------------------------------
(* A step of t that posts no receive but its own and takes over none. *)
RecvAside(t) ==
    /\ Others(t)
    /\ pc'[t] \in RecvPlaces => pc[t] \in RecvPlaces /\ cur'[t] = cur[t]
    /\ \A s \in Slots : recvIO[s] = "none" /\ ~released[s] =>
          \/ recvIO'[s] = "none"
          \/ pc[t] \in RecvPlaces /\ pc'[t] \notin RecvPlaces /\ cur[t] = s

(* Such a step keeps RecvPhase. *)
LEMMA RecvFrame ==
  ASSUME TypeOK, Control, Lifetime, RecvPhase, NEW t \in Threads, RecvAside(t)
  PROVE  RecvPhase'
<1>1. \A u \in Threads : pc'[u] \in RecvPlaces => pc[u] \in RecvPlaces /\ cur'[u] = cur[u]
  BY DEF RecvAside, Others
<1>2. \A u \in Threads : pc[u] \in RecvPlaces => ~released[cur[u]] /\ cur[u] \in Slots
  BY DEF TypeOK, Control, Lifetime, NoUseAfterRelease
<1>3. ASSUME NEW u \in Threads, pc'[u] \in RecvPlaces
      PROVE  recvIO'[cur[u]] = "none"
  <2>1. recvIO[cur[u]] = "none" /\ ~released[cur[u]] /\ cur[u] \in Slots
    BY <1>1, <1>2, <1>3 DEF RecvPhase
  <2>2. ~(pc[t] \in RecvPlaces /\ pc'[t] \notin RecvPlaces /\ cur[t] = cur[u])
    BY <1>1, <1>3 DEF RecvPhase
  <2> QED BY <2>1, <2>2 DEF RecvAside
<1> QED BY <1>1, <1>3 DEF RecvPhase

(* A worker takes over the completion of the receive: as an operation was    *)
(* outstanding, no other worker is between its completion and the next       *)
(* WSARecv.                                                                  *)
LEMMA GetRecvPhase ==
  ASSUME TypeOK, RecvPhase, NEW w \in Workers, NEW s \in Slots, GetRecv(w, s)
  PROVE  RecvPhase'
<1>1. recvIO[s] # "none" /\ recvIO' = [recvIO EXCEPT ![s] = "none"] /\ cur' = [cur EXCEPT ![w] = s]
  BY DEF GetRecv
<1>2. pc[w] = "idle" /\ \A u \in Threads \ {w} : pc'[u] = pc[u] /\ cur'[u] = cur[u]
  BY DEF GetRecv, TypeOK
<1>3. \A u \in Threads \ {w} : pc'[u] \in RecvPlaces => cur[u] # s /\ cur[u] \in Slots
  BY <1>1, <1>2 DEF RecvPhase, TypeOK
<1>4. \A u \in Threads \ {w} : pc'[u] \in RecvPlaces => recvIO'[cur'[u]] = "none"
  BY <1>1, <1>2, <1>3 DEF RecvPhase, TypeOK
<1>5. cur'[w] = s /\ recvIO'[s] = "none"
  BY <1>1 DEF TypeOK
<1> QED BY <1>2, <1>3, <1>4, <1>5 DEF RecvPhase

(* Every other action is a step aside. *)
LEMMA RoutineRecvPhase ==
  ASSUME TypeOK, Control, Issued, Possession, RecvPhase, SendPhase, Lifetime, RefCount,
         NEW t \in Threads, Routine(t), UNCHANGED <<upd, net>>
  PROVE  RecvAside(t)
<1>1. CASE AcqInc(t)
  BY <1>1 DEF TypeOK, Control, RecvAside, Others, AcqInc
<1>2. CASE AcqFlag(t)
  BY <1>2 DEF TypeOK, Control, RecvAside, Others, AcqFlag
<1>3. CASE AcqId(t)
  BY <1>3 DEF TypeOK, Control, RecvAside, Others, AcqId
<1>4. CASE AcqFail(t)
  BY <1>4 DEF TypeOK, Control, RecvAside, Others, AcqFail
<1>5. CASE Drop(t)
  BY <1>5 DEF TypeOK, Control, RecvAside, Others, Drop
<1>6. CASE RelCas(t)
  BY <1>6 DEF TypeOK, Control, RecvAside, Others, RelCas
<1>7. CASE RelPackets(t)
  BY <1>7 DEF TypeOK, Control, RecvAside, Others, RelPackets
<1>8. CASE RelClear(t)
  BY <1>8 DEF TypeOK, Control, RecvAside, Others, RelClear, RecvPhase, Possession, Ownership
<1>9. CASE RelPush(t)
  BY <1>9 DEF TypeOK, Control, RecvAside, Others, RelPush
<1>10. CASE RelLeave(t)
  BY <1>10 DEF TypeOK, Control, RecvAside, Others, RelLeave
<1>11. CASE Cancel(t)
  BY <1>11 DEF TypeOK, Control, RecvAside, Others, Cancel, RecvPhase
<1>12. CASE EnQ(t)
  BY <1>12 DEF TypeOK, Control, RecvAside, Others, EnQ
<1>13. CASE Pqcs(t)
  BY <1>13 DEF TypeOK, Control, RecvAside, Others, Pqcs
<1>14. CASE Mark(t)
  BY <1>14 DEF TypeOK, Control, RecvAside, Others, Mark
<1>15. CASE PostFlag(t)
  BY <1>15 DEF TypeOK, Control, RecvAside, Others, PostFlag
<1>16. CASE PostCount(t)
  BY <1>16 DEF TypeOK, Control, RecvAside, Others, PostCount
<1>17. CASE PostUnflag(t)
  BY <1>17 DEF TypeOK, Control, RecvAside, Others, PostUnflag
<1>18. CASE PostRecheck(t)
  BY <1>18 DEF TypeOK, Control, RecvAside, Others, PostRecheck
<1>19. CASE PostInc(t)
  BY <1>19 DEF TypeOK, Control, RecvAside, Others, PostInc
<1>20. CASE PostDeq(t)
  BY <1>20 DEF TypeOK, Control, RecvAside, Others, PostDeq
<1>21. CASE PostCancel(t)
  BY <1>21 DEF TypeOK, Control, RecvAside, Others, PostCancel
<1>22. ASSUME NEW failed \in BOOLEAN, PostSend(t, failed)
       PROVE  RecvAside(t)
  BY <1>22 DEF TypeOK, Control, RecvAside, Others, PostSend
<1>23. CASE Drop2(t)
  BY <1>23 DEF TypeOK, Control, RecvAside, Others, Drop2
<1>24. CASE RpInc(t)
  BY <1>24 DEF TypeOK, Control, RecvAside, Others, RpInc
<1>25. CASE RpCancel(t)
  BY <1>25 DEF TypeOK, Control, RecvAside, Others, RpCancel
<1>26. ASSUME NEW failed \in BOOLEAN, RpIssue(t, failed)
       PROVE  RecvAside(t)
  BY <1>26 DEF TypeOK, Control, RecvAside, Others, RpIssue, RecvPhase
<1>27. CASE RpFail(t)
  BY <1>27 DEF TypeOK, Control, RecvAside, Others, RpFail
<1> QED BY <1>1, <1>2, <1>3, <1>4, <1>5, <1>6, <1>7, <1>8, <1>9, <1>10, <1>11, <1>12, <1>13,
           <1>14, <1>15, <1>16, <1>17, <1>18, <1>19, <1>20, <1>21, <1>22, <1>23, <1>24, <1>25,
           <1>26, <1>27 DEF Routine

(* The same for the actions of the accept thread. *)
LEMMA AcceptRecvPhase ==
  ASSUME TypeOK, Control, Issued, Possession, RecvPhase, SendPhase, Lifetime, RefCount, Accept
  PROVE  RecvAside(Acceptor)
<1>1. ASSUME NEW s \in Slots, AccPop(s)
      PROVE  RecvAside(Acceptor)
  BY <1>1 DEF TypeOK, Control, RecvAside, Others, AccPop
<1>2. CASE AccId
  BY <1>2 DEF TypeOK, Control, RecvAside, Others, AccId
<1>3. CASE AccFlag
  BY <1>3 DEF TypeOK, Control, RecvAside, Others, AccFlag
<1>4. CASE AccUsed
  BY <1>4 DEF TypeOK, Control, RecvAside, Others, AccUsed
<1>5. CASE AccAttachFail
  BY <1>5 DEF TypeOK, Control, RecvAside, Others, AccAttachFail
<1>6. CASE AccJoin
  BY <1>6 DEF TypeOK, Control, RecvAside, Others, AccJoin
<1>7. ASSUME NEW failed \in BOOLEAN, AccRecv(failed)
      PROVE  RecvAside(Acceptor)
  BY <1>7 DEF TypeOK, Control, RecvAside, Others, AccRecv, RecvPhase, Possession, Ownership
<1>8. CASE AccFail
  BY <1>8 DEF TypeOK, Control, RecvAside, Others, AccFail, RecvPhase, Possession, Ownership
<1> QED BY <1>1, <1>2, <1>3, <1>4, <1>5, <1>6, <1>7, <1>8 DEF Accept

(* The same for the actions of a worker. *)
LEMMA WorkRecvPhase ==
  ASSUME TypeOK, Control, Issued, Possession, RecvPhase, SendPhase, Lifetime, RefCount,
         NEW w \in Workers, Work(w)
  PROVE  RecvAside(w) \/ RecvPhase'
<1>1. ASSUME NEW s \in Slots, GetRecv(w, s)
      PROVE  RecvAside(w) \/ RecvPhase'
  BY <1>1, GetRecvPhase
<1>2. ASSUME NEW s \in Slots, GetSend(w, s)
      PROVE  RecvAside(w) \/ RecvPhase'
  BY <1>2 DEF TypeOK, Control, RecvAside, Others, GetSend
<1>3. ASSUME NEW i \in Ids, GetPost(w, i)
      PROVE  RecvAside(w) \/ RecvPhase'
  BY <1>3 DEF TypeOK, Control, RecvAside, Others, GetPost
<1>4. ASSUME NEW kind \in Kinds, RecvMessage(w, kind)
      PROVE  RecvAside(w) \/ RecvPhase'
  BY <1>4 DEF TypeOK, Control, RecvAside, Others, RecvMessage
<1>5. CASE RecvGarbage(w)
  BY <1>5 DEF TypeOK, Control, RecvAside, Others, RecvGarbage
<1>6. CASE RecvDone(w)
  BY <1>6 DEF TypeOK, Control, RecvAside, Others, RecvDone
<1>7. CASE SendComplete(w)
  BY <1>7 DEF TypeOK, Control, RecvAside, Others, SendComplete
<1>8. CASE Final(w)
  BY <1>8 DEF TypeOK, Control, RecvAside, Others, Final
<1> QED BY <1>1, <1>2, <1>3, <1>4, <1>5, <1>6, <1>7, <1>8 DEF Work

(* The same for the actions of the update thread. *)
LEMMA UpdateRecvPhase ==
  ASSUME TypeOK, Control, Issued, Possession, RecvPhase, SendPhase, Lifetime, RefCount, Update
  PROVE  RecvAside(Updater)
<1>1. CASE CreateNewUser
  BY <1>1 DEF TypeOK, Control, RecvAside, Others, CreateNewUser
<1>2. CASE DeleteUser
  BY <1>2 DEF TypeOK, Control, RecvAside, Others, DeleteUser
<1>3. CASE TimeOut
  BY <1>3 DEF TypeOK, Control, RecvAside, Others, TimeOut
<1>4. CASE BadMessage
  BY <1>4 DEF TypeOK, Control, RecvAside, Others, BadMessage
<1>5. ASSUME NEW recipients \in SUBSET clients, ChatMessage(recipients)
      PROVE  RecvAside(Updater)
  BY <1>5, ChatMessageMoves DEF RecvAside, Control, ChatMessage
<1>6. ASSUME NEW i \in Ids, SendNext(i)
      PROVE  RecvAside(Updater)
  BY <1>6 DEF TypeOK, Control, RecvAside, Others, SendNext
<1> QED BY <1>1, <1>2, <1>3, <1>4, <1>5, <1>6 DEF Update

(* The same for the actions of the monitor thread. *)
LEMMA WatchRecvPhase ==
  ASSUME TypeOK, Control, Issued, Possession, RecvPhase, SendPhase, Lifetime, RefCount, Watch
  PROVE  RecvAside(Monitor)
<1>1. ASSUME NEW s \in Slots, MonUsed(s)
      PROVE  RecvAside(Monitor)
  BY <1>1 DEF TypeOK, Control, RecvAside, Others, MonUsed
<1>2. CASE MonId
  BY <1>2 DEF TypeOK, Control, RecvAside, Others, MonId
<1>3. ASSUME NEW late \in BOOLEAN, MonExpire(late)
      PROVE  RecvAside(Monitor)
  BY <1>3 DEF TypeOK, Control, RecvAside, Others, MonExpire
<1> QED BY <1>1, <1>2, <1>3 DEF Watch

(* The same for the actions of the kernel and the clients. *)
LEMMA KernelRecvPhase ==
  ASSUME TypeOK, Control, Issued, Possession, RecvPhase, SendPhase, Lifetime, RefCount, Kernel
  PROVE  RecvAside(Acceptor)
<1>1. ASSUME NEW s \in Slots, NEW how \in Closings, PeerClose(s, how)
      PROVE  RecvAside(Acceptor)
  BY <1>1 DEF TypeOK, Control, RecvAside, Others, PeerClose
<1>2. ASSUME NEW s \in Slots, NEW result \in {"data", "fail", "eof"}, RecvComplete(s, result)
      PROVE  RecvAside(Acceptor)
  BY <1>2 DEF TypeOK, Control, RecvAside, Others, RecvComplete, RecvPhase
<1>3. ASSUME NEW s \in Slots, SendDone(s)
      PROVE  RecvAside(Acceptor)
  BY <1>3 DEF TypeOK, Control, RecvAside, Others, SendDone
<1> QED BY <1>1, <1>2, <1>3 DEF Kernel

(* Every step keeps RecvPhase. *)
LEMMA RecvPhaseStep ==
  ASSUME TypeOK, Control, Issued, Possession, RecvPhase, SendPhase, Lifetime, RefCount,
         [Next]_vars
  PROVE  RecvPhase'
<1>1. CASE Crashes \/ UNCHANGED vars
  <2>1. RecvAside(Acceptor)
    BY <1>1 DEF Crashes, vars, RecvAside, Others
  <2> QED BY <2>1, RecvFrame
<1>2. CASE Kernel
  BY <1>2, KernelRecvPhase, RecvFrame
<1>3. ASSUME NEW t \in Threads, ThreadStep(t)
      PROVE  RecvPhase'
  BY <1>3, RecvFrame, RoutineRecvPhase, AcceptRecvPhase, WorkRecvPhase, UpdateRecvPhase,
     WatchRecvPhase DEF ThreadStep
<1> QED BY <1>1, <1>2, <1>3 DEF Next

(* A step of t that does not enter the gather array of a session, and takes  *)
(* down _SendFlag only when it leaves one.                                   *)
SendAside(t) ==
    /\ Others(t)
    /\ pc'[t] \in SendPlaces => pc[t] \in SendPlaces /\ cur'[t] = cur[t]
    /\ \A s \in Slots :
        LET Leaves == pc[t] \in SendPlaces /\ pc'[t] \notin SendPlaces /\ cur[t] = s
        IN  /\ sendFlag[s] /\ ~released[s] => sendFlag'[s] \/ Leaves
            /\ sendIO[s] = "none" => sendIO'[s] = "none" \/ Leaves
            /\ Leaves => sendFlag'[s] \/ sendIO'[s] = "none"

(* Such a step keeps SendPhase. *)
LEMMA SendFrame ==
  ASSUME TypeOK, Control, Lifetime, SendPhase, NEW t \in Threads, SendAside(t)
  PROVE  SendPhase'
<1>1. \A u \in Threads : pc'[u] \in SendPlaces => pc[u] \in SendPlaces /\ cur'[u] = cur[u]
  BY DEF SendAside, Others
<1>2. \A u \in Threads : pc[u] \in SendPlaces => ~released[cur[u]] /\ cur[u] \in Slots
  BY DEF TypeOK, Control, Lifetime, NoUseAfterRelease
<1>3. ASSUME NEW u \in Threads, pc'[u] \in SendPlaces
      PROVE  sendFlag'[cur[u]] /\ sendIO'[cur[u]] = "none"
  <2>1. sendFlag[cur[u]] /\ sendIO[cur[u]] = "none" /\ ~released[cur[u]] /\ cur[u] \in Slots
    BY <1>1, <1>2, <1>3 DEF SendPhase
  <2>2. ~(pc[t] \in SendPlaces /\ pc'[t] \notin SendPlaces /\ cur[t] = cur[u])
    BY <1>1, <1>3 DEF SendPhase
  <2> QED BY <2>1, <2>2 DEF SendAside
<1>4. ASSUME NEW s \in Slots, sendIO'[s] # "none"
      PROVE  sendFlag'[s]
  BY <1>4 DEF SendAside, SendPhase, Lifetime, NoIOAcrossRelease
<1> QED BY <1>1, <1>3, <1>4 DEF SendPhase

(* The exchange of _SendFlag lets a thread in only when nobody is. *)
LEMMA PostFlagPhase ==
  ASSUME TypeOK, SendPhase, Lifetime, NEW t \in Threads, PostFlag(t)
  PROVE  SendPhase'
<1>1. /\ pc[t] = "post_flag" /\ cur[t] \in Slots
      /\ pc' = [pc EXCEPT ![t] = IF sendFlag[cur[t]] THEN "drop" ELSE "post_count"]
      /\ sendFlag' = [sendFlag EXCEPT ![cur[t]] = TRUE]
      /\ UNCHANGED <<cur, sendIO>>
  BY DEF PostFlag, TypeOK
<1>2. \A s \in Slots : sendFlag'[s] = (s = cur[t] \/ sendFlag[s])
  BY <1>1 DEF TypeOK
<1>3. \A u \in Threads : u # t => pc'[u] = pc[u]
  BY <1>1 DEF TypeOK
<1>4. \A u \in Threads : cur[u] \in Slots
  BY DEF TypeOK
<1>5. pc'[t] \in SendPlaces => ~sendFlag[cur[t]]
  BY <1>1 DEF TypeOK
<1>6. ASSUME NEW u \in Threads, pc'[u] \in SendPlaces
      PROVE  /\ sendFlag'[cur[u]] /\ sendIO[cur[u]] = "none"
             /\ \A v \in Threads : pc'[v] \in SendPlaces /\ cur[v] = cur[u] => v = u
  <2>1. CASE u = t
    BY <1>1, <1>2, <1>3, <1>5, <1>6, <2>1 DEF SendPhase
  <2>2. CASE u # t
    BY <1>2, <1>3, <1>4, <1>5, <1>6, <2>2 DEF SendPhase
  <2> QED BY <2>1, <2>2
<1> QED BY <1>1, <1>2, <1>6 DEF SendPhase

(* A worker takes over the gather array from the completed WSASend. *)
LEMMA GetSendPhase ==
  ASSUME TypeOK, SendPhase, NEW w \in Workers, NEW s \in Slots, GetSend(w, s)
  PROVE  SendPhase'
<1>1. sendIO[s] # "none" /\ sendIO' = [sendIO EXCEPT ![s] = "none"] /\ cur' = [cur EXCEPT ![w] = s]
      /\ sendFlag' = sendFlag
  BY DEF GetSend
<1>2. pc[w] = "idle" /\ \A u \in Threads \ {w} : pc'[u] = pc[u] /\ cur'[u] = cur[u]
  BY DEF GetSend, TypeOK
<1>3. \A u \in Threads \ {w} : pc'[u] \in SendPlaces => cur[u] # s /\ cur[u] \in Slots
  BY <1>1, <1>2 DEF SendPhase, TypeOK
<1>4. \A u \in Threads \ {w} : pc'[u] \in SendPlaces => sendIO'[cur'[u]] = "none"
  BY <1>1, <1>2, <1>3 DEF SendPhase, TypeOK
<1>5. cur'[w] = s /\ sendIO'[s] = "none" /\ sendFlag[s]
  BY <1>1 DEF TypeOK, SendPhase
<1>6. \A r \in Slots : sendIO'[r] # "none" => sendFlag'[r]
  BY <1>1 DEF TypeOK, SendPhase
<1> QED BY <1>1, <1>2, <1>3, <1>4, <1>5, <1>6 DEF SendPhase

(* Every other action is a step aside. *)
LEMMA RoutineSendPhase ==
  ASSUME TypeOK, Control, Issued, Possession, RecvPhase, SendPhase, Lifetime, RefCount,
         NEW t \in Threads, Routine(t), UNCHANGED <<upd, net>>
  PROVE  SendAside(t) \/ SendPhase'
<1>1. CASE AcqInc(t)
  BY <1>1 DEF TypeOK, Control, SendAside, Others, AcqInc
<1>2. CASE AcqFlag(t)
  BY <1>2 DEF TypeOK, Control, SendAside, Others, AcqFlag
<1>3. CASE AcqId(t)
  BY <1>3 DEF TypeOK, Control, SendAside, Others, AcqId
<1>4. CASE AcqFail(t)
  BY <1>4 DEF TypeOK, Control, SendAside, Others, AcqFail
<1>5. CASE Drop(t)
  BY <1>5 DEF TypeOK, Control, SendAside, Others, Drop
<1>6. CASE RelCas(t)
  BY <1>6 DEF TypeOK, Control, SendAside, Others, RelCas
<1>7. CASE RelPackets(t)
  BY <1>7 DEF TypeOK, Control, SendAside, Others, RelPackets
<1>8. CASE RelClear(t)
  BY <1>8 DEF TypeOK, Control, SendAside, Others, RelClear, SendPhase, Possession, Ownership
<1>9. CASE RelPush(t)
  BY <1>9 DEF TypeOK, Control, SendAside, Others, RelPush
<1>10. CASE RelLeave(t)
  BY <1>10 DEF TypeOK, Control, SendAside, Others, RelLeave
<1>11. CASE Cancel(t)
  BY <1>11 DEF TypeOK, Control, SendAside, Others, Cancel, SendPhase
<1>12. CASE EnQ(t)
  BY <1>12 DEF TypeOK, Control, SendAside, Others, EnQ
<1>13. CASE Pqcs(t)
  BY <1>13 DEF TypeOK, Control, SendAside, Others, Pqcs
<1>14. CASE Mark(t)
  BY <1>14 DEF TypeOK, Control, SendAside, Others, Mark
<1>15. CASE PostFlag(t)
  BY <1>15, PostFlagPhase
<1>16. CASE PostCount(t)
  BY <1>16 DEF TypeOK, Control, SendAside, Others, PostCount
<1>17. CASE PostUnflag(t)
  BY <1>17 DEF TypeOK, Control, SendAside, Others, PostUnflag, SendPhase
<1>18. CASE PostRecheck(t)
  BY <1>18 DEF TypeOK, Control, SendAside, Others, PostRecheck
<1>19. CASE PostInc(t)
  BY <1>19 DEF TypeOK, Control, SendAside, Others, PostInc
<1>20. CASE PostDeq(t)
  BY <1>20 DEF TypeOK, Control, SendAside, Others, PostDeq
<1>21. CASE PostCancel(t)
  BY <1>21 DEF TypeOK, Control, SendAside, Others, PostCancel, SendPhase
<1>22. ASSUME NEW failed \in BOOLEAN, PostSend(t, failed)
       PROVE  SendAside(t) \/ SendPhase'
  BY <1>22 DEF TypeOK, Control, SendAside, Others, PostSend, SendPhase
<1>23. CASE Drop2(t)
  BY <1>23 DEF TypeOK, Control, SendAside, Others, Drop2
<1>24. CASE RpInc(t)
  BY <1>24 DEF TypeOK, Control, SendAside, Others, RpInc
<1>25. CASE RpCancel(t)
  BY <1>25 DEF TypeOK, Control, SendAside, Others, RpCancel
<1>26. ASSUME NEW failed \in BOOLEAN, RpIssue(t, failed)
       PROVE  SendAside(t) \/ SendPhase'
  BY <1>26 DEF TypeOK, Control, SendAside, Others, RpIssue
<1>27. CASE RpFail(t)
  BY <1>27 DEF TypeOK, Control, SendAside, Others, RpFail
<1> QED BY <1>1, <1>2, <1>3, <1>4, <1>5, <1>6, <1>7, <1>8, <1>9, <1>10, <1>11, <1>12, <1>13,
           <1>14, <1>15, <1>16, <1>17, <1>18, <1>19, <1>20, <1>21, <1>22, <1>23, <1>24, <1>25,
           <1>26, <1>27 DEF Routine

(* The same for the actions of the accept thread. *)
LEMMA AcceptSendPhase ==
  ASSUME TypeOK, Control, Issued, Possession, RecvPhase, SendPhase, Lifetime, RefCount, Accept
  PROVE  SendAside(Acceptor)
<1>1. ASSUME NEW s \in Slots, AccPop(s)
      PROVE  SendAside(Acceptor)
  BY <1>1 DEF TypeOK, Control, SendAside, Others, AccPop
<1>2. CASE AccId
  BY <1>2 DEF TypeOK, Control, SendAside, Others, AccId
<1>3. CASE AccFlag
  BY <1>3 DEF TypeOK, Control, SendAside, Others, AccFlag
<1>4. CASE AccUsed
  BY <1>4 DEF TypeOK, Control, SendAside, Others, AccUsed
<1>5. CASE AccAttachFail
  BY <1>5 DEF TypeOK, Control, SendAside, Others, AccAttachFail
<1>6. CASE AccJoin
  BY <1>6 DEF TypeOK, Control, SendAside, Others, AccJoin
<1>7. ASSUME NEW failed \in BOOLEAN, AccRecv(failed)
      PROVE  SendAside(Acceptor)
  BY <1>7 DEF TypeOK, Control, SendAside, Others, AccRecv
<1>8. CASE AccFail
  BY <1>8 DEF TypeOK, Control, SendAside, Others, AccFail
<1> QED BY <1>1, <1>2, <1>3, <1>4, <1>5, <1>6, <1>7, <1>8 DEF Accept

(* The same for the actions of a worker. *)
LEMMA WorkSendPhase ==
  ASSUME TypeOK, Control, Issued, Possession, RecvPhase, SendPhase, Lifetime, RefCount,
         NEW w \in Workers, Work(w)
  PROVE  SendAside(w) \/ SendPhase'
<1>1. ASSUME NEW s \in Slots, GetRecv(w, s)
      PROVE  SendAside(w) \/ SendPhase'
  BY <1>1 DEF TypeOK, Control, SendAside, Others, GetRecv
<1>2. ASSUME NEW s \in Slots, GetSend(w, s)
      PROVE  SendAside(w) \/ SendPhase'
  BY <1>2, GetSendPhase
<1>3. ASSUME NEW i \in Ids, GetPost(w, i)
      PROVE  SendAside(w) \/ SendPhase'
  BY <1>3 DEF TypeOK, Control, SendAside, Others, GetPost
<1>4. ASSUME NEW kind \in Kinds, RecvMessage(w, kind)
      PROVE  SendAside(w) \/ SendPhase'
  BY <1>4 DEF TypeOK, Control, SendAside, Others, RecvMessage
<1>5. CASE RecvGarbage(w)
  BY <1>5 DEF TypeOK, Control, SendAside, Others, RecvGarbage
<1>6. CASE RecvDone(w)
  BY <1>6 DEF TypeOK, Control, SendAside, Others, RecvDone
<1>7. CASE SendComplete(w)
  BY <1>7 DEF TypeOK, Control, SendAside, Others, SendComplete, SendPhase
<1>8. CASE Final(w)
  BY <1>8 DEF TypeOK, Control, SendAside, Others, Final
<1> QED BY <1>1, <1>2, <1>3, <1>4, <1>5, <1>6, <1>7, <1>8 DEF Work

(* The same for the actions of the update thread. *)
LEMMA UpdateSendPhase ==
  ASSUME TypeOK, Control, Issued, Possession, RecvPhase, SendPhase, Lifetime, RefCount, Update
  PROVE  SendAside(Updater)
<1>1. CASE CreateNewUser
  BY <1>1 DEF TypeOK, Control, SendAside, Others, CreateNewUser
<1>2. CASE DeleteUser
  BY <1>2 DEF TypeOK, Control, SendAside, Others, DeleteUser
<1>3. CASE TimeOut
  BY <1>3 DEF TypeOK, Control, SendAside, Others, TimeOut
<1>4. CASE BadMessage
  BY <1>4 DEF TypeOK, Control, SendAside, Others, BadMessage
<1>5. ASSUME NEW recipients \in SUBSET clients, ChatMessage(recipients)
      PROVE  SendAside(Updater)
  BY <1>5, ChatMessageMoves DEF SendAside, Control, ChatMessage
<1>6. ASSUME NEW i \in Ids, SendNext(i)
      PROVE  SendAside(Updater)
  BY <1>6 DEF TypeOK, Control, SendAside, Others, SendNext
<1> QED BY <1>1, <1>2, <1>3, <1>4, <1>5, <1>6 DEF Update

(* The same for the actions of the monitor thread. *)
LEMMA WatchSendPhase ==
  ASSUME TypeOK, Control, Issued, Possession, RecvPhase, SendPhase, Lifetime, RefCount, Watch
  PROVE  SendAside(Monitor)
<1>1. ASSUME NEW s \in Slots, MonUsed(s)
      PROVE  SendAside(Monitor)
  BY <1>1 DEF TypeOK, Control, SendAside, Others, MonUsed
<1>2. CASE MonId
  BY <1>2 DEF TypeOK, Control, SendAside, Others, MonId
<1>3. ASSUME NEW late \in BOOLEAN, MonExpire(late)
      PROVE  SendAside(Monitor)
  BY <1>3 DEF TypeOK, Control, SendAside, Others, MonExpire
<1> QED BY <1>1, <1>2, <1>3 DEF Watch

(* The same for the actions of the kernel and the clients. *)
LEMMA KernelSendPhase ==
  ASSUME TypeOK, Control, Issued, Possession, RecvPhase, SendPhase, Lifetime, RefCount, Kernel
  PROVE  SendAside(Acceptor)
<1>1. ASSUME NEW s \in Slots, NEW how \in Closings, PeerClose(s, how)
      PROVE  SendAside(Acceptor)
  BY <1>1 DEF TypeOK, Control, SendAside, Others, PeerClose
<1>2. ASSUME NEW s \in Slots, NEW result \in {"data", "fail", "eof"}, RecvComplete(s, result)
      PROVE  SendAside(Acceptor)
  BY <1>2 DEF TypeOK, Control, SendAside, Others, RecvComplete
<1>3. ASSUME NEW s \in Slots, SendDone(s)
      PROVE  SendAside(Acceptor)
  BY <1>3 DEF TypeOK, Control, SendAside, Others, SendDone, SendPhase
<1> QED BY <1>1, <1>2, <1>3 DEF Kernel

(* Every step keeps SendPhase. *)
LEMMA SendPhaseStep ==
  ASSUME TypeOK, Control, Issued, Possession, RecvPhase, SendPhase, Lifetime, RefCount,
         [Next]_vars
  PROVE  SendPhase'
<1>1. CASE Crashes \/ UNCHANGED vars
  <2>1. SendAside(Acceptor)
    BY <1>1 DEF Crashes, vars, SendAside, Others
  <2> QED BY <2>1, SendFrame
<1>2. CASE Kernel
  BY <1>2, KernelSendPhase, SendFrame
<1>3. ASSUME NEW t \in Threads, ThreadStep(t)
      PROVE  SendPhase'
  BY <1>3, SendFrame, RoutineSendPhase, AcceptSendPhase, WorkSendPhase, UpdateSendPhase,
     WatchSendPhase DEF ThreadStep
<1> QED BY <1>1, <1>2, <1>3 DEF Next

(* A step of t that begins to use only what is not released, and releases    *)
(* nothing.                                                                  *)
LifeAside(t) ==
    /\ Others(t) /\ \A u \in Threads \ {t} : arg'[u] = arg[u]
    /\ pc'[t] \in UsePlaces =>
          \/ pc[t] \in UsePlaces /\ cur'[t] = cur[t] /\ arg'[t] = arg[t]
          \/ id[cur'[t]] = arg'[t] /\ ~released[cur'[t]]
    /\ io'[t] => (io[t] /\ cur'[t] = cur[t]) \/ ~released[cur'[t]]
    /\ pc'[t] \in {"acq_id"} \cup AcceptPlaces =>
          (pc'[t] = pc[t] /\ cur'[t] = cur[t]) \/ ~released[cur'[t]]
    /\ UNCHANGED <<released, id>>
    /\ \A s \in Slots : released[s] =>
          /\ sendIO[s] = "none" => sendIO'[s] = "none"
          /\ recvIO[s] \in {"none", "prepaid"} => recvIO'[s] \in {"none", "prepaid"}

(* Such a step keeps Lifetime. *)
LEMMA LifeFrame ==
  ASSUME TypeOK, Lifetime, NEW t \in Threads, LifeAside(t)
  PROVE  Lifetime'
<1>1. \A u \in Threads : pc'[u] \in UsePlaces => id[cur'[u]] = arg'[u] /\ ~released[cur'[u]]
  BY DEF Lifetime, NoUseAfterRelease, LifeAside, Others
<1>2. \A u \in Threads : io'[u] => ~released[cur'[u]]
  BY DEF Lifetime, NoUseAfterRelease, LifeAside, Others
<1>3. \A u \in Threads : pc'[u] = "acq_id" => ~released[cur'[u]]
  BY DEF Lifetime, LifeAside, Others
<1>4. pc'[Acceptor] \in AcceptPlaces => ~released[cur'[Acceptor]]
  BY DEF Lifetime, LifeAside, Others
<1>5. NoIOAcrossRelease'
  BY DEF Lifetime, NoIOAcrossRelease, LifeAside
<1> QED BY <1>1, <1>2, <1>3, <1>4, <1>5 DEF Lifetime, NoUseAfterRelease, LifeAside

(* Nobody uses what the compare-and-swap releases: the count is zero. *)
LEMMA RelCasLifetime ==
  ASSUME TypeOK, Control, Lifetime, RefCount, Possession, NEW t \in Threads, RelCas(t)
  PROVE  Lifetime'
<1> DEFINE s == cur[t]
<1>1. s \in Slots
  BY DEF TypeOK
<1>2. CASE ~ZeroCount(s)
  <2>1. pc[t] = "rel_cas" /\ pc' = [pc EXCEPT ![t] = After(t)] /\ released' = released
    BY ZenonT(60), <1>2 DEF RelCas, ZeroCount, TypeOK
  <2>2. After(t) \in {"final", "idle", "pqcs"}
    BY <2>1, AfterPlaces
  <2>3. LifeAside(t)
    BY <2>1, <2>2 DEF LifeAside, Others, RelCas, TypeOK
  <2> QED BY <2>3, LifeFrame
<1>3. CASE ZeroCount(s)
  <2>1. recvIO[s] = "none" /\ sendIO[s] = "none" /\ ~released[s]
    BY <1>1, <1>3, NoCountNoUse DEF ZeroCount
  <2>2. \A u \in Threads : cur[u] = s => pc[u] \notin UsePlaces \cup {"acq_id"} /\ ~io[u]
    BY <1>1, <1>3, NoCountNoUse DEF ZeroCount, HoldPlaces
  <2>3. ~(pc[Acceptor] \in AcceptPlaces /\ cur[Acceptor] = s)
    BY <2>1 DEF Possession, Ownership
  <2>4. /\ pc[t] = "rel_cas" /\ pc' = [pc EXCEPT ![t] = "rel_packets"]
        /\ released' = [released EXCEPT ![s] = TRUE]
        /\ UNCHANGED <<id, recvIO, sendIO, cur, arg, io>>
    BY <1>3 DEF RelCas, ZeroCount, TypeOK
  <2> HIDE DEF s
  <2>5. \A u \in Threads : pc'[u] # "rel_packets" => pc'[u] = pc[u]
    BY <2>4 DEF TypeOK
  <2>6. \A r \in Slots : released'[r] = (r = s \/ released[r])
    BY <2>4 DEF TypeOK
  <2>7. NoIOAcrossRelease'
    BY <2>1, <2>4, <2>6 DEF Lifetime, NoIOAcrossRelease
  <2>8. NoUseAfterRelease'
    BY <2>2, <2>4, <2>5, <2>6 DEF Lifetime, NoUseAfterRelease, TypeOK
  <2>9. \A u \in Threads : pc'[u] = "acq_id" => ~released'[cur[u]]
    BY <2>2, <2>5, <2>6 DEF Lifetime, TypeOK
  <2>10. pc'[Acceptor] \in AcceptPlaces => ~released'[cur[Acceptor]]
    BY <2>3, <2>5, <2>6 DEF Lifetime, TypeOK
  <2> QED BY <2>4, <2>7, <2>8, <2>9, <2>10 DEF Lifetime
<1> QED BY <1>2, <1>3

(* Nobody uses the slot whose ID is replaced. *)
LEMMA AccIdLifetime ==
  ASSUME TypeOK, Control, Issued, Lifetime, Possession, AccId
  PROVE  Lifetime'
<1> DEFINE s == cur[Acceptor]
<1>1. s \in Slots /\ pc[Acceptor] = "acc_id" /\ (released[s] \/ Virgin(s))
  BY DEF AccId, TypeOK, Possession, Ownership
<1>2. /\ pc' = [pc EXCEPT ![Acceptor] = "acc_flag"]
      /\ id' = [id EXCEPT ![s] = <<s, serial + 1>>]
      /\ UNCHANGED <<released, recvIO, sendIO, cur, arg, io>>
  BY DEF AccId
<1> HIDE DEF s
<1>3. \A u \in Threads : pc'[u] # "acc_flag" => pc'[u] = pc[u]
  BY <1>2 DEF TypeOK
<1>4. ASSUME NEW u \in Threads, pc[u] \in UsePlaces
      PROVE  cur[u] # s
  BY <1>1, <1>4 DEF Lifetime, NoUseAfterRelease, Issued, Virgin
<1>5. NoUseAfterRelease'
  BY <1>2, <1>3, <1>4 DEF Lifetime, NoUseAfterRelease, TypeOK
<1>6. NoIOAcrossRelease'
  BY <1>2 DEF Lifetime, NoIOAcrossRelease
<1> QED BY <1>2, <1>3, <1>5, <1>6 DEF Lifetime

(* Taking the release flag down takes nothing from anybody. *)
LEMMA AccFlagLifetime ==
  ASSUME TypeOK, Lifetime, AccFlag
  PROVE  Lifetime'
<1> DEFINE s == cur[Acceptor]
<1>1. /\ s \in Slots /\ pc[Acceptor] = "acc_flag" /\ pc' = [pc EXCEPT ![Acceptor] = "acc_used"]
      /\ released' = [released EXCEPT ![s] = FALSE]
      /\ UNCHANGED <<id, recvIO, sendIO, cur, arg, io>>
  BY DEF AccFlag, TypeOK
<1> HIDE DEF s
<1>2. \A r \in Slots : released'[r] = (r # s /\ released[r])
  BY <1>1 DEF TypeOK
<1>3. \A u \in Threads : pc'[u] # "acc_used" => pc'[u] = pc[u]
  BY <1>1 DEF TypeOK
<1>4. NoUseAfterRelease'
  BY <1>1, <1>2, <1>3 DEF Lifetime, NoUseAfterRelease, TypeOK
<1>5. NoIOAcrossRelease'
  BY <1>1, <1>2 DEF Lifetime, NoIOAcrossRelease
<1>6. ~released'[cur[Acceptor]]
  BY <1>1, <1>2 DEF s
<1> QED BY <1>1, <1>2, <1>3, <1>4, <1>5, <1>6 DEF Lifetime, TypeOK

(* Every other action is a step aside. *)
LEMMA RoutineLifetime ==
  ASSUME TypeOK, Control, Issued, Possession, RecvPhase, SendPhase, Lifetime, RefCount,
         NEW t \in Threads, Routine(t), UNCHANGED <<upd, net>>
  PROVE  LifeAside(t) \/ Lifetime'
<1>1. CASE AcqInc(t)
  BY <1>1 DEF TypeOK, Control, LifeAside, Others, AcqInc
<1>2. CASE AcqFlag(t)
  BY <1>2 DEF TypeOK, Control, LifeAside, Others, AcqFlag
<1>3. CASE AcqId(t)
  BY <1>3 DEF TypeOK, Control, LifeAside, Others, AcqId, Lifetime
<1>4. CASE AcqFail(t)
  BY <1>4 DEF TypeOK, Control, LifeAside, Others, AcqFail
<1>5. CASE Drop(t)
  BY <1>5 DEF TypeOK, Control, LifeAside, Others, Drop
<1>6. CASE RelCas(t)
  BY <1>6, RelCasLifetime
<1>7. CASE RelPackets(t)
  BY <1>7 DEF TypeOK, Control, LifeAside, Others, RelPackets
<1>8. CASE RelClear(t)
  BY <1>8 DEF TypeOK, Control, LifeAside, Others, RelClear, Lifetime, NoUseAfterRelease,
     NoIOAcrossRelease, Possession, Ownership
<1>9. CASE RelPush(t)
  BY <1>9 DEF TypeOK, Control, LifeAside, Others, RelPush
<1>10. CASE RelLeave(t)
  BY <1>10 DEF TypeOK, Control, LifeAside, Others, RelLeave
<1>11. CASE Cancel(t)
  BY <1>11 DEF TypeOK, Control, LifeAside, Others, Cancel, Lifetime, NoUseAfterRelease,
     NoIOAcrossRelease
<1>12. CASE EnQ(t)
  BY <1>12 DEF TypeOK, Control, LifeAside, Others, EnQ
<1>13. CASE Pqcs(t)
  BY <1>13 DEF TypeOK, Control, LifeAside, Others, Pqcs
<1>14. CASE Mark(t)
  BY <1>14 DEF TypeOK, Control, LifeAside, Others, Mark
<1>15. CASE PostFlag(t)
  BY <1>15 DEF TypeOK, Control, LifeAside, Others, PostFlag
<1>16. CASE PostCount(t)
  BY <1>16 DEF TypeOK, Control, LifeAside, Others, PostCount
<1>17. CASE PostUnflag(t)
  BY <1>17 DEF TypeOK, Control, LifeAside, Others, PostUnflag
<1>18. CASE PostRecheck(t)
  BY <1>18 DEF TypeOK, Control, LifeAside, Others, PostRecheck
<1>19. CASE PostInc(t)
  BY <1>19 DEF TypeOK, Control, LifeAside, Others, PostInc
<1>20. CASE PostDeq(t)
  BY <1>20 DEF TypeOK, Control, LifeAside, Others, PostDeq
<1>21. CASE PostCancel(t)
  BY <1>21 DEF TypeOK, Control, LifeAside, Others, PostCancel
<1>22. ASSUME NEW failed \in BOOLEAN, PostSend(t, failed)
       PROVE  LifeAside(t) \/ Lifetime'
  BY <1>22 DEF TypeOK, Control, LifeAside, Others, PostSend, Lifetime, NoUseAfterRelease,
     NoIOAcrossRelease
<1>23. CASE Drop2(t)
  BY <1>23 DEF TypeOK, Control, LifeAside, Others, Drop2
<1>24. CASE RpInc(t)
  BY <1>24 DEF TypeOK, Control, LifeAside, Others, RpInc
<1>25. CASE RpCancel(t)
  BY <1>25 DEF TypeOK, Control, LifeAside, Others, RpCancel
<1>26. ASSUME NEW failed \in BOOLEAN, RpIssue(t, failed)
       PROVE  LifeAside(t) \/ Lifetime'
  BY <1>26 DEF TypeOK, Control, LifeAside, Others, RpIssue, Lifetime, NoUseAfterRelease,
     NoIOAcrossRelease
<1>27. CASE RpFail(t)
  BY <1>27 DEF TypeOK, Control, LifeAside, Others, RpFail
<1> QED BY <1>1, <1>2, <1>3, <1>4, <1>5, <1>6, <1>7, <1>8, <1>9, <1>10, <1>11, <1>12, <1>13,
           <1>14, <1>15, <1>16, <1>17, <1>18, <1>19, <1>20, <1>21, <1>22, <1>23, <1>24, <1>25,
           <1>26, <1>27 DEF Routine

(* The same for the actions of the accept thread. *)
LEMMA AcceptLifetime ==
  ASSUME TypeOK, Control, Issued, Possession, RecvPhase, SendPhase, Lifetime, RefCount, Accept
  PROVE  LifeAside(Acceptor) \/ Lifetime'
<1>1. ASSUME NEW s \in Slots, AccPop(s)
      PROVE  LifeAside(Acceptor) \/ Lifetime'
  BY <1>1 DEF TypeOK, Control, LifeAside, Others, AccPop, Lifetime, NoUseAfterRelease,
     NoIOAcrossRelease
<1>2. CASE AccId
  BY <1>2, AccIdLifetime
<1>3. CASE AccFlag
  BY <1>3, AccFlagLifetime
<1>4. CASE AccUsed
  BY <1>4 DEF TypeOK, Control, LifeAside, Others, AccUsed, Lifetime
<1>5. CASE AccAttachFail
  BY <1>5 DEF TypeOK, Control, LifeAside, Others, AccAttachFail
<1>6. CASE AccJoin
  BY <1>6 DEF TypeOK, Control, LifeAside, Others, AccJoin, Lifetime
<1>7. ASSUME NEW failed \in BOOLEAN, AccRecv(failed)
      PROVE  LifeAside(Acceptor) \/ Lifetime'
  BY <1>7 DEF TypeOK, Control, LifeAside, Others, AccRecv, Lifetime, NoUseAfterRelease,
     NoIOAcrossRelease
<1>8. CASE AccFail
  BY <1>8 DEF TypeOK, Control, LifeAside, Others, AccFail, Lifetime, NoUseAfterRelease,
     NoIOAcrossRelease
<1> QED BY <1>1, <1>2, <1>3, <1>4, <1>5, <1>6, <1>7, <1>8 DEF Accept

(* The same for the actions of a worker. *)
LEMMA WorkLifetime ==
  ASSUME TypeOK, Control, Issued, Possession, RecvPhase, SendPhase, Lifetime, RefCount,
         NEW w \in Workers, Work(w)
  PROVE  LifeAside(w)
<1>1. ASSUME NEW s \in Slots, GetRecv(w, s)
      PROVE  LifeAside(w)
  BY ZenonT(60), <1>1 DEF TypeOK, Control, LifeAside, Others, GetRecv, Lifetime, NoUseAfterRelease,
     NoIOAcrossRelease
<1>2. ASSUME NEW s \in Slots, GetSend(w, s)
      PROVE  LifeAside(w)
  BY <1>2 DEF TypeOK, Control, LifeAside, Others, GetSend, Lifetime, NoUseAfterRelease,
     NoIOAcrossRelease
<1>3. ASSUME NEW i \in Ids, GetPost(w, i)
      PROVE  LifeAside(w)
  BY <1>3 DEF TypeOK, Control, LifeAside, Others, GetPost
<1>4. ASSUME NEW kind \in Kinds, RecvMessage(w, kind)
      PROVE  LifeAside(w)
  BY <1>4 DEF TypeOK, Control, LifeAside, Others, RecvMessage
<1>5. CASE RecvGarbage(w)
  BY <1>5 DEF TypeOK, Control, LifeAside, Others, RecvGarbage, Issued
<1>6. CASE RecvDone(w)
  BY <1>6 DEF TypeOK, Control, LifeAside, Others, RecvDone
<1>7. CASE SendComplete(w)
  BY <1>7 DEF TypeOK, Control, LifeAside, Others, SendComplete, Issued
<1>8. CASE Final(w)
  BY <1>8 DEF TypeOK, Control, LifeAside, Others, Final, Lifetime, NoUseAfterRelease,
     NoIOAcrossRelease
<1> QED BY <1>1, <1>2, <1>3, <1>4, <1>5, <1>6, <1>7, <1>8 DEF Work

(* The same for the actions of the update thread. *)
LEMMA UpdateLifetime ==
  ASSUME TypeOK, Control, Issued, Possession, RecvPhase, SendPhase, Lifetime, RefCount, Update
  PROVE  LifeAside(Updater)
<1>1. CASE CreateNewUser
  BY <1>1 DEF TypeOK, Control, LifeAside, Others, CreateNewUser
<1>2. CASE DeleteUser
  BY <1>2 DEF TypeOK, Control, LifeAside, Others, DeleteUser
<1>3. CASE TimeOut
  BY <1>3 DEF TypeOK, Control, LifeAside, Others, TimeOut, Lifetime, NoUseAfterRelease,
     NoIOAcrossRelease
<1>4. CASE BadMessage
  BY <1>4 DEF TypeOK, Control, LifeAside, Others, BadMessage, Lifetime, NoUseAfterRelease,
     NoIOAcrossRelease
<1>5. ASSUME NEW recipients \in SUBSET clients, ChatMessage(recipients)
      PROVE  LifeAside(Updater)
  BY <1>5, ChatMessageMoves DEF LifeAside, Control, ChatMessage
<1>6. ASSUME NEW i \in Ids, SendNext(i)
      PROVE  LifeAside(Updater)
  BY <1>6 DEF TypeOK, Control, LifeAside, Others, SendNext
<1> QED BY <1>1, <1>2, <1>3, <1>4, <1>5, <1>6 DEF Update

(* The same for the actions of the monitor thread. *)
LEMMA WatchLifetime ==
  ASSUME TypeOK, Control, Issued, Possession, RecvPhase, SendPhase, Lifetime, RefCount, Watch
  PROVE  LifeAside(Monitor)
<1>1. ASSUME NEW s \in Slots, MonUsed(s)
      PROVE  LifeAside(Monitor)
  BY <1>1 DEF TypeOK, Control, LifeAside, Others, MonUsed, Lifetime, NoUseAfterRelease,
     NoIOAcrossRelease
<1>2. CASE MonId
  BY <1>2 DEF TypeOK, Control, LifeAside, Others, MonId
<1>3. ASSUME NEW late \in BOOLEAN, MonExpire(late)
      PROVE  LifeAside(Monitor)
  BY <1>3 DEF TypeOK, Control, LifeAside, Others, MonExpire
<1> QED BY <1>1, <1>2, <1>3 DEF Watch

(* The same for the actions of the kernel and the clients. *)
LEMMA KernelLifetime ==
  ASSUME TypeOK, Control, Issued, Possession, RecvPhase, SendPhase, Lifetime, RefCount, Kernel
  PROVE  LifeAside(Acceptor)
<1>1. ASSUME NEW s \in Slots, NEW how \in Closings, PeerClose(s, how)
      PROVE  LifeAside(Acceptor)
  BY <1>1 DEF TypeOK, Control, LifeAside, Others, PeerClose
<1>2. ASSUME NEW s \in Slots, NEW result \in {"data", "fail", "eof"}, RecvComplete(s, result)
      PROVE  LifeAside(Acceptor)
  BY <1>2 DEF TypeOK, Control, LifeAside, Others, RecvComplete, Lifetime, NoUseAfterRelease,
     NoIOAcrossRelease
<1>3. ASSUME NEW s \in Slots, SendDone(s)
      PROVE  LifeAside(Acceptor)
  BY <1>3 DEF TypeOK, Control, LifeAside, Others, SendDone, Lifetime, NoUseAfterRelease,
     NoIOAcrossRelease
<1> QED BY <1>1, <1>2, <1>3 DEF Kernel

(* Every step keeps Lifetime. *)
LEMMA LifetimeStep ==
  ASSUME TypeOK, Control, Issued, Possession, RecvPhase, SendPhase, Lifetime, RefCount,
         [Next]_vars
  PROVE  Lifetime'
<1>1. CASE Crashes \/ UNCHANGED vars
  <2>1. LifeAside(Acceptor)
    BY <1>1 DEF Crashes, vars, LifeAside, Others
  <2> QED BY <2>1, LifeFrame
<1>2. CASE Kernel
  BY <1>2, KernelLifetime, LifeFrame
<1>3. ASSUME NEW t \in Threads, ThreadStep(t)
      PROVE  Lifetime'
  BY <1>3, LifeFrame, RoutineLifetime, AcceptLifetime, WorkLifetime, UpdateLifetime,
     WatchLifetime DEF ThreadStep
<1> QED BY <1>1, <1>2, <1>3 DEF Next

-----------------------------------------------------------------------------
(* The clients *)

(* The ids of a type of job when a job is added, and when the first is taken. *)
LEMMA OfAppend ==
  ASSUME NEW S, NEW q \in Seq(S), NEW job \in S, NEW type
  PROVE  Of(type, Append(q, job)) = Of(type, q) \cup (IF job.type = type THEN {job.id} ELSE {})
<1>1. /\ DOMAIN Append(q, job) = DOMAIN q \cup {Len(q) + 1}
      /\ \A k \in DOMAIN q : Append(q, job)[k] = q[k]
      /\ Append(q, job)[Len(q) + 1] = job
  OBVIOUS
<1> QED BY <1>1 DEF Of

LEMMA OfTail ==
  ASSUME NEW S, NEW q \in Seq(S), q # <<>>, NEW type
  PROVE  Of(type, q) = Of(type, Tail(q)) \cup (IF Head(q).type = type THEN {Head(q).id} ELSE {})
<1>1. /\ DOMAIN q = 1 .. Len(q) /\ Len(q) \in Nat /\ Len(q) > 0 /\ DOMAIN Tail(q) = 1 .. (Len(q) - 1)
      /\ \A k \in 1 .. (Len(q) - 1) : Tail(q)[k] = q[k + 1]
      /\ Head(q) = q[1]
  OBVIOUS
<1> DEFINE At1 == IF Head(q).type = type THEN {Head(q).id} ELSE {}
<1>2. ASSUME NEW k \in DOMAIN q, q[k].type = type
      PROVE  q[k].id \in Of(type, Tail(q)) \cup At1
  <2>1. CASE k = 1
    BY <1>1, <1>2, <2>1
  <2>2. CASE k # 1
    <3>1. k - 1 \in DOMAIN Tail(q) /\ Tail(q)[k - 1] = q[k]
      BY <1>1, <2>2
    <3> QED BY <1>2, <3>1 DEF Of
  <2> QED BY <2>1, <2>2
<1>3. ASSUME NEW k \in DOMAIN Tail(q), Tail(q)[k].type = type
      PROVE  Tail(q)[k].id \in Of(type, q)
  <2>1. k + 1 \in DOMAIN q /\ q[k + 1] = Tail(q)[k]
    BY <1>1
  <2> QED BY <1>3, <2>1 DEF Of
<1>4. At1 \subseteq Of(type, q)
  BY <1>1 DEF Of
<1>5. Of(type, q) \subseteq Of(type, Tail(q)) \cup At1
  BY <1>2 DEF Of
<1>6. Of(type, Tail(q)) \subseteq Of(type, q)
  BY <1>3 DEF Of
<1> QED BY <1>4, <1>5, <1>6

(* The order of the jobs in a queue, for the clients that are in the map. *)
Before(queue, k, type) == \E j \in 1..(k - 1) : queue[j].type = type /\ queue[j].id = queue[k].id

InOrder(queue, members) == \A k \in DOMAIN queue :
    LET present == queue[k].id \in members \/ Before(queue, k, "join")
    IN  /\ queue[k].type \in {"message", "leave"} => present /\ ~Before(queue, k, "leave")
        /\ queue[k].type = "join" => ~present

LEMMA OrderOfJobs == JobOrder <=> InOrder(jobs, clients)
BY DEF JobOrder, Earlier, InOrder, Before

(* A job may be added that fits behind the others. *)
LEMMA OrderAppend ==
  ASSUME NEW S, NEW q \in Seq(S), NEW job \in S, NEW members, InOrder(q, members),
         job.type \in {"message", "leave"} =>
             job.id \in members \cup Of("join", q) /\ job.id \notin Of("leave", q),
         job.type = "join" => job.id \notin members \cup Of("join", q)
  PROVE  InOrder(Append(q, job), members)
<1> DEFINE r == Append(q, job)
<1>1. /\ DOMAIN q = 1 .. Len(q) /\ DOMAIN r = 1 .. (Len(q) + 1) /\ Len(q) \in Nat
      /\ \A k \in 1 .. Len(q) : r[k] = q[k]
      /\ r[Len(q) + 1] = job
  OBVIOUS
<1> HIDE DEF r
<1>2. ASSUME NEW k \in 1 .. Len(q), NEW type
      PROVE  Before(r, k, type) <=> Before(q, k, type)
  <2>1. \A j \in 1 .. (k - 1) : r[j] = q[j] /\ r[k] = q[k]
    BY <1>1
  <2> QED BY <2>1 DEF Before
<1>3. ASSUME NEW type
      PROVE  Before(r, Len(q) + 1, type) <=> job.id \in Of(type, q)
  <2>1. Before(r, Len(q) + 1, type) <=> \E j \in 1 .. Len(q) : q[j].type = type /\ q[j].id = job.id
    <3>1. 1 .. ((Len(q) + 1) - 1) = 1 .. Len(q)
      BY <1>1
    <3> QED BY <1>1, <3>1 DEF Before
  <2> QED BY <1>1, <2>1 DEF Of
<1>4. ASSUME NEW k \in DOMAIN r
      PROVE  LET present == r[k].id \in members \/ Before(r, k, "join")
             IN  /\ r[k].type \in {"message", "leave"} => present /\ ~Before(r, k, "leave")
                 /\ r[k].type = "join" => ~present
  <2>1. CASE k \in 1 .. Len(q)
    <3>1. r[k] = q[k] /\ k \in DOMAIN q
      BY <1>1, <2>1
    <3>2. (Before(r, k, "join") <=> Before(q, k, "join")) /\ (Before(r, k, "leave") <=> Before(q, k, "leave"))
      BY <1>2, <2>1
    <3> QED BY <3>1, <3>2 DEF InOrder
  <2>2. CASE k = Len(q) + 1
    <3>1. r[k] = job
      BY <1>1, <2>2
    <3>2. (Before(r, k, "join") <=> job.id \in Of("join", q)) /\ (Before(r, k, "leave") <=> job.id \in Of("leave", q))
      BY <1>3, <2>2
    <3> QED BY <3>1, <3>2
  <2> QED BY <1>1, <2>1, <2>2
<1> QED BY <1>4 DEF InOrder, r

(* The first job is taken: a join adds its client, a leave removes it. *)
LEMMA OrderTail ==
  ASSUME NEW S, NEW q \in Seq(S), q # <<>>, NEW members, InOrder(q, members),
         NEW after,
         after = IF Head(q).type = "join" THEN members \cup {Head(q).id}
                 ELSE IF Head(q).type = "leave" THEN members \ {Head(q).id} ELSE members
  PROVE  /\ InOrder(Tail(q), after)
         /\ Head(q).type \in {"message", "leave"} => Head(q).id \in members
         /\ Head(q).type = "leave" => Head(q).id \notin Of("join", Tail(q)) \cup Of("leave", Tail(q))
<1> DEFINE r == Tail(q)
           h == Head(q)
<1>1. /\ DOMAIN q = 1 .. Len(q) /\ DOMAIN r = 1 .. (Len(q) - 1) /\ Len(q) \in Nat /\ Len(q) > 0
      /\ \A k \in 1 .. (Len(q) - 1) : r[k] = q[k + 1]
      /\ h = q[1]
  OBVIOUS
<1> HIDE DEF r, h
<1>2. h.type \in {"message", "leave"} => h.id \in members
  <2>1. ~Before(q, 1, "join")
    BY DEF Before
  <2> QED BY <1>1, <2>1 DEF InOrder
<1>3. h.type = "join" => h.id \notin members
  BY <1>1 DEF InOrder
<1>4. ASSUME NEW k \in DOMAIN r, NEW type
      PROVE  Before(q, k + 1, type) <=> Before(r, k, type) \/ (h.type = type /\ h.id = r[k].id)
  <2>1. r[k] = q[k + 1] /\ k \in Nat /\ k >= 1 /\ \A j \in 1 .. (k - 1) : r[j] = q[j + 1]
    BY <1>1
  <2>2. ASSUME NEW j \in 1 .. ((k + 1) - 1), q[j].type = type, q[j].id = q[k + 1].id
        PROVE  Before(r, k, type) \/ (h.type = type /\ h.id = r[k].id)
    <3>1. CASE j = 1
      BY <1>1, <2>1, <2>2, <3>1
    <3>2. CASE j # 1
      <4>1. j - 1 \in 1 .. (k - 1) /\ r[j - 1] = q[j]
        BY <2>1, <3>2
      <4> QED BY <2>1, <2>2, <4>1 DEF Before
    <3> QED BY <3>1, <3>2
  <2>3. ASSUME Before(r, k, type)
        PROVE  Before(q, k + 1, type)
    <3>1. PICK j \in 1 .. (k - 1) : r[j].type = type /\ r[j].id = r[k].id
      BY <2>3 DEF Before
    <3>2. j + 1 \in 1 .. ((k + 1) - 1) /\ q[j + 1] = r[j]
      BY <2>1
    <3> QED BY <2>1, <3>1, <3>2 DEF Before
  <2>4. ASSUME h.type = type, h.id = r[k].id
        PROVE  Before(q, k + 1, type)
    <3>1. 1 \in 1 .. ((k + 1) - 1)
      BY <2>1
    <3> QED BY <1>1, <2>1, <2>4, <3>1 DEF Before
  <2> QED BY <2>2, <2>3, <2>4 DEF Before
<1>5. ASSUME NEW k \in DOMAIN r
      PROVE  /\ LET present == r[k].id \in after \/ Before(r, k, "join")
                IN  /\ r[k].type \in {"message", "leave"} => present /\ ~Before(r, k, "leave")
                    /\ r[k].type = "join" => ~present
             /\ h.type = "leave" /\ r[k].type \in {"join", "leave"} => r[k].id # h.id
  <2>1. k + 1 \in DOMAIN q /\ r[k] = q[k + 1]
    BY <1>1
  <2>2. LET present == r[k].id \in members \/ Before(q, k + 1, "join")
        IN  /\ r[k].type \in {"message", "leave"} => present /\ ~Before(q, k + 1, "leave")
            /\ r[k].type = "join" => ~present
    BY <2>1 DEF InOrder
  <2>3. /\ Before(q, k + 1, "join") <=> Before(r, k, "join") \/ (h.type = "join" /\ h.id = r[k].id)
        /\ Before(q, k + 1, "leave") <=> Before(r, k, "leave") \/ (h.type = "leave" /\ h.id = r[k].id)
    BY <1>4
  <2>4. CASE h.type = "join"
    BY <2>2, <2>3, <2>4 DEF h
  <2>5. CASE h.type = "leave"
    BY <1>2, <2>2, <2>3, <2>5 DEF h
  <2>6. CASE h.type \notin {"join", "leave"}
    BY <2>2, <2>3, <2>6 DEF h
  <2> QED BY <2>4, <2>5, <2>6
<1>6. InOrder(r, after)
  BY <1>5 DEF InOrder
<1>7. h.type = "leave" => h.id \notin Of("join", r) \cup Of("leave", r)
  BY <1>5 DEF Of
<1> QED BY <1>2, <1>6, <1>7 DEF r, h

(* What m_ThreadQ holds when a job is added or taken that is no join and no leave. *)
LEMMA JobAdded ==
  ASSUME TypeOK, InOrder(jobs, clients), NEW type \in {"message", "timeout"}, NEW i \in Ids,
         NEW kind \in Kinds \cup {"none"}, type = "message" => i \in Present \ Leaving,
         NEW queue, queue = Append(jobs, [type |-> type, id |-> i, kind |-> kind])
  PROVE  /\ Of("join", queue) = Of("join", jobs) /\ Of("leave", queue) = Of("leave", jobs)
         /\ InOrder(queue, clients)
<1>1. PICK job \in Job : job = [type |-> type, id |-> i, kind |-> kind] /\ job.type = type /\ job.id = i
  BY DEF Job
<1>2. jobs \in Seq(Job) /\ queue = Append(jobs, job)
  BY <1>1 DEF TypeOK
<1>3. \A x : Of(x, queue) = Of(x, jobs) \cup (IF job.type = x THEN {job.id} ELSE {})
  BY <1>2, OfAppend
<1>4. InOrder(queue, clients)
  <2>1. job.type \in {"message", "leave"} => job.id \in clients \cup Of("join", jobs) /\ job.id \notin Of("leave", jobs)
    BY <1>1 DEF Present, Leaving
  <2>2. job.type = "join" => job.id \notin clients \cup Of("join", jobs)
    BY <1>1
  <2>3. InOrder(Append(jobs, job), clients)
    BY <1>2, <2>1, <2>2, OrderAppend
  <2> QED BY <1>2, <2>3
<1>5. job.type # "join" /\ job.type # "leave"
  BY <1>1
<1>6. Of("join", queue) = Of("join", jobs)
  BY <1>3, <1>5
<1>7. Of("leave", queue) = Of("leave", jobs)
  BY <1>3, <1>5
<1> QED BY <1>4, <1>6, <1>7

LEMMA JobTaken ==
  ASSUME TypeOK, InOrder(jobs, clients), jobs # <<>>, Head(jobs).type \in {"message", "timeout"}
  PROVE  /\ Of("join", Tail(jobs)) = Of("join", jobs) /\ Of("leave", Tail(jobs)) = Of("leave", jobs)
         /\ InOrder(Tail(jobs), clients)
<1>1. jobs \in Seq(Job)
  BY DEF TypeOK
<1>2. \A x : Of(x, jobs) = Of(x, Tail(jobs)) \cup (IF Head(jobs).type = x THEN {Head(jobs).id} ELSE {})
  BY <1>1, OfTail
<1>3. InOrder(Tail(jobs), clients)
  BY <1>1, OrderTail
<1> QED BY <1>2, <1>3

(* The ids of joins and leaves are IDs. *)
LEMMA PresentIds ==
  ASSUME TypeOK
  PROVE  Present \subseteq Ids /\ Leaving \subseteq Ids
<1>1. \A k \in DOMAIN jobs : jobs[k] \in Job
  <2>1. jobs \in Seq(Job)
    BY DEF TypeOK
  <2> QED BY <2>1
<1>2. \A k \in DOMAIN jobs : jobs[k].id \in Ids
  BY <1>1 DEF Job
<1> QED BY <1>2 DEF Present, Leaving, Of, TypeOK

(* The life of a client, as the threads and m_ThreadQ have it. *)
Clients == InOrder(jobs, clients) /\ Attendance /\ Novelty

(* A step that begins and ends no client's. *)
ClientsAside(t) ==
    /\ Others(t) /\ \A u \in Threads \ {t} : gone'[u] = gone[u]
    /\ UNCHANGED <<clients, id, serial>>
    /\ Of("join", jobs') = Of("join", jobs) /\ Of("leave", jobs') = Of("leave", jobs)
    /\ InOrder(jobs', clients)
    /\ pc'[t] \in LeavePlaces <=> pc[t] \in LeavePlaces
    /\ pc'[t] = "rel_clear" <=> pc[t] = "rel_clear"
    /\ pc'[t] \in LeavePlaces => cur'[t] = cur[t] /\ gone'[t] = gone[t]
    /\ \A s \in Slots : Joined(s)' <=> Joined(s)
    /\ \/ t # Acceptor
       \/ pc'[t] \notin {"acc_flag", "acc_used", "acc_join"}
       \/ pc[t] \in {"acc_flag", "acc_used", "acc_join"} /\ cur'[t] = cur[t]
       \/ pc'[t] = pc[t] /\ cur'[t] = cur[t]

(* Such a step keeps Clients. *)
LEMMA ClientsFrame ==
  ASSUME TypeOK, TypeOK', Clients, NEW t \in Threads, ClientsAside(t)
  PROVE  Clients'
<1>1. Present' = Present /\ Leaving' = Leaving
  BY DEF ClientsAside, Present, Leaving
<1>2. \A u \in Threads :
        /\ pc'[u] \in LeavePlaces <=> pc[u] \in LeavePlaces
        /\ pc'[u] = "rel_clear" <=> pc[u] = "rel_clear"
        /\ pc'[u] \in LeavePlaces => cur'[u] = cur[u] /\ gone'[u] = gone[u]
  BY DEF ClientsAside, Others
<1>3. (\A s \in Slots : Joined(s)' <=> Joined(s)) /\ UNCHANGED <<clients, id, serial>>
  BY DEF ClientsAside
<1>4. InOrder(jobs, clients)'
  BY DEF ClientsAside, InOrder, Before
<1>5. Attendance'
  <2>1. \A s \in Slots : Joined(s)' => id'[s] \in Present' \ Leaving'
    BY <1>1, <1>3 DEF Clients, Attendance
  <2>2. \A u \in Threads : pc'[u] \in LeavePlaces =>
        /\ gone'[u] \in Present' \ Leaving'
        /\ \A v \in Threads : pc'[v] \in LeavePlaces /\ gone'[v] = gone'[u] => v = u
        /\ \A s \in Slots : Joined(s)' /\ id'[s] = gone'[u] => pc'[u] = "rel_clear"
        /\ pc'[u] = "rel_clear" => gone'[u] = id'[cur'[u]]
    BY <1>1, <1>2, <1>3 DEF Clients, Attendance
  <2>3. \A i \in Present' :
        \/ i \in Leaving'
        \/ Joined(i[1])' /\ id'[i[1]] = i
        \/ \E u \in Threads : pc'[u] \in LeavePlaces /\ gone'[u] = i
    <3>1. \A i \in Present : i[1] \in Slots
      BY PresentIds DEF Ids
    <3> QED BY <1>1, <1>2, <1>3, <3>1 DEF Clients, Attendance
  <2> QED BY <2>1, <2>2, <2>3 DEF Attendance
<1>6. Novelty'
  <2>1. pc'[Acceptor] \in {"acc_flag", "acc_used", "acc_join"} =>
          pc[Acceptor] \in {"acc_flag", "acc_used", "acc_join"} /\ cur'[Acceptor] = cur[Acceptor]
    BY DEF ClientsAside, Others
  <2> QED BY <1>1, <1>2, <1>3, <2>1 DEF Clients, Novelty
<1> QED BY <1>4, <1>5, <1>6 DEF Clients

(* The accept thread takes the next ID. *)
LEMMA AccIdClients ==
  ASSUME TypeOK, TypeOK', Issued, Ownership, Clients, AccId
  PROVE  Clients'
<1>1. PICK s \in Slots : s = cur[Acceptor]
  BY DEF TypeOK
<1>2. /\ pc[Acceptor] = "acc_id" /\ pc'[Acceptor] = "acc_flag"
      /\ \A u \in Threads \ {Acceptor} : pc'[u] = pc[u]
      /\ id'[s] = <<s, serial + 1>> /\ (\A r \in Slots \ {s} : id'[r] = id[r]) /\ serial' = serial + 1
      /\ UNCHANGED <<cur, gone, jobs, clients, recvIO>>
  BY <1>1 DEF AccId, TypeOK
<1>3. serial \in Nat
  BY BoundAssumption DEF TypeOK
<1>4. Present' = Present /\ Leaving' = Leaving /\ InOrder(jobs, clients)'
  BY <1>2 DEF Present, Leaving, Clients, InOrder, Before
<1>5. \A u \in Threads : pc'[u] \in LeavePlaces \cup {"rel_clear"} => pc'[u] = pc[u] /\ u # Acceptor
  BY <1>2 DEF LeavePlaces
<1>6. \A u \in Threads : pc[u] \in LeavePlaces => pc'[u] = pc[u]
  BY <1>2 DEF LeavePlaces
<1>7. ~Joined(s) /\ ~Joined(s)' /\ \A r \in Slots : Joined(r)' <=> Joined(r)
  BY <1>1, <1>2 DEF Joined, Ownership
<1>8. \A u \in Threads : pc[u] = "rel_clear" => cur[u] # s /\ cur[u] \in Slots
  BY <1>1, <1>2 DEF Ownership, Opening, TypeOK
<1>9. \A i \in Present \cup Leaving : i[2] <= serial /\ i[2] \in Int /\ i[1] \in Slots
  BY PresentIds DEF Clients, Novelty, Ids
<1>10. \A u \in Threads : pc[u] \in LeavePlaces => gone[u][2] <= serial /\ gone[u][2] \in Int
  <2>1. \A u \in Threads : gone[u] \in Ids
    BY DEF TypeOK
  <2>2. \A i \in Ids : i[2] \in Int
    BY DEF Ids
  <2> QED BY <2>1, <2>2 DEF Clients, Novelty
<1>11. \A r \in Slots : id[r][2] <= serial /\ id[r][2] \in Int
  BY DEF Clients, Novelty, TypeOK, Ids
<1>12. Attendance'
  <2>1. \A r \in Slots : Joined(r)' => id'[r] \in Present' \ Leaving'
    BY <1>2, <1>4, <1>7 DEF Clients, Attendance
  <2>2. \A u \in Threads : pc'[u] \in LeavePlaces =>
        /\ gone'[u] \in Present' \ Leaving'
        /\ \A v \in Threads : pc'[v] \in LeavePlaces /\ gone'[v] = gone'[u] => v = u
        /\ \A r \in Slots : Joined(r)' /\ id'[r] = gone'[u] => pc'[u] = "rel_clear"
        /\ pc'[u] = "rel_clear" => gone'[u] = id'[cur'[u]]
    BY <1>2, <1>4, <1>5, <1>7, <1>8 DEF Clients, Attendance
  <2>3. \A i \in Present' :
        \/ i \in Leaving'
        \/ Joined(i[1])' /\ id'[i[1]] = i
        \/ \E u \in Threads : pc'[u] \in LeavePlaces /\ gone'[u] = i
    BY <1>2, <1>4, <1>6, <1>7, <1>9 DEF Clients, Attendance
  <2> QED BY <2>1, <2>2, <2>3 DEF Attendance
<1>13. Novelty'
  <2>1. \A i \in Present' \cup Leaving' : i[2] <= serial'
    BY <1>2, <1>3, <1>4, <1>9
  <2>2. \A r \in Slots : id'[r][2] <= serial'
    BY <1>2, <1>3, <1>11
  <2>3. \A u \in Threads : pc'[u] \in LeavePlaces => gone'[u][2] <= serial'
    BY <1>2, <1>3, <1>5, <1>10
  <2>4. id'[cur'[Acceptor]] = <<s, serial + 1>>
    BY <1>1, <1>2
  <2>5. <<s, serial + 1>> \notin Present' \cup Leaving'
    BY <1>3, <1>4, <1>9
  <2>6. \A u \in Threads : pc'[u] \in LeavePlaces => gone'[u] # <<s, serial + 1>>
    BY <1>2, <1>3, <1>5, <1>10
  <2> QED BY <2>1, <2>2, <2>3, <2>4, <2>5, <2>6 DEF Novelty
<1> QED BY <1>4, <1>12, <1>13 DEF Clients

(* OnClientJoin. *)
LEMMA AccJoinClients ==
  ASSUME TypeOK, TypeOK', Issued, Ownership, Clients, AccJoin
  PROVE  Clients'
<1>1. PICK s \in Slots : s = cur[Acceptor]
  BY DEF TypeOK
<1>2. PICK i \in Ids : i = id[s] /\ i[1] = s
  BY <1>1 DEF TypeOK, Issued
<1>3. PICK job \in Job : job = [type |-> "join", id |-> i, kind |-> "none"] /\ job.type = "join" /\ job.id = i
  <2>1. [type |-> "join", id |-> i, kind |-> "none"] \in Job
    BY <1>2 DEF Job
  <2> QED BY <2>1
<1>4. /\ pc[Acceptor] = "acc_join" /\ pc'[Acceptor] = "acc_recv"
      /\ \A u \in Threads \ {Acceptor} : pc'[u] = pc[u]
      /\ jobs' = Append(jobs, job) /\ jobs \in Seq(Job)
      /\ UNCHANGED <<cur, gone, id, serial, clients, recvIO>>
  BY <1>1, <1>2, <1>3 DEF AccJoin, TypeOK
<1>5. i \notin Present \cup Leaving /\ \A u \in Threads : pc[u] \in LeavePlaces => gone[u] # i
  BY <1>1, <1>2, <1>4 DEF Clients, Novelty
<1>6. Present' = Present \cup {i} /\ Leaving' = Leaving
  <2>1. \A x : Of(x, jobs') = Of(x, jobs) \cup (IF job.type = x THEN {job.id} ELSE {})
    BY <1>4, OfAppend
  <2>2. Of("join", jobs') = Of("join", jobs) \cup {i} /\ Of("leave", jobs') = Of("leave", jobs)
    BY <1>3, <2>1
  <2> QED BY <1>4, <2>2 DEF Present, Leaving
<1>7. InOrder(jobs, clients)'
  <2>1. InOrder(Append(jobs, job), clients)
    BY <1>3, <1>4, <1>5, OrderAppend DEF Clients, Present
  <2> QED BY <1>4, <2>1 DEF InOrder, Before
<1>8. \A u \in Threads : (pc'[u] \in LeavePlaces => pc'[u] = pc[u]) /\ (pc[u] \in LeavePlaces => pc'[u] = pc[u])
  BY <1>4 DEF LeavePlaces
<1>9. Joined(s)' /\ \A r \in Slots \ {s} : Joined(r)' <=> Joined(r)
  BY <1>1, <1>4 DEF Joined
<1>10. ~Joined(s)
  BY <1>1, <1>4 DEF Joined, Ownership
<1>11. Attendance'
  <2>1. \A r \in Slots : Joined(r)' => id'[r] \in Present' \ Leaving'
    BY <1>2, <1>4, <1>5, <1>6, <1>9 DEF Clients, Attendance
  <2>2. \A u \in Threads : pc'[u] \in LeavePlaces =>
        /\ gone'[u] \in Present' \ Leaving'
        /\ \A v \in Threads : pc'[v] \in LeavePlaces /\ gone'[v] = gone'[u] => v = u
        /\ \A r \in Slots : Joined(r)' /\ id'[r] = gone'[u] => pc'[u] = "rel_clear"
        /\ pc'[u] = "rel_clear" => gone'[u] = id'[cur'[u]]
    BY <1>2, <1>4, <1>5, <1>6, <1>8, <1>9 DEF Clients, Attendance
  <2>3. \A j \in Present' :
        \/ j \in Leaving'
        \/ Joined(j[1])' /\ id'[j[1]] = j
        \/ \E u \in Threads : pc'[u] \in LeavePlaces /\ gone'[u] = j
    <3>1. \A j \in Present : j[1] \in Slots
      BY PresentIds DEF Ids
    <3> QED BY <1>2, <1>4, <1>6, <1>8, <1>9, <1>10, <3>1 DEF Clients, Attendance
  <2> QED BY <2>1, <2>2, <2>3 DEF Attendance
<1>12. Novelty'
  BY <1>2, <1>4, <1>6, <1>8 DEF Clients, Novelty
<1> QED BY <1>7, <1>11, <1>12 DEF Clients

(* ReleaseSession keeps the ID for OnClientLeave. *)
LEMMA RelPacketsClients ==
  ASSUME TypeOK, TypeOK', Issued, Ownership, Clients, NEW t \in Threads, RelPackets(t),
         UNCHANGED <<upd, net>>
  PROVE  Clients'
<1>1. PICK s \in Slots : s = cur[t]
  BY DEF TypeOK
<1>2. PICK i \in Ids : i = id[s] /\ i[1] = s
  BY <1>1, ZenonT(40) DEF TypeOK, Issued
<1>3. /\ pc[t] = "rel_packets" /\ pc'[t] = "rel_clear" /\ gone'[t] = i
      /\ \A u \in Threads \ {t} : pc'[u] = pc[u] /\ gone'[u] = gone[u]
      /\ UNCHANGED <<cur, id, serial, jobs, clients, recvIO>>
  BY <1>1, <1>2 DEF RelPackets, TypeOK
<1>4. Present' = Present /\ Leaving' = Leaving /\ InOrder(jobs, clients)'
  BY <1>3 DEF Present, Leaving, Clients, InOrder, Before
<1>5. recvIO[s] = "none" /\ Joined(s) /\ ~Opening(s)
  BY <1>1, <1>3 DEF Ownership, Joined
<1>6. t # Acceptor => pc'[Acceptor] = pc[Acceptor]
  BY <1>3
<1>7. \A r \in Slots : Joined(r)' <=> Joined(r)
  BY <1>3, <1>6 DEF Joined
<1>8. i \in Present \ Leaving
  BY <1>2, <1>5 DEF Clients, Attendance
<1>9. \A u \in Threads : pc[u] \in LeavePlaces => gone[u] # i
  <2>1. ASSUME NEW u \in Threads, pc[u] \in LeavePlaces, gone[u] = i
        PROVE  FALSE
    <3>1. pc[u] = "rel_clear" /\ i = id[cur[u]]
      BY <1>2, <1>5, <2>1 DEF Clients, Attendance
    <3>2. cur[u] = s
      <4>1. cur[u] \in Slots
        BY DEF TypeOK
      <4>2. id[cur[u]][1] = cur[u]
        BY <4>1 DEF Issued
      <4> QED BY <1>2, <3>1, <4>2
    <3>3. u = t
      BY <1>1, <1>3, <3>1, <3>2 DEF Ownership
    <3> QED BY <1>3, <3>1, <3>3
  <2> QED BY <2>1
<1>10. pc[t] \notin LeavePlaces /\ pc'[t] \in LeavePlaces
  BY <1>3 DEF LeavePlaces
<1>11. Attendance'
  <2>1. \A r \in Slots : Joined(r)' => id'[r] \in Present' \ Leaving'
    BY <1>3, <1>4, <1>7 DEF Clients, Attendance
  <2>2. \A u \in Threads : pc'[u] \in LeavePlaces =>
        /\ gone'[u] \in Present' \ Leaving'
        /\ \A v \in Threads : pc'[v] \in LeavePlaces /\ gone'[v] = gone'[u] => v = u
        /\ \A r \in Slots : Joined(r)' /\ id'[r] = gone'[u] => pc'[u] = "rel_clear"
        /\ pc'[u] = "rel_clear" => gone'[u] = id'[cur'[u]]
    BY <1>1, <1>2, <1>3, <1>4, <1>7, <1>8, <1>9 DEF Clients, Attendance
  <2>3. \A j \in Present' :
        \/ j \in Leaving'
        \/ Joined(j[1])' /\ id'[j[1]] = j
        \/ \E u \in Threads : pc'[u] \in LeavePlaces /\ gone'[u] = j
    <3>1. \A j \in Present : j[1] \in Slots
      BY PresentIds DEF Ids
    <3> QED BY <1>3, <1>4, <1>7, <1>10, <3>1 DEF Clients, Attendance
  <2> QED BY <2>1, <2>2, <2>3 DEF Attendance
<1>12. Novelty'
  <2>1. \A u \in Threads : pc'[u] \in LeavePlaces => gone'[u][2] <= serial
    BY <1>2, <1>3 DEF Clients, Novelty
  <2>2. ASSUME pc'[Acceptor] \in {"acc_flag", "acc_used", "acc_join"}
        PROVE  /\ pc[Acceptor] = pc'[Acceptor]
               /\ id[cur[Acceptor]] # i
    <3>1. pc[Acceptor] = pc'[Acceptor]
      BY <1>3, <1>6, <2>2
    <3>2. cur[Acceptor] # s /\ cur[Acceptor] \in Slots
      BY <1>5, <2>2, <3>1 DEF Ownership, TypeOK
    <3> QED BY <1>2, <3>1, <3>2 DEF Issued
  <2> QED BY <1>3, <1>4, <2>1, <2>2 DEF Clients, Novelty
<1> QED BY <1>4, <1>11, <1>12 DEF Clients

(* SessionClear. *)
LEMMA RelClearClients ==
  ASSUME TypeOK, TypeOK', Issued, Ownership, Clients, NEW t \in Threads, RelClear(t),
         UNCHANGED <<upd, net>>
  PROVE  Clients'
<1>1. PICK s \in Slots : s = cur[t]
  BY DEF TypeOK
<1>2. /\ pc[t] = "rel_clear" /\ pc'[t] = "rel_push" /\ recvIO'[s] = "prepaid"
      /\ \A u \in Threads \ {t} : pc'[u] = pc[u]
      /\ \A r \in Slots \ {s} : recvIO'[r] = recvIO[r]
      /\ UNCHANGED <<cur, gone, id, serial, jobs, clients>>
  BY <1>1 DEF RelClear, TypeOK
<1>3. Present' = Present /\ Leaving' = Leaving /\ InOrder(jobs, clients)'
  BY <1>2 DEF Present, Leaving, Clients, InOrder, Before
<1>4. recvIO[s] = "none" /\ gone[t] = id[s]
  BY <1>1, <1>2 DEF Ownership, Clients, Attendance, LeavePlaces
<1>5. pc[Acceptor] \in AcceptPlaces => cur[Acceptor] # s
  BY <1>4 DEF Ownership
<1>6. t # Acceptor => pc'[Acceptor] = pc[Acceptor]
  BY <1>2
<1>7. ~Joined(s)' /\ \A r \in Slots \ {s} : Joined(r)' <=> Joined(r)
  BY <1>2, <1>5, <1>6 DEF Joined
<1>8. \A r \in Slots : id[r][1] = r
  BY DEF Issued
<1>9. \A u \in Threads : (pc'[u] \in LeavePlaces <=> pc[u] \in LeavePlaces) /\ (u # t => pc'[u] = pc[u])
  BY <1>2 DEF LeavePlaces
<1>10. Attendance'
  <2>1. \A r \in Slots : Joined(r)' => id'[r] \in Present' \ Leaving'
    BY <1>2, <1>3, <1>7 DEF Clients, Attendance
  <2>2. \A u \in Threads : pc'[u] \in LeavePlaces =>
        /\ gone'[u] \in Present' \ Leaving'
        /\ \A v \in Threads : pc'[v] \in LeavePlaces /\ gone'[v] = gone'[u] => v = u
    BY <1>2, <1>3, <1>9 DEF Clients, Attendance
  <2>3. ASSUME NEW u \in Threads, pc'[u] \in LeavePlaces, NEW r \in Slots, Joined(r)', id'[r] = gone'[u]
        PROVE  pc'[u] = "rel_clear"
    <3>1. r # s /\ Joined(r) /\ id[r] = gone[u] /\ pc[u] \in LeavePlaces
      BY <1>2, <1>7, <1>9, <2>3
    <3>2. u # t
      BY <1>4, <1>8, <3>1
    <3> QED BY <1>9, <3>1, <3>2 DEF Clients, Attendance
  <2>4. \A u \in Threads : pc'[u] = "rel_clear" => gone'[u] = id'[cur'[u]]
    BY <1>2, <1>9 DEF Clients, Attendance, LeavePlaces
  <2>5. \A j \in Present' :
        \/ j \in Leaving'
        \/ Joined(j[1])' /\ id'[j[1]] = j
        \/ \E u \in Threads : pc'[u] \in LeavePlaces /\ gone'[u] = j
    <3>1. ASSUME NEW j \in Present, Joined(j[1]), id[j[1]] = j
          PROVE  Joined(j[1])' \/ gone[t] = j
      <4>1. j[1] \in Slots
        BY PresentIds DEF Ids
      <4> QED BY <1>4, <1>7, <3>1, <4>1
    <3>2. pc'[t] \in LeavePlaces
      BY <1>2 DEF LeavePlaces
    <3> QED BY <1>2, <1>3, <1>9, <3>1, <3>2 DEF Clients, Attendance
  <2> QED BY <2>1, <2>2, <2>3, <2>4, <2>5 DEF Attendance
<1>11. Novelty'
  <2>1. pc'[Acceptor] \in {"acc_flag", "acc_used", "acc_join"} => pc'[Acceptor] = pc[Acceptor]
    BY <1>2, <1>6
  <2> QED BY <1>2, <1>3, <1>9, <2>1 DEF Clients, Novelty
<1> QED BY <1>3, <1>10, <1>11 DEF Clients

(* OnClientLeave. *)
LEMMA RelLeaveClients ==
  ASSUME TypeOK, TypeOK', Clients, NEW t \in Threads, RelLeave(t), UNCHANGED <<upd, net>>
  PROVE  Clients'
<1>1. PICK i \in Ids : i = gone[t]
  BY DEF TypeOK
<1>2. PICK job \in Job : job = [type |-> "leave", id |-> i, kind |-> "none"] /\ job.type = "leave" /\ job.id = i
  <2>1. [type |-> "leave", id |-> i, kind |-> "none"] \in Job
    BY DEF Job
  <2> QED BY <2>1
<1>3. After(t) \in {"pqcs", "drop", "final", "idle"}
  BY DEF TypeOK
<1>4. /\ pc[t] = "rel_leave" /\ pc'[t] = After(t)
      /\ \A u \in Threads \ {t} : pc'[u] = pc[u]
      /\ jobs' = Append(jobs, job) /\ jobs \in Seq(Job)
      /\ UNCHANGED <<cur, gone, id, serial, clients, recvIO>>
  BY <1>1, <1>2 DEF RelLeave, TypeOK
<1>5. Present' = Present /\ Leaving' = Leaving \cup {i}
  <2>1. \A x : Of(x, jobs') = Of(x, jobs) \cup (IF job.type = x THEN {job.id} ELSE {})
    BY <1>4, OfAppend
  <2>2. Of("join", jobs') = Of("join", jobs) /\ Of("leave", jobs') = Of("leave", jobs) \cup {i}
    BY <1>2, <2>1
  <2> QED BY <1>4, <2>2 DEF Present, Leaving
<1>6. /\ i \in Present \ Leaving
      /\ \A u \in Threads : pc[u] \in LeavePlaces /\ gone[u] = i => u = t
      /\ \A s \in Slots : Joined(s) => id[s] # i
  BY <1>1, <1>4 DEF Clients, Attendance, LeavePlaces
<1>7. InOrder(jobs, clients)'
  <2>1. /\ job.type \in {"message", "leave"} => job.id \in clients \cup Of("join", jobs) /\ job.id \notin Of("leave", jobs)
        /\ job.type = "join" => job.id \notin clients \cup Of("join", jobs)
    BY <1>2, <1>6 DEF Present, Leaving
  <2>2. InOrder(jobs, clients)
    BY DEF Clients
  <2>3. InOrder(Append(jobs, job), clients)
    BY <1>4, <2>1, <2>2, OrderAppend
  <2> QED BY <1>4, <2>3 DEF InOrder, Before
<1>8. \A u \in Threads : pc'[u] \in LeavePlaces <=> pc[u] \in LeavePlaces /\ u # t
  BY <1>3, <1>4 DEF LeavePlaces
<1>9. \A s \in Slots : Joined(s)' <=> Joined(s)
  BY <1>3, <1>4 DEF Joined
<1>10. Attendance'
  <2>1. \A s \in Slots : Joined(s)' => id'[s] \in Present' \ Leaving'
    BY <1>4, <1>5, <1>6, <1>9 DEF Clients, Attendance
  <2>2. \A u \in Threads : pc'[u] \in LeavePlaces =>
        /\ gone'[u] \in Present' \ Leaving'
        /\ \A v \in Threads : pc'[v] \in LeavePlaces /\ gone'[v] = gone'[u] => v = u
        /\ \A s \in Slots : Joined(s)' /\ id'[s] = gone'[u] => pc'[u] = "rel_clear"
        /\ pc'[u] = "rel_clear" => gone'[u] = id'[cur'[u]]
    BY <1>4, <1>5, <1>6, <1>8, <1>9 DEF Clients, Attendance
  <2>3. \A j \in Present' :
        \/ j \in Leaving'
        \/ Joined(j[1])' /\ id'[j[1]] = j
        \/ \E u \in Threads : pc'[u] \in LeavePlaces /\ gone'[u] = j
    <3>1. \A j \in Present : j[1] \in Slots
      BY PresentIds DEF Ids
    <3> QED BY <1>1, <1>4, <1>5, <1>8, <1>9, <3>1 DEF Clients, Attendance
  <2> QED BY <2>1, <2>2, <2>3 DEF Attendance
<1>11. Novelty'
  <2>1. pc'[Acceptor] \in {"acc_flag", "acc_used", "acc_join"} => pc'[Acceptor] = pc[Acceptor]
    BY <1>3, <1>4
  <2>2. pc[t] \in LeavePlaces
    BY <1>4 DEF LeavePlaces
  <2>3. i[2] <= serial /\ (pc[Acceptor] \in {"acc_flag", "acc_used", "acc_join"} => id[cur[Acceptor]] # i)
    BY <1>1, <2>2 DEF Clients, Novelty
  <2> QED BY <1>4, <1>5, <1>8, <2>1, <2>3 DEF Clients, Novelty
<1> QED BY <1>7, <1>10, <1>11 DEF Clients

(* The content takes a join or a leave: who is present and not leaving stays so. *)
LEMMA JobHandled ==
  ASSUME TypeOK, TypeOK', Clients, UNCHANGED <<pc, cur, gone, id, serial, recvIO>>, InOrder(jobs, clients)',
         Present' \ Leaving' = Present \ Leaving, Present' \subseteq Present, Leaving' \subseteq Leaving
  PROVE  Clients'
<1>1. \A s \in Slots : Joined(s)' <=> Joined(s)
  BY DEF Joined
<1>2. Attendance'
  <2>1. \A s \in Slots : Joined(s)' => id'[s] \in Present' \ Leaving'
    BY <1>1 DEF Clients, Attendance
  <2>2. \A u \in Threads : pc'[u] \in LeavePlaces =>
        /\ gone'[u] \in Present' \ Leaving'
        /\ \A v \in Threads : pc'[v] \in LeavePlaces /\ gone'[v] = gone'[u] => v = u
        /\ \A s \in Slots : Joined(s)' /\ id'[s] = gone'[u] => pc'[u] = "rel_clear"
        /\ pc'[u] = "rel_clear" => gone'[u] = id'[cur'[u]]
    BY <1>1 DEF Clients, Attendance
  <2>3. \A j \in Present' :
        \/ j \in Leaving'
        \/ Joined(j[1])' /\ id'[j[1]] = j
        \/ \E u \in Threads : pc'[u] \in LeavePlaces /\ gone'[u] = j
    <3>1. \A j \in Present : j[1] \in Slots
      BY PresentIds DEF Ids
    <3> QED BY <1>1, <3>1 DEF Clients, Attendance
  <2> QED BY <2>1, <2>2, <2>3 DEF Attendance
<1>3. Novelty'
  BY DEF Clients, Novelty
<1> QED BY <1>2, <1>3 DEF Clients

LEMMA CreateNewUserClients ==
  ASSUME TypeOK, TypeOK', Clients, CreateNewUser
  PROVE  Clients'
<1>1. /\ jobs \in Seq(Job) /\ jobs # <<>> /\ Head(jobs).type = "join"
      /\ clients' = clients \cup {Head(jobs).id} /\ jobs' = Tail(jobs)
      /\ UNCHANGED <<pc, cur, gone, id, serial, recvIO>>
  BY DEF CreateNewUser, TypeOK
<1>2. \A x : Of(x, jobs) = Of(x, Tail(jobs)) \cup (IF Head(jobs).type = x THEN {Head(jobs).id} ELSE {})
  BY <1>1, OfTail
<1>3. Of("join", jobs) = Of("join", jobs') \cup {Head(jobs).id} /\ Of("leave", jobs) = Of("leave", jobs')
  BY <1>1, <1>2
<1>4. Present' = Present /\ Leaving' = Leaving
  BY <1>1, <1>3 DEF Present, Leaving
<1>5. InOrder(jobs, clients)'
  <2>1. InOrder(jobs, clients)
    BY DEF Clients
  <2>2. InOrder(Tail(jobs), clients')
    BY <1>1, <2>1, OrderTail
  <2> QED BY <1>1, <2>2 DEF InOrder, Before
<1> QED BY <1>1, <1>4, <1>5, JobHandled

LEMMA DeleteUserClients ==
  ASSUME TypeOK, TypeOK', Clients, DeleteUser
  PROVE  Clients'
<1>1. /\ jobs \in Seq(Job) /\ jobs # <<>> /\ Head(jobs).type = "leave"
      /\ clients' = clients \ {Head(jobs).id} /\ jobs' = Tail(jobs)
      /\ UNCHANGED <<pc, cur, gone, id, serial, recvIO>>
  BY DEF DeleteUser, TypeOK
<1>2. \A x : Of(x, jobs) = Of(x, Tail(jobs)) \cup (IF Head(jobs).type = x THEN {Head(jobs).id} ELSE {})
  BY <1>1, OfTail
<1>3. Of("join", jobs) = Of("join", jobs') /\ Of("leave", jobs) = Of("leave", jobs') \cup {Head(jobs).id}
  BY <1>1, <1>2
<1>4. InOrder(Tail(jobs), clients') /\ Head(jobs).id \notin Of("join", Tail(jobs)) \cup Of("leave", Tail(jobs))
  <2>1. InOrder(jobs, clients)
    BY DEF Clients
  <2> QED BY <1>1, <2>1, OrderTail
<1>5. Present' = Present \ {Head(jobs).id} /\ Leaving = Leaving' \cup {Head(jobs).id}
  BY <1>1, <1>3, <1>4 DEF Present, Leaving
<1>6. Head(jobs).id \notin Leaving'
  BY <1>1, <1>4 DEF Leaving
<1>7. Present' \ Leaving' = Present \ Leaving /\ Present' \subseteq Present /\ Leaving' \subseteq Leaving
  BY <1>5, <1>6
<1>8. InOrder(jobs, clients)'
  BY <1>1, <1>4 DEF InOrder, Before
<1> QED BY <1>1, <1>7, <1>8, JobHandled

(* The steps that add or take a message or a time-out. *)
LEMMA RecvMessageClients ==
  ASSUME TypeOK, TypeOK', RecvPhase, Clients, NEW w \in Workers, NEW kind \in Kinds, RecvMessage(w, kind)
  PROVE  ClientsAside(w)
<1>1. PICK s \in Slots : s = cur[w]
  BY DEF TypeOK
<1>2. PICK i \in Ids : i = id[s]
  BY DEF TypeOK
<1>3. /\ pc[w] = "recv" /\ UNCHANGED <<pc, nxt, op, arg, cur, io, gone, clients, id, serial, recvIO>>
      /\ jobs' = Append(jobs, [type |-> "message", id |-> i, kind |-> kind])
  BY <1>1, <1>2 DEF RecvMessage
<1>4. i \in Present \ Leaving
  BY <1>1, <1>2, <1>3 DEF RecvPhase, Joined, Clients, Attendance
<1>5. /\ Of("join", jobs') = Of("join", jobs) /\ Of("leave", jobs') = Of("leave", jobs)
      /\ InOrder(jobs', clients)
  <2>1. InOrder(jobs, clients)
    BY DEF Clients
  <2> QED BY <1>3, <1>4, <2>1, JobAdded
<1> QED BY <1>3, <1>5 DEF ClientsAside, Others, Joined

LEMMA MonExpireClients ==
  ASSUME TypeOK, TypeOK', Clients, NEW late \in BOOLEAN, MonExpire(late)
  PROVE  ClientsAside(Monitor)
<1>1. PICK i \in Ids : i = id[cur[Monitor]]
  BY DEF TypeOK
<1>2. /\ pc[Monitor] = "expire" /\ pc'[Monitor] = "drop" /\ \A u \in Threads \ {Monitor} : pc'[u] = pc[u]
      /\ UNCHANGED <<nxt, op, arg, cur, io, gone, clients, id, serial, recvIO>>
      /\ jobs' = jobs \/ jobs' = Append(jobs, [type |-> "timeout", id |-> i, kind |-> "none"])
  BY <1>1 DEF MonExpire, TypeOK
<1>3. InOrder(jobs, clients)
  BY DEF Clients
<1>4. /\ Of("join", jobs') = Of("join", jobs) /\ Of("leave", jobs') = Of("leave", jobs)
      /\ InOrder(jobs', clients)
  <2>1. CASE jobs' = jobs
    BY <1>3, <2>1
  <2>2. CASE jobs' = Append(jobs, [type |-> "timeout", id |-> i, kind |-> "none"])
    BY <1>3, <2>2, JobAdded
  <2> QED BY <1>2, <2>1, <2>2
<1> QED BY <1>2, <1>4 DEF ClientsAside, Others, Joined, LeavePlaces

LEMMA TakenClients ==
  ASSUME TypeOK, TypeOK', Clients, TimeOut \/ BadMessage \/ \E recipients \in SUBSET clients : ChatMessage(recipients)
  PROVE  ClientsAside(Updater)
<1>1. /\ pc[Updater] = "idle" /\ pc'[Updater] \in {"idle", "acq_inc"}
      /\ \A u \in Threads \ {Updater} : pc'[u] = pc[u] /\ cur'[u] = cur[u] /\ op'[u] = op[u] /\ arg'[u] = arg[u]
      /\ jobs # <<>> /\ jobs' = Tail(jobs) /\ Head(jobs).type \in {"message", "timeout"}
      /\ UNCHANGED <<nxt, io, gone, clients, id, serial, recvIO>>
  <2>1. CASE TimeOut
    BY SMTT(40), <2>1 DEF TimeOut, TypeOK
  <2>2. CASE BadMessage
    BY SMTT(40), <2>2 DEF BadMessage, TypeOK
  <2>3. CASE \E recipients \in SUBSET clients : ChatMessage(recipients)
    BY SMTT(40), <2>3 DEF ChatMessage, TypeOK
  <2> QED BY <2>1, <2>2, <2>3
<1>2. /\ Of("join", jobs') = Of("join", jobs) /\ Of("leave", jobs') = Of("leave", jobs)
      /\ InOrder(jobs', clients)
  BY <1>1, JobTaken DEF Clients
<1> QED BY <1>1, <1>2 DEF ClientsAside, Others, Joined, LeavePlaces

(* The steps of the routines of NetSession. *)
LEMMA RoutineClients ==
  ASSUME TypeOK, TypeOK', Control, Issued, Ownership, RecvPhase, Clients, NEW t \in Threads,
         Routine(t), UNCHANGED <<upd, net>>
  PROVE  ClientsAside(t) \/ Clients'
<1>1. CASE AcqInc(t)
  BY <1>1 DEF TypeOK, Control, ClientsAside, Others, Clients, LeavePlaces, Joined, AcqInc
<1>2. CASE AcqFlag(t)
  BY <1>2 DEF TypeOK, Control, ClientsAside, Others, Clients, LeavePlaces, Joined, AcqFlag
<1>3. CASE AcqId(t)
  BY <1>3 DEF TypeOK, Control, ClientsAside, Others, Clients, LeavePlaces, Joined, AcqId
<1>4. CASE AcqFail(t)
  BY <1>4 DEF TypeOK, Control, ClientsAside, Others, Clients, LeavePlaces, Joined, AcqFail
<1>5. CASE Drop(t)
  BY <1>5 DEF TypeOK, Control, ClientsAside, Others, Clients, LeavePlaces, Joined, Drop
<1>6. CASE RelCas(t)
  BY <1>6 DEF TypeOK, Control, ClientsAside, Others, Clients, LeavePlaces, Joined, RelCas
<1>7. CASE RelPackets(t)
  BY <1>7, RelPacketsClients
<1>8. CASE RelClear(t)
  BY <1>8, RelClearClients
<1>9. CASE RelPush(t)
  BY <1>9 DEF TypeOK, Control, ClientsAside, Others, Clients, LeavePlaces, Joined, RelPush
<1>10. CASE RelLeave(t)
  BY <1>10, RelLeaveClients
<1>11. CASE Cancel(t)
  BY <1>11 DEF TypeOK, Control, ClientsAside, Others, Clients, LeavePlaces, Joined, Cancel
<1>12. CASE EnQ(t)
  BY <1>12 DEF TypeOK, Control, ClientsAside, Others, Clients, LeavePlaces, Joined, EnQ
<1>13. CASE Pqcs(t)
  BY <1>13 DEF TypeOK, Control, ClientsAside, Others, Clients, LeavePlaces, Joined, Pqcs
<1>14. CASE Mark(t)
  BY <1>14 DEF TypeOK, Control, ClientsAside, Others, Clients, LeavePlaces, Joined, Mark
<1>15. CASE PostFlag(t)
  BY <1>15 DEF TypeOK, Control, ClientsAside, Others, Clients, LeavePlaces, Joined, PostFlag
<1>16. CASE PostCount(t)
  BY <1>16 DEF TypeOK, Control, ClientsAside, Others, Clients, LeavePlaces, Joined, PostCount
<1>17. CASE PostUnflag(t)
  BY <1>17 DEF TypeOK, Control, ClientsAside, Others, Clients, LeavePlaces, Joined, PostUnflag
<1>18. CASE PostRecheck(t)
  BY <1>18 DEF TypeOK, Control, ClientsAside, Others, Clients, LeavePlaces, Joined, PostRecheck
<1>19. CASE PostInc(t)
  BY <1>19 DEF TypeOK, Control, ClientsAside, Others, Clients, LeavePlaces, Joined, PostInc
<1>20. CASE PostDeq(t)
  BY <1>20 DEF TypeOK, Control, ClientsAside, Others, Clients, LeavePlaces, Joined, PostDeq
<1>21. CASE PostCancel(t)
  BY <1>21 DEF TypeOK, Control, ClientsAside, Others, Clients, LeavePlaces, Joined, PostCancel
<1>22. ASSUME NEW failed \in BOOLEAN, PostSend(t, failed)
      PROVE  ClientsAside(t) \/ Clients'
  BY <1>22 DEF TypeOK, Control, ClientsAside, Others, Clients, LeavePlaces, Joined, PostSend
<1>23. CASE Drop2(t)
  BY <1>23 DEF TypeOK, Control, ClientsAside, Others, Clients, LeavePlaces, Joined, Drop2
<1>24. CASE RpInc(t)
  BY <1>24 DEF TypeOK, Control, ClientsAside, Others, Clients, LeavePlaces, Joined, RpInc
<1>25. CASE RpCancel(t)
  BY <1>25 DEF TypeOK, Control, ClientsAside, Others, Clients, LeavePlaces, Joined, RpCancel
<1>26. ASSUME NEW failed \in BOOLEAN, RpIssue(t, failed)
      PROVE  ClientsAside(t) \/ Clients'
  BY <1>26 DEF TypeOK, Control, ClientsAside, Others, Clients, LeavePlaces, Joined, RpIssue,
     RecvPhase
<1>27. CASE RpFail(t)
  BY <1>27 DEF TypeOK, Control, ClientsAside, Others, Clients, LeavePlaces, Joined, RpFail
<1> QED BY <1>1, <1>2, <1>3, <1>4, <1>5, <1>6, <1>7, <1>8, <1>9, <1>10, <1>11, <1>12, <1>13,
     <1>14, <1>15, <1>16, <1>17, <1>18, <1>19, <1>20, <1>21, <1>22, <1>23, <1>24, <1>25, <1>26,
     <1>27 DEF Routine

(* The same for the actions of the accept thread. *)
LEMMA AcceptClients ==
  ASSUME TypeOK, TypeOK', Control, Issued, Ownership, RecvPhase, Clients, Accept
  PROVE  ClientsAside(Acceptor) \/ Clients'
<1>1. ASSUME NEW s \in Slots, AccPop(s)
      PROVE  ClientsAside(Acceptor) \/ Clients'
  BY <1>1 DEF TypeOK, Control, ClientsAside, Others, Clients, LeavePlaces, Joined, AccPop
<1>2. CASE AccId
  BY <1>2, AccIdClients
<1>3. CASE AccFlag
  BY <1>3 DEF TypeOK, Control, ClientsAside, Others, Clients, LeavePlaces, Joined, AccFlag
<1>4. CASE AccUsed
  BY <1>4 DEF TypeOK, Control, ClientsAside, Others, Clients, LeavePlaces, Joined, AccUsed
<1>5. CASE AccAttachFail
  BY <1>5 DEF TypeOK, Control, ClientsAside, Others, Clients, LeavePlaces, Joined, AccAttachFail
<1>6. CASE AccJoin
  BY <1>6, AccJoinClients
<1>7. ASSUME NEW failed \in BOOLEAN, AccRecv(failed)
      PROVE  ClientsAside(Acceptor) \/ Clients'
  BY <1>7 DEF TypeOK, Control, ClientsAside, Others, Clients, LeavePlaces, Joined, AccRecv,
     Ownership
<1>8. CASE AccFail
  BY <1>8 DEF TypeOK, Control, ClientsAside, Others, Clients, LeavePlaces, Joined, AccFail,
     Ownership
<1> QED BY <1>1, <1>2, <1>3, <1>4, <1>5, <1>6, <1>7, <1>8 DEF Accept

(* The same for the actions of a worker. *)
LEMMA WorkClients ==
  ASSUME TypeOK, TypeOK', Control, Issued, Ownership, RecvPhase, Clients, NEW w \in Workers, Work(w)
  PROVE  ClientsAside(w)
<1>1. ASSUME NEW s \in Slots, GetRecv(w, s)
      PROVE  ClientsAside(w)
  BY <1>1, SMTT(40) DEF TypeOK, Control, ClientsAside, Others, Clients, LeavePlaces, Joined, GetRecv
<1>2. ASSUME NEW s \in Slots, GetSend(w, s)
      PROVE  ClientsAside(w)
  BY <1>2 DEF TypeOK, Control, ClientsAside, Others, Clients, LeavePlaces, Joined, GetSend
<1>3. ASSUME NEW i \in Ids, GetPost(w, i)
      PROVE  ClientsAside(w)
  BY <1>3 DEF TypeOK, Control, ClientsAside, Others, Clients, LeavePlaces, Joined, GetPost
<1>4. ASSUME NEW kind \in Kinds, RecvMessage(w, kind)
      PROVE  ClientsAside(w)
  BY <1>4, RecvMessageClients
<1>5. CASE RecvGarbage(w)
  BY <1>5 DEF TypeOK, Control, ClientsAside, Others, Clients, LeavePlaces, Joined, RecvGarbage
<1>6. CASE RecvDone(w)
  BY <1>6 DEF TypeOK, Control, ClientsAside, Others, Clients, LeavePlaces, Joined, RecvDone
<1>7. CASE SendComplete(w)
  BY <1>7 DEF TypeOK, Control, ClientsAside, Others, Clients, LeavePlaces, Joined, SendComplete
<1>8. CASE Final(w)
  BY <1>8 DEF TypeOK, Control, ClientsAside, Others, Clients, LeavePlaces, Joined, Final
<1> QED BY <1>1, <1>2, <1>3, <1>4, <1>5, <1>6, <1>7, <1>8 DEF Work

(* The same for the actions of the update thread. *)
LEMMA UpdateClients ==
  ASSUME TypeOK, TypeOK', Control, Issued, Ownership, RecvPhase, Clients, Update
  PROVE  ClientsAside(Updater) \/ Clients'
<1>1. CASE CreateNewUser
  BY <1>1, CreateNewUserClients
<1>2. CASE DeleteUser
  BY <1>2, DeleteUserClients
<1>3. CASE TimeOut
  BY <1>3, TakenClients
<1>4. CASE BadMessage
  BY <1>4, TakenClients
<1>5. ASSUME NEW recipients \in SUBSET clients, ChatMessage(recipients)
      PROVE  ClientsAside(Updater) \/ Clients'
  BY <1>5, TakenClients
<1>6. ASSUME NEW i \in Ids, SendNext(i)
      PROVE  ClientsAside(Updater) \/ Clients'
  BY <1>6 DEF TypeOK, Control, ClientsAside, Others, Clients, LeavePlaces, Joined, SendNext
<1> QED BY <1>1, <1>2, <1>3, <1>4, <1>5, <1>6 DEF Update

(* The same for the actions of the monitor thread. *)
LEMMA WatchClients ==
  ASSUME TypeOK, TypeOK', Control, Issued, Ownership, RecvPhase, Clients, Watch
  PROVE  ClientsAside(Monitor)
<1>1. ASSUME NEW s \in Slots, MonUsed(s)
      PROVE  ClientsAside(Monitor)
  BY <1>1 DEF TypeOK, Control, ClientsAside, Others, Clients, LeavePlaces, Joined, MonUsed
<1>2. CASE MonId
  BY <1>2 DEF TypeOK, Control, ClientsAside, Others, Clients, LeavePlaces, Joined, MonId
<1>3. ASSUME NEW late \in BOOLEAN, MonExpire(late)
      PROVE  ClientsAside(Monitor)
  BY <1>3, MonExpireClients
<1> QED BY <1>1, <1>2, <1>3 DEF Watch

(* The same for the actions of the kernel and the clients. *)
LEMMA KernelClients ==
  ASSUME TypeOK, TypeOK', Control, Issued, Ownership, RecvPhase, Clients, Kernel
  PROVE  ClientsAside(Acceptor)
<1>1. ASSUME NEW s \in Slots, NEW how \in Closings, PeerClose(s, how)
      PROVE  ClientsAside(Acceptor)
  BY <1>1 DEF TypeOK, Control, ClientsAside, Others, Clients, LeavePlaces, Joined, PeerClose
<1>2. ASSUME NEW s \in Slots, NEW result \in {"data", "fail", "eof"}, RecvComplete(s, result)
      PROVE  ClientsAside(Acceptor)
  BY <1>2 DEF TypeOK, Control, ClientsAside, Others, Clients, LeavePlaces, Joined, RecvComplete
<1>3. ASSUME NEW s \in Slots, SendDone(s)
      PROVE  ClientsAside(Acceptor)
  BY <1>3 DEF TypeOK, Control, ClientsAside, Others, Clients, LeavePlaces, Joined, SendDone
<1> QED BY <1>1, <1>2, <1>3 DEF Kernel

(* Every step keeps Clients. *)
LEMMA ClientsStep ==
  ASSUME TypeOK, TypeOK', Control, Issued, Ownership, RecvPhase, Clients, [Next]_vars
  PROVE  Clients'
<1>1. CASE Crashes \/ UNCHANGED vars
  <2>1. InOrder(jobs, clients) /\ UNCHANGED <<pc, cur, gone, id, serial, recvIO, jobs, clients>>
    BY <1>1 DEF Clients, Crashes, vars
  <2>2. UNCHANGED <<nxt, op, arg, io>>
    BY <1>1 DEF Crashes, vars
  <2>3. ClientsAside(Acceptor)
    BY <2>1, <2>2 DEF ClientsAside, Others, Joined
  <2> QED BY <2>3, ClientsFrame
<1>2. CASE Kernel
  BY <1>2, KernelClients, ClientsFrame
<1>3. ASSUME NEW t \in Threads, ThreadStep(t)
      PROVE  Clients'
  <2>1. CASE Routine(t) /\ UNCHANGED <<upd, net>>
    BY <2>1, RoutineClients, ClientsFrame
  <2>2. CASE Accept
    BY <2>2, AcceptClients, ClientsFrame
  <2>3. CASE t \in Workers /\ Work(t)
    BY <2>3, WorkClients, ClientsFrame
  <2>4. CASE Update
    BY <2>4, UpdateClients, ClientsFrame
  <2>5. CASE Watch
    BY <2>5, WatchClients, ClientsFrame
  <2> QED BY <1>3, <2>1, <2>2, <2>3, <2>4, <2>5 DEF ThreadStep
<1> QED BY <1>1, <1>2, <1>3 DEF Next

-----------------------------------------------------------------------------
(* The client of a session is in m_ClientMap until its leave, which is on its way. *)
LEMMA NoGhosts ==
  ASSUME TypeOK, Issued, Ownership, Owned, Lifetime, Attendance
  PROVE  NoGhostClient
<1> SUFFICES ASSUME NEW i \in clients
             PROVE  \/ Open(SlotOf(i)) /\ id[SlotOf(i)] = i
                    \/ \E k \in DOMAIN jobs : jobs[k].type = "leave" /\ jobs[k].id = i
                    \/ \E t \in Threads : pc[t] \in {"rel_clear", "rel_push", "rel_leave"} /\ gone[t] = i
                    \/ \E t \in Releasing(SlotOf(i)) : pc[t] = "rel_packets" /\ id[SlotOf(i)] = i
  BY DEF NoGhostClient
<1>1. PICK s \in Slots : s = i[1]
  BY DEF TypeOK, Ids
<1>2. CASE i \in Leaving
  BY <1>2 DEF Leaving, Of
<1>3. CASE \E t \in Threads : pc[t] \in LeavePlaces /\ gone[t] = i
  BY <1>3 DEF LeavePlaces
<1>4. CASE Joined(s) /\ id[s] = i
  <2>1. ~Opening(s) /\ s \notin freeIdx
    BY <1>4 DEF Joined, Opening, Ownership
  <2>2. ~Virgin(s)
    BY <1>4 DEF Joined, Issued
  <2>3. CASE ~released[s]
    BY <1>1, <1>4, <2>1, <2>2, <2>3 DEF Open, Virgin
  <2>4. CASE released[s]
    <3>1. PICK t \in Threads : pc[t] \in ReleasePlaces /\ cur[t] = s
      BY <2>1, <2>4 DEF Owned
    <3>2. pc[t] # "rel_push"
      BY <1>4, <2>4, <3>1 DEF Joined, Ownership, Lifetime
    <3>3. CASE pc[t] = "rel_packets"
      BY <1>1, <1>4, <3>1, <3>3 DEF Releasing
    <3>4. CASE pc[t] = "rel_clear"
      BY <1>4, <3>1, <3>4 DEF Attendance, LeavePlaces
    <3> QED BY <3>1, <3>2, <3>3, <3>4
  <2> QED BY <2>3, <2>4
<1> QED BY <1>1, <1>2, <1>3, <1>4 DEF Attendance, Present

-----------------------------------------------------------------------------
(* Passing a message on leaves the gather arrays alone. *)
LEMMA ChatMessageGather ==
  ASSUME TypeOK, GatherEmpty, NEW recipients \in SUBSET clients, ChatMessage(recipients)
  PROVE  GatherEmpty'
<1>1. UNCHANGED snd
  BY DEF ChatMessage
<1>2. /\ pc'[Updater] \in {"idle", "acq_inc"}
      /\ \A u \in Threads \ {Updater} : pc'[u] = pc[u] /\ cur'[u] = cur[u]
  BY ChatMessageMoves DEF Others
<1> QED BY <1>1, <1>2 DEF GatherEmpty

(* ReleasePacket empties a slot nobody sends on. *)
LEMMA RelPacketsGather ==
  ASSUME TypeOK, Ownership, Lifetime, GatherEmpty, NEW t \in Threads, RelPackets(t)
  PROVE  GatherEmpty'
<1>1. PICK s \in Slots : s = cur[t]
  BY DEF TypeOK
<1>2. /\ pc[t] = "rel_packets" /\ pc'[t] = "rel_clear" /\ \A u \in Threads \ {t} : pc'[u] = pc[u]
      /\ sendQ'[s] = 0 /\ inflight'[s] = 0 /\ first'[s] = IF inflight[s] > 0 THEN "null" ELSE first[s]
      /\ \A r \in Slots \ {s} : sendQ'[r] = sendQ[r] /\ inflight'[r] = inflight[r] /\ first'[r] = first[r]
      /\ UNCHANGED <<cur, sendFlag>>
  BY <1>1 DEF RelPackets, DeQPacket, TypeOK
<1>3. \A u \in Threads : pc[u] \in {"post_inc", "post_deq"} => cur[u] # s
  BY <1>1, <1>2 DEF Ownership, Lifetime, NoUseAfterRelease
<1>4. \A u \in Threads : cur[u] \in Slots
  BY DEF TypeOK
<1>5. first'[s] # "packet"
  BY <1>1, <1>2 DEF GatherEmpty
<1> QED BY <1>1, <1>2, <1>3, <1>4, <1>5 DEF GatherEmpty

(* SendPacket works on a session that is not being released. *)
LEMMA EnQGather ==
  ASSUME TypeOK, Ownership, Lifetime, GatherEmpty, NEW t \in Threads, EnQ(t)
  PROVE  GatherEmpty'
<1>1. PICK s \in Slots : s = cur[t]
  BY DEF TypeOK
<1>2. /\ pc[t] = "enq" /\ pc'[t] = "drop" /\ \A u \in Threads \ {t} : pc'[u] = pc[u]
      /\ sendQ'[s] = sendQ[s] + 1 /\ sendQ[s] \in Nat
      /\ \A r \in Slots \ {s} : sendQ'[r] = sendQ[r]
      /\ UNCHANGED <<cur, sendFlag, inflight, first>>
  BY <1>1 DEF EnQ, TypeOK
<1>3. \A u \in Threads : pc[u] = "rel_clear" => cur[u] # s
  BY <1>1, <1>2 DEF Ownership, Lifetime, NoUseAfterRelease
<1>4. \A u \in Threads : cur[u] \in Slots
  BY DEF TypeOK
<1> QED BY <1>1, <1>2, <1>3, <1>4 DEF GatherEmpty

(* SendPost fills the gather array while the flag is up, as its only user. *)
LEMMA PostDeqGather ==
  ASSUME TypeOK, Ownership, SendPhase, Lifetime, GatherEmpty, NEW t \in Threads, PostDeq(t)
  PROVE  GatherEmpty'
<1>1. PICK s \in Slots : s = cur[t]
  BY DEF TypeOK
<1>2. /\ pc[t] = "post_deq" /\ pc'[t] = "post_cancel" /\ \A u \in Threads \ {t} : pc'[u] = pc[u]
      /\ inflight'[s] > 0
      /\ \A r \in Slots \ {s} : sendQ'[r] = sendQ[r] /\ inflight'[r] = inflight[r] /\ first'[r] = first[r]
      /\ UNCHANGED <<cur, sendFlag>>
  BY <1>1 DEF PostDeq, TypeOK, GatherEmpty
<1>3. sendFlag[s] /\ \A u \in Threads \ {t} : cur[u] = s => pc[u] \notin SendPlaces
  BY <1>1, <1>2 DEF SendPhase
<1>4. \A u \in Threads : pc[u] = "rel_clear" => cur[u] # s
  BY <1>1, <1>2 DEF Ownership, Lifetime, NoUseAfterRelease
<1>5. \A u \in Threads : cur[u] \in Slots
  BY DEF TypeOK
<1> QED BY <1>1, <1>2, <1>3, <1>4, <1>5 DEF GatherEmpty

(* The steps of the routines of NetSession. *)
LEMMA RoutineGather ==
  ASSUME TypeOK, TypeOK', Ownership, SendPhase, Lifetime, GatherEmpty, NEW t \in Threads,
         Routine(t), UNCHANGED <<upd, net>>
  PROVE  GatherEmpty'
<1>1. CASE AcqInc(t)
  BY <1>1 DEF TypeOK, GatherEmpty, AcqInc
<1>2. CASE AcqFlag(t)
  BY <1>2 DEF TypeOK, GatherEmpty, AcqFlag
<1>3. CASE AcqId(t)
  BY <1>3 DEF TypeOK, GatherEmpty, AcqId
<1>4. CASE AcqFail(t)
  BY <1>4 DEF TypeOK, GatherEmpty, AcqFail
<1>5. CASE Drop(t)
  BY <1>5 DEF TypeOK, GatherEmpty, Drop
<1>6. CASE RelCas(t)
  BY <1>6 DEF TypeOK, GatherEmpty, RelCas
<1>7. CASE RelPackets(t)
  BY <1>7, RelPacketsGather
<1>8. CASE RelClear(t)
  BY <1>8 DEF TypeOK, GatherEmpty, RelClear
<1>9. CASE RelPush(t)
  BY <1>9 DEF TypeOK, GatherEmpty, RelPush
<1>10. CASE RelLeave(t)
  BY <1>10 DEF TypeOK, GatherEmpty, RelLeave
<1>11. CASE Cancel(t)
  BY <1>11 DEF TypeOK, GatherEmpty, Cancel
<1>12. CASE EnQ(t)
  BY <1>12, EnQGather
<1>13. CASE Pqcs(t)
  BY <1>13 DEF TypeOK, GatherEmpty, Pqcs
<1>14. CASE Mark(t)
  BY <1>14 DEF TypeOK, GatherEmpty, Mark
<1>15. CASE PostFlag(t)
  BY <1>15 DEF TypeOK, GatherEmpty, PostFlag
<1>16. CASE PostCount(t)
  BY <1>16 DEF TypeOK, GatherEmpty, PostCount
<1>17. CASE PostUnflag(t)
  BY <1>17 DEF TypeOK, GatherEmpty, PostUnflag
<1>18. CASE PostRecheck(t)
  BY <1>18 DEF TypeOK, GatherEmpty, PostRecheck
<1>19. CASE PostInc(t)
  BY <1>19 DEF TypeOK, GatherEmpty, PostInc
<1>20. CASE PostDeq(t)
  BY <1>20, PostDeqGather
<1>21. CASE PostCancel(t)
  BY <1>21 DEF TypeOK, GatherEmpty, PostCancel
<1>22. ASSUME NEW failed \in BOOLEAN, PostSend(t, failed)
      PROVE  GatherEmpty'
  BY <1>22 DEF TypeOK, GatherEmpty, PostSend
<1>23. CASE Drop2(t)
  BY <1>23 DEF TypeOK, GatherEmpty, Drop2
<1>24. CASE RpInc(t)
  BY <1>24 DEF TypeOK, GatherEmpty, RpInc
<1>25. CASE RpCancel(t)
  BY <1>25 DEF TypeOK, GatherEmpty, RpCancel
<1>26. ASSUME NEW failed \in BOOLEAN, RpIssue(t, failed)
      PROVE  GatherEmpty'
  BY <1>26 DEF TypeOK, GatherEmpty, RpIssue
<1>27. CASE RpFail(t)
  BY <1>27 DEF TypeOK, GatherEmpty, RpFail
<1> QED BY <1>1, <1>2, <1>3, <1>4, <1>5, <1>6, <1>7, <1>8, <1>9, <1>10, <1>11, <1>12, <1>13,
     <1>14, <1>15, <1>16, <1>17, <1>18, <1>19, <1>20, <1>21, <1>22, <1>23, <1>24, <1>25, <1>26,
     <1>27 DEF Routine

(* The same for the actions of the accept thread. *)
LEMMA AcceptGather ==
  ASSUME TypeOK, TypeOK', Ownership, SendPhase, Lifetime, GatherEmpty, Accept
  PROVE  GatherEmpty'
<1>1. ASSUME NEW s \in Slots, AccPop(s)
      PROVE  GatherEmpty'
  BY <1>1 DEF TypeOK, GatherEmpty, AccPop
<1>2. CASE AccId
  BY <1>2 DEF TypeOK, GatherEmpty, AccId
<1>3. CASE AccFlag
  BY <1>3 DEF TypeOK, GatherEmpty, AccFlag
<1>4. CASE AccUsed
  BY <1>4 DEF TypeOK, GatherEmpty, AccUsed
<1>5. CASE AccAttachFail
  BY <1>5 DEF TypeOK, GatherEmpty, AccAttachFail
<1>6. CASE AccJoin
  BY <1>6 DEF TypeOK, GatherEmpty, AccJoin
<1>7. ASSUME NEW failed \in BOOLEAN, AccRecv(failed)
      PROVE  GatherEmpty'
  BY <1>7 DEF TypeOK, GatherEmpty, AccRecv
<1>8. CASE AccFail
  BY <1>8 DEF TypeOK, GatherEmpty, AccFail
<1> QED BY <1>1, <1>2, <1>3, <1>4, <1>5, <1>6, <1>7, <1>8 DEF Accept

(* The same for the actions of a worker. *)
LEMMA WorkGather ==
  ASSUME TypeOK, TypeOK', Ownership, SendPhase, Lifetime, GatherEmpty, NEW w \in Workers, Work(w)
  PROVE  GatherEmpty'
<1>1. ASSUME NEW s \in Slots, GetRecv(w, s)
      PROVE  GatherEmpty'
  BY <1>1 DEF TypeOK, GatherEmpty, GetRecv
<1>2. ASSUME NEW s \in Slots, GetSend(w, s)
      PROVE  GatherEmpty'
  BY <1>2 DEF TypeOK, GatherEmpty, GetSend
<1>3. ASSUME NEW i \in Ids, GetPost(w, i)
      PROVE  GatherEmpty'
  BY <1>3 DEF TypeOK, GatherEmpty, GetPost
<1>4. ASSUME NEW kind \in Kinds, RecvMessage(w, kind)
      PROVE  GatherEmpty'
  BY <1>4 DEF TypeOK, GatherEmpty, RecvMessage
<1>5. CASE RecvGarbage(w)
  BY <1>5 DEF TypeOK, GatherEmpty, RecvGarbage
<1>6. CASE RecvDone(w)
  BY <1>6 DEF TypeOK, GatherEmpty, RecvDone
<1>7. CASE SendComplete(w)
  BY <1>7, SMTT(40) DEF TypeOK, GatherEmpty, SendComplete, DeQPacket
<1>8. CASE Final(w)
  BY <1>8 DEF TypeOK, GatherEmpty, Final
<1> QED BY <1>1, <1>2, <1>3, <1>4, <1>5, <1>6, <1>7, <1>8 DEF Work

(* The same for the actions of the update thread. *)
LEMMA UpdateGather ==
  ASSUME TypeOK, TypeOK', Ownership, SendPhase, Lifetime, GatherEmpty, Update
  PROVE  GatherEmpty'
<1>1. CASE CreateNewUser
  BY <1>1 DEF TypeOK, GatherEmpty, CreateNewUser
<1>2. CASE DeleteUser
  BY <1>2 DEF TypeOK, GatherEmpty, DeleteUser
<1>3. CASE TimeOut
  BY <1>3 DEF TypeOK, GatherEmpty, TimeOut
<1>4. CASE BadMessage
  BY <1>4 DEF TypeOK, GatherEmpty, BadMessage
<1>5. ASSUME NEW recipients \in SUBSET clients, ChatMessage(recipients)
      PROVE  GatherEmpty'
  BY <1>5, ChatMessageGather
<1>6. ASSUME NEW i \in Ids, SendNext(i)
      PROVE  GatherEmpty'
  BY <1>6 DEF TypeOK, GatherEmpty, SendNext
<1> QED BY <1>1, <1>2, <1>3, <1>4, <1>5, <1>6 DEF Update

(* The same for the actions of the monitor thread. *)
LEMMA WatchGather ==
  ASSUME TypeOK, TypeOK', Ownership, SendPhase, Lifetime, GatherEmpty, Watch
  PROVE  GatherEmpty'
<1>1. ASSUME NEW s \in Slots, MonUsed(s)
      PROVE  GatherEmpty'
  BY <1>1 DEF TypeOK, GatherEmpty, MonUsed
<1>2. CASE MonId
  BY <1>2 DEF TypeOK, GatherEmpty, MonId
<1>3. ASSUME NEW late \in BOOLEAN, MonExpire(late)
      PROVE  GatherEmpty'
  BY <1>3 DEF TypeOK, GatherEmpty, MonExpire
<1> QED BY <1>1, <1>2, <1>3 DEF Watch

(* The same for the actions of the kernel and the clients. *)
LEMMA KernelGather ==
  ASSUME TypeOK, TypeOK', Ownership, SendPhase, Lifetime, GatherEmpty, Kernel
  PROVE  GatherEmpty'
<1>1. ASSUME NEW s \in Slots, NEW how \in Closings, PeerClose(s, how)
      PROVE  GatherEmpty'
  BY <1>1 DEF TypeOK, GatherEmpty, PeerClose
<1>2. ASSUME NEW s \in Slots, NEW result \in {"data", "fail", "eof"}, RecvComplete(s, result)
      PROVE  GatherEmpty'
  BY <1>2 DEF TypeOK, GatherEmpty, RecvComplete
<1>3. ASSUME NEW s \in Slots, SendDone(s)
      PROVE  GatherEmpty'
  BY <1>3 DEF TypeOK, GatherEmpty, SendDone
<1> QED BY <1>1, <1>2, <1>3 DEF Kernel

(* Every step keeps GatherEmpty. *)
LEMMA GatherStep ==
  ASSUME TypeOK, TypeOK', Ownership, SendPhase, Lifetime, GatherEmpty, [Next]_vars
  PROVE  GatherEmpty'
<1>1. CASE Crashes \/ UNCHANGED vars
  BY <1>1 DEF GatherEmpty, Crashes, vars
<1>2. CASE Kernel
  BY <1>2, KernelGather
<1>3. ASSUME NEW t \in Threads, ThreadStep(t)
      PROVE  GatherEmpty'
  BY <1>3, RoutineGather, AcceptGather, WorkGather, UpdateGather, WatchGather DEF ThreadStep
<1> QED BY <1>1, <1>2, <1>3 DEF Next

-----------------------------------------------------------------------------
(* RpFail: the worker has the count of its completion and the one of RecvPost. *)
LEMMA TwoCountsRecv ==
  ASSUME TypeOK, Control, RefCount, NEW t \in Threads, pc[t] = "rp_fail"
  PROVE  ioCount[cur[t]] > 1
<1>1. PICK s \in Slots : s = cur[t]
  BY DEF TypeOK
<1>2. io[t]
  BY DEF Control
<1>3. /\ Holders(s) \in SUBSET Threads /\ LogHolders(s) \in SUBSET Threads /\ Completing(s) \in SUBSET Threads
      /\ t \in Holders(s) /\ t \in Completing(s)
  BY <1>1, <1>2 DEF Holders, LogHolders, Completing, HoldPlaces
<1>4. Cardinality(Holders(s)) \in Nat /\ Cardinality(Holders(s)) > 0
  <2>1. /\ Cardinality(Holders(s) \ {t}) \in Nat
        /\ Cardinality(Holders(s)) = Cardinality(Holders(s) \ {t}) + (IF t \in Holders(s) THEN 1 ELSE 0)
    BY <1>3, MemberCount
  <2> QED BY <1>3, <2>1
<1>5. Cardinality(Completing(s)) \in Nat /\ Cardinality(Completing(s)) > 0
  <2>1. /\ Cardinality(Completing(s) \ {t}) \in Nat
        /\ Cardinality(Completing(s)) = Cardinality(Completing(s) \ {t}) + (IF t \in Completing(s) THEN 1 ELSE 0)
    BY <1>3, MemberCount
  <2> QED BY <1>3, <2>1
<1>6. Cardinality(LogHolders(s)) \in Nat
  BY <1>3, MemberCount
<1>7. Overlapped(s) \in Nat
  BY DEF Overlapped
<1>8. ioCount[s] = Cardinality(Holders(s)) + Cardinality(LogHolders(s)) + Cardinality(Completing(s)) + Overlapped(s)
  BY <1>1 DEF RefCount
<1> QED BY <1>1, <1>4, <1>5, <1>6, <1>7, <1>8

(* None of the checks of the server's own bookkeeping fails. *)
LEMMA ChecksPass ==
  ASSUME TypeOK, Control, Ownership, Clients, GatherEmpty, RefCount
  PROVE  /\ \A t \in Threads : ~Fails(t, "count") /\ ~Fails(t, "send") /\ ~Fails(t, "recv")
         /\ ~MissingClient
<1>1. ASSUME NEW t \in Threads
      PROVE  ~Fails(t, "count") /\ ~Fails(t, "send") /\ ~Fails(t, "recv")
  <2>1. PICK s \in Slots : s = cur[t]
    BY DEF TypeOK
  <2>2. pc[t] \in HoldPlaces \/ io[t] => ioCount[s] # 0
    BY <2>1, NoCountNoUse
  <2>3. ~Fails(t, "count")
    BY <2>1, <2>2 DEF Fails, ZeroCount, HoldPlaces, Control, Ownership
  <2>4. ~Fails(t, "send")
    BY <2>1 DEF Fails, GatherEmpty, TypeOK
  <2>5. ~Fails(t, "recv")
    BY TwoCountsRecv DEF Fails
  <2> QED BY <2>3, <2>4, <2>5
<1>2. ~MissingClient
  <2>1. jobs \in Seq(Job) /\ InOrder(jobs, clients)
    BY DEF TypeOK, Clients
  <2> QED BY <2>1, OrderTail DEF MissingClient
<1> QED BY <1>1, <1>2

(* A crash is the step that makes crash differ. *)
LEMMA CrashSteps ==
  ASSUME [Next]_vars, crash' # crash
  PROVE  Crashes
<1>1. ASSUME NEW t \in Threads, Routine(t)
      PROVE  crash' = crash
  BY <1>1 DEF Routine, AcqInc, AcqFlag, AcqId, AcqFail, Drop, RelCas, RelPackets, RelClear, RelPush, RelLeave,
       Cancel, EnQ, Pqcs, Mark, PostFlag, PostCount, PostUnflag, PostRecheck, PostInc, PostDeq, PostCancel,
       PostSend, Drop2, RpInc, RpCancel, RpIssue, RpFail
<1>2. Accept => crash' = crash
  BY DEF Accept, AccPop, AccId, AccFlag, AccUsed, AccAttachFail, AccJoin, AccRecv, AccFail
<1>3. ASSUME NEW w \in Workers, Work(w)
      PROVE  crash' = crash
  BY <1>3 DEF Work, GetRecv, GetSend, GetPost, RecvMessage, RecvGarbage, RecvDone, SendComplete, Final
<1>4. Update => crash' = crash
  BY DEF Update, CreateNewUser, DeleteUser, TimeOut, BadMessage, ChatMessage, SendNext
<1>5. Watch => crash' = crash
  BY DEF Watch, MonUsed, MonId, MonExpire
<1>6. Kernel => crash' = crash
  BY DEF Kernel, RecvComplete, SendDone, PeerClose, Alive
<1>7. UNCHANGED vars => crash' = crash
  BY DEF vars
<1> QED BY <1>1, <1>2, <1>3, <1>4, <1>5, <1>6, <1>7 DEF Next, ThreadStep

(* Every step keeps NoInternalCrash. *)
LEMMA NoInternalCrashStep ==
  ASSUME TypeOK, Control, Ownership, Clients, GatherEmpty, RefCount, NoInternalCrash, [Next]_vars
  PROVE  NoInternalCrash'
<1>1. CASE crash' = crash
  BY <1>1 DEF NoInternalCrash
<1>2. CASE crash' # crash
  <2>1. Crashes
    BY <1>2, CrashSteps
  <2>2. \E t \in Threads : crash' \in Failing(t)
    BY <2>1, ChecksPass DEF Crashes
  <2>3. PICK t \in Threads : crash' \in Checks /\ Fails(t, crash')
    BY <2>2 DEF Failing
  <2>4. crash' \notin {"count", "send", "recv"}
    BY <2>3, ChecksPass
  <2> QED BY <2>3, <2>4 DEF NoInternalCrash, Checks
<1> QED BY <1>1, <1>2

-----------------------------------------------------------------------------
(* Errands: passing a message on begins a call at the slot it names. *)
LEMMA ChatMessageErrands ==
  ASSUME TypeOK, Errands, NEW recipients \in SUBSET clients, ChatMessage(recipients)
  PROVE  Errands'
<1>1. CASE Head(jobs).kind = "bye"
  <2>1. /\ pc[Updater] = "idle" /\ UNCHANGED nxt
        /\ pc'[Updater] = "acq_inc" /\ arg'[Updater] = Head(jobs).id /\ cur'[Updater] = Head(jobs).id[1]
        /\ \A u \in Threads \ {Updater} : pc'[u] = pc[u] /\ arg'[u] = arg[u] /\ cur'[u] = cur[u]
    BY <1>1 DEF TypeOK, ChatMessage
  <2> QED BY <2>1 DEF Errands
<1>2. CASE Head(jobs).kind # "bye"
  BY <1>2 DEF Errands, ChatMessage
<1> QED BY <1>1, <1>2

(* The steps of the routines of NetSession. *)
LEMMA RoutineErrands ==
  ASSUME TypeOK, TypeOK', Errands, NEW t \in Threads,
         Routine(t), UNCHANGED <<upd, net>>
  PROVE  Errands'
<1>1. CASE AcqInc(t)
  BY <1>1 DEF TypeOK, Errands, AcqInc
<1>2. CASE AcqFlag(t)
  BY <1>2 DEF TypeOK, Errands, AcqFlag
<1>3. CASE AcqId(t)
  BY <1>3 DEF TypeOK, Errands, AcqId
<1>4. CASE AcqFail(t)
  BY <1>4 DEF TypeOK, Errands, AcqFail
<1>5. CASE Drop(t)
  BY <1>5 DEF TypeOK, Errands, Drop
<1>6. CASE RelCas(t)
  BY <1>6 DEF TypeOK, Errands, RelCas
<1>7. CASE RelPackets(t)
  BY <1>7 DEF TypeOK, Errands, RelPackets
<1>8. CASE RelClear(t)
  BY <1>8 DEF TypeOK, Errands, RelClear
<1>9. CASE RelPush(t)
  BY <1>9 DEF TypeOK, Errands, RelPush
<1>10. CASE RelLeave(t)
  BY <1>10 DEF TypeOK, Errands, RelLeave
<1>11. CASE Cancel(t)
  BY <1>11 DEF TypeOK, Errands, Cancel
<1>12. CASE EnQ(t)
  BY <1>12 DEF TypeOK, Errands, EnQ
<1>13. CASE Pqcs(t)
  BY <1>13 DEF TypeOK, Errands, Pqcs
<1>14. CASE Mark(t)
  BY <1>14 DEF TypeOK, Errands, Mark
<1>15. CASE PostFlag(t)
  BY <1>15 DEF TypeOK, Errands, PostFlag
<1>16. CASE PostCount(t)
  BY <1>16 DEF TypeOK, Errands, PostCount
<1>17. CASE PostUnflag(t)
  BY <1>17 DEF TypeOK, Errands, PostUnflag
<1>18. CASE PostRecheck(t)
  BY <1>18 DEF TypeOK, Errands, PostRecheck
<1>19. CASE PostInc(t)
  BY <1>19 DEF TypeOK, Errands, PostInc
<1>20. CASE PostDeq(t)
  BY <1>20 DEF TypeOK, Errands, PostDeq
<1>21. CASE PostCancel(t)
  BY <1>21 DEF TypeOK, Errands, PostCancel
<1>22. ASSUME NEW failed \in BOOLEAN, failed => peer[cur[t]] = "reset", PostSend(t, failed)
      PROVE  Errands'
  BY <1>22 DEF TypeOK, Errands, PostSend
<1>23. CASE Drop2(t)
  BY <1>23 DEF TypeOK, Errands, Drop2
<1>24. CASE RpInc(t)
  BY <1>24 DEF TypeOK, Errands, RpInc
<1>25. CASE RpCancel(t)
  BY <1>25 DEF TypeOK, Errands, RpCancel
<1>26. ASSUME NEW failed \in BOOLEAN, failed => peer[cur[t]] = "reset", RpIssue(t, failed)
      PROVE  Errands'
  BY <1>26 DEF TypeOK, Errands, RpIssue
<1>27. CASE RpFail(t)
  BY <1>27 DEF TypeOK, Errands, RpFail
<1> QED BY <1>1, <1>2, <1>3, <1>4, <1>5, <1>6, <1>7, <1>8, <1>9, <1>10, <1>11, <1>12, <1>13,
     <1>14, <1>15, <1>16, <1>17, <1>18, <1>19, <1>20, <1>21, <1>22, <1>23, <1>24, <1>25, <1>26,
     <1>27 DEF Routine

(* The same for the actions of the accept thread. *)
LEMMA AcceptErrands ==
  ASSUME TypeOK, TypeOK', Errands, Accept
  PROVE  Errands'
<1>1. ASSUME NEW s \in Slots, AccPop(s)
      PROVE  Errands'
  BY <1>1 DEF TypeOK, Errands, AccPop
<1>2. CASE AccId
  BY <1>2 DEF TypeOK, Errands, AccId
<1>3. CASE AccFlag
  BY <1>3 DEF TypeOK, Errands, AccFlag
<1>4. CASE AccUsed
  BY <1>4 DEF TypeOK, Errands, AccUsed
<1>5. CASE AccAttachFail
  BY <1>5 DEF TypeOK, Errands, AccAttachFail
<1>6. CASE AccJoin
  BY <1>6 DEF TypeOK, Errands, AccJoin
<1>7. ASSUME NEW failed \in BOOLEAN, AccRecv(failed)
      PROVE  Errands'
  BY <1>7 DEF TypeOK, Errands, AccRecv
<1>8. CASE AccFail
  BY <1>8 DEF TypeOK, Errands, AccFail
<1> QED BY <1>1, <1>2, <1>3, <1>4, <1>5, <1>6, <1>7, <1>8 DEF Accept

(* The same for the actions of a worker. *)
LEMMA WorkErrands ==
  ASSUME TypeOK, TypeOK', Errands, NEW w \in Workers, Work(w)
  PROVE  Errands'
<1>1. ASSUME NEW s \in Slots, GetRecv(w, s)
      PROVE  Errands'
  BY <1>1 DEF TypeOK, Errands, GetRecv
<1>2. ASSUME NEW s \in Slots, GetSend(w, s)
      PROVE  Errands'
  BY <1>2 DEF TypeOK, Errands, GetSend
<1>3. ASSUME NEW i \in Ids, GetPost(w, i)
      PROVE  Errands'
  BY <1>3 DEF TypeOK, Errands, GetPost
<1>4. ASSUME NEW kind \in Kinds, RecvMessage(w, kind)
      PROVE  Errands'
  BY <1>4 DEF TypeOK, Errands, RecvMessage
<1>5. CASE RecvGarbage(w)
  BY <1>5 DEF TypeOK, Errands, RecvGarbage
<1>6. CASE RecvDone(w)
  BY <1>6 DEF TypeOK, Errands, RecvDone
<1>7. CASE SendComplete(w)
  BY <1>7 DEF TypeOK, Errands, SendComplete
<1>8. CASE Final(w)
  BY <1>8 DEF TypeOK, Errands, Final
<1> QED BY <1>1, <1>2, <1>3, <1>4, <1>5, <1>6, <1>7, <1>8 DEF Work

(* The same for the actions of the update thread. *)
LEMMA UpdateErrands ==
  ASSUME TypeOK, TypeOK', Errands, Update
  PROVE  Errands'
<1>1. CASE CreateNewUser
  BY <1>1 DEF TypeOK, Errands, CreateNewUser
<1>2. CASE DeleteUser
  BY <1>2 DEF TypeOK, Errands, DeleteUser
<1>3. CASE TimeOut
  BY <1>3 DEF TypeOK, Errands, TimeOut
<1>4. CASE BadMessage
  BY <1>4 DEF TypeOK, Errands, BadMessage
<1>5. ASSUME NEW recipients \in SUBSET clients, ChatMessage(recipients)
      PROVE  Errands'
  BY <1>5, ChatMessageErrands
<1>6. ASSUME NEW i \in Ids, SendNext(i)
      PROVE  Errands'
  BY <1>6 DEF TypeOK, Errands, SendNext
<1> QED BY <1>1, <1>2, <1>3, <1>4, <1>5, <1>6 DEF Update

(* The same for the actions of the monitor thread. *)
LEMMA WatchErrands ==
  ASSUME TypeOK, TypeOK', Errands, Watch
  PROVE  Errands'
<1>1. ASSUME NEW s \in Slots, MonUsed(s)
      PROVE  Errands'
  BY <1>1 DEF TypeOK, Errands, MonUsed
<1>2. CASE MonId
  BY <1>2 DEF TypeOK, Errands, MonId
<1>3. ASSUME NEW late \in BOOLEAN, MonExpire(late)
      PROVE  Errands'
  BY <1>3 DEF TypeOK, Errands, MonExpire
<1> QED BY <1>1, <1>2, <1>3 DEF Watch

(* The same for the actions of the kernel and the clients. *)
LEMMA KernelErrands ==
  ASSUME TypeOK, TypeOK', Errands, Kernel
  PROVE  Errands'
<1>1. ASSUME NEW s \in Slots, NEW how \in Closings, PeerClose(s, how)
      PROVE  Errands'
  BY <1>1 DEF TypeOK, Errands, PeerClose
<1>2. ASSUME NEW s \in Slots, NEW result \in {"data", "fail", "eof"}, RecvComplete(s, result)
      PROVE  Errands'
  BY <1>2 DEF TypeOK, Errands, RecvComplete
<1>3. ASSUME NEW s \in Slots, SendDone(s)
      PROVE  Errands'
  BY <1>3 DEF TypeOK, Errands, SendDone
<1> QED BY <1>1, <1>2, <1>3 DEF Kernel

(* SendsFail: on a slot that is given to the next client no send is outstanding. *)
LEMMA AccPopFails ==
  ASSUME TypeOK, Issued, Ownership, Lifetime, SendsFail, NEW s \in Slots, AccPop(s)
  PROVE  SendsFail'
<1>1. /\ s \in freeIdx /\ UNCHANGED <<sendIO, cancel>> /\ \A r \in Slots \ {s} : peer'[r] = peer[r]
  BY DEF AccPop, TypeOK
<1>2. sendIO[s] = "none"
  BY <1>1 DEF Ownership, Issued, Lifetime, NoIOAcrossRelease
<1> QED BY <1>1, <1>2 DEF SendsFail, Dead

(* The steps of the routines of NetSession. *)
LEMMA RoutineFails ==
  ASSUME TypeOK, TypeOK', Issued, Ownership, Lifetime, SendsFail, NEW t \in Threads,
         Routine(t), UNCHANGED <<upd, net>>
  PROVE  SendsFail'
<1>1. CASE AcqInc(t)
  BY <1>1 DEF TypeOK, SendsFail, Dead, AcqInc
<1>2. CASE AcqFlag(t)
  BY <1>2 DEF TypeOK, SendsFail, Dead, AcqFlag
<1>3. CASE AcqId(t)
  BY <1>3 DEF TypeOK, SendsFail, Dead, AcqId
<1>4. CASE AcqFail(t)
  BY <1>4 DEF TypeOK, SendsFail, Dead, AcqFail
<1>5. CASE Drop(t)
  BY <1>5 DEF TypeOK, SendsFail, Dead, Drop
<1>6. CASE RelCas(t)
  BY <1>6 DEF TypeOK, SendsFail, Dead, RelCas
<1>7. CASE RelPackets(t)
  BY <1>7 DEF TypeOK, SendsFail, Dead, RelPackets
<1>8. CASE RelClear(t)
  BY <1>8 DEF TypeOK, SendsFail, Dead, RelClear, Ownership, Lifetime, NoIOAcrossRelease
<1>9. CASE RelPush(t)
  BY <1>9 DEF TypeOK, SendsFail, Dead, RelPush
<1>10. CASE RelLeave(t)
  BY <1>10 DEF TypeOK, SendsFail, Dead, RelLeave
<1>11. CASE Cancel(t)
  BY <1>11 DEF TypeOK, SendsFail, Dead, Cancel
<1>12. CASE EnQ(t)
  BY <1>12 DEF TypeOK, SendsFail, Dead, EnQ
<1>13. CASE Pqcs(t)
  BY <1>13 DEF TypeOK, SendsFail, Dead, Pqcs
<1>14. CASE Mark(t)
  BY <1>14 DEF TypeOK, SendsFail, Dead, Mark
<1>15. CASE PostFlag(t)
  BY <1>15 DEF TypeOK, SendsFail, Dead, PostFlag
<1>16. CASE PostCount(t)
  BY <1>16 DEF TypeOK, SendsFail, Dead, PostCount
<1>17. CASE PostUnflag(t)
  BY <1>17 DEF TypeOK, SendsFail, Dead, PostUnflag
<1>18. CASE PostRecheck(t)
  BY <1>18 DEF TypeOK, SendsFail, Dead, PostRecheck
<1>19. CASE PostInc(t)
  BY <1>19 DEF TypeOK, SendsFail, Dead, PostInc
<1>20. CASE PostDeq(t)
  BY <1>20 DEF TypeOK, SendsFail, Dead, PostDeq
<1>21. CASE PostCancel(t)
  BY <1>21 DEF TypeOK, SendsFail, Dead, PostCancel
<1>22. ASSUME NEW failed \in BOOLEAN, failed => peer[cur[t]] = "reset", PostSend(t, failed)
      PROVE  SendsFail'
  BY <1>22 DEF TypeOK, SendsFail, Dead, PostSend
<1>23. CASE Drop2(t)
  BY <1>23 DEF TypeOK, SendsFail, Dead, Drop2
<1>24. CASE RpInc(t)
  BY <1>24 DEF TypeOK, SendsFail, Dead, RpInc
<1>25. CASE RpCancel(t)
  BY <1>25 DEF TypeOK, SendsFail, Dead, RpCancel
<1>26. ASSUME NEW failed \in BOOLEAN, failed => peer[cur[t]] = "reset", RpIssue(t, failed)
      PROVE  SendsFail'
  BY <1>26 DEF TypeOK, SendsFail, Dead, RpIssue
<1>27. CASE RpFail(t)
  BY <1>27 DEF TypeOK, SendsFail, Dead, RpFail
<1> QED BY <1>1, <1>2, <1>3, <1>4, <1>5, <1>6, <1>7, <1>8, <1>9, <1>10, <1>11, <1>12, <1>13,
     <1>14, <1>15, <1>16, <1>17, <1>18, <1>19, <1>20, <1>21, <1>22, <1>23, <1>24, <1>25, <1>26,
     <1>27 DEF Routine

(* The same for the actions of the accept thread. *)
LEMMA AcceptFails ==
  ASSUME TypeOK, TypeOK', Issued, Ownership, Lifetime, SendsFail, Accept
  PROVE  SendsFail'
<1>1. ASSUME NEW s \in Slots, AccPop(s)
      PROVE  SendsFail'
  BY <1>1, AccPopFails
<1>2. CASE AccId
  BY <1>2 DEF TypeOK, SendsFail, Dead, AccId
<1>3. CASE AccFlag
  BY <1>3 DEF TypeOK, SendsFail, Dead, AccFlag
<1>4. CASE AccUsed
  BY <1>4 DEF TypeOK, SendsFail, Dead, AccUsed
<1>5. CASE AccAttachFail
  BY <1>5 DEF TypeOK, SendsFail, Dead, AccAttachFail
<1>6. CASE AccJoin
  BY <1>6 DEF TypeOK, SendsFail, Dead, AccJoin
<1>7. ASSUME NEW failed \in BOOLEAN, AccRecv(failed)
      PROVE  SendsFail'
  BY <1>7 DEF TypeOK, SendsFail, Dead, AccRecv
<1>8. CASE AccFail
  BY <1>8 DEF TypeOK, SendsFail, Dead, AccFail
<1> QED BY <1>1, <1>2, <1>3, <1>4, <1>5, <1>6, <1>7, <1>8 DEF Accept

(* The same for the actions of a worker. *)
LEMMA WorkFails ==
  ASSUME TypeOK, TypeOK', Issued, Ownership, Lifetime, SendsFail, NEW w \in Workers, Work(w)
  PROVE  SendsFail'
<1>1. ASSUME NEW s \in Slots, GetRecv(w, s)
      PROVE  SendsFail'
  BY <1>1 DEF TypeOK, SendsFail, Dead, GetRecv
<1>2. ASSUME NEW s \in Slots, GetSend(w, s)
      PROVE  SendsFail'
  BY <1>2 DEF TypeOK, SendsFail, Dead, GetSend
<1>3. ASSUME NEW i \in Ids, GetPost(w, i)
      PROVE  SendsFail'
  BY <1>3 DEF TypeOK, SendsFail, Dead, GetPost
<1>4. ASSUME NEW kind \in Kinds, RecvMessage(w, kind)
      PROVE  SendsFail'
  BY <1>4 DEF TypeOK, SendsFail, Dead, RecvMessage
<1>5. CASE RecvGarbage(w)
  BY <1>5 DEF TypeOK, SendsFail, Dead, RecvGarbage
<1>6. CASE RecvDone(w)
  BY <1>6 DEF TypeOK, SendsFail, Dead, RecvDone
<1>7. CASE SendComplete(w)
  BY <1>7 DEF TypeOK, SendsFail, Dead, SendComplete
<1>8. CASE Final(w)
  BY <1>8 DEF TypeOK, SendsFail, Dead, Final
<1> QED BY <1>1, <1>2, <1>3, <1>4, <1>5, <1>6, <1>7, <1>8 DEF Work

(* The same for the actions of the update thread. *)
LEMMA UpdateFails ==
  ASSUME TypeOK, TypeOK', Issued, Ownership, Lifetime, SendsFail, Update
  PROVE  SendsFail'
<1>1. CASE CreateNewUser
  BY <1>1 DEF TypeOK, SendsFail, Dead, CreateNewUser
<1>2. CASE DeleteUser
  BY <1>2 DEF TypeOK, SendsFail, Dead, DeleteUser
<1>3. CASE TimeOut
  BY <1>3 DEF TypeOK, SendsFail, Dead, TimeOut
<1>4. CASE BadMessage
  BY <1>4 DEF TypeOK, SendsFail, Dead, BadMessage
<1>5. ASSUME NEW recipients \in SUBSET clients, ChatMessage(recipients)
      PROVE  SendsFail'
  BY <1>5 DEF TypeOK, SendsFail, Dead, ChatMessage
<1>6. ASSUME NEW i \in Ids, SendNext(i)
      PROVE  SendsFail'
  BY <1>6 DEF TypeOK, SendsFail, Dead, SendNext
<1> QED BY <1>1, <1>2, <1>3, <1>4, <1>5, <1>6 DEF Update

(* The same for the actions of the monitor thread. *)
LEMMA WatchFails ==
  ASSUME TypeOK, TypeOK', Issued, Ownership, Lifetime, SendsFail, Watch
  PROVE  SendsFail'
<1>1. ASSUME NEW s \in Slots, MonUsed(s)
      PROVE  SendsFail'
  BY <1>1 DEF TypeOK, SendsFail, Dead, MonUsed
<1>2. CASE MonId
  BY <1>2 DEF TypeOK, SendsFail, Dead, MonId
<1>3. ASSUME NEW late \in BOOLEAN, MonExpire(late)
      PROVE  SendsFail'
  BY <1>3 DEF TypeOK, SendsFail, Dead, MonExpire
<1> QED BY <1>1, <1>2, <1>3 DEF Watch

(* The same for the actions of the kernel and the clients. *)
LEMMA KernelFails ==
  ASSUME TypeOK, TypeOK', Issued, Ownership, Lifetime, SendsFail, Kernel
  PROVE  SendsFail'
<1>1. ASSUME NEW s \in Slots, NEW how \in Closings, PeerClose(s, how)
      PROVE  SendsFail'
  BY <1>1 DEF TypeOK, SendsFail, Dead, PeerClose
<1>2. ASSUME NEW s \in Slots, NEW result \in {"data", "fail", "eof"}, RecvComplete(s, result)
      PROVE  SendsFail'
  BY <1>2 DEF TypeOK, SendsFail, Dead, RecvComplete
<1>3. ASSUME NEW s \in Slots, SendDone(s)
      PROVE  SendsFail'
  BY <1>3 DEF TypeOK, SendsFail, Dead, SendDone
<1> QED BY <1>1, <1>2, <1>3 DEF Kernel

-----------------------------------------------------------------------------
(* Shelved: SendPost and SendPacket work on slots that are open, *)
LEMMA UsedSlot ==
  ASSUME TypeOK, Issued, Ownership, Lifetime, Known, NEW t \in Threads, pc[t] \in UsePlaces
  PROVE  /\ cur[t] \in Slots /\ cur[t] \notin freeIdx
         /\ \A u \in Threads : pc[u] \in ReleasePlaces => cur[u] # cur[t]
         /\ pc[Acceptor] \in OpenPlaces => cur[Acceptor] # cur[t]
<1>1. PICK s \in Slots : s = cur[t]
  BY DEF TypeOK
<1>2. ~released[s] /\ ~Virgin(s) /\ ~Opening(s)
  <2>1. ~released[s] /\ id[s] = arg[t]
    BY <1>1 DEF Lifetime, NoUseAfterRelease
  <2>2. id[s][1] = s
    BY DEF Issued
  <2>3. ~Unopened(s)
    BY <2>1, <2>2 DEF Known
  <2> QED BY <2>1, <2>3 DEF Unopened
<1> QED BY <1>1, <1>2 DEF Ownership, Opening

(* so that the flag comes up, *)
LEMMA PostFlagShelved ==
  ASSUME TypeOK, Issued, Ownership, Lifetime, Known, Shelved, NEW t \in Threads, PostFlag(t)
  PROVE  Shelved'
<1>1. PICK s \in Slots : s = cur[t]
  BY DEF TypeOK
<1>2. /\ pc[t] = "post_flag" /\ pc'[t] \in {"drop", "post_count"} /\ \A u \in Threads \ {t} : pc'[u] = pc[u]
      /\ \A r \in Slots \ {s} : sendFlag'[r] = sendFlag[r]
      /\ UNCHANGED <<cur, sendQ, freeIdx>>
  BY <1>1 DEF PostFlag, TypeOK
<1>3. s \notin freeIdx /\ \A u \in Threads : pc[u] \in ReleasePlaces => cur[u] # s
  BY <1>1, <1>2, UsedSlot
<1>4. freeIdx \subseteq Slots /\ \A u \in Threads : cur[u] \in Slots
  BY DEF TypeOK
<1> QED BY <1>2, <1>3, <1>4 DEF Shelved

(* and packets are added, on such slots only. *)
LEMMA EnQShelved ==
  ASSUME TypeOK, Issued, Ownership, Lifetime, Known, Shelved, NEW t \in Threads, EnQ(t)
  PROVE  Shelved'
<1>1. PICK s \in Slots : s = cur[t]
  BY DEF TypeOK
<1>2. /\ pc[t] = "enq" /\ pc'[t] = "drop" /\ \A u \in Threads \ {t} : pc'[u] = pc[u]
      /\ \A r \in Slots \ {s} : sendQ'[r] = sendQ[r]
      /\ UNCHANGED <<cur, sendFlag, freeIdx>>
  BY <1>1 DEF EnQ, TypeOK
<1>3. /\ s \notin freeIdx /\ \A u \in Threads : pc[u] \in ReleasePlaces => cur[u] # s
      /\ pc[Acceptor] \in OpenPlaces => cur[Acceptor] # s
  BY <1>1, <1>2, UsedSlot
<1>4. freeIdx \subseteq Slots /\ \A u \in Threads : cur[u] \in Slots
  BY DEF TypeOK
<1> QED BY <1>2, <1>3, <1>4 DEF Shelved

(* SessionClear takes the flag down, of a slot whose queue has been emptied. *)
LEMMA RelClearShelved ==
  ASSUME TypeOK, GatherEmpty, Shelved, NEW t \in Threads, RelClear(t)
  PROVE  Shelved'
<1>1. PICK s \in Slots : s = cur[t]
  BY DEF TypeOK
<1>2. /\ pc[t] = "rel_clear" /\ pc'[t] = "rel_push" /\ \A u \in Threads \ {t} : pc'[u] = pc[u]
      /\ ~sendFlag'[s] /\ \A r \in Slots \ {s} : sendFlag'[r] = sendFlag[r]
      /\ UNCHANGED <<cur, sendQ, freeIdx>>
  BY <1>1 DEF RelClear, TypeOK
<1>3. sendQ[s] = 0
  BY <1>1, <1>2 DEF GatherEmpty
<1>4. freeIdx \subseteq Slots /\ \A u \in Threads : cur[u] \in Slots
  BY DEF TypeOK
<1>5. t = Acceptor \/ pc'[Acceptor] = pc[Acceptor]
  BY <1>2
<1> QED BY <1>1, <1>2, <1>3, <1>4, <1>5 DEF Shelved

LEMMA ChatMessageShelved ==
  ASSUME TypeOK, Shelved, NEW recipients \in SUBSET clients, ChatMessage(recipients)
  PROVE  Shelved'
<1>1. UNCHANGED <<sendFlag, sendQ, freeIdx>>
  BY DEF ChatMessage
<1>2. pc'[Updater] \in {"idle", "acq_inc"} /\ \A u \in Threads \ {Updater} : pc'[u] = pc[u] /\ cur'[u] = cur[u]
  BY ChatMessageMoves DEF Others
<1> QED BY <1>1, <1>2 DEF Shelved

(* The steps of the routines of NetSession. *)
LEMMA RoutineShelved ==
  ASSUME TypeOK, TypeOK', Issued, Ownership, Owned, Lifetime, Known, GatherEmpty, Shelved, NEW t \in Threads,
         Routine(t), UNCHANGED <<upd, net>>
  PROVE  Shelved'
<1>1. CASE AcqInc(t)
  BY <1>1 DEF TypeOK, Shelved, AcqInc
<1>2. CASE AcqFlag(t)
  BY <1>2 DEF TypeOK, Shelved, AcqFlag
<1>3. CASE AcqId(t)
  BY <1>3 DEF TypeOK, Shelved, AcqId
<1>4. CASE AcqFail(t)
  BY <1>4 DEF TypeOK, Shelved, AcqFail
<1>5. CASE Drop(t)
  BY <1>5 DEF TypeOK, Shelved, Drop
<1>6. CASE RelCas(t)
  BY <1>6 DEF TypeOK, Shelved, RelCas
<1>7. CASE RelPackets(t)
  BY <1>7 DEF TypeOK, Shelved, RelPackets
<1>8. CASE RelClear(t)
  BY <1>8, RelClearShelved
<1>9. CASE RelPush(t)
  BY <1>9 DEF TypeOK, Shelved, RelPush
<1>10. CASE RelLeave(t)
  BY <1>10 DEF TypeOK, Shelved, RelLeave
<1>11. CASE Cancel(t)
  BY <1>11 DEF TypeOK, Shelved, Cancel
<1>12. CASE EnQ(t)
  BY <1>12, EnQShelved
<1>13. CASE Pqcs(t)
  BY <1>13 DEF TypeOK, Shelved, Pqcs
<1>14. CASE Mark(t)
  BY <1>14 DEF TypeOK, Shelved, Mark
<1>15. CASE PostFlag(t)
  BY <1>15, PostFlagShelved
<1>16. CASE PostCount(t)
  BY <1>16 DEF TypeOK, Shelved, PostCount
<1>17. CASE PostUnflag(t)
  BY <1>17 DEF TypeOK, Shelved, PostUnflag
<1>18. CASE PostRecheck(t)
  BY <1>18 DEF TypeOK, Shelved, PostRecheck
<1>19. CASE PostInc(t)
  BY <1>19 DEF TypeOK, Shelved, PostInc
<1>20. CASE PostDeq(t)
  BY <1>20 DEF TypeOK, Shelved, PostDeq
<1>21. CASE PostCancel(t)
  BY <1>21 DEF TypeOK, Shelved, PostCancel
<1>22. ASSUME NEW failed \in BOOLEAN, failed => peer[cur[t]] = "reset", PostSend(t, failed)
      PROVE  Shelved'
  BY <1>22 DEF TypeOK, Shelved, PostSend
<1>23. CASE Drop2(t)
  BY <1>23 DEF TypeOK, Shelved, Drop2
<1>24. CASE RpInc(t)
  BY <1>24 DEF TypeOK, Shelved, RpInc
<1>25. CASE RpCancel(t)
  BY <1>25 DEF TypeOK, Shelved, RpCancel
<1>26. ASSUME NEW failed \in BOOLEAN, failed => peer[cur[t]] = "reset", RpIssue(t, failed)
      PROVE  Shelved'
  BY <1>26 DEF TypeOK, Shelved, RpIssue
<1>27. CASE RpFail(t)
  BY <1>27 DEF TypeOK, Shelved, RpFail
<1> QED BY <1>1, <1>2, <1>3, <1>4, <1>5, <1>6, <1>7, <1>8, <1>9, <1>10, <1>11, <1>12, <1>13,
     <1>14, <1>15, <1>16, <1>17, <1>18, <1>19, <1>20, <1>21, <1>22, <1>23, <1>24, <1>25, <1>26,
     <1>27 DEF Routine

(* The same for the actions of the accept thread. *)
LEMMA AcceptShelved ==
  ASSUME TypeOK, TypeOK', Issued, Ownership, Owned, Lifetime, Known, GatherEmpty, Shelved, Accept
  PROVE  Shelved'
<1>1. ASSUME NEW s \in Slots, AccPop(s)
      PROVE  Shelved'
  BY <1>1 DEF TypeOK, Shelved, AccPop
<1>2. CASE AccId
  BY <1>2 DEF TypeOK, Shelved, AccId
<1>3. CASE AccFlag
  BY <1>3 DEF TypeOK, Shelved, AccFlag
<1>4. CASE AccUsed
  BY <1>4 DEF TypeOK, Shelved, AccUsed
<1>5. CASE AccAttachFail
  BY <1>5 DEF TypeOK, Shelved, AccAttachFail
<1>6. CASE AccJoin
  BY <1>6 DEF TypeOK, Shelved, AccJoin
<1>7. ASSUME NEW failed \in BOOLEAN, AccRecv(failed)
      PROVE  Shelved'
  BY <1>7 DEF TypeOK, Shelved, AccRecv
<1>8. CASE AccFail
  BY <1>8 DEF TypeOK, Shelved, AccFail
<1> QED BY <1>1, <1>2, <1>3, <1>4, <1>5, <1>6, <1>7, <1>8 DEF Accept

(* The same for the actions of a worker. *)
LEMMA WorkShelved ==
  ASSUME TypeOK, TypeOK', Issued, Ownership, Owned, Lifetime, Known, GatherEmpty, Shelved, NEW w \in Workers, Work(w)
  PROVE  Shelved'
<1>1. ASSUME NEW s \in Slots, GetRecv(w, s)
      PROVE  Shelved'
  BY <1>1 DEF TypeOK, Shelved, GetRecv
<1>2. ASSUME NEW s \in Slots, GetSend(w, s)
      PROVE  Shelved'
  BY <1>2 DEF TypeOK, Shelved, GetSend
<1>3. ASSUME NEW i \in Ids, GetPost(w, i)
      PROVE  Shelved'
  BY <1>3 DEF TypeOK, Shelved, GetPost
<1>4. ASSUME NEW kind \in Kinds, RecvMessage(w, kind)
      PROVE  Shelved'
  BY <1>4 DEF TypeOK, Shelved, RecvMessage
<1>5. CASE RecvGarbage(w)
  BY <1>5 DEF TypeOK, Shelved, RecvGarbage
<1>6. CASE RecvDone(w)
  BY <1>6 DEF TypeOK, Shelved, RecvDone
<1>7. CASE SendComplete(w)
  BY <1>7 DEF TypeOK, Shelved, SendComplete
<1>8. CASE Final(w)
  BY <1>8 DEF TypeOK, Shelved, Final
<1> QED BY <1>1, <1>2, <1>3, <1>4, <1>5, <1>6, <1>7, <1>8 DEF Work

(* The same for the actions of the update thread. *)
LEMMA UpdateShelved ==
  ASSUME TypeOK, TypeOK', Issued, Ownership, Owned, Lifetime, Known, GatherEmpty, Shelved, Update
  PROVE  Shelved'
<1>1. CASE CreateNewUser
  BY <1>1 DEF TypeOK, Shelved, CreateNewUser
<1>2. CASE DeleteUser
  BY <1>2 DEF TypeOK, Shelved, DeleteUser
<1>3. CASE TimeOut
  BY <1>3 DEF TypeOK, Shelved, TimeOut
<1>4. CASE BadMessage
  BY <1>4 DEF TypeOK, Shelved, BadMessage
<1>5. ASSUME NEW recipients \in SUBSET clients, ChatMessage(recipients)
      PROVE  Shelved'
  BY <1>5, ChatMessageShelved
<1>6. ASSUME NEW i \in Ids, SendNext(i)
      PROVE  Shelved'
  BY <1>6 DEF TypeOK, Shelved, SendNext
<1> QED BY <1>1, <1>2, <1>3, <1>4, <1>5, <1>6 DEF Update

(* The same for the actions of the monitor thread. *)
LEMMA WatchShelved ==
  ASSUME TypeOK, TypeOK', Issued, Ownership, Owned, Lifetime, Known, GatherEmpty, Shelved, Watch
  PROVE  Shelved'
<1>1. ASSUME NEW s \in Slots, MonUsed(s)
      PROVE  Shelved'
  BY <1>1 DEF TypeOK, Shelved, MonUsed
<1>2. CASE MonId
  BY <1>2 DEF TypeOK, Shelved, MonId
<1>3. ASSUME NEW late \in BOOLEAN, MonExpire(late)
      PROVE  Shelved'
  BY <1>3 DEF TypeOK, Shelved, MonExpire
<1> QED BY <1>1, <1>2, <1>3 DEF Watch

(* The same for the actions of the kernel and the clients. *)
LEMMA KernelShelved ==
  ASSUME TypeOK, TypeOK', Issued, Ownership, Owned, Lifetime, Known, GatherEmpty, Shelved, Kernel
  PROVE  Shelved'
<1>1. ASSUME NEW s \in Slots, NEW how \in Closings, PeerClose(s, how)
      PROVE  Shelved'
  BY <1>1 DEF TypeOK, Shelved, PeerClose
<1>2. ASSUME NEW s \in Slots, NEW result \in {"data", "fail", "eof"}, RecvComplete(s, result)
      PROVE  Shelved'
  BY <1>2 DEF TypeOK, Shelved, RecvComplete
<1>3. ASSUME NEW s \in Slots, SendDone(s)
      PROVE  Shelved'
  BY <1>3 DEF TypeOK, Shelved, SendDone
<1> QED BY <1>1, <1>2, <1>3 DEF Kernel
=============================================================================
