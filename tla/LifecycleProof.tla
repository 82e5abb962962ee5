--------------------------- MODULE LifecycleProof ---------------------------
(***************************************************************************)
(* That a stop and a restart of the server keep what they promise, for any *)
(* number of slots, workers, runs, sessions and messages.                  *)
(* IInv adds to the three invariants where main is when the array and the  *)
(* stack exist and who can still run then (Staged), that session IDs only  *)
(* grow and that a session a worker has cleared is never acquired again    *)
(* (Dated), that an index is in one place as long as none has strayed      *)
(* (Single), that the leave of a client comes after its join (Departs),    *)
(* and what a stop with nothing left to do leaves behind (Calm).           *)
(***************************************************************************)
EXTENDS Lifecycle, FiniteSetTheorems, TLAPS

Ids == Slots \X Nat

Jobs == [type : {"join", "leave", "chat", "="}, id : Ids, run : Nat]

Sessions == [used : BOOLEAN, id : Ids \cup {<<>>}, closed : BOOLEAN, open : BOOLEAN,
             announced : BOOLEAN, recv : {"none", "pending", "failed", "chat", "="}]

\* where main is while the array exists, while only the stack does, and without both
Running == {"on", "awaitAccept", "awaitMonitor", "disconnect", "spin"}
Deleting == {"post", "deleteStack"}
Stopped == {"off", "start", "awaitUpdate", "deleteServer", "deleted", "exited"}

\* where a worker is from the clearing of _USED to the leave job
Leaving == {"clear", "push", "leave"}

TypeOK ==
    /\ main \in Running \cup Deleting \cup Stopped /\ run \in Nat /\ quiet \in BOOLEAN
    /\ listening \in BOOLEAN /\ accept \in {"none", "accept", "pop"}
    /\ monitor \in {"none", "wait", "scan"} /\ monitorEvent \in BOOLEAN
    /\ array \in Nat /\ slot \in [Slots -> Sessions] /\ stack \in Nat /\ free \in [Slots -> Nat]
    /\ pc \in [Workers -> {"none", "port"} \cup Leaving]
    /\ at \in [Workers -> [run : Nat, id : Ids \cup {<<>>}]]
    /\ posts \subseteq Ids /\ exits \in [1 .. MaxRuns -> Nat]
    /\ jobs \in Seq(Jobs) /\ jobEvent \in BOOLEAN /\ stopEvent \in BOOLEAN
    /\ update \in {"none", "wait", "drain"} /\ clients \subseteq Ids
    /\ serial \in Nat /\ sent \in Nat /\ strayed \in BOOLEAN
    /\ crash \in {"none", "unannounced", "unknown", "deleted"}

(* A session in use has an ID of its slot, and only such a one has a receive. *)
Slotted ==
    \A s \in Slots :
        /\ slot[s].used => slot[s].id \in Ids /\ SlotOf(slot[s].id) = s
        /\ slot[s].recv # "none" => slot[s].used

(* What exists, and who runs, at each place of main. *)
Staged ==
    /\ main \in Running => array = run
    /\ main \in Running \cup Deleting => stack = run /\ run # 0
    /\ main \notin Running => array = 0 /\ \A s \in Slots : ~slot[s].used
    /\ main \in Stopped => stack = 0
    /\ accept # "none" => main \in {"on", "awaitAccept"}
    /\ monitor # "none" => main \in {"on", "awaitAccept", "awaitMonitor"}
    /\ \A w \in Workers : at[w].run <= run

(* The sessions there are, and those a worker is about to put a leave for. *)
Live == {slot[s].id : s \in {r \in Slots : slot[r].used}}

Going == {at[w].id : w \in {v \in Workers : pc[v] \in Leaving}}

(* No ID is newer than m_SessionID, a session that was cleared is not found   *)
(* again, and neither is one of an old run.                                 *)
Dated ==
    /\ Going \subseteq Ids \ Live
    /\ \A i \in Live \cup Going : i[2] <= serial
    /\ \A k \in DOMAIN jobs :
          jobs[k].id[2] <= serial /\ (jobs[k].run # run => jobs[k].id \notin Live)

(* The worker has taken an index of the stack there is, and not put it back. *)
Returning(w) == pc[w] \in {"clear", "push"} /\ at[w].run = stack

(* An index is in the stack once, with a session, or with a worker. *)
Single ==
    ~strayed =>
        /\ \A s \in Slots : free[s] <= 1 /\ (slot[s].used => free[s] = 0)
        /\ stack # 0 =>
              /\ \A w \in Workers : Returning(w) =>
                    free[SlotOf(at[w].id)] = 0 /\ ~slot[SlotOf(at[w].id)].used
              /\ \A v, w \in Workers : Returning(v) /\ Returning(w)
                    /\ SlotOf(at[v].id) = SlotOf(at[w].id) => v = w

(* The leave of a client is in the queue. *)
Left(i) == \E k \in DOMAIN jobs : jobs[k].type = "leave" /\ jobs[k].id = i

(* A client whose session is gone leaves, and its leave comes after its join. *)
Departs ==
    ~strayed =>
        /\ \A i \in clients : i \in Live \cup Going \/ Left(i)
        /\ \A k \in DOMAIN jobs : jobs[k].type = "join" =>
              \/ jobs[k].id \in Live \cup Going
              \/ \E l \in DOMAIN jobs : l > k /\ jobs[l].type = "leave" /\ jobs[l].id = jobs[k].id

(* What the stops with nothing left to do have left behind. *)
Calm ==
    quiet =>
        /\ ~strayed /\ crash # "deleted"
        /\ \A w \in Workers : pc[w] \in Leaving => array # 0 /\ at[w].run = run
        /\ array = 0 => posts = {} /\ jobs = <<>> /\ update # "drain" /\ ~jobEvent

IInv == TypeOK /\ Slotted /\ Staged /\ Dated /\ Single /\ Departs /\ Calm

USE DEF mainVars, netVars, tableVars, workVars, contentVars, restVars, Alive, Leaving, SlotOf

-----------------------------------------------------------------------------
(* What an entry of the queue is after it has grown, *)
LEMMA Appended ==
  ASSUME NEW q \in Seq(Jobs), NEW e \in Jobs
  PROVE  /\ Append(q, e) \in Seq(Jobs)
         /\ DOMAIN q = 1 .. Len(q) /\ Len(q) \in Nat
         /\ DOMAIN Append(q, e) = 1 .. Len(q) + 1 /\ Append(q, e)[Len(q) + 1] = e
         /\ \A i \in DOMAIN q : i \in DOMAIN Append(q, e) /\ Append(q, e)[i] = q[i]
         /\ \A i \in DOMAIN Append(q, e) : i \in DOMAIN q \/ i = Len(q) + 1
OBVIOUS

(* and after its head has been taken. *)
LEMMA Taken ==
  ASSUME NEW q \in Seq(Jobs), q # <<>>
  PROVE  /\ Tail(q) \in Seq(Jobs) /\ Head(q) \in Jobs /\ 1 \in DOMAIN q /\ Head(q) = q[1]
         /\ \A i \in DOMAIN Tail(q) : i \in Nat /\ i + 1 \in DOMAIN q /\ Tail(q)[i] = q[i + 1]
         /\ \A i \in DOMAIN q : i \in Nat /\ (i # 1 => i - 1 \in DOMAIN Tail(q) /\ Tail(q)[i - 1] = q[i])
OBVIOUS

LEMMA CountOfWorkers == WorkerCount \in Nat
BY LifecycleAssumption, FS_CardinalityType

(* A job that is put into the queue. *)
LEMMA EnqueueType ==
  ASSUME TypeOK, NEW type \in {"join", "leave", "chat", "="}, NEW i \in Ids, NEW r \in Nat, Enqueue(type, i, r)
  PROVE  jobs' \in Seq(Jobs) /\ jobEvent' \in BOOLEAN
BY Appended DEF TypeOK, Enqueue, Jobs

(* A number that changes. *)
LEMMA NumberChanged ==
  ASSUME NEW D, NEW f \in [D -> Nat], NEW r, NEW v, r \in D => v \in Nat
  PROVE  [f EXCEPT ![r] = v] \in [D -> Nat]
OBVIOUS

(* A slot that changes. *)
LEMMA SlotChanged ==
  ASSUME slot \in [Slots -> Sessions], Slotted, NEW s \in Slots, NEW r \in Sessions,
         r.used => r.id \in Ids /\ r.id[1] = s, r.recv # "none" => r.used,
         slot' = [slot EXCEPT ![s] = r]
  PROVE  slot' \in [Slots -> Sessions] /\ Slotted'
BY DEF Slotted

(* Every step keeps the types, and the sessions in use with their slots. *)
LEMMA TypeStep ==
  ASSUME TypeOK, Slotted, Staged, Dated, [Next]_vars
  PROVE  TypeOK' /\ Slotted'
<1> USE CountOfWorkers
<1>1. CASE StartContent
  BY <1>1 DEF TypeOK, Slotted, StartContent, Running, Deleting, Stopped
<1>2. CASE ServerStart
  <2>1. PICK flag \in [Slots -> FreshCloseFlags] : slot' = [s \in Slots |-> [NoSession EXCEPT !.closed = flag[s]]]
    BY <1>2 DEF ServerStart, ServerStartFrom
  <2>2. \A s \in Slots : flag[s] \in BOOLEAN
    BY LifecycleAssumption
  <2>3. slot' \in [Slots -> Sessions] /\ Slotted'
    BY <2>1, <2>2 DEF Slotted, NoSession, Sessions
  <2>4. run' \in Nat /\ [Nowhere EXCEPT !.run = run'] \in [run : Nat, id : Ids \cup {<<>>}]
    BY <1>2 DEF ServerStart, ServerStartFrom, Nowhere, TypeOK
  <2>5. /\ at' \in [Workers -> [run : Nat, id : Ids \cup {<<>>}]]
        /\ pc' \in [Workers -> {"none", "port"} \cup Leaving]
    <3>1. PICK names \in SUBSET Workers :
             /\ pc' = [w \in Workers |-> IF w \in names THEN "port" ELSE pc[w]]
             /\ at' = [w \in Workers |-> IF w \in names THEN [Nowhere EXCEPT !.run = run'] ELSE at[w]]
      BY <1>2 DEF ServerStart, ServerStartFrom
    <3>2. /\ pc \in [Workers -> {"none", "port"} \cup Leaving]
          /\ at \in [Workers -> [run : Nat, id : Ids \cup {<<>>}]]
      BY DEF TypeOK
    <3> QED BY <2>4, <3>1, <3>2
  <2> QED BY <1>2, <2>3, <2>4, <2>5 DEF TypeOK, ServerStart, ServerStartFrom, Running
<1>3. CASE StopListening
  BY <1>3, ZenonT(60) DEF TypeOK, Slotted, StopListening, Running, Deleting, Stopped
<1>33. CASE QuitStopped
  BY <1>33 DEF TypeOK, Slotted, QuitStopped, Running, Deleting, Stopped
<1>4. CASE AwaitAccept
  BY <1>4, SMTT(40) DEF TypeOK, Slotted, AwaitAccept, Running, Deleting, Stopped
<1>5. CASE AwaitMonitor
  BY <1>5, SMTT(40) DEF TypeOK, Slotted, AwaitMonitor, Running, Deleting, Stopped
<1>6. CASE DisconnectAll
  <2>1. ASSUME NEW s \in Slots
        PROVE  /\ slot'[s] \in Sessions /\ slot'[s].used = slot[s].used /\ slot'[s].id = slot[s].id
               /\ slot'[s].recv # "none" => slot[s].recv # "none"
    <3>1. slot[s] \in Sessions
      BY DEF TypeOK
    <3>2. slot'[s] = slot[s] \/ slot'[s] = SocketReleased(slot[s])
      BY <1>6 DEF DisconnectAll
    <3> QED BY <3>1, <3>2, ZenonT(60) DEF SocketReleased, Sessions
  <2>2. slot' \in [Slots -> Sessions]
    BY <1>6, <2>1 DEF DisconnectAll
  <2>3. Slotted'
    BY <2>1 DEF Slotted
  <2> QED BY <1>6, <2>2, <2>3 DEF TypeOK, DisconnectAll, Running
<1>7. CASE DeleteArray
  BY <1>7 DEF TypeOK, Slotted, DeleteArray, Running, Deleting, Stopped
<1>8. CASE PostExits
  <2>1. exits' \in [1 .. MaxRuns -> Nat]
    <3>1. exits' = [exits EXCEPT ![run] = exits[run] + WorkerCount]
      BY <1>8 DEF PostExits
    <3>2. exits \in [1 .. MaxRuns -> Nat]
      BY DEF TypeOK
    <3>3. run \in 1 .. MaxRuns => exits[run] \in Nat
      BY <3>2
    <3>4. run \in 1 .. MaxRuns => exits[run] + WorkerCount \in Nat
      BY <3>3, CountOfWorkers
    <3> QED BY <3>1, <3>2, <3>4, NumberChanged
  <2> QED BY <1>8, <2>1 DEF TypeOK, Slotted, PostExits, Deleting
<1>9. CASE DeleteStack
  <2>1. stopEvent' \in BOOLEAN /\ main' \in Stopped
    BY <1>9 DEF TypeOK, DeleteStack, Stopped
  <2> QED BY <1>9, <2>1 DEF TypeOK, Slotted, DeleteStack
<1>10. CASE AwaitUpdate
  BY <1>10 DEF TypeOK, Slotted, AwaitUpdate, Running, Deleting, Stopped
<1>11. CASE DeleteServer
  BY <1>11 DEF TypeOK, Slotted, DeleteServer, Running, Deleting, Stopped
<1>12. CASE Return
  BY <1>12 DEF TypeOK, Slotted, Return, Running, Deleting, Stopped
<1>13. CASE AcceptSocket
  BY <1>13 DEF TypeOK, Slotted, AcceptSocket
<1>14. CASE AcceptEnds
  BY <1>14 DEF TypeOK, Slotted, AcceptEnds
<1>15. ASSUME NEW s \in Slots, AcceptUser(s)
      PROVE  TypeOK' /\ Slotted'
  <2> DEFINE new == <<s, serial + 1>>
             r == [slot[s] EXCEPT !.used = TRUE, !.id = new, !.open = TRUE, !.recv = "pending"]
  <2>1. new \in Ids /\ new[1] = s
    BY DEF TypeOK, Ids
  <2>2. slot' = [slot EXCEPT ![s] = r]
    BY <1>15 DEF AcceptUser
  <2>3. slot' \in [Slots -> Sessions] /\ Slotted'
    <3> HIDE DEF new
    <3>1. slot \in [Slots -> Sessions] /\ slot[s] \in Sessions
      BY DEF TypeOK
    <3>2. r \in Sessions /\ r.used /\ r.id = new
      BY <2>1, <3>1 DEF Sessions
    <3> HIDE DEF r
    <3> QED BY <2>1, <2>2, <3>1, <3>2, SlotChanged
  <2>4. Enqueue("join", new, run)
    BY <1>15 DEF AcceptUser
  <2>5. jobs' \in Seq(Jobs) /\ jobEvent' \in BOOLEAN
    BY <2>1, <2>4, EnqueueType DEF TypeOK
  <2> QED BY <1>15, <2>3, <2>5 DEF TypeOK, AcceptUser
<1>16. CASE MonitorWakes
  BY <1>16 DEF TypeOK, Slotted, MonitorWakes
<1>17. CASE MonitorScans
  BY <1>17 DEF TypeOK, Slotted, MonitorScans
<1>18. ASSUME NEW s \in Slots, NEW kind \in {"chat", "="}, Send(s, kind)
      PROVE  TypeOK' /\ Slotted'
  <2> DEFINE r == [slot[s] EXCEPT !.recv = kind]
  <2>1. r \in Sessions /\ r.used = slot[s].used /\ r.id = slot[s].id
    BY DEF TypeOK, Sessions
  <2>2. slot' = [slot EXCEPT ![s] = r] /\ slot[s].recv = "pending"
    BY <1>18 DEF Send
  <2>3. slot' \in [Slots -> Sessions] /\ Slotted'
    BY <2>1, <2>2, SlotChanged DEF TypeOK, Slotted
  <2> QED BY <1>18, <2>3 DEF TypeOK, Send
<1>19. ASSUME NEW s \in Slots, Reset(s)
      PROVE  TypeOK' /\ Slotted'
  <2> DEFINE r == [slot[s] EXCEPT !.recv = "failed"]
  <2>1. r \in Sessions /\ r.used = slot[s].used /\ r.id = slot[s].id
    BY DEF TypeOK, Sessions
  <2>2. slot' = [slot EXCEPT ![s] = r] /\ slot[s].recv = "pending"
    BY <1>19 DEF Reset
  <2>3. slot' \in [Slots -> Sessions] /\ Slotted'
    BY <2>1, <2>2, SlotChanged DEF TypeOK, Slotted
  <2> QED BY <1>19, <2>3 DEF TypeOK, Reset
<1>20. ASSUME NEW w \in Workers, GetExit(w)
      PROVE  TypeOK' /\ Slotted'
  <2>1. exits' \in [1 .. MaxRuns -> Nat]
    <3>1. exits' = [exits EXCEPT ![at[w].run] = exits[at[w].run] - 1] /\ exits[at[w].run] > 0
      BY <1>20 DEF GetExit
    <3>2. /\ exits \in [1 .. MaxRuns -> Nat]
          /\ at[w].run \in 1 .. MaxRuns => exits[at[w].run] - 1 \in Nat
      BY <3>1 DEF TypeOK
    <3> QED BY <3>1, <3>2, NumberChanged
  <2>2. pc' \in [Workers -> {"none", "port"} \cup Leaving]
    BY <1>20 DEF TypeOK, GetExit
  <2> QED BY <1>20, <2>1, <2>2 DEF TypeOK, Slotted, GetExit
<1>21. ASSUME NEW w \in Workers, NEW s \in Slots, GetData(w, s)
      PROVE  TypeOK' /\ Slotted'
  <2> DEFINE r == [slot[s] EXCEPT !.recv = IF slot[s].open THEN "pending" ELSE "failed"]
  <2>1. r \in Sessions /\ r.used = slot[s].used /\ r.id = slot[s].id
    BY DEF TypeOK, Sessions
  <2>2. slot' = [slot EXCEPT ![s] = r] /\ slot[s].recv \in {"chat", "="} /\ Enqueue(slot[s].recv, slot[s].id, run)
    BY <1>21 DEF GetData
  <2>3. slot' \in [Slots -> Sessions] /\ Slotted'
    BY <2>1, <2>2, SlotChanged DEF TypeOK, Slotted
  <2>4. jobs' \in Seq(Jobs) /\ jobEvent' \in BOOLEAN
    BY <2>2, EnqueueType, SMTT(40) DEF TypeOK, Slotted
  <2> QED BY <1>21, <2>3, <2>4 DEF TypeOK, GetData
<1>22. ASSUME NEW w \in Workers, NEW s \in Slots, GetFailure(w, s)
      PROVE  TypeOK' /\ Slotted'
  <2>1. CASE slot[s].announced
    <3> DEFINE r == [NoSession EXCEPT !.id = slot[s].id]
    <3>1. r \in Sessions /\ ~r.used /\ r.recv = "none"
      BY DEF TypeOK, Sessions, NoSession
    <3>2. slot' = [slot EXCEPT ![s] = r]
      BY <1>22, <2>1 DEF GetFailure
    <3>3. slot' \in [Slots -> Sessions] /\ Slotted'
      BY <3>1, <3>2, SlotChanged DEF TypeOK
    <3>4. [run |-> run, id |-> slot[s].id] \in [run : Nat, id : Ids \cup {<<>>}]
      BY DEF TypeOK, Sessions
    <3>5. /\ pc' \in [Workers -> {"none", "port"} \cup Leaving]
          /\ at' \in [Workers -> [run : Nat, id : Ids \cup {<<>>}]]
      <4>1. /\ pc \in [Workers -> {"none", "port"} \cup Leaving]
            /\ at \in [Workers -> [run : Nat, id : Ids \cup {<<>>}]]
        BY DEF TypeOK
      <4>2. /\ pc' = [pc EXCEPT ![w] = "clear"]
            /\ at' = [at EXCEPT ![w] = [run |-> run, id |-> slot[s].id]]
        BY <1>22, <2>1 DEF GetFailure
      <4> QED BY <3>4, <4>1, <4>2
    <3> QED BY <1>22, <2>1, <3>3, <3>5 DEF TypeOK, GetFailure
  <2>2. CASE ~slot[s].announced
    BY <1>22, <2>2 DEF TypeOK, Slotted, GetFailure
  <2> QED BY <2>1, <2>2
<1>23. ASSUME NEW w \in Workers, Clear(w)
      PROVE  TypeOK' /\ Slotted'
  BY <1>23 DEF TypeOK, Slotted, Clear
<1>24. ASSUME NEW w \in Workers, Push(w)
      PROVE  TypeOK' /\ Slotted'
  <2>1. at[w].id \in Ids
    BY <1>24 DEF Push, Dated, Going
  <2> QED BY <1>24, <2>1 DEF TypeOK, Slotted, Push, Ids
<1>25. ASSUME NEW w \in Workers, OnClientLeave(w)
      PROVE  TypeOK' /\ Slotted'
  <2>1. at[w].id \in Ids /\ at[w].run \in Nat
    BY <1>25 DEF TypeOK, OnClientLeave, Dated, Going
  <2>2. jobs' \in Seq(Jobs) /\ jobEvent' \in BOOLEAN
    BY <1>25, <2>1, EnqueueType DEF OnClientLeave
  <2> QED BY <1>25, <2>2 DEF TypeOK, Slotted, OnClientLeave, ToPort, Nowhere
<1>26. ASSUME NEW w \in Workers, NEW i \in posts, GetPost(w, i)
      PROVE  TypeOK' /\ Slotted'
  BY <1>26, SMTT(40) DEF TypeOK, Slotted, GetPost
<1>27. CASE Wake
  BY <1>27, ZenonT(60) DEF TypeOK, Slotted, Wake
<1>28. CASE Drained
  BY <1>28, SMTT(40) DEF TypeOK, Slotted, Drained
<1>29. CASE JoinOrLeave
  <2>1. Head(jobs) \in Jobs /\ jobs' \in Seq(Jobs)
    BY <1>29, Taken DEF TypeOK, JoinOrLeave
  <2>2. clients' \subseteq Ids
    BY <1>29, <2>1 DEF TypeOK, JoinOrLeave, Jobs
  <2> QED BY <1>29, <2>1, <2>2 DEF TypeOK, Slotted, JoinOrLeave
<1>30. CASE Message
  <2>1. Head(jobs) \in Jobs /\ jobs' \in Seq(Jobs)
    BY <1>30, Taken DEF TypeOK, Message
  <2>2. PICK i \in Ids : i = Head(jobs).id
    BY <2>1 DEF Jobs
  <2>3. CASE Acquired(i)
    <3> DEFINE s == i[1]
               r == [slot[s] EXCEPT !.announced = slot[s].announced \/ Head(jobs).type = "="]
    <3>1. s \in Slots /\ slot[s] \in Sessions
      BY DEF TypeOK, Ids
    <3>2. r \in Sessions /\ r.used = slot[s].used /\ r.id = slot[s].id /\ r.recv = slot[s].recv
      BY <3>1 DEF Sessions
    <3>3. slot' = [slot EXCEPT ![s] = r] /\ posts' = posts \cup {i}
      BY <1>30, <2>2, <2>3 DEF Message
    <3>4. slot' \in [Slots -> Sessions] /\ Slotted'
      <4> HIDE DEF s, r
      <4> QED BY <3>1, <3>2, <3>3, SlotChanged DEF TypeOK, Slotted
    <3> QED BY <1>30, <2>1, <3>3, <3>4 DEF TypeOK, Message
  <2>4. CASE ~Acquired(i)
    BY <1>30, <2>1, <2>2, <2>4 DEF TypeOK, Slotted, Message
  <2> QED BY <2>3, <2>4
<1>31. CASE Touch
  BY <1>31 DEF TypeOK, Slotted, Touch
<1>32. CASE UNCHANGED vars
  BY <1>32 DEF TypeOK, Slotted, vars
<1> QED BY <1>1, <1>2, <1>3, <1>4, <1>5, <1>6, <1>7, <1>8, <1>9, <1>10, <1>11, <1>12, <1>13, <1>14, <1>15, <1>16, <1>17, <1>18, <1>19, <1>20, <1>21, <1>22, <1>23, <1>24, <1>25, <1>26, <1>27, <1>28, <1>29, <1>30, <1>31, <1>32, <1>33 DEF Next, Main, Accept, Work, Update

-----------------------------------------------------------------------------
(* A step that begins and ends no session, and takes no job; one of a client *)
(* may be added.                                                            *)
Aside ==
    /\ \A s \in Slots : (slot'[s].used <=> slot[s].used) /\ (slot[s].used => slot'[s].id = slot[s].id)
    /\ \A w \in Workers :
          /\ pc'[w] \in Leaving <=> pc[w] \in Leaving
          /\ pc[w] \in Leaving => at'[w] = at[w]
    /\ serial' = serial /\ clients' = clients /\ (strayed => strayed')
    /\ run' = run \/ (run' = run + 1 /\ \A s \in Slots : ~slot[s].used)
    /\ \/ jobs' = jobs
       \/ \E s \in Slots, kind \in {"chat", "="} :
             /\ slot[s].used
             /\ jobs' = Append(jobs, [type |-> kind, id |-> slot[s].id, run |-> run])

(* The other steps. *)
Turn ==
    \/ \E s \in Slots : AcceptUser(s)
    \/ \E w \in Workers, s \in Slots : GetFailure(w, s) /\ slot[s].announced
    \/ \E w \in Workers : OnClientLeave(w)
    \/ JoinOrLeave
    \/ Message

LEMMA AsideOrTurn ==
  ASSUME TypeOK, Slotted, Staged, [Next]_vars
  PROVE  Aside \/ Turn
<1>1. CASE StartContent
  BY <1>1 DEF Aside, TypeOK, StartContent
<1>2. CASE ServerStart
  <2>1. \A s \in Slots : ~slot[s].used /\ ~slot'[s].used
    BY <1>2 DEF ServerStart, ServerStartFrom, Staged, Running, NoSession
  <2>2. PICK names \in SUBSET {w \in Workers : pc[w] = "none"} :
           /\ pc' = [w \in Workers |-> IF w \in names THEN "port" ELSE pc[w]]
           /\ at' = [w \in Workers |-> IF w \in names THEN [Nowhere EXCEPT !.run = run'] ELSE at[w]]
    BY <1>2 DEF ServerStart, ServerStartFrom
  <2>3. \A w \in Workers :
          /\ pc'[w] \in Leaving <=> pc[w] \in Leaving
          /\ pc[w] \in Leaving => at'[w] = at[w]
    BY <2>2
  <2>4. run' = run + 1 /\ serial' = serial /\ clients' = clients /\ jobs' = jobs
    BY <1>2 DEF ServerStart, ServerStartFrom
  <2>5. strayed => strayed'
    BY <1>2 DEF TypeOK, ServerStart, ServerStartFrom
  <2> QED BY <2>1, <2>3, <2>4, <2>5 DEF Aside
<1>3. CASE StopListening
  BY <1>3 DEF Aside, TypeOK, StopListening
<1>33. CASE QuitStopped
  BY <1>33 DEF Aside, TypeOK, QuitStopped
<1>4. CASE AwaitAccept
  BY <1>4 DEF Aside, TypeOK, AwaitAccept
<1>5. CASE AwaitMonitor
  BY <1>5 DEF Aside, TypeOK, AwaitMonitor
<1>6. CASE DisconnectAll
  BY <1>6 DEF Aside, TypeOK, DisconnectAll, SocketReleased, Sessions
<1>7. CASE DeleteArray
  BY <1>7 DEF Aside, TypeOK, DeleteArray
<1>8. CASE PostExits
  BY <1>8 DEF Aside, TypeOK, PostExits
<1>9. CASE DeleteStack
  BY <1>9 DEF Aside, TypeOK, DeleteStack
<1>10. CASE AwaitUpdate
  BY <1>10 DEF Aside, TypeOK, AwaitUpdate
<1>11. CASE DeleteServer
  BY <1>11 DEF Aside, TypeOK, DeleteServer
<1>12. CASE Return
  BY <1>12 DEF Aside, TypeOK, Return
<1>13. CASE AcceptSocket
  BY <1>13 DEF Aside, TypeOK, AcceptSocket
<1>14. CASE AcceptEnds
  BY <1>14 DEF Aside, TypeOK, AcceptEnds
<1>15. ASSUME NEW s \in Slots, AcceptUser(s)
      PROVE  Aside \/ Turn
  BY <1>15 DEF Turn
<1>16. CASE MonitorWakes
  BY <1>16 DEF Aside, TypeOK, MonitorWakes
<1>17. CASE MonitorScans
  BY <1>17 DEF Aside, TypeOK, MonitorScans
<1>18. ASSUME NEW s \in Slots, NEW kind \in {"chat", "="}, Send(s, kind)
      PROVE  Aside \/ Turn
  BY <1>18 DEF Aside, TypeOK, Send, Sessions
<1>19. ASSUME NEW s \in Slots, Reset(s)
      PROVE  Aside \/ Turn
  BY <1>19 DEF Aside, TypeOK, Reset, Sessions
<1>20. ASSUME NEW w \in Workers, GetExit(w)
      PROVE  Aside \/ Turn
  BY <1>20 DEF Aside, TypeOK, GetExit
<1>21. ASSUME NEW w \in Workers, NEW s \in Slots, GetData(w, s)
      PROVE  Aside \/ Turn
  BY <1>21 DEF Aside, TypeOK, GetData, Sessions, Enqueue, Slotted
<1>22. ASSUME NEW w \in Workers, NEW s \in Slots, GetFailure(w, s)
      PROVE  Aside \/ Turn
  <2>1. CASE slot[s].announced
    BY <1>22, <2>1 DEF Turn
  <2>2. CASE ~slot[s].announced
    BY <1>22, <2>2 DEF Aside, TypeOK, GetFailure
  <2> QED BY <2>1, <2>2
<1>23. ASSUME NEW w \in Workers, Clear(w)
      PROVE  Aside \/ Turn
  BY <1>23 DEF Aside, TypeOK, Clear
<1>24. ASSUME NEW w \in Workers, Push(w)
      PROVE  Aside \/ Turn
  BY <1>24 DEF Aside, TypeOK, Push
<1>25. ASSUME NEW w \in Workers, OnClientLeave(w)
      PROVE  Aside \/ Turn
  BY <1>25 DEF Turn
<1>26. ASSUME NEW w \in Workers, NEW i \in posts, GetPost(w, i)
      PROVE  Aside \/ Turn
  BY <1>26 DEF Aside, TypeOK, GetPost
<1>27. CASE Wake
  BY <1>27 DEF Aside, TypeOK, Wake
<1>28. CASE Drained
  BY <1>28 DEF Aside, TypeOK, Drained
<1>29. CASE JoinOrLeave
  BY <1>29 DEF Turn
<1>30. CASE Message
  BY <1>30 DEF Turn
<1>31. CASE Touch
  BY <1>31 DEF Aside, TypeOK, Touch
<1>32. CASE UNCHANGED vars
  BY <1>32 DEF Aside, TypeOK, vars
<1> QED BY <1>1, <1>2, <1>3, <1>4, <1>5, <1>6, <1>7, <1>8, <1>9, <1>10, <1>11, <1>12, <1>13, <1>14, <1>15, <1>16, <1>17, <1>18, <1>19, <1>20, <1>21, <1>22, <1>23, <1>24, <1>25, <1>26, <1>27, <1>28, <1>29, <1>30, <1>31, <1>32, <1>33 DEF Next, Main, Accept, Work, Update

-----------------------------------------------------------------------------
(* A message leaves the sessions as they are, *)
LEMMA MessageKeeps ==
  ASSUME TypeOK, Message
  PROVE  \A s \in Slots : (slot'[s].used <=> slot[s].used) /\ slot'[s].id = slot[s].id
<1> DEFINE i == Head(jobs).id
<1>1. CASE Acquired(i)
  <2>1. slot' = [slot EXCEPT ![i[1]] = [slot[i[1]] EXCEPT !.announced = slot[i[1]].announced \/ Head(jobs).type = "="]]
    BY <1>1 DEF Message
  <2>2. ASSUME NEW s \in Slots
        PROVE  (slot'[s].used <=> slot[s].used) /\ slot'[s].id = slot[s].id
    <3>1. slot[s] \in Sessions
      BY DEF TypeOK
    <3>2. \/ slot'[s] = slot[s]
          \/ slot'[s] = [slot[s] EXCEPT !.announced = slot[s].announced \/ Head(jobs).type = "="]
      BY <2>1 DEF TypeOK
    <3> QED BY <3>1, <3>2 DEF Sessions
  <2> QED BY <2>2
<1>2. CASE ~Acquired(i)
  BY <1>2 DEF Message
<1> QED BY <1>1, <1>2

(* and a failed receive ends one. *)
LEMMA FailureEnds ==
  ASSUME TypeOK, NEW w \in Workers, NEW s \in Slots, GetFailure(w, s), slot[s].announced
  PROVE  /\ ~slot'[s].used /\ \A r \in Slots \ {s} : slot'[r] = slot[r]
         /\ pc'[w] = "clear" /\ at'[w].run = run /\ at'[w].id = slot[s].id /\ pc[w] = "port"
         /\ \A v \in Workers \ {w} : pc'[v] = pc[v] /\ at'[v] = at[v]
<1>1. /\ slot' = [slot EXCEPT ![s] = [NoSession EXCEPT !.id = slot[s].id]]
      /\ pc' = [pc EXCEPT ![w] = "clear"] /\ at' = [at EXCEPT ![w] = [run |-> run, id |-> slot[s].id]]
      /\ pc[w] = "port"
  BY DEF GetFailure, AtLivePort
<1>2. slot \in [Slots -> Sessions] /\ DOMAIN pc = Workers /\ DOMAIN at = Workers
  BY DEF TypeOK
<1> QED BY <1>1, <1>2 DEF NoSession

-----------------------------------------------------------------------------
(* The steps of the workers, of the update thread and of the clients. *)
Rest ==
    \/ \E w \in Workers : Work(w)
    \/ \E s \in Slots : Reset(s) \/ \E kind \in {"chat", "="} : Send(s, kind)
    \/ Update \/ Touch \/ UNCHANGED vars

(* They change none of the things that main waits for, creates and deletes, *)
(* and open no session.                                                     *)
Kept ==
    /\ UNCHANGED <<main, run, quiet, listening, accept, monitor, monitorEvent, array, stack>>
    /\ \A s \in Slots : slot'[s].used => slot[s].used /\ slot'[s].id = slot[s].id
    /\ \A w \in Workers : at'[w] = at[w] \/ at'[w].run = run

LEMMA RestStep ==
  ASSUME TypeOK, Slotted, Rest
  PROVE  Kept
<1>1. ASSUME NEW s \in Slots, NEW kind \in {"chat", "="}, Send(s, kind)
      PROVE  Kept
  BY <1>1 DEF TypeOK, Kept, Send, Sessions
<1>2. ASSUME NEW s \in Slots, Reset(s)
      PROVE  Kept
  BY <1>2 DEF TypeOK, Kept, Reset, Sessions
<1>3. ASSUME NEW w \in Workers, GetExit(w)
      PROVE  Kept
  BY <1>3 DEF TypeOK, Kept, GetExit
<1>4. ASSUME NEW w \in Workers, NEW s \in Slots, GetData(w, s)
      PROVE  Kept
  BY <1>4 DEF TypeOK, Kept, GetData, Sessions
<1>5. ASSUME NEW w \in Workers, NEW s \in Slots, GetFailure(w, s)
      PROVE  Kept
  <2>1. CASE slot[s].announced
    BY <1>5, <2>1, FailureEnds DEF Kept, GetFailure
  <2>2. CASE ~slot[s].announced
    BY <1>5, <2>2 DEF TypeOK, Kept, GetFailure
  <2> QED BY <2>1, <2>2
<1>6. ASSUME NEW w \in Workers, Clear(w)
      PROVE  Kept
  BY <1>6 DEF TypeOK, Kept, Clear
<1>7. ASSUME NEW w \in Workers, Push(w)
      PROVE  Kept
  BY <1>7 DEF TypeOK, Kept, Push
<1>8. ASSUME NEW w \in Workers, OnClientLeave(w)
      PROVE  Kept
  BY <1>8 DEF TypeOK, Kept, OnClientLeave, ToPort
<1>9. ASSUME NEW w \in Workers, NEW i \in posts, GetPost(w, i)
      PROVE  Kept
  BY <1>9 DEF TypeOK, Kept, GetPost
<1>10. CASE Wake
  BY <1>10 DEF TypeOK, Kept, Wake
<1>11. CASE Drained
  BY <1>11 DEF TypeOK, Kept, Drained
<1>12. CASE JoinOrLeave
  BY <1>12 DEF TypeOK, Kept, JoinOrLeave
<1>13. CASE Message
  BY <1>13, MessageKeeps DEF Kept, Message
<1>14. CASE Touch
  BY <1>14 DEF TypeOK, Kept, Touch
<1>15. CASE UNCHANGED vars
  BY <1>15 DEF TypeOK, Kept, vars
<1> QED BY <1>1, <1>2, <1>3, <1>4, <1>5, <1>6, <1>7, <1>8, <1>9, <1>10, <1>11, <1>12, <1>13, <1>14, <1>15 DEF Rest, Work, Update

(* Every step keeps Staged. *)
LEMMA StagedStep ==
  ASSUME TypeOK, Slotted, Staged, [Next]_vars
  PROVE  Staged'
<1> USE DEF Running, Deleting, Stopped
<1>1. CASE StartContent
  BY <1>1 DEF TypeOK, Staged, StartContent
<1>2. CASE ServerStart
  BY <1>2 DEF TypeOK, Staged, ServerStart, ServerStartFrom, NoSession
<1>3. CASE StopListening
  BY <1>3 DEF TypeOK, Staged, StopListening
<1>19. CASE QuitStopped
  BY <1>19 DEF TypeOK, Staged, QuitStopped
<1>4. CASE AwaitAccept
  BY <1>4 DEF TypeOK, Staged, AwaitAccept
<1>5. CASE AwaitMonitor
  BY <1>5 DEF TypeOK, Staged, AwaitMonitor
<1>6. CASE DisconnectAll
  BY <1>6 DEF TypeOK, Staged, DisconnectAll, SocketReleased, Sessions
<1>7. CASE DeleteArray
  BY <1>7 DEF TypeOK, Staged, DeleteArray
<1>8. CASE PostExits
  BY <1>8 DEF TypeOK, Staged, PostExits
<1>9. CASE DeleteStack
  BY <1>9 DEF TypeOK, Staged, DeleteStack
<1>10. CASE AwaitUpdate
  BY <1>10 DEF TypeOK, Staged, AwaitUpdate
<1>11. CASE DeleteServer
  BY <1>11 DEF TypeOK, Staged, DeleteServer
<1>12. CASE Return
  BY <1>12 DEF TypeOK, Staged, Return
<1>13. CASE AcceptSocket
  BY <1>13 DEF TypeOK, Staged, AcceptSocket
<1>14. CASE AcceptEnds
  BY <1>14 DEF TypeOK, Staged, AcceptEnds
<1>15. ASSUME NEW s \in Slots, AcceptUser(s)
      PROVE  Staged'
  BY <1>15 DEF TypeOK, Staged, AcceptUser
<1>16. CASE MonitorWakes
  BY <1>16 DEF TypeOK, Staged, MonitorWakes
<1>17. CASE MonitorScans
  BY <1>17 DEF TypeOK, Staged, MonitorScans
<1>18. CASE Rest
  <2>1. Kept
    BY <1>18, RestStep
  <2>2. ASSUME NEW w \in Workers
        PROVE  at'[w].run <= run'
    <3>1. at[w].run <= run /\ run \in Nat /\ run' = run /\ (at'[w] = at[w] \/ at'[w].run = run)
      BY <2>1 DEF Kept, TypeOK, Staged
    <3> QED BY <3>1
  <2> QED BY <2>1, <2>2 DEF Kept, Staged
<1> QED BY <1>1, <1>2, <1>3, <1>4, <1>5, <1>6, <1>7, <1>8, <1>9, <1>10, <1>11, <1>12, <1>13, <1>14, <1>15, <1>16, <1>17, <1>18, <1>19 DEF Next, Main, Accept, Rest
-----------------------------------------------------------------------------
(* AcquireSession gets a session with the IDs of those that live. *)
LEMMA LiveIsAcquired ==
  ASSUME Slotted, NEW i \in Ids
  PROVE  Acquired(i) <=> i \in Live
<1>1. i[1] \in Slots
  BY DEF Ids
<1>2. CASE Acquired(i)
  BY <1>1, <1>2 DEF Acquired, Live
<1>3. ASSUME i \in Live
      PROVE  Acquired(i)
  <2>1. PICK s \in Slots : slot[s].used /\ i = slot[s].id
    BY <1>3 DEF Live
  <2> QED BY <2>1 DEF Slotted, Acquired
<1> QED BY <1>2, <1>3

(* The types of what lives and leaves. *)
LEMMA LiveIds ==
  ASSUME TypeOK, Slotted, Dated
  PROVE  Live \subseteq Ids /\ Going \subseteq Ids /\ \A i \in Ids : i[2] \in Nat /\ i[1] \in Slots
BY DEF TypeOK, Slotted, Dated, Live, Ids

(* A step aside begins and ends nothing, *)
LEMMA AsideSame ==
  ASSUME Aside
  PROVE  Live' = Live /\ Going' = Going
<1>1. {r \in Slots : slot[r].used}' = {r \in Slots : slot[r].used}
  BY DEF Aside
<1>2. {v \in Workers : pc[v] \in Leaving}' = {v \in Workers : pc[v] \in Leaving}
  BY DEF Aside
<1>3. Live' = Live
  BY <1>1 DEF Aside, Live
<1>4. Going' = Going
  BY <1>2 DEF Aside, Going
<1> QED BY <1>3, <1>4

(* the accept thread begins a session with a new ID, *)
LEMMA AcceptBegins ==
  ASSUME TypeOK, NEW s \in Slots, AcceptUser(s)
  PROVE  /\ Live' \subseteq Live \cup {<<s, serial + 1>>} /\ <<s, serial + 1>> \in Live' /\ Going' = Going
         /\ ~slot[s].used => Live \subseteq Live'
         /\ slot'[s].used /\ \A r \in Slots \ {s} : slot'[r] = slot[r]
<1>1. /\ slot'[s].used /\ slot'[s].id = <<s, serial + 1>>
      /\ \A r \in Slots \ {s} : slot'[r] = slot[r]
  BY DEF TypeOK, AcceptUser, Sessions
<1>2. UNCHANGED <<pc, at>>
  BY DEF AcceptUser
<1> QED BY <1>1, <1>2 DEF Live, Going

(* a worker ends one, whose leave is to come, *)
LEMMA FailureMoves ==
  ASSUME TypeOK, Slotted, NEW w \in Workers, NEW s \in Slots, GetFailure(w, s), slot[s].announced
  PROVE  /\ slot[s].used /\ slot[s].id \in Live
         /\ Live' = Live \ {slot[s].id} /\ Going' = Going \cup {slot[s].id}
<1>1. /\ ~slot'[s].used /\ \A r \in Slots \ {s} : slot'[r] = slot[r]
      /\ pc'[w] = "clear" /\ at'[w].id = slot[s].id /\ pc[w] = "port"
      /\ \A v \in Workers \ {w} : pc'[v] = pc[v] /\ at'[v] = at[v]
  BY FailureEnds
<1>2. slot[s].used
  BY DEF GetFailure, Slotted
<1>3. \A r \in Slots \ {s} : slot[r].used => slot[r].id # slot[s].id
  BY <1>2 DEF Slotted
<1>4. Live' = Live \ {slot[s].id} /\ slot[s].id \in Live
  BY <1>1, <1>2, <1>3 DEF Live
<1>5. Going' = Going \cup {slot[s].id}
  BY <1>1 DEF Going
<1> QED BY <1>2, <1>4, <1>5

(* and puts the leave into the queue. *)
LEMMA LeaveGoes ==
  ASSUME TypeOK, NEW w \in Workers, OnClientLeave(w)
  PROVE  /\ Live' = Live /\ at[w].id \in Going
         /\ Going' \subseteq Going /\ Going \subseteq Going' \cup {at[w].id}
         /\ jobs' = Append(jobs, [type |-> "leave", id |-> at[w].id, run |-> at[w].run])
<1>1. /\ slot' = slot /\ pc[w] = "leave" /\ pc'[w] = "port"
      /\ \A v \in Workers \ {w} : pc'[v] = pc[v] /\ at'[v] = at[v]
      /\ jobs' = Append(jobs, [type |-> "leave", id |-> at[w].id, run |-> at[w].run])
  BY DEF TypeOK, OnClientLeave, ToPort, Enqueue
<1> QED BY <1>1 DEF Live, Going

(* The update thread takes a job. *)
LEMMA JobTaken ==
  ASSUME TypeOK, JoinOrLeave \/ Message
  PROVE  /\ jobs # <<>> /\ jobs' = Tail(jobs) /\ Live' = Live /\ Going' = Going
         /\ run' = run /\ serial' = serial /\ strayed' = strayed
<1>1. CASE JoinOrLeave
  BY <1>1 DEF JoinOrLeave, Live, Going
<1>2. CASE Message
  <2>1. \A s \in Slots : (slot'[s].used <=> slot[s].used) /\ slot'[s].id = slot[s].id
    BY <1>2, MessageKeeps
  <2>2. {r \in Slots : slot[r].used}' = {r \in Slots : slot[r].used}
    BY <2>1
  <2>3. Live' = Live
    BY <2>1, <2>2 DEF Live
  <2> QED BY <1>2, <2>3 DEF Message, Going
<1> QED BY <1>1, <1>2
-----------------------------------------------------------------------------
(* The jobs of a step that brings no old session back. *)
LEMMA JobsDated ==
  ASSUME TypeOK, Slotted, Dated, serial' \in Nat, serial' >= serial,
         \A i \in Live' : i \in Ids /\ (i[2] <= serial => i \in Live),
         run' = run \/ Live' = {},
         NEW k \in DOMAIN jobs
  PROVE  jobs[k] \in Jobs /\ jobs[k].id[2] <= serial' /\ (jobs[k].run # run' => jobs[k].id \notin Live')
<1>1. jobs[k] \in Jobs /\ jobs[k].id \in Ids /\ jobs[k].id[2] \in Nat /\ serial \in Nat
  <2>1. jobs[k] \in Jobs
    BY DEF TypeOK
  <2>2. jobs[k].id \in Ids
    BY <2>1 DEF Jobs
  <2> QED BY <2>1, <2>2, LiveIds DEF TypeOK
<1>2. jobs[k].id[2] <= serial /\ (jobs[k].run # run => jobs[k].id \notin Live)
  BY DEF Dated
<1> QED BY <1>1, <1>2

LEMMA DatedStep ==
  ASSUME TypeOK, TypeOK', Slotted, Slotted', Staged, Dated, [Next]_vars
  PROVE  Dated'
<1>1. /\ Live \subseteq Ids /\ Going \subseteq Ids /\ \A i \in Ids : i[2] \in Nat /\ i[1] \in Slots
      /\ serial \in Nat /\ run \in Nat /\ jobs \in Seq(Jobs)
  BY LiveIds DEF TypeOK
<1>2. CASE Aside
  <2>1. Live' = Live /\ Going' = Going /\ serial' = serial
    BY <1>2, AsideSame DEF Aside
  <2>2. run' = run \/ Live' = {}
    BY <1>2, <2>1 DEF Aside, Live
  <2>3. \A k \in DOMAIN jobs : jobs[k].id[2] <= serial' /\ (jobs[k].run # run' => jobs[k].id \notin Live')
    BY <1>1, <2>1, <2>2, JobsDated
  <2>4. CASE jobs' = jobs
    BY <2>1, <2>3, <2>4 DEF Dated
  <2>5. ASSUME NEW s \in Slots, NEW kind \in {"chat", "="}, slot[s].used,
               jobs' = Append(jobs, [type |-> kind, id |-> slot[s].id, run |-> run])
        PROVE  Dated'
    <3> DEFINE e == [type |-> kind, id |-> slot[s].id, run |-> run]
    <3>1. slot[s].id \in Live /\ slot[s].id \in Ids /\ run' = run
      BY <1>2, <2>5 DEF Live, Slotted, Aside
    <3>2. e \in Jobs /\ e.id[2] <= serial' /\ e.run = run'
      BY <1>1, <2>1, <3>1 DEF Jobs, Dated
    <3> HIDE DEF e
    <3>3. \A k \in DOMAIN jobs' : (k \in DOMAIN jobs /\ jobs'[k] = jobs[k]) \/ jobs'[k] = e
      BY <1>1, <2>5, <3>2, Appended DEF e
    <3> QED BY <2>1, <2>3, <3>2, <3>3 DEF Dated
  <2> QED BY <1>2, <2>4, <2>5 DEF Aside
<1>3. ASSUME NEW s \in Slots, AcceptUser(s)
      PROVE  Dated'
  <2> DEFINE i == <<s, serial + 1>>
             e == [type |-> "join", id |-> i, run |-> run]
  <2>1. Live' \subseteq Live \cup {i} /\ Going' = Going
    BY <1>3, AcceptBegins
  <2>2. i \in Ids /\ i[2] = serial + 1 /\ e \in Jobs /\ e.id = i /\ e.run = run
    BY <1>1 DEF Ids, Jobs
  <2>3. serial' = serial + 1 /\ run' = run /\ jobs' = Append(jobs, e)
    BY <1>3 DEF AcceptUser, Enqueue
  <2> HIDE DEF i, e
  <2>4. /\ serial' \in Nat /\ serial' >= serial
        /\ \A j \in Live' : j \in Ids /\ (j[2] <= serial => j \in Live)
    BY <1>1, <2>1, <2>2, <2>3
  <2>5. \A k \in DOMAIN jobs : jobs[k].id[2] <= serial' /\ (jobs[k].run # run' => jobs[k].id \notin Live')
    BY <2>3, <2>4, JobsDated
  <2>6. \A k \in DOMAIN jobs' : (k \in DOMAIN jobs /\ jobs'[k] = jobs[k]) \/ jobs'[k] = e
    BY <1>1, <2>2, <2>3, Appended
  <2>7. \A k \in DOMAIN jobs' : jobs'[k].id[2] <= serial' /\ (jobs'[k].run # run' => jobs'[k].id \notin Live')
    BY <1>1, <2>2, <2>3, <2>5, <2>6
  <2>8. \A j \in Live' \cup Going' : j[2] <= serial'
    BY <1>1, <2>1, <2>2, <2>3 DEF Dated
  <2>9. Going' \subseteq Ids \ Live'
    BY <1>1, <2>1, <2>2 DEF Dated
  <2> QED BY <2>7, <2>8, <2>9 DEF Dated
<1>4. ASSUME NEW w \in Workers, NEW s \in Slots, GetFailure(w, s), slot[s].announced
      PROVE  Dated'
  <2>1. /\ Live' = Live \ {slot[s].id} /\ Going' = Going \cup {slot[s].id} /\ slot[s].id \in Live
        /\ jobs' = jobs /\ serial' = serial /\ run' = run
    BY <1>4, FailureMoves DEF GetFailure
  <2> QED BY <1>1, <2>1 DEF Dated
<1>5. ASSUME NEW w \in Workers, OnClientLeave(w)
      PROVE  Dated'
  <2> DEFINE e == [type |-> "leave", id |-> at[w].id, run |-> at[w].run]
  <2>1. /\ Live' = Live /\ Going' \subseteq Going /\ at[w].id \in Going
        /\ jobs' = Append(jobs, e) /\ serial' = serial /\ run' = run
    BY <1>5, LeaveGoes DEF OnClientLeave
  <2>2. e \in Jobs /\ e.id = at[w].id
    BY <1>1, <2>1 DEF Jobs, TypeOK
  <2> HIDE DEF e
  <2>3. \A k \in DOMAIN jobs' : (k \in DOMAIN jobs /\ jobs'[k] = jobs[k]) \/ jobs'[k] = e
    BY <1>1, <2>1, <2>2, Appended
  <2> QED BY <1>1, <2>1, <2>2, <2>3 DEF Dated
<1>6. CASE JoinOrLeave \/ Message
  <2>1. jobs # <<>> /\ jobs' = Tail(jobs) /\ Live' = Live /\ Going' = Going /\ run' = run /\ serial' = serial
    BY <1>6, JobTaken
  <2>2. \A k \in DOMAIN jobs' : k + 1 \in DOMAIN jobs /\ jobs'[k] = jobs[k + 1]
    BY <1>1, <2>1, Taken
  <2> QED BY <2>1, <2>2 DEF Dated
<1> QED BY <1>2, <1>3, <1>4, <1>5, <1>6, AsideOrTurn DEF Turn
-----------------------------------------------------------------------------
(* Departs: what keeps it while the queue only grows. *)
LEMMA DepartsGrown ==
  ASSUME TypeOK, Departs, strayed => strayed', clients' = clients,
         NEW e \in Jobs, jobs' = Append(jobs, e),
         \A i \in Live \cup Going : i \in Live' \cup Going' \/ (e.type = "leave" /\ e.id = i),
         e.type = "join" => e.id \in Live' \cup Going'
  PROVE  Departs'
<1> SUFFICES ASSUME ~strayed'
             PROVE  /\ \A i \in clients : i \in Live' \cup Going' \/ Left(i)'
                    /\ \A k \in DOMAIN jobs' : jobs'[k].type = "join" =>
                          \/ jobs'[k].id \in Live' \cup Going'
                          \/ \E l \in DOMAIN jobs' : l > k /\ jobs'[l].type = "leave" /\ jobs'[l].id = jobs'[k].id
  BY DEF Departs
<1> DEFINE n == Len(jobs) + 1
<1>1. /\ Len(jobs) \in Nat /\ DOMAIN jobs = 1 .. Len(jobs) /\ DOMAIN jobs' = 1 .. n /\ jobs'[n] = e
      /\ \A k \in DOMAIN jobs : k \in DOMAIN jobs' /\ jobs'[k] = jobs[k]
      /\ \A k \in DOMAIN jobs' : k \in DOMAIN jobs \/ k = n
  BY Appended DEF TypeOK
<1>2. ASSUME NEW i \in clients
      PROVE  i \in Live' \cup Going' \/ Left(i)'
  <2>1. i \in Live \cup Going \/ Left(i)
    BY DEF Departs
  <2>2. Left(i) => Left(i)'
    BY <1>1 DEF Left
  <2>3. e.type = "leave" /\ e.id = i => Left(i)'
    BY <1>1 DEF Left
  <2> QED BY <2>1, <2>2, <2>3
<1>3. ASSUME NEW k \in DOMAIN jobs', jobs'[k].type = "join", jobs'[k].id \notin Live' \cup Going'
      PROVE  \E l \in DOMAIN jobs' : l > k /\ jobs'[l].type = "leave" /\ jobs'[l].id = jobs'[k].id
  <2>1. k \in DOMAIN jobs /\ jobs'[k] = jobs[k]
    BY <1>1, <1>3
  <2>2. CASE jobs[k].id \in Live \cup Going
    <3>1. e.type = "leave" /\ e.id = jobs[k].id
      BY <1>3, <2>1, <2>2
    <3>2. n \in DOMAIN jobs' /\ n > k
      BY <1>1, <2>1
    <3> QED BY <1>1, <2>1, <3>1, <3>2
  <2>3. CASE jobs[k].id \notin Live \cup Going
    <3>1. PICK l \in DOMAIN jobs : l > k /\ jobs[l].type = "leave" /\ jobs[l].id = jobs[k].id
      BY <1>3, <2>1, <2>3 DEF Departs
    <3> QED BY <1>1, <2>1, <3>1
  <2> QED BY <2>2, <2>3
<1> QED BY <1>2, <1>3

(* The same if it does not grow. *)
LEMMA DepartsSame ==
  ASSUME Departs, strayed => strayed', clients' = clients, jobs' = jobs, Live \cup Going \subseteq Live' \cup Going'
  PROVE  Departs'
BY DEF Departs, Left

LEMMA DepartsStep ==
  ASSUME TypeOK, TypeOK', Slotted, Staged, Dated, Single, Departs, [Next]_vars
  PROVE  Departs'
<1>1. CASE Aside
  <2>1. Live' = Live /\ Going' = Going
    BY <1>1, AsideSame
  <2>2. CASE jobs' = jobs
    BY <1>1, <2>1, <2>2, DepartsSame DEF Aside
  <2>3. ASSUME NEW s \in Slots, NEW kind \in {"chat", "="}, slot[s].used,
               jobs' = Append(jobs, [type |-> kind, id |-> slot[s].id, run |-> run])
        PROVE  Departs'
    <3> DEFINE e == [type |-> kind, id |-> slot[s].id, run |-> run]
    <3>1. e \in Jobs /\ e.type # "join"
      BY <2>3 DEF Jobs, Slotted, TypeOK
    <3> HIDE DEF e
    <3> QED BY <1>1, <2>1, <2>3, <3>1, DepartsGrown DEF Aside, e
  <2> QED BY <1>1, <2>2, <2>3 DEF Aside
<1>2. ASSUME NEW s \in Slots, AcceptUser(s)
      PROVE  Departs'
  <2> DEFINE i == <<s, serial + 1>>
             e == [type |-> "join", id |-> i, run |-> run]
  <2>1. free[s] > 0 /\ jobs' = Append(jobs, e) /\ clients' = clients /\ strayed' = strayed
    BY <1>2 DEF AcceptUser, Enqueue
  <2>2. e \in Jobs /\ e.type = "join" /\ e.id = i
    BY DEF Jobs, Ids, TypeOK
  <2>3. i \in Live' /\ Going' = Going
    BY <1>2, AcceptBegins
  <2>4. CASE ~strayed
    <3>1. ~slot[s].used
      BY <2>1, <2>4 DEF Single, TypeOK
    <3>2. Live \subseteq Live'
      BY <1>2, <3>1, AcceptBegins
    <3> HIDE DEF e, i
    <3> QED BY <2>1, <2>2, <2>3, <3>2, DepartsGrown
  <2>5. CASE strayed
    BY <2>1, <2>5 DEF Departs
  <2> QED BY <2>4, <2>5
<1>3. ASSUME NEW w \in Workers, NEW s \in Slots, GetFailure(w, s), slot[s].announced
      PROVE  Departs'
  <2>1. /\ Live' = Live \ {slot[s].id} /\ Going' = Going \cup {slot[s].id}
        /\ jobs' = jobs /\ clients' = clients /\ strayed' = strayed
    BY <1>3, FailureMoves DEF GetFailure
  <2> QED BY <2>1, DepartsSame
<1>4. ASSUME NEW w \in Workers, OnClientLeave(w)
      PROVE  Departs'
  <2> DEFINE e == [type |-> "leave", id |-> at[w].id, run |-> at[w].run]
  <2>1. /\ Live' = Live /\ Going \subseteq Going' \cup {at[w].id} /\ at[w].id \in Going
        /\ jobs' = Append(jobs, e) /\ clients' = clients /\ strayed' = strayed
    BY <1>4, LeaveGoes DEF OnClientLeave
  <2>2. e \in Jobs /\ e.type = "leave" /\ e.id = at[w].id
    BY <2>1, LiveIds DEF Jobs, TypeOK
  <2> HIDE DEF e
  <2> QED BY <2>1, <2>2, DepartsGrown
<1>5. CASE JoinOrLeave \/ Message
  <2>1. /\ jobs # <<>> /\ jobs' = Tail(jobs) /\ Live' = Live /\ Going' = Going /\ strayed' = strayed
    BY <1>5, JobTaken
  <2>2. /\ Head(jobs) = jobs[1] /\ 1 \in DOMAIN jobs /\ Head(jobs) \in Jobs
        /\ \A k \in DOMAIN jobs' : k \in Nat /\ k + 1 \in DOMAIN jobs /\ jobs'[k] = jobs[k + 1]
        /\ \A k \in DOMAIN jobs : k \in Nat /\ (k # 1 => k - 1 \in DOMAIN jobs' /\ jobs'[k - 1] = jobs[k])
    BY <2>1, Taken DEF TypeOK
  <2>3. /\ clients' \subseteq clients \cup {Head(jobs).id}
        /\ Head(jobs).type = "leave" => clients' = clients \ {Head(jobs).id}
        /\ Head(jobs).type # "join" => clients' \subseteq clients
    BY <1>5 DEF JoinOrLeave, Message
  <2> SUFFICES ASSUME ~strayed
               PROVE  /\ \A i \in clients' : i \in Live \cup Going \/ Left(i)'
                      /\ \A k \in DOMAIN jobs' : jobs'[k].type = "join" =>
                            \/ jobs'[k].id \in Live \cup Going
                            \/ \E l \in DOMAIN jobs' :
                                  l > k /\ jobs'[l].type = "leave" /\ jobs'[l].id = jobs'[k].id
    BY <2>1 DEF Departs
  <2>4. ASSUME NEW i \in clients', i \notin Live \cup Going
        PROVE  Left(i)'
    <3>1. CASE i \in clients
      <4>1. PICK k \in DOMAIN jobs : jobs[k].type = "leave" /\ jobs[k].id = i
        BY <2>4, <3>1 DEF Departs, Left
      <4>2. k # 1
        BY <2>2, <2>3, <2>4, <4>1
      <4> QED BY <2>2, <4>1, <4>2 DEF Left
    <3>2. CASE i \notin clients
      <4>1. i = jobs[1].id /\ jobs[1].type = "join"
        BY <2>2, <2>3, <2>4, <3>2
      <4>2. PICK k \in DOMAIN jobs : k > 1 /\ jobs[k].type = "leave" /\ jobs[k].id = i
        BY <2>2, <2>4, <4>1 DEF Departs
      <4> QED BY <2>2, <4>2 DEF Left
    <3> QED BY <3>1, <3>2
  <2>5. ASSUME NEW k \in DOMAIN jobs', jobs'[k].type = "join", jobs'[k].id \notin Live \cup Going
        PROVE  \E l \in DOMAIN jobs' : l > k /\ jobs'[l].type = "leave" /\ jobs'[l].id = jobs'[k].id
    <3>1. k \in Nat /\ k + 1 \in DOMAIN jobs /\ jobs'[k] = jobs[k + 1]
      BY <2>2
    <3>2. PICK l \in DOMAIN jobs : l > k + 1 /\ jobs[l].type = "leave" /\ jobs[l].id = jobs[k + 1].id
      BY <2>5, <3>1 DEF Departs
    <3>3. l - 1 \in DOMAIN jobs' /\ jobs'[l - 1] = jobs[l] /\ l - 1 > k
      BY <2>2, <3>1, <3>2
    <3> QED BY <3>1, <3>2, <3>3
  <2> QED BY <2>4, <2>5
<1> QED BY <1>1, <1>2, <1>3, <1>4, <1>5, AsideOrTurn DEF Turn
-----------------------------------------------------------------------------
(* Single: most steps give no index to anybody. *)
Untouched ==
    /\ free' = free /\ (strayed => strayed')
    /\ \A w \in Workers : pc'[w] \in {"clear", "push"} => pc[w] \in {"clear", "push"} /\ at'[w] = at[w]

LEMMA SingleFrame ==
  ASSUME Single, Untouched, stack' = stack, \A s \in Slots : slot'[s].used => slot[s].used,
         \A w \in Workers : Returning(w) => SlotOf(at[w].id) \in Slots
  PROVE  Single'
BY DEF Single, Untouched, Returning

LEMMA SingleStep ==
  ASSUME TypeOK, TypeOK', Slotted, Staged, Dated, Single, [Next]_vars
  PROVE  Single'
<1>0. \A w \in Workers : pc[w] \in Leaving => at[w].id \in Ids /\ SlotOf(at[w].id) \in Slots
  BY LiveIds DEF Going
<1>1. CASE ServerStart
  <2>0. \A s \in Slots : ~slot'[s].used
    BY <1>1 DEF ServerStart, ServerStartFrom, NoSession
  <2>1. stack' = run + 1 /\ (strayed => strayed') /\ free' = [s \in Slots |-> 1]
    BY <1>1 DEF TypeOK, ServerStart, ServerStartFrom
  <2>2. ASSUME NEW w \in Workers
        PROVE  ~Returning(w)'
    <3>1. pc'[w] \in {"clear", "push"} => at'[w].run = at[w].run /\ at[w].run <= run
      BY <1>1 DEF TypeOK, ServerStart, ServerStartFrom, Staged
    <3>2. at[w].run \in Nat /\ run \in Nat
      BY DEF TypeOK
    <3> QED BY <2>1, <3>1, <3>2 DEF Returning
  <2> QED BY <2>0, <2>1, <2>2 DEF Single
<1>2. CASE DeleteStack
  <2>1. stack' = 0 /\ UNCHANGED <<free, slot, strayed>>
    BY <1>2 DEF DeleteStack
  <2> QED BY <2>1 DEF Single
<1>3. CASE StartContent
  <2>1. Untouched /\ stack' = stack /\ \A s \in Slots : slot'[s].used => slot[s].used
    BY <1>3 DEF TypeOK, Untouched, StartContent
  <2> QED BY <1>0, <2>1, SingleFrame DEF Returning
<1>4. CASE StopListening
  <2>1. Untouched /\ stack' = stack /\ \A s \in Slots : slot'[s].used => slot[s].used
    BY <1>4 DEF TypeOK, Untouched, StopListening
  <2> QED BY <1>0, <2>1, SingleFrame DEF Returning
<1>34. CASE QuitStopped
  <2>1. Untouched /\ stack' = stack /\ \A s \in Slots : slot'[s].used => slot[s].used
    BY <1>34 DEF TypeOK, Untouched, QuitStopped
  <2> QED BY <1>0, <2>1, SingleFrame DEF Returning
<1>5. CASE AwaitAccept
  <2>1. Untouched /\ stack' = stack /\ \A s \in Slots : slot'[s].used => slot[s].used
    BY <1>5 DEF TypeOK, Untouched, AwaitAccept
  <2> QED BY <1>0, <2>1, SingleFrame DEF Returning
<1>6. CASE AwaitMonitor
  <2>1. Untouched /\ stack' = stack /\ \A s \in Slots : slot'[s].used => slot[s].used
    BY <1>6 DEF TypeOK, Untouched, AwaitMonitor
  <2> QED BY <1>0, <2>1, SingleFrame DEF Returning
<1>7. CASE DisconnectAll
  <2>1. Untouched /\ stack' = stack
    BY <1>7 DEF TypeOK, Untouched, DisconnectAll
  <2>2. \A s \in Slots : slot'[s].used => slot[s].used
    BY <1>7 DEF TypeOK, DisconnectAll, SocketReleased, Sessions
  <2> QED BY <1>0, <2>1, <2>2, SingleFrame DEF Returning
<1>8. CASE DeleteArray
  <2>1. Untouched /\ stack' = stack /\ \A s \in Slots : slot'[s].used => slot[s].used
    BY <1>8 DEF TypeOK, Untouched, DeleteArray
  <2> QED BY <1>0, <2>1, SingleFrame DEF Returning
<1>9. CASE PostExits
  <2>1. Untouched /\ stack' = stack /\ \A s \in Slots : slot'[s].used => slot[s].used
    BY <1>9 DEF TypeOK, Untouched, PostExits
  <2> QED BY <1>0, <2>1, SingleFrame DEF Returning
<1>10. CASE AwaitUpdate
  <2>1. Untouched /\ stack' = stack /\ \A s \in Slots : slot'[s].used => slot[s].used
    BY <1>10 DEF TypeOK, Untouched, AwaitUpdate
  <2> QED BY <1>0, <2>1, SingleFrame DEF Returning
<1>11. CASE DeleteServer
  <2>1. Untouched /\ stack' = stack /\ \A s \in Slots : slot'[s].used => slot[s].used
    BY <1>11 DEF TypeOK, Untouched, DeleteServer
  <2> QED BY <1>0, <2>1, SingleFrame DEF Returning
<1>12. CASE Return
  <2>1. Untouched /\ stack' = stack /\ \A s \in Slots : slot'[s].used => slot[s].used
    BY <1>12 DEF TypeOK, Untouched, Return
  <2> QED BY <1>0, <2>1, SingleFrame DEF Returning
<1>13. CASE AcceptSocket
  <2>1. Untouched /\ stack' = stack /\ \A s \in Slots : slot'[s].used => slot[s].used
    BY <1>13 DEF TypeOK, Untouched, AcceptSocket
  <2> QED BY <1>0, <2>1, SingleFrame DEF Returning
<1>14. CASE AcceptEnds
  <2>1. Untouched /\ stack' = stack /\ \A s \in Slots : slot'[s].used => slot[s].used
    BY <1>14 DEF TypeOK, Untouched, AcceptEnds
  <2> QED BY <1>0, <2>1, SingleFrame DEF Returning
<1>15. ASSUME NEW s \in Slots, AcceptUser(s)
      PROVE  Single'
  <2>1. /\ free[s] > 0 /\ free' = [free EXCEPT ![s] = @ - 1] /\ UNCHANGED <<stack, pc, at, strayed>>
    BY <1>15 DEF AcceptUser
  <2>2. slot'[s].used /\ \A r \in Slots \ {s} : slot'[r] = slot[r]
    BY <1>15, AcceptBegins
  <2>3. stack # 0
    BY <1>15 DEF AcceptUser, Staged, TypeOK, Running
  <2>4. free \in [Slots -> Nat]
    BY DEF TypeOK
  <2> SUFFICES ASSUME ~strayed
               PROVE  Single'
    BY <2>1 DEF Single
  <2>5. free[s] = 1 /\ free'[s] = 0 /\ \A r \in Slots \ {s} : free'[r] = free[r]
    BY <2>1, <2>4 DEF Single
  <2>6. \A w \in Workers : Returning(w) => SlotOf(at[w].id) \in Slots \ {s}
    BY <1>0, <2>3, <2>5 DEF Single, Returning
  <2>7. \A w \in Workers : Returning(w)' <=> Returning(w)
    BY <2>1 DEF Returning
  <2> QED BY <2>1, <2>2, <2>3, <2>5, <2>6, <2>7 DEF Single
<1>16. CASE MonitorWakes
  <2>1. Untouched /\ stack' = stack /\ \A s \in Slots : slot'[s].used => slot[s].used
    BY <1>16 DEF TypeOK, Untouched, MonitorWakes
  <2> QED BY <1>0, <2>1, SingleFrame DEF Returning
<1>17. CASE MonitorScans
  <2>1. Untouched /\ stack' = stack /\ \A s \in Slots : slot'[s].used => slot[s].used
    BY <1>17 DEF TypeOK, Untouched, MonitorScans
  <2> QED BY <1>0, <2>1, SingleFrame DEF Returning
<1>18. ASSUME NEW w \in Workers, NEW s \in Slots, GetFailure(w, s) /\ slot[s].announced
      PROVE  Single'
  <2>1. /\ ~slot'[s].used /\ \A r \in Slots \ {s} : slot'[r] = slot[r]
        /\ pc'[w] = "clear" /\ at'[w].run = run /\ at'[w].id = slot[s].id /\ pc[w] = "port"
        /\ \A v \in Workers \ {w} : pc'[v] = pc[v] /\ at'[v] = at[v]
    BY <1>18, FailureEnds
  <2>2. slot[s].used /\ SlotOf(slot[s].id) = s /\ UNCHANGED <<free, stack, strayed>>
    BY <1>18 DEF GetFailure, Slotted
  <2>3. \A v \in Workers \ {w} : Returning(v)' <=> Returning(v)
    BY <2>1, <2>2 DEF Returning
  <2> SUFFICES ASSUME ~strayed, stack # 0
               PROVE  Single'
    BY <2>1, <2>2 DEF Single
  <2>4. free[s] = 0 /\ \A v \in Workers : Returning(v) => SlotOf(at[v].id) # s
    BY <2>2 DEF Single
  <2>5. \A v \in Workers \ {w} : Returning(v)' => /\ SlotOf(at'[v].id) \in Slots \ {s}
                                                 /\ free'[SlotOf(at'[v].id)] = 0 /\ ~slot'[SlotOf(at'[v].id)].used
    BY <1>0, <2>1, <2>2, <2>3, <2>4 DEF Single, Returning
  <2> QED BY <2>1, <2>2, <2>3, <2>4, <2>5 DEF Single
<1>19. ASSUME NEW w \in Workers, Push(w)
      PROVE  Single'
  <2>1. /\ pc[w] = "push" /\ pc' = [pc EXCEPT ![w] = "leave"] /\ stack # 0
        /\ free' = [free EXCEPT ![SlotOf(at[w].id)] = @ + 1] /\ UNCHANGED <<stack, slot, at>>
        /\ ~strayed' => ~strayed /\ at[w].run = stack
    BY <1>19 DEF Push, TypeOK
  <2> SUFFICES ASSUME ~strayed, at[w].run = stack
               PROVE  Single'
    BY <2>1 DEF Single
  <2>2. PICK s \in Slots : s = SlotOf(at[w].id)
    BY <1>0, <2>1
  <2>3. Returning(w) /\ free[s] = 0 /\ ~slot[s].used
    BY <2>1, <2>2 DEF Returning, Single
  <2>4. free'[s] = 1 /\ \A r \in Slots \ {s} : free'[r] = free[r]
    BY <2>1, <2>2, <2>3 DEF TypeOK
  <2>5. \A v \in Workers : Returning(v)' => Returning(v) /\ v # w
    BY <2>1 DEF Returning, TypeOK
  <2>6. \A v \in Workers : Returning(v)' => SlotOf(at[v].id) \in Slots \ {s}
    BY <1>0, <2>1, <2>2, <2>3, <2>5 DEF Single, Returning
  <2> QED BY <2>1, <2>3, <2>4, <2>5, <2>6 DEF Single
<1>20. ASSUME NEW s \in Slots, NEW kind \in {"chat", "="}, Send(s, kind)
      PROVE  Single'
  <2>1. Untouched
    BY <1>20 DEF TypeOK, Untouched, Send
  <2>2. Kept
    BY <1>20, RestStep DEF Rest, Work, Update
  <2> QED BY <1>0, <2>1, <2>2, SingleFrame DEF Kept, Returning
<1>21. ASSUME NEW s \in Slots, Reset(s)
      PROVE  Single'
  <2>1. Untouched
    BY <1>21 DEF TypeOK, Untouched, Reset
  <2>2. Kept
    BY <1>21, RestStep DEF Rest, Work, Update
  <2> QED BY <1>0, <2>1, <2>2, SingleFrame DEF Kept, Returning
<1>22. ASSUME NEW w \in Workers, GetExit(w)
      PROVE  Single'
  <2>1. Untouched
    BY <1>22 DEF TypeOK, Untouched, GetExit
  <2>2. Kept
    BY <1>22, RestStep DEF Rest, Work, Update
  <2> QED BY <1>0, <2>1, <2>2, SingleFrame DEF Kept, Returning
<1>23. ASSUME NEW w \in Workers, NEW s \in Slots, GetData(w, s)
      PROVE  Single'
  <2>1. Untouched
    BY <1>23 DEF TypeOK, Untouched, GetData
  <2>2. Kept
    BY <1>23, RestStep DEF Rest, Work, Update
  <2> QED BY <1>0, <2>1, <2>2, SingleFrame DEF Kept, Returning
<1>24. ASSUME NEW w \in Workers, NEW s \in Slots, GetFailure(w, s) /\ ~slot[s].announced
      PROVE  Single'
  <2>1. Untouched
    BY <1>24 DEF TypeOK, Untouched, GetFailure
  <2>2. Kept
    BY <1>24, RestStep DEF Rest, Work, Update
  <2> QED BY <1>0, <2>1, <2>2, SingleFrame DEF Kept, Returning
<1>25. ASSUME NEW w \in Workers, Clear(w)
      PROVE  Single'
  <2>1. Untouched
    BY <1>25 DEF TypeOK, Untouched, Clear
  <2>2. Kept
    BY <1>25, RestStep DEF Rest, Work, Update
  <2> QED BY <1>0, <2>1, <2>2, SingleFrame DEF Kept, Returning
<1>26. ASSUME NEW w \in Workers, OnClientLeave(w)
      PROVE  Single'
  <2>1. Untouched
    BY <1>26 DEF TypeOK, Untouched, OnClientLeave, ToPort
  <2>2. Kept
    BY <1>26, RestStep DEF Rest, Work, Update
  <2> QED BY <1>0, <2>1, <2>2, SingleFrame DEF Kept, Returning
<1>27. ASSUME NEW w \in Workers, NEW i \in posts, GetPost(w, i)
      PROVE  Single'
  <2>1. Untouched
    BY <1>27 DEF TypeOK, Untouched, GetPost
  <2>2. Kept
    BY <1>27, RestStep DEF Rest, Work, Update
  <2> QED BY <1>0, <2>1, <2>2, SingleFrame DEF Kept, Returning
<1>28. CASE Wake
  <2>1. Untouched
    BY <1>28 DEF TypeOK, Untouched, Wake
  <2>2. Kept
    BY <1>28, RestStep DEF Rest, Work, Update
  <2> QED BY <1>0, <2>1, <2>2, SingleFrame DEF Kept, Returning
<1>29. CASE Drained
  <2>1. Untouched
    BY <1>29 DEF TypeOK, Untouched, Drained
  <2>2. Kept
    BY <1>29, RestStep DEF Rest, Work, Update
  <2> QED BY <1>0, <2>1, <2>2, SingleFrame DEF Kept, Returning
<1>30. CASE JoinOrLeave
  <2>1. Untouched
    BY <1>30 DEF TypeOK, Untouched, JoinOrLeave
  <2>2. Kept
    BY <1>30, RestStep DEF Rest, Work, Update
  <2> QED BY <1>0, <2>1, <2>2, SingleFrame DEF Kept, Returning
<1>31. CASE Message
  <2>1. Untouched
    BY <1>31 DEF TypeOK, Untouched, Message
  <2>2. Kept
    BY <1>31, RestStep DEF Rest, Work, Update
  <2> QED BY <1>0, <2>1, <2>2, SingleFrame DEF Kept, Returning
<1>32. CASE Touch
  <2>1. Untouched
    BY <1>32 DEF TypeOK, Untouched, Touch
  <2>2. Kept
    BY <1>32, RestStep DEF Rest, Work, Update
  <2> QED BY <1>0, <2>1, <2>2, SingleFrame DEF Kept, Returning
<1>33. CASE UNCHANGED vars
  <2>1. Untouched
    BY <1>33 DEF TypeOK, Untouched, vars
  <2>2. Kept
    BY <1>33, RestStep DEF Rest, Work, Update
  <2> QED BY <1>0, <2>1, <2>2, SingleFrame DEF Kept, Returning
<1> QED BY <1>1, <1>2, <1>3, <1>4, <1>5, <1>6, <1>7, <1>8, <1>9, <1>10, <1>11, <1>12, <1>13, <1>14, <1>15, <1>16, <1>17, <1>18, <1>19, <1>20, <1>21, <1>22, <1>23, <1>24, <1>25, <1>26, <1>27, <1>28, <1>29, <1>30, <1>31, <1>32, <1>33, <1>34 DEF Next, Main, Accept, Work, Update
-----------------------------------------------------------------------------
(* Every step keeps Calm. *)
LEMMA CalmStep ==
  ASSUME TypeOK, TypeOK', Slotted, Staged, Dated, Calm, [Next]_vars
  PROVE  Calm'
<1> USE DEF Running, Deleting, Stopped
<1>1. CASE StartContent
  BY <1>1 DEF TypeOK, Calm, StartContent, Staged
<1>2. CASE ServerStart
  BY <1>2 DEF TypeOK, Calm, ServerStart, ServerStartFrom, Staged
<1>3. CASE StopListening
  BY <1>3 DEF TypeOK, Calm, StopListening
<1>34. CASE QuitStopped
  BY <1>34 DEF TypeOK, Calm, QuitStopped
<1>4. CASE AwaitAccept
  BY <1>4 DEF TypeOK, Calm, AwaitAccept
<1>5. CASE AwaitMonitor
  BY <1>5 DEF TypeOK, Calm, AwaitMonitor
<1>6. CASE DisconnectAll
  BY <1>6 DEF TypeOK, Calm, DisconnectAll
<1>7. CASE DeleteArray
  BY <1>7 DEF TypeOK, Calm, DeleteArray, Staged
<1>8. CASE PostExits
  BY <1>8 DEF TypeOK, Calm, PostExits
<1>9. CASE DeleteStack
  BY <1>9 DEF TypeOK, Calm, DeleteStack
<1>10. CASE AwaitUpdate
  BY <1>10 DEF TypeOK, Calm, AwaitUpdate
<1>11. CASE DeleteServer
  BY <1>11 DEF TypeOK, Calm, DeleteServer
<1>12. CASE Return
  BY <1>12 DEF TypeOK, Calm, Return
<1>13. CASE AcceptSocket
  BY <1>13 DEF TypeOK, Calm, AcceptSocket
<1>14. CASE AcceptEnds
  BY <1>14 DEF TypeOK, Calm, AcceptEnds
<1>15. ASSUME NEW s \in Slots, AcceptUser(s)
      PROVE  Calm'
  BY <1>15 DEF TypeOK, Calm, AcceptUser, Staged
<1>16. CASE MonitorWakes
  BY <1>16 DEF TypeOK, Calm, MonitorWakes
<1>17. CASE MonitorScans
  BY <1>17 DEF TypeOK, Calm, MonitorScans
<1>18. ASSUME NEW s \in Slots, NEW kind \in {"chat", "="}, Send(s, kind)
      PROVE  Calm'
  BY <1>18 DEF TypeOK, Calm, Send
<1>19. ASSUME NEW s \in Slots, Reset(s)
      PROVE  Calm'
  BY <1>19 DEF TypeOK, Calm, Reset
<1>20. ASSUME NEW w \in Workers, GetExit(w)
      PROVE  Calm'
  BY <1>20 DEF TypeOK, Calm, GetExit
<1>21. ASSUME NEW w \in Workers, NEW s \in Slots, GetData(w, s)
      PROVE  Calm'
  <2>1. array # 0
    BY <1>21 DEF TypeOK, Slotted, Staged, GetData
  <2> QED BY <1>21, <2>1 DEF TypeOK, Calm, GetData
<1>22. ASSUME NEW w \in Workers, NEW s \in Slots, GetFailure(w, s) /\ slot[s].announced
      PROVE  Calm'
  <2>1. array # 0
    BY <1>22 DEF TypeOK, Slotted, Staged, GetFailure
  <2>2. /\ pc'[w] = "clear" /\ at'[w].run = run
        /\ \A v \in Workers \ {w} : pc'[v] = pc[v] /\ at'[v] = at[v]
    BY <1>22, FailureEnds
  <2> QED BY <1>22, <2>1, <2>2 DEF Calm, GetFailure
<1>23. ASSUME NEW w \in Workers, NEW s \in Slots, GetFailure(w, s) /\ ~slot[s].announced
      PROVE  Calm'
  BY <1>23 DEF TypeOK, Calm, GetFailure
<1>24. ASSUME NEW w \in Workers, Clear(w)
      PROVE  Calm'
  BY <1>24 DEF TypeOK, Calm, Clear
<1>25. ASSUME NEW w \in Workers, Push(w)
      PROVE  Calm'
  <2>1. quiet => array # 0 /\ at[w].run = run
    BY <1>25 DEF Calm, Push
  <2>2. quiet => stack = at[w].run
    BY <2>1 DEF Staged, TypeOK
  <2> QED BY <1>25, <2>1, <2>2 DEF TypeOK, Calm, Push
<1>26. ASSUME NEW w \in Workers, OnClientLeave(w)
      PROVE  Calm'
  <2>1. quiet => array # 0
    BY <1>26 DEF Calm, OnClientLeave
  <2> QED BY <1>26, <2>1 DEF TypeOK, Calm, OnClientLeave, ToPort
<1>27. ASSUME NEW w \in Workers, NEW i \in posts, GetPost(w, i)
      PROVE  Calm'
  BY <1>27 DEF TypeOK, Calm, GetPost
<1>28. CASE Wake
  BY <1>28 DEF TypeOK, Calm, Wake
<1>29. CASE Drained
  BY <1>29 DEF TypeOK, Calm, Drained
<1>30. CASE JoinOrLeave
  BY <1>30 DEF TypeOK, Calm, JoinOrLeave
<1>31. CASE Message
  BY <1>31 DEF TypeOK, Calm, Message
<1>32. CASE Touch
  <2>1. ASSUME quiet
        PROVE  ~(UpdateTouches \/ MonitorTouches \/ \E w \in Workers : WorkerTouches(w))
    <3>1. ~MonitorTouches
      BY DEF MonitorTouches, Staged, TypeOK
    <3>2. ~UpdateTouches
      BY <2>1 DEF UpdateTouches, Calm, Staged, TypeOK
    <3>3. ASSUME NEW w \in Workers
          PROVE  ~WorkerTouches(w)
      BY <2>1 DEF WorkerTouches, AtLivePort, Calm, Staged, TypeOK
    <3> QED BY <3>1, <3>2, <3>3
  <2> QED BY <1>32, <2>1 DEF Calm, Touch
<1>33. CASE UNCHANGED vars
  BY <1>33 DEF TypeOK, Calm, vars
<1> QED BY <1>1, <1>2, <1>3, <1>4, <1>5, <1>6, <1>7, <1>8, <1>9, <1>10, <1>11, <1>12, <1>13, <1>14, <1>15, <1>16, <1>17, <1>18, <1>19, <1>20, <1>21, <1>22, <1>23, <1>24, <1>25, <1>26, <1>27, <1>28, <1>29, <1>30, <1>31, <1>32, <1>33, <1>34 DEF Next, Main, Accept, Work, Update

-----------------------------------------------------------------------------
(* The invariant holds in the beginning, *)
LEMMA InitIInv == Init => IInv
<1> SUFFICES ASSUME Init
             PROVE  IInv
  OBVIOUS
<1>1. TypeOK
  <2>1. NoSession \in Sessions /\ Nowhere \in [run : Nat, id : Ids \cup {<<>>}]
    BY DEF NoSession, Sessions, Nowhere
  <2>2. slot \in [Slots -> Sessions] /\ at \in [Workers -> [run : Nat, id : Ids \cup {<<>>}]]
    BY <2>1 DEF Init
  <2>3. free \in [Slots -> Nat] /\ exits \in [1 .. MaxRuns -> Nat] /\ jobs \in Seq(Jobs)
    BY DEF Init
  <2> QED BY <2>2, <2>3 DEF Init, TypeOK, Stopped
<1>2. Slotted /\ Staged
  BY DEF Init, Slotted, Staged, Running, Deleting, Stopped, NoSession, Nowhere
<1>3. Live = {} /\ Going = {}
  BY DEF Init, Live, Going, NoSession
<1>4. Dated /\ Departs
  BY <1>3 DEF Init, Dated, Departs
<1>5. Single /\ Calm
  BY DEF Init, Single, Calm, NoSession
<1> QED BY <1>1, <1>2, <1>4, <1>5 DEF IInv

(* and every step keeps it. *)
LEMMA StepIInv == IInv /\ [Next]_vars => IInv'
<1> SUFFICES ASSUME IInv, [Next]_vars
             PROVE  IInv'
  OBVIOUS
<1>1. TypeOK' /\ Slotted'
  BY TypeStep DEF IInv
<1>2. Staged' /\ Dated' /\ Single' /\ Departs' /\ Calm'
  BY <1>1, StagedStep, DatedStep, SingleStep, DepartsStep, CalmStep DEF IInv
<1> QED BY <1>1, <1>2 DEF IInv

(***************************************************************************)
(* The invariant of the life cycle, for any number of slots, workers and   *)
(* runs, and whatever the fresh memory of a Session holds.                  *)
(***************************************************************************)
THEOREM LifecycleInvariance == Spec => []IInv
<1>1. Init => IInv
  BY InitIInv
<1>2. IInv /\ [Next]_vars => IInv'
  BY StepIInv
<1> QED BY <1>1, <1>2, PTL DEF Spec

(***************************************************************************)
(* A stop with nothing left to do is safe: afterwards no thread comes to    *)
(* what main has deleted, and no index is given out twice, although main     *)
(* waits neither for the workers nor, after F4, for the update thread        *)
(* (ServerStop, main).                                                      *)
(***************************************************************************)
THEOREM QuietStopCorrect == Spec => []QuietStopIsSafe
<1>1. IInv => QuietStopIsSafe
  BY DEF IInv, Calm, Single, QuietStopIsSafe
<1> QED BY <1>1, LifecycleInvariance, PTL

(***************************************************************************)
(* A job that was left in m_ThreadQ by an earlier run acquires no session of  *)
(* the new array, however often the server is started (AcquireSession,       *)
(* GetSessionID).                                                           *)
(***************************************************************************)
THEOREM OldJobsCorrect == Spec => []OldJobsMiss
<1>1. ASSUME IInv, NEW k \in DOMAIN jobs, jobs[k].run # run
      PROVE  ~Acquired(jobs[k].id)
  <2>1. jobs[k] \in Jobs
    BY <1>1 DEF IInv, TypeOK
  <2>2. jobs[k].id \in Ids
    BY <2>1 DEF Jobs
  <2> QED BY <1>1, <2>2, LiveIsAcquired DEF IInv, Dated
<1>2. IInv => OldJobsMiss
  BY <1>1 DEF OldJobsMiss
<1> QED BY <1>2, LifecycleInvariance, PTL

(***************************************************************************)
(* No client is left in m_ClientMap by stops and starts, as long as no worker *)
(* puts the index of an old run on a new stack: there is always a leave to    *)
(* come (DisconnectAllUser, OnClientLeave, the queue that outlives a run).   *)
(***************************************************************************)
THEOREM NoGhostCorrect == Spec => []NoGhostAcrossRuns
<1>1. ASSUME IInv, ~strayed, NEW i \in clients
      PROVE  \/ Acquired(i)
             \/ \E k \in DOMAIN jobs : jobs[k].type = "leave" /\ jobs[k].id = i
             \/ \E w \in Workers : pc[w] \in {"clear", "push", "leave"} /\ at[w].id = i
  <2>1. i \in Ids /\ (i \in Live \cup Going \/ Left(i))
    BY <1>1 DEF IInv, TypeOK, Departs
  <2>2. CASE i \in Live
    BY <1>1, <2>1, <2>2, LiveIsAcquired DEF IInv
  <2>3. CASE i \in Going
    BY <2>3 DEF Going
  <2>4. CASE Left(i)
    BY <2>4 DEF Left
  <2> QED BY <2>1, <2>2, <2>3, <2>4
<1>2. IInv => NoGhostAcrossRuns
  BY <1>1 DEF NoGhostAcrossRuns
<1> QED BY <1>2, LifecycleInvariance, PTL
=============================================================================
