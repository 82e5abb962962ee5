----------------------------- MODULE Lifecycle -----------------------------
(***************************************************************************)
(* main.cpp with ChattingServerStart/Stop, ServerStart/Stop and              *)
(* DisconnectAllUser, while the threads of the server run: who has ended,    *)
(* and who still comes to the session array, to the index stack or to the    *)
(* server, when main deletes them, and what a next run finds.                *)
(* NetServer has the sessions in detail; here the steps are finer only where  *)
(* main does not wait: after _USED is cleared, for posted IDs and for jobs.   *)
(***************************************************************************)
EXTENDS Integers, Sequences, FiniteSets

CONSTANTS
    Slots,              \* the indices of m_SessionArray
    Workers,            \* names for worker threads
    WorkerCount,        \* m_WorkerThreadCount
    FreshCloseFlags,    \* what the memory of a new Session may hold: _CloseFlag is not initialised
    MaxRuns, MaxSerial, MaxSent     \* bounds: starts, sessions, messages of clients

ASSUME LifecycleAssumption ==
    /\ IsFiniteSet(Slots) /\ IsFiniteSet(Workers)
    /\ WorkerCount \in 1 .. Cardinality(Workers)
    /\ FreshCloseFlags \subseteq BOOLEAN /\ FreshCloseFlags # {}
    /\ {MaxRuns, MaxSerial, MaxSent} \subseteq Nat

VARIABLES
    main,       \* where the main thread is
    run,        \* how many times the server has been started
    listening,  \* m_ListenSocket is open
    accept,     \* the accept thread: in accept(), in AcceptUser's loop around Pop, or ended
    monitor,    \* the monitor thread: waiting, scanning the array, or ended
    monitorEvent,
    array,      \* the run whose m_SessionArray exists, 0 if it was deleted
    slot,       \* m_SessionArray
    stack,      \* the run whose m_IndexStack exists, 0 if it was deleted
    free,       \* how often an index is in it
    pc,         \* where each worker is
    at,         \* the run of the port it waits at, or of the slot it works on, and that slot's ID
    posts,      \* the IDs posted to the port of this run
    exits,      \* how many empty packets wait in the port of each run
    jobs,       \* m_ThreadQ, which outlives a run
    jobEvent, stopEvent,    \* m_EventUpdateThread[1] and [0]
    update,     \* the update thread: waiting, draining the queue, or ended
    clients,    \* the IDs in m_ClientMap
    serial,     \* m_SessionID
    sent,       \* how many messages the clients have sent
    quiet,      \* in every stop so far, nothing was left to do when main began to delete
    strayed,    \* an index of one run was put on the stack of another
    crash       \* why the process has died, or "none"

tableVars   == <<array, slot, stack, free>>
workVars    == <<pc, at, posts, exits>>
contentVars == <<jobs, jobEvent, stopEvent, update, clients>>
netVars     == <<listening, accept, monitor, monitorEvent>>
mainVars    == <<main, run, quiet>>
restVars    == <<serial, sent, crash, strayed>>
vars == <<mainVars, netVars, tableVars, workVars, contentVars, restVars>>

NoSession == [used |-> FALSE, id |-> <<>>, closed |-> FALSE, open |-> FALSE,
              announced |-> FALSE, recv |-> "none"]

Nowhere == [run |-> 0, id |-> <<>>]

SlotOf(id) == id[1]

Alive == crash = "none" /\ main # "exited"

Init ==
    /\ main = "off" /\ run = 0 /\ quiet = TRUE
    /\ listening = FALSE /\ accept = "none" /\ monitor = "none" /\ monitorEvent = FALSE
    /\ array = 0 /\ slot = [s \in Slots |-> NoSession] /\ stack = 0 /\ free = [s \in Slots |-> 0]
    /\ pc = [w \in Workers |-> "none"] /\ at = [w \in Workers |-> Nowhere]
    /\ posts = {} /\ exits = [r \in 1 .. MaxRuns |-> 0]
    /\ jobs = <<>> /\ jobEvent = FALSE /\ stopEvent = FALSE /\ update = "none" /\ clients = {}
    /\ serial = 0 /\ sent = 0 /\ crash = "none" /\ strayed = FALSE

-----------------------------------------------------------------------------
(* main *)
\* ChattingServerStart makes new events and the update thread, which waits ...
StartContent ==
    /\ main = "off" /\ Alive /\ run < MaxRuns
    /\ Cardinality({w \in Workers : pc[w] = "none"}) >= WorkerCount
    /\ main' = "start"
    /\ jobEvent' = FALSE /\ stopEvent' = FALSE /\ update' = "wait"
    /\ UNCHANGED <<run, quiet, jobs, clients, netVars, tableVars, workVars, restVars>>

\* ... then ServerStart: a new port, a new array and stack, and the threads
ServerStartFrom(firstSerial) ==
    /\ main = "start" /\ Alive
    /\ main' = "on" /\ run' = run + 1
    /\ array' = run' /\ stack' = run' /\ free' = [s \in Slots |-> 1]
    /\ \E flag \in [Slots -> FreshCloseFlags] :
          slot' = [s \in Slots |-> [NoSession EXCEPT !.closed = flag[s]]]
    /\ \E names \in SUBSET {w \in Workers : pc[w] = "none"} :
          /\ Cardinality(names) = WorkerCount
          /\ pc' = [w \in Workers |-> IF w \in names THEN "port" ELSE pc[w]]
          /\ at' = [w \in Workers |-> IF w \in names THEN [Nowhere EXCEPT !.run = run'] ELSE at[w]]
    /\ posts' = {}
    /\ listening' = TRUE /\ accept' = "accept" /\ monitor' = "wait" /\ monitorEvent' = FALSE
    /\ serial' = firstSerial
    /\ UNCHANGED <<quiet, exits, contentVars, sent, crash, strayed>>

(* Mutant: the session IDs of a run begin anew. *)
ServerStartRenumbers == ServerStartFrom(0)

ServerStart == ServerStartFrom(serial)

\* the key q, or F4: ServerStop closes the listening socket
StopListening ==
    /\ main = "on" /\ Alive
    /\ listening' = FALSE
    /\ main' = "awaitAccept"
    /\ UNCHANGED <<run, quiet, accept, monitor, monitorEvent, tableVars, workVars, contentVars, restVars>>

(* Mutant: the accept thread is not waited for. *)
AcceptNotAwaited ==
    /\ main = "awaitAccept" /\ Alive
    /\ monitorEvent' = TRUE
    /\ main' = "awaitMonitor"
    /\ UNCHANGED <<run, quiet, listening, accept, monitor, tableVars, workVars, contentVars, restVars>>

AwaitAccept ==
    /\ main = "awaitAccept" /\ accept = "none" /\ Alive
    /\ monitorEvent' = TRUE
    /\ main' = "awaitMonitor"
    /\ UNCHANGED <<run, quiet, listening, accept, monitor, tableVars, workVars, contentVars, restVars>>

(* Mutant: the monitor thread is not waited for. *)
MonitorNotAwaited ==
    /\ main = "awaitMonitor" /\ Alive
    /\ main' = "disconnect"
    /\ UNCHANGED <<run, quiet, netVars, tableVars, workVars, contentVars, restVars>>

AwaitMonitor ==
    /\ main = "awaitMonitor" /\ monitor = "none" /\ Alive
    /\ main' = "disconnect"
    /\ UNCHANGED <<run, quiet, netVars, tableVars, workVars, contentVars, restVars>>

\* what ReleaseSocket does to a slot: a receive that is pending fails
SocketReleased(r) ==
    IF r.closed THEN r
    ELSE [r EXCEPT !.closed = TRUE, !.open = FALSE,
                   !.recv = IF @ = "pending" THEN "failed" ELSE @]

\* DisconnectAllUser: one pass of ReleaseSocket over the slots in use ...
DisconnectAll ==
    /\ main = "disconnect" /\ Alive
    /\ slot' = [s \in Slots |-> IF slot[s].used THEN SocketReleased(slot[s]) ELSE slot[s]]
    /\ main' = "spin"
    /\ UNCHANGED <<run, quiet, array, stack, free, netVars, workVars, contentVars, restVars>>

\* ... then it looks until no slot is in use, and deletes the array
DeleteArray ==
    /\ main = "spin" /\ Alive
    /\ \A s \in Slots : ~slot[s].used
    /\ array' = 0
    /\ quiet' = /\ quiet
                /\ \A w \in Workers : pc[w] \in {"none", "port"}
                /\ posts = {} /\ jobs = <<>> /\ update = "wait" /\ ~jobEvent
    /\ main' = "post"
    /\ UNCHANGED <<run, slot, stack, free, netVars, workVars, contentVars, restVars>>

\* the packets that end the workers; waiting for their closed handles does not wait
PostExits ==
    /\ main = "post" /\ Alive
    /\ exits' = [exits EXCEPT ![run] = @ + WorkerCount]
    /\ main' = "deleteStack"
    /\ UNCHANGED <<run, quiet, netVars, tableVars, pc, at, posts, contentVars, restVars>>

\* ServerStop ends.  After the key q ChattingServerStop asks the update thread to end, and
\* waits for it; after F4 main() does not.
DeleteStack ==
    /\ main = "deleteStack" /\ Alive
    /\ stack' = 0
    /\ \/ main' = "awaitUpdate" /\ stopEvent' = TRUE
       \/ main' = "deleteServer" /\ UNCHANGED stopEvent
    /\ UNCHANGED <<run, quiet, array, slot, free, netVars, workVars,
                   jobs, jobEvent, update, clients, restVars>>

(* Mutant: what the update thread has left is thrown away. *)
AwaitUpdateClears ==
    /\ main = "awaitUpdate" /\ update = "none" /\ Alive
    /\ main' = "off"
    /\ jobs' = <<>>
    /\ UNCHANGED <<run, quiet, netVars, tableVars, workVars, jobEvent, stopEvent, update, clients, restVars>>

AwaitUpdate ==
    /\ main = "awaitUpdate" /\ update = "none" /\ Alive
    /\ main' = "off"
    /\ UNCHANGED <<run, quiet, netVars, tableVars, workVars, contentVars, restVars>>

\* F4 while the server is off
QuitStopped ==
    /\ main = "off" /\ run > 0 /\ Alive
    /\ main' = "deleteServer"
    /\ UNCHANGED <<run, quiet, netVars, tableVars, workVars, contentVars, restVars>>

\* main() deletes the server, and returns, which ends the process
DeleteServer ==
    /\ main = "deleteServer" /\ Alive
    /\ main' = "deleted"
    /\ UNCHANGED <<run, quiet, netVars, tableVars, workVars, contentVars, restVars>>

Return ==
    /\ main = "deleted" /\ Alive
    /\ main' = "exited"
    /\ UNCHANGED <<run, quiet, netVars, tableVars, workVars, contentVars, restVars>>

Main ==
    \/ ServerStart \/ AwaitAccept \/ AwaitMonitor \/ DisconnectAll \/ DeleteArray \/ PostExits
    \/ DeleteStack \/ AwaitUpdate \/ DeleteServer \/ Return

-----------------------------------------------------------------------------
(* The accept thread. *)
AcceptSocket ==
    /\ accept = "accept" /\ listening /\ serial < MaxSerial /\ Alive
    /\ accept' = "pop"
    /\ UNCHANGED <<mainVars, listening, monitor, monitorEvent, tableVars, workVars, contentVars, restVars>>

AcceptEnds ==
    /\ accept = "accept" /\ ~listening /\ Alive
    /\ accept' = "none"
    /\ UNCHANGED <<mainVars, listening, monitor, monitorEvent, tableVars, workVars, contentVars, restVars>>

\* MakeJobNEnQ
Enqueue(type, id, idRun) ==
    /\ jobs' = Append(jobs, [type |-> type, id |-> id, run |-> idRun])
    /\ jobEvent' = TRUE

\* AcceptUser takes an index as soon as there is one, and opens a session
AcceptUser(s) ==
    /\ accept = "pop" /\ free[s] > 0 /\ Alive
    /\ accept' = "accept"
    /\ serial' = serial + 1
    /\ free' = [free EXCEPT ![s] = @ - 1]
    /\ slot' = [slot EXCEPT ![s].used = TRUE, ![s].id = <<s, serial'>>, ![s].open = TRUE,
                            ![s].recv = "pending"]
    /\ Enqueue("join", <<s, serial'>>, run)
    /\ UNCHANGED <<mainVars, listening, monitor, monitorEvent, array, stack, workVars,
                   stopEvent, update, clients, sent, crash, strayed>>

Accept == AcceptSocket \/ AcceptEnds \/ \E s \in Slots : AcceptUser(s)

(* The monitor thread; its time-outs are off (main.cpp). *)
MonitorWakes ==
    /\ monitor = "wait" /\ Alive
    /\ monitor' = IF monitorEvent THEN "none" ELSE "scan"
    /\ UNCHANGED <<mainVars, listening, accept, monitorEvent, tableVars, workVars, contentVars, restVars>>

MonitorScans ==
    /\ monitor = "scan" /\ array # 0 /\ Alive
    /\ monitor' = "wait"
    /\ UNCHANGED <<mainVars, listening, accept, monitorEvent, tableVars, workVars, contentVars, restVars>>

-----------------------------------------------------------------------------
(* The clients. *)
\* a message, which the kernel completes the pending receive with; the kind "=" announces a leave
Send(s, kind) ==
    /\ slot[s].recv = "pending" /\ slot[s].open /\ sent < MaxSent /\ Alive
    /\ sent' = sent + 1
    /\ slot' = [slot EXCEPT ![s].recv = kind]
    /\ UNCHANGED <<mainVars, netVars, array, stack, free, workVars, contentVars, serial, crash, strayed>>

Reset(s) ==
    /\ slot[s].recv = "pending" /\ slot[s].open /\ Alive
    /\ slot' = [slot EXCEPT ![s].recv = "failed"]
    /\ UNCHANGED <<mainVars, netVars, array, stack, free, workVars, contentVars, restVars>>

-----------------------------------------------------------------------------
(* The workers. *)
\* the loop of WorkerThread goes to the port that m_IOCP is now
ToPort(w) ==
    /\ pc' = [pc EXCEPT ![w] = "port"]
    /\ at' = [at EXCEPT ![w] = [Nowhere EXCEPT !.run = run]]

GetExit(w) ==
    /\ pc[w] = "port" /\ exits[at[w].run] > 0 /\ Alive
    /\ exits' = [exits EXCEPT ![at[w].run] = @ - 1]
    /\ pc' = [pc EXCEPT ![w] = "none"]
    /\ UNCHANGED <<mainVars, netVars, tableVars, at, posts, contentVars, restVars>>

AtLivePort(w) == pc[w] = "port" /\ at[w].run = run

\* a completed receive: OnRecv, then the next receive, which fails on a closed socket
GetData(w, s) ==
    /\ AtLivePort(w) /\ slot[s].recv \in {"chat", "="} /\ Alive
    /\ Enqueue(slot[s].recv, slot[s].id, run)
    /\ slot' = [slot EXCEPT ![s].recv = IF slot[s].open THEN "pending" ELSE "failed"]
    /\ UNCHANGED <<mainVars, netVars, array, stack, free, workVars, stopEvent, update, clients, restVars>>

\* a failed one: ReleaseSession, and SessionClear as far as _USED
GetFailure(w, s) ==
    /\ AtLivePort(w) /\ slot[s].recv = "failed" /\ Alive
    /\ IF slot[s].announced
         THEN /\ slot' = [slot EXCEPT ![s] = [NoSession EXCEPT !.id = slot[s].id]]
              /\ pc' = [pc EXCEPT ![w] = "clear"]
              /\ at' = [at EXCEPT ![w] = [run |-> run, id |-> slot[s].id]]
              /\ UNCHANGED crash
         ELSE crash' = "unannounced" /\ UNCHANGED <<slot, pc, at>>
    /\ UNCHANGED <<mainVars, netVars, array, stack, free, posts, exits, contentVars, serial, sent, strayed>>

\* SessionClear: the rest of the fields
Clear(w) ==
    /\ pc[w] = "clear" /\ array = at[w].run /\ Alive
    /\ pc' = [pc EXCEPT ![w] = "push"]
    /\ UNCHANGED <<mainVars, netVars, tableVars, at, posts, exits, contentVars, restVars>>

Push(w) ==
    /\ pc[w] = "push" /\ stack # 0 /\ Alive
    /\ pc' = [pc EXCEPT ![w] = "leave"]
    /\ free' = [free EXCEPT ![SlotOf(at[w].id)] = @ + 1]
    /\ strayed' = (strayed \/ stack # at[w].run)
    /\ UNCHANGED <<mainVars, netVars, array, slot, stack, at, posts, exits, contentVars,
                   serial, sent, crash>>

OnClientLeave(w) ==
    /\ pc[w] = "leave" /\ main # "deleted" /\ Alive
    /\ Enqueue("leave", at[w].id, at[w].run)
    /\ ToPort(w)
    /\ UNCHANGED <<mainVars, netVars, tableVars, posts, exits, stopEvent, update, clients, restVars>>

\* a posted ID: SendPost acquires the session, sends if it gets it, and lets go
GetPost(w, id) ==
    /\ AtLivePort(w) /\ id \in posts /\ array # 0 /\ Alive
    /\ posts' = posts \ {id}
    /\ UNCHANGED <<mainVars, netVars, tableVars, pc, at, exits, contentVars, restVars>>

Work(w) ==
    \/ GetExit(w)
    \/ \E s \in Slots : GetData(w, s) \/ GetFailure(w, s)
    \/ Clear(w) \/ Push(w) \/ OnClientLeave(w)
    \/ \E id \in posts : GetPost(w, id)

-----------------------------------------------------------------------------
(* The update thread. *)
\* WaitForMultipleObjects reports the first of the events that are set
Wake ==
    /\ update = "wait" /\ (stopEvent \/ jobEvent) /\ main # "deleted" /\ Alive
    /\ update' = IF stopEvent THEN "none" ELSE "drain"
    /\ stopEvent' = FALSE
    /\ jobEvent' = (jobEvent /\ stopEvent)
    /\ UNCHANGED <<mainVars, netVars, tableVars, workVars, jobs, clients, restVars>>

Drained ==
    /\ update = "drain" /\ jobs = <<>> /\ main # "deleted" /\ Alive
    /\ update' = "wait"
    /\ UNCHANGED <<mainVars, netVars, tableVars, workVars, jobs, jobEvent, stopEvent, clients, restVars>>

\* the session a job names, if AcquireSession gets it
Acquired(id) == slot[SlotOf(id)].used /\ slot[SlotOf(id)].id = id

\* CreateNewUser, or DeleteUser, which dies of a client that is not in the map
JoinOrLeave ==
    LET job == Head(jobs) IN
    /\ update = "drain" /\ jobs # <<>> /\ job.type \in {"join", "leave"} /\ main # "deleted" /\ Alive
    /\ jobs' = Tail(jobs)
    /\ clients' = IF job.type = "join" THEN clients \cup {job.id} ELSE clients \ {job.id}
    /\ crash' = IF job.type = "leave" /\ job.id \notin clients THEN "unknown" ELSE crash
    /\ UNCHANGED <<mainVars, netVars, tableVars, workVars, jobEvent, stopEvent, update,
                   serial, sent, strayed>>

\* a message: "=" marks the session, an answer is queued and its ID posted
Message ==
    LET job == Head(jobs) IN
    /\ update = "drain" /\ jobs # <<>> /\ job.type \in {"chat", "="} /\ array # 0 /\ main # "deleted" /\ Alive
    /\ jobs' = Tail(jobs)
    /\ IF Acquired(job.id)
         THEN /\ posts' = posts \cup {job.id}
              /\ slot' = [slot EXCEPT ![SlotOf(job.id)].announced = @ \/ job.type = "="]
         ELSE UNCHANGED <<posts, slot>>
    /\ UNCHANGED <<mainVars, netVars, array, stack, free, pc, at, exits, jobEvent, stopEvent, update,
                   clients, restVars>>

Update == Wake \/ Drained \/ JoinOrLeave \/ Message

-----------------------------------------------------------------------------
(* A thread comes to what main has deleted: what happens then is undefined.  *)
WorkerTouches(w) ==
    \/ pc[w] = "clear" /\ array # at[w].run
    \/ pc[w] = "push" /\ stack = 0
    \/ pc[w] = "leave" /\ main = "deleted"
    \/ AtLivePort(w) /\ posts # {} /\ array = 0

UpdateTouches ==
    \/ update = "wait" /\ jobEvent /\ main = "deleted"
    \/ update = "drain" /\ main = "deleted"
    \/ update = "drain" /\ jobs # <<>> /\ Head(jobs).type \in {"chat", "="} /\ array = 0

MonitorTouches == monitor = "scan" /\ array = 0

Touch ==
    /\ UpdateTouches \/ MonitorTouches \/ \E w \in Workers : WorkerTouches(w)
    /\ Alive
    /\ crash' = "deleted"
    /\ UNCHANGED <<mainVars, netVars, tableVars, workVars, contentVars, serial, sent, strayed>>

Next ==
    \/ StartContent \/ StopListening \/ QuitStopped \/ Main
    \/ Accept \/ MonitorWakes \/ MonitorScans \/ Update \/ Touch
    \/ \E w \in Workers : Work(w)
    \/ \E s \in Slots : Reset(s) \/ \E kind \in {"chat", "="} : Send(s, kind)

Spec == Init /\ [][Next]_vars

\* every thread that can go on is scheduled; nobody has to press a key or to connect
FairSpec ==
    /\ Spec
    /\ WF_vars(Main)
    /\ WF_vars(AcceptEnds \/ \E s \in Slots : AcceptUser(s))
    /\ WF_vars(MonitorWakes \/ MonitorScans) /\ WF_vars(Update)
    /\ \A w \in Workers : WF_vars(Work(w))
    /\ WF_vars(Touch)

-----------------------------------------------------------------------------
(***************************************************************************)
(* A stop comes to its end (main is back at the keyboard or the process is    *)
(* over), whatever the threads were doing, unless the process dies, the       *)
(* accept thread looks for a free index that there never is (AcceptUser), or   *)
(* the socket of a session is never closed because _CloseFlag was not         *)
(* initialised (DisconnectAllUser).                                          *)
(***************************************************************************)
NoIndexLeft == accept = "pop" /\ \A s \in Slots : free[s] = 0
NeverClosed == \E s \in Slots : slot[s].used /\ slot[s].closed /\ slot[s].open

StopEnds ==
    [](main = "awaitAccept" =>
         <>(main \in {"off", "exited"} \/ crash # "none" \/ []NoIndexLeft \/ []NeverClosed))

(***************************************************************************)
(* Nobody touches what was deleted, and no index is given out twice, if       *)
(* nothing was left to do whenever main began to delete: the threads that main    *)
(* waits for have ended and the workers only take the packets that end them.   *)
(* (With work left the code gives no such guarantee: see the README.)        *)
(***************************************************************************)
QuietStopIsSafe ==
    quiet => /\ crash # "deleted"
             /\ \A s \in Slots : free[s] <= 1

(***************************************************************************)
(* What a run has left in m_ThreadQ never reaches a session of the next:      *)
(* m_SessionID goes on, so that AcquireSession with an old ID fails in the    *)
(* new array (GetSessionID, MakeJobNEnQ).                                   *)
(***************************************************************************)
OldJobsMiss ==
    \A i \in DOMAIN jobs :
        jobs[i].run # run => ~Acquired(jobs[i].id)

(***************************************************************************)
(* No client is left in m_ClientMap by a stop and a start: one whose session  *)
(* is gone has its leave in the queue, which outlives the update thread, or    *)
(* a worker is about to put it there.  The exception is a worker that comes    *)
(* to Push only after the next start, and puts the index of the old run into   *)
(* the new stack: the index is then given out twice, and the second session    *)
(* overwrites the first, which never leaves (ServerStop, AcceptUser).          *)
(***************************************************************************)
NoGhostAcrossRuns ==
    ~strayed =>
        \A id \in clients :
            \/ Acquired(id)
            \/ \E i \in DOMAIN jobs : jobs[i].type = "leave" /\ jobs[i].id = id
            \/ \E w \in Workers : pc[w] \in {"clear", "push", "leave"} /\ at[w].id = id
=============================================================================
