----------------------------- MODULE ChatContent -----------------------------
(***************************************************************************)
(* The content of the chatting server (ChattingServer.cpp) and the life of *)
(* its packets: worker threads allocate a packet for each message and      *)
(* queue a job, the update thread runs the jobs on the client map and the  *)
(* sector lists and queues the packet, turned into the answer, to one or   *)
(* many sessions, and the workers drop it when it is sent.                 *)
(*                                                                         *)
(* What NetServer does for the content is taken in large steps: a session  *)
(* is accepted, receives, has its queued packets sent, and is released.    *)
(***************************************************************************)
EXTENDS MemoryPool_TLS, SequencesExt

CONSTANTS
    Sessions,   \* session IDs
    Nobody,     \* no session ID
    Workers,    \* the IOCP worker threads; they alone allocate packets
    Acceptor,   \* AcceptThread
    Columns,    \* dfSECTOR_X_MAX
    Rows,       \* dfSECTOR_Y_MAX
    Messages,   \* what clients send, see MessageAssumption
    MaxRecv     \* bound: messages received

Sectors == (0..(Columns - 1)) \X (0..(Rows - 1))

Far == 65535    \* 0xffff

NoSector == <<Far, Far>>

ASSUME ThreadAssumption == Workers = Threads /\ Acceptor \notin Workers

ASSUME SessionAssumption == IsFiniteSet(Sessions) /\ Nobody \notin Sessions

ASSUME MessageAssumption ==
    /\ Columns \in 1..(Far - 1) /\ Rows \in 1..(Far - 1)
    /\ \A m \in Messages :
        \/ m.type \in {"unknown", "short", "heartbeat"}   \* "short": of a wrong size
        \/ m.type = "login" /\ m.account \in Int
        \/ m.type = "move" /\ m.account \in Int /\ m.to \in (0..Far) \X (0..Far)
        \/ m.type = "chat" /\ m.account \in Int

Empty == [type |-> "empty"]   \* GetPayloadSize() = 0, after Clear

Reply == [type |-> "reply"]   \* an answer of the server

VARIABLES
    (* NetPacket *)
    refs,      \* m_RefCount
    body,      \* what m_Buffer holds
    (* sessions, as the content knows them *)
    session,   \* "new", "open", "leaving", "closed"
    sendQ,     \* _SendQ
    received,  \* messages received so far
    (* MyChattingServer *)
    jobs,      \* m_ThreadQ
    event,     \* m_EventUpdateThread[1], auto-reset
    clients,   \* m_ClientMap: the clients there are, and their Client
    sector,    \* m_Sector
    (* control *)
    at, hand,  \* of the threads of the network: the step, and the job in hand
    upd,       \* of the update thread
    crash,     \* the line of ChattingServer.cpp it died at, or 0
    logins     \* history: a login was processed

packetVars == <<refs, body>>
netVars == <<session, sendQ, received>>
contentVars == <<clients, sector>>
vars == <<poolVars, packetVars, netVars, jobs, event, contentVars, at, hand, upd, crash, logins>>

---------------------------------------------------------------------------
(* Packets *)

(* Free: Clear and back to the pool; Clear makes m_RefCount 1 again. *)
Free(p) ==
    /\ FreeObject(p)
    /\ refs' = [refs EXCEPT ![p] = 1]
    /\ body' = [body EXCEPT ![p] = Empty]

(* if (0 == DecrementRefCount()) Free *)
Drop(p) ==
    IF refs[p] = 1
    THEN Free(p)
    ELSE refs' = [refs EXCEPT ![p] = @ - 1] /\ UNCHANGED <<poolVars, body>>

---------------------------------------------------------------------------
(* The threads of the network *)

NetThreads == Workers \cup {Acceptor}

Job(type, s, p) == [type |-> type, id |-> s, packet |-> p]

NoJob == Job("none", Nobody, <<0, 0>>)

At(t, step) == crash = "none" /\ at[t] = step

Take(t, step, job) == at' = [at EXCEPT ![t] = step] /\ hand' = [hand EXCEPT ![t] = job]

(* Mutant of Accept: the first receive is posted before OnClientJoin. *)
AcceptOpen(s) ==
    /\ At(Acceptor, "idle") /\ session[s] = "new"
    /\ session' = [session EXCEPT ![s] = "open"]
    /\ Take(Acceptor, "enqueue", Job("join", s, <<0, 0>>))
    /\ UNCHANGED <<poolVars, packetVars, sendQ, received, jobs, event, contentVars, upd, crash, logins>>

(* AcceptUser calls OnClientJoin before it posts the first receive. *)
Accept(s) ==
    /\ At(Acceptor, "idle") /\ session[s] = "new"
    /\ Take(Acceptor, "enqueue", Job("join", s, <<0, 0>>))
    /\ UNCHANGED <<poolVars, packetVars, netVars, jobs, event, contentVars, upd, crash, logins>>

(* Before the first Alloc of a thread. *)
FirstChunk(w) ==
    /\ At(w, "idle") /\ tls[w] = NoChunk /\ received < MaxRecv
    /\ ChunkSetting(w)
    /\ UNCHANGED <<packetVars, netVars, jobs, event, contentVars, at, hand, upd, crash, logins>>

(* A receive of s completes; one is posted at a time. Alloc, and a message  *)
(* is copied into the packet.                                               *)
RecvPacket(w, s) ==
    LET p == NextObject(w) IN
    /\ At(w, "idle") /\ tls[w] # NoChunk
    /\ session[s] = "open" /\ \A u \in Workers : hand[u].id # s
    /\ received < MaxRecv /\ received' = received + 1
    /\ TakeObject(w)
    /\ \E m \in Messages : body' = [body EXCEPT ![p] = m]
    /\ Take(w, IF p[2] = 0 THEN "refill" ELSE "enqueue", Job("message", s, p))
    /\ UNCHANGED <<refs, session, sendQ, jobs, event, contentVars, upd, crash, logins>>

(* Mutant of Refill: the thread keeps the chunk it has used up, and takes   *)
(* another when it is asked for more.                                       *)
RefillNot(w) ==
    /\ At(w, "refill")
    /\ at' = [at EXCEPT ![w] = "enqueue"]
    /\ UNCHANGED <<poolVars, packetVars, netVars, jobs, event, contentVars, hand, upd, crash, logins>>

(* Alloc has taken the last object of the chunk: the next chunk is set      *)
(* before the object is returned.                                           *)
Refill(w) ==
    /\ At(w, "refill")
    /\ ChunkSetting(w)
    /\ at' = [at EXCEPT ![w] = "enqueue"]
    /\ UNCHANGED <<packetVars, netVars, jobs, event, contentVars, hand, upd, crash, logins>>

(* MakeJobNEnQ. *)
EnQ(t) ==
    /\ At(t, "enqueue")
    /\ jobs' = Append(jobs, hand[t])
    /\ Take(t, "signal", [hand[t] EXCEPT !.packet = <<0, 0>>])
    /\ UNCHANGED <<poolVars, packetVars, netVars, event, contentVars, upd, crash, logins>>

(* SetEvent; the session is open once its join is queued, closed once its   *)
(* leave is.                                                                *)
SetTheEvent(t) ==
    /\ At(t, "signal")
    /\ event' = TRUE
    /\ session' = [session EXCEPT ![hand[t].id] =
                      CASE hand[t].type = "join" -> "open"
                        [] hand[t].type = "leave" -> "closed"
                        [] hand[t].type = "message" -> @]
    /\ Take(t, "idle", NoJob)
    /\ UNCHANGED <<poolVars, packetVars, sendQ, received, jobs, contentVars, upd, crash, logins>>
(* A queued packet of s was sent. *)
SendComplete(w, s) ==
    /\ At(w, "idle") /\ session[s] = "open" /\ sendQ[s] # <<>>
    /\ sendQ' = [sendQ EXCEPT ![s] = Tail(@)]
    /\ IF body[Head(sendQ[s])] = Empty   \* SendPost had found it empty
       THEN crash' = "SendPost" /\ UNCHANGED <<poolVars, packetVars>>
       ELSE Drop(Head(sendQ[s])) /\ UNCHANGED crash
    /\ UNCHANGED <<session, received, jobs, event, contentVars, at, hand, upd, logins>>

(* ReleaseSession; a receive in work keeps the session. *)
Release(w, s) ==
    /\ At(w, "idle") /\ session[s] = "open"
    /\ \A u \in NetThreads : hand[u].id # s
    /\ session' = [session EXCEPT ![s] = "leaving"]
    /\ Take(w, "release", Job("leave", s, <<0, 0>>))
    /\ UNCHANGED <<poolVars, packetVars, sendQ, received, jobs, event, contentVars, upd, crash, logins>>

(* ReleasePacket, then OnClientLeave. *)
ReleasePacket(w) ==
    LET s == hand[w].id IN
    /\ At(w, "release")
    /\ IF sendQ[s] = <<>>
       THEN /\ at' = [at EXCEPT ![w] = "enqueue"]
            /\ UNCHANGED <<poolVars, packetVars, sendQ>>
       ELSE /\ sendQ' = [sendQ EXCEPT ![s] = Tail(@)]
            /\ Drop(Head(sendQ[s]))
            /\ UNCHANGED at
    /\ UNCHANGED <<session, received, jobs, event, contentVars, hand, upd, crash, logins>>

---------------------------------------------------------------------------
(* The update thread. It alone touches the clients and the sectors, so that *)
(* a job is one step up to the first packet it queues.                      *)

Updating(step) == crash = "none" /\ upd.at = step

UpdateStep == UNCHANGED <<netVars, at, hand>>

Idle == [at |-> "drain", packet |-> <<0, 0>>, to |-> <<>>, sent |-> 0, wide |-> FALSE]

Waiting == [Idle EXCEPT !.at = "wait"]

(* WaitForMultipleObjects; the event is auto-reset. *)
Wake ==
    /\ Updating("wait") /\ event
    /\ event' = FALSE
    /\ upd' = Idle
    /\ UpdateStep /\ UNCHANGED <<poolVars, packetVars, jobs, contentVars, crash, logins>>

(* Mutant of Drained: one job for each time the event is set. *)
DrainedEarly ==
    /\ Updating("drain")
    /\ upd' = Waiting
    /\ UpdateStep /\ UNCHANGED <<poolVars, packetVars, jobs, event, contentVars, crash, logins>>

(* DeQ finds no job. *)
Drained ==
    /\ Updating("drain") /\ jobs = <<>>
    /\ upd' = Waiting
    /\ UpdateStep /\ UNCHANGED <<poolVars, packetVars, jobs, event, contentVars, crash, logins>>

NextJob(type) ==
    /\ Updating("drain") /\ jobs # <<>>
    /\ Head(jobs).type = type
    /\ jobs' = Tail(jobs)
    /\ UpdateStep /\ UNCHANGED event

Die(where) == crash' = where /\ UNCHANGED <<poolVars, packetVars, contentVars, upd, logins>>

(* The Client constructor (m_ClientPool has placement new). *)
NewClient == [sector |-> NoSector, account |-> 0]

CreateNewUser ==
    /\ NextJob("join")
    /\ clients' = [s \in DOMAIN clients \cup {Head(jobs).id} |->
                      IF s \in DOMAIN clients THEN clients[s] ELSE NewClient]
    /\ UNCHANGED <<poolVars, packetVars, sector, upd, crash, logins>>

(* The list of c without the first pointer to s. *)
Erased(c, s) == IF c \in Sectors THEN [sector EXCEPT ![c] = RemoveFirst(@, s)] ELSE sector

DeleteUser ==
    LET s == Head(jobs).id IN
    /\ NextJob("leave")
    /\ IF s \notin DOMAIN clients
       THEN Die("DeleteUser")
       ELSE /\ clients' = [r \in DOMAIN clients \ {s} |-> clients[r]]
            /\ sector' = Erased(clients[s].sector, s)
            /\ UNCHANGED <<poolVars, packetVars, upd, crash, logins>>

(* MessageMarshalling of a message of one of the types, for a client that   *)
(* must be there.                                                           *)
Message(s, m) == NextJob("message") /\ s = Head(jobs).id /\ m = body[Head(jobs).packet]

Known(s, m, types) == m.type \in types /\ s \in DOMAIN clients

(* No type, a heartbeat, or a client that is not there. *)
DieOf(s, m) ==
    IF m = Empty \/ m.type = "heartbeat" THEN "Marshal"
    ELSE IF m.type \in {"login", "move", "chat", "short"} /\ s \notin DOMAIN clients THEN "FindClient"
    ELSE "none"

DieOnMessage(s, m) == Message(s, m) /\ DieOf(s, m) # "none" /\ Die(DieOf(s, m))

(* The packet is freed and the session disconnected: it will be released. *)
Refuse(s, m) ==
    /\ Message(s, m)
    /\ \/ m.type \in {"unknown", "reply"}
       \/ Known(s, m, {"short"})
       \/ Known(s, m, {"move", "chat"}) /\ m.account # clients[s].account
    /\ Free(Head(jobs).packet)
    /\ UNCHANGED <<contentVars, upd, crash, logins>>

(* SendUnicast and SendSector hold the packet while they queue it. *)
Sending(p, to, wide) == [at |-> "send", packet |-> p, to |-> to, sent |-> 0, wide |-> wide]

(* Clear and MakePacket: the packet of the request becomes the answer. *)
Answer(p) ==
    /\ refs' = [refs EXCEPT ![p] = 1]
    /\ body' = [body EXCEPT ![p] = Reply]

(* Clear makes the count 1, the decrement 0: the packet is freed. *)
Login(s, m) ==
    /\ Message(s, m) /\ Known(s, m, {"login"})
    /\ clients' = [clients EXCEPT ![s].account = m.account]
    /\ Free(Head(jobs).packet)
    /\ upd' = [Sending(Head(jobs).packet, <<s>>, FALSE) EXCEPT !.at = "answer"]
    /\ logins' = TRUE
    /\ UNCHANGED <<sector, crash>>

(* The answer is made in the packet all the same. *)
LoginAnswer ==
    /\ Updating("answer")
    /\ body' = [body EXCEPT ![upd.packet] = Reply]
    /\ upd' = [upd EXCEPT !.at = "send"]
    /\ UpdateStep /\ UNCHANGED <<poolVars, refs, jobs, event, contentVars, crash, logins>>

(* Mutant of SectorMove: the client stays in the list of its old sector. *)
SectorAdd(s, m) ==
    /\ Message(s, m) /\ Known(s, m, {"move"}) /\ m.account = clients[s].account
    /\ clients' = [clients EXCEPT ![s].sector = m.to]
    /\ m.to \in Sectors /\ sector' = [sector EXCEPT ![m.to] = Append(@, s)]
    /\ Answer(Head(jobs).packet)
    /\ upd' = Sending(Head(jobs).packet, <<s>>, FALSE)
    /\ UNCHANGED <<poolVars, crash, logins>>

SectorMove(s, m) ==
    /\ Message(s, m) /\ Known(s, m, {"move"}) /\ m.account = clients[s].account
    /\ IF m.to \notin Sectors
       THEN Die("SectorMove")
       ELSE /\ clients' = [clients EXCEPT ![s].sector = m.to]
            /\ sector' = [Erased(clients[s].sector, s) EXCEPT ![m.to] = Append(@, s)]
            /\ Answer(Head(jobs).packet)
            /\ upd' = Sending(Head(jobs).packet, <<s>>, FALSE)
            /\ UNCHANGED <<poolVars, crash, logins>>

(* The clients of the sector at x and y, if there is one, of three in a row, *)
(* and of the nine sectors around c, row by row.                             *)
Listeners(x, y) == IF <<x, y>> \in Sectors THEN sector[<<x, y>>] ELSE <<>>

(* Mutant of RowOfThree: the middle sector is taken twice. *)
RowTwice(x, y) == Listeners(x, y) \o Listeners(x, y) \o Listeners(x + 1, y)

RowOfThree(x, y) == Listeners(x - 1, y) \o Listeners(x, y) \o Listeners(x + 1, y)

Recipients(c) == RowOfThree(c[1], c[2] - 1) \o RowOfThree(c[1], c[2]) \o RowOfThree(c[1], c[2] + 1)

(* A client that has not moved yet is in no sector: SendSector dies. *)
Chat(s, m) ==
    /\ Message(s, m) /\ Known(s, m, {"chat"}) /\ m.account = clients[s].account
    /\ IF clients[s].sector \notin Sectors
       THEN Die("SendSector")
       ELSE /\ Answer(Head(jobs).packet)
            /\ upd' = Sending(Head(jobs).packet, Recipients(clients[s].sector), TRUE)
            /\ UNCHANGED <<poolVars, contentVars, crash, logins>>

(* Mutant of SendNext: the recipient is not counted. *)
SendUncounted ==
    LET s == Head(upd.to)  sent == session[s] \in {"new", "open"} IN
    /\ Updating("send") /\ upd.to # <<>>
    /\ upd' = [upd EXCEPT !.to = Tail(@), !.sent = IF sent THEN @ + 1 ELSE @]
    /\ sendQ' = IF sent THEN [sendQ EXCEPT ![s] = Append(@, upd.packet)] ELSE sendQ
    /\ UNCHANGED <<poolVars, packetVars, session, received, jobs, event, contentVars, at, hand, crash, logins>>

(* IncrementRefCount and SendPacket to the next recipient. SendPacket gives *)
(* its count back if the session has been released.                         *)
SendNext ==
    LET s == Head(upd.to)  p == upd.packet  sent == session[s] \in {"new", "open"} IN
    /\ Updating("send") /\ upd.to # <<>>
    /\ upd' = [upd EXCEPT !.to = Tail(@), !.sent = IF sent THEN @ + 1 ELSE @]
    /\ IF body[p] = Empty
       THEN crash' = "SendPacket" /\ UNCHANGED <<refs, sendQ>>
       ELSE /\ refs' = IF sent THEN [refs EXCEPT ![p] = @ + 1] ELSE refs
            /\ sendQ' = IF sent THEN [sendQ EXCEPT ![s] = Append(@, p)] ELSE sendQ
            /\ UNCHANGED crash
    /\ UNCHANGED <<poolVars, body, session, received, jobs, event, contentVars, at, hand, logins>>

(* Mutant of SendEnd: the sender frees the packet, whoever still has it. *)
SendEndFrees ==
    /\ Updating("send") /\ upd.to = <<>>
    /\ Free(upd.packet)
    /\ upd' = Idle
    /\ UpdateStep /\ UNCHANGED <<jobs, event, contentVars, crash, logins>>

(* The sender's own count. SendSector dies if the packet was queued nowhere *)
(* and is not free now.                                                     *)
SendEnd ==
    /\ Updating("send") /\ upd.to = <<>>
    /\ Drop(upd.packet)
    /\ crash' = IF upd.wide /\ upd.sent = 0 /\ refs[upd.packet] # 1 THEN "NotFreed" ELSE crash
    /\ upd' = Idle
    /\ UpdateStep /\ UNCHANGED <<jobs, event, contentVars, logins>>

---------------------------------------------------------------------------
Network ==
    \/ \E t \in NetThreads : EnQ(t) \/ SetTheEvent(t)
    \/ \E w \in Workers : FirstChunk(w) \/ Refill(w) \/ ReleasePacket(w)
    \/ \E s \in Sessions :
        \/ Accept(s)
        \/ \E w \in Workers : RecvPacket(w, s) \/ SendComplete(w, s) \/ Release(w, s)

Process(s, m) == DieOnMessage(s, m) \/ Refuse(s, m) \/ Login(s, m) \/ SectorMove(s, m) \/ Chat(s, m)

Update ==
    \/ Wake \/ Drained
    \/ CreateNewUser \/ DeleteUser
    \/ \E s \in Sessions, m \in Messages \cup {Empty, Reply} : Process(s, m)
    \/ LoginAnswer
    \/ SendNext \/ SendEnd

Next == Network \/ Update

Init ==
    /\ PoolInit
    /\ refs = [p \in Objects |-> 1] /\ body = [p \in Objects |-> Empty]
    /\ session = [s \in Sessions |-> "new"]
    /\ sendQ = [s \in Sessions |-> <<>>]
    /\ received = 0
    /\ jobs = <<>> /\ event = FALSE
    /\ clients = <<>>
    /\ sector = [c \in Sectors |-> <<>>]
    /\ at = [t \in NetThreads |-> "idle"]
    /\ hand = [t \in NetThreads |-> NoJob]
    /\ upd = Waiting
    /\ crash = "none" /\ logins = FALSE

(* The packets somebody has, and how many counts there are for one. *)
Packets(j) == IF j.type = "message" THEN {j.packet} \ {<<0, 0>>} ELSE {}

AtWork ==
    (UNION {Packets(hand[w]) : w \in Workers})
      \cup (UNION {Packets(j) : j \in ToSet(jobs)})
      \cup (IF upd.at \in {"send", "answer"} THEN {upd.packet} ELSE {})

Queued == UNION {ToSet(sendQ[s]) : s \in Sessions}

Places(p) == UNION {{s} \X {i \in DOMAIN sendQ[s] : sendQ[s][i] = p} : s \in Sessions}

Counts(p) == Cardinality(Places(p)) + (IF p \in AtWork THEN 1 ELSE 0)

Spec == Init /\ [][Next]_vars

---------------------------------------------------------------------------
(* The sector lists and the clients say the same: a client is once in the   *)
(* list of its sector and in no other, and a pointer in a list is to a      *)
(* client that is there (SECTOR_MOVE, DeleteUser).                          *)
SectorsMatch ==
    /\ \A c \in Sectors : IsInjective(sector[c])
    /\ \A c \in Sectors, s \in Sessions :
          s \in ToSet(sector[c]) <=> s \in DOMAIN clients /\ clients[s].sector = c

(* m_RefCount of a packet is the number of those who will drop it: the send *)
(* queues it is in, and the job or handler that has it. True until a login  *)
(* is processed.                                                            *)
RefsExact ==
    ~logins => \A p \in AtWork \cup Queued : refs[p] = Counts(p)

(* The pool knows which packets are in use: none is lost, none is given     *)
(* back twice, no chunk is in two hands. True until a login is processed.   *)
PoolSound == crash = "none" /\ ~logins => PoolExact(AtWork \cup Queued)

(* A chunk is the TLS chunk of one thread at most: "Alloc runs in each      *)
(* thread, so that no Interlock is needed" (MemoryPool_TLS.h:97).          *)
AllocIsPrivate ==
    \A t, u \in Workers : tls[t] = tls[u] => t = u \/ tls[t] = NoChunk

(* What is queued to be sent is an answer, what the update thread will read *)
(* is what the client sent: nobody wrote into a packet in between. True     *)
(* until a login is processed.                                              *)
BodiesKept ==
    ~logins => /\ \A p \in Queued : body[p] = Reply
               /\ \A j \in ToSet(jobs) : j.type = "message" => body[j.packet] \in Messages

(* The Crash() calls that check the server's own bookkeeping are not        *)
(* reached before a login: what clients send leads to the others alone.     *)
NoInternalCrash == ~logins => crash \in {"none", "SectorMove", "SendSector", "Marshal"}

(* The update thread never sleeps on a job: MakeJobNEnQ sets the event      *)
(* after EnQ, and the thread drains the queue before it waits.              *)
NoLostWakeUp ==
    upd.at = "wait" /\ jobs # <<>> => event \/ \E t \in NetThreads : at[t] = "signal"

(* The answers go, once each, to those the rooms say: the lists, the packets *)
(* and the update thread's sends implement ChatRooms (SectorMove, SendSector). *)
Rooms == INSTANCE ChatRooms WITH
    Nowhere <- NoSector,
    where <- [s \in DOMAIN clients |-> clients[s].sector],
    owed <- ToSet(upd.to),
    mail <- [s \in Sessions |-> Len(sendQ[s])],
    gone <- {s \in Sessions : session[s] \in {"leaving", "closed"}},
    down <- crash # "none"

RoomsSpec == Rooms!Spec
=============================================================================
