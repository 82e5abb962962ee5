# A verification of the chatting server in TLA+

This directory holds TLA+ models of `SingleThread_ChattingServer_LoginVer`, a chatting server on Windows I/O
completion ports, the configurations that check them with TLC, and theorems about them checked by TLAPS. `N` below is
`NetServerLib.cpp`, `H` is `NetServerLib.h`, `C` is `ChattingServer.cpp`; a number is a line.

1. [The system](#1-the-system): its parts, what they keep and how they meet
2. [What is hard about it](#2-what-is-hard-about-it)
3. [The modules](#3-the-modules) and how they correspond to the code
4. [The runs](#4-the-runs): what each shows, bounds, fairness
5. [What the runs found](#5-what-the-runs-found)
6. [What is proved](#6-what-is-proved), from what, along which argument
7. [What is not modelled](#7-what-is-not-modelled) and the plan

`PROJECT.json` holds the same facts for tools: the components, the runs, the lines of code behind every definition
(`map`), a mutant of the code for every property, the hazards and the theorems.

## 1. The system

### Threads

| thread | code | does |
|---|---|---|
| accept thread | `AcceptThread` N 469, `AcceptUser` N 1563 | accepts a socket, takes a slot, opens a session in it, tells the content, posts the first receive |
| IOCP workers (several) | `WorkerThread` N 511 | take one packet of the completion port at a time: a receive, a send, or a posted session ID |
| monitor thread | `MonitorThread` N 765 | scans the slots for sessions that have been silent for too long |
| update thread (one) | `UpdateThread` C 268 | runs the whole content, one job of `m_ThreadQ` after the other |
| redis thread | `RedisAPCThread` | meant to check the session key of a login (never runs, see the hazards) |

### Components

**Session table** (`NetServer`, N/H). State: the array `m_SessionArray` of `Session`, each with `_IOCount` (a count of
references in the low bits, a release flag on top), `_ID` (slot index and serial), `_USED`, `_bIOCancel`,
`_bReserveDiscon`, and the stack `m_IndexStack` of the free indices. Operations: `AcquireSession` (increment, look at
the release flag, compare the ID), the decrement at the end of every use, `ReleaseSession` (compare-and-swap from
count 0 without flag, free the packets, clear the slot, push the index, `OnClientLeave`), `Disconnect`. *Correct when*
the count is exactly the number of references, exactly one thread releases a session, nobody works on a session
that is released or belongs to the slot's next client, and every index is in exactly one hand.

**Send path** (N 269, 1215, 1238). State: `_SendQ`, `_SendFlag`, the gather array with `_DeQArraySize`, `_SendOL`.
`SendPacket` queues; its caller then posts the session ID to the port; a worker that takes the ID runs `SendPost`,
which whoever turns `_SendFlag` from 0 to 1 carries through; a completed send runs `SendPost` again. *Correct when*
the gather array has one user at a time and no packet is left in a queue that nobody is going to look at.

**Receive path** (N 955, 1067). State: the ring buffer, `_RecvOL`. A completed receive is cut into messages, each is a
job for the content; then the next `WSARecv`. *Correct when* at most one receive is posted, and it is counted; when every message reaches
the content whole, once and in order, in whatever pieces its bytes come; and when only what breaks the protocol is refused.

**Accept thread** (N 1563). It stores the ID *before* it clears the release flag, and uses the count of 1 the slot was
left with for the first receive. *Correct when* no one with the slot's old ID gets hold of the new session.

**Monitor thread** (N 765). Reads `_USED`, `_ID` and the time of the last receive, acquires the session and queues a
time-out job. *Correct when* it never does so for the wrong session in a way the content does not survive.

**Content** (C). State: `m_ClientMap`, `m_Sector` (for each sector the list of its clients), the job queue `m_ThreadQ` with its event.
Jobs: join, message (login, move to a sector, chat, heartbeat), time-out, leave.
A message goes out to the clients of the sectors around its sender through `SendSector`, an answer through `SendUnicast`. `DeleteUser` and every
message die when the client is unknown. *Correct when* jobs come in the order join, messages, leave, no client stays behind, the sector
lists hold exactly the clients that are there, and no job waits while the thread sleeps.

**Lock-free structures** (`LockFreeStack.h`, `LockFreeQ.h`, `FreeList.h`, `MemoryPool_TLS.h`). Linked nodes with a
pointer and a counter changed by a double-width compare-and-swap, recycled through free lists. *Correct when* they
behave as an atomic stack and queue and no node is freed or used twice.

**`NetPacket` and its codec** (`SerializeBuffer.cpp`). A reference-counted buffer from a pool (`MemoryPool_TLS`: each thread cuts its packets from a
chunk of its own, any thread gives them back), with a header, a random key and a checksum. *Correct when* it is freed once, after its last use,
a chunk is one thread's, its cursors stay inside the buffer, and Decode inverts Encode.

**Message codecs** (`PacketProcess.cpp`, `CommonProtocol.h`, the `PacketProcess_*` handlers of C). No state: a request is read field by field
from its packet, the answer is written into the same packet. *Correct when* the client reads in the answer what it asked for.

**`RingQ`** (`RingBuffer.cpp`). A byte ring with one slot kept empty. *Correct when* it is a queue of bytes at
every position of front and rear.

**Server life cycle** (`main`, `ChattingServerStart`/`Stop`, `ServerStart`/`Stop`, `DisconnectAllUser`). State: which threads run, the port, the
session array and the index stack of this run, and what outlives a run: `m_ThreadQ`, `m_ClientMap`, `m_SessionID`. *Correct when* nothing is
deleted that a thread still uses, stopping ends, and what one run leaves does not harm the next.

**The rest**: redis and database connectors, log, profiler, performance counters, crash dumps, and vendored libraries.

### How they meet

    accept thread --- opens slot --->  session table  <--- acquires --- monitor thread
         |                             ^          ^                          |
         | join job          decrement |          | acquire                  | time-out job
         v                             |          |                          v
     m_ThreadQ  <--- message, leave -- workers    +------ update thread <-- m_ThreadQ
                                        ^                      |
                                        |  completion port     | SendPacket, then PostQueuedCompletionStatus(id)
                                        +----------------------+

All arrows are calls on other threads' memory (Interlocked operations on `_IOCount` and `_SendFlag`, the lock-free
queue and stack) or packets of the completion port. There is no lock around a session.

## 2. What is hard about it

The list of hazards in `PROJECT.json` has each at its line. The ones the core models are built for:

- every acquire raises `_IOCount` before it knows whether it may: a *failed* acquire of a stale ID can be the last
  reference of the new session in the slot and must then release it (N 1998–2026);
- several threads can see a count of 0, and an acquire can raise it again before the compare-and-swap (N 839);
- slots are reused, IDs are kept in jobs, in posted packets and in threads' locals;
- `SendPost` lowers `_SendFlag` on an empty queue and must look again (N 1268, 1451);
- a hard failure of `WSASend` or `WSARecv` gives back counts on another path than success (N 1186, 1382, 1702);
- `_bIOCancel` is tested before the I/O is posted (N 1165, 1366);
- the join is queued before the first receive, the leave after the index was given back (N 1663, 918);
- a ring with one slot kept empty is filled by the kernel in two pieces and read in two (`RingBuffer.cpp` 297, 479), and a message may arrive in
  any number of pieces, or several in one (N 972–1060);
- an answer is written into the packet its request is read from (C 611–894);
- main deletes the session array and the index stack without having waited for the workers (N 112–131, 931).

The server is full of `Crash()` calls that check its own bookkeeping; every one on the modelled paths is in the model,
and "it is never reached" is the property the code itself asks for.

## 3. The modules

| module | is | models |
|---|---|---|
| `NetSession` | state machine, part | the struct `Session`, the shared routines: acquire, decrement, release, disconnect, `SendPacket`, `SendPost`, `RecvPost` |
| `NetServer` | state machine | the threads' own loops, the kernel and the clients; `Init`, `Next`, `Spec`, `FairSpec`; all properties |
| `SessionLife` | abstract specification | what the table promises: IDs are given out once, work begins on an open session only, a session closes when nobody works on it |
| `NetServerInv` | definitions | the inductive invariant `IInv`, in named parts, with `Awake` and `Polite`, which need more of the constants |
| `NetServerBasics`, `NetServerSessions` | proofs | the parts of the invariant |
| `NetServerProof` | theorems | the invariant and what follows from it, the refinement of `SessionLife` |
| `FreeList` | state machine, part | the pool of nodes: `Alloc`, `Free` |
| `LockFreeStack` | state machine | `Push`, `Pop` over `FreeList`, used as the index stack; its properties |
| `LockFreeStackProof` | theorems | the inductive invariant of stack and free list, what follows from it, and that the stack implements `AtomicStack` |
| `AtomicStack` | abstract specification | one step for a push or a pop, and every index in one place |
| `LockFreeQ` | state machine | `EnQ`, `DeQ` (ENQ_MODE 2); its properties |
| `LockFreeQProof` | theorems | the inductive invariant of the queue, what follows from it, and that it implements `AtomicQueue` |
| `AtomicQueue` | abstract specification | one step for an enqueue or a dequeue, first in first out |
| `MemoryPool_TLS` | operators | the pool of packets: `ChunkSetting`, `Alloc`, `Free` |
| `RingQ` | operators | the byte ring: sizes, the two pieces of `WSARecv`, `Peek`, `Dequeue` |
| `NetPacket` | operators | a packet's cursors, header and both codings |
| `RecvFraming` | state machine | the receives of one slot: `AcceptUser`, `RecvPacket`, `RecvPost`, `SessionClear` on the ring, byte by byte; its properties |
| `MessageStream` | abstract specification | a session's messages are delivered once and in order, only a malformed one is refused |
| `ChatWire` | state machine | `RecvFraming` with the update thread: `MessageMarshalling`, the handlers' reading and the answers, byte by byte |
| `MCChatWire` | for TLC | what the clients send, and the exclusive or |
| `RecvFramingProof` | theorems | what the operators of `RingQ` do, in terms of "byte i of the content"; the inductive invariant of the receive path, what follows from it, and that it implements `MessageStream`; what the operators of `NetPacket` do, that Decoding undoes Encoding, and what the answers of `ChatWire` say |
| `Lifecycle` | state machine | start, stop and restart of the server under its running threads |
| `LifecycleProof` | theorems | the inductive invariant of stop and restart, and what follows from it |
| `ChatContent` | state machine | the content: the update thread and its jobs, the client map, the sectors, the life of a packet from its receive to its last send |
| `ChatRooms` | abstract specification | who hears whom: an answer is queued once to each client in the sectors around its sender, and nothing else is done until all of them have it |
| `MCChatContent` | for TLC | the messages clients send |
| `ChatContentProof` | theorems | the inductive invariant of the content and its packets, what follows from it, and that the content implements `ChatRooms` |
| `MCLockFreeStack`, `MCLockFreeQ` | for TLC | symmetry, and the nodes in the order of the heap |
| `MCNetServer` | for TLC | the symmetry of the workers; the configurations of `NetServer` (`traffic`, `table`, `hostile`, `cancelled`, `overflow`, `fresh`) are of this module |

`NetServer` extends `NetSession`; `SessionLife` is instantiated in `NetServer` as `Life` under a refinement mapping:
`open` is the set of IDs of slots that are open (release flag down, ID given, not still in the accept thread's
hands), `uses` the pairs of a thread or kernel operation with the ID it works for.

### State

A slot's word `_IOCount` is the pair `ioCount`, `released`, always changed in one step as the Interlocked operations
do. A session ID is `<<slot, serial>>`; serial 0 is the ID of the constructor. `recvIO` says what `_RecvOL` stands
for: `prepaid` is the count of 1 that an unused slot carries for its first receive, then `none`, `pending`, and a
completion waiting in the port (`data`, `fail`, `eof`). `sendIO` is the same for `_SendOL`. The port is these two and
`posts`, the number of posted packets of each ID: GetQueuedCompletionStatus may return any of them.
`sendQ` and `inflight` are the lengths of `_SendQ` and of the gather array: no property so far depends on the content
of a packet. A thread has a program counter `pc`, its `curSession` (`cur`) and the ID it was given (`arg`); `op` and
`nxt` are its call stack: what it does once `AcquireSession` succeeds and what it does after the call. `io` says
that it is inside the handling of a completion, which ends in the final decrement.

### Actions

One action is one access to memory another thread may touch: an Interlocked operation, a read of a shared word, one
call of the kernel. Names follow the routine: `Acq*` is `AcquireSession`, `Rel*` `ReleaseSession` with `SessionClear`,
`Post*` `SendPost`, `Rp*` `RecvPost`, `Acc*` `AcceptUser`, `Get*` the return of GetQueuedCompletionStatus, `Mon*` the
monitor's scan. Each guard begins with `At(t, place)`: the process lives, the thread is there, and none of the checks
the code makes there fails; when one does, `Crashes` is the step instead and the process stops.

Where an action stands for more than one access, no other thread can tell:

- `Disconnect` sets `_bIOCancel` and then calls CancelIoEx (`Cancel`). Another thread between the two could only post
  an operation that is cancelled after all; the order in which it is *not* cancelled is in the model.
- The completion of a send empties the gather array and then lowers `_SendFlag` (`SendComplete`): nobody else reads
  the array while the flag is up.
- An enqueue on `_SendQ` takes effect where its length is raised, the loop that dequeues all of it is one step
  (`PostDeq`): the length is what `SendPost` decides on, and a packet enqueued meanwhile is seen by the next look.
- `RelPackets` and `RelClear` write fields of a slot that has its release flag up; the fields that others read
  without acquiring (`_USED`) or with a failing acquire (`_IOCount`) change in the latter. `RelPush` and `RelLeave`
  are apart, because the order between the push of the index and the leave job matters.
- A job is queued and taken in one step: `m_ThreadQ` is a queue, and the update thread is its only reader.

Free choices stand for data: which clients a message is for (`ChatMessage`), whether a message is complete, refused by
the framing or by the content, whether a session has been silent for too long, whether a call of the kernel fails.
A failing `WSARecv`/`WSASend` needs a client that reset its connection. Two members of `Session` that no constructor sets start with
what the memory held: `_SendFlag` with any value of `HeapFlags`, and `first`, the first entry of the gather array, with any of `HeapPackets`. `first` is
`packet` while SendPost has entries in the array, `null` once `DeQPacket` has cleared them, and before the first send what it was: ReleaseSession
tests it (N 910), and the two ways to fail are two checks, `"send"` for a packet the server left there and `"heap"` for memory it never wrote.

### The lock-free structures

`LockFreeStack` extends `FreeList`, `LockFreeQ` stands alone, and both are checked apart from `NetServer`, which uses
what they promise: an index stack that gives an index to one session (`freeIdx` in `NetServer` is a set) and queues without
loss. An action is one read, write or exchange of shared memory. The two halves of a pointer with its number are read
apart, as the code does, and exchanged together. A node is a value that is never unmapped, since `FreeList` keeps memory
until the structure is destroyed: a thread may read the `_Next` and `_Data` of a node that is not its own any more.
`link` is the `_Next` of the free list and `next` that of the stack or queue: they are different words of a node.

History variables say what the lists *should* hold: `list` and `spare` in the stack, `chain` in the queue. They change
where an exchange succeeds and are not read by any guard.

In the queue, `_Next` of the last node is a number at or above `KERNEL_ADDRESS`, in the model a natural number; that
no node lies there is the code's assumption and `AddressAssumption`. The pool of the queue is a stack of nodes on top of
what the heap has, which is what `FreeList` is shown to be in the run `indices`. The names of nodes are arbitrary, so that
the heap gives them in one order. `crash` is `"full"` for the check of `m_MaxQCount`, `"self"` for the check that the rear
is not the node about to be linked.

In the stack, calls are made one at a time until `ServerStart` has pushed all indices and the accept thread has popped
the first `Taken` (`Alone`): these are the states from which several threads use the stack.

### The content

`ChatContent` stands beside `NetServer` and looks at what that leaves open: what is in the jobs and in the packets. What the network does is taken in
large steps, each of which `NetServer` justifies: a session is accepted, has one receive at a time, has its queued packets sent one by one, and is
released by one worker when nobody works on it (`JobOrder`, `RefCount`). `session` is `new` until the join is queued, `open`, `leaving` from
the release on, `closed` when the leave is queued. A session is not reused here.

A packet is an object of a chunk, `refs` its `m_RefCount`, and `body` what it holds: nothing, a message, or an answer. `MemoryPool_TLS` keeps the
TLS chunk of each worker, the two counters of each chunk and the pool of chunks, which is atomic (it is a `FreeList`, see `indices`). An allocation that takes the last
object of its chunk and the setting of the next chunk are two steps, since a thread may free the object in between; an EnQ of a job and the
setting of the event are two as well, and so are the reference counted for each recipient of a chat and the drops by the workers.
A job of the update thread is one step up to the first packet it queues: no other thread touches the clients or sectors. The login is cut
between the packet's Free and the answer built in it.

`ChatRooms` is instantiated as `Rooms`. It has no lists, jobs, packets or threads: `where` is the sector of each client in the map, `owed` the set of those in `upd.to`,
who have not been given the answer in hand, `mail` the lengths of the send queues, `gone` the sessions that are `leaving` or `closed`, and `down` says that a Crash() was reached. The whole `SendSector` is there one
set, chosen by the distance of sectors at the moment of the request; in `ChatContent` it is up to nine lists, walked one client after the other while sessions are released and workers send.

`crash` names the Crash() that was reached. What a client sends reaches some of them: a chat before the first move, a heartbeat (a sector out of
range does too, in `ChatWire`).

### The receive path and the messages

`RecvFraming` looks at what `NetServer` abstracts from a receive: its bytes. One slot is used by sessions in turn. `phase` is where the one
receive of the session is: `posted`, `arrived` (completed, `RecvPacket` about to begin), `cutting` (its loop), `closing`, `empty`. The ring is the
buffer with `front` and `rear`, and a pointer into it is a position, so that `posted`, the two pieces of memory that `WSARecv` was given, are
positions and lengths; the kernel writes through them (`Complete`) while the ring's own cursors stay where they are. One action is one
round of the loop: the receiving worker is the only one that touches the ring, and the update thread meets it at `m_ThreadQ` alone.

A client sends one conversation: the bytes of its well-formed messages and, if it is `broken`, one more thing the server has to refuse. The bytes
arrive in pieces of any size up to what the pending receive can take. `read` and `cut` count what `m_Rear` and `m_Front` have passed; they and
`delivered`, `refused` are history that no guard reads, except that the kernel goes on where the last receive ended.

The length of a message is compared with what the ring holds or has room for, not with the packet's 300 bytes (N 1004–1030). A whole message that is longer than a packet
is therefore `CutOverrun`: the Dequeue writes behind the buffer, what that does is undefined, and the model ends there (`crash = "overrun"`), as a
behaviour of its own and not of `CutMessage`. It is one of the things a `broken` conversation may go on with. A packet's buffer has a fixed length in `NetPacket`; every
other write into it is clamped by the code.

`ChatWire` adds the update thread's side: the packet cut off is read field by field by the handler its type names, the answer is written into
it and coded with any random key. The exclusive or is a constant operator with two assumed laws (`XorAssumption`), so that the proofs do not
depend on bits; TLC computes it. `crash` is `"receive"` for a check of the receive path and `"handler"` for an exception or a Crash() a handler
meets. Who else receives an answer, and when a packet is given back, is in `ChatContent`; that a text "=" marks
the session (C 855–881) is `Mark` of `NetSession`.

### The life cycle

`main` walks through `ChattingServerStart`, `ServerStop` and, after the key q, `ChattingServerStop`; after F4 it deletes the server and returns, at once if the
server is off (`QuitStopped`). A leave of a client that is not in the map is the Crash() of `DeleteUser` (`crash = "unknown"`). What the uninitialised members of a new array do is in `NetServer`;
here only `_CloseFlag` is followed, which stopping depends on.
`array` and `stack` name the run whose `m_SessionArray` and `m_IndexStack` exist. Sessions are coarse (`NetServer` has them in detail); the steps
are fine where main does not wait: a worker between the clearing of `_USED` and the leave job (`pc` `clear`, `push`, `leave`), a posted ID, a job.
A thread that comes to what was deleted takes the step `Touch`, after which the process is dead (`crash = "deleted"`): what the code does then is
undefined. A worker that was in the old port's loop goes on at the port that `m_IOCP` is now (`ToPort`): it is one of the next run's workers then.
`quiet` remembers whether, at every deletion so far, the workers were waiting at the port and no job or posted ID was left; `strayed` whether a worker has put an index of one run on the stack of another. No guard reads them.

## 4. The runs

| run | instance | clients | checks | distinct states |
|---|---|---|---|---|
| `traffic` | 2 workers × 1 session, two messages, with fairness | announce `=`, wait, reset | `OneSender`, `NoStrandedPackets`, `NoCrash`, `ResetIsNoticed`, `PacketsLeave` | 82,503 |
| `table` | 1 worker × 2 sessions in turn, monitor on | as above, one message each | `RefCount`, `NoUseAfterRelease`, `NoIOAcrossRelease`, `JobOrder`, `NoGhostClient`, `IInv`, `LifeSpec` | 301,604 |
| `hostile` | 1 × 1, monitor on, attach may fail, `_SendFlag` and gather array undefined | close at any time, RST or FIN, one refused or wrong message | `NoInternalCrash`, `OneOwner` | 618,162 |
| `indices` | three threads, 3 indices, all taken at first | | `ListsIntact`, `OneHolder`, `EmptyIsHonest`, `StackSpec` | 1,442,793 |
| `queue` | three threads: producers t2, t3; consumers t1 or t1 and t2; t3 may stop | | `ChainIntact`, `NoSelfLink`, `DeqIsHonest`, `QueueSpec`, `CallsReturn` | 435,818 |
| `rooms` | 1 worker, two clients in three sectors | move, chat, log in, heartbeat; a chat at last | `SectorsMatch`, `RefsExact`, `PoolSound`, `BodiesKept`, `NoInternalCrash`, `NoLostWakeUp`, `RoomsSpec` | 449,275 |
| `framing` | a ring of 25 bytes, two sessions of one slot | one that follows the protocol, five that break it each in its way | `RingHolds`, `NeverStalls`, `NoInternalCrash`, `AnswersRead`, `StreamSpec` | 364,859 |
| `stop` | 1 slot, 1 of 2 workers, two runs, three sessions, with fairness | connect, send, announce, reset | `QuietStopIsSafe`, `OldJobsMiss`, `NoGhostAcrossRuns`, `StopEnds` | 449,391 |
| `login` | 2 workers, two clients | log in, move | `AllocIsPrivate`, violated | |
| `cancelled` | 1 × 1, monitor on | as `traffic` | `NoIOAfterCancel`, violated | |
| `overflow` | 2 × 1, three messages | never read | `GatherFits`, violated | |
| `fresh` | 1 × 1, the memory of the session not zero | announce `=`, wait, reset | `NoHeapPointer`, violated | |

The properties:

- `RefCount`: `_IOCount` is the number of threads that hold the session, plus those that hold the second count of a
  send, plus the completions being handled, plus the operations posted. Too many is a session that is never released,
  too few one that is released in use.
- `NoUseAfterRelease`, `NoIOAcrossRelease`, `OneOwner`: nobody works on a slot that was given back or reused; no
  operation of the kernel outlives its session; an index is in one hand. A slot whose CreateIoCompletionPort failed
  is an open session for ever, which is how the model shows that leak.
- `LifeSpec`: every step of the server is a step of `SessionLife` or changes nothing there. It holds the promise
  of the table in one formula, across the histories of several sessions: a session is closed in one step, once, when
  nobody works on it, and no work begins after that.
- `OneSender`, `NoStrandedPackets`, `PacketsLeave`: the `_SendFlag` protocol excludes a second sender and forgets no
  packet; the first says it of states, the last as what must eventually happen.
- `JobOrder`, `NoGhostClient`: the content sees a join before any message and a leave after the last, and drops every
  client whose session is gone.
- `ResetIsNoticed`: a reset connection leads to a released slot and a removed client.
- `NoInternalCrash`, `NoCrash`, `NoHeapPointer`: the server's own checks. Clients that close as they like *do* bring
  the server down, by design (`_bReserveDiscon`, N 854) or not (0 bytes received, N 606), and so do a full gather array (N 1322) and memory
  that was not zero (N 910). The first property is about none of these four but about the server's own bookkeeping: the counts, a packet it left in the send queue or the gather array,
  the last count given back by a failed receive, the client map. `NoCrash` is about every check, for clients that follow the protocol and memory that is
  zero; `NoHeapPointer` is the check of N 910 for memory that is not, and fails (`fresh`).
- `ListsIntact`, `ChainIntact`: what is in memory is what was put in and not taken out, in that order. An exchange that
  succeeds on a node that was recycled in between breaks them; the rear of the queue may lag by one node.
- `OneHolder`: a node is with the heap, in one list once, or in the hands of one thread. `NoSelfLink`: the rear never lags behind the
  front, so that the queue's own check holds.
- `EmptyIsHonest`, `DeqIsHonest`: a call returns "empty" only if every item is spoken for by a call that is under way. That is
  all the code promises, since a failing call lowers the count for a moment: `AcceptUser` therefore tries again.
- `StackSpec`, `QueueSpec`: the structures implement `AtomicStack` and `AtomicQueue`; every call that succeeds takes effect
  at its exchange. The first includes that no index is in two places and none is lost.
- `CallsReturn`: wherever one thread stops, the calls of the others return: every `EnQ`, and `DeQ` where there is one
  consumer, as in this server.

- `SectorsMatch`: the sector lists and the clients say the same after every job; a list never holds a pointer to a client that was
  given back to its pool, which the next chat would follow.
- `RefsExact`, `PoolSound`, `BodiesKept`: `m_RefCount` is the number of those who will drop the packet, the pool's counters are the packets
  that are out, and nobody writes into a packet that another has queued. All three hold *until a login is processed*, and say so; see section 5.
- `RoomsSpec`: the content implements `ChatRooms`. A client that is queued an answer twice, one that hears a sector far away, one in the next sector that does not,
  an answer to a client that has left, a client that is moved while others are still owed its last message: each is a step the rooms do not have. It holds after logins as well, where the packets go wrong but the recipients do not.
- `NoLostWakeUp`: when the update thread sleeps and a job is queued, the event is set or its setter is about to.
- `NoInternalCrash` of `ChatContent`: an unknown client, an empty packet or an unfreed one is not met before a login.

- `RingHolds`: what the ring holds is what came in and was not cut off, byte by byte and across the wrap, and the bytes of a completed receive lie
  right behind: the two pieces of memory never overlap each other or the content.
- `NeverStalls`: a pending receive can take all that is missing of the next message, and no whole message waits behind it.
- `StreamSpec`: the receive path implements `MessageStream`. A message that is cut twice, torn, lost at the wrap or mixed with bytes of the slot's
  last client breaks it, and so does a refusal of a client that follows the protocol (a message as long as the free space, for one).
- `NoInternalCrash` of `RecvFraming`: none of the checks of the ring's sizes fails.
- `AnswersRead`: a client that decodes an answer reads its own account, sectors, text and the names of its last login there, although
  the answer is built in the packet its request was read from.

- `StopEnds`: a stop ends, if the process lives; `QuietStopIsSafe`: with nothing left to do, nobody comes to what is deleted and no index is
  given out twice; `OldJobsMiss`, `NoGhostAcrossRuns`: what a run leaves in `m_ThreadQ` and `m_ClientMap` neither reaches a session of the next
  nor stays for ever, the second as long as no index has `strayed` (section 5).

**Bounds.** `MaxSerial` bounds the sessions, `MaxSent` the messages a client sends in one, `MaxJobs` the length of
`m_ThreadQ` up to which the monitor reports a time-out, `ArrayCap` stands for the 100 of
`DEQ_PACKET_ARRAY_SIZE`. One slot is enough for what these runs ask: a thread works on one slot at a time and slots share no
word, so that slots interact through stale IDs of the *same* slot, which two sessions in turn produce; the
proofs are for any number of slots. Two sessions in turn are in `table`, where one worker, the accept, monitor and update threads meet. Two workers are the least with which a completion
races with a posted ID of the same session; that is `traffic`. Two messages are the
least with which one is queued while another's send is pending.
What is scaled down, `ArrayCap`, is only compared with the queue's length.

In `table` no time-out is queued by the monitor (`MaxJobs` 0): its acquires and releases are there, and the time-out job with its disconnect is in
`hostile` and `cancelled`. A client of `table` and `hostile` sends one message a session; more of them meet in `traffic`. `JobOrder` is checked where
two sessions of a slot can be confused, in `table`.

In `rooms`, chunks have two packets, so that three messages of two clients use one chunk up and free it in any order; three sectors in a row are
the least with two that do not hear each other, and clients move to all three, so that there are also two that do without being in the same. Three messages are the least with which two
clients are somewhere and one speaks. A bound of this run, `LastIsChat`, has the third of them be a chat: the first two are any, in any order, from one client or both, and what a move, a login or a heartbeat does, it does as one of these.
Without the bound TLC finds every property of the run true as well, in 1,899,914 states. `login` needs a second worker to meet the chunk that was given back too early. Clients of one
row differ in the sectors they move to, and one row is enough for the lists; the square around a sector is cut at both edges.

In the stack `MaxId` bounds the exchanges: three after the indices were taken, which with the calls under way lets a node of
the free list go out and come back while its neighbour stays out, the shortest ABA there is: it takes three threads and
three indices. In the queue `MaxItems` bounds the items: with four, a dequeued node returns to the front under the eyes of a consumer
that read it. Mutants that compare pointers without their numbers are found within both bounds. `MaxQCount` is 1 in `queue`
so that the Crash() of a full queue is met. No `EnQ` begins that would need a node the `Heap` does not have.

In `framing` the ring has 25 bytes, just enough for the assumption that it holds two of the longest messages (10 bytes) and a header; the
conversation that follows the protocol is longer than the ring, fills a packet, and has a header and a payload where the ring wraps. A second
session finds the cursors and bytes the first one left. Fields are scaled to one byte, the coding is as in the code, one random key is
enough since the key is sent along. `MaxJobs` is what may wait for the update thread; a message that waits longer waits at an `EnQ`.
The clients that break the protocol send a wrong code, a wrong checksum, the length 0, a length that is more than the free ring, and a message
one byte longer than a packet; a type the content does not know and a heartbeat reach the handlers.

In `stop` one worker thread of a run may survive into the next, which is why there are two names for one worker. One slot: the sessions of
different slots do not meet while the server stops, but for the stack they return their index to, which one slot shows as well. Three sessions: one whose worker is late,
and the two that are then given the same index.

**Fairness of the queue.** A thread inside a call is scheduled again, unless it is one of `Stopped`. Nothing makes a thread call.

**Fairness** (`FairSpec` of `NetServer`, for the run `traffic`). Every thread that can take a step is eventually scheduled (weak fairness
for each thread). The completion port is a queue, so that a packet in it is not passed over for ever although other
packets are ready each time (strong fairness for each posted ID). A reset fails the pending receive, and a posted
send completes, because the clients of that run read. Nothing is assumed of when a client sends or closes.

**Fairness of the life cycle** (`FairSpec` of `Lifecycle`). Main, the accept thread in `AcceptUser` or at its end, the monitor, the update thread and each
worker are scheduled when they can go on. Nobody has to press a key, to connect or to send. A stop that has begun may still not end, for
two reasons the code has and `StopEnds` names: the accept thread spins on an index stack that stays empty (N 1576), or a socket is not closed because
`_CloseFlag` of fresh memory was up (H 119, N 1494), so that its session never ends.

**Deadlock** is not checked: the system stops when all clients are gone, at a bound, or in a `Crash()`; the structures stop at
their bounds. That nobody waits in vain is what the liveness properties say.

**Symmetry** of the workers (`overflow`, `login`, `rooms`), of the sessions (`login`, `rooms`) and of threads and nodes (`indices`) is used where every property is a safety property: invariants, and
in `indices` and `rooms` also an action property and refinements without fairness, which treat all of them alike. No run that checks liveness uses symmetry.

## 5. What the runs found

- `cancelled`: a comment in `RecvPost` (N 1162) and the same in `SendPost` (N 1366) say that once the I/O of a session was cancelled none is posted on it.
  Both read the flag and then call `WSARecv`/`WSASend`; a `Disconnect` in between finds nothing to
  cancel. In the trace the monitor takes the session for silent and its time-out is queued; a worker that has handled a receive has passed the test in `RecvPost` when the
  update thread disconnects, and then posts the receive. The session of a client that keeps silent stays until it is timed out again. The property is about these two
  tests; the first `WSARecv` in `AcceptUser` has none and is not counted.
- `overflow`: `SendPost` takes everything `_SendQ` holds into an array of 100, and dies if it does not fit (N 1322). The
  queue holds up to 5000 and grows while a send is pending. The run shows it with an array of one.

- `fresh`: ReleaseSession asserts that `_DeQPacketArray[0]` is null (N 910). `DeQPacket` clears the entries that were filled, and the constructor (H 119–146) writes none: the first
  session of a slot that is released before anything was sent to it meets what the memory of the array held. Whether the server dies of it is the allocation's choice.

- `login`: the login handler clears its packet, drops the reference and frees it, and builds the answer in it all the same (C 581–604). When the
  answer is sent the packet is freed again. The chunk's `m_FreeCount` then reaches 0 one packet too early: the chunk goes back to the pool while
  a worker still cuts packets from it, and the next worker that asks for a chunk gets the same one. The pool's comment (`MemoryPool_TLS.h` 97) rests on one
  thread per chunk.

The models show more that contradicts no line of the repository and has no run of its own:

- A client that closes with FIN ends the server (N 606; the trace ends there in `hostile`). So does one that resets the connection after its `=` was
  sent and before the update thread took it: `_bReserveDiscon` is not up yet when the worker releases the session (N 854). `NoCrash` is said of clients that wait.
- A first session that finds `_SendFlag` up in fresh memory never sends.
- The length in a chat message is a number of bytes when it is read (C 848) and taken for a number of characters when the answer is made
  (`PacketProcess.cpp` 23), which carries twice the text, although `CommonProtocol.h` 97 has the text end the message. Beyond half a packet not all of it fits, and
  `PutData` cuts it off. `AnswersRead` is what a client relies on that reads the text by its length.
- The code has no bound on a message's length but the ring's: one that is longer than a packet ends the model of the receive path (`CutOverrun`).
- A `DeQ` that reads the `_Next` of a recycled front may spin on a number until somebody enqueues (`LockFreeQ.h` 542). It needs two consumers;
  each queue of this server has one at a time, for which `CallsReturn` shows that it cannot happen.
- A stop disconnects sessions whose client has not announced itself, and dies of the first (N 853). With work left (a release between `_USED` and the
  leave job, a posted ID, a job, or the update thread after F4) a thread comes to the deleted array, stack or server. A worker that is not waited for (N 118:
  the handles are closed before the wait) may join the next run's port.
- A worker that has cleared a session before the stop and comes to its `Push` (N 931) after the next start puts that index on the new stack, where it already is. It is given out
  twice: the second `AcceptUser` overwrites the first session, which never ends, and its client stays in `m_ClientMap`. The run `stop` with two sessions did not reach this; the
  proof that an index is in one place failed for the step `Push`, and three sessions show it. `NoGhostAcrossRuns` therefore says `~strayed`; `QuietStopIsSafe` needs no such condition, since a quiet stop leaves no such worker.

## 6. What is proved

For every number of slots, workers, sessions and messages, every `ArrayCap`, and every behaviour of clients the
constants allow (in the receive path: every size of ring and packet, all conversations and all ways their bytes arrive; in the
structures: every number of threads, nodes, users and items; in the content: every number of sectors, chunks and objects in a chunk; in the life cycle: every number of starts and stops), TLAPS checks:

| theorem | in | says |
|---|---|---|
| `TypeCorrect` | `NetServerBasics` | `Spec => []TypeOK` |
| `Invariance` | `NetServerProof` | `Spec => []IInv` |
| `CountCorrect` | `NetServerProof` | `Spec => []RefCount` |
| `UseCorrect` | `NetServerProof` | `Spec => []NoUseAfterRelease` |
| `OverlappedCorrect` | `NetServerProof` | `Spec => []NoIOAcrossRelease` |
| `SenderCorrect` | `NetServerProof` | `Spec => []OneSender` |
| `OwnerCorrect` | `NetServerProof` | `Spec => []OneOwner` |
| `OrderCorrect` | `NetServerProof` | `Spec => []JobOrder` |
| `GhostCorrect` | `NetServerProof` | `Spec => []NoGhostClient` |
| `ChecksCorrect` | `NetServerProof` | `Spec => []NoInternalCrash` |
| `HeapCorrect` | `NetServerProof` | if `HeapPackets \subseteq {"null"}`: `Spec => []NoHeapPointer` |
| `PacketsCorrect` | `NetServerProof` | if `HeapFlags \subseteq {FALSE}`: `Spec => []NoStrandedPackets` |
| `PoliteCorrect` | `NetServerProof` | if `PoliteClients` and `HeapPackets \subseteq {"null"}`: `Spec /\ []GatherFits => []NoCrash` |
| `LifeImplemented` | `NetServerProof` | `Spec => LifeSpec` |
| `FramingInvariance` | `RecvFramingProof` | `WireSpec => []Framing` |
| `RingCorrect` | `RecvFramingProof` | `WireSpec => []RingHolds` |
| `ChecksHold` | `RecvFramingProof` | `WireSpec => []NoInternalCrash` |
| `Unstalled` | `RecvFramingProof` | `WireSpec => []NeverStalls` |
| `StreamImplemented` | `RecvFramingProof` | `WireSpec => StreamSpec` |
| `DecodingUndoes` | `RecvFramingProof` | what is coded with any key is decoded to itself, with a checksum that agrees |
| `ReadingInvariance` | `RecvFramingProof` | `WireSpec => []Reading` |
| `AnswersCorrect` | `RecvFramingProof` | `WireSpec => []AnswersRead` |
| `StackInvariant` | `LockFreeStackProof` | `Spec => []IInv` |
| `ListsCorrect` | `LockFreeStackProof` | `Spec => []ListsIntact` |
| `HolderCorrect` | `LockFreeStackProof` | `Spec => []OneHolder` |
| `PopFindsNode` | `LockFreeStackProof` | `Spec => []Found` |
| `EmptyCorrect` | `LockFreeStackProof` | `Spec => EmptyIsHonest` |
| `StackImplemented` | `LockFreeStackProof` | `Spec => StackSpec` |
| `QueueInvariant` | `LockFreeQProof` | `Spec => []IInv` |
| `ChainCorrect` | `LockFreeQProof` | `Spec => []ChainIntact` |
| `SelfLinkNever` | `LockFreeQProof` | `Spec => []NoSelfLink` |
| `EmptyCorrect` | `LockFreeQProof` | `Spec => DeqIsHonest` |
| `QueueImplemented` | `LockFreeQProof` | `Spec => QueueSpec` |
| `ContentInvariance` | `ChatContentProof` | `Spec => []IInv` |
| `SectorsCorrect` | `ChatContentProof` | `Spec => []SectorsMatch` |
| `WakeUpCorrect` | `ChatContentProof` | `Spec => []NoLostWakeUp` |
| `RefsCorrect` | `ChatContentProof` | `Spec => []RefsExact` |
| `PoolCorrect` | `ChatContentProof` | `Spec => []PoolSound` |
| `BodiesCorrect` | `ChatContentProof` | `Spec => []BodiesKept` |
| `InternalCrashNever` | `ChatContentProof` | `Spec => []NoInternalCrash` |
| `RoomInvariance` | `ChatContentProof` | `Spec => []RoomInv` |
| `RoomsImplemented` | `ChatContentProof` | `Spec => RoomsSpec` |
| `LifecycleInvariance` | `LifecycleProof` | `Spec => []IInv` |
| `QuietStopCorrect` | `LifecycleProof` | `Spec => []QuietStopIsSafe` |
| `OldJobsCorrect` | `LifecycleProof` | `Spec => []OldJobsMiss` |
| `NoGhostCorrect` | `LifecycleProof` | `Spec => []NoGhostAcrossRuns` |

### The session table

**Assumptions.** `ThreadAssumption` (the workers are finitely many, the three other threads are distinct and
no workers), `BoundAssumption`, `ClientAssumption` (the ranges of the constants). `Slots` is any set.

**Argument.** None of the properties is inductive. A slot is released by the thread whose compare-and-swap finds count 0, and that
nobody is using it then is `RefCount`. That the count is exact needs that a posted operation, a completion and the
gather array have one owner each (`RecvPhase`, `SendPhase`): two receives on one `_RecvOL` would be counted twice and
seen once. That they have one owner rests on no slot being released, cleared and reopened while it is in use
(`Lifetime`), and on a slot being in one hand while it is not open (`Ownership`, `Owned`); and that rests on the
count again. So `IInv` is the conjunction of all of them with the types, `Control` (which thread can be where),
and `Issued`/`IssuedJobs` (nobody works with the ID of a slot that was never used, whose release flag is not up either).
That the IDs of successive sessions differ is `Latest`: the ID in a slot is the newest one opened there. It needs `Known`: nobody works with the ID
of a slot in which no session has been opened (the monitor can read a new ID a moment early, but there the release flag is still up).
`IInv` is also an invariant of the run `table`; `TypeOK` is one of its conjuncts.

`JobOrder` does not follow from the queue alone: a leave may be added only if the client's join has been and no other leave will be. `Attendance`
follows each client from its join to its leave: its session, the thread that has its ID in hand for `OnClientLeave` after the slot has
gone back to the stack, or its leave in the queue, and only one of them; `Novelty` says that the ID the accept thread is about to let join is none of
these. `NoGhostClient` is read off `Attendance` and `Owned`. That no check fails (`NoInternalCrash`) is `RefCount` for the counts, the head of
`JobOrder` for `FindClient`, and for the packets `GatherEmpty`: the gather array is empty whenever `_SendFlag` is down, when SendPost fills it
and when the slot is cleared, and a packet is its first entry only while it is not empty. That holds whatever the memory held; what N 910 makes of an entry that was never
written is left to `HeapCorrect`, whose hypothesis is that it is null. Then it stays so, or is a packet (`NoHeap`).

`PacketsCorrect` adds `Awake` to `IInv`. A flag that is up is somebody's: a thread between taking it and handing over to a send, a
send under way, or nobody's on a slot that is dead, because Disconnect was called or the client has closed (`FlagsUsed`; a send fails only there, `SendsFail`). So the
thread that finds the flag up in SendPost may leave: somebody else will look at the queue after it, for the flag comes down before the
last look. A slot goes back to the stack with its flag down and an empty queue (`Shelved`), so that the next session inherits neither, and a thread that
has queued a packet goes on to post the ID (`Errands`). `Awake` assumes that the constructor's `_SendFlag` is 0, which the code does not write (see the end of section 5): with a 1 there, the first session of that slot never sends. `IInv` holds for every `HeapFlags`, and `Awake` is kept apart from it.

`PoliteCorrect` is about clients that announce that they leave, wait until that is processed, close with RST and send nothing that is refused, on a server that times nobody out (`main.cpp` 18): `PoliteClients`, which
are the constants of `traffic` but for the bounds. Nobody calls `Disconnect` then (`Calm`). A client that has closed has its session marked until the slot is given back (`Announced`); one that has not closed is served: a receive is
posted, or a worker handles the last one and will post the next (`Served`), because a receive fails only where the client has closed (`Excused`). `ReleaseSession` begins with a count of 0, which by `RefCount` is no receive and no worker, so the client has closed
and the session is marked (`Told`): the check of `_bReserveDiscon` (N 854) holds. With `ChecksCorrect`, and `HeapCorrect` for memory that is zero, only the check of the gather array's size is left, which `overflow` shows to fail; the theorem is about behaviours in which it does not.

`LifeImplemented` follows from `IInv` in both states of a step: every use a thread makes is of an open session, so a step that opens and closes
nothing is a step `Use` of `SessionLife` or changes nothing there; only `AccFlag` opens a session, with a new ID, and only `RelCas`
closes one, when its count is 0.

- `NetServerBasics`: `TypeOK` alone, action by action; then `Control`, `Issued`, `IssuedJobs`, and `RefCount`. For each action a lemma says
  how the four summands of its slot move. A thread's part is the cardinality of a set that gains or loses that thread, so the sets are replaced
  by the contribution of single threads, and a step changes one of them.
- `NetServerSessions`: `Ownership` and `Owned`, as `Possession`. Its `Bystander` says of a step that it leaves every slot
  that is not open alone; all actions but the release and `AcceptUser` are such steps, and one lemma treats all of them. Then
  `RecvPhase`, `SendPhase`, `Lifetime`, each with such a frame predicate (`RecvAside`, `SendAside`, `LifeAside`) and separate
  lemmas for the few actions that are not aside; and `JobOrder` with `Attendance` and `Novelty`, as `Clients` (`ClientsAside` is its frame);
  `GatherEmpty` and the checks, and what `Awake` needs of sends and of slots on the stack.
- `NetServerProof`: the rest of `Awake` (`FlagsAside` and `LookAside` are frames of two of its parts), `Known`, `Latest`, the invariant as a whole, the properties, the refinement, `Polite`.

### The receive path

**Assumptions.** `RingAssumption` and `PacketAssumption` (the sizes), `XorAssumption` (the same byte cancels), `SizeAssumption` (the payloads of the messages a conversation is *made of* fit in a packet, and the ring
holds two of them and a header: 10,000 bytes against 295 in the source; a longer one may follow as what is `broken`, and is then `CutOverrun`), and `ConversationAssumption`: what a
conversation *is*. Its messages are defined by the header and by what Decoding makes of the bytes; a broken one continues with something that is not
such a message. The coding itself stays closed in the proofs about the ring; what the answers say opens it.
For that, `PacketAssumption` has it that a payload's length fits a `WORD`, which the header has for it, and `FieldAssumption` that the
sectors' numbers lie below `_SectorX = 0xffff`, the sector of a client that has not moved (`ChattingServer.h` 47).

**Argument.** The operators of `RingQ` are defined by cases on where front and rear are. The first part of `RecvFramingProof` replaces the cases with one measure: byte
i of the content is at `Wrap(front + i)`, byte i of the free memory at `Wrap(rear + i)`, and less than a round apart these are different positions
(`WrapInjective`). In these terms it proves what each operation does: `TwoPieces` and `ScatterPlaces` (the two pieces are all the free memory and the
kernel's bytes end up in order behind the rear), `PeekReads`, `DequeuedCuts`, `MoveRearAdds`. `Holds` and `Ahead` say the same of a stream of bytes.

`RingHolds` is not inductive: that a receive of any size fits needs that the pieces it was given are free and apart (`Waiting`), a new session needs
that the last one left a cleared ring (`Cleared`), and that the front is where a message starts is `InOrder`. `Framing` is the conjunction of these with the
types. The one step of substance is `CutMessage`: `NextMessage` and `AfterMessages` say what the ring begins with, in the two cases that messages are to come
or only the broken rest, so that a refusal is always of that rest. A rest that a packet cannot hold is never decoded: there the model has ended. That RecvPost never finds the ring full and that a long message is never
refused is `RoomForRest`, where `2 * MaxLen + HEADER_SIZE <= RING_BUFFER_SIZE` is used. `StreamNext` maps each action to one of `MessageStream`
or to a stutter; it needs `Framing` for the refusals only.

The second half is about packets. `Carries(p, s, at)` says that s was written into the packet and the first `at` bytes of it are read, and what the cursors, the free size and the
header are then; from it follows what `PutData`, `GetData`, `Clear` and `MoveWritePos` do, without the cases in which they refuse. A `WORD` is read as the number that was
written (`WordOf`, `OfWord`), and a request is read field by field at the place where the one before ended (`ReadFields`).

Encoding and Decoding go over the payload in one loop each, in which a byte depends on the one before. They are recursive functions in `NetPacket`. That they undo each other is
an induction, and the library's induction theorems take an operator. `SetInduction` does without: it is the least-number principle for a *set* of numbers, so that "decoded correctly up to byte i"
is the set of such i, a value and not a formula. With it the values of the recursive functions are followed step by step, and the exclusive or needs only the
laws of `XorAssumption`. `DecodingUndoes` is the result, for every payload that fits a packet and every key.

`AnswersRead` is not inductive: what a client reads in an answer depends on the request its handler read, on the packet that held it and on the client's last login. `Reading` says that the packet
of a job `Carries` bytes none of which are read (`CutJob`: that is what `Decoding` of a whole message leaves), and
that the client's names are those of the last login among the answers. What a handler does to such a packet is `LoginAnswers`, `SectorMoveAnswers` and `ChatAnswers`: read, `Clear`, write, code; `DecodingUndoes` then tells what the client reads.
That the request is what the client sent is the matter of `StreamSpec`. TLC agrees that `Reading` holds on the instance of `framing`.

### The lock-free stack

**Assumptions.** `NullAssumption` and `UserAssumption` (`NULL` is no node; the ranges of the constants), and `ThreadAssumption`: the threads are finitely many. The nodes may be any set, finite or
not. Who pushes an index has it (`held`), as in `ServerStart` and `SessionClear`. The numbers `_ID` are integers that do not come round: in the code they have 64 bits.

**Argument.** The property that fails first in such a structure is that a compare-and-swap succeeds although what was read before it is out of date. `ListsIntact` (the
words in memory are the list that the history says they are) is kept by such an exchange only if the thread's copy is right, which is `Versions`: a copy of a word is no
newer than the word, the word's number grows with every exchange, so a copy that equals the word is the copy of the *present* list, and the `_Next` that was read beside it is the one
the node has now. It may be read from a node that others own by then (`FreeList` never unmaps one): the value is then wrong, and so is the number. `Holders` says that a node is in one
of the lists, in the hand of one thread, or not yet allocated, so nobody writes the `_Next` of a node in a list.

`Found` says that a `Pop` that passed the test of `m_Count` reads a top that is a node, which the code relies on without a test (it dereferences it). It is read off `Counted`: the list is
longer than `m_Count` by the pushes that have linked their node and not counted it yet, by the pops that have counted down and not taken theirs yet, and by the pops
that were refused and are about to count up again. A thread that is going to take a node is one of those, so there is a node. `Carried` says that the data of a node in the list is the index that was pushed
last; with it `StackImplemented` maps the exchange of a push or a pop to the one step of `AtomicStack`, and every other step to a stutter.

### The lock-free queue

**Assumptions.** `AddressAssumption` (no node lies at a number, see section 3), `ThreadAssumption`, and the ranges of the bounds. Producers, consumers and helpers may be any threads.

**Argument.** An `EnQ` links its node by writing into the `_Next` of the last one where a *number* stood, and moves the rear in a second exchange. Between the two the rear lags behind
the chain (`Lagging`). The numbers tell whether an exchange is still right, so the invariant is about them first: `Numbers` says that no two nodes and no two new nodes have the same, that
no copy of the rear has one that is still to come (`Fresh`), and that the rear has the number of the last node exactly when it does not lag. `Loose` says where numbers can be found at all: in the last
node, in new ones, and as 0 in memory that was never used. So an exchange that finds the number it expects in some node's `_Next` has found the last node. `Movers`: a thread whose copy of the
rear is right and is about to exchange it moves it to the last node and to no other, and while the rear lags, the thread that linked the node is one of them, so the rear lags by one node at most.
`Takers` is `Versions` of the stack for the front. `NoSelfLink` (the code's own check that the rear is not the new node) is part of the invariant: the rear is a
node of the chain, and a new node is not in it.

The length of the chain without its dummy is `m_Count` and those on their way (`Counted`), so a `DeQ` that passed the test of the count finds an item, two nodes if the
rear lags; it never takes the last node, and the front never overtakes the rear. `QueueImplemented` maps the link to the step `EnQ` of `AtomicQueue`, and the exchange of the front to `DeQ`.

### The content

**Assumptions.** `PoolAssumption` (a chunk has an object, the bounds are numbers), `ThreadAssumption` (the workers are the threads that allocate packets, the accept thread is none of them),
`SessionAssumption` (the sessions are finitely many, so that the counts of a packet are a number), and `MessageAssumption`: the fields of what a client sends, with any account and any sector a `WORD` can name.
There may be any number of workers.

**Argument.** The invariant is `Sure /\ (~logins => Sound)`: what holds whatever happens, and what the login handler destroys (see `login` in section 5).

`Sure` begins with where a thread can be and what it then has in hand (`Control`). `Order` follows a session through the queue, the client map and the hands of the threads: its jobs are one join, messages, one leave; the client is in the map
between the first and the last (`Present`), a thread that has a message in hand still belongs to an open session, a leave is only queued after the join (`Expected`). That each session is in one thread's hands is what the large
steps of the network take from `NetServer`, here it is derived from the steps. So `FindClient` and `DeleteUser` find the client. `SectorsMatch` needs `Order`: a join for a client that is in the map would give it a new
sector while the old list keeps its pointer. `NoLostWakeUp` is inductive with `Control`: a thread that has queued a job is on its way to `SetEvent`, and the update thread waits only after it has seen the queue empty.

`Sound` says of a packet who has it (`Apart`): one thread or one job, or the handler with the send queues, and no two of these while it holds a message. So it is not written by two (`Written`), and its count is that of the queue entries and of
the one who works on it (`Counted`); a packet nobody has got yet has the count 1 of its allocation, and during `SendSector` the handler keeps one of its own, so that no worker frees it between two recipients.
The queue entries are counted by a cardinality (`Places`), and each step adds or removes one entry of one queue (`Grown`, `Shrunk`).
`PoolGood` is the book-keeping of the pool: the objects in use of a chunk are those cut from it and not yet freed, as many as `m_FreeCount` says beyond those that are still to be cut. A chunk goes back when its count reaches 0, and
`Refilling` is what keeps it from going back too early: between a thread's last object of its chunk and the setting of the next one, the thread has that object in hand, so that the count is not 0. This window is the one the source relies on without a lock.
TLC agrees that `IInv` holds on the instances of `rooms` and `login`; it is not a property of a run, since its parts are what the listed properties need.

What is false after a login is not made true by an assumption: the theorems state the same properties the run `rooms` checks, which end with the first login that is processed.

`RoomsImplemented` rests on the other half, `Sure`, and holds after logins too. It needs one invariant more, `OwedOnce`: `upd.to` has nobody twice, and the update thread takes no job while somebody is owed. A chat is owed to the
concatenation of up to nine sector lists. By `SectorsMatch` a client is in one list, once, and in that of its own sector: so the lists are disjoint, their concatenation has nobody twice
(the lemmas about `Hears`), and the clients in it are those whose sector is at most one away in each direction, which is the `Audience` of `ChatRooms`. The sectors beyond the edge have no list, and no client is there. Every step of the network or a
worker leaves `where` and `owed` alone and sends, drops or frees at most one packet (`Sent`, `Go`); a step of the handler is one of `Join`, `Leave`, `Login`, `Move`, `Say`, `Give`; and
where a Crash() is reached, it is `Crash`, which promises no more than that nobody is given what he is not owed.

### The life cycle

**Assumptions.** `LifecycleAssumption`: the slots and the workers are finitely many, a run uses no more workers than there are names, and fresh memory holds some `_CloseFlag`. Any number of starts.

**Argument.** `Staged` says what exists at each place of main and who can still run: main waits for the accept and the monitor thread, so neither is left when it begins to delete; it does not wait for
workers. `Dated`: IDs only grow, so one of an old run, or of a session that a worker has cleared, is never that of a slot again; `OldJobsMiss` is read off it. `Single` says where an index is: on the
stack once, with a session in use, or with the one worker that is to return it. It is kept by every step except a `Push` onto the stack of another run, which is why it says `~strayed`.
`Departs` needs it, since a session that is overwritten never leaves: the client of a session that is gone has a leave to come, and a join in the queue is followed by a leave or its session is still there.
The update thread may end in between; the queue and the map outlive it, which is what the mutant of this property clears. `Calm` is about the stops after which nothing was left to do: no worker is on its way to a slot when main
deletes the array, no job and no posted ID is left, and the update thread does not drain; so nothing strays and no thread comes to what was deleted, which is `QuietStopIsSafe`.
TLC agrees with each part of `IInv` on the instance of `stop` and on one with two slots.

### What stays with TLC

A few leaves name a prover with a longer limit (`SMTT(30)`, `ZenonT(60)`): they are the ones that need more than a fraction of
the default.

Every invariant, action property and refinement of the passing runs is stated by a theorem. **Model-checked only** are the liveness
properties (`ResetIsNoticed`, `PacketsLeave`, `CallsReturn`, `StopEnds`), which are out of this prover's reach with the fairness and `ENABLED` they rest on, and
what the four runs of section 5 refute: a counterexample needs no proof. Of these, `NoHeapPointer` is proved under a hypothesis.

Three theorems have a hypothesis: `PacketsCorrect` that the constructor's `_SendFlag` is 0, `HeapCorrect` that the gather array's memory is, and `PoliteCorrect` that, besides the latter, clients are polite and the array does not overflow. They name what the code
leaves open; the other theorems have none but the assumptions named above.

## 7. What is not modelled

In the parts that are modelled:

- `_ErrorCode` and the checks of error codes around a failed completion (N 866, `SpecialErrorCodeCheck`): which number
  Winsock reports is not in the model; any failed completion ends in the final decrement. `_ErrorCode` is not initialised either; where no
  completion of the first session has failed (N 533), ReleaseSession compares what the memory held with four values (N 866).
- `SetTimeOut` and `SendNDiscon`, which no code of the server calls.
- The white list of `OnConnectionRequest` and the capacity of `_SendQ` (5000).
- What a message longer than a packet's buffer writes behind it: the model ends with `CutOverrun`.
- The monitor's clock: the outcome of the comparison of times is a free choice.
- In `NetServer`, the event that wakes the update thread (it runs there whenever a job is queued; `ChatContent` has the event).
- The check of the session key by the redis thread and its `ON_LOGIN_RESULT` job: the APC is queued for a function pointer in place of a thread (C 594).
- Time-outs in `ChatContent`: a time-out disconnects, and a session may be released at any time there anyway.

Parts that are left out for good, with the reason: logging, profiler, performance counters and dump write output and
change nothing the server reads; the database connector is unused; MYSQLLib and RedisLib are vendored. These libraries are about 27,000 of the
repository's 37,500 lines of C and C++, nearly all of it headers: the server calls neither MySQL nor, since the key of a login is never looked up, redis. The server's own code has about
10,000 lines, of which the log, the profiler, the memory logs, the unused `LanPacket` and the disabled modes of the structures are a large part; the definitions of this
project stand for nearly 4,000 of them. A share of the whole repository much above that cannot be had without modelling code that does not run here.

### The plan

Done: the session table with its threads and the lock-free structures; the content with its packets; the receive path from the bytes of a socket to the answers; the life cycle. All but the
last have an abstract specification that is shown to be implemented, and all have their safety proved. What is left:

- The monitor's clock: unsigned ages, a `_LastRecvTime` newer than the time of the scan (N 800), the slot whose `_USED` is up
  before its time is set (N 1616).
