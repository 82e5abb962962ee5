---------------------------- MODULE RecvFraming ----------------------------
(***************************************************************************)
(* From the bytes of a socket to the packets of m_ThreadQ: the receives of   *)
(* one slot of m_SessionArray, used by one session after the other, with     *)
(* the ring buffer and the cutting of RecvPacket.  A client sends the bytes  *)
(* of one conversation; they arrive in pieces of any size, and the           *)
(* connection may be lost or cancelled at any time.                          *)
(***************************************************************************)
EXTENDS RingQ, NetPacket

CONSTANTS
    MaxLen,             \* no well-formed message has a longer payload
    Conversations,      \* what a client may send
    MaxSessions,        \* bound on the sessions of the slot
    MaxJobs             \* bound on the jobs that wait for the update thread

(***************************************************************************)
(* A conversation is the payloads of its well-formed messages, the bytes     *)
(* that travel, and where each message starts in them.  If it is broken, one  *)
(* more message follows that the server has to refuse.                       *)
(***************************************************************************)
HeaderAt(c, at)     == SubSeq(c.stream, at + 1, at + HEADER_SIZE)
DataAt(c, at, size) == SubSeq(c.stream, at + HEADER_SIZE + 1, at + HEADER_SIZE + size)

\* the packet that these bytes are dequeued into
PacketOf(data) == MoveWritePos(Stored(NewPacket, 0, data, Len(data)), Len(data))

\* header and data are a message with this payload, as Decoding understands them
Decodes(header, data, plain) ==
    LET decoded == Decoding(PacketOf(data), header)
    IN  decoded.ok /\ Payload(decoded.packet) = plain

\* what a client sends from this byte on is a message with this payload
MessageAt(c, at, plain) ==
    /\ Len(plain) \in 1 .. MaxLen
    /\ at + HEADER_SIZE + Len(plain) <= Len(c.stream)
    /\ c.stream[at + 1] = dfPACKET_CODE
    /\ HeaderLen(HeaderAt(c, at)) = Len(plain)
    /\ Decodes(HeaderAt(c, at), DataAt(c, at, Len(plain)), plain)

\* what a client sends from this byte on is not a message, not a whole one, or one
\* that no packet holds
NoMessageAt(c, at) ==
    LET size == HeaderLen(HeaderAt(c, at)) IN
    \/ at + HEADER_SIZE > Len(c.stream)
    \/ c.stream[at + 1] # dfPACKET_CODE
    \/ size \notin 1 .. PAYLOAD_SIZE
    \/ at + HEADER_SIZE + size > Len(c.stream)
    \/ ~Decoding(PacketOf(DataAt(c, at, size)), HeaderAt(c, at)).ok

ASSUME SizeAssumption ==
    /\ Byte = Bytes
    /\ MaxLen \in 1 .. PAYLOAD_SIZE
    /\ 2 * MaxLen + HEADER_SIZE <= RING_BUFFER_SIZE
    /\ {MaxSessions, MaxJobs} \subseteq Nat

ASSUME ConversationAssumption ==
    \A c \in Conversations :
        /\ c.msgs \in Seq(Seq(Bytes)) /\ c.stream \in Seq(Bytes) /\ c.broken \in BOOLEAN
        /\ c.start \in [1 .. Len(c.msgs) + 1 -> 0 .. Len(c.stream)]
        /\ c.start[1] = 0
        /\ \A i \in 1 .. Len(c.msgs) :
              /\ c.start[i + 1] = c.start[i] + HEADER_SIZE + Len(c.msgs[i])
              /\ MessageAt(c, c.start[i], c.msgs[i])
        /\ IF c.broken THEN NoMessageAt(c, c.start[Len(c.msgs) + 1])
           ELSE c.start[Len(c.msgs) + 1] = Len(c.stream)

VARIABLES
    ring,       \* _RecvRingQ
    phase,      \* where the session's one receive is
    posted,     \* the two pieces of memory WSARecv was given
    bIOCancel,  \* _bIOCancel
    jobs,       \* m_ThreadQ: the joins, packets and leaves of this slot's sessions
    conv,       \* the conversation of the current client
    arrived,    \* the bytes of a completed receive that m_Rear does not include yet
    read,       \* how many bytes of the conversation m_Rear has passed
    cut,        \* how many bytes m_Front has passed
    delivered,  \* the payloads of this session given to OnRecv
    refused,    \* whether the server has refused this session's bytes
    crash,      \* where a check of the code has failed, or "none"
    sessions    \* how many sessions the slot has had

clientVars == <<conv, arrived, read, cut, delivered, refused, sessions>>
vars == <<ring, phase, posted, bIOCancel, jobs, clientVars, crash>>

Phases == {"empty", "posted", "arrived", "cutting", "closing"}

Nowhere == [direct1 |-> 0, ptr1 |-> 0, direct2 |-> 0, ptr2 |-> 0]

Alive == crash = "none"

FreeSize == GetFreeSize(ring.front, ring.rear)
UsedSize == GetUsedSize(ring.front, ring.rear)

Init ==
    /\ ring = NewRing /\ phase = "empty" /\ posted = Nowhere /\ bIOCancel = FALSE
    /\ jobs = <<>> /\ conv \in Conversations
    /\ arrived = 0 /\ read = 0 /\ cut = 0 /\ delivered = <<>> /\ refused = FALSE
    /\ crash = "none" /\ sessions = 0

(***************************************************************************)
(* AcceptUser: OnClientJoin, and the first receive of the session, into the  *)
(* one piece of memory behind m_Rear.                                       *)
(***************************************************************************)
AcceptUser ==
    LET direct == GetDirectEnqueueSize(ring.front, ring.rear) IN
    /\ phase = "empty" /\ Alive /\ sessions < MaxSessions /\ Len(jobs) < MaxJobs
    /\ sessions' = sessions + 1
    /\ conv' \in Conversations
    /\ arrived' = 0 /\ read' = 0 /\ cut' = 0 /\ delivered' = <<>> /\ refused' = FALSE
    /\ crash' = IF direct <= 0 THEN "receive" ELSE crash
    /\ phase' = "posted"
    /\ posted' = [Nowhere EXCEPT !.direct1 = direct, !.ptr1 = Wrap(ring.rear + 1)]
    /\ jobs' = Append(jobs, [type |-> "join", packet |-> NewPacket])
    /\ UNCHANGED <<ring, bIOCancel>>

\* the kernel completes the pending receive with the next n bytes of the stream
Complete(n) ==
    /\ phase = "posted" /\ Alive
    /\ n <= posted.direct1 + posted.direct2
    /\ read + n <= Len(conv.stream)
    /\ ring' = [ring EXCEPT !.buffer = Scatter(@, posted, SubSeq(conv.stream, read + 1, read + n))]
    /\ arrived' = n
    /\ phase' = "arrived"
    /\ posted' = Nowhere
    /\ UNCHANGED <<bIOCancel, jobs, conv, read, cut, delivered, refused, crash, sessions>>

\* Disconnect by the monitor or the update thread
Disconnect ==
    /\ phase \notin {"empty", "closing"} /\ Alive
    /\ bIOCancel' = TRUE
    /\ UNCHANGED <<ring, phase, posted, jobs, clientVars, crash>>

\* the pending receive fails: the peer has reset the connection, or it was cancelled
Lost ==
    /\ phase = "posted" /\ Alive
    /\ phase' = "closing"
    /\ posted' = Nowhere
    /\ UNCHANGED <<ring, bIOCancel, jobs, clientVars, crash>>

\* Disconnect by RecvPacket or RecvPost itself, because of what it read
Refuse ==
    /\ bIOCancel' = TRUE /\ refused' = TRUE /\ phase' = "closing"
    /\ UNCHANGED <<posted, arrived, crash>>

\* RecvPacket: the bytes are in the ring, before any is looked at
Enqueued ==
    /\ phase = "arrived" /\ Alive
    /\ IF arrived > FreeSize
         THEN Refuse /\ UNCHANGED <<ring, read>>
         ELSE /\ ring' = MoveRear(ring, arrived)
              /\ read' = read + arrived /\ arrived' = 0
              /\ phase' = "cutting"
              /\ UNCHANGED <<posted, bIOCancel, refused, crash>>
    /\ UNCHANGED <<jobs, conv, cut, delivered, sessions>>

(***************************************************************************)
(* One round of the loop of RecvPacket: it refuses what the ring begins      *)
(* with, cuts a message off, or needs more bytes and posts the next receive. *)
(***************************************************************************)
PeekedHeader == Peek(ring, HEADER_SIZE)

(* Mutant: a message as long as the free space is refused. *)
MalformedFull ==
    /\ UsedSize >= HEADER_SIZE
    /\ \/ PeekedHeader[1] # dfPACKET_CODE
       \/ HeaderLen(PeekedHeader) <= 0
       \/ /\ UsedSize - HEADER_SIZE < HeaderLen(PeekedHeader)
          /\ HeaderLen(PeekedHeader) >= FreeSize

Malformed ==
    /\ UsedSize >= HEADER_SIZE
    /\ \/ PeekedHeader[1] # dfPACKET_CODE
       \/ HeaderLen(PeekedHeader) <= 0
       \/ /\ UsedSize - HEADER_SIZE < HeaderLen(PeekedHeader)
          /\ HeaderLen(PeekedHeader) > FreeSize

(* Mutant: a message that is complete is taken for incomplete. *)
WholeStrict ==
    /\ UsedSize >= HEADER_SIZE
    /\ HeaderLen(PeekedHeader) < UsedSize - HEADER_SIZE

(* Mutant: the length of the message is not compared with what is there. *)
WholeUnchecked == UsedSize >= HEADER_SIZE

Whole ==
    /\ UsedSize >= HEADER_SIZE
    /\ HeaderLen(PeekedHeader) <= UsedSize - HEADER_SIZE

RefuseHeader ==
    /\ phase = "cutting" /\ Alive /\ Malformed
    /\ Refuse
    /\ UNCHANGED <<ring, jobs, conv, read, cut, delivered, sessions>>

CutMessage ==
    LET header  == PeekedHeader
        size    == HeaderLen(header)
        body    == MoveFront(ring, HEADER_SIZE)
        data    == Peek(body, size)
        packet  == PacketOf(data)
        decoded == Decoding(packet, header)
    IN
    /\ phase = "cutting" /\ Alive /\ ~Malformed /\ Whole /\ Len(jobs) < MaxJobs
    /\ size <= PAYLOAD_SIZE
    /\ ring' = Dequeued(body, size)
    /\ cut' = cut + HEADER_SIZE + Len(data)
    /\ IF Len(data) # size \/ packet.size = 0
         THEN crash' = "receive" /\ UNCHANGED <<phase, posted, bIOCancel, jobs, arrived, delivered, refused>>
       ELSE IF ~decoded.ok
         THEN Refuse /\ UNCHANGED <<jobs, delivered>>
       ELSE /\ jobs' = Append(jobs, [type |-> "message", packet |-> decoded.packet])
            /\ delivered' = Append(delivered, Payload(decoded.packet))
            /\ UNCHANGED <<phase, posted, bIOCancel, arrived, refused, crash>>
    /\ UNCHANGED <<conv, read, sessions>>

(***************************************************************************)
(* The same round with a message longer than a packet: the code compares its *)
(* length with what the ring holds, not with the packet's buffer, and        *)
(* dequeues behind the buffer's end.  What happens then is undefined, and     *)
(* here the model ends.                                                      *)
(***************************************************************************)
CutOverrun ==
    /\ phase = "cutting" /\ Alive /\ ~Malformed /\ Whole /\ Len(jobs) < MaxJobs
    /\ HeaderLen(PeekedHeader) > PAYLOAD_SIZE
    /\ crash' = "overrun"
    /\ UNCHANGED <<ring, phase, posted, bIOCancel, jobs, clientVars>>

\* RecvPost
RecvPost ==
    LET direct == GetDirectEnQData(ring) IN
    /\ phase = "cutting" /\ Alive /\ ~Malformed /\ ~Whole
    /\ IF FreeSize <= 0
         THEN Refuse
       ELSE IF \E len \in {direct.direct1, direct.direct2} : len \notin 0 .. RING_BUFFER_SIZE
         THEN crash' = "receive" /\ UNCHANGED <<phase, posted, bIOCancel, refused, arrived>>
       ELSE IF bIOCancel
         THEN phase' = "closing" /\ UNCHANGED <<posted, bIOCancel, refused, arrived, crash>>
       ELSE /\ phase' = "posted" /\ posted' = direct
            /\ UNCHANGED <<bIOCancel, refused, arrived, crash>>
    /\ UNCHANGED <<ring, jobs, conv, read, cut, delivered, sessions>>

\* ReleaseSession, when the last count has gone: SessionClear and OnClientLeave
Release ==
    /\ phase = "closing" /\ Alive /\ Len(jobs) < MaxJobs
    /\ ring' = ClearBuffer(ring)
    /\ bIOCancel' = FALSE
    /\ phase' = "empty"
    /\ jobs' = Append(jobs, [type |-> "leave", packet |-> NewPacket])
    /\ UNCHANGED <<posted, clientVars, crash>>

\* the update thread takes a job
Take ==
    /\ jobs # <<>> /\ Alive
    /\ jobs' = Tail(jobs)
    /\ UNCHANGED <<ring, phase, posted, bIOCancel, clientVars, crash>>

Receiving ==
    \/ AcceptUser
    \/ \E n \in 1 .. RING_BUFFER_SIZE : Complete(n)
    \/ Disconnect \/ Lost \/ Enqueued \/ RefuseHeader \/ CutMessage \/ CutOverrun
    \/ RecvPost \/ Release

Next == Receiving \/ Take

Spec == Init /\ [][Next]_vars
-----------------------------------------------------------------------------
(***************************************************************************)
(* What the ring holds is what has come in and has not been cut off, byte by *)
(* byte and across the wrap, and a completed receive has put its bytes right *)
(* behind: no piece of memory overlaps another and none of an earlier         *)
(* session's bytes is left (MoveRear after WSARecv, MoveFront and Dequeue).   *)
(***************************************************************************)
RingHolds ==
    phase # "empty" =>
        /\ UsedSize = read - cut
        /\ \A i \in 1 .. read - cut : ring.buffer[Wrap(ring.front + i)] = conv.stream[cut + i]
        /\ arrived <= FreeSize
        /\ \A i \in 1 .. arrived : ring.buffer[Wrap(ring.rear + i)] = conv.stream[read + i]

(***************************************************************************)
(* The front of the ring is where a message starts, and the payloads given   *)
(* to OnRecv are those of the messages before it: none is lost, cut twice or  *)
(* torn by the pieces in which the bytes arrive (the loop of RecvPacket).     *)
(***************************************************************************)
InOrder ==
    /\ Len(delivered) <= Len(conv.msgs)
    /\ delivered = SubSeq(conv.msgs, 1, Len(delivered))
    /\ (phase # "empty" /\ ~refused) => cut = conv.start[Len(delivered) + 1]

(***************************************************************************)
(* While a receive is pending, no message that has arrived whole waits in    *)
(* the ring, and there is room for what is missing of the next one: the peer  *)
(* is never held up by a full ring, nor a message by the next.               *)
(***************************************************************************)
NeverStalls ==
    (phase = "posted" /\ Len(delivered) < Len(conv.msgs)) =>
        LET rest == conv.start[Len(delivered) + 2] - read
        IN  0 < rest /\ rest <= posted.direct1 + posted.direct2

(***************************************************************************)
(* None of the checks that AcceptUser, RecvPacket and RecvPost make of the   *)
(* ring fails.  It says nothing of a handler, which may die of what a client *)
(* sends (a heartbeat), nor of the buffer that no check guards (CutOverrun).  *)
(***************************************************************************)
NoInternalCrash == crash # "receive"

Stream == INSTANCE MessageStream WITH
    state <- IF phase = "empty" THEN "closed"
             ELSE IF refused THEN "refused"
             ELSE IF phase = "closing" THEN "closed" ELSE "open"

(***************************************************************************)
(* The receive path implements MessageStream: neither the pieces in which    *)
(* bytes arrive, nor a full ring, nor another session's bytes lose a message   *)
(* or cut off a client that follows the protocol.                            *)
(***************************************************************************)
StreamSpec == Stream!Spec

=============================================================================
