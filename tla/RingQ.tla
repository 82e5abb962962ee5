------------------------------- MODULE RingQ -------------------------------
(***************************************************************************)
(* RingQ of RingBuffer.cpp: a byte ring whose slot m_Front is kept empty,   *)
(* so that the content is the positions after m_Front up to m_Rear.  A ring *)
(* is a record; a pointer into m_Buffer is the position it points to.       *)
(***************************************************************************)
EXTENDS Integers, Sequences

CONSTANTS
    RING_BUFFER_SIZE,   \* 10000 in the source
    Byte                \* the values of a byte; 0 is one of them

ASSUME RingAssumption ==
    /\ RING_BUFFER_SIZE \in Nat
    /\ RING_BUFFER_SIZE > 1
    /\ 0 \in Byte

Positions == 0 .. RING_BUFFER_SIZE - 1

Rings == [buffer : [Positions -> Byte], front : Positions, rear : Positions]

\* RingQ()
NewRing == [buffer |-> [i \in Positions |-> 0], front |-> 0, rear |-> 0]

Wrap(i) == i % RING_BUFFER_SIZE

GetFreeSize(front, rear) ==
    IF Wrap(rear + 1) = front THEN 0
    ELSE IF front > rear THEN front - rear - 1
    ELSE front + (RING_BUFFER_SIZE - 1) - rear

GetUsedSize(front, rear) ==
    IF rear = front THEN 0
    ELSE IF front < rear THEN rear - front
    ELSE rear + (RING_BUFFER_SIZE - 1) - front + 1

GetDirectEnqueueSize(front, rear) ==
    LET rearNext == Wrap(rear + 1) IN
    IF rearNext = front THEN 0
    ELSE IF rearNext < front THEN front - rearNext
    ELSE (RING_BUFFER_SIZE - 1) - rearNext + 1

GetDirectDequeueSize(front, rear) ==
    LET nextFront == Wrap(front + 1) IN
    IF front = rear THEN 0
    ELSE IF nextFront <= rear THEN rear - nextFront + 1
    ELSE (RING_BUFFER_SIZE - 1) - nextFront + 1

(* Mutant: the second piece begins at the last byte of the first. *)
EnQDataOverlaps(q) ==
    LET direct1 == GetDirectEnqueueSize(q.front, q.rear)
        rear2   == Wrap(q.rear + direct1)
    IN  [direct1 |-> direct1, ptr1 |-> Wrap(q.rear + 1),
         direct2 |-> GetDirectEnqueueSize(q.front, rear2), ptr2 |-> rear2]

(***************************************************************************)
(* The two pieces of free memory after m_Rear.  The second is looked for    *)
(* from the last byte of the first; its pointer is of use only if it has a   *)
(* size, and GetRearBufferPtr then gives the position after that byte.       *)
(***************************************************************************)
GetDirectEnQData(q) ==
    LET direct1 == GetDirectEnqueueSize(q.front, q.rear)
        rear2   == Wrap(q.rear + direct1)
    IN  [direct1 |-> direct1, ptr1 |-> Wrap(q.rear + 1),
         direct2 |-> GetDirectEnqueueSize(q.front, rear2), ptr2 |-> Wrap(rear2 + 1)]

MoveRear(q, size)  == [q EXCEPT !.rear  = Wrap(@ + size)]
MoveFront(q, size) == [q EXCEPT !.front = Wrap(@ + size)]
ClearBuffer(q)     == [q EXCEPT !.front = 0, !.rear = 0]

\* memcpy from the ring: size bytes from position at on, which do not wrap
CopyOut(buffer, at, size) == [i \in 1 .. size |-> buffer[at + i - 1]]

\* memcpy into the ring: the bytes data[first..last] to position at
CopyIn(buffer, at, data, first, last) ==
    [p \in Positions |->
        IF at <= p /\ p <= at + last - first THEN data[first + p - at] ELSE buffer[p]]

\* what WSARecv leaves in the two pieces when it completes with these bytes
Scatter(buffer, direct, data) ==
    IF Len(data) <= direct.direct1
      THEN CopyIn(buffer, direct.ptr1, data, 1, Len(data))
      ELSE CopyIn(CopyIn(buffer, direct.ptr1, data, 1, direct.direct1),
                  direct.ptr2, data, direct.direct1 + 1, Len(data))

(***************************************************************************)
(* Peek and Dequeue copy in two pieces when the content wraps.  `size` is   *)
(* positive where they are called, and cut down to what there is.           *)
(***************************************************************************)
AtMostUsed(q, size) ==
    LET used == GetUsedSize(q.front, q.rear) IN IF used < size THEN used ELSE size

Peek(q, size) ==
    LET n      == AtMostUsed(q, size)
        direct == GetDirectDequeueSize(q.front, q.rear)
        first  == Wrap(q.front + 1)
        second == Wrap(Wrap(first + direct - 1) + 1)
    IN  IF direct < n
          THEN CopyOut(q.buffer, first, direct) \o CopyOut(q.buffer, second, n - direct)
          ELSE CopyOut(q.buffer, first, n)

Dequeued(q, size) ==
    LET n      == AtMostUsed(q, size)
        direct == GetDirectDequeueSize(q.front, q.rear)
        first  == Wrap(q.front + 1)
        second == Wrap(Wrap(first + direct - 1) + 1)
    IN  IF n <= 0 THEN q
        ELSE [q EXCEPT !.front = IF direct < n THEN Wrap(second + (n - direct) - 1)
                                 ELSE Wrap(first + n - 1)]
=============================================================================
