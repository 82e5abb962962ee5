-------------------------- MODULE RecvFramingProof --------------------------
(***************************************************************************)
(* That the receive path keeps a session's stream, and implements            *)
(* MessageStream, for every size of ring and packet and all conversations.    *)
(* Framing is the invariant: RingHolds says what the ring has, InOrder where  *)
(* its front is, and the rest what holds of the pieces of memory a pending     *)
(* receive was given, of a slot that waits for a session, and of a refusal.    *)
(* Reading is the invariant of what the content reads of the packets and       *)
(* answers: see the second half.                                             *)
(*                                                                         *)
(* First what the operations of RingQ do, said with one measure instead of   *)
(* their cases: byte i of the content is at Wrap(front + i) and byte i of the *)
(* free memory at Wrap(rear + i), whether or not either one wraps.            *)
(***************************************************************************)
EXTENDS ChatWire, SequenceTheorems, NaturalsInduction, WellFoundedInduction, TLAPS

USE RingAssumption DEF Positions

(* A position that is not past the end stays. *)
LEMMA WrapBelow ==
  ASSUME NEW i \in Nat, i < RING_BUFFER_SIZE
  PROVE  Wrap(i) = i
BY DEF Wrap

(* A position past the end comes back to the beginning. *)
LEMMA WrapAbove ==
  ASSUME NEW i \in Nat, RING_BUFFER_SIZE <= i, i < 2 * RING_BUFFER_SIZE
  PROVE  Wrap(i) = i - RING_BUFFER_SIZE
BY DEF Wrap

(* Both in one, for the provers. *)
LEMMA WrapOf ==
  ASSUME NEW i \in Nat, i < 2 * RING_BUFFER_SIZE
  PROVE  /\ Wrap(i) = IF i < RING_BUFFER_SIZE THEN i ELSE i - RING_BUFFER_SIZE
         /\ Wrap(i) \in Positions
BY WrapBelow, WrapAbove

(* Less than a round apart, two places are two positions. *)
LEMMA WrapInjective ==
  ASSUME NEW p \in Positions, NEW i \in Positions, NEW j \in Positions, i # j
  PROVE  Wrap(p + i) # Wrap(p + j)
BY WrapOf

(* Going on from a wrapped place. *)
LEMMA WrapAgain ==
  ASSUME NEW p \in Positions, NEW n \in Nat, NEW i \in Nat, n + i < RING_BUFFER_SIZE
  PROVE  Wrap(Wrap(p + n) + i) = Wrap(p + n + i)
<1>1. p + n < 2 * RING_BUFFER_SIZE /\ p + n + i < 2 * RING_BUFFER_SIZE
  OBVIOUS
<1>2. Wrap(p + n) + i < 2 * RING_BUFFER_SIZE /\ Wrap(p + n) + i \in Nat
  BY WrapOf, <1>1
<1> QED BY WrapOf, <1>1, <1>2

(* Content and free memory are the ring but for the slot kept empty, and the *)
(* content ends at the rear (GetUsedSize, GetFreeSize).                      *)
LEMMA Sizes ==
  ASSUME NEW front \in Positions, NEW rear \in Positions
  PROVE  /\ GetUsedSize(front, rear) \in 0 .. RING_BUFFER_SIZE - 1
         /\ GetFreeSize(front, rear) = RING_BUFFER_SIZE - 1 - GetUsedSize(front, rear)
         /\ Wrap(front + GetUsedSize(front, rear)) = rear
<1>1. Wrap(rear + 1) = IF rear + 1 < RING_BUFFER_SIZE THEN rear + 1 ELSE 0
  BY WrapOf
<1>2. /\ GetUsedSize(front, rear) \in 0 .. RING_BUFFER_SIZE - 1
      /\ GetFreeSize(front, rear) = RING_BUFFER_SIZE - 1 - GetUsedSize(front, rear)
  BY <1>1 DEF GetUsedSize, GetFreeSize
<1>3. Wrap(front + GetUsedSize(front, rear)) = rear
  BY <1>2, WrapOf DEF GetUsedSize
<1> QED BY <1>2, <1>3

(* An amount of content belongs to one rear. *)
LEMMA UsedOf ==
  ASSUME NEW front \in Positions, NEW n \in Positions
  PROVE  GetUsedSize(front, Wrap(front + n)) = n
BY WrapOf DEF GetUsedSize

(* MoveFront takes n bytes off the content. *)
LEMMA MoveFrontCuts ==
  ASSUME NEW q \in Rings, NEW n \in 0 .. GetUsedSize(q.front, q.rear)
  PROVE  /\ MoveFront(q, n) \in Rings
         /\ MoveFront(q, n).buffer = q.buffer
         /\ MoveFront(q, n).rear = q.rear
         /\ MoveFront(q, n).front = Wrap(q.front + n)
         /\ GetUsedSize(MoveFront(q, n).front, q.rear) = GetUsedSize(q.front, q.rear) - n
<1> DEFINE used == GetUsedSize(q.front, q.rear)
<1>1. q.front \in Positions /\ q.rear \in Positions /\ q.buffer \in [Positions -> Byte]
  BY DEF Rings
<1>2. used \in 0 .. RING_BUFFER_SIZE - 1 /\ Wrap(q.front + used) = q.rear
  BY <1>1, Sizes
<1>3. Wrap(q.front + n) \in Positions
  BY <1>1, <1>2, WrapOf
<1>4. /\ MoveFront(q, n) = [buffer |-> q.buffer, front |-> Wrap(q.front + n), rear |-> q.rear]
      /\ MoveFront(q, n) \in Rings
  BY <1>1, <1>3 DEF MoveFront, Rings
<1>5. Wrap(Wrap(q.front + n) + (used - n)) = q.rear
  <2>1. n \in Nat /\ used - n \in Nat /\ n + (used - n) = used
    BY <1>2
  <2>2. PICK m \in Nat : m = used - n
    BY <2>1
  <2>3. n + m < RING_BUFFER_SIZE /\ q.front + n + m = q.front + used
    BY <1>1, <1>2, <2>1, <2>2
  <2>4. Wrap(Wrap(q.front + n) + m) = Wrap(q.front + n + m)
    BY <1>1, <2>1, <2>3, WrapAgain
  <2> QED BY <1>2, <2>2, <2>3, <2>4
<1>6. GetUsedSize(Wrap(q.front + n), q.rear) = used - n
  <2>1. used - n \in Positions
    BY <1>2
  <2> QED BY <1>3, <1>5, <2>1, UsedOf
<1> QED BY <1>4, <1>6

(* MoveRear adds n bytes to the content. *)
LEMMA MoveRearAdds ==
  ASSUME NEW q \in Rings, NEW n \in 0 .. GetFreeSize(q.front, q.rear)
  PROVE  /\ MoveRear(q, n) \in Rings
         /\ MoveRear(q, n).buffer = q.buffer
         /\ MoveRear(q, n).front = q.front
         /\ GetUsedSize(q.front, MoveRear(q, n).rear) = GetUsedSize(q.front, q.rear) + n
<1> DEFINE used == GetUsedSize(q.front, q.rear)
<1>1. q.front \in Positions /\ q.rear \in Positions /\ q.buffer \in [Positions -> Byte]
  BY DEF Rings
<1>2. /\ used \in 0 .. RING_BUFFER_SIZE - 1 /\ Wrap(q.front + used) = q.rear
      /\ GetFreeSize(q.front, q.rear) = RING_BUFFER_SIZE - 1 - used
  BY <1>1, Sizes
<1>3. Wrap(q.rear + n) \in Positions
  <2>1. n \in Nat /\ n < RING_BUFFER_SIZE
    BY <1>2
  <2>2. q.rear + n \in Nat /\ q.rear + n < 2 * RING_BUFFER_SIZE
    BY <1>1, <2>1
  <2> QED BY <2>2, WrapOf
<1>4. /\ MoveRear(q, n) = [buffer |-> q.buffer, front |-> q.front, rear |-> Wrap(q.rear + n)]
      /\ MoveRear(q, n) \in Rings
  BY <1>1, <1>3 DEF MoveRear, Rings
<1>5. used + n \in Positions /\ used \in Positions /\ n \in Positions /\ used \in Nat /\ n \in Nat
  BY <1>2
<1>6. Wrap(q.rear + n) = Wrap(q.front + (used + n))
  <2>1. Wrap(Wrap(q.front + used) + n) = Wrap(q.front + (used + n))
    BY <1>1, <1>5, WrapAgain
  <2> QED BY <1>2, <2>1
<1>7. GetUsedSize(q.front, Wrap(q.rear + n)) = used + n
  BY <1>1, <1>5, <1>6, UsedOf, ZenonT(40)
<1> QED BY <1>4, <1>7

(* Byte i of the free memory is byte used + i from the front. *)
LEMMA BehindRear ==
  ASSUME NEW front \in Positions, NEW rear \in Positions,
         NEW i \in 0 .. GetFreeSize(front, rear)
  PROVE  /\ Wrap(rear + i) = Wrap(front + (GetUsedSize(front, rear) + i))
         /\ GetUsedSize(front, rear) + i \in Positions
<1> DEFINE used == GetUsedSize(front, rear)
<1>1. /\ used \in 0 .. RING_BUFFER_SIZE - 1 /\ Wrap(front + used) = rear
      /\ GetFreeSize(front, rear) = RING_BUFFER_SIZE - 1 - used
  BY Sizes
<1>2. used \in Nat /\ i \in Nat /\ used + i < RING_BUFFER_SIZE
  BY <1>1
<1>3. Wrap(Wrap(front + used) + i) = Wrap(front + used + i)
  BY <1>2, WrapAgain
<1> QED BY <1>1, <1>2, <1>3

-----------------------------------------------------------------------------
(* Two pieces of memory lie behind the rear, one after the other, none of    *)
(* them past the end of the buffer and both within the free memory.          *)
Room(d) == d.direct1 + d.direct2

BehindTheRear(q, d) ==
    /\ d.direct1 \in Nat /\ d.direct2 \in Nat
    /\ d.direct1 + d.direct2 <= GetFreeSize(q.front, q.rear)
    /\ d.ptr1 = Wrap(q.rear + 1)
    /\ d.ptr1 + d.direct1 <= RING_BUFFER_SIZE
    /\ d.direct2 # 0 => /\ d.ptr2 = Wrap(q.rear + 1 + d.direct1)
                        /\ d.ptr2 + d.direct2 <= RING_BUFFER_SIZE

(* The one piece of an empty ring that was cleared is all its free memory    *)
(* (AcceptUser).                                                             *)
LEMMA FirstPiece ==
  ASSUME NEW q \in Rings, q.front = 0, q.rear = 0, NEW d,
         d.direct1 = GetDirectEnqueueSize(q.front, q.rear), d.ptr1 = Wrap(q.rear + 1),
         d.direct2 = 0
  PROVE  /\ BehindTheRear(q, d)
         /\ d.direct1 + d.direct2 = GetFreeSize(q.front, q.rear)
         /\ d.direct1 > 0
<1>1. Wrap(0 + 1) = 1
  BY WrapOf
<1>2. GetDirectEnqueueSize(0, 0) = RING_BUFFER_SIZE - 1 /\ GetFreeSize(0, 0) = RING_BUFFER_SIZE - 1
  BY <1>1 DEF GetDirectEnqueueSize, GetFreeSize
<1> QED BY <1>1, <1>2 DEF BehindTheRear

(* Behind the rear there is free memory up to the front or to the end.       *)
LEMMA DirectEnqueue ==
  ASSUME NEW front \in Positions, NEW rear \in Positions, NEW direct,
         direct = GetDirectEnqueueSize(front, rear)
  PROVE  /\ direct \in 0 .. GetFreeSize(front, rear)
         /\ GetFreeSize(front, rear) \in Positions
         /\ Wrap(rear + 1) + direct <= RING_BUFFER_SIZE
         /\ direct < GetFreeSize(front, rear) =>
              rear + direct = RING_BUFFER_SIZE - 1 /\ rear >= front
<1>1. Wrap(rear + 1) = IF rear + 1 < RING_BUFFER_SIZE THEN rear + 1 ELSE 0
  BY WrapOf
<1> QED BY <1>1 DEF GetDirectEnqueueSize, GetFreeSize

(* What is left after the first piece is the second.                         *)
LEMMA SecondPiece ==
  ASSUME NEW front \in Positions, NEW rear \in Positions,
         NEW direct1, direct1 = GetDirectEnqueueSize(front, rear),
         NEW rear2, rear2 = Wrap(rear + direct1),
         NEW direct2, direct2 = GetDirectEnqueueSize(front, rear2)
  PROVE  /\ direct2 \in Nat
         /\ direct1 + direct2 = GetFreeSize(front, rear)
         /\ rear2 \in Positions
<1>1. /\ direct1 \in 0 .. GetFreeSize(front, rear)
      /\ GetFreeSize(front, rear) \in Positions
      /\ Wrap(rear + 1) + direct1 <= RING_BUFFER_SIZE
      /\ direct1 < GetFreeSize(front, rear) =>
            rear + direct1 = RING_BUFFER_SIZE - 1 /\ rear >= front
  BY DirectEnqueue
<1>2. rear2 = IF rear + direct1 < RING_BUFFER_SIZE THEN rear + direct1
              ELSE rear + direct1 - RING_BUFFER_SIZE
  BY <1>1, WrapOf
<1>3. rear2 \in Positions
  BY <1>1, <1>2
<1>4. Wrap(rear2 + 1) = IF rear2 + 1 < RING_BUFFER_SIZE THEN rear2 + 1 ELSE 0
  BY <1>3, WrapOf
<1>5. CASE direct1 < GetFreeSize(front, rear)
  <2>1. /\ rear2 = RING_BUFFER_SIZE - 1 /\ Wrap(rear2 + 1) = 0
        /\ rear + direct1 = RING_BUFFER_SIZE - 1 /\ rear >= front
    BY <1>1, <1>2, <1>4, <1>5
  <2>2. GetFreeSize(front, rear) = IF Wrap(rear + 1) = front THEN 0
                                   ELSE front + (RING_BUFFER_SIZE - 1) - rear
    BY <2>1 DEF GetFreeSize
  <2>3. direct2 = front
    BY <1>1, <1>5, <2>1, <2>2 DEF GetDirectEnqueueSize
  <2> QED BY <1>1, <1>3, <1>5, <2>1, <2>2, <2>3
<1>6. CASE direct1 = GetFreeSize(front, rear)
  <2>1. Wrap(front + GetUsedSize(front, rear)) = rear
    BY Sizes
  <2>2. Wrap(rear2 + 1) = front
    <3>1. Wrap(rear + 1) = IF rear + 1 < RING_BUFFER_SIZE THEN rear + 1 ELSE 0
      BY WrapOf
    <3> QED BY <1>2, <1>4, <1>6, <3>1 DEF GetFreeSize
  <2>3. direct2 = 0
    BY <2>2 DEF GetDirectEnqueueSize
  <2> QED BY <1>1, <1>3, <1>6, <2>3
<1> QED BY <1>1, <1>5, <1>6

(* The two pieces of GetDirectEnQData are all the free memory (RecvPost).    *)
LEMMA TwoPieces ==
  ASSUME NEW q \in Rings, NEW d, d = GetDirectEnQData(q)
  PROVE  /\ BehindTheRear(q, d)
         /\ d.direct1 + d.direct2 = GetFreeSize(q.front, q.rear)
<1>1. q.front \in Positions /\ q.rear \in Positions
  BY DEF Rings
<1>2. /\ d.direct1 = GetDirectEnqueueSize(q.front, q.rear)
      /\ d.ptr1 = Wrap(q.rear + 1)
      /\ d.direct2 = GetDirectEnqueueSize(q.front, Wrap(q.rear + d.direct1))
      /\ d.ptr2 = Wrap(Wrap(q.rear + d.direct1) + 1)
  BY DEF GetDirectEnQData
<1>3. /\ d.direct1 \in 0 .. GetFreeSize(q.front, q.rear)
      /\ GetFreeSize(q.front, q.rear) \in Positions
      /\ d.ptr1 + d.direct1 <= RING_BUFFER_SIZE
  BY <1>1, <1>2, DirectEnqueue
<1>4. /\ d.direct2 \in Nat
      /\ d.direct1 + d.direct2 = GetFreeSize(q.front, q.rear)
      /\ Wrap(q.rear + d.direct1) \in Positions
  <2>1. PICK front \in Positions, rear \in Positions : front = q.front /\ rear = q.rear
    BY <1>1
  <2>2. PICK direct1, rear2, direct2 :
           /\ direct1 = GetDirectEnqueueSize(front, rear)
           /\ rear2 = Wrap(rear + direct1)
           /\ direct2 = GetDirectEnqueueSize(front, rear2)
    OBVIOUS
  <2>3. direct2 \in Nat /\ direct1 + direct2 = GetFreeSize(front, rear) /\ rear2 \in Positions
    BY <2>2, SecondPiece
  <2> QED BY <1>2, <2>1, <2>2, <2>3
<1>5. d.direct2 # 0 => d.ptr2 + d.direct2 <= RING_BUFFER_SIZE
  BY <1>1, <1>2, <1>4, DirectEnqueue
<1>6. d.direct2 # 0 => d.ptr2 = Wrap(q.rear + 1 + d.direct1)
  <2>1. SUFFICES ASSUME d.direct2 # 0 PROVE d.ptr2 = Wrap(q.rear + 1 + d.direct1)
    OBVIOUS
  <2>2. d.direct1 + 1 < RING_BUFFER_SIZE /\ d.direct1 \in Nat
    BY <1>3, <1>4, <2>1
  <2>3. Wrap(Wrap(q.rear + d.direct1) + 1) = Wrap(q.rear + d.direct1 + 1)
    BY <1>1, <2>2, WrapAgain
  <2>4. q.rear + d.direct1 + 1 = q.rear + 1 + d.direct1
    BY <1>1, <2>2
  <2> QED BY <1>2, <2>3, <2>4
<1> QED BY <1>2, <1>3, <1>4, <1>5, <1>6 DEF BehindTheRear
(* Byte i behind the rear lies in the first piece or in the second.          *)
LEMMA PieceOf ==
  ASSUME NEW q \in Rings, NEW d, BehindTheRear(q, d), NEW i \in 1 .. d.direct1 + d.direct2
  PROVE  Wrap(q.rear + i) = IF i <= d.direct1 THEN d.ptr1 + (i - 1)
                            ELSE d.ptr2 + (i - d.direct1 - 1)
<1>1. q.front \in Positions /\ q.rear \in Positions
  BY DEF Rings
<1>2. GetFreeSize(q.front, q.rear) \in Positions
  <2>1. /\ GetUsedSize(q.front, q.rear) \in 0 .. RING_BUFFER_SIZE - 1
        /\ GetFreeSize(q.front, q.rear) = RING_BUFFER_SIZE - 1 - GetUsedSize(q.front, q.rear)
    BY <1>1, Sizes
  <2> QED BY <2>1
<1>3. /\ d.direct1 \in Nat /\ d.direct2 \in Nat /\ i \in Nat /\ i < RING_BUFFER_SIZE
      /\ 1 <= i /\ i <= d.direct1 + d.direct2 /\ d.direct1 + d.direct2 < RING_BUFFER_SIZE
  BY <1>2 DEF BehindTheRear
<1>4. CASE i <= d.direct1
  <2>1. PICK k \in Nat : k = i - 1
    BY <1>3
  <2>2. Wrap(Wrap(q.rear + 1) + k) = Wrap(q.rear + 1 + k)
    BY <1>1, <1>3, <2>1, WrapAgain
  <2>3. q.rear + 1 + k = q.rear + i
    BY <1>1, <1>3, <2>1
  <2>4. Wrap(q.rear + 1) \in Positions
    BY <1>1, WrapOf
  <2>5. d.ptr1 + k < RING_BUFFER_SIZE /\ d.ptr1 + k \in Nat
    BY <1>3, <1>4, <2>1, <2>4 DEF BehindTheRear
  <2> QED BY <1>4, <2>1, <2>2, <2>3, <2>5, WrapBelow DEF BehindTheRear
<1>5. CASE i > d.direct1
  <2>1. PICK k \in Nat : k = i - d.direct1 - 1
    BY <1>3, <1>5
  <2>2. PICK n \in Nat : n = 1 + d.direct1
    BY <1>3
  <2>3. n + k = i /\ q.rear + n + k = q.rear + i /\ q.rear + n = q.rear + 1 + d.direct1
    BY <1>1, <1>3, <2>1, <2>2
  <2>4. Wrap(Wrap(q.rear + n) + k) = Wrap(q.rear + n + k)
    BY <1>1, <1>3, <2>3, WrapAgain
  <2>5. Wrap(q.rear + n) \in Positions
    BY <1>1, <1>3, <1>5, <2>2, WrapOf
  <2>6. d.ptr2 = Wrap(q.rear + n) /\ d.ptr2 + d.direct2 <= RING_BUFFER_SIZE
    BY <1>3, <1>5, <2>3 DEF BehindTheRear
  <2>7. d.ptr2 + k < RING_BUFFER_SIZE /\ d.ptr2 + k \in Nat
    BY <1>3, <1>5, <2>1, <2>5, <2>6
  <2>8. Wrap(d.ptr2 + k) = d.ptr2 + k
    BY <2>7, WrapBelow
  <2> QED BY <1>3, <1>5, <2>1, <2>3, <2>4, <2>6, <2>8
<1> QED BY <1>3, <1>4, <1>5

(* Different bytes behind the rear have different positions, and none of     *)
(* them is a position of the content.                                        *)
LEMMA Apart ==
  ASSUME NEW front \in Positions, NEW rear \in Positions,
         NEW i \in 1 .. GetFreeSize(front, rear)
  PROVE  /\ \A j \in 1 .. GetFreeSize(front, rear) : j # i => Wrap(rear + j) # Wrap(rear + i)
         /\ \A j \in 1 .. GetUsedSize(front, rear) : Wrap(front + j) # Wrap(rear + i)
<1>1. /\ GetUsedSize(front, rear) \in 0 .. RING_BUFFER_SIZE - 1
      /\ GetFreeSize(front, rear) = RING_BUFFER_SIZE - 1 - GetUsedSize(front, rear)
  BY Sizes
<1>2. 1 .. GetFreeSize(front, rear) \subseteq Positions /\ 1 .. GetUsedSize(front, rear) \subseteq Positions
  BY <1>1
<1>3. i \in 0 .. GetFreeSize(front, rear) /\ i > 0
  BY <1>1
<1>4. /\ Wrap(rear + i) = Wrap(front + (GetUsedSize(front, rear) + i))
      /\ GetUsedSize(front, rear) + i \in Positions
  BY <1>3, BehindRear
<1>5. \A j \in 1 .. GetFreeSize(front, rear) : j # i => Wrap(rear + j) # Wrap(rear + i)
  BY <1>2, WrapInjective
<1>6. ASSUME NEW j \in 1 .. GetUsedSize(front, rear) PROVE Wrap(front + j) # Wrap(rear + i)
  <2>1. PICK k \in Positions : k = GetUsedSize(front, rear) + i
    BY <1>4
  <2>2. j \in Positions /\ j # k
    BY <1>1, <1>2, <1>3, <2>1
  <2> QED BY <1>4, <2>1, <2>2, WrapInjective
<1> QED BY <1>5, <1>6
(* A copy into the buffer changes its own positions only.                    *)
LEMMA CopyInTypes ==
  ASSUME NEW buffer \in [Positions -> Byte], NEW at \in Positions, NEW data \in Seq(Byte),
         NEW first \in Nat, first >= 1, NEW last \in 0 .. Len(data)
  PROVE  CopyIn(buffer, at, data, first, last) \in [Positions -> Byte]
<1>1. PICK len \in Nat : len = Len(data) /\ last <= len
  OBVIOUS
<1>2. ASSUME NEW p \in Positions, at <= p, p <= at + last - first
      PROVE  data[first + p - at] \in Byte
  <2>1. first + p - at \in 1 .. len
    BY <1>1, <1>2
  <2> QED BY <1>1, <2>1
<1> QED BY <1>2 DEF CopyIn

(* The bytes behind the rear are those of two pieces of memory.              *)
InPieces(rear, d1, d2, p1, p2) ==
    /\ \A i \in 1 .. d1 + d2 : i <= d1 => Wrap(rear + i) = p1 + (i - 1)
    /\ \A i \in 1 .. d1 + d2 : i > d1 => Wrap(rear + i) = p2 + (i - d1 - 1)

(* What Scatter does, by the values of the pieces.                           *)
Copies(buffer, d1, p1, p2, data, len) ==
    IF len <= d1 THEN CopyIn(buffer, p1, data, 1, len)
    ELSE CopyIn(CopyIn(buffer, p1, data, 1, d1), p2, data, d1 + 1, len)

(* A completed receive leaves its bytes behind the rear, and the content as  *)
(* it was (WSARecv into the pieces that lie behind the rear).                *)
LEMMA ScatterPlaces ==
  ASSUME NEW q \in Rings, NEW d, BehindTheRear(q, d), NEW data \in Seq(Byte),
         Len(data) <= Room(d),
         NEW after, after = Scatter(q.buffer, d, data)
  PROVE  /\ after \in [Positions -> Byte]
         /\ \A i \in 1 .. Len(data) : after[Wrap(q.rear + i)] = data[i]
         /\ \A i \in 1 .. GetUsedSize(q.front, q.rear) :
               after[Wrap(q.front + i)] = q.buffer[Wrap(q.front + i)]
<1>1. PICK front \in Positions, rear \in Positions, buffer \in [Positions -> Byte] :
         front = q.front /\ rear = q.rear /\ buffer = q.buffer
  BY DEF Rings
<1>2. PICK used \in Nat, free \in Nat :
         /\ used = GetUsedSize(front, rear) /\ free = GetFreeSize(front, rear)
         /\ used + free = RING_BUFFER_SIZE - 1
  <2>1. /\ GetUsedSize(front, rear) \in 0 .. RING_BUFFER_SIZE - 1
        /\ GetFreeSize(front, rear) = RING_BUFFER_SIZE - 1 - GetUsedSize(front, rear)
    BY Sizes
  <2> QED BY <2>1
<1>3. PICK d1 \in Nat, d2 \in Nat : d1 = d.direct1 /\ d2 = d.direct2
  BY DEF BehindTheRear
<1>4. PICK len \in Nat : len = Len(data)
  OBVIOUS
<1>5. d1 + d2 <= free
  BY <1>1, <1>2, <1>3 DEF BehindTheRear
<1>6. len <= d1 + d2
  BY <1>3, <1>4 DEF Room
<1>7. PICK p1 \in Positions : p1 = d.ptr1
  <2>1. d.ptr1 = Wrap(rear + 1)
    BY <1>1 DEF BehindTheRear
  <2> QED BY <2>1, WrapOf
<1>8. d2 # 0 => d.ptr2 \in Positions
  <2>1. d2 # 0 => d.ptr2 = Wrap(rear + 1 + d1)
    BY <1>1, <1>3 DEF BehindTheRear
  <2>2. d2 # 0 => rear + 1 + d1 \in Nat /\ rear + 1 + d1 < 2 * RING_BUFFER_SIZE
    BY <1>2, <1>5
  <2> QED BY <2>1, <2>2, WrapOf
<1>9. PICK p2 \in Positions : d2 # 0 => p2 = d.ptr2
  <2>1. 0 \in Positions
    OBVIOUS
  <2> QED BY <1>8, <2>1
<1>10. InPieces(rear, d1, d2, p1, p2)
  <2>1. ASSUME NEW i \in 1 .. d1 + d2
        PROVE  Wrap(rear + i) = IF i <= d1 THEN d.ptr1 + (i - 1) ELSE d.ptr2 + (i - d1 - 1)
    <3>1. i \in 1 .. d.direct1 + d.direct2
      BY <1>3
    <3> QED BY <1>1, <1>3, <3>1, PieceOf
  <2>2. ASSUME NEW i \in 1 .. d1 + d2, i <= d1 PROVE Wrap(rear + i) = p1 + (i - 1)
    BY <1>7, <2>1, <2>2
  <2>3. ASSUME NEW i \in 1 .. d1 + d2, i > d1 PROVE Wrap(rear + i) = p2 + (i - d1 - 1)
    <3>1. p2 = d.ptr2
      BY <1>9, <2>3
    <3>2. ~(i <= d1)
      BY <2>3
    <3>3. Wrap(rear + i) = d.ptr2 + (i - d1 - 1)
      BY <2>1, <3>2
    <3> QED BY <3>1, <3>3
  <2> QED BY <2>2, <2>3 DEF InPieces
<1>11. after = Copies(buffer, d1, p1, p2, data, len)
  <2>1. CASE len <= d1
    BY <1>1, <1>3, <1>4, <1>7, <2>1 DEF Scatter, Copies
  <2>2. CASE len > d1
    <3>1. p2 = d.ptr2
      BY <1>6, <1>9, <2>2
    <3>2. ~(Len(data) <= d.direct1)
      BY <1>3, <1>4, <2>2
    <3> QED BY <1>1, <1>3, <1>4, <1>7, <2>2, <3>1, <3>2 DEF Scatter, Copies
  <2> QED BY <2>1, <2>2
<1>12. /\ after \in [Positions -> Byte]
       /\ \A i \in 1 .. len : after[Wrap(rear + i)] = data[i]
       /\ \A i \in 1 .. used : after[Wrap(front + i)] = buffer[Wrap(front + i)]
  <2> USE <1>4, <1>5, <1>6
  <2>1. used + free < RING_BUFFER_SIZE /\ d1 + d2 < RING_BUFFER_SIZE
    BY <1>2
  <2>2. /\ \A i \in 1 .. d1 + d2 : i <= d1 => Wrap(rear + i) = p1 + (i - 1)
        /\ \A i \in 1 .. d1 + d2 : i > d1 => Wrap(rear + i) = p2 + (i - d1 - 1)
    BY <1>10 DEF InPieces
  <2>3. ASSUME NEW i \in 1 .. d1 + d2, NEW j \in 1 .. d1 + d2, j # i
        PROVE  Wrap(rear + j) # Wrap(rear + i)
    <3>1. i \in 1 .. GetFreeSize(front, rear) /\ j \in 1 .. GetFreeSize(front, rear)
      BY <1>2
    <3> QED BY <2>3, <3>1, Apart
  <2>4. ASSUME NEW i \in 1 .. d1 + d2, NEW j \in 1 .. used
        PROVE  Wrap(front + j) # Wrap(rear + i)
    <3>1. i \in 1 .. GetFreeSize(front, rear) /\ j \in 1 .. GetUsedSize(front, rear)
      BY <1>2
    <3> QED BY <3>1, Apart
  <2>5. ASSUME NEW j \in 1 .. used PROVE Wrap(front + j) \in Positions
    <3>1. front + j \in Nat /\ front + j < 2 * RING_BUFFER_SIZE
      BY <2>1
    <3> QED BY <3>1, WrapOf
  <2>6. ASSUME NEW i \in 1 .. d1 + d2 PROVE Wrap(rear + i) \in Positions
    <3>1. rear + i \in Nat /\ rear + i < 2 * RING_BUFFER_SIZE
      BY <2>1
    <3> QED BY <3>1, WrapOf
  <2>7. CASE len <= d1
    <3>1. after = CopyIn(buffer, p1, data, 1, len)
      BY <1>11, <2>7 DEF Copies
    <3>2. after \in [Positions -> Byte]
      <4>1. 1 \in Nat /\ 1 >= 1 /\ len \in 0 .. Len(data)
        OBVIOUS
      <4> QED BY <3>1, <4>1, CopyInTypes
    <3>3. \A p \in Positions : after[p] = IF p1 <= p /\ p <= p1 + len - 1
                                          THEN data[1 + p - p1] ELSE buffer[p]
      BY <3>1 DEF CopyIn
    <3>4. ASSUME NEW i \in 1 .. len PROVE after[Wrap(rear + i)] = data[i]
      <4>1. /\ i \in 1 .. d1 + d2 /\ i <= d1
            /\ Wrap(rear + i) = p1 + (i - 1)
        BY <2>1, <2>2, <2>7
      <4>2. PICK p \in Positions : p = Wrap(rear + i)
        BY <2>6, <4>1
      <4>3. p = p1 + (i - 1)
        BY <4>1, <4>2
      <4>4. p1 <= p /\ p <= p1 + len - 1 /\ 1 + p - p1 = i
        BY <4>3
      <4> QED BY <3>3, <4>2, <4>4
    <3>5. ASSUME NEW j \in 1 .. used
          PROVE  after[Wrap(front + j)] = buffer[Wrap(front + j)]
      <4>1. PICK p \in Positions : p = Wrap(front + j)
        BY <2>5
      <4>2. ~(p1 <= p /\ p <= p1 + len - 1)
        <5>1. SUFFICES ASSUME p1 <= p, p <= p1 + len - 1 PROVE FALSE
          OBVIOUS
        <5>2. PICK i \in 1 .. d1 + d2 : i = p - p1 + 1 /\ i <= d1
          BY <2>7, <5>1
        <5>3. Wrap(rear + i) = p1 + (i - 1)
          BY <2>2, <5>2
        <5>4. Wrap(rear + i) = p
          BY <5>2, <5>3
        <5> QED BY <2>4, <4>1, <5>4
      <4> QED BY <3>3, <4>1, <4>2
    <3> QED BY <3>2, <3>4, <3>5
  <2>8. CASE len > d1
    <3> DEFINE mid == CopyIn(buffer, p1, data, 1, d1)
    <3>1. after = CopyIn(mid, p2, data, d1 + 1, len)
      BY <1>11, <2>8 DEF Copies
    <3>2. d2 # 0 /\ p2 \in Positions
      BY <2>8
    <3>3. mid \in [Positions -> Byte]
      <4>1. 1 \in Nat /\ 1 >= 1 /\ d1 \in 0 .. Len(data)
        BY <2>8
      <4> QED BY <4>1, CopyInTypes
    <3>4. \A p \in Positions : mid[p] = IF p1 <= p /\ p <= p1 + d1 - 1
                                        THEN data[1 + p - p1] ELSE buffer[p]
      BY DEF CopyIn
    <3> HIDE DEF mid
    <3>5. after \in [Positions -> Byte]
      <4>1. PICK first \in Nat : first = d1 + 1 /\ first >= 1
        OBVIOUS
      <4>2. len \in 0 .. Len(data)
        OBVIOUS
      <4>3. CopyIn(mid, p2, data, first, len) \in [Positions -> Byte]
        BY <3>2, <3>3, <4>1, <4>2, CopyInTypes
      <4> QED BY <3>1, <4>1, <4>3
    <3>6. \A p \in Positions : after[p] = IF p2 <= p /\ p <= p2 + len - (d1 + 1)
                                          THEN data[d1 + 1 + p - p2] ELSE mid[p]
      BY <3>1 DEF CopyIn
    <3>7. ASSUME NEW p \in Positions, p1 <= p, p <= p1 + d1 - 1
          PROVE  \E i \in 1 .. d1 + d2 : i = p - p1 + 1 /\ i <= d1 /\ Wrap(rear + i) = p
      <4>1. PICK i \in 1 .. d1 + d2 : i = p - p1 + 1 /\ i <= d1
        BY <2>1, <3>7
      <4>2. Wrap(rear + i) = p1 + (i - 1)
        BY <2>2, <4>1
      <4> QED BY <4>1, <4>2
    <3>8. ASSUME NEW p \in Positions, p2 <= p, p <= p2 + len - (d1 + 1)
          PROVE  \E i \in 1 .. d1 + d2 : i = p - p2 + d1 + 1 /\ i > d1 /\ Wrap(rear + i) = p
      <4>1. PICK i \in 1 .. d1 + d2 : i = p - p2 + d1 + 1 /\ i > d1
        BY <2>1, <3>2, <3>8
      <4>2. Wrap(rear + i) = p2 + (i - d1 - 1)
        BY <2>2, <4>1
      <4>3. Wrap(rear + i) = p
        BY <3>2, <4>1, <4>2
      <4> QED BY <4>1, <4>3
    <3>9. ASSUME NEW i \in 1 .. len PROVE after[Wrap(rear + i)] = data[i]
      <4>1. i \in 1 .. d1 + d2
        BY <2>1
      <4>2. PICK p \in Positions : p = Wrap(rear + i)
        BY <2>6, <4>1
      <4>3. CASE i <= d1
        <5>1. p = p1 + (i - 1)
          BY <2>2, <4>1, <4>2, <4>3
        <5>2. ~(p2 <= p /\ p <= p2 + len - (d1 + 1))
          <6>1. SUFFICES ASSUME p2 <= p, p <= p2 + len - (d1 + 1) PROVE FALSE
            OBVIOUS
          <6>2. PICK j \in 1 .. d1 + d2 : j > d1 /\ Wrap(rear + j) = p
            BY <3>8, <6>1
          <6>3. j # i
            BY <4>3, <6>2
          <6> QED BY <2>3, <4>1, <4>2, <6>2, <6>3
        <5>3. p1 <= p /\ p <= p1 + d1 - 1 /\ 1 + p - p1 = i
          BY <2>1, <4>1, <4>3, <5>1
        <5> QED BY <3>4, <3>6, <4>2, <5>2, <5>3
      <4>4. CASE i > d1
        <5>1. p = p2 + (i - d1 - 1)
          BY <2>1, <2>2, <4>1, <4>2, <4>4
        <5>2. p2 <= p /\ p <= p2 + len - (d1 + 1) /\ d1 + 1 + p - p2 = i
          BY <2>1, <3>2, <4>1, <4>4, <5>1
        <5> QED BY <3>6, <4>2, <5>2
      <4> QED BY <2>1, <4>1, <4>3, <4>4
    <3>10. ASSUME NEW j \in 1 .. used
           PROVE  after[Wrap(front + j)] = buffer[Wrap(front + j)]
      <4>1. PICK p \in Positions : p = Wrap(front + j)
        BY <2>5
      <4>2. ~(p1 <= p /\ p <= p1 + d1 - 1)
        BY <2>4, <3>7, <4>1
      <4>3. ~(p2 <= p /\ p <= p2 + len - (d1 + 1))
        BY <2>4, <3>8, <4>1
      <4> QED BY <3>4, <3>6, <4>1, <4>2, <4>3
    <3> QED BY <3>5, <3>9, <3>10
  <2>9. len <= d1 \/ len > d1
    OBVIOUS
  <2> QED BY <2>7, <2>8, <2>9
<1> QED BY <1>1, <1>2, <1>4, <1>12

-----------------------------------------------------------------------------
(* In front of the rear there is content up to the rear or to the end.       *)
LEMMA DirectDequeue ==
  ASSUME NEW front \in Positions, NEW rear \in Positions, NEW direct,
         direct = GetDirectDequeueSize(front, rear), GetUsedSize(front, rear) > 0
  PROVE  /\ direct \in 1 .. GetUsedSize(front, rear)
         /\ Wrap(front + 1) + direct <= RING_BUFFER_SIZE
         /\ direct < GetUsedSize(front, rear) => Wrap(front + 1) + direct = RING_BUFFER_SIZE
<1>1. Wrap(front + 1) = IF front + 1 < RING_BUFFER_SIZE THEN front + 1 ELSE 0
  BY WrapOf
<1> QED BY <1>1 DEF GetDirectDequeueSize, GetUsedSize

(* The second piece of the content begins where the first one ends.          *)
LEMMA SecondRead ==
  ASSUME NEW front \in Positions, NEW rear \in Positions, NEW direct \in Nat,
         direct = GetDirectDequeueSize(front, rear),
         NEW used \in Nat, used = GetUsedSize(front, rear), direct < used, used > 0
  PROVE  /\ Wrap(Wrap(Wrap(front + 1) + direct - 1) + 1) = 0
         /\ direct > 0
         /\ \A i \in 1 .. direct : Wrap(front + i) = Wrap(front + 1) + i - 1
         /\ \A i \in direct + 1 .. used : Wrap(front + i) = i - direct - 1
<1>1. direct \in 1 .. used /\ Wrap(front + 1) + direct = RING_BUFFER_SIZE
  BY DirectDequeue
<1>2. Wrap(front + 1) = IF front + 1 < RING_BUFFER_SIZE THEN front + 1 ELSE 0
  BY WrapOf
<1>3. used < RING_BUFFER_SIZE
  BY Sizes
<1>4. Wrap(Wrap(front + 1) + direct - 1) = RING_BUFFER_SIZE - 1 /\ Wrap(RING_BUFFER_SIZE - 1 + 1) = 0
  BY <1>1, <1>2, WrapBelow, WrapAbove
<1>5. ASSUME NEW i \in 1 .. used
      PROVE  Wrap(front + i) = IF front + i < RING_BUFFER_SIZE THEN front + i
                               ELSE front + i - RING_BUFFER_SIZE
  <2>1. front + i \in Nat /\ front + i < 2 * RING_BUFFER_SIZE
    BY <1>3
  <2> QED BY <2>1, WrapOf
<1>6. \A i \in 1 .. direct : Wrap(front + i) = Wrap(front + 1) + i - 1
  BY <1>1, <1>2, <1>3, <1>5
<1>7. \A i \in direct + 1 .. used : Wrap(front + i) = i - direct - 1
  BY <1>1, <1>2, <1>3, <1>5
<1> QED BY <1>1, <1>4, <1>6, <1>7
(* What is copied out of the buffer is as long as asked for.                 *)
LEMMA CopyOutReads ==
  ASSUME NEW buffer \in [Positions -> Byte], NEW at \in Positions, NEW size \in Nat,
         at + size <= RING_BUFFER_SIZE
  PROVE  /\ CopyOut(buffer, at, size) \in Seq(Byte)
         /\ Len(CopyOut(buffer, at, size)) = size
         /\ \A i \in 1 .. size : CopyOut(buffer, at, size)[i] = buffer[at + i - 1]
<1>1. \A i \in 1 .. size : buffer[at + i - 1] \in Byte
  OBVIOUS
<1> QED BY <1>1 DEF CopyOut

(* Peek reads the first bytes of the content, across the wrap.               *)
LEMMA PeekReads ==
  ASSUME NEW q \in Rings, NEW n \in Nat, n > 0, n <= GetUsedSize(q.front, q.rear)
  PROVE  /\ Peek(q, n) \in Seq(Byte)
         /\ Len(Peek(q, n)) = n
         /\ \A i \in 1 .. n : Peek(q, n)[i] = q.buffer[Wrap(q.front + i)]
<1>1. PICK front \in Positions, rear \in Positions, buffer \in [Positions -> Byte] :
         front = q.front /\ rear = q.rear /\ buffer = q.buffer
  BY DEF Rings
<1>2. PICK used \in Nat : used = GetUsedSize(front, rear) /\ n <= used /\ used < RING_BUFFER_SIZE
  <2>1. GetUsedSize(front, rear) \in 0 .. RING_BUFFER_SIZE - 1
    BY Sizes
  <2>2. n <= GetUsedSize(front, rear)
    BY <1>1
  <2> QED BY <2>1, <2>2
<1>3. PICK direct \in Nat : direct = GetDirectDequeueSize(front, rear) /\ direct <= used /\ direct > 0
  BY <1>2, DirectDequeue
<1>4. AtMostUsed(q, n) = n
  BY <1>1, <1>2 DEF AtMostUsed
<1>5. PICK first \in Positions : first = Wrap(front + 1) /\ first + direct <= RING_BUFFER_SIZE
  BY <1>2, <1>3, DirectDequeue, WrapOf
<1>6. CASE direct < n
  <2>1. /\ Wrap(Wrap(first + direct - 1) + 1) = 0
        /\ \A i \in 1 .. direct : Wrap(front + i) = first + i - 1
        /\ \A i \in direct + 1 .. used : Wrap(front + i) = i - direct - 1
    <3>1. direct < used /\ used > 0
      BY <1>2, <1>6
    <3>2. direct = GetDirectDequeueSize(front, rear) /\ used = GetUsedSize(front, rear)
          /\ first = Wrap(front + 1)
      BY <1>2, <1>3, <1>5
    <3>3. Wrap(Wrap(first + direct - 1) + 1) = 0
      BY <3>1, <3>2, SecondRead
    <3>4. \A i \in 1 .. direct : Wrap(front + i) = first + i - 1
      BY <3>1, <3>2, SecondRead
    <3>5. \A i \in direct + 1 .. used : Wrap(front + i) = i - direct - 1
      BY <3>1, <3>2, SecondRead, SMTT(40)
    <3> QED BY <3>3, <3>4, <3>5
  <2>2. Peek(q, n) = CopyOut(buffer, first, direct) \o CopyOut(buffer, 0, n - direct)
    BY <1>1, <1>3, <1>4, <1>5, <1>6, <2>1 DEF Peek
  <2>3. PICK rest \in Nat : rest = n - direct /\ rest <= RING_BUFFER_SIZE
    BY <1>2, <1>6
  <2>4. /\ CopyOut(buffer, first, direct) \in Seq(Byte)
        /\ Len(CopyOut(buffer, first, direct)) = direct
        /\ \A i \in 1 .. direct : CopyOut(buffer, first, direct)[i] = buffer[first + i - 1]
    BY <1>5, CopyOutReads
  <2>5. /\ CopyOut(buffer, 0, rest) \in Seq(Byte)
        /\ Len(CopyOut(buffer, 0, rest)) = rest
        /\ \A i \in 1 .. rest : CopyOut(buffer, 0, rest)[i] = buffer[0 + i - 1]
    <3>1. 0 \in Positions /\ 0 + rest <= RING_BUFFER_SIZE
      BY <2>3
    <3> QED BY <3>1, CopyOutReads
  <2>6. PICK a \in Seq(Byte), b \in Seq(Byte) :
          a = CopyOut(buffer, first, direct) /\ b = CopyOut(buffer, 0, rest)
    BY <2>4, <2>5
  <2>7. Peek(q, n) = a \o b /\ Len(a) = direct /\ Len(b) = rest
    BY <2>2, <2>3, <2>4, <2>5, <2>6
  <2>8. a \o b \in Seq(Byte) /\ Len(a \o b) = n
    BY <2>3, <2>7
  <2>9. ASSUME NEW i \in 1 .. n PROVE (a \o b)[i] = buffer[Wrap(front + i)]
    <3>1. CASE i <= direct
      <4>1. (a \o b)[i] = a[i] /\ i \in 1 .. direct
        BY <2>7, <3>1
      <4> QED BY <2>1, <2>4, <2>6, <4>1
    <3>2. CASE i > direct
      <4>1. (a \o b)[i] = b[i - direct]
        BY <2>3, <2>7, <3>2, SMTT(40)
      <4>2. PICK k \in 1 .. rest : k = i - direct
        BY <2>3, <3>2
      <4>3. b[k] = buffer[k - 1]
        <5>1. b[k] = buffer[0 + k - 1]
          BY <2>5, <2>6
        <5> QED BY <5>1
      <4>4. i \in direct + 1 .. used /\ i - direct - 1 = k - 1
        BY <1>2, <3>2, <4>2
      <4>5. Wrap(front + i) = k - 1
        BY <2>1, <4>4
      <4>6. (a \o b)[i] = b[k]
        BY <4>1, <4>2
      <4> QED BY <4>3, <4>5, <4>6
    <3>3. i <= direct \/ i > direct
      OBVIOUS
    <3> QED BY <3>1, <3>2, <3>3
  <2> QED BY <1>1, <2>7, <2>8, <2>9
<1>7. CASE n <= direct
  <2>1. Peek(q, n) = CopyOut(buffer, first, n)
    BY <1>1, <1>3, <1>4, <1>5, <1>7 DEF Peek
  <2>2. /\ CopyOut(buffer, first, n) \in Seq(Byte)
        /\ Len(CopyOut(buffer, first, n)) = n
        /\ \A i \in 1 .. n : CopyOut(buffer, first, n)[i] = buffer[first + i - 1]
    <3>1. first + n <= RING_BUFFER_SIZE
      BY <1>5, <1>7
    <3> QED BY <3>1, CopyOutReads
  <2>3. ASSUME NEW i \in 1 .. n PROVE Wrap(front + i) = first + i - 1
    <3>1. front + i \in Nat /\ front + i < 2 * RING_BUFFER_SIZE
      BY <1>2
    <3>2. Wrap(front + i) = IF front + i < RING_BUFFER_SIZE THEN front + i
                            ELSE front + i - RING_BUFFER_SIZE
      BY <3>1, WrapOf
    <3>3. first = IF front + 1 < RING_BUFFER_SIZE THEN front + 1 ELSE 0
      BY <1>5, WrapOf
    <3> QED BY <1>5, <1>7, <3>2, <3>3
  <2> QED BY <1>1, <2>1, <2>2, <2>3
<1> QED BY <1>6, <1>7

(* Dequeue takes the same bytes off as MoveFront.                            *)
LEMMA DequeuedCuts ==
  ASSUME NEW q \in Rings, NEW n \in Nat, n > 0, n <= GetUsedSize(q.front, q.rear)
  PROVE  Dequeued(q, n) = MoveFront(q, n)
<1>1. PICK front \in Positions, rear \in Positions : front = q.front /\ rear = q.rear
  BY DEF Rings
<1>2. PICK used \in Nat : used = GetUsedSize(front, rear) /\ n <= used /\ used < RING_BUFFER_SIZE
  <2>1. GetUsedSize(front, rear) \in 0 .. RING_BUFFER_SIZE - 1
    BY Sizes
  <2>2. n <= GetUsedSize(front, rear)
    BY <1>1
  <2> QED BY <2>1, <2>2
<1>3. PICK direct \in Nat : direct = GetDirectDequeueSize(front, rear) /\ direct <= used /\ direct > 0
  BY <1>2, DirectDequeue
<1>4. AtMostUsed(q, n) = n /\ ~(n <= 0)
  BY <1>1, <1>2 DEF AtMostUsed
<1>5. PICK first \in Positions : first = Wrap(front + 1) /\ first + direct <= RING_BUFFER_SIZE
  BY <1>2, <1>3, DirectDequeue, WrapOf
<1>6. front + n \in Nat /\ front + n < 2 * RING_BUFFER_SIZE
  BY <1>2
<1>7. Wrap(front + n) = IF front + n < RING_BUFFER_SIZE THEN front + n
                        ELSE front + n - RING_BUFFER_SIZE
  BY <1>6, WrapOf
<1>8. first = IF front + 1 < RING_BUFFER_SIZE THEN front + 1 ELSE 0
  BY <1>5, WrapOf
<1>9. CASE direct < n
  <2>1. Wrap(Wrap(first + direct - 1) + 1) = 0
    BY <1>2, <1>3, <1>5, <1>9, SecondRead
  <2>2. \A i \in direct + 1 .. used : Wrap(front + i) = i - direct - 1
    BY <1>2, <1>3, <1>5, <1>9, SecondRead
  <2>3. Wrap(front + n) = n - direct - 1
    BY <1>2, <1>9, <2>2
  <2>4. PICK k \in Nat : k = n - direct - 1 /\ k < RING_BUFFER_SIZE /\ k = 0 + (n - direct) - 1
    BY <1>2, <1>9
  <2>5. Wrap(0 + (n - direct) - 1) = Wrap(front + n)
    BY <2>3, <2>4, WrapBelow
  <2> QED BY <1>1, <1>3, <1>4, <1>5, <1>9, <2>1, <2>5 DEF Dequeued, MoveFront
<1>10. CASE n <= direct
  <2>1. PICK k \in Nat : k = first + n - 1 /\ k < RING_BUFFER_SIZE
    BY <1>5, <1>10
  <2>2. Wrap(first + n - 1) = Wrap(front + n)
    BY <1>5, <1>7, <1>8, <1>10, <2>1, WrapBelow
  <2> QED BY <1>1, <1>3, <1>4, <1>5, <1>10, <2>2 DEF Dequeued, MoveFront
<1> QED BY <1>9, <1>10

-----------------------------------------------------------------------------
(* A part of a sequence.                                                     *)
LEMMA PartOf ==
  ASSUME NEW S, NEW s \in Seq(S), NEW a \in Nat, NEW k \in Nat, a + k <= Len(s)
  PROVE  /\ SubSeq(s, a + 1, a + k) \in Seq(S)
         /\ Len(SubSeq(s, a + 1, a + k)) = k
         /\ \A i \in 1 .. k : SubSeq(s, a + 1, a + k)[i] = s[a + i]
<1>1. PICK m \in Int, n \in Int : m = a + 1 /\ n = a + k
  OBVIOUS
<1>2. \A i \in m .. n : s[i] \in S
  <2>1. \A i \in m .. n : i \in 1 .. Len(s)
    BY <1>1
  <2> QED BY <2>1
<1>3. /\ SubSeq(s, m, n) \in Seq(S)
      /\ Len(SubSeq(s, m, n)) = IF m <= n THEN n - m + 1 ELSE 0
      /\ \A i \in 1 .. n - m + 1 : SubSeq(s, m, n)[i] = s[m + i - 1]
  BY <1>2, SubSeqProperties
<1>4. n - m + 1 = k /\ (m > n => k = 0) /\ \A i \in 1 .. k : m + i - 1 = a + i
  BY <1>1
<1>5. Len(SubSeq(s, m, n)) = k
  BY <1>3, <1>4
<1>6. \A i \in 1 .. k : SubSeq(s, m, n)[i] = s[a + i]
  BY <1>3, <1>4
<1> QED BY <1>1, <1>3, <1>5, <1>6

(* The content of q is the n bytes of a stream that follow byte `at`.        *)
Holds(q, stream, at, n) ==
    /\ GetUsedSize(q.front, q.rear) = n
    /\ \A i \in 1 .. n : q.buffer[Wrap(q.front + i)] = stream[at + i]

(* k bytes of the stream are in the free memory, right behind the rear.      *)
Ahead(q, stream, at, k) ==
    /\ k <= GetFreeSize(q.front, q.rear)
    /\ \A i \in 1 .. k : q.buffer[Wrap(q.rear + i)] = stream[at + i]

(* There is never more content than the ring has room for.                   *)
LEMMA HoldsSmall ==
  ASSUME NEW q \in Rings, NEW stream, NEW at, NEW n \in Nat, Holds(q, stream, at, n)
  PROVE  n < RING_BUFFER_SIZE /\ GetFreeSize(q.front, q.rear) = RING_BUFFER_SIZE - 1 - n
<1>1. PICK front \in Positions, rear \in Positions : front = q.front /\ rear = q.rear
  BY DEF Rings
<1>2. n = GetUsedSize(front, rear)
  BY <1>1 DEF Holds
<1>3. GetUsedSize(front, rear) \in 0 .. RING_BUFFER_SIZE - 1
      /\ GetFreeSize(front, rear) = RING_BUFFER_SIZE - 1 - GetUsedSize(front, rear)
  BY Sizes
<1> QED BY <1>1, <1>2, <1>3

(* Peek reads the stream.                                                    *)
LEMMA PeekHolds ==
  ASSUME NEW q \in Rings, NEW stream \in Seq(Byte), NEW at \in Nat, NEW n \in Nat,
         Holds(q, stream, at, n), at + n <= Len(stream), NEW m \in 1 .. n
  PROVE  Peek(q, m) = SubSeq(stream, at + 1, at + m)
<1>1. m \in Nat /\ m > 0
  OBVIOUS
<1>2. n = GetUsedSize(q.front, q.rear) /\ m <= GetUsedSize(q.front, q.rear)
  BY DEF Holds
<1>3. /\ Peek(q, m) \in Seq(Byte)
      /\ Len(Peek(q, m)) = m
      /\ \A i \in 1 .. m : Peek(q, m)[i] = q.buffer[Wrap(q.front + i)]
  BY <1>1, <1>2, PeekReads
<1>4. PICK part \in Seq(Byte) :
         /\ part = SubSeq(stream, at + 1, at + m) /\ Len(part) = m
         /\ \A i \in 1 .. m : part[i] = stream[at + i]
  <2>1. at + m <= Len(stream) /\ m \in Nat
    OBVIOUS
  <2>2. /\ SubSeq(stream, at + 1, at + m) \in Seq(Byte)
        /\ Len(SubSeq(stream, at + 1, at + m)) = m
        /\ \A i \in 1 .. m : SubSeq(stream, at + 1, at + m)[i] = stream[at + i]
    BY <2>1, PartOf
  <2> QED BY <2>2
<1>5. \A i \in 1 .. m : Peek(q, m)[i] = part[i]
  <2>1. \A i \in 1 .. m : q.buffer[Wrap(q.front + i)] = stream[at + i]
    BY DEF Holds
  <2> QED BY <1>3, <1>4, <2>1
<1> QED BY <1>3, <1>4, <1>5, SeqEqual

(* MoveFront passes the first bytes.                                         *)
LEMMA MoveFrontHolds ==
  ASSUME NEW q \in Rings, NEW stream, NEW at \in Nat, NEW n \in Nat,
         Holds(q, stream, at, n), NEW m \in 0 .. n
  PROVE  /\ MoveFront(q, m) \in Rings
         /\ Holds(MoveFront(q, m), stream, at + m, n - m)
         /\ MoveFront(q, m).rear = q.rear /\ MoveFront(q, m).buffer = q.buffer
<1>1. m \in 0 .. GetUsedSize(q.front, q.rear) /\ n = GetUsedSize(q.front, q.rear)
  BY DEF Holds
<1>2. /\ MoveFront(q, m) \in Rings
      /\ MoveFront(q, m).buffer = q.buffer
      /\ MoveFront(q, m).rear = q.rear
      /\ MoveFront(q, m).front = Wrap(q.front + m)
      /\ GetUsedSize(MoveFront(q, m).front, q.rear) = GetUsedSize(q.front, q.rear) - m
  BY <1>1, MoveFrontCuts
<1>3. n < RING_BUFFER_SIZE
  BY HoldsSmall
<1>4. q.front \in Positions
  BY DEF Rings
<1>5. ASSUME NEW i \in 1 .. n - m
      PROVE  q.buffer[Wrap(Wrap(q.front + m) + i)] = stream[at + m + i]
  <2>1. PICK j \in 1 .. n : j = m + i
    OBVIOUS
  <2>2. Wrap(Wrap(q.front + m) + i) = Wrap(q.front + m + i)
    BY <1>3, <1>4, WrapAgain
  <2>3. q.front + m + i = q.front + j /\ at + m + i = at + j
    BY <1>4, <2>1
  <2>4. q.buffer[Wrap(q.front + j)] = stream[at + j]
    BY DEF Holds
  <2> QED BY <2>2, <2>3, <2>4
<1>6. GetUsedSize(MoveFront(q, m).front, MoveFront(q, m).rear) = n - m
  BY <1>1, <1>2
<1>7. \A i \in 1 .. n - m :
         MoveFront(q, m).buffer[Wrap(MoveFront(q, m).front + i)] = stream[at + m + i]
  BY <1>2, <1>5
<1> QED BY <1>2, <1>6, <1>7 DEF Holds

(* MoveRear makes what lies ahead content.                                   *)
LEMMA MoveRearHolds ==
  ASSUME NEW q \in Rings, NEW stream, NEW at \in Nat, NEW n \in Nat, NEW k \in Nat,
         Holds(q, stream, at, n), Ahead(q, stream, at + n, k)
  PROVE  /\ MoveRear(q, k) \in Rings
         /\ Holds(MoveRear(q, k), stream, at, n + k)
<1>1. n < RING_BUFFER_SIZE /\ GetFreeSize(q.front, q.rear) = RING_BUFFER_SIZE - 1 - n
  BY HoldsSmall
<1>2. k <= GetFreeSize(q.front, q.rear)
  BY DEF Ahead
<1>3. k \in 0 .. GetFreeSize(q.front, q.rear)
  BY <1>1, <1>2
<1>4. /\ MoveRear(q, k) \in Rings
      /\ MoveRear(q, k).buffer = q.buffer
      /\ MoveRear(q, k).front = q.front
      /\ GetUsedSize(q.front, MoveRear(q, k).rear) = GetUsedSize(q.front, q.rear) + k
  BY <1>3, MoveRearAdds
<1>5. q.front \in Positions /\ q.rear \in Positions /\ GetUsedSize(q.front, q.rear) = n
  BY DEF Rings, Holds
<1>6. ASSUME NEW i \in 1 .. n + k PROVE q.buffer[Wrap(q.front + i)] = stream[at + i]
  <2>1. CASE i <= n
    BY <2>1 DEF Holds
  <2>2. CASE i > n
    <3>1. PICK j \in 1 .. k : i = n + j
      <4>1. i - n \in 1 .. k /\ i = n + (i - n)
        BY <2>2
      <4> QED BY <4>1
    <3>2. j \in 0 .. GetFreeSize(q.front, q.rear)
      BY <1>1, <1>3
    <3>3. Wrap(q.rear + j) = Wrap(q.front + (GetUsedSize(q.front, q.rear) + j))
      BY <1>5, <3>2, BehindRear
    <3>4. Wrap(q.rear + j) = Wrap(q.front + i)
      BY <1>5, <3>1, <3>3
    <3>5. q.buffer[Wrap(q.rear + j)] = stream[at + n + j]
      BY DEF Ahead
    <3>6. at + n + j = at + i
      BY <3>1
    <3> QED BY <3>4, <3>5, <3>6
  <2>3. i <= n \/ i > n
    OBVIOUS
  <2> QED BY <2>1, <2>2, <2>3
<1>7. GetUsedSize(MoveRear(q, k).front, MoveRear(q, k).rear) = n + k
  BY <1>4, <1>5
<1>8. \A i \in 1 .. n + k : MoveRear(q, k).buffer[Wrap(MoveRear(q, k).front + i)] = stream[at + i]
  BY <1>4, <1>6
<1> QED BY <1>4, <1>7, <1>8 DEF Holds

(* A completed receive keeps the content and puts its bytes ahead of it.     *)
LEMMA ScatterHolds ==
  ASSUME NEW q \in Rings, NEW stream \in Seq(Byte), NEW at \in Nat, NEW n \in Nat,
         Holds(q, stream, at, n), NEW d, BehindTheRear(q, d), NEW k \in Nat, k <= Room(d),
         at + n + k <= Len(stream),
         NEW r, r = [buffer |-> Scatter(q.buffer, d, SubSeq(stream, at + n + 1, at + n + k)),
                     front |-> q.front, rear |-> q.rear]
  PROVE  /\ r \in Rings /\ r.front = q.front /\ r.rear = q.rear
         /\ Holds(r, stream, at, n)
         /\ Ahead(r, stream, at + n, k)
<1>1. PICK data \in Seq(Byte) :
         /\ data = SubSeq(stream, at + n + 1, at + n + k) /\ Len(data) = k
         /\ \A i \in 1 .. k : data[i] = stream[at + n + i]
  <2>1. PICK a \in Nat : a = at + n
    OBVIOUS
  <2>2. a + k <= Len(stream)
    BY <2>1
  <2>3. /\ SubSeq(stream, a + 1, a + k) \in Seq(Byte)
        /\ Len(SubSeq(stream, a + 1, a + k)) = k
        /\ \A i \in 1 .. k : SubSeq(stream, a + 1, a + k)[i] = stream[a + i]
    BY <2>2, PartOf
  <2> QED BY <2>1, <2>3
<1>2. PICK front \in Positions, rear \in Positions, buffer \in [Positions -> Byte] :
         front = q.front /\ rear = q.rear /\ buffer = q.buffer
  BY DEF Rings
<1>3. Len(data) <= Room(d)
  BY <1>1
<1>4. /\ Scatter(q.buffer, d, data) \in [Positions -> Byte]
      /\ \A i \in 1 .. Len(data) : Scatter(q.buffer, d, data)[Wrap(q.rear + i)] = data[i]
      /\ \A i \in 1 .. GetUsedSize(q.front, q.rear) :
            Scatter(q.buffer, d, data)[Wrap(q.front + i)] = q.buffer[Wrap(q.front + i)]
  BY <1>3, ScatterPlaces
<1>5. PICK after \in [Positions -> Byte] : after = Scatter(q.buffer, d, data)
  BY <1>4
<1>6. r = [buffer |-> after, front |-> front, rear |-> rear]
  BY <1>1, <1>2, <1>5
<1>7. r \in Rings /\ r.front = q.front /\ r.rear = q.rear /\ r.buffer = after
  BY <1>2, <1>6 DEF Rings
<1>8. Holds(r, stream, at, n)
  <2>1. GetUsedSize(q.front, q.rear) = n /\ \A i \in 1 .. n : q.buffer[Wrap(q.front + i)] = stream[at + i]
    BY DEF Holds
  <2>2. \A i \in 1 .. n : after[Wrap(q.front + i)] = stream[at + i]
    BY <1>4, <1>5, <2>1
  <2> QED BY <1>7, <2>1, <2>2 DEF Holds
<1>9. k <= GetFreeSize(q.front, q.rear)
  <2>1. n < RING_BUFFER_SIZE /\ GetFreeSize(q.front, q.rear) = RING_BUFFER_SIZE - 1 - n
    BY HoldsSmall
  <2>2. PICK d1 \in Nat, d2 \in Nat : d1 = d.direct1 /\ d2 = d.direct2
    BY DEF BehindTheRear
  <2>3. k <= d1 + d2
    BY <2>2 DEF Room
  <2>4. d1 + d2 <= GetFreeSize(q.front, q.rear)
    BY <2>2 DEF BehindTheRear
  <2> QED BY <2>1, <2>3, <2>4
<1>10. Ahead(r, stream, at + n, k)
  <2>1. \A i \in 1 .. k : after[Wrap(q.rear + i)] = stream[at + n + i]
    BY <1>1, <1>4, <1>5
  <2> QED BY <1>7, <1>9, <2>1 DEF Ahead
<1> QED BY <1>7, <1>8, <1>10

-----------------------------------------------------------------------------
HIDE RingAssumption DEF Positions

(* The receive path. *)

(* The types, and how far the counts of bytes may go. *)
FramingTypes ==
    /\ ring \in Rings /\ phase \in Phases /\ conv \in Conversations
    /\ arrived \in Nat /\ read \in Nat /\ cut \in Nat
    /\ cut <= read /\ read + arrived <= Len(conv.stream)
    /\ Len(delivered) \in Nat
    /\ refused \in BOOLEAN

(* A slot without a session has a cleared ring, and the bytes of a receive    *)
(* wait for no longer than it takes to handle it.                            *)
Cleared == /\ phase = "empty" => ring.front = 0 /\ ring.rear = 0
           /\ phase # "arrived" => arrived = 0

(* A message is missing bytes, or all are delivered. *)
Incomplete ==
    Len(delivered) < Len(conv.msgs) =>
        read - cut < HEADER_SIZE + Len(conv.msgs[Len(delivered) + 1])

(* A pending receive has all the free memory, and a message is incomplete. *)
Waiting == phase = "posted" => /\ BehindTheRear(ring, posted)
                               /\ Room(posted) = FreeSize
                               /\ Incomplete

(* Only what follows the messages of a broken conversation is refused. *)
Refusal == refused => /\ phase \in {"closing", "empty"}
                      /\ conv.broken /\ Len(delivered) = Len(conv.msgs)

Framing == /\ FramingTypes /\ RingHolds /\ InOrder
           /\ Cleared /\ Waiting /\ Refusal /\ NoInternalCrash

(* What is true of every conversation, in the form the lemmas use. *)
LEMMA Conversation ==
  ASSUME NEW c \in Conversations
  PROVE  /\ c.msgs \in Seq(Seq(Bytes)) /\ c.stream \in Seq(Byte) /\ c.broken \in BOOLEAN
         /\ Len(c.msgs) \in Nat /\ Len(c.stream) \in Nat
         /\ c.start[1] = 0
         /\ \A i \in 1 .. Len(c.msgs) + 1 : c.start[i] \in 0 .. Len(c.stream)
         /\ \A i \in 1 .. Len(c.msgs) :
               /\ c.start[i + 1] = c.start[i] + HEADER_SIZE + Len(c.msgs[i])
               /\ MessageAt(c, c.start[i], c.msgs[i])
         /\ c.broken => NoMessageAt(c, c.start[Len(c.msgs) + 1])
         /\ ~c.broken => c.start[Len(c.msgs) + 1] = Len(c.stream)
<1>1. /\ c.msgs \in Seq(Seq(Bytes)) /\ c.stream \in Seq(Bytes) /\ c.broken \in BOOLEAN
      /\ c.start \in [1 .. Len(c.msgs) + 1 -> 0 .. Len(c.stream)]
      /\ c.start[1] = 0
      /\ \A i \in 1 .. Len(c.msgs) :
            /\ c.start[i + 1] = c.start[i] + HEADER_SIZE + Len(c.msgs[i])
            /\ MessageAt(c, c.start[i], c.msgs[i])
      /\ IF c.broken THEN NoMessageAt(c, c.start[Len(c.msgs) + 1])
         ELSE c.start[Len(c.msgs) + 1] = Len(c.stream)
  BY ConversationAssumption, Zenon
<1>2. Byte = Bytes
  BY SizeAssumption
<1>3. Len(c.msgs) \in Nat /\ Len(c.stream) \in Nat
  <2>1. ASSUME NEW S, NEW s \in Seq(S) PROVE Len(s) \in Nat
    OBVIOUS
  <2> QED BY <1>1, <2>1, Zenon
<1>4. \A i \in 1 .. Len(c.msgs) + 1 : c.start[i] \in 0 .. Len(c.stream)
  BY <1>1, Zenon
<1> QED BY <1>1, <1>2, <1>3, <1>4, Zenon

(* A header that was read gives a length. *)
LEMMA LengthOfHeader ==
  ASSUME NEW header \in Seq(Byte), Len(header) = HEADER_SIZE
  PROVE  HeaderLen(header) \in Nat
<1>1. header[2] \in Byte /\ header[3] \in Byte
  BY DEF HEADER_SIZE
<1>2. header[2] \in Nat /\ header[3] \in Nat
  <2>1. header[2] \in Bytes /\ header[3] \in Bytes
    BY <1>1, SizeAssumption, Zenon
  <2>2. \A b \in Bytes : b \in Nat
    BY DEF Bytes, BYTE_VALUES
  <2> QED BY <2>1, <2>2, Zenon
<1>3. SubSeq(header, 2, 3)[1] = header[2] /\ SubSeq(header, 2, 3)[2] = header[3]
  BY DEF HEADER_SIZE
<1> QED BY <1>2, <1>3 DEF HeaderLen, FromWORD, BYTE_VALUES

(* What is peeked is what the stream has: a header, and the data behind it.   *)
Peeks(q, stream, at, n) ==
    n >= HEADER_SIZE =>
        /\ Peek(q, HEADER_SIZE) = SubSeq(stream, at + 1, at + HEADER_SIZE)
        /\ Peek(q, HEADER_SIZE)[1] = stream[at + 1]
        /\ HeaderLen(Peek(q, HEADER_SIZE)) \in Nat
        /\ ~(at + HEADER_SIZE > Len(stream))
        /\ \A size \in Nat : (size > 0 /\ n >= HEADER_SIZE + size) =>
              /\ Peek(MoveFront(q, HEADER_SIZE), size)
                   = SubSeq(stream, at + HEADER_SIZE + 1, at + HEADER_SIZE + size)
              /\ ~(at + HEADER_SIZE + size > Len(stream))

(* What is peeked is what the stream has there.                              *)
LEMMA Peeked ==
  ASSUME NEW q \in Rings, NEW stream \in Seq(Byte), NEW at \in Nat, NEW n \in Nat,
         Holds(q, stream, at, n), at + n <= Len(stream)
  PROVE  Peeks(q, stream, at, n)
<1> SUFFICES ASSUME n >= HEADER_SIZE PROVE Peeks(q, stream, at, n)
  BY DEF Peeks
<1>1. /\ HEADER_SIZE \in Nat /\ HEADER_SIZE \in 1 .. n /\ HEADER_SIZE \in 0 .. n
      /\ n - HEADER_SIZE \in Nat /\ at + HEADER_SIZE \in Nat /\ Len(stream) \in Nat
      /\ at + HEADER_SIZE <= Len(stream) /\ (at + HEADER_SIZE) + (n - HEADER_SIZE) <= Len(stream)
  BY DEF HEADER_SIZE
<1>2. Peek(q, HEADER_SIZE) = SubSeq(stream, at + 1, at + HEADER_SIZE)
  BY <1>1, PeekHolds
<1>3. /\ SubSeq(stream, at + 1, at + HEADER_SIZE) \in Seq(Byte)
      /\ Len(SubSeq(stream, at + 1, at + HEADER_SIZE)) = HEADER_SIZE
      /\ \A i \in 1 .. HEADER_SIZE : SubSeq(stream, at + 1, at + HEADER_SIZE)[i] = stream[at + i]
  BY <1>1, PartOf
<1>4. SubSeq(stream, at + 1, at + HEADER_SIZE)[1] = stream[at + 1]
  BY <1>3 DEF HEADER_SIZE
<1>5. HeaderLen(Peek(q, HEADER_SIZE)) \in Nat
  BY <1>2, <1>3, LengthOfHeader
<1>6. ~(at + HEADER_SIZE > Len(stream))
  BY <1>1
<1>7. ASSUME NEW size \in Nat, size > 0, n >= HEADER_SIZE + size
      PROVE  /\ Peek(MoveFront(q, HEADER_SIZE), size)
                  = SubSeq(stream, at + HEADER_SIZE + 1, at + HEADER_SIZE + size)
             /\ ~(at + HEADER_SIZE + size > Len(stream))
  <2>1. size \in 1 .. n - HEADER_SIZE /\ ~(at + HEADER_SIZE + size > Len(stream))
    BY <1>1, <1>7
  <2>2. /\ MoveFront(q, HEADER_SIZE) \in Rings
        /\ Holds(MoveFront(q, HEADER_SIZE), stream, at + HEADER_SIZE, n - HEADER_SIZE)
    BY <1>1, MoveFrontHolds
  <2> QED BY <1>1, <2>1, <2>2, PeekHolds
<1> QED BY <1>2, <1>4, <1>5, <1>6, <1>7 DEF Peeks

(* What the ring begins with, where a message starts in the stream.           *)
LEMMA NextMessage ==
  ASSUME NEW c \in Conversations, NEW d \in Nat, d < Len(c.msgs),
         NEW at, at = c.start[d + 1], NEW msg, msg = c.msgs[d + 1], NEW len, len = Len(msg),
         NEW q \in Rings, NEW n \in Nat, Holds(q, c.stream, at, n), at + n <= Len(c.stream)
  PROVE  /\ len \in 1 .. MaxLen
         /\ at \in Nat /\ c.start[d + 2] = at + HEADER_SIZE + len
         /\ n >= HEADER_SIZE => /\ Peek(q, HEADER_SIZE)[1] = dfPACKET_CODE
                                /\ HeaderLen(Peek(q, HEADER_SIZE)) = len
         /\ n >= HEADER_SIZE + len =>
               Decodes(Peek(q, HEADER_SIZE), Peek(MoveFront(q, HEADER_SIZE), len), msg)
<1>1. /\ c.msgs \in Seq(Seq(Bytes)) /\ c.stream \in Seq(Byte)
      /\ Len(c.msgs) \in Nat /\ Len(c.stream) \in Nat
      /\ \A i \in 1 .. Len(c.msgs) + 1 : c.start[i] \in 0 .. Len(c.stream)
      /\ \A i \in 1 .. Len(c.msgs) :
            /\ c.start[i + 1] = c.start[i] + HEADER_SIZE + Len(c.msgs[i])
            /\ MessageAt(c, c.start[i], c.msgs[i])
  BY Conversation, Zenon
<1>2. d + 1 \in 1 .. Len(c.msgs) /\ d + 1 \in 1 .. Len(c.msgs) + 1 /\ (d + 1) + 1 = d + 2
  BY <1>1
<1>3. /\ at \in 0 .. Len(c.stream)
      /\ c.start[d + 2] = at + HEADER_SIZE + len
      /\ MessageAt(c, at, msg)
  BY <1>1, <1>2, Zenon
<1>4. /\ at \in Nat /\ len \in 1 .. MaxLen /\ len \in Nat /\ len > 0
      /\ c.stream[at + 1] = dfPACKET_CODE /\ HeaderLen(HeaderAt(c, at)) = len
      /\ Decodes(HeaderAt(c, at), DataAt(c, at, len), msg)
  BY <1>1, <1>3, SizeAssumption, SMTT(40) DEF MessageAt
<1>5. n >= HEADER_SIZE + len => n >= HEADER_SIZE
  BY <1>4 DEF HEADER_SIZE
<1>6. n >= HEADER_SIZE =>
        /\ Peek(q, HEADER_SIZE) = HeaderAt(c, at)
        /\ Peek(q, HEADER_SIZE)[1] = c.stream[at + 1]
        /\ n >= HEADER_SIZE + len => Peek(MoveFront(q, HEADER_SIZE), len) = DataAt(c, at, len)
  <2>1. Peeks(q, c.stream, at, n)
    BY <1>1, <1>4, Peeked
  <2> QED BY <1>4, <2>1, Zenon DEF HeaderAt, DataAt, Peeks
<1> QED BY <1>3, <1>4, <1>5, <1>6, Zenon

(* What the ring begins with, when all messages are delivered.                *)
LEMMA AfterMessages ==
  ASSUME NEW c \in Conversations, NEW at, at = c.start[Len(c.msgs) + 1],
         NEW q \in Rings, NEW n \in Nat, Holds(q, c.stream, at, n), at + n <= Len(c.stream),
         NEW header, header = Peek(q, HEADER_SIZE), NEW size, size = HeaderLen(header)
  PROVE  /\ n > 0 => c.broken
         /\ (/\ n >= HEADER_SIZE /\ header[1] = dfPACKET_CODE
             /\ size > 0 /\ size <= PAYLOAD_SIZE /\ n >= HEADER_SIZE + size) =>
               ~Decoding(PacketOf(Peek(MoveFront(q, HEADER_SIZE), size)), header).ok
<1>1. /\ c.stream \in Seq(Byte) /\ c.broken \in BOOLEAN
      /\ Len(c.msgs) \in Nat /\ Len(c.stream) \in Nat
      /\ \A i \in 1 .. Len(c.msgs) + 1 : c.start[i] \in 0 .. Len(c.stream)
      /\ c.broken => NoMessageAt(c, at)
      /\ ~c.broken => at = Len(c.stream)
  BY Conversation, Zenon
<1>2. at \in Nat
  BY <1>1
<1>3. n > 0 => c.broken
  BY <1>1, <1>2
<1>4. n >= HEADER_SIZE => n > 0
  BY DEF HEADER_SIZE
<1>5. ASSUME n >= HEADER_SIZE, header[1] = dfPACKET_CODE,
             size > 0, size <= PAYLOAD_SIZE, n >= HEADER_SIZE + size
      PROVE  ~Decoding(PacketOf(Peek(MoveFront(q, HEADER_SIZE), size)), header).ok
  <2>1. /\ header = HeaderAt(c, at) /\ header[1] = c.stream[at + 1] /\ size \in Nat
        /\ ~(at + HEADER_SIZE > Len(c.stream))
        /\ ~(at + HEADER_SIZE + size > Len(c.stream))
        /\ Peek(MoveFront(q, HEADER_SIZE), size) = DataAt(c, at, size)
    <3>1. Peeks(q, c.stream, at, n)
      BY <1>1, <1>2, Peeked
    <3> QED BY <1>5, <3>1, Zenon DEF HeaderAt, DataAt, Peeks
  <2>2. NoMessageAt(c, at)
    BY <1>1, <1>3, <1>4, <1>5, Zenon
  <2>3. size \in 1 .. PAYLOAD_SIZE
    BY <1>5, <2>1, PacketAssumption
  <2> QED BY <1>5, <2>1, <2>2, <2>3, Zenon DEF NoMessageAt
<1> QED BY <1>3, <1>5, Zenon

(* The invariant of the ring in the terms of the ring's lemmas, and back.     *)
LEMMA Facts ==
  ASSUME Framing
  PROVE  /\ ring \in Rings /\ phase \in Phases /\ conv \in Conversations /\ refused \in BOOLEAN
         /\ arrived \in Nat /\ read \in Nat /\ cut \in Nat
         /\ cut <= read /\ read + arrived <= Len(conv.stream) /\ read <= Len(conv.stream)
         /\ read - cut \in Nat /\ cut + (read - cut) = read
         /\ conv.stream \in Seq(Byte) /\ conv.msgs \in Seq(Seq(Bytes))
         /\ Len(conv.stream) \in Nat /\ Len(conv.msgs) \in Nat /\ Len(delivered) \in Nat
         /\ phase # "empty" => /\ Holds(ring, conv.stream, cut, read - cut)
                               /\ Ahead(ring, conv.stream, read, arrived)
<1>1. FramingTypes /\ RingHolds
  BY DEF Framing
<1>2. /\ conv.stream \in Seq(Byte) /\ conv.msgs \in Seq(Seq(Bytes))
      /\ Len(conv.stream) \in Nat /\ Len(conv.msgs) \in Nat
  BY <1>1, Conversation, Zenon DEF FramingTypes
<1>3. /\ arrived \in Nat /\ read \in Nat /\ cut \in Nat
      /\ cut <= read /\ read + arrived <= Len(conv.stream)
  BY <1>1, Zenon DEF FramingTypes
<1>4. read <= Len(conv.stream) /\ read - cut \in Nat /\ cut + (read - cut) = read
  BY <1>2, <1>3
<1>5. phase # "empty" => /\ Holds(ring, conv.stream, cut, read - cut)
                         /\ Ahead(ring, conv.stream, read, arrived)
  BY <1>1 DEF RingHolds, Holds, Ahead, UsedSize, FreeSize
<1> QED BY <1>1, <1>2, <1>3, <1>4, <1>5, Zenon DEF FramingTypes

(* RingHolds of the next state, from the terms of the ring's lemmas.         *)
LEMMA RingHoldsNext ==
  ASSUME phase' # "empty" => /\ Holds(ring', conv'.stream, cut', read' - cut')
                             /\ Ahead(ring', conv'.stream, read', arrived')
  PROVE  RingHolds'
BY DEF RingHolds, Holds, Ahead, UsedSize, FreeSize

(* It is true at first: no session has the slot. *)
LEMMA FramingInit ==
  ASSUME Init
  PROVE  Framing
<1>1. NewRing \in Rings /\ NewRing.front = 0 /\ NewRing.rear = 0
  BY RingAssumption DEF NewRing, Rings, Positions
<1>2. /\ ring = NewRing /\ phase = "empty" /\ conv \in Conversations
      /\ arrived = 0 /\ read = 0 /\ cut = 0 /\ delivered = <<>> /\ refused = FALSE
      /\ crash = "none"
  BY DEF Init
<1>3. Len(conv.msgs) \in Nat /\ Len(conv.stream) \in Nat
  BY <1>2, Conversation, Zenon
<1>4. Len(delivered) = 0 /\ SubSeq(conv.msgs, 1, 0) = <<>>
  BY <1>2
<1>5. FramingTypes
  <2>1. ring \in Rings
    BY <1>1, <1>2
  <2>2. phase \in Phases /\ refused \in BOOLEAN
    BY <1>2 DEF Phases
  <2>3. /\ arrived \in Nat /\ read \in Nat /\ cut \in Nat
        /\ cut <= read /\ read + arrived <= Len(conv.stream) /\ Len(delivered) \in Nat
    BY <1>2, <1>3, <1>4
  <2> QED BY <2>1, <2>2, <2>3, <1>2, Zenon DEF FramingTypes
<1>6. InOrder
  BY <1>2, <1>3, <1>4 DEF InOrder
<1>7. RingHolds /\ Cleared /\ Waiting /\ Refusal /\ NoInternalCrash
  BY <1>1, <1>2 DEF RingHolds, Cleared, Waiting, Refusal, NoInternalCrash
<1> QED BY <1>5, <1>6, <1>7 DEF Framing

(* The rest of a message that is not whole has room.                         *)
LEMMA RoomForRest ==
  ASSUME NEW n \in Nat, NEW len \in 1 .. MaxLen, n < HEADER_SIZE + len
  PROVE  /\ RING_BUFFER_SIZE - 1 - n >= len
         /\ RING_BUFFER_SIZE - 1 - n > 0
         /\ \A at \in Nat : /\ 0 < (at + HEADER_SIZE + len) - (at + n)
                            /\ (at + HEADER_SIZE + len) - (at + n) <= RING_BUFFER_SIZE - 1 - n
BY SizeAssumption, RingAssumption DEF HEADER_SIZE

(* What RecvPacket and RecvPost decide: the ring begins where a message does,  *)
(* and what they refuse is not one.                                          *)
LEMMA AtCut ==
  ASSUME Framing, phase = "cutting"
  PROVE  /\ ~refused /\ arrived = 0 /\ cut = conv.start[Len(delivered) + 1]
         /\ UsedSize = read - cut /\ FreeSize = RING_BUFFER_SIZE - 1 - (read - cut)
         /\ Holds(ring, conv.stream, cut, read - cut)
         /\ Len(delivered) < Len(conv.msgs) \/ Len(delivered) = Len(conv.msgs)
<1>1. Refusal /\ InOrder /\ Cleared
  BY DEF Framing
<1>2. ~refused /\ arrived = 0 /\ cut = conv.start[Len(delivered) + 1]
  BY <1>1 DEF Refusal, InOrder, Cleared
<1>3. Holds(ring, conv.stream, cut, read - cut) /\ ring \in Rings /\ read - cut \in Nat
  BY Facts
<1>4. UsedSize = read - cut /\ FreeSize = RING_BUFFER_SIZE - 1 - (read - cut)
  <2>1. GetUsedSize(ring.front, ring.rear) = read - cut
    BY <1>3, Zenon DEF Holds
  <2>2. GetFreeSize(ring.front, ring.rear) = RING_BUFFER_SIZE - 1 - (read - cut)
    BY <1>3, HoldsSmall, Zenon
  <2> QED BY <2>1, <2>2 DEF UsedSize, FreeSize
<1>5. Len(delivered) < Len(conv.msgs) \/ Len(delivered) = Len(conv.msgs)
  BY <1>1, Facts DEF InOrder
<1> QED BY <1>2, <1>3, <1>4, <1>5

(* While messages are to come, the header in the ring is the next one's.      *)
LEMMA CutNext ==
  ASSUME Framing, phase = "cutting", Len(delivered) < Len(conv.msgs),
         NEW msg, msg = conv.msgs[Len(delivered) + 1], NEW len, len = Len(msg)
  PROVE  /\ len \in 1 .. MaxLen
         /\ conv.start[Len(delivered) + 2] = cut + HEADER_SIZE + len
         /\ ~Malformed
         /\ ~Whole => read - cut < HEADER_SIZE + len
         /\ Whole => /\ HeaderLen(PeekedHeader) = len /\ HEADER_SIZE + len <= read - cut
                     /\ Decodes(PeekedHeader, Peek(MoveFront(ring, HEADER_SIZE), len), msg)
<1> DEFINE n == read - cut
           d == Len(delivered)
<1>1. /\ ring \in Rings /\ conv \in Conversations /\ n \in Nat /\ d \in Nat
      /\ cut + n <= Len(conv.stream) /\ d < Len(conv.msgs)
  BY Facts
<1>2. /\ cut = conv.start[d + 1] /\ UsedSize = n /\ FreeSize = RING_BUFFER_SIZE - 1 - n
      /\ Holds(ring, conv.stream, cut, n)
  BY AtCut
<1>0. msg = conv.msgs[d + 1] /\ len = Len(msg) /\ read - cut = n /\ Len(delivered) = d
  OBVIOUS
<1> HIDE DEF n, d
<1>3. /\ len \in 1 .. MaxLen
      /\ conv.start[d + 2] = cut + HEADER_SIZE + len
      /\ n >= HEADER_SIZE => /\ PeekedHeader[1] = dfPACKET_CODE
                             /\ HeaderLen(PeekedHeader) = len
      /\ n >= HEADER_SIZE + len =>
            Decodes(PeekedHeader, Peek(MoveFront(ring, HEADER_SIZE), len), msg)
  BY <1>0, <1>1, <1>2, NextMessage DEF PeekedHeader
<1>4. len \in Nat /\ MaxLen \in Nat /\ len > 0 /\ HEADER_SIZE \in Nat
  BY <1>3, SizeAssumption DEF HEADER_SIZE
<1>5. n < HEADER_SIZE + len => RING_BUFFER_SIZE - 1 - n >= len
  BY <1>1, <1>3, RoomForRest
<1>6. ~Malformed
  BY <1>1, <1>2, <1>3, <1>4, <1>5, RingAssumption, SMTT(40) DEF Malformed
<1>7. ~Whole => n < HEADER_SIZE + len
  BY <1>1, <1>2, <1>3, <1>4, SMTT(40) DEF Whole
<1>8. Whole => HeaderLen(PeekedHeader) = len /\ HEADER_SIZE + len <= n
  BY <1>1, <1>2, <1>3, <1>4 DEF Whole
<1>9. Whole => n >= HEADER_SIZE + len
  BY <1>1, <1>4, <1>8
<1> QED BY <1>0, <1>3, <1>6, <1>7, <1>8, <1>9

(* When all messages are delivered, only a broken rest is in the ring, and it *)
(* cannot be decoded if a packet holds it.                                   *)
LEMMA CutRest ==
  ASSUME Framing, phase = "cutting", Len(delivered) = Len(conv.msgs),
         NEW size, size = HeaderLen(PeekedHeader)
  PROVE  /\ Malformed => conv.broken
         /\ FreeSize <= 0 => conv.broken
         /\ (~Malformed /\ Whole) =>
               /\ conv.broken /\ size \in Nat /\ size > 0 /\ HEADER_SIZE + size <= read - cut
               /\ size <= PAYLOAD_SIZE =>
                    ~Decoding(PacketOf(Peek(MoveFront(ring, HEADER_SIZE), size)), PeekedHeader).ok
<1> DEFINE n == read - cut
<1>1. /\ ring \in Rings /\ conv \in Conversations /\ n \in Nat /\ cut \in Nat
      /\ cut + n <= Len(conv.stream) /\ conv.stream \in Seq(Byte)
  BY Facts
<1>2. /\ cut = conv.start[Len(conv.msgs) + 1] /\ UsedSize = n /\ FreeSize = RING_BUFFER_SIZE - 1 - n
      /\ Holds(ring, conv.stream, cut, n)
  BY AtCut
<1>3. read - cut = n
  OBVIOUS
<1> HIDE DEF n
<1>4. PeekedHeader = Peek(ring, HEADER_SIZE)
  BY DEF PeekedHeader
<1>5. /\ n > 0 => conv.broken
      /\ (/\ n >= HEADER_SIZE /\ PeekedHeader[1] = dfPACKET_CODE
          /\ size > 0 /\ size <= PAYLOAD_SIZE /\ n >= HEADER_SIZE + size) =>
            ~Decoding(PacketOf(Peek(MoveFront(ring, HEADER_SIZE), size)), PeekedHeader).ok
  BY <1>1, <1>2, <1>4, AfterMessages
<1>6. n >= HEADER_SIZE => size \in Nat
  BY <1>1, <1>2, <1>4, Peeked DEF Peeks
<1>7. n >= HEADER_SIZE => n > 0
  BY <1>1 DEF HEADER_SIZE
<1>8. Malformed => conv.broken
  BY <1>2, <1>5, <1>7, Zenon DEF Malformed
<1>9. FreeSize <= 0 => conv.broken
  BY <1>1, <1>2, <1>5, RingAssumption
<1>10. ASSUME ~Malformed, Whole
       PROVE  /\ n >= HEADER_SIZE /\ PeekedHeader[1] = dfPACKET_CODE /\ size \in Nat /\ size > 0
              /\ HEADER_SIZE + size <= n /\ n >= HEADER_SIZE + size
  <2>1. n >= HEADER_SIZE /\ size \in Nat
    BY <1>2, <1>6, <1>10 DEF Whole
  <2>2. PeekedHeader[1] = dfPACKET_CODE /\ ~(size <= 0)
    BY <1>2, <1>10, <2>1, Zenon DEF Malformed
  <2>3. size <= n - HEADER_SIZE
    BY <1>2, <1>10 DEF Whole
  <2> QED BY <1>1, <2>1, <2>2, <2>3 DEF HEADER_SIZE
<1> QED BY <1>3, <1>5, <1>7, <1>8, <1>9, <1>10, Zenon

(* AcceptUser begins a session with an empty ring, whose free memory is one    *)
(* piece.                                                                    *)
LEMMA AcceptKeeps ==
  ASSUME Framing, AcceptUser
  PROVE  Framing'
<1>1. /\ ring \in Rings /\ ring.front = 0 /\ ring.rear = 0 /\ NoInternalCrash
  BY Facts, Zenon DEF Framing, Cleared, AcceptUser
<1>2. /\ posted'.direct1 = GetDirectEnqueueSize(ring.front, ring.rear)
      /\ posted'.ptr1 = Wrap(ring.rear + 1) /\ posted'.direct2 = 0
  BY DEF AcceptUser, Nowhere
<1>3. /\ BehindTheRear(ring, posted') /\ Room(posted') = GetFreeSize(ring.front, ring.rear)
      /\ GetDirectEnqueueSize(ring.front, ring.rear) > 0
  BY <1>1, <1>2, FirstPiece DEF Room
<1>4. /\ phase' = "posted" /\ conv' \in Conversations
      /\ arrived' = 0 /\ read' = 0 /\ cut' = 0 /\ delivered' = <<>> /\ refused' = FALSE
      /\ ring' = ring
  BY DEF AcceptUser
<1>6. crash' = crash
  <2>1. ~(GetDirectEnqueueSize(ring.front, ring.rear) <= 0)
    <3>1. GetDirectEnqueueSize(ring.front, ring.rear) \in Nat
      BY <1>1, WrapOf, RingAssumption DEF GetDirectEnqueueSize
    <3> QED BY <1>3, <3>1
  <2> QED BY <2>1, Zenon DEF AcceptUser
<1>7. /\ Len(conv'.msgs) \in Nat /\ Len(conv'.stream) \in Nat /\ conv'.start[1] = 0
      /\ conv'.msgs \in Seq(Seq(Bytes))
  BY <1>4, Conversation, Zenon
<1>8. Len(delivered') = 0 /\ SubSeq(conv'.msgs, 1, 0) = <<>>
  BY <1>4
<1>9. FramingTypes'
  <2>1. phase' \in Phases /\ refused' \in BOOLEAN
    BY <1>4 DEF Phases
  <2>2. /\ arrived' \in Nat /\ read' \in Nat /\ cut' \in Nat
        /\ cut' <= read' /\ read' + arrived' <= Len(conv'.stream) /\ Len(delivered') \in Nat
    BY <1>4, <1>7, <1>8
  <2> QED BY <1>1, <1>4, <2>1, <2>2, Zenon DEF FramingTypes
<1>10. InOrder'
  BY <1>4, <1>7, <1>8 DEF InOrder
<1>11. RingHolds'
  <2>1. GetUsedSize(ring.front, ring.rear) = 0
    BY <1>1 DEF GetUsedSize
  <2>2. GetFreeSize(ring.front, ring.rear) \in Nat
    <3>1. ring.front \in Positions /\ ring.rear \in Positions
      BY <1>1 DEF Rings
    <3>2. GetFreeSize(ring.front, ring.rear) = RING_BUFFER_SIZE - 1 - GetUsedSize(ring.front, ring.rear)
      BY <3>1, Sizes
    <3> QED BY <2>1, <3>2, RingAssumption
  <2>3. Holds(ring', conv'.stream, 0, 0) /\ Ahead(ring', conv'.stream, 0, 0)
    BY <1>4, <2>1, <2>2 DEF Holds, Ahead
  <2> QED BY <1>4, <2>3, RingHoldsNext
<1>12. Waiting'
  <2>1. Incomplete'
    <3>1. ASSUME Len(delivered') < Len(conv'.msgs)
          PROVE  Len(conv'.msgs[1]) \in 1 .. MaxLen
      <4>1. 1 \in 1 .. Len(conv'.msgs)
        BY <1>7, <1>8, <3>1
      <4>2. MessageAt(conv', conv'.start[1], conv'.msgs[1])
        BY <1>4, <4>1, Conversation, Zenon
      <4> QED BY <4>2, Zenon DEF MessageAt
    <3> QED BY <1>4, <1>8, <3>1 DEF Incomplete, HEADER_SIZE
  <2>2. BehindTheRear(ring', posted') /\ Room(posted') = FreeSize'
    BY <1>3, <1>4 DEF FreeSize
  <2> QED BY <2>1, <2>2 DEF Waiting
<1>13. Cleared' /\ Refusal' /\ NoInternalCrash'
  BY <1>1, <1>4, <1>6 DEF Cleared, Refusal, NoInternalCrash
<1> QED BY <1>9, <1>10, <1>11, <1>12, <1>13, Zenon DEF Framing

(* A completed receive has filled the memory behind the rear (Complete).      *)
LEMMA CompleteKeeps ==
  ASSUME Framing, NEW k \in 1 .. RING_BUFFER_SIZE, Complete(k)
  PROVE  Framing'
<1>1. /\ ring \in Rings /\ conv \in Conversations /\ refused \in BOOLEAN
      /\ read \in Nat /\ cut \in Nat /\ cut <= read /\ Len(delivered) \in Nat
      /\ read - cut \in Nat /\ cut + (read - cut) = read
      /\ conv.stream \in Seq(Byte) /\ Len(conv.stream) \in Nat
  BY Facts
<1>2. /\ phase = "posted" /\ k <= posted.direct1 + posted.direct2 /\ read + k <= Len(conv.stream)
      /\ ring' = [ring EXCEPT !.buffer = Scatter(@, posted, SubSeq(conv.stream, read + 1, read + k))]
      /\ arrived' = k /\ phase' = "arrived"
      /\ conv' = conv /\ read' = read /\ cut' = cut /\ delivered' = delivered
      /\ refused' = refused /\ crash' = crash
  BY Zenon DEF Complete
<1>3. /\ Holds(ring, conv.stream, cut, read - cut) /\ BehindTheRear(ring, posted)
      /\ k <= Room(posted) /\ k \in Nat
  <2>1. Holds(ring, conv.stream, cut, read - cut)
    BY Facts, <1>2
  <2>2. BehindTheRear(ring, posted)
    BY <1>2, Zenon DEF Framing, Waiting
  <2> QED BY <1>2, <2>1, <2>2 DEF Room
<1>4. ring' = [buffer |-> Scatter(ring.buffer, posted, SubSeq(conv.stream, read + 1, read + k)),
               front |-> ring.front, rear |-> ring.rear]
  <2>1. \A b : [ring EXCEPT !.buffer = b] = [buffer |-> b, front |-> ring.front, rear |-> ring.rear]
    BY <1>1 DEF Rings
  <2> QED BY <1>2, <2>1, Zenon
<1>5. /\ ring' \in Rings
      /\ Holds(ring', conv.stream, cut, read - cut) /\ Ahead(ring', conv.stream, read, k)
  <2>1. PICK n \in Nat : n = read - cut /\ read = cut + n
    BY <1>1
  <2>2. /\ Holds(ring, conv.stream, cut, n) /\ cut + n + k <= Len(conv.stream)
        /\ ring' = [buffer |-> Scatter(ring.buffer, posted, SubSeq(conv.stream, cut + n + 1, cut + n + k)),
                    front |-> ring.front, rear |-> ring.rear]
    BY <1>2, <1>3, <1>4, <2>1
  <2>3. /\ ring' \in Rings
        /\ Holds(ring', conv.stream, cut, n) /\ Ahead(ring', conv.stream, cut + n, k)
    BY <1>1, <1>3, <2>2, ScatterHolds
  <2> QED BY <2>1, <2>3
<1>6. FramingTypes'
  <2>1. phase' \in Phases
    BY <1>2 DEF Phases
  <2> QED BY <1>1, <1>2, <1>3, <1>5, <2>1, Zenon DEF FramingTypes
<1>7. RingHolds'
  BY <1>2, <1>5, RingHoldsNext
<1>8. ~refused
  BY <1>2 DEF Framing, Refusal
<1>9. InOrder'
  BY <1>2, Zenon DEF Framing, InOrder
<1>10. Cleared' /\ Waiting' /\ Refusal' /\ NoInternalCrash'
  BY <1>2, <1>8 DEF Framing, Cleared, Waiting, Refusal, NoInternalCrash
<1> QED BY <1>6, <1>7, <1>9, <1>10, Zenon DEF Framing

(* Nothing is always ahead.                                                  *)
LEMMA AheadNone ==
  ASSUME NEW q \in Rings, NEW stream, NEW at
  PROVE  Ahead(q, stream, at, 0)
<1>1. q.front \in Positions /\ q.rear \in Positions
  BY DEF Rings
<1>2. /\ GetUsedSize(q.front, q.rear) \in 0 .. RING_BUFFER_SIZE - 1
      /\ GetFreeSize(q.front, q.rear) = RING_BUFFER_SIZE - 1 - GetUsedSize(q.front, q.rear)
  BY <1>1, Sizes
<1>3. 0 <= GetFreeSize(q.front, q.rear)
  BY <1>2, RingAssumption
<1> QED BY <1>3 DEF Ahead

(* The bytes of a receive have always room, and become content (RecvPacket).  *)
LEMMA EnqueuedKeeps ==
  ASSUME Framing, Enqueued
  PROVE  Framing' /\ refused' = refused
<1>1. /\ ring \in Rings /\ conv \in Conversations /\ refused \in BOOLEAN
      /\ arrived \in Nat /\ read \in Nat /\ cut \in Nat /\ cut <= read
      /\ read + arrived <= Len(conv.stream) /\ Len(delivered) \in Nat /\ Len(conv.stream) \in Nat
  BY Facts
<1>2. phase = "arrived"
  BY DEF Enqueued
<1>3. Holds(ring, conv.stream, cut, read - cut) /\ Ahead(ring, conv.stream, read, arrived)
  BY Facts, <1>2
<1>4. ~(arrived > FreeSize)
  <2>1. GetUsedSize(ring.front, ring.rear) \in Nat /\ GetFreeSize(ring.front, ring.rear) \in Nat
    <3>1. ring.front \in Positions /\ ring.rear \in Positions
      BY <1>1 DEF Rings
    <3>2. /\ GetUsedSize(ring.front, ring.rear) \in 0 .. RING_BUFFER_SIZE - 1
          /\ GetFreeSize(ring.front, ring.rear)
               = RING_BUFFER_SIZE - 1 - GetUsedSize(ring.front, ring.rear)
      BY <3>1, Sizes
    <3> QED BY <3>2, RingAssumption
  <2> QED BY <1>1, <1>3, <2>1 DEF Ahead, FreeSize
<1>5. /\ ring' = MoveRear(ring, arrived) /\ read' = read + arrived /\ arrived' = 0
      /\ phase' = "cutting" /\ refused' = refused /\ crash' = crash
      /\ conv' = conv /\ cut' = cut /\ delivered' = delivered
  BY <1>4, Zenon DEF Enqueued
<1>6. /\ MoveRear(ring, arrived) \in Rings
      /\ Holds(MoveRear(ring, arrived), conv.stream, cut, (read + arrived) - cut)
  <2>1. PICK n \in Nat : n = read - cut /\ read = cut + n
    BY <1>1
  <2>2. Holds(ring, conv.stream, cut, n) /\ Ahead(ring, conv.stream, cut + n, arrived)
    BY <1>3, <2>1
  <2>3. /\ MoveRear(ring, arrived) \in Rings
        /\ Holds(MoveRear(ring, arrived), conv.stream, cut, n + arrived)
    BY <1>1, <2>2, MoveRearHolds
  <2>4. n + arrived = (read + arrived) - cut
    BY <1>1, <2>1
  <2> QED BY <2>3, <2>4
<1>7. FramingTypes'
  <2>1. phase' \in Phases /\ arrived' \in Nat /\ read' \in Nat /\ cut' <= read'
        /\ read' + arrived' <= Len(conv.stream)
    BY <1>1, <1>5 DEF Phases
  <2> QED BY <1>1, <1>5, <1>6, <2>1, Zenon DEF FramingTypes
<1>8. RingHolds'
  BY <1>5, <1>6, AheadNone, RingHoldsNext
<1>9. ~refused
  BY <1>2 DEF Framing, Refusal
<1>10. InOrder'
  BY <1>2, <1>5, Zenon DEF Framing, InOrder
<1>11. Cleared' /\ Waiting' /\ Refusal' /\ NoInternalCrash'
  BY <1>5, <1>9 DEF Framing, Cleared, Waiting, Refusal, NoInternalCrash
<1> QED BY <1>5, <1>7, <1>8, <1>10, <1>11, Zenon DEF Framing

(* What is refused at the header is a broken rest (RecvPacket).               *)
LEMMA RefuseHeaderKeeps ==
  ASSUME Framing, RefuseHeader
  PROVE  Framing' /\ conv.broken /\ Len(delivered) = Len(conv.msgs)
<1>1. /\ phase = "cutting" /\ Malformed
      /\ refused' = TRUE /\ phase' = "closing" /\ arrived' = arrived /\ crash' = crash
      /\ ring' = ring /\ conv' = conv /\ read' = read /\ cut' = cut /\ delivered' = delivered
  BY Zenon DEF RefuseHeader, Refuse
<1>2. arrived = 0 /\ (Len(delivered) < Len(conv.msgs) \/ Len(delivered) = Len(conv.msgs))
  BY <1>1, AtCut
<1>3. conv.broken /\ Len(delivered) = Len(conv.msgs)
  BY <1>1, <1>2, CutNext, CutRest, Zenon
<1>4. FramingTypes' /\ RingHolds'
  <2>1. phase' \in Phases /\ refused' \in BOOLEAN
    BY <1>1 DEF Phases
  <2>2. FramingTypes'
    BY <1>1, <2>1, Zenon DEF Framing, FramingTypes
  <2>3. RingHolds'
    BY <1>1, Facts, RingHoldsNext
  <2> QED BY <2>2, <2>3
<1>5. InOrder' /\ Cleared' /\ Waiting' /\ Refusal' /\ NoInternalCrash'
  BY <1>1, <1>2, <1>3 DEF Framing, InOrder, Cleared, Waiting, Refusal, NoInternalCrash
<1> QED BY <1>3, <1>4, <1>5, Zenon DEF Framing

(* A packet has the bytes that were dequeued into it.                        *)
LEMMA PacketSize ==
  ASSUME NEW data, NEW n \in Nat, n > 0, Len(data) = n
  PROVE  PacketOf(data).size # 0
<1>1. NewPacket.size = 0 /\ NewPacket.free = PAYLOAD_SIZE
  BY DEF NewPacket
<1>2. Stored(NewPacket, 0, data, n).size = 0 /\ Stored(NewPacket, 0, data, n).free = PAYLOAD_SIZE
  BY <1>1 DEF Stored, NewPacket
<1>3. ASSUME NEW m PROVE Wrote(Stored(NewPacket, 0, data, n), m).size = Stored(NewPacket, 0, data, n).size + m
  BY DEF Wrote, Stored, NewPacket
<1>4. PICK m : /\ m = (IF PAYLOAD_SIZE <= n THEN PAYLOAD_SIZE ELSE n)
               /\ PacketOf(data) = Wrote(Stored(NewPacket, 0, data, n), m)
  BY <1>2 DEF PacketOf, MoveWritePos
<1>5. m \in Nat /\ m > 0
  BY <1>4, PacketAssumption
<1> QED BY <1>2, <1>3, <1>4, <1>5

(* What is cut off: a whole message and no more, the next one or a broken rest. *)
LEMMA CutOff ==
  ASSUME Framing, phase = "cutting", ~Malformed, Whole,
         NEW size, size = HeaderLen(PeekedHeader), size <= PAYLOAD_SIZE,
         NEW body, body = MoveFront(ring, HEADER_SIZE), NEW data, data = Peek(body, size),
         NEW d, d = Len(delivered)
  PROVE  /\ size \in Nat /\ size > 0 /\ HEADER_SIZE + size <= read - cut
         /\ Len(data) = size /\ PacketOf(data).size # 0
         /\ Dequeued(body, size) \in Rings
         /\ Holds(Dequeued(body, size), conv.stream, cut + HEADER_SIZE + size,
                  read - (cut + HEADER_SIZE + size))
         /\ \/ /\ d + 1 \in 1 .. Len(conv.msgs)
               /\ conv.start[(d + 1) + 1] = cut + HEADER_SIZE + size
               /\ Decodes(PeekedHeader, data, conv.msgs[d + 1])
            \/ /\ d = Len(conv.msgs) /\ conv.broken
               /\ ~Decoding(PacketOf(data), PeekedHeader).ok
<1>1. /\ ring \in Rings /\ read \in Nat /\ cut \in Nat /\ cut <= read /\ read <= Len(conv.stream)
      /\ conv.stream \in Seq(Byte) /\ Len(conv.stream) \in Nat /\ d \in Nat /\ Len(conv.msgs) \in Nat
  BY Facts
<1>2. Holds(ring, conv.stream, cut, read - cut) /\ (d < Len(conv.msgs) \/ d = Len(conv.msgs))
  BY AtCut
<1>3. ASSUME d < Len(conv.msgs)
      PROVE  /\ size \in Nat /\ size > 0 /\ HEADER_SIZE + size <= read - cut
             /\ d + 1 \in 1 .. Len(conv.msgs)
             /\ conv.start[(d + 1) + 1] = cut + HEADER_SIZE + size
             /\ Decodes(PeekedHeader, data, conv.msgs[d + 1])
  <2>1. PICK msg, len : msg = conv.msgs[d + 1] /\ len = Len(msg)
    OBVIOUS
  <2>2. /\ len \in 1 .. MaxLen
        /\ conv.start[d + 2] = cut + HEADER_SIZE + len
        /\ HeaderLen(PeekedHeader) = len /\ HEADER_SIZE + len <= read - cut
        /\ Decodes(PeekedHeader, Peek(MoveFront(ring, HEADER_SIZE), len), msg)
    BY <1>3, <2>1, CutNext, Zenon
  <2>3. size = len
    BY <2>2
  <2>4. d + 1 \in 1 .. Len(conv.msgs) /\ (d + 1) + 1 = d + 2 /\ len \in Nat /\ len > 0
    BY <1>1, <1>3, <2>2, SizeAssumption
  <2> QED BY <2>1, <2>2, <2>3, <2>4, Zenon
<1>4. ASSUME d = Len(conv.msgs)
      PROVE  /\ size \in Nat /\ size > 0 /\ HEADER_SIZE + size <= read - cut /\ conv.broken
             /\ ~Decoding(PacketOf(data), PeekedHeader).ok
  BY <1>4, CutRest, Zenon
<1>5. size \in Nat /\ size > 0 /\ HEADER_SIZE + size <= read - cut
  BY <1>2, <1>3, <1>4, Zenon
<1>6. PICK n \in Nat : n = read - cut /\ read = cut + n
  BY <1>1
<1>7. /\ HEADER_SIZE \in 0 .. n /\ n - HEADER_SIZE \in Nat /\ size \in 1 .. n - HEADER_SIZE
      /\ size \in 0 .. n - HEADER_SIZE
      /\ cut + HEADER_SIZE \in Nat /\ (cut + HEADER_SIZE) + (n - HEADER_SIZE) <= Len(conv.stream)
      /\ (n - HEADER_SIZE) - size = read - (cut + HEADER_SIZE + size)
  BY <1>1, <1>5, <1>6 DEF HEADER_SIZE
<1>8. body \in Rings /\ Holds(body, conv.stream, cut + HEADER_SIZE, n - HEADER_SIZE)
  BY <1>1, <1>2, <1>6, <1>7, MoveFrontHolds
<1>9. Len(data) = size
  <2>1. PICK at \in Nat, m \in Nat : at = cut + HEADER_SIZE /\ m = n - HEADER_SIZE
    BY <1>7
  <2>2. Holds(body, conv.stream, at, m) /\ at + m <= Len(conv.stream) /\ size \in 1 .. m
    BY <1>7, <1>8, <2>1
  <2>3. data = SubSeq(conv.stream, at + 1, at + size)
    BY <1>1, <1>8, <2>2, PeekHolds, SMTT(40)
  <2>4. at + size <= Len(conv.stream)
    BY <1>1, <1>5, <2>2
  <2>5. Len(SubSeq(conv.stream, at + 1, at + size)) = size
    BY <1>1, <1>5, <2>4, PartOf
  <2> QED BY <2>3, <2>5
<1>10. PacketOf(data).size # 0
  BY <1>5, <1>9, PacketSize
<1>11. /\ Dequeued(body, size) \in Rings
       /\ Holds(Dequeued(body, size), conv.stream, cut + HEADER_SIZE + size,
                read - (cut + HEADER_SIZE + size))
  <2>1. size <= GetUsedSize(body.front, body.rear)
    BY <1>7, <1>8 DEF Holds
  <2>2. Dequeued(body, size) = MoveFront(body, size)
    BY <1>5, <1>8, <2>1, DequeuedCuts
  <2>3. /\ MoveFront(body, size) \in Rings
        /\ Holds(MoveFront(body, size), conv.stream, (cut + HEADER_SIZE) + size, (n - HEADER_SIZE) - size)
    BY <1>7, <1>8, MoveFrontHolds
  <2> QED BY <1>7, <2>2, <2>3
<1> QED BY <1>2, <1>3, <1>4, <1>5, <1>9, <1>10, <1>11, Zenon

(* One more of a sequence.                                                   *)
LEMMA OneMore ==
  ASSUME NEW S, NEW s \in Seq(S), NEW d \in Nat, d + 1 \in 1 .. Len(s)
  PROVE  /\ Append(SubSeq(s, 1, d), s[d + 1]) = SubSeq(s, 1, d + 1)
         /\ Len(SubSeq(s, 1, d + 1)) = d + 1
<1>1. /\ SubSeq(s, 1, d) \in Seq(S) /\ Len(SubSeq(s, 1, d)) = d
      /\ \A i \in 1 .. d : SubSeq(s, 1, d)[i] = s[i]
  BY PartOf, 0 + d <= Len(s)
<1>2. /\ SubSeq(s, 1, d + 1) \in Seq(S) /\ Len(SubSeq(s, 1, d + 1)) = d + 1
      /\ \A i \in 1 .. d + 1 : SubSeq(s, 1, d + 1)[i] = s[i]
  BY PartOf
<1> QED BY <1>1, <1>2

(* A message is cut off and decoded, or what follows the last is refused.     *)
LEMMA CutKeeps ==
  ASSUME Framing, CutMessage, NEW d, d = Len(delivered)
  PROVE  /\ Framing'
         /\ \/ /\ d < Len(conv.msgs) /\ delivered' = Append(delivered, conv.msgs[d + 1])
               /\ refused' = refused /\ phase' = phase
            \/ /\ d = Len(conv.msgs) /\ conv.broken /\ delivered' = delivered
               /\ refused' = TRUE /\ phase' = "closing"
<1>1. phase = "cutting" /\ ~Malformed /\ Whole /\ HeaderLen(PeekedHeader) <= PAYLOAD_SIZE
  BY Zenon DEF CutMessage
<1>2. PICK size, body, data, packet, decoded :
         /\ size = HeaderLen(PeekedHeader) /\ body = MoveFront(ring, HEADER_SIZE)
         /\ data = Peek(body, size) /\ packet = PacketOf(data)
         /\ decoded = Decoding(packet, PeekedHeader)
  OBVIOUS
<1>3. /\ ring' = Dequeued(body, size)
      /\ cut' = cut + HEADER_SIZE + Len(data)
      /\ conv' = conv /\ read' = read
  BY <1>2, Zenon DEF CutMessage
<1>4. IF Len(data) # size \/ packet.size = 0
        THEN crash' = "receive" /\ UNCHANGED <<phase, posted, bIOCancel, jobs, arrived, delivered, refused>>
      ELSE IF ~decoded.ok
        THEN Refuse /\ UNCHANGED <<jobs, delivered>>
      ELSE /\ delivered' = Append(delivered, Payload(decoded.packet))
           /\ UNCHANGED <<phase, posted, bIOCancel, arrived, refused, crash>>
  BY <1>2, Zenon DEF CutMessage
<1>5. /\ size \in Nat /\ size > 0 /\ HEADER_SIZE + size <= read - cut
      /\ Len(data) = size /\ packet.size # 0
      /\ ring' \in Rings
      /\ Holds(ring', conv.stream, cut + HEADER_SIZE + size, read - (cut + HEADER_SIZE + size))
      /\ \/ /\ d + 1 \in 1 .. Len(conv.msgs)
            /\ conv.start[(d + 1) + 1] = cut + HEADER_SIZE + size
            /\ Decodes(PeekedHeader, data, conv.msgs[d + 1])
         \/ /\ d = Len(conv.msgs) /\ conv.broken
            /\ ~Decoding(PacketOf(data), PeekedHeader).ok
  BY <1>1, <1>2, <1>3, CutOff, ZenonT(40)
<1>6. /\ conv \in Conversations /\ refused \in BOOLEAN /\ phase \in Phases
      /\ arrived \in Nat /\ read \in Nat /\ cut \in Nat /\ cut <= read
      /\ read + arrived <= Len(conv.stream) /\ Len(conv.msgs) \in Nat /\ d \in Nat
      /\ conv.msgs \in Seq(Seq(Bytes))
  BY Facts
<1>7. cut' = cut + HEADER_SIZE + size /\ cut' \in Nat /\ cut' <= read
  BY <1>3, <1>5, <1>6 DEF HEADER_SIZE
<1>8. /\ arrived = 0 /\ delivered = SubSeq(conv.msgs, 1, d) /\ NoInternalCrash /\ ~refused
  BY <1>1, AtCut DEF Framing, InOrder
<1>9. Holds(ring', conv.stream, cut', read - cut') /\ Ahead(ring', conv.stream, read, 0)
  BY <1>5, <1>7, AheadNone
<1>10. CASE d + 1 \in 1 .. Len(conv.msgs) /\ Decodes(PeekedHeader, data, conv.msgs[d + 1])
            /\ conv.start[(d + 1) + 1] = cut + HEADER_SIZE + size
  <2>1. decoded.ok /\ Payload(decoded.packet) = conv.msgs[d + 1]
    BY <1>2, <1>10 DEF Decodes
  <2>2. /\ delivered' = Append(delivered, conv.msgs[d + 1]) /\ phase' = phase
        /\ arrived' = arrived /\ refused' = refused /\ crash' = crash
    BY <1>4, <1>5, <2>1, Zenon
  <2>3. delivered' = SubSeq(conv.msgs, 1, d + 1) /\ Len(delivered') = d + 1
    BY <1>6, <1>8, <1>10, <2>2, OneMore
  <2>4. d < Len(conv.msgs) /\ d + 1 \in Nat /\ d + 1 <= Len(conv.msgs)
    BY <1>6, <1>10
  <2>5. FramingTypes'
    BY <1>3, <1>5, <1>6, <1>7, <2>2, <2>3, <2>4, Zenon DEF FramingTypes
  <2>6. RingHolds'
    BY <1>3, <1>8, <1>9, <2>2, RingHoldsNext
  <2>7. InOrder'
    BY <1>3, <1>7, <1>10, <2>3, <2>4, Zenon DEF InOrder
  <2>8. Cleared' /\ Waiting' /\ Refusal' /\ NoInternalCrash'
    BY <1>1, <1>8, <2>2 DEF Cleared, Waiting, Refusal, NoInternalCrash
  <2> QED BY <2>2, <2>4, <2>5, <2>6, <2>7, <2>8, Zenon DEF Framing
<1>11. CASE d = Len(conv.msgs) /\ conv.broken /\ ~Decoding(PacketOf(data), PeekedHeader).ok
  <2>1. ~decoded.ok
    BY <1>2, <1>11
  <2>2. Refuse /\ delivered' = delivered
    BY <1>4, <1>5, <2>1, Zenon
  <2>3. /\ refused' = TRUE /\ phase' = "closing" /\ arrived' = arrived /\ crash' = crash
        /\ phase' \in Phases
    BY <2>2 DEF Refuse, Phases
  <2>4. FramingTypes'
    BY <1>3, <1>5, <1>6, <1>7, <2>2, <2>3, Zenon DEF FramingTypes, Framing
  <2>5. RingHolds'
    BY <1>3, <1>8, <1>9, <2>3, RingHoldsNext
  <2>6. InOrder'
    BY <1>3, <2>2, <2>3, Zenon DEF InOrder, Framing
  <2>7. Cleared' /\ Waiting' /\ Refusal' /\ NoInternalCrash'
    BY <1>3, <1>8, <1>11, <2>2, <2>3 DEF Cleared, Waiting, Refusal, NoInternalCrash
  <2> QED BY <1>11, <2>2, <2>3, <2>4, <2>5, <2>6, <2>7, Zenon DEF Framing
<1> QED BY <1>5, <1>10, <1>11, Zenon

(* RecvPost offers all the free memory, of which there is some unless all is    *)
(* delivered.                                                                *)
LEMMA RecvPostKeeps ==
  ASSUME Framing, RecvPost
  PROVE  /\ Framing'
         /\ (refused' = refused \/ (conv.broken /\ Len(delivered) = Len(conv.msgs)))
<1>1. phase = "cutting" /\ ~Malformed /\ ~Whole
  BY Zenon DEF RecvPost
<1>2. PICK direct : direct = GetDirectEnQData(ring)
  OBVIOUS
<1>3. /\ ring' = ring /\ conv' = conv /\ read' = read /\ cut' = cut /\ delivered' = delivered
      /\ IF FreeSize <= 0
           THEN Refuse
         ELSE IF \E len \in {direct.direct1, direct.direct2} : len \notin 0 .. RING_BUFFER_SIZE
           THEN crash' = "receive" /\ UNCHANGED <<phase, posted, bIOCancel, refused, arrived>>
         ELSE IF bIOCancel
           THEN phase' = "closing" /\ UNCHANGED <<posted, bIOCancel, refused, arrived, crash>>
         ELSE /\ phase' = "posted" /\ posted' = direct
              /\ UNCHANGED <<bIOCancel, refused, arrived, crash>>
  BY <1>2, Zenon DEF RecvPost
<1>4. /\ ring \in Rings /\ read - cut \in Nat /\ Len(delivered) \in Nat /\ Len(conv.msgs) \in Nat
      /\ conv \in Conversations /\ refused \in BOOLEAN
  BY Facts
<1>5. /\ ~refused /\ arrived = 0 /\ FreeSize = RING_BUFFER_SIZE - 1 - (read - cut)
      /\ Holds(ring, conv.stream, cut, read - cut)
      /\ Len(delivered) < Len(conv.msgs) \/ Len(delivered) = Len(conv.msgs)
  BY <1>1, AtCut
<1>6. ASSUME Len(delivered) < Len(conv.msgs)
      PROVE  /\ ~(FreeSize <= 0)
             /\ read - cut < HEADER_SIZE + Len(conv.msgs[Len(delivered) + 1])
  <2>1. PICK msg, len : msg = conv.msgs[Len(delivered) + 1] /\ len = Len(msg)
    OBVIOUS
  <2>2. len \in 1 .. MaxLen /\ read - cut < HEADER_SIZE + len
    BY <1>1, <1>6, <2>1, CutNext, Zenon
  <2>3. PICK n \in Nat : n = read - cut
    BY <1>4
  <2>4. RING_BUFFER_SIZE - 1 - n > 0
    BY <2>2, <2>3, RoomForRest
  <2>5. ~(FreeSize <= 0)
    BY <1>5, <2>3, <2>4, RingAssumption
  <2> QED BY <2>1, <2>2, <2>5
<1>7. FreeSize <= 0 => conv.broken /\ Len(delivered) = Len(conv.msgs)
  BY <1>1, <1>5, <1>6, CutRest, Zenon
<1>8. Incomplete'
  BY <1>3, <1>6, Zenon DEF Incomplete
<1>9. /\ BehindTheRear(ring, direct) /\ Room(direct) = FreeSize
      /\ direct.direct1 \in Nat /\ direct.direct2 \in Nat
      /\ direct.direct1 <= RING_BUFFER_SIZE /\ direct.direct2 <= RING_BUFFER_SIZE
  <2>1. BehindTheRear(ring, direct) /\ Room(direct) = GetFreeSize(ring.front, ring.rear)
    BY <1>2, <1>4, TwoPieces DEF Room
  <2>2. direct.direct1 \in Nat /\ direct.direct2 \in Nat
    BY <2>1, Zenon DEF BehindTheRear
  <2>3. direct.direct1 + direct.direct2 = FreeSize
    BY <2>1 DEF Room, FreeSize
  <2>4. PICK n \in Nat : n = read - cut /\ FreeSize = RING_BUFFER_SIZE - 1 - n
    BY <1>4, <1>5
  <2> QED BY <2>1, <2>2, <2>3, <2>4, RingAssumption DEF FreeSize
<1>10. ~(\E len \in {direct.direct1, direct.direct2} : len \notin 0 .. RING_BUFFER_SIZE)
  BY <1>9, RingAssumption
<1>11. crash' = crash /\ arrived' = arrived /\ phase' \in Phases \ {"empty", "arrived"} /\ refused' \in BOOLEAN
  <2>1. CASE FreeSize <= 0
    BY <1>3, <2>1, Zenon DEF Refuse, Phases
  <2>2. CASE ~(FreeSize <= 0) /\ bIOCancel
    BY <1>3, <1>4, <1>10, <2>2, Zenon DEF Phases
  <2>3. CASE ~(FreeSize <= 0) /\ ~bIOCancel
    BY <1>3, <1>4, <1>10, <2>3, Zenon DEF Phases
  <2> QED BY <2>1, <2>2, <2>3
<1>12. refused' => FreeSize <= 0 /\ phase' = "closing"
  BY <1>3, <1>5, <1>10, Zenon DEF Refuse
<1>13. phase' = "posted" => posted' = direct
  BY <1>3, <1>10, Zenon DEF Refuse
<1>14. FramingTypes'
  BY <1>3, <1>11, Zenon DEF Framing, FramingTypes
<1>15. RingHolds'
  BY <1>1, <1>3, <1>11, Facts, RingHoldsNext
<1>16. InOrder'
  BY <1>1, <1>3, <1>5, Zenon DEF Framing, InOrder
<1>17. Waiting'
  BY <1>3, <1>8, <1>9, <1>13 DEF Waiting, FreeSize
<1>18. Cleared' /\ Refusal' /\ NoInternalCrash'
  BY <1>3, <1>5, <1>7, <1>11, <1>12 DEF Framing, Cleared, Refusal, NoInternalCrash
<1>19. refused' = refused \/ (conv.broken /\ Len(delivered) = Len(conv.msgs))
  <2>1. ASSUME ~refused' PROVE refused' = refused
    BY <1>4, <1>5, <1>11, <2>1
  <2> QED BY <1>7, <1>12, <2>1
<1> QED BY <1>14, <1>15, <1>16, <1>17, <1>18, <1>19, Zenon DEF Framing

(* A receive that fails, a cancellation, and the end of a session.             *)
LEMMA LostKeeps ==
  ASSUME Framing, Lost
  PROVE  Framing'
<1>1. /\ phase = "posted" /\ phase' = "closing" /\ ring' = ring /\ crash' = crash
      /\ conv' = conv /\ arrived' = arrived /\ read' = read /\ cut' = cut
      /\ delivered' = delivered /\ refused' = refused
  BY DEF Lost, clientVars
<1>2. FramingTypes'
  <2>1. phase' \in Phases
    BY <1>1 DEF Phases
  <2> QED BY <1>1, <2>1, Zenon DEF Framing, FramingTypes
<1>3. RingHolds'
  BY <1>1, Facts, RingHoldsNext
<1>4. InOrder' /\ Cleared' /\ Waiting' /\ Refusal' /\ NoInternalCrash'
  BY <1>1 DEF Framing, InOrder, Cleared, Waiting, Refusal, NoInternalCrash
<1> QED BY <1>2, <1>3, <1>4, Zenon DEF Framing

(* Release clears the ring for the next session.                             *)
LEMMA ReleaseKeeps ==
  ASSUME Framing, Release
  PROVE  Framing'
<1>1. /\ phase = "closing" /\ phase' = "empty" /\ ring' = ClearBuffer(ring) /\ crash' = crash
      /\ conv' = conv /\ arrived' = arrived /\ read' = read /\ cut' = cut
      /\ delivered' = delivered /\ refused' = refused
  BY DEF Release, clientVars
<1>2. ring' \in Rings /\ ring'.front = 0 /\ ring'.rear = 0
  <2>1. ring \in Rings /\ 0 \in Positions
    BY Facts, RingAssumption DEF Positions
  <2> QED BY <1>1, <2>1 DEF ClearBuffer, Rings
<1>3. FramingTypes'
  <2>1. phase' \in Phases
    BY <1>1 DEF Phases
  <2> QED BY <1>1, <1>2, <2>1, Zenon DEF Framing, FramingTypes
<1>4. RingHolds' /\ InOrder' /\ Cleared' /\ Waiting' /\ Refusal' /\ NoInternalCrash'
  BY <1>1, <1>2 DEF Framing, RingHolds, InOrder, Cleared, Waiting, Refusal, NoInternalCrash
<1> QED BY <1>3, <1>4, Zenon DEF Framing

(* A step that touches neither the ring nor the session's bytes: Disconnect,   *)
(* all that the update thread does, and the end behind a packet's buffer.     *)
Aside ==
    /\ ring' = ring /\ phase' = phase /\ posted' = posted
    /\ conv' = conv /\ arrived' = arrived /\ read' = read /\ cut' = cut
    /\ delivered' = delivered /\ refused' = refused
    /\ crash' \in {crash, "handler", "overrun"}

(* Such a step keeps Framing.                                                *)
LEMMA AsideKeeps ==
  ASSUME Framing, Aside
  PROVE  Framing'
<1>1. FramingTypes'
  BY Zenon DEF Framing, FramingTypes, Aside
<1>2. RingHolds'
  BY Facts, RingHoldsNext DEF Aside
<1>3. InOrder' /\ Cleared' /\ Refusal'
  BY Zenon DEF Framing, InOrder, Cleared, Refusal, Aside
<1>4. Waiting'
  BY DEF Framing, Waiting, Incomplete, FreeSize, Aside
<1>5. NoInternalCrash'
  BY DEF Framing, NoInternalCrash, Aside
<1> QED BY <1>1, <1>2, <1>3, <1>4, <1>5, Zenon DEF Framing

(* The steps of that kind.                                                   *)
LEMMA AsideOnes ==
  /\ Disconnect => Aside
  /\ CutOverrun => Aside
  /\ JoinOrLeave => Aside
  /\ \A randKey \in RandKeys : Answer(randKey) => Aside
  /\ RefuseMessage => Aside
  /\ MessageCrash => Aside
  /\ UNCHANGED <<vars, wireVars>> => Aside
<1>1. Take => Aside
  BY Zenon DEF Take, Aside, clientVars
<1>2. Disconnect => Aside
  BY Zenon DEF Disconnect, Aside, clientVars
<1>3. JoinOrLeave => Aside
  BY <1>1, Zenon DEF JoinOrLeave
<1>4. \A randKey \in RandKeys : Answer(randKey) => Aside
  BY <1>1, Zenon DEF Answer
<1>5. RefuseMessage => Aside
  BY Zenon DEF RefuseMessage, Aside, clientVars
<1>6. MessageCrash => Aside
  BY Zenon DEF MessageCrash, Aside, clientVars
<1>7. UNCHANGED <<vars, wireVars>> => Aside
  BY Zenon DEF vars, clientVars, Aside
<1>8. CutOverrun => Aside
  BY Zenon DEF CutOverrun, Aside, clientVars
<1> QED BY <1>2, <1>3, <1>4, <1>5, <1>6, <1>7, <1>8

-----------------------------------------------------------------------------
(* Every step of the receive path and of the update thread keeps Framing.      *)
LEMMA FramingNext ==
  ASSUME Framing, [WireNext]_<<vars, wireVars>>
  PROVE  Framing'
<1>1. CASE Receive
  <2>1. Receiving
    BY <1>1 DEF Receive
  <2>2. ASSUME NEW k \in 1 .. RING_BUFFER_SIZE, Complete(k) PROVE Framing'
    BY <2>2, CompleteKeeps
  <2>3. Disconnect \/ CutOverrun => Framing'
    BY AsideOnes, AsideKeeps
  <2>4. CutMessage => Framing'
    BY CutKeeps
  <2> QED BY <2>1, <2>2, <2>3, <2>4, AcceptKeeps, LostKeeps, EnqueuedKeeps, RefuseHeaderKeeps,
             RecvPostKeeps, ReleaseKeeps, Zenon DEF Receiving
<1>2. CASE ~Receive
  <2>1. Aside
    BY <1>2, AsideOnes, Zenon DEF WireNext
  <2> QED BY <2>1, AsideKeeps
<1> QED BY <1>1, <1>2

(***************************************************************************)
(* Framing is inductive: true at first and kept by every step.               *)
(***************************************************************************)
THEOREM FramingInvariance == WireSpec => []Framing
<1>1. WireInit => Framing
  BY FramingInit DEF WireInit
<1>2. Framing /\ [WireNext]_<<vars, wireVars>> => Framing'
  BY FramingNext
<1> QED BY <1>1, <1>2, PTL DEF WireSpec

(***************************************************************************)
(* The ring holds exactly what has come in and was not cut off, whatever      *)
(* the pieces and wherever it wraps (RecvPacket, RecvPost, RingQ).           *)
(***************************************************************************)
THEOREM RingCorrect == WireSpec => []RingHolds
<1>1. Framing => RingHolds
  BY DEF Framing
<1> QED BY <1>1, FramingInvariance, PTL

(***************************************************************************)
(* No check that the receive path makes of the ring ever fails.              *)
(***************************************************************************)
THEOREM ChecksHold == WireSpec => []NoInternalCrash
<1>1. Framing => NoInternalCrash
  BY DEF Framing
<1> QED BY <1>1, FramingInvariance, PTL

(* How far the next message goes.                                            *)
LEMMA NextEnds ==
  ASSUME Framing, phase # "empty", NEW d \in Nat, d = Len(delivered), d < Len(conv.msgs),
         cut = conv.start[d + 1], NEW len, len = Len(conv.msgs[d + 1])
  PROVE  len \in 1 .. MaxLen /\ conv.start[d + 2] = cut + HEADER_SIZE + len
<1>1. /\ Len(conv.msgs) \in Nat
      /\ \A i \in 1 .. Len(conv.msgs) :
            /\ conv.start[i + 1] = conv.start[i] + HEADER_SIZE + Len(conv.msgs[i])
            /\ MessageAt(conv, conv.start[i], conv.msgs[i])
  BY Facts, Conversation, Zenon
<1>2. d + 1 \in 1 .. Len(conv.msgs) /\ (d + 1) + 1 = d + 2
  BY <1>1
<1>3. /\ conv.start[d + 2] = cut + HEADER_SIZE + len
      /\ MessageAt(conv, cut, conv.msgs[d + 1])
  BY <1>1, <1>2, Zenon
<1> QED BY <1>3, Zenon DEF MessageAt

(* The next message ends behind what has come in, within the pending receive. *)
LEMMA RestFits ==
  ASSUME Framing
  PROVE  NeverStalls
<1> SUFFICES ASSUME phase = "posted", Len(delivered) < Len(conv.msgs)
             PROVE  /\ 0 < conv.start[Len(delivered) + 2] - read
                    /\ conv.start[Len(delivered) + 2] - read <= posted.direct1 + posted.direct2
  BY DEF NeverStalls
<1>0. PICK len : len = Len(conv.msgs[Len(delivered) + 1])
  OBVIOUS
<1>1. PICK d \in Nat, n \in Nat : /\ d = Len(delivered) /\ n = read - cut /\ read = cut + n
                                  /\ len = Len(conv.msgs[d + 1])
  BY <1>0, Facts
<1>2. /\ ring \in Rings /\ conv \in Conversations /\ cut \in Nat /\ read \in Nat
      /\ cut + n <= Len(conv.stream) /\ Holds(ring, conv.stream, cut, n)
  BY <1>1, Facts
<1>3. /\ BehindTheRear(ring, posted) /\ Room(posted) = FreeSize /\ n < HEADER_SIZE + len
      /\ cut = conv.start[d + 1]
  <2>1. Waiting /\ InOrder /\ Refusal
    BY DEF Framing
  <2>2. ~refused
    BY <2>1 DEF Refusal
  <2> QED BY <1>1, <2>1, <2>2 DEF Waiting, InOrder, Incomplete
<1>4. len \in 1 .. MaxLen /\ conv.start[d + 2] = cut + HEADER_SIZE + len
  <2>1. d < Len(conv.msgs) /\ phase # "empty"
    BY <1>1
  <2> QED BY <1>1, <1>3, <2>1, NextEnds, Zenon
<1>5. FreeSize = RING_BUFFER_SIZE - 1 - n
  BY <1>2, HoldsSmall DEF FreeSize
<1>6. posted.direct1 + posted.direct2 = RING_BUFFER_SIZE - 1 - n
  BY <1>3, <1>5 DEF Room
<1>7. /\ 0 < (cut + HEADER_SIZE + len) - (cut + n)
      /\ (cut + HEADER_SIZE + len) - (cut + n) <= RING_BUFFER_SIZE - 1 - n
  BY <1>2, <1>3, <1>4, RoomForRest
<1> QED BY <1>1, <1>4, <1>6, <1>7

(***************************************************************************)
(* A pending receive can always take the rest of the message that is missing, *)
(* and no whole message waits behind it (RecvPost, GetDirectEnQData).         *)
(***************************************************************************)
THEOREM Unstalled == WireSpec => []NeverStalls
<1>1. Framing => NeverStalls
  BY RestFits
<1> QED BY <1>1, FramingInvariance, PTL
-----------------------------------------------------------------------------
(* At first no session is open.                                              *)
LEMMA StreamInit ==
  ASSUME WireInit
  PROVE  Stream!Init
BY DEF WireInit, Init, Stream!Init

(* Every step is one of MessageStream, or changes nothing there.              *)
LEMMA StreamNext ==
  ASSUME Framing, [WireNext]_<<vars, wireVars>>
  PROVE  [Stream!Next]_(Stream!vars)
<1> USE DEF Stream!Next, Stream!vars
<1>1. CASE AcceptUser
  <2>1. /\ phase = "empty" /\ phase' = "posted" /\ refused' = FALSE
        /\ conv' \in Conversations /\ delivered' = <<>>
    BY <1>1, Zenon DEF AcceptUser
  <2>2. Stream!Open
    BY <2>1 DEF Stream!Open
  <2> QED BY <2>2
<1>2. CASE \E k \in 1 .. RING_BUFFER_SIZE : Complete(k)
  <2>1. phase = "posted" /\ phase' = "arrived" /\ UNCHANGED <<conv, delivered, refused>>
    BY <1>2, Zenon DEF Complete
  <2> QED BY <2>1
<1>3. CASE Lost
  <2>1. phase = "posted" /\ phase' = "closing" /\ UNCHANGED <<conv, delivered, refused>>
    BY <1>3, Zenon DEF Lost, clientVars
  <2>2. ~refused
    BY <2>1 DEF Framing, Refusal
  <2>3. Stream!Close
    BY <2>1, <2>2 DEF Stream!Close
  <2> QED BY <2>3
<1>4. CASE Enqueued
  <2>1. phase = "arrived" /\ UNCHANGED <<conv, delivered>>
    BY <1>4, Zenon DEF Enqueued
  <2>2. refused' = refused
    BY <1>4, EnqueuedKeeps
  <2>3. ~refused
    BY <2>1 DEF Framing, Refusal
  <2>4. phase' = "cutting"
    BY <1>4, <2>2, <2>3, Zenon DEF Enqueued, Refuse
  <2> QED BY <2>1, <2>2, <2>4
<1>5. CASE RefuseHeader
  <2>1. /\ phase = "cutting" /\ phase' = "closing" /\ refused' = TRUE
        /\ UNCHANGED <<conv, delivered>>
    BY <1>5, Zenon DEF RefuseHeader, Refuse
  <2>2. ~refused /\ conv.broken /\ Len(delivered) = Len(conv.msgs)
    BY <1>5, <2>1, RefuseHeaderKeeps DEF Framing, Refusal
  <2>3. Stream!Refuse
    BY <2>1, <2>2 DEF Stream!Refuse
  <2> QED BY <2>3
<1>6. CASE CutMessage
  <2>1. phase = "cutting" /\ conv' = conv
    BY <1>6, Zenon DEF CutMessage
  <2>2. ~refused
    BY <2>1 DEF Framing, Refusal
  <2>3. PICK d : d = Len(delivered)
    OBVIOUS
  <2>4. \/ /\ d < Len(conv.msgs) /\ delivered' = Append(delivered, conv.msgs[d + 1])
           /\ refused' = refused /\ phase' = phase
        \/ /\ d = Len(conv.msgs) /\ conv.broken /\ delivered' = delivered
           /\ refused' = TRUE /\ phase' = "closing"
    BY <1>6, <2>3, CutKeeps
  <2>5. Stream!Deliver \/ Stream!Refuse
    BY <2>1, <2>2, <2>3, <2>4 DEF Stream!Deliver, Stream!Refuse
  <2> QED BY <2>5
<1>7. CASE RecvPost
  <2>1. /\ phase = "cutting" /\ UNCHANGED <<conv, delivered>>
        /\ \/ refused' = TRUE /\ phase' = "closing"
           \/ refused' = refused /\ phase' \in {"cutting", "closing", "posted"}
    BY <1>7 DEF RecvPost, Refuse
  <2>2. ~refused
    BY <2>1 DEF Framing, Refusal
  <2>3. refused' = refused \/ (conv.broken /\ Len(delivered) = Len(conv.msgs))
    BY <1>7, RecvPostKeeps
  <2>4. Stream!Refuse \/ Stream!Close \/ UNCHANGED Stream!vars
    BY <2>1, <2>2, <2>3 DEF Stream!Refuse, Stream!Close
  <2> QED BY <2>4
<1>8. CASE Release
  <2>1. phase = "closing" /\ phase' = "empty" /\ UNCHANGED <<conv, delivered, refused>>
    BY <1>8, Zenon DEF Release, clientVars
  <2>2. Stream!Close \/ UNCHANGED Stream!vars
    BY <2>1 DEF Stream!Close
  <2> QED BY <2>2
<1>9. CASE Aside
  BY <1>9 DEF Aside
<1> QED BY <1>1, <1>2, <1>3, <1>4, <1>5, <1>6, <1>7, <1>8, <1>9, AsideOnes, Zenon
        DEF WireNext, Receive, Receiving

(***************************************************************************)
(* The receive path implements MessageStream: each session's messages reach   *)
(* the content whole, once and in order, and only what no client of the        *)
(* protocol sends is refused.                                                *)
(***************************************************************************)
THEOREM StreamImplemented == WireSpec => StreamSpec
<1>1. WireInit => Stream!Init
  BY StreamInit
<1>2. Framing /\ [WireNext]_<<vars, wireVars>> => [Stream!Next]_(Stream!vars)
  BY StreamNext
<1> QED BY <1>1, <1>2, FramingInvariance, PTL DEF WireSpec, StreamSpec, Stream!Spec

-----------------------------------------------------------------------------
(***************************************************************************)
(* The second half is about the bytes of a packet: what the operations of      *)
(* NetPacket leave in it, that Decoding undoes Encoding, and that what the     *)
(* handlers answer is read by the client as its own request and login.         *)
(* Carries is the measure: a packet whose first bytes are a sequence that was   *)
(* written, of which some are read.  The recursive functions of the coding     *)
(* are followed with SetInduction.                                            *)
(***************************************************************************)
(* Induction: a set with 0 and with the successor of each of its numbers has  *)
(* them all, since the least one it had not would have a predecessor.        *)
LEMMA SetInduction ==
  ASSUME NEW S, 0 \in S, \A n \in Nat : n \in S => n + 1 \in S
  PROVE  Nat \subseteq S
<1> DEFINE T == Nat \ S
<1>1. SUFFICES ASSUME T # {} PROVE FALSE
  OBVIOUS
<1>2. PICK m \in T : \A k \in T : <<k, m>> \notin OpToRel(<, Nat)
  BY <1>1, WFMin, NatLessThanWellFounded, Zenon
<1>3. \A k \in T : ~(k < m)
  BY <1>2, Zenon DEF OpToRel
<1> QED BY <1>3

(* f is made along 0 .. n, each value from the one before it. *)
Follows(f, n, first, next) ==
    f[0] = first /\ \A i \in 1 .. n : f[i] = next[i][f[i - 1]]

(* There is a function of every recursion of this form.                      *)
LEMMA RecursionExists ==
  ASSUME NEW n \in Nat, NEW V, NEW first \in V, NEW next \in [1 .. n -> [V -> V]]
  PROVE  \E f \in [0 .. n -> V] : Follows(f, n, first, next)
<1> DEFINE Done(k, f) == f[0] = first /\ \A i \in 1 .. k : f[i] = next[i][f[i - 1]]
           S == {k \in Nat : k <= n => \E f \in [0 .. k -> V] : Done(k, f)}
<1>1. 0 \in S
  <2>1. [i \in 0 .. 0 |-> first] \in [0 .. 0 -> V] /\ Done(0, [i \in 0 .. 0 |-> first])
    OBVIOUS
  <2> QED BY <2>1
<1>2. ASSUME NEW k \in Nat, k \in S PROVE k + 1 \in S
  <2>1. SUFFICES ASSUME k + 1 <= n PROVE \E f \in [0 .. k + 1 -> V] : Done(k + 1, f)
    OBVIOUS
  <2>2. PICK f \in [0 .. k -> V] : Done(k, f)
    BY <1>2, <2>1
  <2> DEFINE g == [i \in 0 .. k + 1 |-> IF i = k + 1 THEN next[k + 1][f[k]] ELSE f[i]]
  <2>3. next[k + 1][f[k]] \in V
    BY <2>1, <2>2
  <2>4. g \in [0 .. k + 1 -> V]
    BY <2>2, <2>3
  <2>5. Done(k + 1, g)
    <3>1. g[0] = first
      BY <2>2
    <3>2. ASSUME NEW i \in 1 .. k + 1 PROVE g[i] = next[i][g[i - 1]]
      <4>1. i - 1 \in 0 .. k + 1 /\ i \in 0 .. k + 1 /\ i - 1 # k + 1
        OBVIOUS
      <4>2. CASE i = k + 1
        BY <4>1, <4>2
      <4>3. CASE i # k + 1
        <5>1. i \in 1 .. k
          BY <4>3
        <5>2. f[i] = next[i][f[i - 1]]
          BY <2>2, <5>1
        <5> QED BY <4>1, <4>3, <5>2
      <4> QED BY <4>2, <4>3
    <3> QED BY <3>1, <3>2
  <2> QED BY <2>4, <2>5
<1>3. Nat \subseteq S
  <2> HIDE DEF S
  <2> QED BY <1>1, <1>2, SetInduction
<1> QED BY <1>3 DEF Follows

(* What holds of the first value and is handed on holds of all.              *)
LEMMA HandedOn ==
  ASSUME NEW n \in Nat, NEW V, NEW f, f[0] \in V, \A i \in 1 .. n : f[i - 1] \in V => f[i] \in V
  PROVE  \A i \in 0 .. n : f[i] \in V
<1> DEFINE S == {k \in Nat : k <= n => f[k] \in V}
<1>1. 0 \in S
  OBVIOUS
<1>2. ASSUME NEW k \in Nat, k \in S PROVE k + 1 \in S
  <2>1. SUFFICES ASSUME k + 1 <= n PROVE f[k + 1] \in V
    OBVIOUS
  <2>2. k + 1 \in 1 .. n /\ (k + 1) - 1 = k
    BY <2>1
  <2>3. f[k] \in V
    BY <1>2, <2>1
  <2> QED BY <2>2, <2>3
<1>3. Nat \subseteq S
  <2> HIDE DEF S
  <2> QED BY <1>1, <1>2, SetInduction
<1> QED BY <1>3

(* BYTE gives a byte, whatever was summed. *)
LEMMA ByteOf ==
  ASSUME NEW i \in Nat
  PROVE  BYTE(i) \in Bytes
BY DEF BYTE, Bytes, BYTE_VALUES

(* A checksum is a byte (GetCheckSum). *)
LEMMA CheckSumByte ==
  ASSUME NEW data \in Seq(Bytes)
  PROVE  GetCheckSum(data) \in Bytes
<1>1. PICK n \in Nat : n = Len(data)
  OBVIOUS
<1>2. \A i \in 1 .. n : data[i] \in Bytes
  BY <1>1
<1> DEFINE F(s) == [i \in 0 .. n |-> IF i = 0 THEN 0 ELSE BYTE(s[i - 1] + data[i])]
           sum == CHOOSE s : s = F(s)
<1>3. ASSUME NEW b \in Bytes, NEW i \in 1 .. n PROVE BYTE(b + data[i]) \in Bytes
  <2>1. PICK d \in Bytes : d = data[i]
    BY <1>2
  <2>2. b + d \in Nat
    BY DEF Bytes, BYTE_VALUES
  <2> QED BY <2>1, <2>2, ByteOf
<1>4. 0 \in Bytes
  BY DEF Bytes, BYTE_VALUES
<1>5. \E s : s = F(s)
  <2> DEFINE next == [i \in 1 .. n |-> [b \in Bytes |-> BYTE(b + data[i])]]
  <2>1. next \in [1 .. n -> [Bytes -> Bytes]]
    BY <1>3
  <2>2. PICK f \in [0 .. n -> Bytes] : Follows(f, n, 0, next)
    <3> HIDE DEF next
    <3> QED BY <1>4, <2>1, RecursionExists
  <2>3. \A i \in 1 .. n : f[i] = BYTE(f[i - 1] + data[i])
    <3>1. ASSUME NEW i \in 1 .. n PROVE f[i] = BYTE(f[i - 1] + data[i])
      <4>1. f[i - 1] \in Bytes
        OBVIOUS
      <4> QED BY <2>2, <4>1 DEF Follows
    <3> QED BY <3>1
  <2>4. f = F(f)
    BY <2>2, <2>3 DEF Follows
  <2> QED BY <2>4
<1>6. sum = F(sum)
  BY <1>5
<1>7. sum[0] = 0 /\ \A i \in 1 .. n : sum[i] = BYTE(sum[i - 1] + data[i])
  <2>1. \A i \in 0 .. n : sum[i] = IF i = 0 THEN 0 ELSE BYTE(sum[i - 1] + data[i])
    <3> HIDE DEF sum
    <3> QED BY <1>6
  <2> HIDE DEF sum
  <2>2. \A i \in 1 .. n : i \in 0 .. n /\ i # 0
    OBVIOUS
  <2> QED BY <2>1, <2>2
<1>8. GetCheckSum(data) = sum[n]
  BY <1>1 DEF GetCheckSum
<1> HIDE DEF sum, F
<1>9. \A i \in 0 .. n : sum[i] \in Bytes
  BY <1>3, <1>4, <1>7, HandedOn
<1> QED BY <1>8, <1>9

(* The masks of the coding are bytes. *)
LEMMA MaskBytes ==
  ASSUME NEW key \in Bytes, NEW prev \in Bytes, NEW i \in Nat
  PROVE  MaskP(key, prev, i) \in Bytes /\ MaskE(prev, i) \in Bytes
<1>0. dfPACKET_KEY \in Bytes
  BY PacketAssumption, Zenon
<1>1. Bytes \subseteq Nat /\ dfPACKET_KEY \in Bytes
  BY <1>0 DEF Bytes, BYTE_VALUES
<1>2. prev + key + i + 1 \in Nat /\ prev + dfPACKET_KEY + i + 1 \in Nat
  BY <1>1
<1> QED BY <1>2, ByteOf DEF MaskP, MaskE

(* The bytes of the payload and their checksum before them. *)
Plain(plain, checkSum, i) == IF i = 0 THEN checkSum ELSE plain[i]

(* What the coding makes of each byte (Encoding): p has the bytes after the   *)
(* first exclusive or, and e, coded, those after the second.                 *)
Codes(e, p, plain, key, checkSum, n) ==
    \A i \in 0 .. n :
        /\ p[i] = Xor(Plain(plain, checkSum, i), MaskP(key, IF i = 0 THEN 0 ELSE p[i - 1], i))
        /\ e[i] = Xor(p[i], MaskE(IF i = 0 THEN 0 ELSE e[i - 1], i))

(* Encoding makes bytes, each from the one before it.                        *)
LEMMA EncodedBytes ==
  ASSUME NEW plain \in Seq(Bytes), NEW key \in Bytes, NEW checkSum \in Bytes,
         NEW n \in Nat, n = Len(plain), NEW e, e = Encoded(plain, key, checkSum)
  PROVE  /\ e \in [0 .. n -> Bytes]
         /\ \E p \in [0 .. n -> Bytes] : Codes(e, p, plain, key, checkSum, n)
<1>1. \A i \in 1 .. n : plain[i] \in Bytes
  OBVIOUS
<1>2. 0 \in Bytes
  BY DEF Bytes, BYTE_VALUES
<1> DEFINE V == [p : Bytes, e : Bytes]
           Pair(b, prev, i) == [p |-> Xor(b, MaskP(key, prev.p, i)),
                                e |-> Xor(Xor(b, MaskP(key, prev.p, i)), MaskE(prev.e, i))]
           zero == [p |-> 0, e |-> 0]
           F(c) == [i \in 0 .. n |-> Pair(Plain(plain, checkSum, i), IF i = 0 THEN zero ELSE c[i - 1], i)]
           code == CHOOSE c : c = F(c)
<1>3. ASSUME NEW b \in Bytes, NEW prev \in V, NEW i \in Nat PROVE Pair(b, prev, i) \in V
  <2>1. prev.p \in Bytes /\ prev.e \in Bytes
    OBVIOUS
  <2>2. MaskP(key, prev.p, i) \in Bytes /\ MaskE(prev.e, i) \in Bytes
    BY <2>1, MaskBytes
  <2>3. Xor(b, MaskP(key, prev.p, i)) \in Bytes
    BY <2>2, XorAssumption
  <2>4. Xor(Xor(b, MaskP(key, prev.p, i)), MaskE(prev.e, i)) \in Bytes
    BY <2>2, <2>3, XorAssumption
  <2> QED BY <2>3, <2>4
<1>4. zero \in V
  BY <1>2
<1>5. \A i \in 1 .. n : \A prev \in V : Pair(plain[i], prev, i) \in V
  <2> HIDE DEF V, Pair
  <2>1. \A i \in 1 .. n : i \in Nat
    OBVIOUS
  <2> QED BY <1>1, <1>3, <2>1
<1>6. Pair(checkSum, zero, 0) \in V
  <2> HIDE DEF V, Pair, zero
  <2> QED BY <1>3, <1>4
<1>7. \E c : c = F(c)
  <2> DEFINE next == [i \in 1 .. n |-> [prev \in V |-> Pair(plain[i], prev, i)]]
             first == Pair(checkSum, zero, 0)
  <2> HIDE DEF V, Pair, zero
  <2>1. next \in [1 .. n -> [V -> V]]
    BY <1>5
  <2>2. first \in V
    BY <1>6
  <2>3. PICK c \in [0 .. n -> V] : Follows(c, n, first, next)
    <3> HIDE DEF next, first
    <3> QED BY <2>1, <2>2, RecursionExists
  <2>4. \A i \in 1 .. n : c[i] = Pair(plain[i], c[i - 1], i)
    <3>1. ASSUME NEW i \in 1 .. n PROVE c[i] = Pair(plain[i], c[i - 1], i)
      <4>1. c[i - 1] \in V
        OBVIOUS
      <4> QED BY <2>3, <4>1 DEF Follows
    <3> QED BY <3>1
  <2>5. c[0] = Pair(checkSum, zero, 0)
    BY <2>3 DEF Follows
  <2>6. \A i \in 0 .. n : c[i] = Pair(Plain(plain, checkSum, i), IF i = 0 THEN zero ELSE c[i - 1], i)
    BY <2>4, <2>5 DEF Plain
  <2>7. c = F(c)
    BY <2>6
  <2> QED BY <2>7
<1>8. code = F(code)
  <2> HIDE DEF F
  <2> QED BY <1>7
<1>9. \A i \in 0 .. n : code[i] = Pair(Plain(plain, checkSum, i), IF i = 0 THEN zero ELSE code[i - 1], i)
  <2> HIDE DEF code, Pair, zero
  <2> QED BY <1>8
<1>10. e = [i \in 0 .. n |-> code[i].e]
  BY DEF Encoded, Plain
<1> HIDE DEF code
<1>11. \A i \in 0 .. n : code[i] \in V
  <2>1. code[0] = Pair(checkSum, zero, 0)
    <3> HIDE DEF Pair, zero
    <3> QED BY <1>9 DEF Plain
  <2>2. \A i \in 1 .. n : code[i] = Pair(plain[i], code[i - 1], i)
    <3> HIDE DEF Pair, zero
    <3>1. \A i \in 1 .. n : i \in 0 .. n /\ i # 0
      OBVIOUS
    <3> QED BY <1>9, <3>1 DEF Plain
  <2> HIDE DEF V, Pair, zero
  <2>3. \A i \in 1 .. n : code[i - 1] \in V => code[i] \in V
    BY <1>5, <2>2
  <2> QED BY <1>6, <2>1, <2>3, HandedOn
<1>12. \A i \in 0 .. n : code[i].p \in Bytes /\ code[i].e \in Bytes
  BY <1>11
<1> DEFINE p == [i \in 0 .. n |-> code[i].p]
<1>13. p \in [0 .. n -> Bytes] /\ e \in [0 .. n -> Bytes]
  BY <1>10, <1>12
<1>14. ASSUME NEW i \in 0 .. n
       PROVE  /\ p[i] = Xor(Plain(plain, checkSum, i), MaskP(key, IF i = 0 THEN 0 ELSE p[i - 1], i))
              /\ e[i] = Xor(p[i], MaskE(IF i = 0 THEN 0 ELSE e[i - 1], i))
  <2>1. p[i] = code[i].p /\ e[i] = code[i].e
    BY <1>10
  <2>2. CASE i = 0
    <3>1. code[i] = Pair(Plain(plain, checkSum, i), zero, i)
      BY <1>9, <2>2
    <3> QED BY <2>1, <2>2, <3>1
  <2>3. CASE i # 0
    <3>1. code[i] = Pair(Plain(plain, checkSum, i), code[i - 1], i)
      BY <1>9, <2>3
    <3>2. i - 1 \in 0 .. n
      BY <2>3
    <3>3. p[i - 1] = code[i - 1].p /\ e[i - 1] = code[i - 1].e
      BY <1>10, <3>2
    <3> QED BY <2>1, <2>3, <3>1, <3>3
  <2> QED BY <2>2, <2>3
<1>15. Codes(e, p, plain, key, checkSum, n)
  <2> HIDE DEF p
  <2> QED BY <1>14 DEF Codes
<1> QED BY <1>13, <1>15

(* Decoding takes back what the coding did to each byte.                      *)
LEMMA DecodedBytes ==
  ASSUME NEW plain \in Seq(Bytes), NEW key \in Bytes, NEW checkSum \in Bytes,
         NEW n \in Nat, n = Len(plain), NEW e, e = Encoded(plain, key, checkSum),
         NEW i \in 0 .. n
  PROVE  DecodedByte(e, key, i) = Plain(plain, checkSum, i)
<1>0. PICK p \in [0 .. n -> Bytes] : Codes(e, p, plain, key, checkSum, n)
  BY EncodedBytes
<1>1. /\ e \in [0 .. n -> Bytes]
      /\ \A j \in 0 .. n :
            /\ p[j] = Xor(Plain(plain, checkSum, j), MaskP(key, IF j = 0 THEN 0 ELSE p[j - 1], j))
            /\ e[j] = Xor(p[j], MaskE(IF j = 0 THEN 0 ELSE e[j - 1], j))
  BY <1>0, EncodedBytes DEF Codes
<1>2. ASSUME NEW j \in 0 .. n PROVE DecodedP(e, j) = p[j]
  <2> DEFINE prev == IF j = 0 THEN 0 ELSE e[j - 1]
  <2>1. prev \in Bytes
    <3>1. 0 \in Bytes
      BY DEF Bytes, BYTE_VALUES
    <3>2. j # 0 => j - 1 \in 0 .. n
      OBVIOUS
    <3> QED BY <1>1, <3>1, <3>2
  <2>2. MaskE(prev, j) \in Bytes
    <3>1. key \in Bytes /\ j \in Nat
      OBVIOUS
    <3> QED BY <2>1, <3>1, MaskBytes
  <2>3. e[j] = Xor(p[j], MaskE(prev, j)) /\ p[j] \in Bytes
    BY <1>1
  <2>4. Xor(e[j], MaskE(prev, j)) = p[j]
    <3> HIDE DEF prev
    <3> QED BY <2>2, <2>3, XorAssumption
  <2> QED BY <2>4 DEF DecodedP
<1>3. Plain(plain, checkSum, i) \in Bytes
  BY DEF Plain
<1> DEFINE before == IF i = 0 THEN 0 ELSE p[i - 1]
<1>4. before \in Bytes /\ before = IF i = 0 THEN 0 ELSE DecodedP(e, i - 1)
  <2>1. 0 \in Bytes
    BY DEF Bytes, BYTE_VALUES
  <2>2. i # 0 => i - 1 \in 0 .. n
    OBVIOUS
  <2> QED BY <1>1, <1>2, <2>1, <2>2
<1>5. MaskP(key, before, i) \in Bytes
  <2>1. i \in Nat
    OBVIOUS
  <2> HIDE DEF before
  <2> QED BY <1>4, <2>1, MaskBytes
<1>6. DecodedP(e, i) = Xor(Plain(plain, checkSum, i), MaskP(key, before, i))
  BY <1>1, <1>2
<1>7. DecodedByte(e, key, i) = Xor(DecodedP(e, i), MaskP(key, before, i))
  BY <1>4, Zenon DEF DecodedByte
<1> HIDE DEF before
<1> QED BY <1>3, <1>5, <1>6, <1>7, XorAssumption

Words == {n \in Nat : n < BYTE_VALUES * BYTE_VALUES}

(* The length of a payload is a WORD.                                        *)
LEMMA SizeNat == PAYLOAD_SIZE \in Nat /\ 0 .. PAYLOAD_SIZE \subseteq Words
<1>1. PAYLOAD_SIZE \in 1 .. BYTE_VALUES * BYTE_VALUES - 1
  BY PacketAssumption, Zenon
<1>2. BYTE_VALUES * BYTE_VALUES \in Int
  BY DEF BYTE_VALUES
<1>3. \A words \in Int : \A size \in 1 .. words - 1 : size \in Nat /\ \A n \in 0 .. size : n \in Nat /\ n < words
  OBVIOUS
<1>4. PAYLOAD_SIZE \in Nat /\ \A n \in 0 .. PAYLOAD_SIZE : n \in Nat /\ n < BYTE_VALUES * BYTE_VALUES
  BY <1>1, <1>2, <1>3, Zenon
<1> QED BY <1>4 DEF Words

(* The front of a sequence. *)
LEMMA FrontOf ==
  ASSUME NEW s \in Seq(Bytes), NEW k \in Nat, k <= Len(s)
  PROVE  /\ SubSeq(s, 1, k) \in Seq(Bytes) /\ Len(SubSeq(s, 1, k)) = k
         /\ \A i \in 1 .. k : SubSeq(s, 1, k)[i] = s[i]
OBVIOUS

(* A slice of a sequence.                                                    *)
LEMMA SliceOf ==
  ASSUME NEW s \in Seq(Bytes), NEW a \in Nat, NEW b \in Nat, a <= b, b <= Len(s)
  PROVE  /\ SubSeq(s, a + 1, b) \in Seq(Bytes) /\ Len(SubSeq(s, a + 1, b)) = b - a
         /\ \A i \in 1 .. b - a : SubSeq(s, a + 1, b)[i] = s[a + i]
OBVIOUS
(***************************************************************************)
(* Two sequences one after the other, and two with the same members.         *)
(***************************************************************************)
LEMMA Joined ==
  ASSUME NEW a \in Seq(Bytes), NEW b \in Seq(Bytes)
  PROVE  /\ a \o b \in Seq(Bytes) /\ Len(a \o b) = Len(a) + Len(b)
         /\ \A i \in 1 .. Len(a) : (a \o b)[i] = a[i]
         /\ \A i \in 1 .. Len(b) : (a \o b)[Len(a) + i] = b[i]
OBVIOUS

(* Sequences of one length with the same members are the same.               *)
LEMMA SameSequence ==
  ASSUME NEW a \in Seq(Bytes), NEW b \in Seq(Bytes),
         Len(a) = Len(b), \A i \in 1 .. Len(a) : a[i] = b[i]
  PROVE  a = b
OBVIOUS

(* Two slices that meet are one.                                             *)
LEMMA SplitAt ==
  ASSUME NEW S, NEW s \in Seq(S), NEW i \in Nat, NEW j \in Nat, NEW k \in Nat,
         1 <= i, i <= j + 1, j <= k, k <= Len(s)
  PROVE  SubSeq(s, i, j) \o SubSeq(s, j + 1, k) = SubSeq(s, i, k)
OBVIOUS

(* A function on 1 .. n is a sequence of n.                                  *)
LEMMA AsFunction ==
  ASSUME NEW n \in Nat, NEW s
  PROVE  s \in [1 .. n -> Bytes] <=> s \in Seq(Bytes) /\ Len(s) = n
OBVIOUS

Payloads == [1 .. PAYLOAD_SIZE -> Bytes]

(* A packet of which s was written, and the first `at` bytes of it are read.  *)
Carries(p, s, at) ==
    /\ p \in [free : Nat, size : Nat, write : Nat, read : Nat, payload : Payloads,
              header : Seq(Bytes), setHeader : BOOLEAN, encoded : BOOLEAN, thrown : BOOLEAN]
    /\ s \in Seq(Bytes) /\ Len(s) <= PAYLOAD_SIZE /\ at \in 0 .. Len(s)
    /\ p.read = at /\ p.write = Len(s) /\ p.size = Len(s) - at
    /\ p.free = PAYLOAD_SIZE - (Len(s) - at)
    /\ \A i \in 1 .. Len(s) : p.payload[i] = s[i]
    /\ ~p.thrown /\ ~p.encoded

(* A packet that threw a PacketExcept. *)
Thrown(p) == "thrown" \in DOMAIN p /\ p.thrown

(* A payload after a copy into it; the copied bytes lie where they were copied *)
(* to and those before them stay.                                            *)
Over(payload, at, data, n) ==
    LET written == SubSeq(payload, 1, at) \o SubSeq(data, 1, n)
    IN  SubSeq(written \o SubSeq(payload, at + n + 1, Len(payload)), 1, Len(payload))

(* What a copy into a payload leaves.                                        *)
LEMMA CopiedInto ==
  ASSUME NEW payload \in Payloads, NEW data \in Seq(Bytes), NEW n \in Nat, n <= Len(data),
         NEW at \in Nat, at + n <= PAYLOAD_SIZE
  PROVE  /\ Over(payload, at, data, n) \in Payloads
         /\ \A i \in 1 .. at : Over(payload, at, data, n)[i] = payload[i]
         /\ \A i \in 1 .. n : Over(payload, at, data, n)[at + i] = data[i]
<1> DEFINE after == Over(payload, at, data, n)
<1>0. after = SubSeq((SubSeq(payload, 1, at) \o SubSeq(data, 1, n)) \o
                     SubSeq(payload, at + n + 1, Len(payload)), 1, Len(payload))
  BY DEF Over
<1> HIDE DEF after
<1>1. PICK size \in Nat : size = PAYLOAD_SIZE
  BY SizeNat
<1>2. payload \in Seq(Bytes) /\ Len(payload) = size
  BY <1>1 DEF Payloads
<1> DEFINE front == SubSeq(payload, 1, at)
           mid   == SubSeq(data, 1, n)
           back  == SubSeq(payload, at + n + 1, Len(payload))
<1>3. /\ front \in Seq(Bytes) /\ Len(front) = at
      /\ \A i \in 1 .. at : front[i] = payload[i]
  <2>1. at <= Len(payload)
    BY <1>1, <1>2
  <2> QED BY <1>2, <2>1, FrontOf
<1>4. /\ mid \in Seq(Bytes) /\ Len(mid) = n
      /\ \A i \in 1 .. n : mid[i] = data[i]
  BY FrontOf
<1>5. back \in Seq(Bytes) /\ Len(back) = size - (at + n)
  <2>1. at + n <= Len(payload) /\ at + n \in Nat
    BY <1>1, <1>2
  <2> QED BY <1>2, <2>1
<1> HIDE DEF front, mid, back
<1>6. /\ front \o mid \in Seq(Bytes) /\ Len(front \o mid) = at + n
      /\ \A i \in 1 .. at : (front \o mid)[i] = payload[i]
      /\ \A i \in 1 .. n : (front \o mid)[at + i] = data[i]
  <2>1. /\ front \o mid \in Seq(Bytes) /\ Len(front \o mid) = Len(front) + Len(mid)
        /\ \A i \in 1 .. Len(front) : (front \o mid)[i] = front[i]
        /\ \A i \in 1 .. Len(mid) : (front \o mid)[Len(front) + i] = mid[i]
    BY <1>3, <1>4, Joined
  <2> QED BY <1>3, <1>4, <2>1
<1> DEFINE before == front \o mid
<1>7. /\ after \in Seq(Bytes) /\ Len(after) = size
      /\ \A i \in 1 .. at + n : after[i] = before[i]
  <2>1. after = SubSeq(before \o back, 1, Len(payload))
    BY <1>0 DEF front, mid, back
  <2>2. before \in Seq(Bytes) /\ Len(before) = at + n
    BY <1>6
  <2> HIDE DEF before
  <2>3. /\ before \o back \in Seq(Bytes) /\ Len(before \o back) = Len(before) + Len(back)
        /\ \A i \in 1 .. Len(before) : (before \o back)[i] = before[i]
    BY <1>5, <2>2, Joined
  <2>4. Len(before \o back) = size
    BY <1>1, <1>5, <2>2, <2>3
  <2>5. after = before \o back
    BY <1>2, <2>1, <2>3, <2>4
  <2> QED BY <2>2, <2>3, <2>4, <2>5
<1>8. /\ \A i \in 1 .. n : at + i \in 1 .. at + n
      /\ \A i \in 1 .. at : i \in 1 .. at + n
  OBVIOUS
<1>9. after \in Payloads
  <2>1. after \in [1 .. size -> Bytes]
    BY <1>7, AsFunction
  <2> QED BY <1>1, <2>1 DEF Payloads
<1> QED BY <1>6, <1>7, <1>8, <1>9 DEF after

(* A packet from the pool, and one that was cleared, carry nothing.           *)
LEMMA NewCarries == Carries(NewPacket, <<>>, 0)
<1>1. 0 \in Bytes
  BY DEF Bytes, BYTE_VALUES
<1>2. [i \in 1 .. PAYLOAD_SIZE |-> 0] \in Payloads
  BY <1>1 DEF Payloads
<1>3. <<0, 0, 0, 0, 0>> \in Seq(Bytes) /\ <<>> \in Seq(Bytes) /\ Len(<<>>) = 0
  BY <1>1
<1>4. PAYLOAD_SIZE \in Nat
  BY SizeNat
<1> QED BY <1>2, <1>3, <1>4 DEF Carries, NewPacket

(* Clear leaves nothing of what was written.                                 *)
LEMMA ClearCarries ==
  ASSUME NEW p, NEW s, NEW at, Carries(p, s, at)
  PROVE  Carries(Clear(p), <<>>, 0)
<1>1. PAYLOAD_SIZE \in Nat
  BY SizeNat
<1>2. <<>> \in Seq(Bytes) /\ Len(<<>>) = 0
  OBVIOUS
<1> DEFINE c == Clear(p)
<1>3. /\ c \in [free : Nat, size : Nat, write : Nat, read : Nat, payload : Payloads,
                header : Seq(Bytes), setHeader : BOOLEAN, encoded : BOOLEAN, thrown : BOOLEAN]
      /\ c.read = 0 /\ c.write = 0 /\ c.size = 0 /\ c.free = PAYLOAD_SIZE
      /\ c.thrown = p.thrown /\ ~c.encoded
  BY <1>1 DEF Carries, Clear
<1> HIDE DEF c
<1>4. ~c.thrown
  BY <1>3 DEF Carries
<1>5. Carries(c, <<>>, 0)
  BY <1>1, <1>2, <1>3, <1>4 DEF Carries
<1> QED BY <1>5 DEF c

(* What is not read yet. *)
LEMMA PayloadCarries ==
  ASSUME NEW p, NEW s, NEW at, Carries(p, s, at)
  PROVE  Payload(p) = SubSeq(s, at + 1, Len(s))
<1>1. PICK n \in Nat, size \in Nat : n = Len(s) /\ size = PAYLOAD_SIZE /\ at \in 0 .. n /\ n <= size
  BY SizeNat DEF Carries
<1>2. p.payload \in Seq(Bytes) /\ Len(p.payload) = size /\ s \in Seq(Bytes)
  BY <1>1 DEF Carries, Payloads
<1>3. at \in Nat /\ at <= n
  BY <1>1
<1>4. /\ SubSeq(s, at + 1, n) \in Seq(Bytes) /\ Len(SubSeq(s, at + 1, n)) = n - at
      /\ \A i \in 1 .. n - at : SubSeq(s, at + 1, n)[i] = s[at + i]
  BY <1>1, <1>2, <1>3, SliceOf
<1>5. /\ SubSeq(p.payload, at + 1, n) \in Seq(Bytes) /\ Len(SubSeq(p.payload, at + 1, n)) = n - at
      /\ \A i \in 1 .. n - at : SubSeq(p.payload, at + 1, n)[i] = p.payload[at + i]
  BY <1>1, <1>2, <1>3, SliceOf
<1>6. \A i \in 1 .. n - at : p.payload[at + i] = s[at + i]
  <2>1. \A i \in 1 .. n - at : at + i \in 1 .. Len(s)
    BY <1>1, <1>3
  <2> QED BY <2>1 DEF Carries
<1>7. SubSeq(p.payload, at + 1, n) = SubSeq(s, at + 1, n)
  BY <1>4, <1>5, <1>6, SameSequence
<1>8. p.read = at /\ p.size = n - at /\ p.read + p.size = n
  <2>1. p.read = at /\ p.size = n - at
    BY <1>1 DEF Carries
  <2> QED BY <1>1, <1>3, <2>1
<1> QED BY <1>1, <1>7, <1>8 DEF Payload

(* The next n bytes, when there are so many (operator>>).                     *)
LEMMA ValueCarries ==
  ASSUME NEW p, NEW s, NEW at, Carries(p, s, at), NEW n \in Nat, at + n <= Len(s)
  PROVE  /\ Value(p, n) = SubSeq(s, at + 1, at + n)
         /\ Carries(Get(p, n), s, at + n)
         /\ Data(p, n) = SubSeq(s, at + 1, at + n)
         /\ Carries(GetData(p, n), s, at + n)
<1>1. PICK len \in Nat, size \in Nat :
         /\ len = Len(s) /\ size = PAYLOAD_SIZE /\ at \in 0 .. len /\ len <= size /\ at + n <= len
  BY SizeNat DEF Carries
<1>2. s \in Seq(Bytes) /\ p.size = len - at /\ p.size \in Nat /\ p.size >= n
  BY <1>1 DEF Carries
<1>3. Payload(p) = SubSeq(s, at + 1, len)
  BY <1>1, PayloadCarries
<1>4. SubSeq(SubSeq(s, at + 1, len), 1, n) = SubSeq(s, at + 1, at + n)
  BY <1>1, <1>2
<1>5. (IF p.size <= n THEN p.size ELSE n) = n
  BY <1>2
<1>6. Carries(Consumed(p, n), s, at + n)
  <2> DEFINE c == Consumed(p, n)
  <2>1. p.free = size - (len - at) /\ p.read = at /\ p.write = len
    BY <1>1 DEF Carries
  <2>2. at + n \in 0 .. len /\ p.size - n = len - (at + n) /\ p.free + n = size - (len - (at + n))
    BY <1>1, <1>2, <2>1
  <2>3. p.size - n \in Nat /\ p.free + n \in Nat /\ at + n \in Nat
    BY <1>1, <1>2, <2>1
  <2>4. /\ c \in [free : Nat, size : Nat, write : Nat, read : Nat, payload : Payloads,
                  header : Seq(Bytes), setHeader : BOOLEAN, encoded : BOOLEAN, thrown : BOOLEAN]
        /\ c.read = at + n /\ c.size = p.size - n /\ c.free = p.free + n /\ c.write = p.write
        /\ c.payload = p.payload /\ c.thrown = p.thrown /\ c.encoded = p.encoded
    BY <2>1, <2>3 DEF Carries, Consumed
  <2> HIDE DEF c
  <2>5. Carries(c, s, at + n)
    BY <1>1, <2>1, <2>2, <2>4 DEF Carries
  <2> QED BY <2>5 DEF c
<1>7. Get(p, n) = Consumed(p, n) /\ GetData(p, n) = Consumed(p, n)
  BY <1>2, <1>5 DEF Get, GetData
<1> QED BY <1>3, <1>4, <1>5, <1>6, <1>7 DEF Value, Data

(* As many bytes written as fit (PutData), and all or none (operator<<).      *)
LEMMA WroteCarries ==
  ASSUME NEW p, NEW s, Carries(p, s, 0), NEW data \in Seq(Bytes), NEW n \in Nat,
         n <= Len(data), Len(s) + n <= PAYLOAD_SIZE
  PROVE  Carries(Wrote(Stored(p, p.write, data, n), n), s \o SubSeq(data, 1, n), 0)
<1>1. PICK len \in Nat, size \in Nat : len = Len(s) /\ size = PAYLOAD_SIZE
  BY SizeNat DEF Carries
<1>2. s \in Seq(Bytes) /\ p.write = len /\ p.payload \in Payloads /\ len + n <= size
  BY <1>1 DEF Carries
<1> DEFINE after == Over(p.payload, len, data, n)
           q == [p EXCEPT !.payload = after, !.write = @ + n, !.size = @ + n, !.free = @ - n]
           part == SubSeq(data, 1, n)
<1>3. /\ after \in Payloads
      /\ \A i \in 1 .. len : after[i] = p.payload[i]
      /\ \A i \in 1 .. n : after[len + i] = data[i]
  <2>1. len + n <= PAYLOAD_SIZE
    BY <1>1, <1>2
  <2>2. /\ Over(p.payload, len, data, n) \in Payloads
        /\ \A i \in 1 .. len : Over(p.payload, len, data, n)[i] = p.payload[i]
        /\ \A i \in 1 .. n : Over(p.payload, len, data, n)[len + i] = data[i]
    <3> HIDE DEF after
    <3> QED BY <1>2, <2>1, CopiedInto, SMTT(30)
  <2> QED BY <2>2
<1>4. Wrote(Stored(p, p.write, data, n), n) = q
  BY <1>2 DEF Wrote, Stored, Carries, Over
<1>5. part \in Seq(Bytes) /\ Len(part) = n /\ \A i \in 1 .. n : part[i] = data[i]
  BY FrontOf
<1> HIDE DEF after, part
<1>6. /\ s \o part \in Seq(Bytes) /\ Len(s \o part) = len + n
      /\ \A i \in 1 .. len : (s \o part)[i] = s[i]
      /\ \A i \in 1 .. n : (s \o part)[len + i] = part[i]
  <2>1. /\ s \o part \in Seq(Bytes) /\ Len(s \o part) = Len(s) + Len(part)
        /\ \A i \in 1 .. Len(s) : (s \o part)[i] = s[i]
        /\ \A i \in 1 .. Len(part) : (s \o part)[Len(s) + i] = part[i]
    BY <1>2, <1>5, Joined
  <2> QED BY <1>1, <1>5, <2>1
<1>7. ASSUME NEW i \in 1 .. len + n PROVE after[i] = (s \o part)[i]
  <2>1. CASE i <= len
    <3>1. i \in 1 .. len
      BY <2>1
    <3>2. p.payload[i] = s[i]
      BY <1>1, <3>1 DEF Carries
    <3> QED BY <1>3, <1>6, <3>1, <3>2
  <2>2. CASE i > len
    <3>1. PICK k \in 1 .. n : i = len + k
      <4>1. i - len \in 1 .. n /\ i = len + (i - len)
        BY <2>2
      <4> QED BY <4>1
    <3>2. after[len + k] = data[k] /\ part[k] = data[k] /\ (s \o part)[len + k] = part[k]
      BY <1>3, <1>5, <1>6
    <3> QED BY <3>1, <3>2
  <2>3. i <= len \/ i > len
    OBVIOUS
  <2> QED BY <2>1, <2>2, <2>3
<1>8. Carries(q, s \o part, 0)
  <2>1. s \o part \in Seq(Bytes) /\ Len(s \o part) <= PAYLOAD_SIZE /\ 0 \in 0 .. Len(s \o part)
    BY <1>1, <1>2, <1>6
  <2>2. p.write = len /\ p.size = len /\ p.free = size - len /\ p.read = 0
    BY <1>1 DEF Carries
  <2>3. len + n \in Nat /\ size - len - n \in Nat
    BY <1>1, <1>2
  <2>4. /\ q \in [free : Nat, size : Nat, write : Nat, read : Nat, payload : Payloads,
                  header : Seq(Bytes), setHeader : BOOLEAN, encoded : BOOLEAN, thrown : BOOLEAN]
        /\ q.read = 0 /\ q.size = len + n /\ q.free = size - len - n /\ q.write = len + n
        /\ q.payload = after /\ q.thrown = p.thrown /\ q.encoded = p.encoded
    BY <1>3, <2>2, <2>3 DEF Carries
  <2> HIDE DEF q
  <2>5. ~q.thrown /\ ~q.encoded
    BY <2>4 DEF Carries
  <2>6. size - len - n = size - (len + n - 0) /\ len + n = len + n - 0
    BY <1>1
  <2> QED BY <1>1, <1>6, <1>7, <2>1, <2>4, <2>5, <2>6, SMTT(40) DEF Carries
<1> QED BY <1>4, <1>8 DEF part

(* A value of a field that fits is written after the rest; one that does not   *)
(* leaves an exception.                                                      *)
LEMMA PutCarries ==
  ASSUME NEW p, NEW s, Carries(p, s, 0), NEW value \in Seq(Bytes)
  PROVE  /\ Len(s) + Len(value) <= PAYLOAD_SIZE => Carries(Put(p, value), s \o value, 0)
         /\ Len(s) + Len(value) > PAYLOAD_SIZE => Thrown(Put(p, value))
<1>1. PICK len \in Nat, size \in Nat, n \in Nat : len = Len(s) /\ size = PAYLOAD_SIZE /\ n = Len(value)
  BY SizeNat DEF Carries
<1>2. p.free = size - len
  <2>1. p.free = PAYLOAD_SIZE - (Len(s) - 0)
    BY DEF Carries
  <2> QED BY <1>1, <2>1
<1>3. SubSeq(value, 1, n) = value
  BY <1>1
<1>4. ASSUME Len(s) + Len(value) <= PAYLOAD_SIZE PROVE Carries(Put(p, value), s \o value, 0)
  <2>1. Carries(Wrote(Stored(p, p.write, value, n), n), s \o SubSeq(value, 1, n), 0)
    BY <1>1, <1>4, WroteCarries
  <2>2. ~(p.free < n)
    BY <1>1, <1>2, <1>4
  <2> QED BY <1>1, <1>3, <2>1, <2>2 DEF Put
<1>5. ASSUME Len(s) + Len(value) > PAYLOAD_SIZE PROVE Thrown(Put(p, value))
  <2>1. p.free < n
    BY <1>1, <1>2, <1>5
  <2> QED BY <1>1, <2>1 DEF Put, Carries, Thrown
<1> QED BY <1>4, <1>5

(* As much of data is written as fits (PutData).                             *)
LEMMA PutDataCarries ==
  ASSUME NEW p, NEW s, Carries(p, s, 0), NEW data \in Seq(Bytes), NEW n \in Nat, n <= Len(data)
  PROVE  \E m \in 0 .. n :
            /\ Carries(PutData(p, data, n), s \o SubSeq(data, 1, m), 0)
            /\ Len(s) + m <= PAYLOAD_SIZE
            /\ m = n \/ Len(s) + m = PAYLOAD_SIZE
<1>1. PICK len \in Nat, size \in Nat : len = Len(s) /\ size = PAYLOAD_SIZE /\ len <= size
  BY SizeNat DEF Carries
<1>2. p.free = size - len
  <2>1. p.free = PAYLOAD_SIZE - (Len(s) - 0)
    BY DEF Carries
  <2> QED BY <1>1, <2>1
<1>3. PICK m \in 0 .. n : m = IF p.free < n THEN p.free ELSE n
  <2>1. (IF p.free < n THEN p.free ELSE n) \in 0 .. n
    BY <1>1, <1>2
  <2> QED BY <2>1
<1>4. m \in Nat /\ m <= Len(data) /\ len + m <= size /\ (m = n \/ len + m = size)
  BY <1>1, <1>2, <1>3
<1>5. Carries(Wrote(Stored(p, p.write, data, m), m), s \o SubSeq(data, 1, m), 0)
  BY <1>1, <1>4, WroteCarries
<1>6. PutData(p, data, n) = Wrote(Stored(p, p.write, data, m), m)
  BY <1>3 DEF PutData
<1> QED BY <1>1, <1>4, <1>5, <1>6

(* What follows an exception does not undo it.                               *)
LEMMA ThrownStays ==
  ASSUME NEW p, Thrown(p)
  PROVE  /\ \A value : Thrown(Put(p, value))
         /\ \A data, n : Thrown(PutData(p, data, n))
<1>1. ASSUME NEW q, Thrown(q), NEW at, NEW data, NEW n PROVE Thrown(Stored(q, at, data, n))
  <2>1. PICK new : Stored(q, at, data, n) = [q EXCEPT !.payload = new]
    BY DEF Stored
  <2> QED BY <1>1, <2>1 DEF Thrown
<1>2. ASSUME NEW q, Thrown(q), NEW n PROVE Thrown(Wrote(q, n))
  <2>1. PICK write, size, free :
           Wrote(q, n) = [q EXCEPT !.write = write, !.size = size, !.free = free]
    BY Zenon DEF Wrote
  <2> QED BY <1>2, <2>1 DEF Thrown
<1>3. ASSUME NEW value PROVE Thrown(Put(p, value))
  <2>1. Thrown([p EXCEPT !.thrown = TRUE])
    BY DEF Thrown
  <2>2. Thrown(Wrote(Stored(p, p.write, value, Len(value)), Len(value)))
    BY <1>1, <1>2, Zenon
  <2> QED BY <2>1, <2>2, Zenon DEF Put
<1>4. ASSUME NEW data, NEW n PROVE Thrown(PutData(p, data, n))
  <2>1. PICK m : PutData(p, data, n) = Wrote(Stored(p, p.write, data, m), m)
    BY DEF PutData
  <2> QED BY <1>1, <1>2, <2>1, Zenon
<1> QED BY <1>3, <1>4

(***************************************************************************)
(* The coding of a packet, and what a decoder makes of the bytes.            *)
(***************************************************************************)
LEMMA SliceTail ==
  ASSUME NEW s \in Seq(Bytes), NEW k \in Nat, k <= Len(s)
  PROVE  /\ SubSeq(s, k + 1, Len(s)) \in Seq(Bytes)
         /\ Len(SubSeq(s, k + 1, Len(s))) = Len(s) - k
         /\ SubSeq(s, 1, k) \o SubSeq(s, k + 1, Len(s)) = s
<1> DEFINE a == SubSeq(s, 1, k)
           b == SubSeq(s, k + 1, Len(s))
<1>1. a \in Seq(Bytes) /\ Len(a) = k /\ \A i \in 1 .. k : a[i] = s[i]
  BY FrontOf
<1>2. b \in Seq(Bytes) /\ Len(b) = Len(s) - k /\ \A i \in 1 .. Len(s) - k : b[i] = s[k + i]
  <2>1. Len(s) \in Nat
    OBVIOUS
  <2> QED BY <2>1, SliceOf
<1> HIDE DEF a, b
<1>3. /\ a \o b \in Seq(Bytes) /\ Len(a \o b) = Len(s)
      /\ \A i \in 1 .. k : (a \o b)[i] = s[i]
      /\ \A i \in 1 .. Len(s) - k : (a \o b)[k + i] = s[k + i]
  <2>1. /\ a \o b \in Seq(Bytes) /\ Len(a \o b) = Len(a) + Len(b)
        /\ \A i \in 1 .. Len(a) : (a \o b)[i] = a[i]
        /\ \A i \in 1 .. Len(b) : (a \o b)[Len(a) + i] = b[i]
    BY <1>1, <1>2, Joined, SMTT(30)
  <2> QED BY <1>1, <1>2, <2>1
<1>4. ASSUME NEW i \in 1 .. Len(s) PROVE (a \o b)[i] = s[i]
  <2>1. CASE i <= k
    <3>1. i \in 1 .. k
      BY <2>1
    <3> QED BY <1>3, <3>1
  <2>2. CASE i > k
    <3>1. PICK j \in 1 .. Len(s) - k : i = k + j
      <4>1. i - k \in 1 .. Len(s) - k /\ i = k + (i - k)
        BY <2>2
      <4> QED BY <4>1
    <3> QED BY <1>3, <3>1
  <2>3. i <= k \/ i > k
    <3>1. i \in Int /\ k \in Int
      OBVIOUS
    <3> QED BY <3>1
  <2> QED BY <2>1, <2>2, <2>3
<1>5. a \o b = s
  BY <1>3, <1>4, SameSequence
<1> QED BY <1>2, <1>5 DEF a, b

(* The two parts of a joined sequence.                                       *)
LEMMA PartsOfJoined ==
  ASSUME NEW a \in Seq(Bytes), NEW b \in Seq(Bytes)
  PROVE  /\ SubSeq(a \o b, 1, Len(a)) = a
         /\ SubSeq(a \o b, Len(a) + 1, Len(a \o b)) = b
OBVIOUS

(* The whole of a sequence, and nothing joined to it.                        *)
LEMMA WholeOf ==
  ASSUME NEW s \in Seq(Bytes)
  PROVE  SubSeq(s, 1, Len(s)) = s /\ <<>> \o s = s /\ s \o <<>> = s
OBVIOUS

(* What a packet carries from its start. *)
LEMMA CarriesWhole ==
  ASSUME NEW p, NEW s, Carries(p, s, 0)
  PROVE  /\ Payload(p) = s /\ s \in Seq(Bytes) /\ Len(s) <= PAYLOAD_SIZE
         /\ p.size = Len(s) /\ p.read = 0 /\ SubSeq(p.payload, 1, p.size) = s
<1>1. PICK n \in Nat : n = Len(s)
  BY DEF Carries
<1>2. s \in Seq(Bytes) /\ Len(s) <= PAYLOAD_SIZE /\ p.read = 0 /\ p.size = n - 0
  BY <1>1 DEF Carries
<1>3. p.size = n /\ 0 + 1 = 1 /\ 0 + n = n
  BY <1>1, <1>2
<1>4. Payload(p) = SubSeq(s, 0 + 1, Len(s))
  BY PayloadCarries
<1>5. Payload(p) = s
  BY <1>2, <1>3, <1>4, WholeOf
<1>6. Payload(p) = SubSeq(p.payload, 1, p.size)
  BY <1>2, <1>3 DEF Payload
<1> QED BY <1>1, <1>2, <1>3, <1>5, <1>6

(* A payload that takes the place of another of its length.                  *)
LEMMA StoredCarries ==
  ASSUME NEW p, NEW s, Carries(p, s, 0), NEW data \in Seq(Bytes), Len(data) = Len(s)
  PROVE  Carries(Stored(p, 0, data, Len(data)), data, 0)
<1>1. PICK n \in Nat, size \in Nat : n = Len(s) /\ size = PAYLOAD_SIZE /\ n <= size
  BY SizeNat DEF Carries
<1>2. p.payload \in Payloads /\ n <= PAYLOAD_SIZE /\ 0 + n <= PAYLOAD_SIZE /\ 0 \in Nat
  BY <1>1 DEF Carries
<1> DEFINE after == Over(p.payload, 0, data, n)
           q == [p EXCEPT !.payload = after]
<1>3. after \in Payloads /\ \A i \in 1 .. n : after[0 + i] = data[i]
  <2> HIDE DEF after
  <2>1. n <= Len(data)
    BY <1>1
  <2> QED BY <1>2, <2>1, CopiedInto, SMTT(30) DEF after
<1>4. Stored(p, 0, data, Len(data)) = q
  BY <1>1 DEF Stored, Over
<1> HIDE DEF after
<1>5. /\ q \in [free : Nat, size : Nat, write : Nat, read : Nat, payload : Payloads,
                header : Seq(Bytes), setHeader : BOOLEAN, encoded : BOOLEAN, thrown : BOOLEAN]
      /\ q.read = p.read /\ q.size = p.size /\ q.free = p.free /\ q.write = p.write
      /\ q.payload = after /\ q.thrown = p.thrown /\ q.encoded = p.encoded
  BY <1>3 DEF Carries
<1> HIDE DEF q
<1>6. \A i \in 1 .. Len(data) : q.payload[i] = data[i]
  <2>1. \A i \in 1 .. n : 0 + i = i
    OBVIOUS
  <2> QED BY <1>1, <1>3, <1>5, <2>1
<1>7. Carries(q, data, 0)
  BY <1>1, <1>5, <1>6 DEF Carries
<1> QED BY <1>4, <1>7

(* The packet that these bytes are dequeued into carries them.               *)
LEMMA PacketCarries ==
  ASSUME NEW data \in Seq(Bytes), Len(data) <= PAYLOAD_SIZE
  PROVE  Carries(PacketOf(data), data, 0)
<1>1. PICK n \in Nat, size \in Nat : n = Len(data) /\ size = PAYLOAD_SIZE /\ n <= size
  BY SizeNat
<1>2. Carries(Wrote(Stored(NewPacket, 0, data, n), n), <<>> \o SubSeq(data, 1, n), 0)
  <2>1. Len(<<>>) + n <= PAYLOAD_SIZE /\ n <= Len(data) /\ NewPacket.write = 0
    BY <1>1 DEF NewPacket
  <2>2. Carries(Wrote(Stored(NewPacket, NewPacket.write, data, n), n), <<>> \o SubSeq(data, 1, n), 0)
    BY <2>1, NewCarries, WroteCarries
  <2> QED BY <2>1, <2>2
<1>3. <<>> \o SubSeq(data, 1, n) = data
  BY <1>1, WholeOf
<1>4. Stored(NewPacket, 0, data, n).free = size
  BY <1>1 DEF Stored, NewPacket
<1>5. PacketOf(data) = Wrote(Stored(NewPacket, 0, data, n), n)
  <2>1. PICK stored : stored = Stored(NewPacket, 0, data, n)
    OBVIOUS
  <2>2. (IF stored.free <= n THEN stored.free ELSE n) = n
    BY <1>1, <1>4, <2>1
  <2> QED BY <1>1, <2>1, <2>2 DEF PacketOf, MoveWritePos
<1> QED BY <1>2, <1>3, <1>5

(* The coded bytes of a message, and the plain ones a decoder makes of them.  *)
CodedOf(data, header) == [i \in 0 .. Len(data) |-> IF i = 0 THEN header[5] ELSE data[i]]
PlainFrom(data, header) == [i \in 1 .. Len(data) |-> DecodedByte(CodedOf(data, header), header[4], i)]

(* Decoding makes bytes of bytes.                                            *)
LEMMA DecodedByteIsByte ==
  ASSUME NEW n \in Nat, NEW e \in [0 .. n -> Bytes], NEW key \in Bytes, NEW i \in 0 .. n
  PROVE  DecodedByte(e, key, i) \in Bytes
<1>0. 0 \in Bytes
  BY DEF Bytes, BYTE_VALUES
<1>1. ASSUME NEW j \in 0 .. n PROVE DecodedP(e, j) \in Bytes
  <2> DEFINE prev == IF j = 0 THEN 0 ELSE e[j - 1]
  <2>1. prev \in Bytes /\ j \in Nat /\ e[j] \in Bytes
    <3>1. j # 0 => j - 1 \in 0 .. n
      OBVIOUS
    <3> QED BY <1>0, <3>1
  <2>2. DecodedP(e, j) = Xor(e[j], MaskE(prev, j))
    BY DEF DecodedP
  <2> HIDE DEF prev
  <2>3. MaskE(prev, j) \in Bytes
    BY <2>1, MaskBytes
  <2> QED BY <2>1, <2>2, <2>3, XorAssumption
<1> DEFINE before == IF i = 0 THEN 0 ELSE DecodedP(e, i - 1)
<1>2. before \in Bytes /\ i \in Nat /\ DecodedP(e, i) \in Bytes
  <2>1. i # 0 => i - 1 \in 0 .. n
    OBVIOUS
  <2> QED BY <1>0, <1>1, <2>1
<1>3. DecodedByte(e, key, i) = Xor(DecodedP(e, i), MaskP(key, before, i))
  BY DEF DecodedByte
<1> HIDE DEF before
<1>4. MaskP(key, before, i) \in Bytes
  BY <1>2, MaskBytes
<1> QED BY <1>2, <1>3, <1>4, XorAssumption

(* A decoded packet carries the plain bytes.                                 *)
LEMMA DecodingCarries ==
  ASSUME NEW data \in Seq(Bytes), Len(data) <= PAYLOAD_SIZE,
         NEW header \in Seq(Bytes), Len(header) = HEADER_SIZE
  PROVE  /\ PlainFrom(data, header) \in Seq(Bytes) /\ Len(PlainFrom(data, header)) = Len(data)
         /\ Carries(Decoding(PacketOf(data), header).packet, PlainFrom(data, header), 0)
         /\ Decoding(PacketOf(data), header).ok
              = (DecodedByte(CodedOf(data, header), header[4], 0) = GetCheckSum(PlainFrom(data, header)))
<1> DEFINE plain == PlainFrom(data, header)
<1> HIDE DEF plain
<1>1. PICK n \in Nat : n = Len(data)
  OBVIOUS
<1>2. header[4] \in Bytes /\ header[5] \in Bytes
  <2>1. Len(header) = 5
    BY DEF HEADER_SIZE
  <2>2. 4 \in 1 .. Len(header) /\ 5 \in 1 .. Len(header)
    BY <2>1
  <2> QED BY <2>2
<1> DEFINE e == CodedOf(data, header)
<1>3. e \in [0 .. n -> Bytes]
  <2>1. \A i \in 1 .. n : data[i] \in Bytes
    BY <1>1
  <2> QED BY <1>1, <1>2, <2>1 DEF CodedOf
<1>4. plain \in Seq(Bytes) /\ Len(plain) = n
  <2>1. \A i \in 1 .. n : i \in 0 .. n
    OBVIOUS
  <2> HIDE DEF e
  <2>2. \A i \in 1 .. n : DecodedByte(e, header[4], i) \in Bytes
    BY <1>2, <1>3, <2>1, DecodedByteIsByte
  <2>3. plain = [i \in 1 .. n |-> DecodedByte(e, header[4], i)]
    BY <1>1 DEF PlainFrom, e, plain
  <2>4. plain \in [1 .. n -> Bytes]
    BY <2>2, <2>3
  <2> QED BY <2>4, AsFunction
<1> DEFINE p == PacketOf(data)
<1>5. Carries(p, data, 0)
  BY PacketCarries
<1> HIDE DEF p
<1>6. p.size = n /\ \A i \in 1 .. n : p.payload[i] = data[i]
  BY <1>1, <1>5 DEF Carries
<1>7. [i \in 0 .. p.size |-> IF i = 0 THEN header[5] ELSE p.payload[i]] = e
  BY <1>1, <1>6 DEF CodedOf
<1>8. [i \in 1 .. p.size |-> DecodedByte(e, header[4], i)] = plain
  <2> HIDE DEF e
  <2> QED BY <1>1, <1>6 DEF PlainFrom, e, plain
<1> HIDE DEF e
<1>9. Decoding(p, header) = [packet |-> Stored(p, 0, plain, n),
                             ok |-> DecodedByte(e, header[4], 0) = GetCheckSum(plain)]
  BY <1>6, <1>7, <1>8, Zenon DEF Decoding
<1>10. Carries(Stored(p, 0, plain, n), plain, 0)
  BY <1>1, <1>4, <1>5, StoredCarries
<1>11. /\ Decoding(p, header).packet = Stored(p, 0, plain, n)
       /\ Decoding(p, header).ok = (DecodedByte(e, header[4], 0) = GetCheckSum(plain))
  BY <1>9
<1> QED BY <1>1, <1>4, <1>10, <1>11 DEF p, e, plain

-----------------------------------------------------------------------------
(* A WORD in memory and the number it is.                                    *)
LEMMA WordOf ==
  ASSUME NEW n \in Words
  PROVE  WORD(n) \in Seq(Bytes) /\ Len(WORD(n)) = 2 /\ FromWORD(WORD(n)) = n
<1>1. n \in Nat /\ n < 256 * 256
  BY DEF Words, BYTE_VALUES
<1>2. PICK high \in Int : high = n \div 256
  BY <1>1
<1>3. PICK low \in Int : low = n % 256
  BY <1>1
<1>4. low \in 0 .. 255 /\ n = 256 * high + low
  BY <1>1, <1>2, <1>3
<1>5. high \in 0 .. 255
  BY <1>1, <1>4
<1>6. high % 256 = high
  BY <1>5
<1>7. WORD(n) = <<low, high>>
  BY <1>2, <1>3, <1>6 DEF WORD, BYTE_VALUES
<1>8. low \in Bytes /\ high \in Bytes
  BY <1>4, <1>5 DEF Bytes, BYTE_VALUES
<1>9. <<low, high>> \in Seq(Bytes) /\ Len(<<low, high>>) = 2
  BY <1>8
<1>10. FromWORD(<<low, high>>) = n
  BY <1>4, <1>5 DEF FromWORD, BYTE_VALUES
<1> QED BY <1>7, <1>9, <1>10

(* Two bytes as a WORD, and back.                                            *)
LEMMA OfWord ==
  ASSUME NEW w \in Seq(Bytes), Len(w) = 2
  PROVE  FromWORD(w) \in Words /\ WORD(FromWORD(w)) = w
<1>1. w[1] \in Bytes /\ w[2] \in Bytes
  <2>1. \A i \in 1 .. Len(w) : w[i] \in Bytes
    OBVIOUS
  <2>2. 1 \in 1 .. Len(w) /\ 2 \in 1 .. Len(w)
    OBVIOUS
  <2> QED BY <2>1, <2>2
<1>2. w = <<w[1], w[2]>>
  <2>1. <<w[1], w[2]>> \in Seq(Bytes)
    BY <1>1
  <2> QED BY <2>1, SameSequence
<1>3. PICK a \in Bytes, b \in Bytes : a = w[1] /\ b = w[2]
  BY <1>1
<1>0. a \in 0 .. 255 /\ b \in 0 .. 255
  BY DEF Bytes, BYTE_VALUES
<1>4. PICK n \in Nat : n = a + 256 * b
  BY <1>0
<1>5. n \in Words
  BY <1>0, <1>4 DEF Words, BYTE_VALUES
<1>6. n % 256 = a /\ n \div 256 = b /\ b % 256 = b
  BY <1>0, <1>4
<1>7. FromWORD(w) = n
  BY <1>3, <1>4 DEF FromWORD, BYTE_VALUES
<1>8. WORD(n) = <<a, b>>
  BY <1>6 DEF WORD, BYTE_VALUES
<1> QED BY <1>2, <1>3, <1>5, <1>7, <1>8

(* The length in a header of five bytes.                                     *)
LEMMA MiddleOf ==
  ASSUME NEW s \in Seq(Bytes), Len(s) = 5
  PROVE  /\ SubSeq(s, 2, 3) \in Seq(Bytes) /\ Len(SubSeq(s, 2, 3)) = 2
         /\ SubSeq(s, 2, 3)[1] = s[2] /\ SubSeq(s, 2, 3)[2] = s[3]
OBVIOUS

(* The bytes of a header. *)
LEMMA HeaderBytes ==
  ASSUME NEW n \in Words, NEW key \in Bytes, NEW sum \in Bytes
  PROVE  /\ Header(n, key, sum) \in Seq(Bytes) /\ Len(Header(n, key, sum)) = HEADER_SIZE
         /\ Header(n, key, sum)[4] = key /\ Header(n, key, sum)[5] = sum
         /\ HeaderLen(Header(n, key, sum)) = n
<1> DEFINE len == WORD(n)
           a == <<dfPACKET_CODE>>
           b == <<key, sum>>
           ab == a \o len
           h == Header(n, key, sum)
<1>0. len \in Seq(Bytes) /\ Len(len) = 2 /\ FromWORD(len) = n
  BY WordOf
<1>1. a \in Seq(Bytes) /\ Len(a) = 1
  BY PacketAssumption
<1>2. b \in Seq(Bytes) /\ Len(b) = 2 /\ b[1] = key /\ b[2] = sum
  OBVIOUS
<1>3. h = ab \o b
  BY DEF Header
<1> HIDE DEF a, b, h, len
<1>4. ab \in Seq(Bytes) /\ Len(ab) = 3 /\ \A i \in 1 .. 2 : ab[1 + i] = len[i]
  <2>1. /\ a \o len \in Seq(Bytes) /\ Len(a \o len) = Len(a) + Len(len)
        /\ \A i \in 1 .. Len(len) : (a \o len)[Len(a) + i] = len[i]
    BY <1>0, <1>1, Joined
  <2> QED BY <1>0, <1>1, <2>1
<1> HIDE DEF ab
<1>5. /\ h \in Seq(Bytes) /\ Len(h) = 5
      /\ \A i \in 1 .. 3 : h[i] = ab[i]
      /\ \A i \in 1 .. 2 : h[3 + i] = b[i]
  <2>1. /\ ab \o b \in Seq(Bytes) /\ Len(ab \o b) = Len(ab) + Len(b)
        /\ \A i \in 1 .. Len(ab) : (ab \o b)[i] = ab[i]
        /\ \A i \in 1 .. Len(b) : (ab \o b)[Len(ab) + i] = b[i]
    BY <1>2, <1>4, Joined
  <2> QED BY <1>2, <1>3, <1>4, <2>1
<1>6. h[4] = key /\ h[5] = sum
  <2>1. 1 \in 1 .. 2 /\ 2 \in 1 .. 2 /\ 3 + 1 = 4 /\ 3 + 2 = 5
    OBVIOUS
  <2> QED BY <1>2, <1>5, <2>1
<1>7. SubSeq(h, 2, 3) = len
  <2>1. SubSeq(h, 2, 3) \in Seq(Bytes) /\ Len(SubSeq(h, 2, 3)) = 2
    BY <1>5, MiddleOf
  <2>2. SubSeq(h, 2, 3)[1] = h[2] /\ SubSeq(h, 2, 3)[2] = h[3]
    BY <1>5, MiddleOf
  <2>3. h[2] = len[1] /\ h[3] = len[2]
    <3>1. 1 \in 1 .. 2 /\ 2 \in 1 .. 2 /\ 1 + 1 = 2 /\ 1 + 2 = 3 /\ 2 \in 1 .. 3 /\ 3 \in 1 .. 3
      OBVIOUS
    <3> QED BY <1>4, <1>5, <3>1
  <2>4. \A i \in 1 .. 2 : SubSeq(h, 2, 3)[i] = len[i]
    BY <2>2, <2>3
  <2> QED BY <1>0, <2>1, <2>4, SameSequence
<1>8. HeaderLen(h) = n
  BY <1>0, <1>7 DEF HeaderLen
<1> QED BY <1>5, <1>6, <1>8 DEF h, HEADER_SIZE

(* The bytes that travel: a header, and the coded bytes of the payload.       *)
LEMMA WireBytes ==
  ASSUME NEW s \in Seq(Bytes), Len(s) <= PAYLOAD_SIZE, NEW key \in Bytes,
         NEW e, e = Encoded(s, key, GetCheckSum(s)), NEW wire, wire = Wire(s, key)
  PROVE  /\ e \in [0 .. Len(s) -> Bytes]
         /\ wire \in Seq(Bytes) /\ Len(wire) = HEADER_SIZE + Len(s)
         /\ HeaderOf(wire) = Header(Len(s), key, e[0])
         /\ DataOf(wire) = [i \in 1 .. Len(s) |-> e[i]]
         /\ Header(Len(s), key, e[0]) \in Seq(Bytes)
         /\ Len(Header(Len(s), key, e[0])) = HEADER_SIZE
<1>1. PICK n \in Nat : n = Len(s)
  OBVIOUS
<1>2. GetCheckSum(s) \in Bytes
  BY CheckSumByte
<1>3. e \in [0 .. n -> Bytes]
  BY <1>1, <1>2, EncodedBytes
<1> DEFINE h == Header(n, key, e[0])
           d == [i \in 1 .. n |-> e[i]]
<1>4. h \in Seq(Bytes) /\ Len(h) = 5
  <2>1. n \in Words
    BY <1>1, SizeNat
  <2>2. e[0] \in Bytes
    BY <1>3
  <2> QED BY <2>1, <2>2, HeaderBytes DEF HEADER_SIZE
<1>5. d \in Seq(Bytes) /\ Len(d) = n
  <2>1. \A i \in 1 .. n : i \in 0 .. n
    OBVIOUS
  <2>2. d \in [1 .. n -> Bytes]
    BY <1>3, <2>1
  <2> HIDE DEF d
  <2> QED BY <2>2, AsFunction
<1>6. wire = h \o d
  BY <1>1 DEF Wire
<1> HIDE DEF h, d
<1>7. wire \in Seq(Bytes) /\ Len(wire) = 5 + n
  <2>1. h \o d \in Seq(Bytes) /\ Len(h \o d) = Len(h) + Len(d)
    BY <1>4, <1>5, Joined
  <2> QED BY <1>4, <1>5, <1>6, <2>1
<1>8. SubSeq(wire, 1, 5) = h /\ SubSeq(wire, 5 + 1, Len(wire)) = d
  BY <1>4, <1>5, <1>6, PartsOfJoined
<1> QED BY <1>1, <1>3, <1>4, <1>7, <1>8 DEF HeaderOf, DataOf, HEADER_SIZE, h, d

(***************************************************************************)
(* A decoder reads what was coded: every payload that fits a packet, coded    *)
(* with any random key, is decoded to itself, its checksum agrees and the      *)
(* header has its length (HeaderSettingAndEncoding, Encoding, Decoding).      *)
(***************************************************************************)
THEOREM DecodingUndoes ==
  ASSUME NEW s \in Seq(Bytes), Len(s) <= PAYLOAD_SIZE, NEW key \in Bytes
  PROVE  /\ Decodes(HeaderOf(Wire(s, key)), DataOf(Wire(s, key)), s)
         /\ PlainOf(Wire(s, key)) = s
         /\ HeaderLen(HeaderOf(Wire(s, key))) = Len(s)
<1>1. PICK n \in Nat : n = Len(s) /\ n \in Words
  BY SizeNat
<1> DEFINE e == Encoded(s, key, GetCheckSum(s))
           header == Header(n, key, e[0])
           data == [i \in 1 .. n |-> e[i]]
<1>2. /\ e \in [0 .. n -> Bytes]
      /\ HeaderOf(Wire(s, key)) = header /\ DataOf(Wire(s, key)) = data
      /\ header \in Seq(Bytes) /\ Len(header) = HEADER_SIZE
  BY <1>1, WireBytes
<1>3. data \in Seq(Bytes) /\ Len(data) = n
  <2>1. \A i \in 1 .. n : i \in 0 .. n
    OBVIOUS
  <2> HIDE DEF e
  <2>2. data \in [1 .. n -> Bytes]
    BY <1>2, <2>1
  <2> HIDE DEF data
  <2> QED BY <2>2, AsFunction
<1>4. GetCheckSum(s) \in Bytes
  BY CheckSumByte
<1>6. header[4] = key /\ header[5] = e[0] /\ HeaderLen(header) = n
  <2>1. e[0] \in Bytes
    BY <1>2
  <2> HIDE DEF e
  <2> QED BY <1>1, <2>1, HeaderBytes
<1>8. CodedOf(data, header) = e
  <2> HIDE DEF e, header
  <2>1. \A i \in 1 .. n : data[i] = e[i]
    OBVIOUS
  <2> HIDE DEF data
  <2>2. \A i \in 0 .. n : (IF i = 0 THEN header[5] ELSE data[i]) = e[i]
    BY <1>6, <2>1
  <2> QED BY <1>2, <1>3, <2>2 DEF CodedOf
<1> HIDE DEF header, data
<1>9. \A i \in 0 .. n : DecodedByte(e, key, i) = Plain(s, GetCheckSum(s), i)
  BY <1>1, <1>4, DecodedBytes
<1>10. PlainFrom(data, header) = s
  <2> HIDE DEF e
  <2>1. PlainFrom(data, header) = [i \in 1 .. n |-> DecodedByte(e, key, i)]
    BY <1>3, <1>6, <1>8 DEF PlainFrom
  <2>2. \A i \in 1 .. n : i \in 0 .. n /\ i # 0
    OBVIOUS
  <2>3. \A i \in 1 .. n : DecodedByte(e, key, i) = s[i]
    BY <1>9, <2>2 DEF Plain
  <2> QED BY <1>1, <2>1, <2>3
<1>11. /\ Carries(Decoding(PacketOf(data), header).packet, s, 0)
       /\ Decoding(PacketOf(data), header).ok = (DecodedByte(e, key, 0) = GetCheckSum(s))
  <2> HIDE DEF e
  <2> QED BY <1>1, <1>2, <1>3, <1>6, <1>8, <1>10, DecodingCarries
<1>12. Decoding(PacketOf(data), header).ok
  <2>1. DecodedByte(e, key, 0) = GetCheckSum(s)
    BY <1>9 DEF Plain
  <2> QED BY <1>11, <2>1
<1>13. Payload(Decoding(PacketOf(data), header).packet) = s
  BY <1>11, CarriesWhole
<1> HIDE DEF e
<1> QED BY <1>1, <1>2, <1>6, <1>12, <1>13, Zenon DEF Decodes, PlainOf

(* What is sent of a packet is the coded bytes of what it carries.            *)
LEMMA SentIsWire ==
  ASSUME NEW p, NEW s, Carries(p, s, 0), NEW key \in Bytes
  PROVE  Sent(p, key) = Wire(s, key)
<1>1. PICK n \in Nat : n = Len(s)
  BY CarriesWhole
<1>2. SubSeq(p.payload, 1, p.size) = s /\ n = p.size
  BY <1>1, CarriesWhole
<1> DEFINE wire == Wire(s, key)
           data == SubSeq(wire, HEADER_SIZE + 1, Len(wire))
           q == Stored(p, 0, data, n)
<1>3. ~p.encoded /\ s \in Seq(Bytes) /\ Len(s) <= PAYLOAD_SIZE
  BY DEF Carries
<1>4. HeaderSettingAndEncoding(p, key)
        = [q EXCEPT !.header = SubSeq(wire, 1, HEADER_SIZE), !.setHeader = TRUE, !.encoded = TRUE]
  BY <1>1, <1>2, <1>3 DEF HeaderSettingAndEncoding
<1>5. wire \in Seq(Bytes) /\ Len(wire) = HEADER_SIZE + n
  BY <1>1, <1>3, WireBytes
<1> HIDE DEF wire
<1>6. /\ data \in Seq(Bytes) /\ Len(data) = n
      /\ SubSeq(wire, 1, HEADER_SIZE) \o data = wire
  BY <1>1, <1>5, SliceTail DEF HEADER_SIZE
<1> HIDE DEF data
<1>7. Carries(q, data, 0)
  BY <1>1, <1>6, StoredCarries
<1> HIDE DEF q
<1>8. SubSeq(q.payload, 1, n) = data /\ q.size = n
  BY <1>6, <1>7, CarriesWhole
<1>9. /\ HeaderSettingAndEncoding(p, key).header = SubSeq(wire, 1, HEADER_SIZE)
      /\ HeaderSettingAndEncoding(p, key).payload = q.payload
      /\ HeaderSettingAndEncoding(p, key).size = q.size
  BY <1>4, <1>7 DEF Carries
<1> QED BY <1>6, <1>8, <1>9 DEF Sent, wire

-----------------------------------------------------------------------------
(* The handlers.  What was written into a packet by one operation after the     *)
(* other, or that one of them threw.                                         *)
LEMMA OutcomeAnswer ==
  ASSUME NEW c, NEW p, NEW what, Outcome(c, p, what).what = "answer"
  PROVE  /\ Outcome(c, p, what).client = c /\ Outcome(c, p, what).packet = p
         /\ what = "answer" /\ ~p.thrown
BY DEF Outcome

(* A value put behind the others, or an exception.                           *)
LEMMA PutNext ==
  ASSUME NEW p, NEW s, Thrown(p) \/ Carries(p, s, 0), NEW value \in Seq(Bytes)
  PROVE  Thrown(Put(p, value)) \/ Carries(Put(p, value), s \o value, 0)
<1>1. CASE Thrown(p)
  BY <1>1, ThrownStays
<1>2. CASE Carries(p, s, 0)
  <2>1. PICK len \in Nat, n \in Nat, size \in Nat :
          len = Len(s) /\ n = Len(value) /\ size = PAYLOAD_SIZE
    BY <1>2, SizeNat, CarriesWhole
  <2>2. Len(s) + Len(value) <= PAYLOAD_SIZE \/ Len(s) + Len(value) > PAYLOAD_SIZE
    BY <2>1
  <2> QED BY <1>2, <2>2, PutCarries
<1> QED BY <1>1, <1>2

(* A packet that has no room left. *)
Full(p) == \E s : Carries(p, s, 0) /\ Len(s) = PAYLOAD_SIZE

(* Data put behind the rest, unless there was no room for all of it.         *)
LEMMA PutDataNext ==
  ASSUME NEW p, NEW s, Thrown(p) \/ Full(p) \/ Carries(p, s, 0),
         NEW data \in Seq(Bytes), NEW n, n = Len(data)
  PROVE  \/ Thrown(PutData(p, data, n)) \/ Full(PutData(p, data, n))
         \/ Carries(PutData(p, data, n), s \o data, 0)
<1>0. n \in Nat /\ n <= Len(data)
  OBVIOUS
<1>1. CASE Thrown(p)
  BY <1>1, ThrownStays
<1>2. ASSUME NEW t, Carries(p, t, 0)
      PROVE  \/ Full(PutData(p, data, n))
             \/ (Carries(PutData(p, data, n), t \o data, 0) /\ (n = 0 \/ Len(t) < PAYLOAD_SIZE))
  <2>1. PICK m \in 0 .. n : /\ Carries(PutData(p, data, n), t \o SubSeq(data, 1, m), 0)
                            /\ Len(t) + m <= PAYLOAD_SIZE
                            /\ m = n \/ Len(t) + m = PAYLOAD_SIZE
    BY <1>0, <1>2, PutDataCarries
  <2>2. PICK len \in Nat, size \in Nat : len = Len(t) /\ size = PAYLOAD_SIZE /\ t \in Seq(Bytes)
    BY <1>2, SizeNat, CarriesWhole
  <2>3. CASE Len(t) + m = PAYLOAD_SIZE
    <3>1. SubSeq(data, 1, m) \in Seq(Bytes) /\ Len(SubSeq(data, 1, m)) = m
      BY <1>0, FrontOf
    <3>2. Len(t \o SubSeq(data, 1, m)) = PAYLOAD_SIZE
      BY <2>2, <2>3, <3>1, Joined
    <3> QED BY <2>1, <3>2 DEF Full
  <2>4. CASE m = n /\ Len(t) + m < PAYLOAD_SIZE
    <3>1. SubSeq(data, 1, m) = data
      BY <2>4, WholeOf
    <3>2. Len(t) < PAYLOAD_SIZE \/ n = 0
      BY <1>0, <2>2, <2>4
    <3> QED BY <2>1, <2>4, <3>1, <3>2
  <2>5. (m = n /\ Len(t) + m < PAYLOAD_SIZE) \/ Len(t) + m = PAYLOAD_SIZE
    BY <2>1, <2>2
  <2> QED BY <2>3, <2>4, <2>5
<1>3. CASE Full(p)
  <2>1. PICK t : Carries(p, t, 0) /\ Len(t) = PAYLOAD_SIZE
    BY <1>3 DEF Full
  <2>2. CASE Full(PutData(p, data, n))
    BY <2>2
  <2>3. CASE Carries(PutData(p, data, n), t \o data, 0) /\ n = 0
    <3>1. Len(t \o data) = PAYLOAD_SIZE
      <4>1. t \in Seq(Bytes)
        BY <2>1, CarriesWhole
      <4>2. Len(t \o data) = Len(t) + Len(data) /\ Len(t) \in Nat
        BY <4>1, Joined
      <4> QED BY <2>1, <2>3, <4>2
    <3> QED BY <2>3, <3>1 DEF Full
  <2>4. ~(Len(t) < PAYLOAD_SIZE)
    BY <2>1, SizeNat
  <2> QED BY <1>2, <2>1, <2>2, <2>3, <2>4
<1> QED BY <1>1, <1>2, <1>3

(* A value does not fit behind data that was cut short.                      *)
LEMMA PutAfterData ==
  ASSUME NEW p, NEW s, Thrown(p) \/ Full(p) \/ Carries(p, s, 0),
         NEW value \in Seq(Bytes), Len(value) > 0
  PROVE  Thrown(Put(p, value)) \/ Carries(Put(p, value), s \o value, 0)
<1>1. CASE Full(p)
  <2>1. PICK t : Carries(p, t, 0) /\ Len(t) = PAYLOAD_SIZE
    BY <1>1 DEF Full
  <2>2. Len(t) + Len(value) > PAYLOAD_SIZE
    BY <2>1, SizeNat
  <2> QED BY <2>1, <2>2, PutCarries
<1> QED BY <1>1, PutNext

(* The fields of a message.                                                  *)
LEMMA Field ==
  ASSUME NEW m \in Seq(Bytes), NEW at \in Nat, NEW n \in Nat, at + n <= Len(m)
  PROVE  SubSeq(m, at + 1, at + n) \in Seq(Bytes) /\ Len(SubSeq(m, at + 1, at + n)) = n
<1>1. at + n \in Nat /\ at <= at + n /\ (at + n) - at = n
  OBVIOUS
<1> QED BY <1>1, SliceOf

Reads(p, m, at, n) ==
    /\ Value(p, n) = SubSeq(m, at + 1, at + n) /\ Carries(Get(p, n), m, at + n)
    /\ Data(p, n) = SubSeq(m, at + 1, at + n) /\ Carries(GetData(p, n), m, at + n)

(* The next field of a message that is long enough.                          *)
LEMMA ReadFields ==
  ASSUME NEW p, NEW m, NEW at \in Nat, NEW n \in Nat, Carries(p, m, at), at + n <= Len(m)
  PROVE  Reads(p, m, at, n)
BY ValueCarries, ZenonT(60) DEF Reads

(* Two fields next to each other.                                            *)
LEMMA Adjacent ==
  ASSUME NEW m \in Seq(Bytes), NEW at \in Nat, NEW n \in Nat, NEW k \in Nat, at + n + k <= Len(m)
  PROVE  SubSeq(m, at + 1, at + n) \o SubSeq(m, at + n + 1, at + n + k) = SubSeq(m, at + 1, at + n + k)
<1>1. PICK i \in Nat, j \in Nat, l \in Nat : i = at + 1 /\ j = at + n /\ l = at + n + k
  OBVIOUS
<1>2. 1 <= i /\ i <= j + 1 /\ j <= l /\ l <= Len(m)
  BY <1>1
<1> QED BY <1>1, <1>2, SplitAt

(* Joining is associative.                                                   *)
LEMMA JoinAgain ==
  ASSUME NEW a \in Seq(Bytes), NEW b \in Seq(Bytes), NEW c \in Seq(Bytes)
  PROVE  (a \o b) \o c = a \o (b \o c)
OBVIOUS

(* The sizes of the fields are numbers.                                      *)
LEMMA SizesNat == /\ ACCOUNT_SIZE \in Nat /\ NAME_SIZE \in Nat /\ KEY_SIZE \in Nat
                  /\ 2 * NAME_SIZE = NAME_SIZE + NAME_SIZE
<1>1. ACCOUNT_SIZE \in Nat /\ NAME_SIZE \in Nat /\ KEY_SIZE \in Nat
  BY FieldAssumption
<1> QED BY <1>1

(* Zeros are bytes.                                                          *)
LEMMA ZerosOf == \A n \in Nat : Zeros(n) \in Seq(Bytes) /\ Len(Zeros(n)) = n
<1>1. 0 \in Bytes
  BY DEF Bytes, BYTE_VALUES
<1> QED BY <1>1 DEF Zeros

(* The clients, and what a handler makes of a request m.                      *)
ClientRecords ==
    {c \in [account : Seq(Bytes), id : Seq(Bytes), nick : Seq(Bytes), x : Words, y : Words] :
        Len(c.id) = NAME_SIZE /\ Len(c.nick) = NAME_SIZE}

(* Login answers with the account it read and keeps the names it read.       *)
LEMMA LoginAnswers ==
  ASSUME NEW c \in ClientRecords, NEW p, NEW m, Carries(p, m, 2),
         Login(c, p).what = "answer"
  PROVE  /\ Login(c, p).client \in ClientRecords
         /\ Login(c, p).client.id \o Login(c, p).client.nick = NamesOf(m)
         /\ Carries(Login(c, p).packet, WORD(RES_LOGIN) \o <<1>> \o AccountOf(m), 0)
<1> DEFINE id   == Get(p, ACCOUNT_SIZE)
           nick == GetData(id, NAME_SIZE)
           key  == GetData(nick, NAME_SIZE)
           new  == [c EXCEPT !.account = Value(p, ACCOUNT_SIZE),
                             !.id = Data(id, NAME_SIZE), !.nick = Data(nick, NAME_SIZE)]
           q    == MakeLogin(Clear(GetData(key, KEY_SIZE)), new.account)
<1>1. p.size = ACCOUNT_SIZE + 2 * NAME_SIZE + KEY_SIZE /\ Login(c, p) = Outcome(new, q, "answer")
  <2>1. p.size # ACCOUNT_SIZE + 2 * NAME_SIZE + KEY_SIZE => Login(c, p) = Outcome(c, p, "refused")
    BY DEF Login
  <2>2. Outcome(c, p, "refused").what # "answer"
    BY DEF Outcome
  <2> QED BY <2>1, <2>2 DEF Login
<1> HIDE DEF new, q
<1>2. Login(c, p).client = new /\ Login(c, p).packet = q /\ ~q.thrown
  BY <1>1, OutcomeAnswer
<1>3. PICK a \in Nat, n \in Nat, k \in Nat :
         /\ a = ACCOUNT_SIZE /\ n = NAME_SIZE /\ k = KEY_SIZE
         /\ 2 * NAME_SIZE = NAME_SIZE + NAME_SIZE
  BY SizesNat
<1>4. m \in Seq(Bytes) /\ Len(m) \in Nat /\ Len(m) = 2 + a + n + n + k
  <2>1. m \in Seq(Bytes) /\ p.size = Len(m) - 2
    BY DEF Carries
  <2>2. Len(m) \in Nat
    BY <2>1
  <2> QED BY <1>1, <1>3, <2>1, <2>2
<1>5. Value(p, a) = SubSeq(m, 2 + 1, 2 + a) /\ Carries(Get(p, a), m, 2 + a)
  <2>1. 2 + a <= Len(m)
    BY <1>4
  <2> QED BY <2>1, ReadFields DEF Reads
<1>6. Data(id, n) = SubSeq(m, (2 + a) + 1, (2 + a) + n) /\ Carries(GetData(id, n), m, (2 + a) + n)
  <2>1. (2 + a) + n <= Len(m) /\ Carries(id, m, 2 + a)
    BY <1>3, <1>4, <1>5
  <2> HIDE DEF id, nick, key
  <2> QED BY <2>1, ReadFields DEF Reads
<1>7. /\ Data(nick, n) = SubSeq(m, (2 + a + n) + 1, (2 + a + n) + n)
      /\ Carries(GetData(nick, n), m, (2 + a + n) + n)
  <2>1. (2 + a + n) + n <= Len(m) /\ Carries(nick, m, 2 + a + n)
    BY <1>3, <1>4, <1>6
  <2> HIDE DEF id, nick, key
  <2> QED BY <2>1, ReadFields DEF Reads
<1>8. Carries(Clear(GetData(key, k)), <<>>, 0)
  <2>1. (2 + a + n + n) + k <= Len(m) /\ Carries(key, m, 2 + a + n + n)
    BY <1>3, <1>4, <1>7
  <2>2. ASSUME NEW r, NEW at, Carries(r, m, at), at + n <= Len(m)
        PROVE  Data(r, n) = SubSeq(m, at + 1, at + n) /\ Carries(GetData(r, n), m, at + n)
    BY <2>2, ValueCarries
  <2> HIDE DEF id, nick, key
  <2> QED BY <2>1, ReadFields, ClearCarries DEF Reads
<1> HIDE DEF id, nick, key
<1>9. AccountOf(m) = Value(p, a) /\ AccountOf(m) \in Seq(Bytes)
  <2>1. AccountOf(m) = SubSeq(m, 2 + 1, 2 + a)
    BY <1>3 DEF AccountOf
  <2>2. 2 + a <= Len(m) /\ 2 \in Nat
    BY <1>4
  <2> QED BY <1>4, <1>5, <2>1, <2>2, Field
<1>10. /\ Data(id, n) \in Seq(Bytes) /\ Len(Data(id, n)) = n
       /\ Data(nick, n) \in Seq(Bytes) /\ Len(Data(nick, n)) = n
  <2>1. (2 + a) + n <= Len(m) /\ (2 + a + n) + n <= Len(m) /\ 2 + a \in Nat /\ 2 + a + n \in Nat
    BY <1>4
  <2> QED BY <1>4, <1>6, <1>7, <2>1, Field
<1>11. Data(id, n) \o Data(nick, n) = NamesOf(m)
  <2>1. /\ SubSeq(m, (2 + a) + 1, (2 + a) + n) \o SubSeq(m, (2 + a) + n + 1, (2 + a) + n + n)
             = SubSeq(m, (2 + a) + 1, (2 + a) + n + n)
    <3>1. (2 + a) + n + n <= Len(m) /\ 2 + a \in Nat
      BY <1>4
    <3> QED BY <1>4, <3>1, Adjacent
  <2>2. NamesOf(m) = SubSeq(m, (2 + a) + 1, (2 + a) + n + n)
    <3>1. 3 + a = (2 + a) + 1 /\ 2 + a + 2 * NAME_SIZE = (2 + a) + n + n
      BY <1>3
    <3> QED BY <1>3, <3>1 DEF NamesOf
  <2> QED BY <1>6, <1>7, <2>1, <2>2
<1>12. /\ new \in ClientRecords /\ new.id = Data(id, n) /\ new.nick = Data(nick, n)
       /\ new.account = AccountOf(m)
  BY <1>3, <1>9, <1>10 DEF ClientRecords, new
<1>13. Thrown(q) \/ Carries(q, WORD(RES_LOGIN) \o <<1>> \o AccountOf(m), 0)
  <2>1. PICK r : r = Clear(GetData(key, k))
    OBVIOUS
  <2>2. WORD(RES_LOGIN) \in Seq(Bytes) /\ <<1>> \in Seq(Bytes)
    <3>1. RES_LOGIN \in Words /\ 1 \in Bytes
      BY DEF Words, BYTE_VALUES, RES_LOGIN, Bytes
    <3> QED BY <3>1, WordOf
  <2>3. <<>> \o WORD(RES_LOGIN) = WORD(RES_LOGIN)
    BY <2>2, WholeOf
  <2>4. Thrown(Put(r, WORD(RES_LOGIN))) \/ Carries(Put(r, WORD(RES_LOGIN)), WORD(RES_LOGIN), 0)
    BY <1>8, <2>1, <2>2, <2>3, PutNext
  <2>5. \/ Thrown(Put(Put(r, WORD(RES_LOGIN)), <<1>>))
        \/ Carries(Put(Put(r, WORD(RES_LOGIN)), <<1>>), WORD(RES_LOGIN) \o <<1>>, 0)
    BY <2>2, <2>4, PutNext
  <2>6. \/ Thrown(Put(Put(Put(r, WORD(RES_LOGIN)), <<1>>), AccountOf(m)))
        \/ Carries(Put(Put(Put(r, WORD(RES_LOGIN)), <<1>>), AccountOf(m)),
                   WORD(RES_LOGIN) \o <<1>> \o AccountOf(m), 0)
    BY <1>9, <2>5, PutNext
  <2> QED BY <1>3, <1>12, <2>1, <2>6 DEF q, MakeLogin
<1>14. ~Thrown(q)
  BY <1>2 DEF Thrown
<1> QED BY <1>2, <1>11, <1>12, <1>13, <1>14

(* SectorMove answers with the account and the sectors of the request.       *)
LEMMA SectorMoveAnswers ==
  ASSUME NEW c \in ClientRecords, NEW p, NEW m, Carries(p, m, 2),
         SectorMove(c, p).what = "answer"
  PROVE  /\ SectorMove(c, p).client \in ClientRecords
         /\ SectorMove(c, p).client.id \o SectorMove(c, p).client.nick = c.id \o c.nick
         /\ Carries(SectorMove(c, p).packet, WORD(RES_SECTOR_MOVE) \o SubSeq(m, 3, Len(m)), 0)
<1> DEFINE x   == Get(p, ACCOUNT_SIZE)
           y   == Get(x, 2)
           new == [c EXCEPT !.x = FromWORD(Value(x, 2)), !.y = FromWORD(Value(y, 2))]
           q   == MakeSectorMove(Clear(Get(y, 2)), c.account, new.x, new.y)
<1>1. /\ p.size = ACCOUNT_SIZE + 4 /\ Value(p, ACCOUNT_SIZE) = c.account
      /\ SectorMove(c, p) = Outcome(new, q, "answer")
  <2>1. Outcome(c, p, "refused").what # "answer" /\ Outcome(new, Get(y, 2), "crash").what # "answer"
    BY DEF Outcome
  <2> HIDE DEF x, y, new, q
  <2>2. \/ SectorMove(c, p) = Outcome(c, p, "refused")
        \/ SectorMove(c, p) = Outcome(new, Get(y, 2), "crash")
        \/ /\ p.size = ACCOUNT_SIZE + 4 /\ Value(p, ACCOUNT_SIZE) = c.account
           /\ SectorMove(c, p) = Outcome(new, q, "answer")
    BY Zenon DEF SectorMove, x, y, new, q
  <2> QED BY <2>1, <2>2
<1> HIDE DEF new, q
<1>2. SectorMove(c, p).client = new /\ SectorMove(c, p).packet = q /\ ~q.thrown
  BY <1>1, OutcomeAnswer
<1>3. PICK a \in Nat : a = ACCOUNT_SIZE
  BY SizesNat
<1>4. m \in Seq(Bytes) /\ Len(m) \in Nat /\ Len(m) = 2 + a + 2 + 2
  <2>1. m \in Seq(Bytes) /\ p.size = Len(m) - 2
    BY DEF Carries
  <2>2. Len(m) \in Nat
    BY <2>1
  <2> QED BY <1>1, <1>3, <2>1, <2>2
<1>5. Value(p, a) = SubSeq(m, 2 + 1, 2 + a) /\ Carries(Get(p, a), m, 2 + a)
  <2>1. 2 + a <= Len(m)
    BY <1>4
  <2> QED BY <2>1, ReadFields DEF Reads
<1>6. /\ Value(x, 2) = SubSeq(m, (2 + a) + 1, (2 + a) + 2)
      /\ Carries(Get(x, 2), m, (2 + a) + 2)
  <2>1. PICK at \in Nat : at = 2 + a
    OBVIOUS
  <2>2. at + 2 <= Len(m) /\ Carries(x, m, at) /\ 2 \in Nat
    BY <1>3, <1>4, <1>5, <2>1
  <2> HIDE DEF x, y
  <2>3. Reads(x, m, at, 2)
    BY <2>2, ReadFields
  <2> QED BY <2>1, <2>3 DEF Reads
<1>7. /\ Value(y, 2) = SubSeq(m, (2 + a + 2) + 1, (2 + a + 2) + 2)
      /\ Carries(Get(y, 2), m, (2 + a + 2) + 2)
  <2>1. PICK at \in Nat : at = 2 + a + 2
    OBVIOUS
  <2>2. at + 2 <= Len(m) /\ Carries(y, m, at) /\ 2 \in Nat
    BY <1>3, <1>4, <1>6, <2>1
  <2> HIDE DEF x, y
  <2>3. Reads(y, m, at, 2)
    BY <2>2, ReadFields
  <2> QED BY <2>1, <2>3 DEF Reads
<1>8. Carries(Clear(Get(y, 2)), <<>>, 0)
  BY <1>7, ClearCarries
<1> HIDE DEF x, y
<1>9. /\ c.account = SubSeq(m, 2 + 1, 2 + a) /\ c.account \in Seq(Bytes)
      /\ Value(x, 2) \in Seq(Bytes) /\ Len(Value(x, 2)) = 2
      /\ Value(y, 2) \in Seq(Bytes) /\ Len(Value(y, 2)) = 2
  <2>1. PICK i \in Nat, j \in Nat : i = 2 + a /\ j = 2 + a + 2
    OBVIOUS
  <2>2. 2 + a <= Len(m) /\ i + 2 <= Len(m) /\ j + 2 <= Len(m) /\ 2 \in Nat
    BY <1>4, <2>1
  <2>3. SubSeq(m, 2 + 1, 2 + a) \in Seq(Bytes)
    BY <1>4, <2>2, Field
  <2>4. SubSeq(m, i + 1, i + 2) \in Seq(Bytes) /\ Len(SubSeq(m, i + 1, i + 2)) = 2
    BY <1>4, <2>2, Field
  <2>5. SubSeq(m, j + 1, j + 2) \in Seq(Bytes) /\ Len(SubSeq(m, j + 1, j + 2)) = 2
    BY <1>4, <2>2, Field
  <2> QED BY <1>1, <1>3, <1>5, <1>6, <1>7, <2>1, <2>3, <2>4, <2>5
<1>10. /\ FromWORD(Value(x, 2)) \in Words /\ WORD(FromWORD(Value(x, 2))) = Value(x, 2)
       /\ FromWORD(Value(y, 2)) \in Words /\ WORD(FromWORD(Value(y, 2))) = Value(y, 2)
  BY <1>9, OfWord
<1>11. /\ new \in ClientRecords /\ new.id = c.id /\ new.nick = c.nick
       /\ WORD(new.x) = Value(x, 2) /\ WORD(new.y) = Value(y, 2)
  BY <1>10 DEF ClientRecords, new
<1>12. c.account \o Value(x, 2) \o Value(y, 2) = SubSeq(m, 3, Len(m))
  <2>1. SubSeq(m, 2 + 1, 2 + a) \o SubSeq(m, 2 + a + 1, 2 + a + 2) = SubSeq(m, 2 + 1, 2 + a + 2)
    <3>1. 2 + a + 2 <= Len(m)
      BY <1>4
    <3> QED BY <1>4, <3>1, Adjacent
  <2>2. /\ SubSeq(m, 2 + 1, 2 + (a + 2)) \o SubSeq(m, 2 + (a + 2) + 1, 2 + (a + 2) + 2)
             = SubSeq(m, 2 + 1, 2 + (a + 2) + 2)
    <3>1. 2 + (a + 2) + 2 <= Len(m) /\ a + 2 \in Nat
      BY <1>4
    <3> QED BY <1>4, <3>1, Adjacent
  <2>3. 2 + (a + 2) = 2 + a + 2 /\ 2 + a + 2 + 2 = Len(m) /\ 2 + 1 = 3
    BY <1>4
  <2> QED BY <1>6, <1>7, <1>9, <2>1, <2>2, <2>3
<1>13. Thrown(q) \/ Carries(q, WORD(RES_SECTOR_MOVE) \o c.account \o Value(x, 2) \o Value(y, 2), 0)
  <2>1. PICK r : r = Clear(Get(y, 2))
    OBVIOUS
  <2>2. WORD(RES_SECTOR_MOVE) \in Seq(Bytes)
    <3>1. RES_SECTOR_MOVE \in Words
      BY DEF Words, BYTE_VALUES, RES_SECTOR_MOVE
    <3> QED BY <3>1, WordOf
  <2>3. <<>> \o WORD(RES_SECTOR_MOVE) = WORD(RES_SECTOR_MOVE)
    BY <2>2, WholeOf
  <2> DEFINE r1 == Put(r, WORD(RES_SECTOR_MOVE))
             r2 == Put(r1, c.account)
             r3 == Put(r2, Value(x, 2))
             r4 == Put(r3, Value(y, 2))
  <2>4. Thrown(r1) \/ Carries(r1, WORD(RES_SECTOR_MOVE), 0)
    BY <1>8, <2>1, <2>2, <2>3, PutNext
  <2>5. Thrown(r2) \/ Carries(r2, WORD(RES_SECTOR_MOVE) \o c.account, 0)
    <3> HIDE DEF r1
    <3> QED BY <1>9, <2>4, PutNext
  <2>6. Thrown(r3) \/ Carries(r3, WORD(RES_SECTOR_MOVE) \o c.account \o Value(x, 2), 0)
    <3> HIDE DEF r2
    <3> QED BY <1>9, <2>5, PutNext
  <2>7. Thrown(r4) \/ Carries(r4, WORD(RES_SECTOR_MOVE) \o c.account \o Value(x, 2) \o Value(y, 2), 0)
    <3> HIDE DEF r3
    <3> QED BY <1>9, <2>6, PutNext
  <2>8. q = r4
    BY <1>11, <2>1 DEF q, MakeSectorMove
  <2> HIDE DEF r4
  <2> QED BY <2>7, <2>8
<1>14. ~Thrown(q)
  BY <1>2 DEF Thrown
<1>15. WORD(RES_SECTOR_MOVE) \o c.account \o Value(x, 2) \o Value(y, 2)
         = WORD(RES_SECTOR_MOVE) \o (c.account \o Value(x, 2) \o Value(y, 2))
  <2>1. WORD(RES_SECTOR_MOVE) \in Seq(Bytes)
    <3>1. RES_SECTOR_MOVE \in Words
      BY DEF Words, BYTE_VALUES, RES_SECTOR_MOVE
    <3> QED BY <3>1, WordOf
  <2>2. c.account \o Value(x, 2) \in Seq(Bytes)
    BY <1>9, Joined
  <2>3. /\ (WORD(RES_SECTOR_MOVE) \o c.account) \o Value(x, 2)
             = WORD(RES_SECTOR_MOVE) \o (c.account \o Value(x, 2))
    BY <1>9, <2>1, JoinAgain
  <2>4. /\ (WORD(RES_SECTOR_MOVE) \o (c.account \o Value(x, 2))) \o Value(y, 2)
             = WORD(RES_SECTOR_MOVE) \o ((c.account \o Value(x, 2)) \o Value(y, 2))
    BY <1>9, <2>1, <2>2, JoinAgain
  <2> QED BY <2>3, <2>4, Zenon
<1> QED BY <1>2, <1>11, <1>12, <1>13, <1>14, <1>15, Zenon

(* As much of data is behind s as fits. *)
PutsSome(p, s, data, n) ==
    \E m \in 0 .. n : /\ Carries(p, s \o SubSeq(data, 1, m), 0)
                      /\ Len(s) + m <= PAYLOAD_SIZE
                      /\ m = n \/ Len(s) + m = PAYLOAD_SIZE

(* PutData in these terms.                                                   *)
LEMMA PutDataSome ==
  ASSUME NEW p, NEW s, Carries(p, s, 0), NEW data \in Seq(Bytes), NEW n \in Nat, n <= Len(data)
  PROVE  PutsSome(PutData(p, data, n), s, data, n)
BY PutDataCarries DEF PutsSome

(* A sequence that begins with another, and goes on with the front of a third. *)
LEMMA PrefixOf ==
  ASSUME NEW a \in Seq(Bytes), NEW b \in Seq(Bytes), NEW k \in Nat, k <= Len(b)
  PROVE  SubSeq(a \o b, 1, Len(a) + k) = a \o SubSeq(b, 1, k)
<1>1. PICK n \in Nat, l \in Nat : n = Len(a) /\ l = Len(b)
  OBVIOUS
<1>2. /\ a \o b \in Seq(Bytes) /\ Len(a \o b) = n + l
      /\ \A i \in 1 .. n : (a \o b)[i] = a[i]
      /\ \A i \in 1 .. l : (a \o b)[n + i] = b[i]
  BY <1>1, Joined
<1> DEFINE ab == a \o b
           f  == SubSeq(b, 1, k)
<1>3. f \in Seq(Bytes) /\ Len(f) = k /\ \A i \in 1 .. k : f[i] = b[i]
  BY FrontOf
<1> HIDE DEF ab, f
<1>4. n + k <= Len(ab) /\ n + k \in Nat /\ ab \in Seq(Bytes)
  BY <1>1, <1>2 DEF ab
<1>5. /\ SubSeq(ab, 1, n + k) \in Seq(Bytes) /\ Len(SubSeq(ab, 1, n + k)) = n + k
      /\ \A i \in 1 .. n + k : SubSeq(ab, 1, n + k)[i] = ab[i]
  BY <1>4, FrontOf
<1>6. /\ a \o f \in Seq(Bytes) /\ Len(a \o f) = n + k
      /\ \A i \in 1 .. n : (a \o f)[i] = a[i]
      /\ \A i \in 1 .. k : (a \o f)[n + i] = f[i]
  BY <1>1, <1>3, Joined
<1>7. ASSUME NEW i \in 1 .. n + k PROVE SubSeq(ab, 1, n + k)[i] = (a \o f)[i]
  <2>1. CASE i <= n
    <3>1. i \in 1 .. n
      BY <2>1
    <3> QED BY <1>2, <1>5, <1>6, <3>1 DEF ab
  <2>2. CASE i > n
    <3>1. PICK j \in 1 .. k : i = n + j
      <4>1. i - n \in 1 .. k /\ i = n + (i - n)
        BY <2>2
      <4> QED BY <4>1
    <3>2. j \in 1 .. l
      BY <1>1, <3>1
    <3>3. SubSeq(ab, 1, n + k)[i] = ab[i] /\ ab[n + j] = b[j] /\ f[j] = b[j] /\ (a \o f)[n + j] = f[j]
      BY <1>2, <1>3, <1>5, <1>6, <3>1, <3>2 DEF ab
    <3> QED BY <3>1, <3>3
  <2>3. i <= n \/ i > n
    <3>1. i \in Int /\ n \in Int
      OBVIOUS
    <3> QED BY <3>1
  <2> QED BY <2>1, <2>2, <2>3
<1>8. SubSeq(ab, 1, n + k) = a \o f
  BY <1>4, <1>5, <1>6, <1>7, SameSequence
<1> QED BY <1>1, <1>8 DEF ab, f

(* The names of an answer are whole, or the length behind them threw.          *)
LEMMA NamesWhole ==
  ASSUME NEW q, Carries(q, <<>>, 0), NEW account \in Seq(Bytes),
         NEW id \in Seq(Bytes), Len(id) = NAME_SIZE, NEW nick \in Seq(Bytes), Len(nick) = NAME_SIZE,
         NEW len \in Words,
         NEW r, r = Put(PutData(PutData(Put(Put(q, WORD(RES_MESSAGE)), account), id, NAME_SIZE),
                                nick, NAME_SIZE), WORD(len))
  PROVE  Thrown(r) \/ Carries(r, WORD(RES_MESSAGE) \o account \o (id \o nick) \o WORD(len), 0)
<1> DEFINE type == WORD(RES_MESSAGE)
           r1 == Put(q, type)
           r2 == Put(r1, account)
           r3 == PutData(r2, id, NAME_SIZE)
           r4 == PutData(r3, nick, NAME_SIZE)
<1>1. type \in Seq(Bytes)
  <2>1. RES_MESSAGE \in Words
    BY DEF Words, BYTE_VALUES, RES_MESSAGE
  <2> QED BY <2>1, WordOf
<1>2. WORD(len) \in Seq(Bytes) /\ Len(WORD(len)) > 0
  <2>1. WORD(len) \in Seq(Bytes) /\ Len(WORD(len)) = 2
    BY WordOf, Zenon
  <2> QED BY <2>1
<1>3. r = Put(r4, WORD(len))
  OBVIOUS
<1> HIDE DEF type
<1>4. Thrown(r1) \/ Carries(r1, type, 0)
  <2>1. <<>> \o type = type
    BY <1>1, WholeOf
  <2> QED BY <1>1, <2>1, PutNext
<1>5. Thrown(r2) \/ Carries(r2, type \o account, 0)
  <2> HIDE DEF r1
  <2> QED BY <1>4, PutNext
<1>6. Thrown(r3) \/ Full(r3) \/ Carries(r3, type \o account \o id, 0)
  <2> HIDE DEF r2
  <2> QED BY <1>5, PutDataNext
<1>7. Thrown(r4) \/ Full(r4) \/ Carries(r4, type \o account \o id \o nick, 0)
  <2> HIDE DEF r3
  <2> QED BY <1>6, PutDataNext
<1>8. Thrown(r) \/ Carries(r, type \o account \o id \o nick \o WORD(len), 0)
  <2> HIDE DEF r4
  <2> QED BY <1>2, <1>3, <1>7, PutAfterData
<1>9. type \o account \o id \o nick = type \o account \o (id \o nick)
  <2>1. type \o account \in Seq(Bytes)
    BY <1>1, Joined
  <2> QED BY <2>1, JoinAgain
<1> QED BY <1>8, <1>9 DEF type

ChatHead(m, names) == WORD(RES_MESSAGE) \o AccountOf(m) \o names \o LengthOf(m)
ChatText(m) == IF Len(TextOf(m)) <= RoomForText THEN TextOf(m) ELSE <<>>

\* the answer s begins with this
Begins(s, front) == SubSeq(s, 1, Len(front)) = front

(* Chat answers with the client's names and the text, as far as there is room. *)
LEMMA ChatAnswers ==
  ASSUME NEW c \in ClientRecords, NEW p, NEW m, Carries(p, m, 2), Chat(c, p).what = "answer"
  PROVE  /\ Chat(c, p).client = c
         /\ \E s : /\ Carries(Chat(c, p).packet, s, 0)
                   /\ Begins(s, ChatHead(m, c.id \o c.nick) \o ChatText(m))
<1> DEFINE head == ChatHead(m, c.id \o c.nick)
           text == ChatText(m)
<1>0. /\ head = WORD(RES_MESSAGE) \o AccountOf(m) \o (c.id \o c.nick) \o LengthOf(m)
      /\ text = IF Len(TextOf(m)) <= RoomForText THEN TextOf(m) ELSE <<>>
  BY DEF ChatHead, ChatText
<1> HIDE DEF head, text
<1> DEFINE len        == Get(p, ACCOUNT_SIZE)
           rest       == Get(len, 2)
           messageLen == FromWORD(Value(len, 2))
           message    == Data(rest, messageLen)
           q          == MakeMessage(Clear(GetData(rest, messageLen)), c.account, c.id, c.nick,
                                     messageLen, message)
<1>1. /\ p.size >= ACCOUNT_SIZE + 2 /\ Value(p, ACCOUNT_SIZE) = c.account /\ ~(rest.size < messageLen)
      /\ Chat(c, p) = Outcome(c, q, "answer")
  <2>1. Outcome(c, p, "refused").what # "answer" /\ Outcome(c, p, "crash").what # "answer"
    BY DEF Outcome
  <2>2. /\ ~(p.size < ACCOUNT_SIZE + 2) /\ Value(p, ACCOUNT_SIZE) = c.account
        /\ ~(rest.size < messageLen) /\ Chat(c, p) = Outcome(c, q, "answer")
    <3> HIDE DEF len, rest, messageLen, message, q
    <3>1. \/ Chat(c, p) = Outcome(c, p, "refused")
          \/ Chat(c, p) = Outcome(c, p, "crash")
          \/ /\ ~(p.size < ACCOUNT_SIZE + 2) /\ Value(p, ACCOUNT_SIZE) = c.account
             /\ ~(rest.size < messageLen) /\ Chat(c, p) = Outcome(c, q, "answer")
      BY Zenon DEF Chat, len, rest, messageLen, message, q
    <3> QED BY <2>1, <3>1
  <2>3. p.size \in Nat /\ ACCOUNT_SIZE \in Nat
    BY SizesNat DEF Carries
  <2> QED BY <2>2, <2>3
<1> HIDE DEF q
<1>2. Chat(c, p).client = c /\ Chat(c, p).packet = q /\ ~q.thrown
  BY <1>1, OutcomeAnswer
<1>3. PICK a \in Nat, n \in Nat, size \in Nat :
         a = ACCOUNT_SIZE /\ n = NAME_SIZE /\ 2 * NAME_SIZE = n + n /\ size = PAYLOAD_SIZE
  BY SizesNat, SizeNat
<1>4. m \in Seq(Bytes) /\ Len(m) \in Nat /\ Len(m) >= 2 + a + 2
  <2>1. m \in Seq(Bytes) /\ p.size = Len(m) - 2
    BY DEF Carries
  <2>2. Len(m) \in Nat
    BY <2>1
  <2> QED BY <1>1, <1>3, <2>1, <2>2
<1>5. Value(p, a) = SubSeq(m, 2 + 1, 2 + a) /\ Carries(len, m, 2 + a)
  <2>1. 2 + a <= Len(m)
    BY <1>4
  <2> QED BY <1>3, <2>1, ReadFields DEF Reads
<1>6. PICK at \in Nat : at = 2 + a
  OBVIOUS
<1>7. /\ Value(len, 2) = SubSeq(m, at + 1, at + 2) /\ Carries(rest, m, at + 2)
      /\ Value(len, 2) \in Seq(Bytes) /\ Len(Value(len, 2)) = 2
  <2>1. at + 2 <= Len(m) /\ Carries(len, m, at) /\ 2 \in Nat
    BY <1>4, <1>5, <1>6
  <2> HIDE DEF len
  <2>2. Reads(len, m, at, 2)
    BY <2>1, ReadFields
  <2>3. SubSeq(m, at + 1, at + 2) \in Seq(Bytes) /\ Len(SubSeq(m, at + 1, at + 2)) = 2
    BY <1>4, <2>1, Field
  <2> QED BY <2>2, <2>3 DEF Reads
<1>8. messageLen \in Words /\ messageLen \in Nat /\ WORD(messageLen) = Value(len, 2)
  <2> HIDE DEF len
  <2> QED BY <1>7, OfWord DEF Words
<1>9. LengthOf(m) = Value(len, 2) /\ AccountOf(m) = c.account /\ c.account \in Seq(Bytes)
  <2>1. 3 + a = at + 1 /\ 4 + a = at + 2 /\ 2 + 1 = 3
    BY <1>6
  <2>2. LengthOf(m) = SubSeq(m, at + 1, at + 2)
    BY <1>3, <2>1 DEF LengthOf
  <2>3. AccountOf(m) = SubSeq(m, 2 + 1, 2 + a)
    BY <1>3, <2>1 DEF AccountOf
  <2>4. 2 + a <= Len(m) /\ 2 \in Nat
    BY <1>4
  <2>5. SubSeq(m, 2 + 1, 2 + a) \in Seq(Bytes)
    BY <1>4, <2>4, Field
  <2> QED BY <1>1, <1>3, <1>5, <1>7, <2>2, <2>3, <2>5
<1> HIDE DEF messageLen
<1>10. /\ message = TextOf(m) /\ message \in Seq(Bytes) /\ Len(message) = messageLen
       /\ Carries(Clear(GetData(rest, messageLen)), <<>>, 0)
  <2>1. PICK behind \in Nat : behind = at + 2
    OBVIOUS
  <2>2. behind + messageLen <= Len(m) /\ Carries(rest, m, behind)
    <3>1. rest.size = Len(m) - behind
      BY <1>7, <2>1 DEF Carries
    <3> QED BY <1>1, <1>4, <1>7, <1>8, <2>1, <3>1
  <2> HIDE DEF rest, len
  <2>3. Reads(rest, m, behind, messageLen)
    BY <1>8, <2>2, ReadFields
  <2>4. /\ SubSeq(m, behind + 1, behind + messageLen) \in Seq(Bytes)
        /\ Len(SubSeq(m, behind + 1, behind + messageLen)) = messageLen
    BY <1>4, <1>8, <2>2, Field
  <2>5. TextOf(m) = SubSeq(m, behind + 1, behind + messageLen)
    <3>1. 5 + a = behind + 1 /\ 4 + a + messageLen = behind + messageLen
      BY <1>6, <1>8, <2>1
    <3>2. FromWORD(LengthOf(m)) = messageLen
      BY <1>9 DEF messageLen
    <3> QED BY <1>3, <3>1, <3>2 DEF TextOf
  <2> QED BY <2>3, <2>4, <2>5, ClearCarries DEF Reads
<1> HIDE DEF message, rest, len
<1> DEFINE names == PutData(PutData(Put(Put(Clear(GetData(rest, messageLen)), WORD(RES_MESSAGE)),
                                        c.account), c.id, NAME_SIZE), c.nick, NAME_SIZE)
           behind == Put(names, WORD(messageLen))
           data == message \o Zeros(messageLen)
<1>11. q = PutData(behind, data, messageLen * 2)
  BY DEF q, MakeMessage
<1>12. /\ c.id \in Seq(Bytes) /\ Len(c.id) = NAME_SIZE
       /\ c.nick \in Seq(Bytes) /\ Len(c.nick) = NAME_SIZE
  BY DEF ClientRecords
<1>13. Thrown(behind) \/ Carries(behind, head, 0)
  <2>1. head = WORD(RES_MESSAGE) \o c.account \o (c.id \o c.nick) \o WORD(messageLen)
    BY <1>0, <1>8, <1>9
  <2> QED BY <1>8, <1>9, <1>10, <1>12, <2>1, NamesWhole
<1> HIDE DEF behind
<1>14. data \in Seq(Bytes) /\ messageLen * 2 = Len(data)
       /\ SubSeq(data, 1, messageLen) = message
  <2>1. Zeros(messageLen) \in Seq(Bytes) /\ Len(Zeros(messageLen)) = messageLen
    BY <1>8, ZerosOf
  <2>2. data \in Seq(Bytes) /\ Len(data) = messageLen + messageLen
    <3>1. /\ message \o Zeros(messageLen) \in Seq(Bytes)
          /\ Len(message \o Zeros(messageLen)) = Len(message) + Len(Zeros(messageLen))
      BY <1>10, <2>1, Joined, Zenon
    <3> QED BY <1>10, <2>1, <3>1
  <2>3. SubSeq(data, 1, Len(message)) = message
    BY <1>10, <2>1, PartsOfJoined
  <2> QED BY <1>8, <1>10, <2>2, <2>3
<1> HIDE DEF data
<1>15. ~Thrown(q)
  BY <1>2 DEF Thrown
<1>16. ~Thrown(behind)
  BY <1>11, <1>15, ThrownStays
<1>17. Carries(behind, head, 0)
  BY <1>13, <1>16
<1>18. PICK k \in 0 .. messageLen * 2 :
          /\ Carries(q, head \o SubSeq(data, 1, k), 0)
          /\ Len(head) + k <= PAYLOAD_SIZE
          /\ k = messageLen * 2 \/ Len(head) + k = PAYLOAD_SIZE
  <2>1. PICK i \in Nat : i = messageLen * 2 /\ i <= Len(data)
    <3>1. messageLen * 2 \in Nat /\ messageLen * 2 <= Len(data)
      BY <1>8, <1>14
    <3> QED BY <3>1
  <2>0. i <= Len(data) /\ data \in Seq(Bytes)
    BY <1>14, <2>1
  <2>2. PutsSome(PutData(behind, data, i), head, data, i)
    BY <1>17, <2>0, PutDataSome
  <2> QED BY <1>11, <2>1, <2>2, Zenon DEF PutsSome
<1>19. head \in Seq(Bytes) /\ Len(head) = 4 + a + n + n
  <2>1. head \in Seq(Bytes)
    BY <1>17, CarriesWhole
  <2>2. WORD(RES_MESSAGE) \in Seq(Bytes) /\ Len(WORD(RES_MESSAGE)) = 2
    <3>1. RES_MESSAGE \in Words
      BY DEF Words, BYTE_VALUES, RES_MESSAGE
    <3> QED BY <3>1, WordOf, Zenon
  <2>3. /\ WORD(RES_MESSAGE) \o c.account \in Seq(Bytes)
        /\ Len(WORD(RES_MESSAGE) \o c.account) = 2 + a
    <3>1. Len(c.account) = a
      <4>1. 2 + a <= Len(m) /\ 2 \in Nat
        BY <1>4
      <4>2. Len(SubSeq(m, 2 + 1, 2 + a)) = a
        BY <1>4, <4>1, Field
      <4> QED BY <1>1, <1>3, <1>5, <4>2
    <3>2. /\ WORD(RES_MESSAGE) \o c.account \in Seq(Bytes)
          /\ Len(WORD(RES_MESSAGE) \o c.account) = Len(WORD(RES_MESSAGE)) + Len(c.account)
      BY <1>9, <2>2, Joined, Zenon
    <3> QED BY <2>2, <3>1, <3>2
  <2>4. c.id \o c.nick \in Seq(Bytes) /\ Len(c.id \o c.nick) = n + n
    BY <1>3, <1>12, Joined
  <2>5. /\ WORD(RES_MESSAGE) \o c.account \o (c.id \o c.nick) \in Seq(Bytes)
        /\ Len(WORD(RES_MESSAGE) \o c.account \o (c.id \o c.nick)) = 2 + a + (n + n)
    BY <2>3, <2>4, Joined
  <2> DEFINE front == WORD(RES_MESSAGE) \o c.account \o (c.id \o c.nick)
  <2>6. head = front \o LengthOf(m) /\ front \in Seq(Bytes) /\ Len(front) = 2 + a + (n + n)
    BY <1>0, <1>9, <2>5
  <2>7. LengthOf(m) \in Seq(Bytes) /\ Len(LengthOf(m)) = 2
    BY <1>7, <1>9
  <2> HIDE DEF front
  <2>8. Len(front \o LengthOf(m)) = Len(front) + Len(LengthOf(m))
    BY <2>6, <2>7, Joined, Zenon
  <2>9. Len(head) = 2 + a + (n + n) + 2
    BY <2>6, <2>7, <2>8
  <2> QED BY <2>1, <2>9
<1>20. SubSeq(head \o SubSeq(data, 1, k), 1, Len(head \o text)) = head \o text
  <2>1. SubSeq(data, 1, k) \in Seq(Bytes) /\ Len(SubSeq(data, 1, k)) = k
    BY <1>8, <1>14, FrontOf
  <2>2. CASE Len(TextOf(m)) <= RoomForText
    <3>1. text = message /\ messageLen <= RoomForText
      BY <1>0, <1>10, <2>2
    <3>2. RoomForText = size - Len(head)
      BY <1>3, <1>19 DEF RoomForText
    <3>3. messageLen <= k
      BY <1>3, <1>8, <1>18, <1>19, <3>1, <3>2
    <3>4. SubSeq(SubSeq(data, 1, k), 1, messageLen) = SubSeq(data, 1, messageLen)
      BY <1>8, <1>14, <3>3
    <3>5. SubSeq(head \o SubSeq(data, 1, k), 1, Len(head) + messageLen)
            = head \o SubSeq(SubSeq(data, 1, k), 1, messageLen)
      BY <1>8, <1>19, <2>1, <3>3, PrefixOf
    <3>6. Len(head \o text) = Len(head) + messageLen
      BY <1>10, <1>19, <3>1, Joined
    <3> QED BY <1>14, <3>1, <3>4, <3>5, <3>6
  <2>3. CASE ~(Len(TextOf(m)) <= RoomForText)
    <3>1. head \o text = head
      BY <1>0, <1>19, <2>3, WholeOf
    <3>2. SubSeq(head \o SubSeq(data, 1, k), 1, Len(head)) = head
      BY <1>19, <2>1, PartsOfJoined, Zenon
    <3> QED BY <3>1, <3>2
  <2> QED BY <2>2, <2>3
<1> QED BY <1>2, <1>18, <1>20 DEF Begins, head, text

(* What a client is to read of the answer to m, with the names it gave.        *)
ExpectedOf(m, names) ==
    CASE TypeOf(m) = REQ_LOGIN       -> WORD(RES_LOGIN) \o <<1>> \o AccountOf(m)
      [] TypeOf(m) = REQ_SECTOR_MOVE -> WORD(RES_SECTOR_MOVE) \o SubSeq(m, 3, Len(m))
      [] TypeOf(m) = REQ_MESSAGE     -> ChatHead(m, names) \o ChatText(m)

Matches(m, names, s) ==
    IF TypeOf(m) = REQ_MESSAGE
      THEN Begins(s, ExpectedOf(m, names))
      ELSE s = ExpectedOf(m, names)

AnsweredBy(m, names, s, p) == Carries(p, s, 0) /\ Matches(m, names, s)

(* MessageMarshalling answers the three requests, and knows the names of a login. *)
LEMMA MarshallingAnswers ==
  ASSUME NEW c \in ClientRecords, NEW p, NEW m, Carries(p, m, 0),
         NEW o, o = MessageMarshalling(c, p), o.what = "answer"
  PROVE  /\ o.client \in ClientRecords
         /\ o.client.id \o o.client.nick
              = IF TypeOf(m) = REQ_LOGIN THEN NamesOf(m) ELSE c.id \o c.nick
         /\ \E s : AnsweredBy(m, c.id \o c.nick, s, o.packet)
<1> DEFINE type == FromWORD(Value(p, 2))
           q == Get(p, 2)
<1>1. Outcome(c, p, "crash").what # "answer" /\ Outcome(c, p, "refused").what # "answer"
  BY DEF Outcome
<1>2. /\ ~(p.size < 2)
      /\ \/ type = REQ_LOGIN /\ o = Login(c, q)
         \/ type = REQ_SECTOR_MOVE /\ o = SectorMove(c, q)
         \/ type = REQ_MESSAGE /\ o = Chat(c, q)
  <2> HIDE DEF type, q
  <2>1. IF p.size < 2 THEN o = Outcome(c, p, "crash")
        ELSE o = CASE type = REQ_LOGIN       -> Login(c, q)
                   [] type = REQ_SECTOR_MOVE -> SectorMove(c, q)
                   [] type = REQ_MESSAGE     -> Chat(c, q)
                   [] type = REQ_HEARTBEAT   -> Outcome(c, p, "crash")
                   [] OTHER                  -> Outcome(c, p, "refused")
    BY Zenon DEF MessageMarshalling, type, q
  <2>2. type = REQ_LOGIN => ~(type = REQ_SECTOR_MOVE) /\ ~(type = REQ_MESSAGE) /\ ~(type = REQ_HEARTBEAT)
    BY DEF REQ_LOGIN, REQ_SECTOR_MOVE, REQ_MESSAGE, REQ_HEARTBEAT
  <2>3. type = REQ_SECTOR_MOVE => ~(type = REQ_MESSAGE) /\ ~(type = REQ_HEARTBEAT)
    BY DEF REQ_SECTOR_MOVE, REQ_MESSAGE, REQ_HEARTBEAT
  <2>4. type = REQ_MESSAGE => ~(type = REQ_HEARTBEAT)
    BY DEF REQ_MESSAGE, REQ_HEARTBEAT
  <2> QED BY <1>1, <2>1, <2>2, <2>3, <2>4
<1>3. m \in Seq(Bytes) /\ Len(m) >= 2 /\ Len(m) \in Nat
  <2>1. m \in Seq(Bytes) /\ p.size = Len(m)
    BY CarriesWhole
  <2> QED BY <1>2, <2>1
<1>4. type = TypeOf(m) /\ Carries(q, m, 2)
  <2>1. 0 + 2 <= Len(m) /\ 0 \in Nat /\ 2 \in Nat /\ 0 + 1 = 1 /\ 0 + 2 = 2
    BY <1>3
  <2>2. Reads(p, m, 0, 2)
    BY <2>1, ReadFields
  <2>3. Value(p, 2) = SubSeq(m, 1, 2) /\ Carries(Get(p, 2), m, 2)
    BY <2>1, <2>2 DEF Reads
  <2> QED BY <2>3 DEF TypeOf
<1> HIDE DEF type, q
<1>5. CASE type = REQ_LOGIN /\ o = Login(c, q)
  <2>1. /\ o.client \in ClientRecords /\ o.client.id \o o.client.nick = NamesOf(m)
        /\ Carries(o.packet, WORD(RES_LOGIN) \o <<1>> \o AccountOf(m), 0)
    BY <1>4, <1>5, LoginAnswers
  <2>2. TypeOf(m) = REQ_LOGIN /\ TypeOf(m) # REQ_MESSAGE
    BY <1>4, <1>5 DEF REQ_LOGIN, REQ_MESSAGE
  <2>3. TypeOf(m) # REQ_SECTOR_MOVE
    BY <2>2 DEF REQ_LOGIN, REQ_SECTOR_MOVE
  <2>4. ExpectedOf(m, c.id \o c.nick) = WORD(RES_LOGIN) \o <<1>> \o AccountOf(m)
    BY <2>2, <2>3 DEF ExpectedOf
  <2> QED BY <2>1, <2>2, <2>4, Zenon DEF AnsweredBy, Matches
<1>6. CASE type = REQ_SECTOR_MOVE /\ o = SectorMove(c, q)
  <2>1. /\ o.client \in ClientRecords /\ o.client.id \o o.client.nick = c.id \o c.nick
        /\ Carries(o.packet, WORD(RES_SECTOR_MOVE) \o SubSeq(m, 3, Len(m)), 0)
    BY <1>4, <1>6, SectorMoveAnswers
  <2>2. TypeOf(m) = REQ_SECTOR_MOVE /\ TypeOf(m) # REQ_MESSAGE /\ TypeOf(m) # REQ_LOGIN
    BY <1>4, <1>6 DEF REQ_LOGIN, REQ_SECTOR_MOVE, REQ_MESSAGE
  <2>3. ExpectedOf(m, c.id \o c.nick) = WORD(RES_SECTOR_MOVE) \o SubSeq(m, 3, Len(m))
    BY <2>2 DEF ExpectedOf
  <2> QED BY <2>1, <2>2, <2>3, Zenon DEF AnsweredBy, Matches
<1>7. CASE type = REQ_MESSAGE /\ o = Chat(c, q)
  <2>1. /\ o.client = c
        /\ \E s : /\ Carries(o.packet, s, 0)
                  /\ Begins(s, ChatHead(m, c.id \o c.nick) \o ChatText(m))
    BY <1>4, <1>7, ChatAnswers
  <2>2. TypeOf(m) = REQ_MESSAGE /\ TypeOf(m) # REQ_SECTOR_MOVE /\ TypeOf(m) # REQ_LOGIN
    BY <1>4, <1>7 DEF REQ_LOGIN, REQ_SECTOR_MOVE, REQ_MESSAGE
  <2>3. ExpectedOf(m, c.id \o c.nick) = ChatHead(m, c.id \o c.nick) \o ChatText(m)
    BY <2>2 DEF ExpectedOf
  <2> QED BY <2>1, <2>2, <2>3, Zenon DEF AnsweredBy, Matches
<1> QED BY <1>2, <1>5, <1>6, <1>7

(***************************************************************************)
(* The names a client gave last.                                             *)
(***************************************************************************)
LEMMA LastExists ==
  ASSUME NEW n \in Nat, NEW S \in SUBSET (1 .. n), S # {}
  PROVE  \E m \in S : \A k \in S : k <= m
<1> DEFINE HasLast(A) == \E m \in A : \A k \in A : k <= m
           T == {i \in Nat : \A A \in SUBSET (1 .. i) : A # {} => HasLast(A)}
<1>1. 0 \in T
  <2>1. \A A \in SUBSET (1 .. 0) : A = {}
    OBVIOUS
  <2> QED BY <2>1
<1>2. ASSUME NEW i \in Nat, i \in T PROVE i + 1 \in T
  <2>1. SUFFICES ASSUME NEW A \in SUBSET (1 .. i + 1), A # {} PROVE HasLast(A)
    OBVIOUS
  <2>2. CASE i + 1 \in A
    BY <2>2
  <2>3. CASE i + 1 \notin A
    <3>1. A \in SUBSET (1 .. i)
      BY <2>3
    <3> QED BY <1>2, <2>1, <3>1
  <2> QED BY <2>2, <2>3
<1>3. Nat \subseteq T
  <2> HIDE DEF T
  <2> QED BY <1>1, <1>2, SetInduction
<1> QED BY <1>3

LoginsIn(ans, i) == {j \in 1 .. i - 1 : TypeOf(ans[j].request) = REQ_LOGIN}

LastIn(S) == CHOOSE j \in S : \A k \in S : k <= j

NamesIn(ans, i) ==
    IF LoginsIn(ans, i) = {} THEN Zeros(2 * NAME_SIZE)
    ELSE NamesOf(ans[LastIn(LoginsIn(ans, i))].request)

(* One more answer: the names before it stay, those after it are of a login. *)
LEMMA NamesAppend ==
  ASSUME NEW S, NEW ans \in Seq(S), NEW r
  PROVE  /\ NamesIn(Append(ans, r), Len(ans) + 1) = NamesIn(ans, Len(ans) + 1)
         /\ NamesIn(Append(ans, r), Len(ans) + 2)
              = IF TypeOf(r.request) = REQ_LOGIN THEN NamesOf(r.request)
                ELSE NamesIn(ans, Len(ans) + 1)
<1>0. PICK all, n : all = Append(ans, r) /\ n = Len(ans)
  OBVIOUS
<1> SUFFICES /\ NamesIn(all, n + 1) = NamesIn(ans, n + 1)
             /\ NamesIn(all, n + 2) = IF TypeOf(r.request) = REQ_LOGIN THEN NamesOf(r.request)
                                      ELSE NamesIn(ans, n + 1)
  BY <1>0, Zenon
<1>1. n \in Nat /\ n + 1 - 1 = n /\ n + 2 - 1 = n + 1
  BY <1>0
<1>2. (\A j \in 1 .. n : all[j] = ans[j]) /\ all[n + 1] = r
  BY <1>0
<1> DEFINE L == LoginsIn(ans, n + 1)
           M == LoginsIn(all, n + 2)
<1>3. L = LoginsIn(all, n + 1) /\ L \in SUBSET (1 .. n)
  BY <1>1, <1>2 DEF LoginsIn
<1>4. M = IF TypeOf(r.request) = REQ_LOGIN THEN L \cup {n + 1} ELSE L
  <2>1. 1 .. n + 1 = (1 .. n) \cup {n + 1}
    BY <1>1
  <2> QED BY <1>1, <1>2, <1>3, <2>1 DEF LoginsIn
<1> HIDE DEF L, M
<1> DEFINE last == LastIn(L)
<1>5. L # {} => last \in 1 .. n
  <2>1. ASSUME L # {} PROVE \E j \in L : \A k \in L : k <= j
    BY <1>1, <1>3, <2>1, LastExists
  <2>2. L # {} => last \in L
    BY <2>1, Zenon DEF LastIn
  <2> QED BY <1>3, <2>2
<1>6. NamesIn(ans, n + 1) = IF L = {} THEN Zeros(2 * NAME_SIZE) ELSE NamesOf(ans[last].request)
  BY Zenon DEF NamesIn, L
<1>7. NamesIn(all, n + 1) = IF L = {} THEN Zeros(2 * NAME_SIZE) ELSE NamesOf(all[last].request)
  BY <1>3, Zenon DEF NamesIn
<1>8. NamesIn(all, n + 2) = IF M = {} THEN Zeros(2 * NAME_SIZE)
                            ELSE NamesOf(all[LastIn(M)].request)
  BY Zenon DEF NamesIn, M
<1> HIDE DEF last
<1>9. NamesIn(all, n + 1) = NamesIn(ans, n + 1)
  BY <1>2, <1>5, <1>6, <1>7
<1>10. CASE TypeOf(r.request) = REQ_LOGIN
  <2>1. M # {} /\ n + 1 \in M /\ \A k \in M : k <= n + 1 /\ k \in Int
    BY <1>1, <1>3, <1>4, <1>10
  <2>2. LastIn(M) = n + 1
    <3>1. \A j \in M : (\A k \in M : k <= j) <=> j = n + 1
      BY <1>1, <2>1
    <3> QED BY <2>1, <3>1 DEF LastIn
  <2> QED BY <1>2, <1>8, <1>9, <1>10, <2>1, <2>2
<1>11. CASE TypeOf(r.request) # REQ_LOGIN
  <2>1. M = L
    BY <1>4, <1>11
  <2>2. NamesIn(all, n + 2) = NamesIn(all, n + 1)
    BY <1>7, <1>8, <2>1 DEF last
  <2> QED BY <1>9, <1>11, <2>2
<1> QED BY <1>9, <1>10, <1>11

-----------------------------------------------------------------------------
(***************************************************************************)
(* The invariant.  The packet of a job carries bytes of which none are read    *)
(* yet, the client has the names of its last login, and the last answer reads  *)
(* as it should.                                                             *)
(***************************************************************************)
Carriers ==
    {p \in [free : Nat, size : Nat, write : Nat, read : Nat, payload : Payloads,
            header : Seq(Bytes), setHeader : BOOLEAN, encoded : BOOLEAN, thrown : BOOLEAN] :
        Carries(p, SubSeq(p.payload, 1, p.size), 0)}

JobRecords == [type : {"join", "message", "leave"}, packet : Carriers]

AnswerRecords == [request : Seq(Bytes), wire : Seq(Bytes)]

ClientKnown ==
    Alive => /\ client \in ClientRecords
             /\ client.id \o client.nick = Names(Len(answers) + 1)

Reading ==
    /\ jobs \in Seq(JobRecords) /\ answers \in Seq(AnswerRecords)
    /\ ClientKnown /\ AnswersRead

(* A packet of Carriers carries something, and what carries something is one. *)
LEMMA Carrier ==
  /\ \A p, s : Carries(p, s, 0) => p \in Carriers
  /\ \A p \in Carriers : \E s \in Seq(Bytes) : Carries(p, s, 0)
<1>1. ASSUME NEW p, NEW s, Carries(p, s, 0) PROVE p \in Carriers
  <2>1. SubSeq(p.payload, 1, p.size) = s
    BY <1>1, CarriesWhole
  <2>2. p \in [free : Nat, size : Nat, write : Nat, read : Nat, payload : Payloads,
               header : Seq(Bytes), setHeader : BOOLEAN, encoded : BOOLEAN, thrown : BOOLEAN]
    BY <1>1, Zenon DEF Carries
  <2> QED BY <1>1, <2>1, <2>2, Zenon DEF Carriers
<1>2. ASSUME NEW p \in Carriers PROVE \E s \in Seq(Bytes) : Carries(p, s, 0)
  <2>1. Carries(p, SubSeq(p.payload, 1, p.size), 0)
    BY Zenon DEF Carriers
  <2>2. SubSeq(p.payload, 1, p.size) \in Seq(Bytes)
    BY <2>1, Zenon DEF Carries
  <2> QED BY <2>1, <2>2, Zenon
<1> QED BY <1>1, <1>2, Zenon

(* A join and a leave have a new packet.                                     *)
LEMMA NewJob == \A type \in {"join", "leave"} : [type |-> type, packet |-> NewPacket] \in JobRecords
<1>1. NewPacket \in Carriers
  BY NewCarries, Carrier, Zenon
<1> QED BY <1>1 DEF JobRecords

(* A client that has not logged in has the names of the constructor.          *)
LEMMA NewClientKnown ==
  /\ NewClient \in ClientRecords
  /\ NewClient.id \o NewClient.nick = NamesIn(<<>>, 0 + 1)
<1>1. PICK a \in Nat, n \in Nat : a = ACCOUNT_SIZE /\ n = NAME_SIZE /\ 2 * NAME_SIZE = n + n
  BY SizesNat
<1>2. Zeros(a) \in Seq(Bytes) /\ Zeros(n) \in Seq(Bytes) /\ Len(Zeros(n)) = n
  BY ZerosOf
<1>3. NoSector \in Words
  BY DEF NoSector, Words, BYTE_VALUES
<1>4. NewClient \in ClientRecords /\ NewClient.id = Zeros(n) /\ NewClient.nick = Zeros(n)
  BY <1>1, <1>2, <1>3 DEF NewClient, ClientRecords
<1>5. LoginsIn(<<>>, 0 + 1) = {}
  BY DEF LoginsIn
<1>6. Zeros(n) \o Zeros(n) = Zeros(n + n)
  BY DEF Zeros
<1> QED BY <1>1, <1>4, <1>5, <1>6 DEF NamesIn

(* The last answer, apart from the variable. *)
LastRead(ans) ==
    ans # <<>> =>
        LET last  == ans[Len(ans)]
            plain == PlainOf(last.wire)
        IN  /\ Decodes(HeaderOf(last.wire), DataOf(last.wire), plain)
            /\ HeaderLen(HeaderOf(last.wire)) = Len(plain)
            /\ Matches(last.request, NamesIn(ans, Len(ans)), plain)

(* AnswersRead in these terms.                                               *)
LEMMA ReadAs ==
  /\ \A i : Names(i) = NamesIn(answers, i)
  /\ AnswersRead <=> LastRead(answers)
<1>1. \A i : Names(i) = NamesIn(answers, i)
  BY Zenon DEF Names, NamesIn, LoginsIn, LastIn
<1>2. ASSUME NEW i PROVE Expected(i) = ExpectedOf(answers[i].request, NamesIn(answers, i))
  BY <1>1, Zenon DEF Expected, ExpectedOf, ChatHead, ChatText
<1>3. AnswersRead <=> LastRead(answers)
  BY <1>2, Zenon DEF AnswersRead, LastRead, IsAnswer, Matches, Begins
<1> QED BY <1>1, <1>3

(* One more of a sequence of records.                                        *)
LEMMA AppendsJob ==
  ASSUME NEW S, NEW s \in Seq(S), NEW e \in S
  PROVE  Append(s, e) \in Seq(S)
OBVIOUS

(* The first of a sequence, and the rest.                                    *)
LEMMA TakesJob ==
  ASSUME NEW S, NEW s \in Seq(S), s # <<>>
  PROVE  Tail(s) \in Seq(S) /\ Head(s) \in S
OBVIOUS

(* A message that is cut off is decoded into a packet that carries it.        *)
LEMMA CutJob ==
  ASSUME Framing, CutMessage, jobs \in Seq(JobRecords)
  PROVE  jobs' \in Seq(JobRecords)
<1>1. phase = "cutting" /\ ~Malformed /\ Whole /\ HeaderLen(PeekedHeader) <= PAYLOAD_SIZE
  BY Zenon DEF CutMessage
<1> DEFINE header  == PeekedHeader
           size    == HeaderLen(header)
           body    == MoveFront(ring, HEADER_SIZE)
           data    == Peek(body, size)
           decoded == Decoding(PacketOf(data), header)
<1>2. \/ jobs' = jobs
      \/ decoded.ok /\ jobs' = Append(jobs, [type |-> "message", packet |-> decoded.packet])
  BY Zenon DEF CutMessage
<1>3. SUFFICES ASSUME decoded.ok PROVE [type |-> "message", packet |-> decoded.packet] \in JobRecords
  <2> HIDE DEF decoded
  <2> QED BY <1>2, <1>3, AppendsJob
<1>4. PICK n \in Nat : n = read - cut
  BY Facts
<1>5. /\ ring \in Rings /\ conv.stream \in Seq(Bytes) /\ Len(conv.stream) \in Nat
      /\ cut \in Nat /\ cut + n <= Len(conv.stream)
      /\ Holds(ring, conv.stream, cut, n) /\ conv.stream \in Seq(Byte)
  <2>1. Byte = Bytes
    BY SizeAssumption
  <2>2. phase # "empty"
    BY <1>1
  <2> QED BY <1>4, <2>1, <2>2, Facts
<1>6. Peeks(ring, conv.stream, cut, n)
  BY <1>5, Peeked
<1>7. size \in 1 .. MaxLen /\ HEADER_SIZE + size <= n
  <2>1. Len(delivered) < Len(conv.msgs)
    <3>1. Len(delivered) < Len(conv.msgs) \/ Len(delivered) = Len(conv.msgs)
      BY <1>1, AtCut
    <3>2. Len(delivered) = Len(conv.msgs) => ~decoded.ok
      <4> HIDE DEF header
      <4>1. ASSUME Len(delivered) = Len(conv.msgs) PROVE ~decoded.ok
        BY <1>1, <4>1, CutRest DEF header
      <4> QED BY <4>1
    <3> QED BY <1>3, <3>1, <3>2
  <2>2. PICK msg, len : msg = conv.msgs[Len(delivered) + 1] /\ len = Len(msg)
    OBVIOUS
  <2>3. len \in 1 .. MaxLen /\ HeaderLen(PeekedHeader) = len /\ HEADER_SIZE + len <= read - cut
    BY <1>1, <2>1, <2>2, CutNext
  <2> QED BY <1>4, <2>3
<1>8. header = SubSeq(conv.stream, cut + 1, cut + HEADER_SIZE)
      /\ data = SubSeq(conv.stream, cut + HEADER_SIZE + 1, cut + HEADER_SIZE + size)
  <2>1. size \in Nat /\ size > 0 /\ n >= HEADER_SIZE + size /\ n >= HEADER_SIZE
    BY <1>7, SizeAssumption, PacketAssumption DEF HEADER_SIZE
  <2> HIDE DEF size
  <2> QED BY <1>6, <2>1 DEF Peeks, PeekedHeader
<1> HIDE DEF header, data, size
<1>9. header \in Seq(Bytes) /\ Len(header) = HEADER_SIZE
  <2>1. cut + HEADER_SIZE <= Len(conv.stream) /\ HEADER_SIZE \in Nat
    BY <1>5, <1>7, SizeAssumption, PacketAssumption DEF HEADER_SIZE
  <2> QED BY <1>5, <1>8, <2>1, Field
<1>10. data \in Seq(Bytes) /\ Len(data) <= PAYLOAD_SIZE
  <2>1. PICK at \in Nat : at = cut + HEADER_SIZE
    BY <1>5 DEF HEADER_SIZE
  <2>2. at + size <= Len(conv.stream) /\ size \in Nat /\ size <= PAYLOAD_SIZE
    BY <1>5, <1>7, <2>1, SizeAssumption, PacketAssumption DEF HEADER_SIZE
  <2>3. SubSeq(conv.stream, at + 1, at + size) \in Seq(Bytes)
        /\ Len(SubSeq(conv.stream, at + 1, at + size)) = size
    BY <1>5, <2>2, Field
  <2> QED BY <1>8, <2>1, <2>2, <2>3
<1>11. decoded.packet \in Carriers
  BY <1>9, <1>10, DecodingCarries, Carrier
<1> HIDE DEF decoded
<1> QED BY <1>11 DEF JobRecords

(* What the receive path does to the jobs, and that it needs a server that runs. *)
LEMMA ReceiveJobs ==
  ASSUME Framing, Receive, jobs \in Seq(JobRecords)
  PROVE  /\ jobs' \in Seq(JobRecords) /\ Alive
         /\ client' = client /\ answers' = answers
<1>1. client' = client /\ answers' = answers /\ Receiving
  BY Zenon DEF Receive, wireVars
<1>2. CASE AcceptUser
  <2>1. jobs' = Append(jobs, [type |-> "join", packet |-> NewPacket]) /\ Alive
    BY <1>2, Zenon DEF AcceptUser
  <2> QED BY <1>1, <2>1, NewJob, AppendsJob
<1>3. CASE Release
  <2>1. jobs' = Append(jobs, [type |-> "leave", packet |-> NewPacket]) /\ Alive
    BY <1>3, Zenon DEF Release
  <2> QED BY <1>1, <2>1, NewJob, AppendsJob
<1>4. CASE CutMessage
  <2>1. Alive
    BY <1>4, Zenon DEF CutMessage
  <2> QED BY <1>1, <1>4, <2>1, CutJob
<1>5. \/ \E k \in 1 .. RING_BUFFER_SIZE : Complete(k)
      \/ Disconnect \/ Lost \/ Enqueued \/ RefuseHeader \/ CutOverrun \/ RecvPost
      => jobs' = jobs /\ Alive
  <2>1. (\E k \in 1 .. RING_BUFFER_SIZE : Complete(k)) => jobs' = jobs /\ Alive
    BY Zenon DEF Complete
  <2>2. Disconnect => jobs' = jobs /\ Alive
    BY Zenon DEF Disconnect
  <2>3. Lost => jobs' = jobs /\ Alive
    BY Zenon DEF Lost
  <2>4. Enqueued => jobs' = jobs /\ Alive
    BY Zenon DEF Enqueued
  <2>5. RefuseHeader => jobs' = jobs /\ Alive
    BY Zenon DEF RefuseHeader
  <2>6. RecvPost => jobs' = jobs /\ Alive
    BY Zenon DEF RecvPost
  <2>7. CutOverrun => jobs' = jobs /\ Alive
    BY Zenon DEF CutOverrun
  <2> QED BY <2>1, <2>2, <2>3, <2>4, <2>5, <2>6, <2>7, Zenon
<1> QED BY <1>1, <1>2, <1>3, <1>4, <1>5, Zenon DEF Receiving

(* A step that answers nothing leaves what the last answer reads.             *)
LEMMA AnswersStay ==
  ASSUME answers' = answers
  PROVE  /\ AnswersRead => AnswersRead'
         /\ Names(Len(answers) + 1)' = Names(Len(answers) + 1)
<1>1. AnswersRead' <=> LastRead(answers)'
  BY ReadAs, PTL
<1>2. LastRead(answers)' <=> LastRead(answers)
  BY Zenon DEF LastRead, NamesIn, LoginsIn
<1>3. \A i : Names(i)' = NamesIn(answers', i)
  BY Zenon DEF Names, NamesIn, LoginsIn, LastIn
<1> QED BY <1>1, <1>2, <1>3, ReadAs

(* The bytes that travel are bytes.                                          *)
LEMMA WireSeq ==
  ASSUME NEW s \in Seq(Bytes), Len(s) <= PAYLOAD_SIZE, NEW key \in Bytes
  PROVE  Wire(s, key) \in Seq(Bytes)
<1>1. PICK e, wire : e = Encoded(s, key, GetCheckSum(s)) /\ wire = Wire(s, key)
  OBVIOUS
<1> QED BY <1>1, WireBytes, Zenon

(* What a client decodes of what was sent of a packet.                        *)
LEMMA ReadBack ==
  ASSUME NEW p, NEW s, Carries(p, s, 0), NEW key \in RandKeys
  PROVE  /\ Sent(p, key) \in Seq(Bytes) /\ PlainOf(Sent(p, key)) = s
         /\ Decodes(HeaderOf(Sent(p, key)), DataOf(Sent(p, key)), s)
         /\ HeaderLen(HeaderOf(Sent(p, key))) = Len(s)
<1>1. key \in Bytes
  BY FieldAssumption
<1>2. s \in Seq(Bytes) /\ Len(s) <= PAYLOAD_SIZE
  BY CarriesWhole
<1>3. Sent(p, key) = Wire(s, key)
  BY <1>1, SentIsWire
<1>4. Wire(s, key) \in Seq(Bytes)
  BY <1>1, <1>2, WireSeq
<1>5. /\ Decodes(HeaderOf(Wire(s, key)), DataOf(Wire(s, key)), s)
      /\ PlainOf(Wire(s, key)) = s
      /\ HeaderLen(HeaderOf(Wire(s, key))) = Len(s)
  BY <1>1, <1>2, DecodingUndoes
<1> QED BY <1>3, <1>4, <1>5, Zenon

(* An answer reads what its request and the last login say.                   *)
LEMMA AnswerKeeps ==
  ASSUME Reading, NEW key \in RandKeys, Answer(key)
  PROVE  Reading'
<1> DEFINE p == Head(jobs).packet
           o == MessageMarshalling(client, p)
           wire == Sent(o.packet, key)
           r == [request |-> Payload(p), wire |-> wire]
           names == client.id \o client.nick
<1>1. /\ jobs # <<>> /\ Alive /\ jobs' = Tail(jobs)
      /\ o.what = "answer" /\ client' = o.client /\ answers' = Append(answers, r)
  BY Zenon DEF Answer, Take
<1>2. /\ jobs \in Seq(JobRecords) /\ answers \in Seq(AnswerRecords)
      /\ client \in ClientRecords
      /\ names = NamesIn(answers, Len(answers) + 1)
  BY <1>1, ReadAs, Zenon DEF Reading, ClientKnown
<1>3. p \in Carriers /\ jobs' \in Seq(JobRecords)
  <2>1. Head(jobs) \in JobRecords /\ Tail(jobs) \in Seq(JobRecords)
    BY <1>1, <1>2, TakesJob
  <2> QED BY <1>1, <2>1 DEF JobRecords
<1>4. PICK m : Carries(p, m, 0)
  BY <1>3, Carrier
<1>5. Payload(p) = m /\ m \in Seq(Bytes)
  BY <1>4, CarriesWhole
<1>6. /\ o.client \in ClientRecords
      /\ o.client.id \o o.client.nick = IF TypeOf(m) = REQ_LOGIN THEN NamesOf(m) ELSE names
      /\ \E s : AnsweredBy(m, names, s, o.packet)
  <2> HIDE DEF p
  <2> QED BY <1>1, <1>2, <1>4, MarshallingAnswers
<1>7. PICK s : AnsweredBy(m, names, s, o.packet)
  BY <1>6
<1> HIDE DEF p, o
<1>8. Carries(o.packet, s, 0) /\ Matches(m, names, s)
  BY <1>7 DEF AnsweredBy
<1>9. /\ wire \in Seq(Bytes) /\ PlainOf(wire) = s
      /\ Decodes(HeaderOf(wire), DataOf(wire), s)
      /\ HeaderLen(HeaderOf(wire)) = Len(s)
  BY <1>8, ReadBack
<1> HIDE DEF wire
<1>10. r \in AnswerRecords /\ r.request = m /\ r.wire = wire
  BY <1>5, <1>9 DEF AnswerRecords
<1> HIDE DEF r, names
<1>11. answers' \in Seq(AnswerRecords)
  BY <1>1, <1>2, <1>10, AppendsJob
<1>12. PICK n \in Nat : n = Len(answers)
  BY <1>2
<1>13. /\ Len(answers') = n + 1 /\ answers'[n + 1] = r /\ n + 1 + 1 = n + 2
  BY <1>1, <1>2, <1>12
<1>14. /\ NamesIn(answers', n + 1) = names
       /\ NamesIn(answers', n + 2) = IF TypeOf(m) = REQ_LOGIN THEN NamesOf(m) ELSE names
  <2>1. answers' = Append(answers, r) /\ r.request = m /\ names = NamesIn(answers, n + 1)
    BY <1>1, <1>2, <1>10, <1>12
  <2> DEFINE all == Append(answers, r)
  <2>2. /\ NamesIn(all, Len(answers) + 1) = NamesIn(answers, Len(answers) + 1)
        /\ NamesIn(all, Len(answers) + 2)
             = IF TypeOf(r.request) = REQ_LOGIN THEN NamesOf(r.request)
               ELSE NamesIn(answers, Len(answers) + 1)
    BY <1>2, NamesAppend, Zenon
  <2> HIDE DEF all
  <2>3. answers' = all
    BY <2>1 DEF all
  <2> QED BY <1>12, <2>1, <2>2, <2>3
<1>15. ClientKnown'
  <2>1. Names(Len(answers) + 1)' = NamesIn(answers', n + 2)
    <3>1. Len(answers') + 1 = n + 2
      BY <1>13
    <3>2. \A i : Names(i)' = NamesIn(answers', i)
      BY Zenon DEF Names, NamesIn, LoginsIn, LastIn
    <3> QED BY <3>1, <3>2
  <2> QED BY <1>1, <1>6, <1>14, <2>1, Zenon DEF ClientKnown
<1>16. AnswersRead'
  <2>1. LastRead(answers')
    BY <1>9, <1>10, <1>13, <1>14, <1>8, Zenon DEF LastRead
  <2>2. AnswersRead' <=> LastRead(answers)'
    BY ReadAs, PTL
  <2> QED BY <2>1, <2>2
<1> QED BY <1>3, <1>11, <1>15, <1>16 DEF Reading

(* No answer was sent at first.                                              *)
LEMMA ReadingInit ==
  ASSUME WireInit
  PROVE  Reading
<1>1. jobs = <<>> /\ answers = <<>> /\ client = NewClient
  BY DEF WireInit, Init
<1>2. jobs \in Seq(JobRecords) /\ answers \in Seq(AnswerRecords) /\ AnswersRead
  BY <1>1 DEF AnswersRead
<1>3. Len(answers) = 0
  BY <1>1
<1>4. ClientKnown
  BY <1>1, <1>3, NewClientKnown, ReadAs, Zenon DEF ClientKnown
<1> QED BY <1>2, <1>4 DEF Reading

(* Every step keeps it. *)
LEMMA ReadingNext ==
  ASSUME Framing, Reading, [WireNext]_<<vars, wireVars>>
  PROVE  Reading'
<1>0. jobs \in Seq(JobRecords) /\ answers \in Seq(AnswerRecords) /\ ClientKnown /\ AnswersRead
  BY DEF Reading
<1>1. ASSUME answers' = answers, jobs' \in Seq(JobRecords), Alive' => Alive /\ client' = client
      PROVE  Reading'
  <2>1. ClientKnown'
    BY <1>0, <1>1, AnswersStay, Zenon DEF ClientKnown
  <2> QED BY <1>0, <1>1, <2>1, AnswersStay, Zenon DEF Reading
<1>2. CASE Receive
  <2>1. jobs' \in Seq(JobRecords) /\ Alive /\ client' = client /\ answers' = answers
    BY <1>0, <1>2, ReceiveJobs
  <2> QED BY <1>1, <2>1
<1>3. CASE JoinOrLeave
  <2>1. /\ jobs # <<>> /\ jobs' = Tail(jobs) /\ client' = NewClient /\ answers' = <<>>
    BY <1>3, Zenon DEF JoinOrLeave, Take
  <2>2. jobs' \in Seq(JobRecords) /\ answers' \in Seq(AnswerRecords)
    BY <1>0, <2>1, TakesJob
  <2>3. AnswersRead'
    BY <2>1, Zenon DEF AnswersRead
  <2>4. Len(answers') = 0
    BY <2>1
  <2>5. Names(Len(answers) + 1)' = NamesIn(<<>>, 0 + 1)
    <3>1. Len(answers') + 1 = 0 + 1
      BY <2>4
    <3>2. \A i : Names(i)' = NamesIn(answers', i)
      BY Zenon DEF Names, NamesIn, LoginsIn, LastIn
    <3> QED BY <2>1, <3>1, <3>2
  <2>6. ClientKnown'
    BY <2>1, <2>5, NewClientKnown, Zenon DEF ClientKnown
  <2> QED BY <2>2, <2>3, <2>6 DEF Reading
<1>4. CASE \E key \in RandKeys : Answer(key)
  BY <1>4, AnswerKeeps
<1>5. CASE RefuseMessage
  <2>1. /\ jobs # <<>> /\ jobs' = Tail(jobs) /\ Alive /\ client' = client /\ answers' = answers
    BY <1>5, Zenon DEF RefuseMessage, wireVars
  <2> QED BY <1>0, <1>1, <2>1, TakesJob
<1>6. CASE MessageCrash
  <2>1. /\ jobs # <<>> /\ jobs' = Tail(jobs) /\ answers' = answers /\ crash' = "handler"
    BY <1>6, Zenon DEF MessageCrash
  <2>2. ~Alive'
    BY <2>1 DEF Alive
  <2> QED BY <1>0, <1>1, <2>1, <2>2, TakesJob
<1>7. CASE UNCHANGED <<vars, wireVars>>
  <2>1. jobs' = jobs /\ crash' = crash /\ client' = client /\ answers' = answers
    BY <1>7, Zenon DEF vars, wireVars
  <2> QED BY <1>0, <1>1, <2>1 DEF Alive
<1> QED BY <1>2, <1>3, <1>4, <1>5, <1>6, <1>7, Zenon DEF WireNext

(***************************************************************************)
(* A message waits for the update thread in a packet whose cursors say that   *)
(* nothing of it was read, and a client is as its last login made it:         *)
(* whatever arrives, and when it is marshalled (RecvPacket,                  *)
(* MessageMarshalling, the handlers of login, move and chat).                 *)
(***************************************************************************)
THEOREM ReadingInvariance == WireSpec => []Reading
<1>1. WireInit => Reading
  BY ReadingInit
<1>2. Framing /\ Reading /\ [WireNext]_<<vars, wireVars>> => Reading'
  BY ReadingNext
<1> QED BY <1>1, <1>2, FramingInvariance, PTL DEF WireSpec

(***************************************************************************)
(* A client that decodes an answer reads its own account, sectors and text and *)
(* the names of its last login there, although request, answer, header and    *)
(* coding use one buffer in turn (MakePacket_en_CS_CHAT_RES_*, Decoding).     *)
(***************************************************************************)
THEOREM AnswersCorrect == WireSpec => []AnswersRead
<1>1. Reading => AnswersRead
  BY DEF Reading
<1> QED BY <1>1, ReadingInvariance, PTL

=============================================================================
