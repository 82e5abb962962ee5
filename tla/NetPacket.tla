----------------------------- MODULE NetPacket -----------------------------
(***************************************************************************)
(* NetPacket of SerializeBuffer.cpp without its reference count, which      *)
(* MemoryPool_TLS and ChatContent follow: the payload with its two cursors,  *)
(* the header, and the coding of both.  A packet is a record; m_Lock and the *)
(* second look at m_bEencode are left out, since one thread encodes.         *)
(***************************************************************************)
EXTENDS Integers, Sequences

CONSTANTS
    PAYLOAD_SIZE,       \* BUFFER_SIZE - sizeof(NetHeader): 295
    dfPACKET_KEY, dfPACKET_CODE,
    Xor(_, _)           \* the exclusive or of two bytes

BYTE_VALUES == 256
Bytes == 0 .. BYTE_VALUES - 1
BYTE(i) == i % BYTE_VALUES

ASSUME PacketAssumption ==
    /\ PAYLOAD_SIZE \in 1 .. BYTE_VALUES * BYTE_VALUES - 1   \* a WORD has its length
    /\ dfPACKET_KEY \in Bytes
    /\ dfPACKET_CODE \in Bytes

\* of the exclusive or the code needs this much: the same byte cancels
ASSUME XorAssumption ==
    \A a, b \in Bytes : /\ Xor(a, b) \in Bytes
                        /\ Xor(Xor(a, b), b) = a

HEADER_SIZE == 5    \* _Code, _Len (2 bytes), _RandKey, _CheckSum, packed

\* a WORD in memory, and back
WORD(n) == <<n % BYTE_VALUES, (n \div BYTE_VALUES) % BYTE_VALUES>>
FromWORD(w) == w[1] + BYTE_VALUES * w[2]

(***************************************************************************)
(* The cursors.  free and size are m_PayloadFreeSize and m_PayloadSize,      *)
(* write and read m_WritePos and m_ReadPos; thrown is a PacketExcept, which  *)
(* nothing in the server catches.                                           *)
(***************************************************************************)
Clear(p) ==
    [p EXCEPT !.free = PAYLOAD_SIZE, !.size = 0, !.write = 0, !.read = 0,
              !.setHeader = FALSE, !.encoded = FALSE]

NewPacket ==
    [free |-> PAYLOAD_SIZE, size |-> 0, write |-> 0, read |-> 0,
     payload |-> [i \in 1 .. PAYLOAD_SIZE |-> 0],
     header |-> <<0, 0, 0, 0, 0>>, setHeader |-> FALSE, encoded |-> FALSE, thrown |-> FALSE]

\* what is read next is what was written and not read
Payload(p) == SubSeq(p.payload, p.read + 1, p.read + p.size)

\* memcpy of the first n bytes of data to m_PayloadPtr + at. The buffer keeps its size:
\* what lies behind it is not followed (RecvFraming ends where the code writes there).
Stored(p, at, data, n) ==
    LET written == SubSeq(p.payload, 1, at) \o SubSeq(data, 1, n)
    IN  [p EXCEPT !.payload = SubSeq(written \o SubSeq(@, at + n + 1, Len(@)), 1, Len(@))]

Wrote(p, n) == [p EXCEPT !.write = @ + n, !.size = @ + n, !.free = @ - n]
Consumed(p, n) == [p EXCEPT !.read = @ + n, !.size = @ - n, !.free = @ + n]

MoveWritePos(p, n) == Wrote(p, IF p.free <= n THEN p.free ELSE n)

\* operator<<: all of the value or an exception
Put(p, value) ==
    IF p.free < Len(value) THEN [p EXCEPT !.thrown = TRUE]
    ELSE Wrote(Stored(p, p.write, value, Len(value)), Len(value))

\* PutData: as much as fits
PutData(p, data, n) ==
    LET m == IF p.free < n THEN p.free ELSE n
    IN  Wrote(Stored(p, p.write, data, m), m)

\* operator>> of a value of n bytes
Value(p, n) == SubSeq(Payload(p), 1, n)
Get(p, n) == IF p.size < n THEN [p EXCEPT !.thrown = TRUE] ELSE Consumed(p, n)

\* GetData: as much as there is
Data(p, n) == SubSeq(Payload(p), 1, IF p.size <= n THEN p.size ELSE n)
GetData(p, n) == Consumed(p, IF p.size <= n THEN p.size ELSE n)

(***************************************************************************)
(* The coding.  Byte 0 is the checksum and byte i the i-th of the payload.   *)
(* p is a byte after the first exclusive or and e after the second, and each  *)
(* depends on the p and the e of the byte before it.                         *)
(***************************************************************************)
GetCheckSum(data) ==
    LET sum[i \in 0 .. Len(data)] == IF i = 0 THEN 0 ELSE BYTE(sum[i - 1] + data[i])
    IN  sum[Len(data)]

MaskP(randKey, pPrev, i) == BYTE(pPrev + randKey + i + 1)
MaskE(ePrev, i)          == BYTE(ePrev + dfPACKET_KEY + i + 1)

Encoded(plain, randKey, checkSum) ==
    LET code[i \in 0 .. Len(plain)] ==
            LET prev == IF i = 0 THEN [p |-> 0, e |-> 0] ELSE code[i - 1]
                p == Xor(IF i = 0 THEN checkSum ELSE plain[i], MaskP(randKey, prev.p, i))
            IN  [p |-> p, e |-> Xor(p, MaskE(prev.e, i))]
    IN  [i \in 0 .. Len(plain) |-> code[i].e]

\* the p of byte i of the coded bytes e, and that byte in plain
DecodedP(e, i) == Xor(e[i], MaskE(IF i = 0 THEN 0 ELSE e[i - 1], i))
DecodedByte(e, randKey, i) ==
    Xor(DecodedP(e, i), MaskP(randKey, IF i = 0 THEN 0 ELSE DecodedP(e, i - 1), i))

\* a header in memory
Header(len, randKey, checkSum) == <<dfPACKET_CODE>> \o WORD(len) \o <<randKey, checkSum>>
HeaderLen(header) == FromWORD(SubSeq(header, 2, 3))

\* the bytes that travel: the header with its checksum coded, then the payload
Wire(plain, randKey) ==
    LET e == Encoded(plain, randKey, GetCheckSum(plain))
    IN  Header(Len(plain), randKey, e[0]) \o [i \in 1 .. Len(plain) |-> e[i]]

HeaderSettingAndEncoding(p, randKey) ==
    IF p.encoded THEN p
    ELSE LET wire == Wire(SubSeq(p.payload, 1, p.size), randKey)
         IN  [Stored(p, 0, SubSeq(wire, HEADER_SIZE + 1, Len(wire)), p.size)
                EXCEPT !.header = SubSeq(wire, 1, HEADER_SIZE), !.setHeader = TRUE, !.encoded = TRUE]

\* Decoding: the packet with its payload in plain, and whether the checksum agrees
Decoding(p, header) ==
    LET e     == [i \in 0 .. p.size |-> IF i = 0 THEN header[5] ELSE p.payload[i]]
        plain == [i \in 1 .. p.size |-> DecodedByte(e, header[4], i)]
    IN  [packet |-> Stored(p, 0, plain, p.size),
         ok     |-> DecodedByte(e, header[4], 0) = GetCheckSum(plain)]
=============================================================================
