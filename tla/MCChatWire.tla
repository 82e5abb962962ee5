---------------------------- MODULE MCChatWire ----------------------------
(***************************************************************************)
(* The clients of ChatWire: what they send, with fields of one byte, and the *)
(* exclusive or of bytes.                                                    *)
(***************************************************************************)
EXTENDS ChatWire

\* bit k of a byte
Bit(a, k) == (a \div 2 ^ k) % 2

XorOf(a, b) ==
    LET x(k) == ((Bit(a, k) + Bit(b, k)) % 2) * 2 ^ k
    IN  x(0) + x(1) + x(2) + x(3) + x(4) + x(5) + x(6) + x(7)

\* one payload after the other, coded with this random key, and then the tail
Conversation(msgs, randKey, tail, broken) ==
    LET start[i \in 1 .. Len(msgs) + 1] ==
            IF i = 1 THEN 0 ELSE start[i - 1] + HEADER_SIZE + Len(msgs[i - 1])
        stream[i \in 0 .. Len(msgs)] ==
            IF i = 0 THEN <<>> ELSE stream[i - 1] \o Wire(msgs[i], randKey)
    IN  [msgs |-> msgs, start |-> start, stream |-> stream[Len(msgs)] \o tail, broken |-> broken]

LoginAs(account)      == WORD(REQ_LOGIN) \o <<account, 65, 66, 7>>
MoveTo(account, x, y) == WORD(REQ_SECTOR_MOVE) \o <<account>> \o WORD(x) \o WORD(y)
Say(account, text)    == WORD(REQ_MESSAGE) \o <<account>> \o WORD(Len(text)) \o text

Spoil(wire, i, byte) == [wire EXCEPT ![i] = byte]

\* one client that follows the protocol, fills a packet, and has a header and a payload
\* where the ring wraps; and one for each way not to follow it, the last of them with
\* a message longer than a packet
Clients == {
    Conversation(<<MoveTo(0, 1, 0), LoginAs(200), Say(200, <<1, 2, 3, 4, 5>>), Say(200, <<72, 105>>)>>,
                 255, <<>>, FALSE),
    Conversation(<<Say(8, <<>>)>>, 17, Spoil(Wire(<<>>, 3), 1, 0), TRUE),
    Conversation(<<>>, 1, Spoil(Wire(<<1, 0>>, 3), 5, 0), TRUE),
    Conversation(<<WORD(REQ_HEARTBEAT)>>, 1, Wire(<<>>, 3), TRUE),
    Conversation(<<<<0, 1>>>>, 1, Spoil(Wire(<<>>, 3), 3, 1), TRUE),
    Conversation(<<>>, 1, Wire(Zeros(PAYLOAD_SIZE + 1), 3), TRUE)}
=============================================================================
