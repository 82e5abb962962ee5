----------------------------- MODULE ChatWire -----------------------------
(***************************************************************************)
(* What the content reads in the packets that RecvFraming cuts, and what it  *)
(* answers, byte by byte: MessageMarshalling and the handlers of             *)
(* ChattingServer.cpp with the MakePacket functions of PacketProcess.cpp.    *)
(* Who else receives an answer is the matter of ChatContent.                 *)
(***************************************************************************)
EXTENDS RecvFraming

CONSTANTS
    ACCOUNT_SIZE,       \* sizeof(int64_t)
    NAME_SIZE,          \* of _ID and of _NickName
    KEY_SIZE,           \* of _SessionKey
    SECTOR_X_MAX, SECTOR_Y_MAX,
    RandKeys            \* what rand() % 256 may give

\* the largest WORD, the sector of a client that is in none
NoSector == BYTE_VALUES * BYTE_VALUES - 1

ASSUME FieldAssumption ==
    /\ {ACCOUNT_SIZE, NAME_SIZE, KEY_SIZE} \subseteq Nat
    /\ {SECTOR_X_MAX, SECTOR_Y_MAX} \subseteq 1 .. NoSector - 1
    /\ RandKeys \subseteq Bytes

REQ_LOGIN == 1
RES_LOGIN == 2
REQ_SECTOR_MOVE == 3
RES_SECTOR_MOVE == 4
REQ_MESSAGE == 5
RES_MESSAGE == 6
REQ_HEARTBEAT == 7

VARIABLES
    client,     \* the Client of the session whose jobs are taken
    answers     \* what was sent: the request, and the bytes

wireVars == <<client, answers>>

Zeros(n) == [i \in 1 .. n |-> 0]

\* the constructor of Client
NewClient ==
    [account |-> Zeros(ACCOUNT_SIZE), id |-> Zeros(NAME_SIZE), nick |-> Zeros(NAME_SIZE),
     x |-> NoSector, y |-> NoSector]

\* what a handler leaves: the client, the packet, and what becomes of it
Outcome(c, p, what) == [client |-> c, packet |-> p, what |-> IF p.thrown THEN "crash" ELSE what]

-----------------------------------------------------------------------------
(* The answers. *)
MakeLogin(p, account) == Put(Put(Put(p, WORD(RES_LOGIN)), <<1>>), account)

MakeSectorMove(p, account, x, y) ==
    Put(Put(Put(Put(p, WORD(RES_SECTOR_MOVE)), account), WORD(x)), WORD(y))

MakeMessage(p, account, id, nick, messageLen, message) ==
    LET names == PutData(PutData(Put(Put(p, WORD(RES_MESSAGE)), account), id, NAME_SIZE), nick, NAME_SIZE)
    IN  PutData(Put(names, WORD(messageLen)), message \o Zeros(messageLen), messageLen * 2)

-----------------------------------------------------------------------------
(* The handlers; p is the packet behind its type. *)
(* Mutant: the nickname is read before the ID. *)
LoginNickFirst(c, p) ==
    LET nick == Get(p, ACCOUNT_SIZE)
        id   == GetData(nick, NAME_SIZE)
        key  == GetData(id, NAME_SIZE)
        new  == [c EXCEPT !.account = Value(p, ACCOUNT_SIZE),
                          !.id = Data(id, NAME_SIZE), !.nick = Data(nick, NAME_SIZE)]
    IN  IF p.size # ACCOUNT_SIZE + 2 * NAME_SIZE + KEY_SIZE
          THEN Outcome(c, p, "refused")
          ELSE Outcome(new, MakeLogin(Clear(GetData(key, KEY_SIZE)), new.account), "answer")

Login(c, p) ==
    LET id   == Get(p, ACCOUNT_SIZE)
        nick == GetData(id, NAME_SIZE)
        key  == GetData(nick, NAME_SIZE)
        new  == [c EXCEPT !.account = Value(p, ACCOUNT_SIZE),
                          !.id = Data(id, NAME_SIZE), !.nick = Data(nick, NAME_SIZE)]
    IN  IF p.size # ACCOUNT_SIZE + 2 * NAME_SIZE + KEY_SIZE
          THEN Outcome(c, p, "refused")
          ELSE Outcome(new, MakeLogin(Clear(GetData(key, KEY_SIZE)), new.account), "answer")

SectorMove(c, p) ==
    LET x   == Get(p, ACCOUNT_SIZE)
        y   == Get(x, 2)
        new == [c EXCEPT !.x = FromWORD(Value(x, 2)), !.y = FromWORD(Value(y, 2))]
    IN  IF p.size # ACCOUNT_SIZE + 4 \/ Value(p, ACCOUNT_SIZE) # c.account
          THEN Outcome(c, p, "refused")
        ELSE IF new.x > SECTOR_X_MAX - 1 \/ new.y > SECTOR_Y_MAX - 1
          THEN Outcome(new, Get(y, 2), "crash")
        ELSE Outcome(new, MakeSectorMove(Clear(Get(y, 2)), c.account, new.x, new.y), "answer")

\* The mark that a text "=" leaves on the session is Mark of NetSession: the answer is the same.
Chat(c, p) ==
    LET len        == Get(p, ACCOUNT_SIZE)
        text       == Get(len, 2)
        messageLen == FromWORD(Value(len, 2))
    IN  IF p.size < ACCOUNT_SIZE + 2 \/ Value(p, ACCOUNT_SIZE) # c.account \/ text.size < messageLen
          THEN Outcome(c, p, "refused")
        ELSE IF c.x > SECTOR_X_MAX - 1 \/ c.y > SECTOR_Y_MAX - 1   \* SendSector
          THEN Outcome(c, p, "crash")
        ELSE Outcome(c, MakeMessage(Clear(GetData(text, messageLen)), c.account, c.id, c.nick,
                                    messageLen, Data(text, messageLen)), "answer")

MessageMarshalling(c, p) ==
    LET type == FromWORD(Value(p, 2)) IN
    IF p.size < 2 THEN Outcome(c, p, "crash")
    ELSE CASE type = REQ_LOGIN       -> Login(c, Get(p, 2))
           [] type = REQ_SECTOR_MOVE -> SectorMove(c, Get(p, 2))
           [] type = REQ_MESSAGE     -> Chat(c, Get(p, 2))
           [] type = REQ_HEARTBEAT   -> Outcome(c, p, "crash")
           [] OTHER                  -> Outcome(c, p, "refused")

\* SendPacket and SendPost: the header and the payload, as many bytes as GetFullPacketSize says
Sent(p, randKey) ==
    LET e == HeaderSettingAndEncoding(p, randKey) IN e.header \o SubSeq(e.payload, 1, e.size)
-----------------------------------------------------------------------------
WireInit == Init /\ client = NewClient /\ answers = <<>>

Receive == Receiving /\ UNCHANGED wireVars

\* CreateNewUser and DeleteUser: a client begins with the constructor's values
JoinOrLeave ==
    /\ Take /\ Head(jobs).type # "message"
    /\ client' = NewClient /\ answers' = <<>>

Answer(randKey) ==
    LET p == Head(jobs).packet
        o == MessageMarshalling(client, p)
    IN  /\ Take /\ Head(jobs).type = "message" /\ o.what = "answer"
        /\ client' = o.client
        /\ answers' = Append(answers, [request |-> Payload(p), wire |-> Sent(o.packet, randKey)])

\* the job at the head is of the session that has the slot now
OfOpenSession ==
    /\ phase \notin {"empty", "closing"}
    /\ \A i \in DOMAIN jobs : jobs[i].type # "leave"

\* the packet is freed and the session disconnected
RefuseMessage ==
    LET o == MessageMarshalling(client, Head(jobs).packet) IN
    /\ jobs # <<>> /\ Alive /\ Head(jobs).type = "message" /\ o.what = "refused"
    /\ jobs' = Tail(jobs)
    /\ bIOCancel' = (bIOCancel \/ OfOpenSession)
    /\ UNCHANGED <<ring, phase, posted, clientVars, crash, wireVars>>

MessageCrash ==
    LET o == MessageMarshalling(client, Head(jobs).packet) IN
    /\ jobs # <<>> /\ Alive /\ Head(jobs).type = "message" /\ o.what = "crash"
    /\ jobs' = Tail(jobs) /\ crash' = "handler"
    /\ client' = o.client
    /\ UNCHANGED <<ring, phase, posted, bIOCancel, clientVars, answers>>

WireNext ==
    \/ Receive \/ JoinOrLeave
    \/ \E randKey \in RandKeys : Answer(randKey)
    \/ RefuseMessage \/ MessageCrash

WireSpec == WireInit /\ [][WireNext]_<<vars, wireVars>>
-----------------------------------------------------------------------------
TypeOf(message) == FromWORD(SubSeq(message, 1, 2))
AccountOf(message) == SubSeq(message, 3, 2 + ACCOUNT_SIZE)
NamesOf(login) == SubSeq(login, 3 + ACCOUNT_SIZE, 2 + ACCOUNT_SIZE + 2 * NAME_SIZE)

\* the length and the text of a chat message, and the room an answer has for text
LengthOf(chat) == SubSeq(chat, 3 + ACCOUNT_SIZE, 4 + ACCOUNT_SIZE)
TextOf(chat) == SubSeq(chat, 5 + ACCOUNT_SIZE, 4 + ACCOUNT_SIZE + FromWORD(LengthOf(chat)))
RoomForText == PAYLOAD_SIZE - (4 + ACCOUNT_SIZE + 2 * NAME_SIZE)

\* the names a client gave in its last login before answer i
Names(i) ==
    LET logins == {j \in 1 .. i - 1 : TypeOf(answers[j].request) = REQ_LOGIN}
    IN  IF logins = {} THEN Zeros(2 * NAME_SIZE)
        ELSE NamesOf(answers[CHOOSE j \in logins : \A k \in logins : k <= j].request)

Expected(i) ==
    LET m == answers[i].request IN
    CASE TypeOf(m) = REQ_LOGIN       -> WORD(RES_LOGIN) \o <<1>> \o AccountOf(m)
      [] TypeOf(m) = REQ_SECTOR_MOVE -> WORD(RES_SECTOR_MOVE) \o SubSeq(m, 3, Len(m))
      [] TypeOf(m) = REQ_MESSAGE     ->
            WORD(RES_MESSAGE) \o AccountOf(m) \o Names(i) \o LengthOf(m) \o
                (IF Len(TextOf(m)) <= RoomForText THEN TextOf(m) ELSE <<>>)

\* what a client makes of the bytes of an answer
HeaderOf(wire) == SubSeq(wire, 1, HEADER_SIZE)
DataOf(wire) == SubSeq(wire, HEADER_SIZE + 1, Len(wire))
PlainOf(wire) == Payload(Decoding(PacketOf(DataOf(wire)), HeaderOf(wire)).packet)

IsAnswer(i, plain) ==
    LET wire == answers[i].wire IN
    /\ Decodes(HeaderOf(wire), DataOf(wire), plain)
    /\ HeaderLen(HeaderOf(wire)) = Len(plain)

(***************************************************************************)
(* A client that decodes an answer reads the type, the account and the       *)
(* sectors or text of its own request and the names of its own last login,    *)
(* whatever bytes came before and in what pieces; a chat answer may have more  *)
(* behind the text (the handlers, MakePacket and HeaderSettingAndEncoding).   *)
(* It is said of the last answer, as each one is the last for a time.         *)
(***************************************************************************)
AnswersRead ==
    answers # <<>> =>
        LET i     == Len(answers)
            plain == PlainOf(answers[i].wire)
        IN
        /\ IsAnswer(i, plain)
        /\ IF TypeOf(answers[i].request) = REQ_MESSAGE
             THEN SubSeq(plain, 1, Len(Expected(i))) = Expected(i)
             ELSE plain = Expected(i)
=============================================================================
