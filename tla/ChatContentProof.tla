-------------------------- MODULE ChatContentProof --------------------------
(***************************************************************************)
(* That the content keeps its clients, sectors and packets in order, for   *)
(* any number of sessions, workers, messages, sectors and chunks.          *)
(***************************************************************************)
EXTENDS ChatContent, SequenceTheorems, FiniteSetTheorems, TLAPS

NoPacket == <<0, 0>>

Bodies == Messages \cup {Empty, Reply}

Clients == [sector : Sectors \cup {NoSector}, account : Int]

JobSet == [type : {"join", "message", "leave"}, id : Sessions, packet : Objects \cup {NoPacket}]

Steps == {"idle", "refill", "enqueue", "signal", "release"}

Updates == [at : {"wait", "drain", "answer", "send"}, packet : Objects \cup {NoPacket},
            to : Seq(Sessions), sent : Nat, wide : BOOLEAN]

PoolType ==
    /\ made \in 0..MaxChunks /\ center \in Seq(Chunks)
    /\ tls \in [Threads -> 0..MaxChunks]
    /\ allocIndex \in [Chunks -> 0..ObjectCount] /\ freeCount \in [Chunks -> Int]

TypeOK ==
    /\ PoolType
    /\ refs \in [Objects -> Int] /\ body \in [Objects -> Bodies]
    /\ session \in [Sessions -> {"new", "open", "leaving", "closed"}]
    /\ sendQ \in [Sessions -> Seq(Objects)]
    /\ jobs \in Seq(JobSet)
    /\ DOMAIN clients \subseteq Sessions /\ clients \in [DOMAIN clients -> Clients]
    /\ sector \in [Sectors -> Seq(Sessions)]
    /\ at \in [NetThreads -> Steps]
    /\ hand \in [NetThreads -> JobSet \cup {NoJob}]
    /\ upd \in Updates /\ logins \in BOOLEAN

(* What a thread of the network can have in hand, and where; a message has a  *)
(* packet until it is queued.                                                 *)
Grip(t, step, job) ==
    /\ step = "idle" <=> job = NoJob
    /\ step = "refill" => job.type = "message"
    /\ step = "release" => job.type = "leave"
    /\ t = Acceptor => job.type \notin {"message", "leave"}
    /\ t \in Workers => job.type # "join"
    /\ job.packet \in Objects <=> job.type = "message" /\ step # "signal"

Control ==
    /\ \A t \in NetThreads : Grip(t, at[t], hand[t])
    /\ \A i \in 1..Len(jobs) : jobs[i].packet \in Objects <=> jobs[i].type = "message"
    /\ upd.packet \in Objects <=> upd.at \in {"answer", "send"}

(* The jobs of a session are a join, messages and a leave, and the client is  *)
(* there between the first and the last.                                      *)
Joined(s) == s \in DOMAIN clients \/ \E i \in 1..Len(jobs) : jobs[i].id = s /\ jobs[i].type = "join"

Left(s) == \E i \in 1..Len(jobs) : jobs[i].id = s /\ jobs[i].type = "leave"

Present(s) == Joined(s) /\ ~Left(s)

Absent(s) == s \notin DOMAIN clients /\ \A i \in 1..Len(jobs) : jobs[i].id # s

InOrder(i) ==
    /\ jobs[i].type = "join" => /\ jobs[i].id \notin DOMAIN clients
                                /\ \A j \in 1..(i - 1) : jobs[j].id # jobs[i].id
    /\ jobs[i].type # "join" => \/ jobs[i].id \in DOMAIN clients
                                \/ \E j \in 1..(i - 1) : jobs[j].id = jobs[i].id /\ jobs[j].type = "join"
    /\ jobs[i].type = "leave" => \A j \in (i + 1)..Len(jobs) : jobs[j].id # jobs[i].id

(* Whose join is queued and whose leave is not. *)
Announced(t) ==
    \/ hand[t].type = "join" /\ at[t] = "signal"
    \/ hand[t].type = "leave" /\ at[t] # "signal"

Expected(t) ==
    LET s == hand[t].id IN
    /\ hand[t].type = "join" => session[s] = "new"
    /\ hand[t].type = "message" => session[s] = "open"
    /\ hand[t].type = "leave" => session[s] = "leaving"
    /\ Announced(t) => Present(s)

Order ==
    /\ \A i \in 1..Len(jobs) : InOrder(i)
    /\ \A t \in NetThreads : Expected(t)
    /\ \A t, u \in NetThreads : hand[t].id = hand[u].id => t = u \/ hand[t] = NoJob
    /\ \A s \in Sessions :
        /\ session[s] = "open" => Present(s)
        /\ session[s] = "new" => Absent(s) \/ (hand[Acceptor].id = s /\ at[Acceptor] = "signal")

(* Who has a packet at work: a thread or a job, or the handler. *)
Working ==
    {p \in Objects : \/ \E t \in Workers : hand[t].packet = p
                    \/ \E i \in 1..Len(jobs) : jobs[i].packet = p}

Held == {upd.packet} \cap Objects

InUse == AtWork \cup Queued

Single ==
    /\ \A t, u \in Workers : hand[t].packet \in Objects /\ hand[t].packet = hand[u].packet => t = u
    /\ \A i, j \in 1..Len(jobs) : jobs[i].packet \in Objects /\ jobs[i].packet = jobs[j].packet => i = j
    /\ \A t \in Workers, i \in 1..Len(jobs) : hand[t].packet \in Objects => hand[t].packet # jobs[i].packet

Apart == Single /\ Working \cap (Held \cup Queued) = {}

Counted == \A p \in Objects : refs[p] = IF Counts(p) > 0 THEN Counts(p) ELSE 1

Written ==
    /\ \A p \in Working : body[p] \in Messages
    /\ \A p \in Queued : body[p] = Reply
    /\ upd.at = "send" => body[upd.packet] = Reply /\ (upd.sent = 0 => upd.packet \notin Queued)
    /\ upd.at # "answer"

(* PoolExact, and who knows of a chunk. *)
PoolGood(used) ==
    /\ \A c \in 1..made :
        /\ \A p \in used : p[1] = c => p[2] >= allocIndex[c]
        /\ freeCount[c] = allocIndex[c] + Cardinality({p \in used : p[1] = c})
    /\ \A i, j \in 1..Len(center) : center[i] = center[j] => i = j
    /\ \A i \in 1..Len(center) :
        /\ center[i] \in 1..made /\ freeCount[center[i]] = 0
        /\ \A t \in Workers : tls[t] # center[i]
    /\ \A t, u \in Workers : tls[t] = tls[u] => t = u \/ tls[t] = NoChunk
    /\ \A p \in used : p[1] \in 1..made
    /\ \A t \in Workers : tls[t] \in 0..made

(* Between the last object of a chunk and the next chunk a thread is at one   *)
(* place, and has that object, so that the chunk cannot go back meanwhile.    *)
Refilling ==
    \A t \in Workers : tls[t] # NoChunk /\ allocIndex[tls[t]] = 0 =>
        at[t] = "refill" /\ hand[t].packet = <<tls[t], 0>>

Sound ==
    /\ Apart /\ Counted /\ Written
    /\ crash \in {"none", "SectorMove", "SendSector", "Marshal"}
    /\ crash = "none" => PoolGood(InUse) /\ Refilling

(* What holds whatever has happened; the packets are sound until a login.     *)
Sure == TypeOK /\ Control /\ Order /\ SectorsMatch /\ NoLostWakeUp

IInv == Sure /\ (~logins => Sound)

USE PoolAssumption, ThreadAssumption, SessionAssumption
USE DEF NoPacket, NoChunk, NetThreads

-----------------------------------------------------------------------------
(* Sequences *)

LEMMA HeadFacts ==
  ASSUME NEW S, NEW seq \in Seq(S), seq # <<>>
  PROVE  /\ Len(seq) \in Nat \ {0} /\ Head(seq) = seq[1] /\ Head(seq) \in S
         /\ Tail(seq) \in Seq(S) /\ Len(Tail(seq)) = Len(seq) - 1
         /\ \A i \in 1..(Len(seq) - 1) : Tail(seq)[i] = seq[i + 1]
<1>1. /\ Tail(seq) \in Seq(S) /\ Len(Tail(seq)) = Len(seq) - 1 /\ Head(seq) \in S
      /\ \A i \in 1..Len(Tail(seq)) : Tail(seq)[i] = seq[i + 1]
  BY HeadTailProperties
<1>2. Len(seq) \in Nat \ {0}
  BY EmptySeq, LenProperties
<1> QED BY <1>1, <1>2

LEMMA AppendFacts ==
  ASSUME NEW S, NEW seq \in Seq(S), NEW e \in S
  PROVE  /\ Append(seq, e) \in Seq(S) /\ Append(seq, e) # <<>>
         /\ Len(seq) \in Nat /\ Len(Append(seq, e)) = Len(seq) + 1
         /\ \A i \in 1..Len(seq) : Append(seq, e)[i] = seq[i]
         /\ Append(seq, e)[Len(seq) + 1] = e
BY AppendProperties, LenProperties

(* The elements of a sequence, by their places. *)
LEMMA Elements ==
  ASSUME NEW S, NEW seq \in Seq(S)
  PROVE  /\ DOMAIN seq = 1..Len(seq) /\ Len(seq) \in Nat
         /\ ToSet(seq) = {seq[i] : i \in 1..Len(seq)} /\ ToSet(seq) \subseteq S
<1>1. DOMAIN seq = 1..Len(seq) /\ Len(seq) \in Nat
  BY LenProperties
<1>2. \A i \in 1..Len(seq) : seq[i] \in S
  BY ElementOfSeq
<1> QED BY <1>1, <1>2 DEF ToSet

LEMMA AppendElements ==
  ASSUME NEW S, NEW seq \in Seq(S), NEW e \in S
  PROVE  /\ ToSet(Append(seq, e)) = ToSet(seq) \cup {e}
         /\ IsInjective(seq) /\ e \notin ToSet(seq) => IsInjective(Append(seq, e))
<1> DEFINE long == Append(seq, e)
<1>1. long \in Seq(S) /\ Len(long) = Len(seq) + 1 /\ Len(seq) \in Nat
  BY AppendFacts
<1>2. /\ \A i \in 1..Len(seq) : long[i] = seq[i]
      /\ long[Len(seq) + 1] = e
  BY AppendFacts
<1> HIDE DEF long
<1>3. /\ DOMAIN long = 1..(Len(seq) + 1) /\ DOMAIN seq = 1..Len(seq)
      /\ ToSet(long) = {long[i] : i \in 1..(Len(seq) + 1)}
      /\ ToSet(seq) = {seq[i] : i \in 1..Len(seq)}
  BY <1>1, Elements
<1>4. ToSet(long) = ToSet(seq) \cup {e}
  BY <1>1, <1>2, <1>3
<1>5. IsInjective(seq) /\ e \notin ToSet(seq) => IsInjective(long)
  BY <1>1, <1>2, <1>3 DEF IsInjective
<1> QED BY <1>4, <1>5 DEF long

(* Erasing the pointer to a client from a list that has it at most once. *)
LEMMA Removed ==
  ASSUME NEW S, NEW seq \in Seq(S), NEW e, IsInjective(seq)
  PROVE  /\ RemoveFirst(seq, e) \in Seq(S) /\ IsInjective(RemoveFirst(seq, e))
         /\ ToSet(RemoveFirst(seq, e)) = ToSet(seq) \ {e}
<1>0. /\ DOMAIN seq = 1..Len(seq) /\ Len(seq) \in Nat
      /\ ToSet(seq) = {seq[i] : i \in 1..Len(seq)}
  BY Elements
<1>n. Len(seq) \in Nat
  BY <1>0
<1>1. CASE ~ \E i \in 1..Len(seq) : seq[i] = e
  BY <1>0, <1>1 DEF RemoveFirst
<1>2. ASSUME NEW k \in 1..Len(seq), seq[k] = e
      PROVE  /\ RemoveFirst(seq, e) \in Seq(S) /\ IsInjective(RemoveFirst(seq, e))
             /\ ToSet(RemoveFirst(seq, e)) = ToSet(seq) \ {e}
  <2> DEFINE rest == RemoveAt(seq, k)
  <2>1. {i \in 1..Len(seq) : seq[i] = e} = {k}
    BY <1>0, <1>2 DEF IsInjective
  <2>2. SelectInSeq(seq, LAMBDA v : v = e) = Min({k})
    BY <2>1 DEF SelectInSeq
  <2>3. Min({k}) = k
    BY DEF Min
  <2>4. RemoveFirst(seq, e) = rest
    BY <1>2, <2>2, <2>3 DEF RemoveFirst
  <2>5. /\ SubSeq(seq, 1, k - 1) \in Seq(S) /\ Len(SubSeq(seq, 1, k - 1)) = k - 1
        /\ \A i \in 1..(k - 1) : SubSeq(seq, 1, k - 1)[i] = seq[i]
    <3>1. \A i \in 1..(k - 1) : seq[i] \in S
      BY <1>0, ElementOfSeq
    <3> QED BY <1>0, <3>1, SubSeqProperties
  <2>6. /\ SubSeq(seq, k + 1, Len(seq)) \in Seq(S) /\ Len(SubSeq(seq, k + 1, Len(seq))) = Len(seq) - k
        /\ \A i \in 1..(Len(seq) - k) : SubSeq(seq, k + 1, Len(seq))[i] = seq[k + i]
    <3> DEFINE m == k + 1
               n == Len(seq)
    <3>1. m \in Int /\ n \in Int /\ \A i \in m..n : seq[i] \in S
      BY <1>0, ElementOfSeq
    <3>2. m <= n \/ n = k
      BY <1>n
    <3>3. n - m + 1 = Len(seq) - k /\ \A i \in 1..(Len(seq) - k) : m + i - 1 = k + i
      BY <1>0
    <3>4. n = k => ~(m <= n)
      BY <1>0
    <3> HIDE DEF m, n
    <3>5. /\ SubSeq(seq, m, n) \in Seq(S)
          /\ Len(SubSeq(seq, m, n)) = IF m <= n THEN n - m + 1 ELSE 0
          /\ \A i \in 1..(n - m + 1) : SubSeq(seq, m, n)[i] = seq[m + i - 1]
      BY <3>1, SubSeqProperties
    <3>6. Len(SubSeq(seq, m, n)) = Len(seq) - k
      <4>1. CASE m <= n
        BY <3>3, <3>5, <4>1
      <4>2. CASE ~(m <= n)
        BY <1>n, <3>2, <3>5, <4>2 DEF n
      <4> QED BY <4>1, <4>2
    <3>7. \A i \in 1..(Len(seq) - k) : SubSeq(seq, m, n)[i] = seq[k + i]
      BY <3>3, <3>5
    <3> QED BY <3>5, <3>6, <3>7 DEF m, n
  <2>7. /\ rest \in Seq(S) /\ Len(rest) = Len(seq) - 1
        /\ \A i \in 1..(Len(seq) - 1) : rest[i] = IF i < k THEN seq[i] ELSE seq[i + 1]
    <3> DEFINE a == SubSeq(seq, 1, k - 1)
               b == SubSeq(seq, k + 1, Len(seq))
    <3>1. rest = a \o b
      BY DEF RemoveAt
    <3>2. a \in Seq(S) /\ b \in Seq(S) /\ Len(a) = k - 1 /\ Len(b) = Len(seq) - k
      BY <2>5, <2>6
    <3>3. /\ \A i \in 1..(k - 1) : a[i] = seq[i]
          /\ \A i \in 1..(Len(seq) - k) : b[i] = seq[k + i]
      BY <2>5, <2>6
    <3> HIDE DEF a, b, rest
    <3>4. /\ rest \in Seq(S) /\ Len(rest) = Len(a) + Len(b)
          /\ \A i \in 1..(Len(a) + Len(b)) : rest[i] = IF i <= Len(a) THEN a[i] ELSE b[i - Len(a)]
      BY <3>1, <3>2, ConcatProperties
    <3>5. Len(a) + Len(b) = Len(seq) - 1
      BY <1>0, <3>2
    <3>6. ASSUME NEW i \in 1..(Len(seq) - 1)
          PROVE  rest[i] = IF i < k THEN seq[i] ELSE seq[i + 1]
      <4>0. rest[i] = IF i <= k - 1 THEN a[i] ELSE b[i - (k - 1)]
        BY <3>2, <3>4, <3>5
      <4>1. CASE i < k
        <5>1. i \in 1..(k - 1)
          BY <1>n, <4>1
        <5> QED BY <3>3, <4>0, <4>1, <5>1
      <4>2. CASE ~(i < k)
        <5>1. rest[i] = b[i - (k - 1)]
          BY <1>n, <4>0, <4>2
        <5>2. i - (k - 1) \in 1..(Len(seq) - k) /\ k + (i - (k - 1)) = i + 1
          BY <1>0, <4>2
        <5> QED BY <3>3, <4>2, <5>1, <5>2
      <4> QED BY <4>1, <4>2
    <3> QED BY <3>4, <3>5, <3>6
  <2> HIDE DEF rest
  <2>8. DOMAIN rest = 1..(Len(seq) - 1) /\ ToSet(rest) = {rest[i] : i \in 1..(Len(seq) - 1)}
    BY <2>7, Elements
  <2>9. IsInjective(rest)
    <3> DEFINE from(i) == IF i < k THEN i ELSE i + 1
    <3>1. \A i \in 1..(Len(seq) - 1) : rest[i] = seq[from(i)] /\ from(i) \in 1..Len(seq)
      BY <1>0, <2>7
    <3>2. \A i, j \in 1..(Len(seq) - 1) : from(i) = from(j) => i = j
      BY <1>0
    <3> HIDE DEF from
    <3> QED BY <1>0, <2>8, <3>1, <3>2 DEF IsInjective
  <2>10. ToSet(rest) \subseteq ToSet(seq) \ {e}
    BY <1>0, <1>2, <2>7, <2>8 DEF IsInjective
  <2>11. ASSUME NEW i \in 1..Len(seq), seq[i] # e
         PROVE  seq[i] \in ToSet(rest)
    <3>1. i < k \/ i > k
      BY <1>2, <2>11
    <3>2. i < k => rest[i] = seq[i] /\ i \in 1..(Len(seq) - 1)
      BY <1>0, <2>7
    <3>3. i > k => rest[i - 1] = seq[i] /\ i - 1 \in 1..(Len(seq) - 1)
      BY <1>0, <2>7
    <3> QED BY <2>8, <3>1, <3>2, <3>3
  <2> QED BY <1>0, <2>4, <2>7, <2>9, <2>10, <2>11
<1> QED BY <1>1, <1>2

LEMMA RecipientsTyped ==
  ASSUME sector \in [Sectors -> Seq(Sessions)], NEW c
  PROVE  Recipients(c) \in Seq(Sessions)
<1>1. \A x, y : Listeners(x, y) \in Seq(Sessions)
  BY DEF Listeners
<1>2. \A x, y : RowOfThree(x, y) \in Seq(Sessions)
  BY <1>1, ConcatProperties DEF RowOfThree
<1> QED BY <1>2, ConcatProperties DEF Recipients
-----------------------------------------------------------------------------
(* Packets and the pool *)

LEMMA ObjectFacts ==
  /\ \A p \in Objects : p[1] \in Chunks /\ p[2] \in 0..(ObjectCount - 1) /\ p = <<p[1], p[2]>>
  /\ \A c \in Chunks, i \in 0..(ObjectCount - 1) : <<c, i>> \in Objects
  /\ NoPacket \notin Objects /\ Chunks \subseteq Nat \ {0} /\ IsFiniteSet(Objects)
<1>1. Chunks \subseteq Nat \ {0} /\ NoPacket \notin Objects
  BY DEF Objects, Chunks
<1>2. IsFiniteSet(Objects)
  <2>1. IsFiniteSet(Chunks) /\ IsFiniteSet(0..(ObjectCount - 1))
    BY FS_Interval DEF Chunks
  <2> QED BY <2>1, FS_Product DEF Objects
<1> QED BY <1>1, <1>2 DEF Objects

LEMMA BodyFacts ==
  /\ Empty \notin Messages /\ Reply \notin Messages /\ Empty # Reply
  /\ \A m \in Messages : m.type \notin {"empty", "reply"}
  /\ Empty.type = "empty" /\ Reply.type = "reply"
BY MessageAssumption DEF Empty, Reply

LEMMA NoSectorFact == NoSector \notin Sectors
<1>1. Columns \in 1..(Far - 1)
  BY MessageAssumption
<1>2. Far \notin 0..(Columns - 1)
  BY <1>1, SMTT(40) DEF Far
<1> QED BY <1>2 DEF NoSector, Sectors

LEMMA FreeTyped ==
  ASSUME PoolType, refs \in [Objects -> Int], body \in [Objects -> Bodies], NEW p \in Objects, Free(p)
  PROVE  PoolType' /\ refs' \in [Objects -> Int] /\ body' \in [Objects -> Bodies]
<1>1. p[1] \in Chunks
  BY ObjectFacts
<1>2. center' \in Seq(Chunks)
  BY <1>1 DEF PoolType, Free, FreeObject
<1>3. freeCount' \in [Chunks -> Int]
  BY <1>1 DEF PoolType, Free, FreeObject
<1> QED BY <1>1, <1>2, <1>3 DEF PoolType, Free, FreeObject, Bodies

LEMMA DropTyped ==
  ASSUME PoolType, refs \in [Objects -> Int], body \in [Objects -> Bodies], NEW p \in Objects, Drop(p)
  PROVE  PoolType' /\ refs' \in [Objects -> Int] /\ body' \in [Objects -> Bodies]
<1>1. CASE refs[p] = 1
  BY <1>1, FreeTyped DEF Drop
<1>2. CASE refs[p] # 1
  BY <1>2 DEF Drop, poolVars, PoolType
<1> QED BY <1>1, <1>2

LEMMA ChunkTyped ==
  ASSUME PoolType, NEW t \in Threads, ChunkSetting(t)
  PROVE  PoolType'
<1>1. PICK c \in Chunks :
        /\ IF center = <<>> THEN c = made + 1 /\ made' = c /\ UNCHANGED center
                            ELSE c = Head(center) /\ center' = Tail(center) /\ UNCHANGED made
        /\ tls' = [tls EXCEPT ![t] = c]
        /\ allocIndex' = [allocIndex EXCEPT ![c] = ObjectCount]
        /\ freeCount' = [freeCount EXCEPT ![c] = ObjectCount]
  BY DEF ChunkSetting
<1>2. made' \in 0..MaxChunks /\ center' \in Seq(Chunks)
  <2>1. CASE center = <<>>
    BY <1>1, <2>1 DEF PoolType, Chunks
  <2>2. CASE center # <<>>
    <3>1. Tail(center) \in Seq(Chunks)
      BY <2>2, HeadFacts DEF PoolType
    <3> QED BY <1>1, <2>2, <3>1 DEF PoolType
  <2> QED BY <2>1, <2>2
<1>3. tls' \in [Threads -> 0..MaxChunks]
  BY <1>1 DEF PoolType, Chunks
<1>4. allocIndex' \in [Chunks -> 0..ObjectCount] /\ freeCount' \in [Chunks -> Int]
  BY <1>1 DEF PoolType
<1> QED BY <1>2, <1>3, <1>4 DEF PoolType

LEMMA TakeTyped ==
  ASSUME PoolType, NEW t \in Threads, tls[t] # NoChunk, TakeObject(t)
  PROVE  PoolType' /\ NextObject(t) \in Objects /\ tls[t] \in Chunks /\ allocIndex[tls[t]] \in 1..ObjectCount
<1>1. tls[t] \in Chunks
  BY DEF PoolType, Chunks
<1>2. allocIndex[tls[t]] \in 1..ObjectCount
  BY <1>1 DEF PoolType, TakeObject
<1>3. NextObject(t) \in Objects
  BY <1>1, <1>2, ObjectFacts DEF NextObject
<1>4. PoolType'
  BY <1>1, <1>2 DEF PoolType, TakeObject
<1> QED BY <1>1, <1>2, <1>3, <1>4


-----------------------------------------------------------------------------
(* Types *)

LEMMA JobFacts ==
  /\ \A s \in Sessions, p \in Objects :
        /\ Job("message", s, p) \in JobSet /\ Job("message", s, p).type = "message"
        /\ Job("message", s, p).id = s /\ Job("message", s, p).packet = p
  /\ \A s \in Sessions, type \in {"join", "leave"} :
        /\ Job(type, s, NoPacket) \in JobSet /\ Job(type, s, NoPacket).type = type
        /\ Job(type, s, NoPacket).id = s /\ Job(type, s, NoPacket).packet = NoPacket
  /\ NoJob.type = "none" /\ NoJob.id = Nobody /\ NoJob.packet = NoPacket /\ NoJob \notin JobSet
BY DEF Job, NoJob, JobSet

(* A thread of the network goes on to another step. *)
LEMMA HandTyped ==
  ASSUME TypeOK, Control, NEW t \in NetThreads, NEW step \in Steps, NEW job \in JobSet \cup {NoJob},
         Take(t, step, job), Grip(t, step, job)
  PROVE  /\ at' \in [NetThreads -> Steps] /\ hand' \in [NetThreads -> JobSet \cup {NoJob}]
         /\ \A u \in NetThreads : Grip(u, at'[u], hand'[u])
<1>1. at \in [NetThreads -> Steps] /\ hand \in [NetThreads -> JobSet \cup {NoJob}]
  BY DEF TypeOK
<1>2. \A u \in NetThreads : Grip(u, at[u], hand[u])
  BY DEF Control
<1>3. at' = [at EXCEPT ![t] = step] /\ hand' = [hand EXCEPT ![t] = job]
  BY DEF Take
<1> QED BY <1>1, <1>2, <1>3

LEMMA IdleTyped ==
  ASSUME TypeOK, NEW t \in NetThreads
  PROVE  Grip(t, "idle", NoJob)
BY JobFacts, ObjectFacts DEF Grip

LEMMA AcceptTyped ==
  ASSUME TypeOK, Control, NEW s \in Sessions, Accept(s)
  PROVE  TypeOK' /\ Control'
<1> DEFINE job == Job("join", s, NoPacket)
<1>1. job \in JobSet /\ job.type = "join" /\ job.packet = NoPacket /\ job # NoJob
  BY JobFacts
<1>2. Take(Acceptor, "enqueue", job)
  BY DEF Accept
<1> HIDE DEF job
<1>3. Grip(Acceptor, "enqueue", job)
  BY <1>1, ObjectFacts DEF Grip
<1>4. /\ at' \in [NetThreads -> Steps] /\ hand' \in [NetThreads -> JobSet \cup {NoJob}]
      /\ \A u \in NetThreads : Grip(u, at'[u], hand'[u])
  BY <1>1, <1>2, <1>3, HandTyped DEF Steps
<1>5. UNCHANGED <<poolVars, packetVars, netVars, jobs, event, contentVars, upd, crash, logins>>
  BY DEF Accept
<1> QED BY <1>4, <1>5 DEF TypeOK, Control, PoolType, poolVars, packetVars, netVars, contentVars

LEMMA FirstChunkTyped ==
  ASSUME TypeOK, Control, NEW w \in Workers, FirstChunk(w)
  PROVE  TypeOK' /\ Control'
<1>1. PoolType'
  BY ChunkTyped DEF TypeOK, FirstChunk
<1>2. UNCHANGED <<packetVars, netVars, jobs, event, contentVars, at, hand, upd, crash, logins>>
  BY DEF FirstChunk
<1> QED BY <1>1, <1>2 DEF TypeOK, Control, packetVars, netVars, contentVars

LEMMA RecvPacketTyped ==
  ASSUME TypeOK, Control, NEW w \in Workers, NEW s \in Sessions, RecvPacket(w, s)
  PROVE  TypeOK' /\ Control'
<1> DEFINE p == NextObject(w)
           job == Job("message", s, p)
           step == IF p[2] = 0 THEN "refill" ELSE "enqueue"
<1>1. PoolType' /\ p \in Objects
  BY TakeTyped DEF TypeOK, RecvPacket
<1>2. /\ \E m \in Messages : body' = [body EXCEPT ![p] = m]
      /\ Take(w, step, job)
      /\ UNCHANGED <<refs, session, sendQ, jobs, event, contentVars, upd, crash, logins>>
  BY DEF RecvPacket
<1>3. job \in JobSet /\ job.type = "message" /\ job.packet = p /\ job # NoJob
  BY <1>1, JobFacts
<1>4. step \in {"refill", "enqueue"}
  OBVIOUS
<1> HIDE DEF p, job, step
<1>5. Grip(w, step, job)
  BY <1>1, <1>3, <1>4 DEF Grip
<1>6. /\ at' \in [NetThreads -> Steps] /\ hand' \in [NetThreads -> JobSet \cup {NoJob}]
      /\ \A u \in NetThreads : Grip(u, at'[u], hand'[u])
  <2>1. Take(w, step, job) /\ w \in NetThreads /\ step \in Steps /\ job \in JobSet \cup {NoJob}
    BY <1>2, <1>3, <1>4 DEF Steps
  <2> QED BY <1>5, <2>1, HandTyped
<1>7. body' \in [Objects -> Bodies]
  BY <1>2 DEF TypeOK, Bodies
<1> QED BY <1>1, <1>2, <1>6, <1>7 DEF TypeOK, Control, contentVars

LEMMA RefillTyped ==
  ASSUME TypeOK, Control, NEW w \in Workers, Refill(w)
  PROVE  TypeOK' /\ Control'
<1>1. PoolType'
  BY ChunkTyped DEF TypeOK, Refill
<1>2. /\ UNCHANGED <<packetVars, netVars, jobs, event, contentVars, hand, upd, crash, logins>>
      /\ at' = [at EXCEPT ![w] = "enqueue"] /\ at[w] = "refill"
  BY DEF Refill, At
<1>3. at' \in [NetThreads -> Steps]
  BY <1>2 DEF TypeOK, Steps
<1>4. \A t \in NetThreads : Grip(t, at'[t], hand'[t])
  BY <1>2 DEF TypeOK, Control, Grip
<1> QED BY <1>1, <1>2, <1>3, <1>4 DEF TypeOK, Control, packetVars, netVars, contentVars

(* What a thread at a step has in hand. *)
LEMMA InHand ==
  ASSUME TypeOK, Control, NEW t \in NetThreads, at[t] # "idle"
  PROVE  /\ hand[t] \in JobSet /\ hand[t].id \in Sessions
         /\ hand[t].type \in {"join", "message", "leave"} /\ hand[t].packet \in Objects \cup {NoPacket}
         /\ hand[t].type # "message" => hand[t].packet = NoPacket
<1>1. hand[t] \in JobSet \cup {NoJob} /\ Grip(t, at[t], hand[t])
  BY DEF TypeOK, Control
<1>2. hand[t] \in JobSet
  BY <1>1 DEF Grip
<1>3. /\ hand[t].id \in Sessions /\ hand[t].type \in {"join", "message", "leave"}
      /\ hand[t].packet \in Objects \cup {NoPacket}
  BY <1>2 DEF JobSet
<1> QED BY <1>1, <1>2, <1>3 DEF Grip

LEMMA EnQTyped ==
  ASSUME TypeOK, Control, NEW t \in NetThreads, EnQ(t)
  PROVE  TypeOK' /\ Control'
<1> DEFINE job == [hand[t] EXCEPT !.packet = NoPacket]
<1>0. at[t] = "enqueue" /\ jobs' = Append(jobs, hand[t]) /\ Take(t, "signal", job)
  BY DEF EnQ, At
<1>1. hand[t] \in JobSet /\ Grip(t, at[t], hand[t])
  BY <1>0, InHand DEF Control
<1>2. /\ job \in JobSet /\ job.type = hand[t].type /\ job.packet = NoPacket /\ job # NoJob
  BY <1>1, JobFacts DEF JobSet
<1> HIDE DEF job
<1>3. Grip(t, "signal", job)
  BY <1>0, <1>1, <1>2, ObjectFacts, JobFacts DEF Grip
<1>4. /\ at' \in [NetThreads -> Steps] /\ hand' \in [NetThreads -> JobSet \cup {NoJob}]
      /\ \A u \in NetThreads : Grip(u, at'[u], hand'[u])
  BY <1>0, <1>2, <1>3, HandTyped DEF Steps
<1>5. UNCHANGED <<poolVars, packetVars, netVars, event, contentVars, upd, crash, logins>>
  BY DEF EnQ
<1>6. jobs \in Seq(JobSet) /\ \A i \in 1..Len(jobs) : jobs[i].packet \in Objects <=> jobs[i].type = "message"
  BY DEF TypeOK, Control
<1>7. /\ jobs' \in Seq(JobSet) /\ Len(jobs') = Len(jobs) + 1 /\ Len(jobs) \in Nat
      /\ \A i \in 1..Len(jobs) : jobs'[i] = jobs[i]
      /\ jobs'[Len(jobs) + 1] = hand[t]
  BY <1>0, <1>1, <1>6, AppendFacts
<1>8. hand[t].packet \in Objects <=> hand[t].type = "message"
  BY <1>0, <1>1 DEF Grip
<1>9. \A i \in 1..Len(jobs') : jobs'[i].packet \in Objects <=> jobs'[i].type = "message"
  BY <1>6, <1>7, <1>8
<1> QED BY <1>4, <1>5, <1>7, <1>9 DEF TypeOK, Control, PoolType, poolVars, packetVars, netVars, contentVars

LEMMA SetTheEventTyped ==
  ASSUME TypeOK, Control, NEW t \in NetThreads, SetTheEvent(t)
  PROVE  /\ TypeOK' /\ Control'
         /\ session' = [session EXCEPT ![hand[t].id] = IF hand[t].type = "join" THEN "open"
                            ELSE IF hand[t].type = "leave" THEN "closed" ELSE session[hand[t].id]]
<1>0. at[t] = "signal" /\ Take(t, "idle", NoJob)
  BY DEF SetTheEvent, At
<1>1. hand[t].id \in Sessions /\ hand[t].type \in {"join", "message", "leave"}
  BY <1>0, InHand
<1>2. session' = [session EXCEPT ![hand[t].id] = IF hand[t].type = "join" THEN "open"
                            ELSE IF hand[t].type = "leave" THEN "closed" ELSE session[hand[t].id]]
  BY <1>1 DEF SetTheEvent, TypeOK
<1>3. session' \in [Sessions -> {"new", "open", "leaving", "closed"}]
  BY <1>1, <1>2 DEF TypeOK
<1>4. /\ at' \in [NetThreads -> Steps] /\ hand' \in [NetThreads -> JobSet \cup {NoJob}]
      /\ \A u \in NetThreads : Grip(u, at'[u], hand'[u])
  BY <1>0, IdleTyped, HandTyped DEF Steps
<1>5. UNCHANGED <<poolVars, packetVars, sendQ, received, jobs, contentVars, upd, crash, logins>>
  BY DEF SetTheEvent
<1> QED BY <1>2, <1>3, <1>4, <1>5 DEF TypeOK, Control, PoolType, poolVars, packetVars, contentVars

LEMMA SendCompleteTyped ==
  ASSUME TypeOK, Control, NEW w \in Workers, NEW s \in Sessions, SendComplete(w, s)
  PROVE  TypeOK' /\ Control'
<1>1. sendQ[s] # <<>> /\ sendQ[s] \in Seq(Objects) /\ sendQ' = [sendQ EXCEPT ![s] = Tail(sendQ[s])]
  BY DEF SendComplete, TypeOK
<1>2. Head(sendQ[s]) \in Objects /\ Tail(sendQ[s]) \in Seq(Objects)
  BY <1>1, HeadFacts
<1>3. sendQ' \in [Sessions -> Seq(Objects)]
  BY <1>1, <1>2 DEF TypeOK
<1>4. PoolType' /\ refs' \in [Objects -> Int] /\ body' \in [Objects -> Bodies]
  <2>1. CASE body[Head(sendQ[s])] = Empty
    BY <2>1 DEF SendComplete, TypeOK, PoolType, poolVars, packetVars
  <2>2. CASE body[Head(sendQ[s])] # Empty
    BY <1>2, <2>2, DropTyped DEF SendComplete, TypeOK
  <2> QED BY <2>1, <2>2
<1>5. UNCHANGED <<session, received, jobs, event, contentVars, at, hand, upd, logins>>
  BY DEF SendComplete
<1> QED BY <1>3, <1>4, <1>5 DEF TypeOK, Control, contentVars

LEMMA ReleaseTyped ==
  ASSUME TypeOK, Control, NEW w \in Workers, NEW s \in Sessions, Release(w, s)
  PROVE  TypeOK' /\ Control'
<1> DEFINE job == Job("leave", s, NoPacket)
<1>1. job \in JobSet /\ job.type = "leave" /\ job.packet = NoPacket /\ job # NoJob
  BY JobFacts
<1>2. Take(w, "release", job) /\ session' = [session EXCEPT ![s] = "leaving"]
  BY DEF Release
<1> HIDE DEF job
<1>3. Grip(w, "release", job)
  BY <1>1, ObjectFacts DEF Grip
<1>4. /\ at' \in [NetThreads -> Steps] /\ hand' \in [NetThreads -> JobSet \cup {NoJob}]
      /\ \A u \in NetThreads : Grip(u, at'[u], hand'[u])
  BY <1>1, <1>2, <1>3, HandTyped DEF Steps
<1>5. UNCHANGED <<poolVars, packetVars, sendQ, received, jobs, event, contentVars, upd, crash, logins>>
  BY DEF Release
<1>6. session' \in [Sessions -> {"new", "open", "leaving", "closed"}]
  BY <1>2 DEF TypeOK
<1> QED BY <1>4, <1>5, <1>6 DEF TypeOK, Control, PoolType, poolVars, packetVars, contentVars

LEMMA ReleasePacketTyped ==
  ASSUME TypeOK, Control, NEW w \in Workers, ReleasePacket(w)
  PROVE  TypeOK' /\ Control'
<1> DEFINE s == hand[w].id
<1>0. at[w] = "release"
  BY DEF ReleasePacket, At
<1>1. s \in Sessions /\ hand[w].type = "leave" /\ hand[w] # NoJob
  BY <1>0, InHand, JobFacts DEF Control, Grip
<1>2. CASE sendQ[s] = <<>>
  <2>1. /\ UNCHANGED <<poolVars, packetVars, netVars, jobs, event, contentVars, hand, upd, crash, logins>>
        /\ at' = [at EXCEPT ![w] = "enqueue"]
    BY <1>2 DEF ReleasePacket, netVars
  <2>2. at' \in [NetThreads -> Steps]
    BY <2>1 DEF TypeOK, Steps
  <2>3. \A t \in NetThreads : Grip(t, at'[t], hand'[t])
    BY <1>0, <1>1, <2>1 DEF TypeOK, Control, Grip
  <2> QED BY <2>1, <2>2, <2>3 DEF TypeOK, Control, PoolType, poolVars, packetVars, netVars, contentVars
<1>3. CASE sendQ[s] # <<>>
  <2>1. /\ sendQ' = [sendQ EXCEPT ![s] = Tail(sendQ[s])] /\ Drop(Head(sendQ[s]))
        /\ UNCHANGED <<session, received, jobs, event, contentVars, at, hand, upd, crash, logins>>
    BY <1>3 DEF ReleasePacket
  <2>2. Head(sendQ[s]) \in Objects /\ Tail(sendQ[s]) \in Seq(Objects)
    BY <1>1, <1>3, HeadFacts DEF TypeOK
  <2>3. sendQ' \in [Sessions -> Seq(Objects)]
    BY <1>1, <2>1, <2>2 DEF TypeOK
  <2>4. PoolType' /\ refs' \in [Objects -> Int] /\ body' \in [Objects -> Bodies]
    BY <2>1, <2>2, DropTyped DEF TypeOK
  <2> QED BY <2>1, <2>3, <2>4 DEF TypeOK, Control, contentVars
<1> QED BY <1>2, <1>3

-----------------------------------------------------------------------------
(* Types: the update thread *)

(* The job the update thread takes. *)
LEMMA Taken ==
  ASSUME TypeOK, Control, jobs # <<>>
  PROVE  /\ Head(jobs) = jobs[1] /\ Head(jobs) \in JobSet /\ Head(jobs).id \in Sessions
         /\ Head(jobs).type \in {"join", "message", "leave"}
         /\ Head(jobs).packet \in Objects <=> Head(jobs).type = "message"
         /\ Tail(jobs) \in Seq(JobSet) /\ Len(jobs) \in Nat \ {0} /\ Len(Tail(jobs)) = Len(jobs) - 1
         /\ \A i \in 1..(Len(jobs) - 1) : Tail(jobs)[i] = jobs[i + 1] /\ jobs[i + 1] \in JobSet
         /\ \A i \in 1..(Len(jobs) - 1) : Tail(jobs)[i].packet \in Objects <=> Tail(jobs)[i].type = "message"
<1>1. jobs \in Seq(JobSet)
  BY DEF TypeOK
<1>2. /\ Len(jobs) \in Nat \ {0} /\ Head(jobs) = jobs[1] /\ Head(jobs) \in JobSet
      /\ Tail(jobs) \in Seq(JobSet) /\ Len(Tail(jobs)) = Len(jobs) - 1
      /\ \A i \in 1..(Len(jobs) - 1) : Tail(jobs)[i] = jobs[i + 1]
  BY <1>1, HeadFacts
<1>3. Head(jobs).id \in Sessions /\ Head(jobs).type \in {"join", "message", "leave"}
  BY <1>2 DEF JobSet
<1>4. \A i \in 1..Len(jobs) : jobs[i] \in JobSet /\ (jobs[i].packet \in Objects <=> jobs[i].type = "message")
  BY <1>1, ElementOfSeq DEF Control
<1>5. 1 \in 1..Len(jobs) /\ \A i \in 1..(Len(jobs) - 1) : i + 1 \in 1..Len(jobs)
  BY <1>2
<1> QED BY <1>2, <1>3, <1>4, <1>5

(* A step of the update thread that leaves the network alone. *)
LEMMA UpdateTyped ==
  ASSUME TypeOK, Control, UpdateStep, PoolType', refs' \in [Objects -> Int], body' \in [Objects -> Bodies],
         \/ UNCHANGED jobs
         \/ jobs # <<>> /\ jobs' = Tail(jobs),
         DOMAIN clients' \subseteq Sessions, clients' \in [DOMAIN clients' -> Clients],
         sector' \in [Sectors -> Seq(Sessions)], upd' \in Updates, logins' \in BOOLEAN,
         upd'.packet \in Objects <=> upd'.at \in {"answer", "send"}
  PROVE  TypeOK' /\ Control'
<1>1. jobs' \in Seq(JobSet) /\ \A i \in 1..Len(jobs') : jobs'[i].packet \in Objects <=> jobs'[i].type = "message"
  <2>1. CASE UNCHANGED jobs
    BY <2>1 DEF TypeOK, Control
  <2>2. CASE jobs # <<>> /\ jobs' = Tail(jobs)
    BY <2>2, Taken
  <2> QED BY <2>1, <2>2
<1>2. UNCHANGED <<netVars, at, hand>>
  BY DEF UpdateStep
<1> QED BY <1>1, <1>2 DEF TypeOK, Control, netVars

LEMMA UpdateFacts ==
  /\ Idle \in Updates /\ Idle.at = "drain" /\ Idle.packet = NoPacket
  /\ Waiting \in Updates /\ Waiting.at = "wait" /\ Waiting.packet = NoPacket
<1>1. <<>> \in Seq(Sessions)
  OBVIOUS
<1> QED BY <1>1 DEF Idle, Waiting, Updates

LEMMA WakeTyped ==
  ASSUME TypeOK, Control, Wake
  PROVE  TypeOK' /\ Control'
<1>1. UpdateStep /\ upd' = Idle /\ UNCHANGED <<poolVars, packetVars, jobs, contentVars, crash, logins>>
  BY DEF Wake
<1>2. /\ PoolType' /\ refs' \in [Objects -> Int] /\ body' \in [Objects -> Bodies]
      /\ DOMAIN clients' \subseteq Sessions /\ clients' \in [DOMAIN clients' -> Clients]
      /\ sector' \in [Sectors -> Seq(Sessions)] /\ logins' \in BOOLEAN
  BY <1>1 DEF TypeOK, PoolType, poolVars, packetVars, contentVars
<1> QED BY <1>1, <1>2, UpdateFacts, ObjectFacts, UpdateTyped

LEMMA DrainedTyped ==
  ASSUME TypeOK, Control, Drained
  PROVE  TypeOK' /\ Control'
<1>1. UpdateStep /\ upd' = Waiting /\ UNCHANGED <<poolVars, packetVars, jobs, contentVars, crash, logins>>
  BY DEF Drained
<1>2. /\ PoolType' /\ refs' \in [Objects -> Int] /\ body' \in [Objects -> Bodies]
      /\ DOMAIN clients' \subseteq Sessions /\ clients' \in [DOMAIN clients' -> Clients]
      /\ sector' \in [Sectors -> Seq(Sessions)] /\ logins' \in BOOLEAN
  BY <1>1 DEF TypeOK, PoolType, poolVars, packetVars, contentVars
<1> QED BY <1>1, <1>2, UpdateFacts, ObjectFacts, UpdateTyped

(* The Crash() of a job: nothing but the queue has changed. *)
LEMMA DeadTyped ==
  ASSUME TypeOK, Control, UpdateStep, jobs # <<>>, jobs' = Tail(jobs),
         UNCHANGED <<poolVars, packetVars, contentVars, upd, logins>>
  PROVE  TypeOK' /\ Control'
<1>1. /\ PoolType' /\ refs' \in [Objects -> Int] /\ body' \in [Objects -> Bodies]
      /\ DOMAIN clients' \subseteq Sessions /\ clients' \in [DOMAIN clients' -> Clients]
      /\ sector' \in [Sectors -> Seq(Sessions)] /\ logins' \in BOOLEAN
      /\ upd' \in Updates /\ (upd'.packet \in Objects <=> upd'.at \in {"answer", "send"})
  BY DEF TypeOK, Control, PoolType, poolVars, packetVars, contentVars
<1> QED BY <1>1, UpdateTyped

LEMMA ClientFacts ==
  ASSUME TypeOK
  PROVE  /\ NewClient \in Clients /\ NewClient.sector = NoSector
         /\ \A s \in DOMAIN clients : clients[s] \in Clients /\ clients[s].sector \in Sectors \cup {NoSector}
BY DEF NewClient, Clients, TypeOK

(* A client goes from the list of its sector, and only there. *)
LEMMA ErasedFacts ==
  ASSUME TypeOK, SectorsMatch, NEW s \in DOMAIN clients
  PROVE  /\ Erased(clients[s].sector, s) \in [Sectors -> Seq(Sessions)]
         /\ \A c \in Sectors : /\ IsInjective(Erased(clients[s].sector, s)[c])
                              /\ ToSet(Erased(clients[s].sector, s)[c]) = ToSet(sector[c]) \ {s}
<1> DEFINE home == clients[s].sector
           rest == Erased(home, s)
<1>1. home \in Sectors \cup {NoSector} /\ s \in Sessions
  BY ClientFacts DEF TypeOK
<1>2. /\ sector \in [Sectors -> Seq(Sessions)] /\ \A c \in Sectors : IsInjective(sector[c])
      /\ \A c \in Sectors : s \in ToSet(sector[c]) <=> home = c
  BY <1>1 DEF TypeOK, SectorsMatch
<1>3. CASE home \notin Sectors
  <2>1. rest = sector
    BY <1>3 DEF Erased
  <2> QED BY <1>2, <1>3, <2>1
<1>4. CASE home \in Sectors
  <2> DEFINE short == RemoveFirst(sector[home], s)
  <2>1. rest = [sector EXCEPT ![home] = short]
    BY <1>4 DEF Erased
  <2>2. short \in Seq(Sessions) /\ IsInjective(short) /\ ToSet(short) = ToSet(sector[home]) \ {s}
    BY <1>2, <1>4, Removed
  <2> HIDE DEF short, rest, home
  <2>3. rest \in [Sectors -> Seq(Sessions)]
    BY <1>2, <1>4, <2>1, <2>2
  <2>4. ASSUME NEW c \in Sectors
        PROVE  IsInjective(rest[c]) /\ ToSet(rest[c]) = ToSet(sector[c]) \ {s}
    <3>1. CASE c = home
      BY <1>2, <2>1, <2>2, <3>1
    <3>2. CASE c # home
      BY <1>2, <2>1, <3>2
    <3> QED BY <3>1, <3>2
  <2> QED BY <2>3, <2>4 DEF rest, home
<1> QED BY <1>3, <1>4

(* A job is taken. *)
LEMMA NextJobFacts ==
  ASSUME TypeOK, Control, NEW type, NextJob(type)
  PROVE  /\ jobs # <<>> /\ jobs' = Tail(jobs) /\ Head(jobs).type = type /\ UpdateStep /\ UNCHANGED event
         /\ Head(jobs).id \in Sessions /\ (type = "message" => Head(jobs).packet \in Objects)
         /\ crash = "none" /\ upd.at = "drain"
<1>1. /\ jobs # <<>> /\ jobs' = Tail(jobs) /\ Head(jobs).type = type /\ UpdateStep /\ UNCHANGED event
      /\ crash = "none" /\ upd.at = "drain"
  BY DEF NextJob, Updating
<1> QED BY <1>1, Taken

LEMMA CreateTyped ==
  ASSUME TypeOK, Control, SectorsMatch, CreateNewUser
  PROVE  TypeOK' /\ Control' /\ SectorsMatch'
<1> DEFINE s == Head(jobs).id
<1>1. /\ jobs # <<>> /\ jobs' = Tail(jobs) /\ UpdateStep /\ s \in Sessions
      /\ clients' = [r \in DOMAIN clients \cup {s} |-> IF r \in DOMAIN clients THEN clients[r] ELSE NewClient]
      /\ UNCHANGED <<poolVars, packetVars, sector, upd, crash, logins>>
  BY NextJobFacts DEF CreateNewUser
<1> HIDE DEF s
<1>2. /\ PoolType' /\ refs' \in [Objects -> Int] /\ body' \in [Objects -> Bodies]
      /\ sector' \in [Sectors -> Seq(Sessions)] /\ logins' \in BOOLEAN
      /\ upd' \in Updates /\ (upd'.packet \in Objects <=> upd'.at \in {"answer", "send"})
  BY <1>1 DEF TypeOK, Control, PoolType, poolVars, packetVars
<1>3. DOMAIN clients' \subseteq Sessions /\ clients' \in [DOMAIN clients' -> Clients]
  BY <1>1, ClientFacts DEF TypeOK
<1>4. TypeOK' /\ Control'
  BY <1>1, <1>2, <1>3, UpdateTyped
<1>5. ASSUME NEW c \in Sectors, NEW r \in Sessions
      PROVE  r \in ToSet(sector'[c]) <=> r \in DOMAIN clients' /\ clients'[r].sector = c
  <2>1. r \in ToSet(sector[c]) <=> r \in DOMAIN clients /\ clients[r].sector = c
    BY DEF SectorsMatch
  <2>2. CASE r \in DOMAIN clients
    BY <1>1, <2>1, <2>2
  <2>3. CASE r \notin DOMAIN clients
    <3>1. r \in DOMAIN clients' => clients'[r].sector = NoSector
      BY <1>1, <2>3, ClientFacts
    <3> QED BY <1>1, <2>1, <2>3, <3>1, NoSectorFact
  <2> QED BY <2>2, <2>3
<1>6. SectorsMatch'
  BY <1>1, <1>5 DEF SectorsMatch
<1> QED BY <1>4, <1>6

LEMMA DeleteTyped ==
  ASSUME TypeOK, Control, SectorsMatch, DeleteUser
  PROVE  TypeOK' /\ Control' /\ SectorsMatch'
<1> DEFINE s == Head(jobs).id
<1>0. jobs # <<>> /\ jobs' = Tail(jobs) /\ UpdateStep
  BY NextJobFacts DEF DeleteUser
<1>1. CASE s \notin DOMAIN clients
  <2>1. UNCHANGED <<poolVars, packetVars, contentVars, upd, logins>>
    BY <1>1 DEF DeleteUser, Die
  <2>2. TypeOK' /\ Control'
    BY <1>0, <2>1, DeadTyped
  <2> QED BY <2>1, <2>2 DEF SectorsMatch, contentVars
<1>2. CASE s \in DOMAIN clients
  <2>1. /\ clients' = [r \in DOMAIN clients \ {s} |-> clients[r]]
        /\ sector' = Erased(clients[s].sector, s)
        /\ UNCHANGED <<poolVars, packetVars, upd, crash, logins>>
    BY <1>2 DEF DeleteUser
  <2> HIDE DEF s
  <2>2. /\ sector' \in [Sectors -> Seq(Sessions)]
        /\ \A c \in Sectors : IsInjective(sector'[c]) /\ ToSet(sector'[c]) = ToSet(sector[c]) \ {s}
    BY <1>2, <2>1, ErasedFacts
  <2>3. /\ PoolType' /\ refs' \in [Objects -> Int] /\ body' \in [Objects -> Bodies] /\ logins' \in BOOLEAN
        /\ upd' \in Updates /\ (upd'.packet \in Objects <=> upd'.at \in {"answer", "send"})
    BY <2>1 DEF TypeOK, Control, PoolType, poolVars, packetVars
  <2>4. DOMAIN clients' \subseteq Sessions /\ clients' \in [DOMAIN clients' -> Clients]
    BY <2>1 DEF TypeOK
  <2>5. TypeOK' /\ Control'
    BY <1>0, <2>2, <2>3, <2>4, UpdateTyped
  <2>6. ASSUME NEW c \in Sectors, NEW r \in Sessions
        PROVE  r \in ToSet(sector'[c]) <=> r \in DOMAIN clients' /\ clients'[r].sector = c
    <3>1. r \in ToSet(sector[c]) <=> r \in DOMAIN clients /\ clients[r].sector = c
      BY DEF SectorsMatch
    <3>2. r \in DOMAIN clients' <=> r \in DOMAIN clients /\ r # s
      BY <2>1
    <3>3. r \in DOMAIN clients' => clients'[r] = clients[r]
      BY <2>1
    <3> QED BY <2>2, <3>1, <3>2, <3>3
  <2>7. SectorsMatch'
    BY <2>2, <2>6 DEF SectorsMatch
  <2> QED BY <2>5, <2>7
<1> QED BY <1>1, <1>2

LEMMA MessageFacts ==
  ASSUME TypeOK, Control, NEW s, NEW m, Message(s, m)
  PROVE  /\ jobs # <<>> /\ jobs' = Tail(jobs) /\ Head(jobs).type = "message" /\ UpdateStep /\ UNCHANGED event
         /\ s = Head(jobs).id /\ s \in Sessions /\ Head(jobs).packet \in Objects /\ m = body[Head(jobs).packet]
         /\ crash = "none" /\ upd.at = "drain"
BY NextJobFacts DEF Message

LEMMA DieTyped ==
  ASSUME TypeOK, Control, SectorsMatch, NEW s, NEW m, Message(s, m), NEW where, Die(where)
  PROVE  TypeOK' /\ Control' /\ SectorsMatch'
<1>1. jobs # <<>> /\ jobs' = Tail(jobs) /\ UpdateStep
  BY MessageFacts
<1>2. UNCHANGED <<poolVars, packetVars, contentVars, upd, logins>>
  BY DEF Die
<1>3. TypeOK' /\ Control'
  BY <1>1, <1>2, DeadTyped
<1> QED BY <1>2, <1>3 DEF SectorsMatch, contentVars

LEMMA RefuseTyped ==
  ASSUME TypeOK, Control, SectorsMatch, NEW s, NEW m, Refuse(s, m)
  PROVE  TypeOK' /\ Control' /\ SectorsMatch'
<1>1. Message(s, m) /\ Free(Head(jobs).packet) /\ UNCHANGED <<contentVars, upd, crash, logins>>
  BY DEF Refuse
<1>2. jobs # <<>> /\ jobs' = Tail(jobs) /\ UpdateStep /\ Head(jobs).packet \in Objects
  BY <1>1, MessageFacts
<1>3. PoolType' /\ refs' \in [Objects -> Int] /\ body' \in [Objects -> Bodies]
  BY <1>1, <1>2, FreeTyped DEF TypeOK
<1>4. /\ DOMAIN clients' \subseteq Sessions /\ clients' \in [DOMAIN clients' -> Clients]
      /\ sector' \in [Sectors -> Seq(Sessions)] /\ logins' \in BOOLEAN
      /\ upd' \in Updates /\ (upd'.packet \in Objects <=> upd'.at \in {"answer", "send"})
  BY <1>1 DEF TypeOK, Control, contentVars
<1>5. TypeOK' /\ Control'
  BY <1>2, <1>3, <1>4, UpdateTyped
<1> QED BY <1>1, <1>5 DEF SectorsMatch, contentVars

(* A client in the map gets another account. *)
LEMMA LoginTyped ==
  ASSUME TypeOK, Control, SectorsMatch, NEW s \in Sessions, NEW m \in Messages, Login(s, m)
  PROVE  TypeOK' /\ Control' /\ SectorsMatch'
<1>1. /\ Message(s, m) /\ Free(Head(jobs).packet) /\ s \in DOMAIN clients /\ m.type = "login"
      /\ clients' = [clients EXCEPT ![s].account = m.account]
      /\ upd' = [Sending(Head(jobs).packet, <<s>>, FALSE) EXCEPT !.at = "answer"]
      /\ logins' = TRUE /\ UNCHANGED <<sector, crash>>
  BY DEF Login, Known
<1>2. jobs # <<>> /\ jobs' = Tail(jobs) /\ UpdateStep /\ Head(jobs).packet \in Objects
  BY <1>1, MessageFacts
<1>3. PoolType' /\ refs' \in [Objects -> Int] /\ body' \in [Objects -> Bodies]
  BY <1>1, <1>2, FreeTyped DEF TypeOK
<1>4. m.account \in Int
  BY <1>1, MessageAssumption
<1>5. /\ DOMAIN clients' = DOMAIN clients /\ clients' \in [DOMAIN clients -> Clients]
      /\ \A r \in DOMAIN clients : clients'[r].sector = clients[r].sector
  BY <1>1, <1>4, SMTT(40) DEF TypeOK, Clients
<1>6. <<s>> \in Seq(Sessions)
  OBVIOUS
<1>7. upd' \in Updates /\ upd'.packet \in Objects /\ upd'.at = "answer"
  <2> DEFINE p == Head(jobs).packet
  <2>1. p \in Objects /\ upd' = [Sending(p, <<s>>, FALSE) EXCEPT !.at = "answer"]
    BY <1>1, <1>2
  <2> HIDE DEF p
  <2> QED BY <1>6, <2>1 DEF Sending, Updates
<1>8. TypeOK' /\ Control'
  BY <1>1, <1>2, <1>3, <1>5, <1>7, UpdateTyped DEF TypeOK
<1>9. SectorsMatch'
  BY <1>1, <1>5 DEF SectorsMatch
<1> QED BY <1>8, <1>9

LEMMA AnswerTyped ==
  ASSUME refs \in [Objects -> Int], body \in [Objects -> Bodies], NEW p \in Objects, Answer(p)
  PROVE  refs' \in [Objects -> Int] /\ body' \in [Objects -> Bodies]
BY DEF Answer, Bodies

LEMMA MoveTyped ==
  ASSUME TypeOK, Control, SectorsMatch, NEW s \in Sessions, NEW m, SectorMove(s, m)
  PROVE  TypeOK' /\ Control' /\ SectorsMatch'
<1>0. Message(s, m) /\ s \in DOMAIN clients
  BY DEF SectorMove, Known
<1>1. CASE m.to \notin Sectors
  <2>1. Die("SectorMove")
    BY <1>1 DEF SectorMove
  <2> QED BY <1>0, <2>1, DieTyped
<1>2. CASE m.to \in Sectors
  <2> DEFINE rest == Erased(clients[s].sector, s)
             c == m.to
             p == Head(jobs).packet
  <2>1. /\ clients' = [clients EXCEPT ![s].sector = c]
        /\ sector' = [rest EXCEPT ![c] = Append(rest[c], s)]
        /\ Answer(p) /\ upd' = Sending(p, <<s>>, FALSE) /\ UNCHANGED <<poolVars, crash, logins>>
    BY <1>2 DEF SectorMove
  <2>2. jobs # <<>> /\ jobs' = Tail(jobs) /\ UpdateStep /\ p \in Objects
    BY <1>0, MessageFacts
  <2>3. /\ rest \in [Sectors -> Seq(Sessions)]
        /\ \A d \in Sectors : IsInjective(rest[d]) /\ ToSet(rest[d]) = ToSet(sector[d]) \ {s}
    BY <1>0, ErasedFacts
  <2> HIDE DEF rest, c, p
  <2>4. <<s>> \in Seq(Sessions)
    OBVIOUS
  <2>5. upd' \in Updates /\ upd'.packet \in Objects /\ upd'.at = "send"
    BY <2>1, <2>2, <2>4 DEF Sending, Updates
  <2>6. /\ DOMAIN clients' = DOMAIN clients /\ clients' \in [DOMAIN clients -> Clients]
        /\ clients'[s].sector = c /\ \A r \in DOMAIN clients \ {s} : clients'[r].sector = clients[r].sector
    BY <1>0, <1>2, <2>1, ZenonT(40) DEF TypeOK, Clients, c
  <2>7. /\ Append(rest[c], s) \in Seq(Sessions) /\ IsInjective(Append(rest[c], s))
        /\ ToSet(Append(rest[c], s)) = ToSet(sector[c]) \cup {s}
    <3>1. rest[c] \in Seq(Sessions) /\ IsInjective(rest[c]) /\ ToSet(rest[c]) = ToSet(sector[c]) \ {s}
      BY <1>2, <2>3 DEF c
    <3>2. /\ ToSet(Append(rest[c], s)) = ToSet(rest[c]) \cup {s}
          /\ IsInjective(Append(rest[c], s)) /\ Append(rest[c], s) \in Seq(Sessions)
      BY <3>1, AppendElements, AppendFacts
    <3> QED BY <3>1, <3>2
  <2>8. /\ sector' \in [Sectors -> Seq(Sessions)] /\ \A d \in Sectors : IsInjective(sector'[d])
        /\ ToSet(sector'[c]) = ToSet(sector[c]) \cup {s}
        /\ \A d \in Sectors \ {c} : ToSet(sector'[d]) = ToSet(sector[d]) \ {s}
    <3>1. c \in Sectors
      BY <1>2 DEF c
    <3>2. sector'[c] = Append(rest[c], s) /\ \A d \in Sectors \ {c} : sector'[d] = rest[d]
      BY <2>1, <2>3, <3>1
    <3>3. sector' \in [Sectors -> Seq(Sessions)]
      BY <2>1, <2>3, <2>7, <3>1
    <3> QED BY <2>3, <2>7, <3>1, <3>2, <3>3
  <2>9. refs' \in [Objects -> Int] /\ body' \in [Objects -> Bodies] /\ PoolType'
    BY <2>1, <2>2, AnswerTyped DEF TypeOK, PoolType, poolVars
  <2>10. TypeOK' /\ Control'
    BY <2>1, <2>2, <2>5, <2>6, <2>8, <2>9, UpdateTyped DEF TypeOK
  <2>11. SectorsMatch'
    <3>1. ASSUME NEW d \in Sectors, NEW r \in Sessions
          PROVE  r \in ToSet(sector'[d]) <=> r \in DOMAIN clients' /\ clients'[r].sector = d
      <4>1. r \in ToSet(sector[d]) <=> r \in DOMAIN clients /\ clients[r].sector = d
        BY DEF SectorsMatch
      <4>2. CASE r = s
        BY <1>0, <2>6, <2>8, <4>2
      <4>3. CASE r # s
        BY <2>6, <2>8, <4>1, <4>3
      <4> QED BY <4>2, <4>3
    <3> QED BY <2>8, <3>1 DEF SectorsMatch
  <2> QED BY <2>10, <2>11
<1> QED BY <1>1, <1>2

LEMMA ChatTyped ==
  ASSUME TypeOK, Control, SectorsMatch, NEW s \in Sessions, NEW m, Chat(s, m)
  PROVE  TypeOK' /\ Control' /\ SectorsMatch'
<1>0. Message(s, m)
  BY DEF Chat
<1>1. CASE clients[s].sector \notin Sectors
  <2>1. Die("SendSector")
    BY <1>1 DEF Chat
  <2> QED BY <1>0, <2>1, DieTyped
<1>2. CASE clients[s].sector \in Sectors
  <2> DEFINE p == Head(jobs).packet
             to == Recipients(clients[s].sector)
  <2>1. /\ Answer(p) /\ upd' = Sending(p, to, TRUE)
        /\ UNCHANGED <<poolVars, contentVars, crash, logins>>
    BY <1>2 DEF Chat
  <2>2. jobs # <<>> /\ jobs' = Tail(jobs) /\ UpdateStep /\ p \in Objects
    BY <1>0, MessageFacts
  <2>3. to \in Seq(Sessions)
    BY RecipientsTyped DEF TypeOK
  <2> HIDE DEF p, to
  <2>4. upd' \in Updates /\ upd'.packet \in Objects /\ upd'.at = "send"
    BY <2>1, <2>2, <2>3 DEF Sending, Updates
  <2>5. refs' \in [Objects -> Int] /\ body' \in [Objects -> Bodies] /\ PoolType'
    BY <2>1, <2>2, AnswerTyped DEF TypeOK, PoolType, poolVars
  <2>6. TypeOK' /\ Control'
    BY <2>1, <2>2, <2>4, <2>5, UpdateTyped DEF TypeOK, contentVars
  <2> QED BY <2>1, <2>6 DEF SectorsMatch, contentVars
<1> QED BY <1>1, <1>2

LEMMA LoginAnswerTyped ==
  ASSUME TypeOK, Control, LoginAnswer
  PROVE  TypeOK' /\ Control'
<1>1. /\ upd.at = "answer" /\ body' = [body EXCEPT ![upd.packet] = Reply] /\ upd' = [upd EXCEPT !.at = "send"]
      /\ UpdateStep /\ UNCHANGED <<poolVars, refs, jobs, event, contentVars, crash, logins>>
  BY DEF LoginAnswer, Updating
<1>2. upd.packet \in Objects /\ upd' \in Updates /\ upd'.packet \in Objects /\ upd'.at = "send"
  BY <1>1 DEF TypeOK, Control, Updates
<1>3. body' \in [Objects -> Bodies] /\ PoolType' /\ refs' \in [Objects -> Int]
  BY <1>1 DEF TypeOK, Bodies, PoolType, poolVars
<1> QED BY <1>1, <1>2, <1>3, UpdateTyped DEF TypeOK, contentVars

LEMMA SendNextTyped ==
  ASSUME TypeOK, Control, SendNext
  PROVE  /\ TypeOK' /\ Control' /\ upd.packet \in Objects /\ Head(upd.to) \in Sessions
<1> DEFINE s == Head(upd.to)
           p == upd.packet
           sent == session[s] \in {"new", "open"}
<1>1. /\ upd.at = "send" /\ upd.to # <<>>
      /\ upd' = [upd EXCEPT !.to = Tail(upd.to), !.sent = IF sent THEN upd.sent + 1 ELSE upd.sent]
      /\ IF body[p] = Empty
         THEN UNCHANGED <<refs, sendQ>>
         ELSE /\ refs' = IF sent THEN [refs EXCEPT ![p] = refs[p] + 1] ELSE refs
              /\ sendQ' = IF sent THEN [sendQ EXCEPT ![s] = Append(sendQ[s], p)] ELSE sendQ
      /\ UNCHANGED <<poolVars, body, session, received, jobs, event, contentVars, at, hand, logins>>
  BY DEF SendNext, Updating
<1>2. p \in Objects /\ upd.to \in Seq(Sessions) /\ upd.sent \in Nat
  BY <1>1 DEF TypeOK, Control, Updates
<1>3. s \in Sessions /\ Tail(upd.to) \in Seq(Sessions)
  BY <1>1, <1>2, HeadFacts
<1>4. upd' \in Updates /\ upd'.at = "send" /\ upd'.packet \in Objects
  <2> DEFINE n == IF sent THEN upd.sent + 1 ELSE upd.sent
  <2>1. n \in Nat
    BY <1>2
  <2>2. upd' = [upd EXCEPT !.to = Tail(upd.to), !.sent = n]
    BY <1>1
  <2>3. upd \in Updates /\ upd.at = "send"
    BY <1>1 DEF TypeOK
  <2> HIDE DEF n
  <2> QED BY <1>2, <1>3, <2>1, <2>2, <2>3 DEF Updates
<1> HIDE DEF s, p, sent
<1>5. Append(sendQ[s], p) \in Seq(Objects)
  BY <1>2, <1>3, AppendFacts DEF TypeOK
<1>6. refs' \in [Objects -> Int]
  BY <1>1, <1>2 DEF TypeOK
<1>7. sendQ' \in [Sessions -> Seq(Objects)]
  BY <1>1, <1>3, <1>5 DEF TypeOK
<1>8. TypeOK' /\ Control'
  BY <1>1, <1>4, <1>6, <1>7 DEF TypeOK, Control, PoolType, poolVars, contentVars
<1> QED BY <1>2, <1>3, <1>8 DEF s, p

LEMMA SendEndTyped ==
  ASSUME TypeOK, Control, SendEnd
  PROVE  TypeOK' /\ Control' /\ upd.packet \in Objects
<1>1. /\ upd.at = "send" /\ Drop(upd.packet) /\ upd' = Idle
      /\ UpdateStep /\ UNCHANGED <<jobs, event, contentVars, logins>>
  BY DEF SendEnd, Updating
<1>2. upd.packet \in Objects
  BY <1>1 DEF Control
<1>3. PoolType' /\ refs' \in [Objects -> Int] /\ body' \in [Objects -> Bodies]
  BY <1>1, <1>2, DropTyped DEF TypeOK
<1>4. TypeOK' /\ Control'
  BY <1>1, <1>3, UpdateFacts, ObjectFacts, UpdateTyped DEF TypeOK, contentVars
<1> QED BY <1>2, <1>4

-----------------------------------------------------------------------------
(* The order of the jobs *)

LEMMA SameJobs ==
  ASSUME UNCHANGED jobs, DOMAIN clients' = DOMAIN clients
  PROVE  /\ \A s : (Present(s)' <=> Present(s)) /\ (Absent(s)' <=> Absent(s))
         /\ \A i : InOrder(i)' <=> InOrder(i)
BY DEF Present, Joined, Left, Absent, InOrder

LEMMA OrderAside ==
  ASSUME Order, UNCHANGED <<jobs, session, at, hand>>, DOMAIN clients' = DOMAIN clients
  PROVE  Order'
BY SameJobs DEF Order, Expected, Announced

(* A worker goes on to queue its job. *)
LEMMA OrderStep ==
  ASSUME TypeOK, Order, NEW w \in Workers, at[w] \in {"refill", "release"}, at' = [at EXCEPT ![w] = "enqueue"],
         UNCHANGED <<jobs, session, hand, clients>>
  PROVE  Order'
<1>1. at' \in [NetThreads -> Steps] /\ w \in NetThreads /\ w # Acceptor
      /\ \A t \in NetThreads : at'[t] = "signal" <=> at[t] = "signal"
  BY DEF TypeOK, Steps
<1>2. \A t \in NetThreads : Announced(t)' <=> Announced(t)
  BY <1>1 DEF Announced
<1>3. \A t \in NetThreads : Expected(t)'
  BY <1>2, SameJobs DEF Order, Expected
<1> QED BY <1>1, <1>3, SameJobs DEF Order

(* Which sessions the others have in hand. *)
LEMMA OthersHave ==
  ASSUME TypeOK, Control, Order, NEW t \in NetThreads, NEW u \in NetThreads, t # u, hand[t] # NoJob
  PROVE  hand[u].id # hand[t].id
BY DEF Order

LEMMA NobodyHas ==
  ASSUME TypeOK, Control, NEW t \in NetThreads
  PROVE  /\ at[t] = "idle" => hand[t] = NoJob /\ hand[t].id \notin Sessions
         /\ at[t] # "idle" => hand[t] # NoJob /\ hand[t].id \in Sessions
BY InHand, JobFacts DEF Control, Grip

(* A thread takes a job for a session that nobody else works on. *)
LEMMA OrderTaken ==
  ASSUME TypeOK, Control, Order, NEW t \in NetThreads, NEW step \in Steps \ {"idle", "signal"}, NEW job \in JobSet,
         at[t] = "idle", Take(t, step, job), \A u \in NetThreads : hand[u].id # job.id,
         UNCHANGED <<jobs, clients>>,
         \A s \in Sessions \ {job.id} : session'[s] = session[s],
         job.type = "join" => t = Acceptor /\ session[job.id] = "new" /\ session'[job.id] = "new",
         job.type = "message" => session[job.id] = "open" /\ session'[job.id] = "open",
         job.type = "leave" => session[job.id] = "open" /\ session'[job.id] = "leaving"
  PROVE  Order'
<1>1. /\ hand' = [hand EXCEPT ![t] = job] /\ at' = [at EXCEPT ![t] = step]
      /\ at \in [NetThreads -> Steps] /\ hand \in [NetThreads -> JobSet \cup {NoJob}]
  BY DEF Take, TypeOK
<1>2. /\ hand'[t] = job /\ at'[t] = step
      /\ \A u \in NetThreads \ {t} : hand'[u] = hand[u] /\ at'[u] = at[u] /\ hand[u].id # job.id
  BY <1>1
<1>3. job.id \in Sessions /\ job.type \in {"join", "message", "leave"} /\ job # NoJob
  BY JobFacts DEF JobSet
<1>4. Expected(t)'
  <2>1. job.type = "leave" => Present(job.id)
    BY <1>3 DEF Order
  <2>2. Announced(t)' => job.type = "leave"
    BY <1>2 DEF Announced
  <2> QED BY <1>2, <1>3, <2>1, <2>2, SameJobs DEF Expected
<1>5. ASSUME NEW u \in NetThreads \ {t}
      PROVE  Expected(u)'
  <2>1. Expected(u) /\ hand'[u] = hand[u] /\ at'[u] = at[u] /\ hand[u].id # job.id
    BY <1>2 DEF Order
  <2>2. hand[u].type \in {"join", "message", "leave"} => session'[hand[u].id] = session[hand[u].id]
    <3>1. hand[u].type \in {"join", "message", "leave"} => hand[u].id \in Sessions
      BY <1>1, JobFacts DEF JobSet
    <3> QED BY <2>1, <3>1
  <2>3. Announced(u)' <=> Announced(u)
    BY <2>1 DEF Announced
  <2> QED BY <2>1, <2>2, <2>3, SameJobs DEF Expected
<1>6. ASSUME NEW u \in NetThreads, NEW v \in NetThreads, hand'[u].id = hand'[v].id
      PROVE  u = v \/ hand'[u] = NoJob
  BY <1>2, <1>6 DEF Order
<1>7. ASSUME NEW s \in Sessions
      PROVE  /\ session'[s] = "open" => Present(s)'
             /\ session'[s] = "new" => Absent(s)' \/ (hand'[Acceptor].id = s /\ at'[Acceptor] = "signal")
  <2>1. /\ session[s] = "open" => Present(s)
        /\ session[s] = "new" => Absent(s) \/ (hand[Acceptor].id = s /\ at[Acceptor] = "signal")
    BY DEF Order
  <2>2. session'[s] = "open" => session[s] = "open"
    BY <1>3
  <2>3. session'[s] = "new" => session[s] = "new"
    BY <1>3
  <2>4. hand[Acceptor].id = s /\ at[Acceptor] = "signal" => hand'[Acceptor].id = s /\ at'[Acceptor] = "signal"
    BY <1>2, NobodyHas
  <2> QED BY <2>1, <2>2, <2>3, <2>4, SameJobs
<1> QED BY <1>4, <1>5, <1>6, <1>7, SameJobs DEF Order

LEMMA OrderAccept ==
  ASSUME TypeOK, Control, Order, NEW s \in Sessions, Accept(s)
  PROVE  Order'
<1> DEFINE job == Job("join", s, NoPacket)
<1>1. /\ Take(Acceptor, "enqueue", job) /\ at[Acceptor] = "idle" /\ session[s] = "new"
      /\ UNCHANGED <<jobs, clients, session>>
  BY DEF Accept, At, contentVars, netVars
<1>2. job \in JobSet /\ job.type = "join" /\ job.id = s
  BY JobFacts
<1> HIDE DEF job
<1>3. \A u \in NetThreads : hand[u].id # s
  <2> SUFFICES ASSUME NEW u \in NetThreads, hand[u].id = s
               PROVE  FALSE
    OBVIOUS
  <2>1. at[u] # "idle" /\ u # Acceptor
    BY <1>1, NobodyHas
  <2>2. hand[u].type \in {"message", "leave"}
    BY <2>1, InHand DEF Control, Grip
  <2> QED BY <1>1, <2>2 DEF Order, Expected
<1> QED BY <1>1, <1>2, <1>3, OrderTaken DEF Steps

LEMMA OrderRecv ==
  ASSUME TypeOK, Control, Order, NEW w \in Workers, NEW s \in Sessions, RecvPacket(w, s)
  PROVE  Order'
<1> DEFINE p == NextObject(w)
           job == Job("message", s, p)
           step == IF p[2] = 0 THEN "refill" ELSE "enqueue"
<1>0. p \in Objects
  BY TakeTyped DEF TypeOK, RecvPacket
<1>1. /\ Take(w, step, job) /\ at[w] = "idle" /\ session[s] = "open"
      /\ \A u \in Workers : hand[u].id # s /\ UNCHANGED <<jobs, clients, session>>
  BY DEF RecvPacket, At, contentVars
<1>2. job \in JobSet /\ job.type = "message" /\ job.id = s
  BY <1>0, JobFacts
<1>3. step \in Steps \ {"idle", "signal"}
  BY DEF Steps
<1> HIDE DEF job, step, p
<1>4. \A u \in NetThreads : hand[u].id # s
  <2> SUFFICES ASSUME hand[Acceptor].id = s
               PROVE  FALSE
    BY <1>1
  <2>1. hand[Acceptor].type = "join"
    BY NobodyHas, InHand DEF Control, Grip
  <2> QED BY <1>1, <2>1 DEF Order, Expected
<1> QED BY <1>1, <1>2, <1>3, <1>4, OrderTaken

LEMMA OrderRelease ==
  ASSUME TypeOK, Control, Order, NEW w \in Workers, NEW s \in Sessions, Release(w, s)
  PROVE  Order'
<1> DEFINE job == Job("leave", s, NoPacket)
<1>1. /\ Take(w, "release", job) /\ at[w] = "idle" /\ session[s] = "open"
      /\ session' = [session EXCEPT ![s] = "leaving"]
      /\ \A u \in NetThreads : hand[u].id # s
      /\ UNCHANGED <<jobs, clients>>
  BY DEF Release, At, contentVars
<1>2. job \in JobSet /\ job.type = "leave" /\ job.id = s
  BY JobFacts
<1> HIDE DEF job
<1>3. session'[s] = "leaving" /\ \A r \in Sessions \ {s} : session'[r] = session[r]
  BY <1>1 DEF TypeOK
<1> QED BY <1>1, <1>2, <1>3, OrderTaken DEF Steps

LEMMA OrderSignal ==
  ASSUME TypeOK, Control, Order, NEW t \in NetThreads, SetTheEvent(t)
  PROVE  Order'
<1> DEFINE s == hand[t].id
<1>1. at[t] = "signal" /\ Take(t, "idle", NoJob) /\ UNCHANGED <<jobs, clients>>
  BY DEF SetTheEvent, At, contentVars
<1>2. /\ hand' = [hand EXCEPT ![t] = NoJob] /\ at' = [at EXCEPT ![t] = "idle"]
      /\ at \in [NetThreads -> Steps] /\ hand \in [NetThreads -> JobSet \cup {NoJob}]
  BY <1>1 DEF Take, TypeOK
<1>3. s \in Sessions /\ hand[t].type \in {"join", "message", "leave"} /\ hand[t] # NoJob
  BY <1>1, InHand, NobodyHas
<1>4. /\ \A r \in Sessions \ {s} : session'[r] = session[r]
      /\ session'[s] = IF hand[t].type = "join" THEN "open"
                        ELSE IF hand[t].type = "leave" THEN "closed" ELSE session[s]
  BY <1>3, SetTheEventTyped DEF TypeOK
<1> HIDE DEF s
<1>5. /\ hand'[t] = NoJob /\ at'[t] = "idle"
      /\ \A u \in NetThreads \ {t} : hand'[u] = hand[u] /\ at'[u] = at[u] /\ hand[u].id # s
  BY <1>2, <1>3, OthersHave DEF s
<1>6. Expected(t)'
  BY <1>5, JobFacts DEF Expected, Announced
<1>7. ASSUME NEW u \in NetThreads \ {t}
      PROVE  Expected(u)'
  <2>1. Expected(u) /\ hand'[u] = hand[u] /\ at'[u] = at[u] /\ hand[u].id # s
    BY <1>5 DEF Order
  <2>2. hand[u].type \in {"join", "message", "leave"} => session'[hand[u].id] = session[hand[u].id]
    <3>1. hand[u].type \in {"join", "message", "leave"} => hand[u].id \in Sessions
      BY <1>2, JobFacts DEF JobSet
    <3> QED BY <1>4, <2>1, <3>1
  <2>3. Announced(u)' <=> Announced(u)
    BY <2>1 DEF Announced
  <2> QED BY <1>1, <2>1, <2>2, <2>3, SameJobs DEF Expected
<1>8. ASSUME NEW u \in NetThreads, NEW v \in NetThreads, hand'[u].id = hand'[v].id
      PROVE  u = v \/ hand'[u] = NoJob
  <2>1. CASE u = t
    BY <1>5, <2>1
  <2>2. CASE v = t
    <3>1. hand'[u].id = Nobody
      BY <1>5, <1>8, <2>2, JobFacts
    <3>2. hand'[u] \in JobSet \cup {NoJob}
      BY <1>2, <1>5
    <3> QED BY <3>1, <3>2 DEF JobSet
  <2>3. CASE u # t /\ v # t
    BY <1>5, <1>8, <2>3 DEF Order
  <2> QED BY <2>1, <2>2, <2>3
<1>9. ASSUME NEW r \in Sessions
      PROVE  /\ session'[r] = "open" => Present(r)'
             /\ session'[r] = "new" => Absent(r)' \/ (hand'[Acceptor].id = r /\ at'[Acceptor] = "signal")
  <2>1. /\ session[r] = "open" => Present(r)
        /\ session[r] = "new" => Absent(r) \/ (hand[Acceptor].id = r /\ at[Acceptor] = "signal")
        /\ Expected(t)
    BY DEF Order
  <2>2. CASE r = s
    <3>1. hand[t].type = "join" => Present(s)
      BY <1>1, <2>1 DEF Expected, Announced, s
    <3>2. hand[t].type = "message" => session[s] = "open"
      BY <2>1 DEF Expected, s
    <3> QED BY <1>1, <1>3, <1>4, <2>1, <2>2, <3>1, <3>2, SameJobs
  <2>3. CASE r # s
    <3>1. hand[Acceptor].id = r => hand'[Acceptor].id = r /\ at'[Acceptor] = at[Acceptor]
      BY <1>5, <2>3 DEF s
    <3> QED BY <1>1, <1>4, <2>1, <2>3, <3>1, SameJobs
  <2> QED BY <2>2, <2>3
<1> QED BY <1>1, <1>6, <1>7, <1>8, <1>9, SameJobs DEF Order

LEMMA OrderEnQ ==
  ASSUME TypeOK, Control, Order, NEW t \in NetThreads, EnQ(t)
  PROVE  Order'
<1> SUFFICES ASSUME NEW h, h = hand[t], NEW s, s = h.id, NEW n, n = Len(jobs)
             PROVE  Order'
  OBVIOUS
<1>1. at[t] = "enqueue" /\ jobs' = Append(jobs, h) /\ Take(t, "signal", [h EXCEPT !.packet = NoPacket])
      /\ UNCHANGED <<session, clients>>
  BY DEF EnQ, At, netVars, contentVars
<1>2. h \in JobSet /\ s \in Sessions /\ h.type \in {"join", "message", "leave"} /\ h # NoJob
  BY <1>1, InHand, NobodyHas
<1>3. /\ at' = [at EXCEPT ![t] = "signal"] /\ hand' = [hand EXCEPT ![t] = [h EXCEPT !.packet = NoPacket]]
      /\ at \in [NetThreads -> Steps] /\ hand \in [NetThreads -> JobSet \cup {NoJob}]
  BY <1>1 DEF Take, TypeOK
<1>4. /\ hand'[t].id = s /\ hand'[t].type = h.type /\ at'[t] = "signal"
      /\ \A u \in NetThreads \ {t} : hand'[u] = hand[u] /\ at'[u] = at[u] /\ hand[u].id # s
  <2>1. [h EXCEPT !.packet = NoPacket].id = s /\ [h EXCEPT !.packet = NoPacket].type = h.type
    BY <1>2 DEF JobSet
  <2> QED BY <1>2, <1>3, <2>1, OthersHave
<1>5. /\ Len(jobs') = n + 1 /\ n \in Nat /\ jobs'[n + 1] = h
      /\ \A i \in 1..n : jobs'[i] = jobs[i]
  BY <1>1, <1>2, AppendFacts DEF TypeOK
<1>6. /\ h.type = "join" => Absent(s) /\ session[s] = "new" /\ t = Acceptor
      /\ h.type # "join" => Present(s)
      /\ h.type = "message" => session[s] = "open"
      /\ h.type = "leave" => session[s] = "leaving"
  <2>1. Expected(t) /\ Grip(t, at[t], h)
    BY DEF Order, Control
  <2>2. h.type = "leave" => Present(s)
    BY <1>1, <2>1 DEF Expected, Announced
  <2>3. h.type = "message" => session[s] = "open"
    BY <2>1 DEF Expected
  <2>4. h.type = "message" => Present(s)
    BY <1>2, <2>3 DEF Order
  <2>5. h.type = "join" => t = Acceptor /\ session[s] = "new"
    BY <2>1 DEF Expected, Grip
  <2>6. h.type = "join" => Absent(s)
    BY <1>1, <1>2, <2>5 DEF Order
  <2> QED BY <1>2, <2>1, <2>2, <2>3, <2>4, <2>5, <2>6 DEF Expected
<1>7. ASSUME NEW r, r # s
      PROVE  (Present(r)' <=> Present(r)) /\ (Absent(r)' <=> Absent(r))
  <2>1. \A i \in 1..(n + 1) : jobs'[i].id = r => i \in 1..n /\ jobs'[i] = jobs[i]
    BY <1>5, <1>7
  <2>2. 1..n \subseteq 1..(n + 1)
    BY <1>5
  <2>3. UNCHANGED clients
    BY <1>1
  <2>4. Joined(r)' <=> Joined(r)
    BY <1>5, <2>1, <2>2, <2>3 DEF Joined
  <2>5. Left(r)' <=> Left(r)
    BY <1>5, <2>1, <2>2 DEF Left
  <2>6. Absent(r)' <=> Absent(r)
    BY <1>5, <2>1, <2>2, <2>3 DEF Absent
  <2> QED BY <2>4, <2>5, <2>6 DEF Present
<1>8. h.type # "leave" => Present(s)'
  <2>1. n + 1 \in 1..Len(jobs') /\ 1..n \subseteq 1..Len(jobs')
    BY <1>5
  <2>2. Joined(s)'
    <3>1. CASE h.type = "join"
      BY <1>5, <2>1, <3>1 DEF Joined
    <3>2. CASE h.type # "join"
      <4>1. Joined(s) /\ UNCHANGED clients
        BY <1>1, <1>6, <3>2 DEF Present
      <4> QED BY <1>5, <2>1, <4>1 DEF Joined
    <3> QED BY <3>1, <3>2
  <2>3. ~Left(s)
    BY <1>6 DEF Present, Absent, Left
  <2>4. h.type # "leave" => ~Left(s)'
    <3> SUFFICES ASSUME h.type # "leave", NEW i \in 1..(n + 1), jobs'[i].id = s, jobs'[i].type = "leave"
                 PROVE  FALSE
      BY <1>5 DEF Left
    <3>1. i \in 1..n
      BY <1>5
    <3> QED BY <1>5, <2>3, <3>1 DEF Left
  <2> QED BY <2>2, <2>4 DEF Present
<1>9. ASSUME NEW i \in 1..n
      PROVE  InOrder(i)'
  <2>1. InOrder(i) /\ UNCHANGED clients
    BY <1>1 DEF Order
  <2>2. jobs'[i] = jobs[i] /\ \A j \in 1..(i - 1) : jobs'[j] = jobs[j]
    BY <1>5
  <2>3. jobs[i].type = "leave" => jobs[i].id # s
    <3>1. ~Left(s)
      BY <1>6 DEF Present, Absent, Left
    <3> QED BY <3>1 DEF Left
  <2>4. ASSUME jobs[i].type = "leave", NEW j \in (i + 1)..(n + 1)
        PROVE  jobs'[j].id # jobs[i].id
    <3>1. CASE j = n + 1
      BY <1>5, <2>3, <2>4, <3>1
    <3>2. CASE j # n + 1
      <4>1. j \in (i + 1)..n /\ jobs'[j] = jobs[j]
        BY <1>5, <3>2
      <4> QED BY <2>1, <2>4, <4>1 DEF InOrder
    <3> QED BY <3>1, <3>2
  <2> QED BY <1>5, <2>1, <2>2, <2>4 DEF InOrder
<1>10. InOrder(n + 1)'
  <2>1. /\ jobs'[n + 1] = h /\ UNCHANGED clients /\ \A j \in 1..((n + 1) - 1) : jobs'[j] = jobs[j] /\ j \in 1..n
        /\ 1..n \subseteq 1..((n + 1) - 1) /\ \A j \in ((n + 1) + 1)..Len(jobs') : FALSE
    BY <1>1, <1>5
  <2>2. h.type = "join" => s \notin DOMAIN clients /\ \A j \in 1..n : jobs[j].id # s
    BY <1>6 DEF Absent
  <2>3. h.type # "join" => s \in DOMAIN clients \/ \E j \in 1..n : jobs[j].id = s /\ jobs[j].type = "join"
    BY <1>6 DEF Present, Joined
  <2> QED BY <2>1, <2>2, <2>3 DEF InOrder
<1>11. Expected(t)'
  <2>1. /\ hand'[t].type = h.type /\ hand'[t].id = s /\ session' = session
        /\ Announced(t)' => h.type # "leave"
    BY <1>1, <1>4 DEF Announced
  <2> QED BY <1>6, <1>8, <2>1 DEF Expected
<1>12. ASSUME NEW u \in NetThreads \ {t}
       PROVE  Expected(u)'
  <2>1. Expected(u) /\ hand'[u] = hand[u] /\ at'[u] = at[u] /\ hand[u].id # s /\ session' = session
    BY <1>1, <1>4 DEF Order
  <2>2. Announced(u)' <=> Announced(u)
    BY <2>1 DEF Announced
  <2> QED BY <1>7, <2>1, <2>2 DEF Expected
<1>13. ASSUME NEW u \in NetThreads, NEW v \in NetThreads, hand'[u].id = hand'[v].id
       PROVE  u = v \/ hand'[u] = NoJob
  <2>1. hand[u].id = hand[v].id
    BY <1>4, <1>13
  <2>2. u = v \/ hand[u] = NoJob
    BY <2>1 DEF Order
  <2>3. hand[u] = NoJob => u # t
    BY <1>2
  <2> QED BY <1>4, <2>2, <2>3
<1>14. ASSUME NEW r \in Sessions
       PROVE  /\ session'[r] = "open" => Present(r)'
              /\ session'[r] = "new" => Absent(r)' \/ (hand'[Acceptor].id = r /\ at'[Acceptor] = "signal")
  <2>1. /\ session[r] = "open" => Present(r)
        /\ session[r] = "new" => Absent(r) \/ (hand[Acceptor].id = r /\ at[Acceptor] = "signal")
        /\ session' = session
    BY <1>1 DEF Order
  <2>2. CASE r = s
    <3>1. session[r] = "open" => h.type # "leave"
      BY <1>6, <2>2
    <3>2. session[r] = "new" => t = Acceptor
      BY <1>2, <1>6, <2>2
    <3> QED BY <1>4, <1>8, <2>1, <2>2, <3>1, <3>2
  <2>3. CASE r # s
    <3>1. hand[Acceptor].id = r => hand'[Acceptor].id = r /\ at'[Acceptor] = at[Acceptor]
      BY <1>4, <2>3
    <3> QED BY <1>7, <2>1, <2>3, <3>1
  <2> QED BY <2>2, <2>3
<1>15. \A i \in 1..Len(jobs') : InOrder(i)'
  <2>1. \A i \in 1..(n + 1) : i \in 1..n \/ i = n + 1
    BY <1>5
  <2> QED BY <1>5, <1>9, <1>10, <2>1
<1> QED BY <1>11, <1>12, <1>13, <1>14, <1>15 DEF Order

(* The update thread takes a job: a join makes the client, a leave deletes it. *)
LEMMA OrderPop ==
  ASSUME TypeOK, Control, Order, jobs # <<>>, jobs' = Tail(jobs), UNCHANGED <<session, at, hand>>,
         DOMAIN clients' = IF Head(jobs).type = "join" THEN DOMAIN clients \cup {Head(jobs).id}
                           ELSE IF Head(jobs).type = "leave" THEN DOMAIN clients \ {Head(jobs).id}
                           ELSE DOMAIN clients
  PROVE  Order'
<1> DEFINE h == Head(jobs)
           s == h.id
           n == Len(jobs) - 1
<1>1. /\ h = jobs[1] /\ h.type \in {"join", "message", "leave"} /\ n \in Nat /\ Len(jobs') = n /\ Len(jobs) = n + 1
      /\ \A i \in 1..n : jobs'[i] = jobs[i + 1]
  BY Taken
<1>2. /\ h.type = "join" => s \notin DOMAIN clients
      /\ h.type # "join" => s \in DOMAIN clients
      /\ h.type = "leave" => \A j \in 2..(n + 1) : jobs[j].id # s
  <2>1. InOrder(1)
    BY <1>1 DEF Order
  <2>2. \A j \in 1..(1 - 1) : FALSE
    OBVIOUS
  <2>3. 1 + 1 = 2
    OBVIOUS
  <2> QED BY <1>1, <2>1, <2>2, <2>3 DEF InOrder
<1>3. DOMAIN clients' = IF h.type = "join" THEN DOMAIN clients \cup {s}
                        ELSE IF h.type = "leave" THEN DOMAIN clients \ {s} ELSE DOMAIN clients
  OBVIOUS
<1> HIDE DEF h, s, n
<1>4. /\ \A i \in 1..n : i + 1 \in 1..(n + 1) /\ i + 1 \in 2..(n + 1) /\ (i + 1) - 1 = i
      /\ \A j \in 1..(n + 1) : j = 1 \/ (j - 1 \in 1..n /\ (j - 1) + 1 = j)
      /\ 1 \in 1..(n + 1)
  BY <1>1
<1>5. ASSUME NEW r
      PROVE  (Present(r) => Present(r)') /\ (Absent(r) => Absent(r)')
  <2>1. Left(r)' => Left(r)
    BY <1>1, <1>4 DEF Left
  <2>2. Present(r) => Joined(r)'
    <3> SUFFICES ASSUME Present(r)
                 PROVE  Joined(r)'
      OBVIOUS
    <3>1. ~(h.type = "leave" /\ r = s)
      BY <1>1, <1>4 DEF Present, Left, s
    <3>2. CASE r \in DOMAIN clients
      BY <1>3, <3>1, <3>2 DEF Joined
    <3>3. ASSUME NEW j \in 1..(n + 1), jobs[j].id = r, jobs[j].type = "join"
          PROVE  Joined(r)'
      <4>1. CASE j = 1
        BY <1>1, <1>3, <3>3, <4>1 DEF Joined, s
      <4>2. CASE j # 1
        <5>1. j - 1 \in 1..n /\ jobs'[j - 1] = jobs[j]
          BY <1>1, <1>4, <4>2
        <5> QED BY <1>1, <3>3, <5>1 DEF Joined
      <4> QED BY <4>1, <4>2
    <3> QED BY <1>1, <3>2, <3>3 DEF Present, Joined
  <2>3. Absent(r) => Absent(r)'
    <3> SUFFICES ASSUME Absent(r)
                 PROVE  Absent(r)'
      OBVIOUS
    <3>1. r # s /\ r \notin DOMAIN clients /\ \A i \in 1..(n + 1) : jobs[i].id # r
      BY <1>1, <1>4 DEF Absent, s
    <3> QED BY <1>1, <1>3, <1>4, <3>1 DEF Absent
  <2> QED BY <2>1, <2>2, <2>3 DEF Present
<1>6. ASSUME NEW i \in 1..n
      PROVE  InOrder(i)'
  <2> DEFINE g == jobs[i + 1]
  <2>1. jobs'[i] = g /\ \A j \in 1..(i - 1) : jobs'[j] = jobs[j + 1] /\ j + 1 \in 1..i
    BY <1>1
  <2>2. /\ g.type = "join" => g.id \notin DOMAIN clients /\ \A j \in 1..i : jobs[j].id # g.id
        /\ g.type # "join" => \/ g.id \in DOMAIN clients
                              \/ \E j \in 1..i : jobs[j].id = g.id /\ jobs[j].type = "join"
        /\ g.type = "leave" => \A j \in ((i + 1) + 1)..(n + 1) : jobs[j].id # g.id
    BY <1>1, <1>4 DEF Order, InOrder
  <2>3. h.type = "leave" => g.id # s
    BY <1>2, <1>4
  <2> HIDE DEF g
  <2>4. g.type = "join" => g.id \notin DOMAIN clients' /\ \A j \in 1..(i - 1) : jobs'[j].id # g.id
    <3>1. 1 \in 1..i
      OBVIOUS
    <3>2. g.type = "join" => g.id # s
      BY <1>1, <2>2, <3>1 DEF s
    <3> QED BY <1>3, <2>1, <2>2, <3>2
  <2>5. ASSUME g.type # "join"
        PROVE  g.id \in DOMAIN clients' \/ \E j \in 1..(i - 1) : jobs'[j].id = g.id /\ jobs'[j].type = "join"
    <3>1. CASE g.id \in DOMAIN clients
      BY <1>3, <2>3, <3>1
    <3>2. ASSUME NEW j \in 1..i, jobs[j].id = g.id, jobs[j].type = "join"
          PROVE  g.id \in DOMAIN clients' \/ \E k \in 1..(i - 1) : jobs'[k].id = g.id /\ jobs'[k].type = "join"
      <4>1. CASE j = 1
        BY <1>1, <1>3, <3>2, <4>1 DEF s
      <4>2. CASE j # 1
        <5>1. j - 1 \in 1..(i - 1) /\ (j - 1) + 1 = j
          BY <4>2
        <5>2. jobs'[j - 1] = jobs[j]
          BY <2>1, <5>1
        <5> QED BY <3>2, <5>1, <5>2
      <4> QED BY <4>1, <4>2
    <3> QED BY <2>2, <2>5, <3>1, <3>2
  <2>6. ASSUME g.type = "leave", NEW j \in (i + 1)..n
        PROVE  jobs'[j].id # g.id
    <3>1. j \in 1..n /\ j + 1 \in ((i + 1) + 1)..(n + 1)
      BY <1>1
    <3> QED BY <1>1, <2>2, <2>6, <3>1
  <2> QED BY <1>1, <2>1, <2>4, <2>5, <2>6 DEF InOrder
<1>7. ASSUME NEW t \in NetThreads
      PROVE  Expected(t)'
  <2>1. Expected(t) /\ (Announced(t)' <=> Announced(t))
    BY DEF Order, Announced
  <2> QED BY <1>5, <2>1 DEF Expected
<1> QED BY <1>1, <1>5, <1>6, <1>7 DEF Order

-----------------------------------------------------------------------------
(* The places of a packet in the send queues *)

PlacesIn(Q, p) == UNION {{s} \X {i \in DOMAIN Q[s] : Q[s][i] = p} : s \in Sessions}

LEMMA PlaceIn ==
  ASSUME NEW Q \in [Sessions -> Seq(Objects)], NEW p, NEW r, NEW i
  PROVE  <<r, i>> \in PlacesIn(Q, p) <=> r \in Sessions /\ i \in 1..Len(Q[r]) /\ Q[r][i] = p
<1>1. \A s \in Sessions : DOMAIN Q[s] = 1..Len(Q[s])
  BY Elements
<1> QED BY <1>1 DEF PlacesIn

LEMMA PlaceOf ==
  ASSUME NEW Q \in [Sessions -> Seq(Objects)], NEW p, NEW x \in PlacesIn(Q, p)
  PROVE  x = <<x[1], x[2]>> /\ x[1] \in Sessions /\ x[2] \in 1..Len(Q[x[1]]) /\ Q[x[1]][x[2]] = p
<1>1. \A s \in Sessions : DOMAIN Q[s] = 1..Len(Q[s])
  BY Elements
<1>2. \E r \in Sessions : \E i \in 1..Len(Q[r]) : x = <<r, i>> /\ Q[r][i] = p
  BY <1>1 DEF PlacesIn
<1> QED BY <1>2

LEMMA PlacesFinite ==
  ASSUME NEW Q \in [Sessions -> Seq(Objects)], NEW p
  PROVE  IsFiniteSet(PlacesIn(Q, p)) /\ Cardinality(PlacesIn(Q, p)) \in Nat
<1> DEFINE at_(s) == {s} \X {i \in DOMAIN Q[s] : Q[s][i] = p}
           all == {at_(s) : s \in Sessions}
<1>1. IsFiniteSet(all)
  <2>1. [s \in Sessions |-> at_(s)] \in Surjection(Sessions, all)
    BY DEF Surjection
  <2> QED BY <2>1, FS_Surjection
<1>2. ASSUME NEW s \in Sessions
      PROVE  IsFiniteSet(at_(s))
  <2>1. DOMAIN Q[s] = 1..Len(Q[s]) /\ Len(Q[s]) \in Nat
    BY Elements
  <2>2. IsFiniteSet(1..Len(Q[s])) /\ IsFiniteSet({s})
    <3>1. 1 \in Int /\ Len(Q[s]) \in Int
      BY <2>1
    <3> QED BY <3>1, FS_Interval, FS_Singleton
  <2>3. IsFiniteSet({i \in 1..Len(Q[s]) : Q[s][i] = p})
    BY <2>2, FS_Subset
  <2> QED BY <2>1, <2>2, <2>3, FS_Product
<1>3. \A x \in all : IsFiniteSet(x)
  BY <1>2
<1> HIDE DEF at_
<1>4. IsFiniteSet(UNION all)
  BY <1>1, <1>3, FS_UNION
<1>5. PlacesIn(Q, p) = UNION all
  BY DEF PlacesIn, at_
<1> QED BY <1>4, <1>5, FS_CardinalityType

(* A packet is queued once more. *)
Grown(Q, R, s, p) ==
    /\ \A r \in Sessions \ {s} : R[r] = Q[r]
    /\ Len(Q[s]) \in Nat /\ Len(R[s]) = Len(Q[s]) + 1
    /\ \A i \in 1..Len(Q[s]) : R[s][i] = Q[s][i]
    /\ R[s][Len(Q[s]) + 1] = p

LEMMA PlacesGrow ==
  ASSUME NEW Q \in [Sessions -> Seq(Objects)], NEW s \in Sessions, NEW p \in Objects,
         NEW R \in [Sessions -> Seq(Objects)], Grown(Q, R, s, p)
  PROVE  /\ Cardinality(PlacesIn(R, p)) = Cardinality(PlacesIn(Q, p)) + 1
         /\ \A q : q # p => PlacesIn(R, q) = PlacesIn(Q, q)
<1> USE DEF Grown
<1> DEFINE last == <<s, Len(Q[s]) + 1>>
<1>3. ASSUME NEW q
      PROVE  PlacesIn(R, q) = PlacesIn(Q, q) \cup (IF q = p THEN {last} ELSE {})
  <2>1. ASSUME NEW r \in Sessions, NEW i \in 1..Len(R[r]), R[r][i] = q
        PROVE  <<r, i>> \in PlacesIn(Q, q) \/ (q = p /\ <<r, i>> = last)
    <3>1. CASE r = s /\ i = Len(Q[s]) + 1
      BY <2>1, <3>1
    <3>2. CASE ~(r = s /\ i = Len(Q[s]) + 1)
      <4>1. i \in 1..Len(Q[r]) /\ Q[r][i] = q
        BY <2>1, <3>2
      <4> QED BY <4>1, PlaceIn
    <3> QED BY <3>1, <3>2
  <2>2. ASSUME NEW r \in Sessions, NEW i \in 1..Len(Q[r]), Q[r][i] = q
        PROVE  <<r, i>> \in PlacesIn(R, q)
    <3>1. i \in 1..Len(R[r]) /\ R[r][i] = q
      <4>1. CASE r = s
        BY <2>2, <4>1
      <4>2. CASE r # s
        BY <2>2, <4>2
      <4> QED BY <4>1, <4>2
    <3> QED BY <3>1, PlaceIn
  <2>3. last \in PlacesIn(R, p)
    <3>1. Len(Q[s]) + 1 \in 1..Len(R[s])
      OBVIOUS
    <3> QED BY <3>1, PlaceIn
  <2>4. ASSUME NEW x \in PlacesIn(R, q)
        PROVE  x \in PlacesIn(Q, q) \/ (q = p /\ x = last)
    <3>1. x = <<x[1], x[2]>> /\ x[1] \in Sessions /\ x[2] \in 1..Len(R[x[1]]) /\ R[x[1]][x[2]] = q
      BY PlaceOf
    <3> HIDE DEF last
    <3>2. <<x[1], x[2]>> \in PlacesIn(Q, q) \/ (q = p /\ <<x[1], x[2]>> = last)
      BY <2>1, <3>1
    <3> QED BY <3>1, <3>2
  <2>5. ASSUME NEW x \in PlacesIn(Q, q)
        PROVE  x \in PlacesIn(R, q)
    <3>1. x = <<x[1], x[2]>> /\ x[1] \in Sessions /\ x[2] \in 1..Len(Q[x[1]]) /\ Q[x[1]][x[2]] = q
      BY PlaceOf
    <3>2. <<x[1], x[2]>> \in PlacesIn(R, q)
      BY <2>2, <3>1
    <3> QED BY <3>1, <3>2
  <2> QED BY <2>3, <2>4, <2>5
<1>4. last \notin PlacesIn(Q, p)
  <2>1. Len(Q[s]) + 1 \notin 1..Len(Q[s])
    OBVIOUS
  <2> QED BY <2>1, PlaceIn
<1>5. Cardinality(PlacesIn(Q, p) \cup {last}) = Cardinality(PlacesIn(Q, p)) + 1
  BY <1>4, PlacesFinite, FS_AddElement
<1> HIDE DEF last
<1>6. PlacesIn(R, p) = PlacesIn(Q, p) \cup {last} /\ \A q : q # p => PlacesIn(R, q) = PlacesIn(Q, q)
  BY <1>3
<1> QED BY <1>5, <1>6

LEMMA GrownBy ==
  ASSUME NEW Q \in [Sessions -> Seq(Objects)], NEW s \in Sessions, NEW p \in Objects,
         NEW R, R = [Q EXCEPT ![s] = Append(Q[s], p)]
  PROVE  R \in [Sessions -> Seq(Objects)] /\ Grown(Q, R, s, p)
<1>1. /\ Append(Q[s], p) \in Seq(Objects) /\ Len(Append(Q[s], p)) = Len(Q[s]) + 1 /\ Len(Q[s]) \in Nat
      /\ \A i \in 1..Len(Q[s]) : Append(Q[s], p)[i] = Q[s][i]
      /\ Append(Q[s], p)[Len(Q[s]) + 1] = p
  BY AppendFacts
<1>2. R \in [Sessions -> Seq(Objects)] /\ R[s] = Append(Q[s], p) /\ \A r \in Sessions \ {s} : R[r] = Q[r]
  BY <1>1
<1>3. Grown(Q, R, s, p)
  BY <1>1, <1>2 DEF Grown
<1> QED BY <1>2, <1>3

(* The first packet of a queue is taken; the others move up. *)
Shrunk(Q, R, s) ==
    /\ \A r \in Sessions \ {s} : R[r] = Q[r]
    /\ Len(Q[s]) \in Nat \ {0} /\ Len(R[s]) = Len(Q[s]) - 1 /\ Head(Q[s]) = Q[s][1]
    /\ \A i \in 1..(Len(Q[s]) - 1) : R[s][i] = Q[s][i + 1]

LEMMA PlacesShrink ==
  ASSUME NEW Q \in [Sessions -> Seq(Objects)], NEW s \in Sessions, NEW p,
         NEW R \in [Sessions -> Seq(Objects)], Shrunk(Q, R, s)
  PROVE  Cardinality(PlacesIn(R, p)) = Cardinality(PlacesIn(Q, p)) - (IF p = Head(Q[s]) THEN 1 ELSE 0)
<1> USE DEF Shrunk
<1> DEFINE first == <<s, 1>>
           old == PlacesIn(Q, p) \ {first}
           new == PlacesIn(R, p)
           move(x) == IF x[1] = s THEN <<s, x[2] - 1>> ELSE x
           f == [x \in old |-> move(x)]
<1>3. ASSUME NEW x \in old
      PROVE  /\ x = <<x[1], x[2]>> /\ x[1] \in Sessions /\ x[2] \in 1..Len(Q[x[1]]) /\ Q[x[1]][x[2]] = p
             /\ x[1] = s => x[2] # 1
  <2>1. x \in PlacesIn(Q, p) /\ x # first
    BY <1>3
  <2>2. x = <<x[1], x[2]>> /\ x[1] \in Sessions /\ x[2] \in 1..Len(Q[x[1]]) /\ Q[x[1]][x[2]] = p
    BY <2>1, PlaceOf
  <2> QED BY <2>1, <2>2
<1>4. ASSUME NEW x \in old
      PROVE  move(x) \in new
  <2>1. CASE x[1] = s
    <3>1. x[2] - 1 \in 1..Len(R[s]) /\ (x[2] - 1) + 1 = x[2]
      BY <1>3, <2>1
    <3>2. R[s][x[2] - 1] = p
      BY <1>3, <2>1, <3>1
    <3>3. <<s, x[2] - 1>> \in PlacesIn(R, p)
      BY <3>1, <3>2, PlaceIn
    <3> QED BY <2>1, <3>3
  <2>2. CASE x[1] # s
    <3>1. x[2] \in 1..Len(R[x[1]]) /\ R[x[1]][x[2]] = p
      BY <1>3, <2>2
    <3>2. <<x[1], x[2]>> \in PlacesIn(R, p)
      BY <1>3, <3>1, PlaceIn
    <3> QED BY <1>3, <2>2, <3>2
  <2> QED BY <2>1, <2>2
<1>5. ASSUME NEW x \in old, NEW y \in old, move(x) = move(y)
      PROVE  x = y
  <2>1. x[1] = y[1]
    BY <1>3, <1>5
  <2>2. CASE x[1] = s
    <3>1. x[2] - 1 = y[2] - 1 /\ x[2] \in Int /\ y[2] \in Int
      BY <1>3, <1>5, <2>1, <2>2
    <3>2. x[2] = y[2]
      BY <3>1
    <3> QED BY <1>3, <2>1, <3>2
  <2>3. CASE x[1] # s
    BY <1>5, <2>1, <2>3
  <2> QED BY <2>2, <2>3
<1>6. ASSUME NEW y \in new
      PROVE  \E x \in old : move(x) = y
  <2>1. y = <<y[1], y[2]>> /\ y[1] \in Sessions /\ y[2] \in 1..Len(R[y[1]]) /\ R[y[1]][y[2]] = p
    BY PlaceOf
  <2>2. CASE y[1] = s
    <3> DEFINE x == <<s, y[2] + 1>>
    <3>1. y[2] + 1 \in 1..Len(Q[s]) /\ Q[s][y[2] + 1] = p /\ y[2] + 1 # 1 /\ (y[2] + 1) - 1 = y[2]
      BY <2>1, <2>2
    <3>2. x \in old
      <4>1. <<s, y[2] + 1>> \in PlacesIn(Q, p)
        BY <3>1, PlaceIn
      <4> QED BY <3>1, <4>1
    <3>3. move(x) = y
      BY <2>1, <2>2, <3>1
    <3> QED BY <3>2, <3>3
  <2>3. CASE y[1] # s
    <3>1. y \in old
      <4>1. <<y[1], y[2]>> \in PlacesIn(Q, p)
        BY <2>1, <2>3, PlaceIn
      <4>2. y # first
        BY <2>3
      <4> QED BY <2>1, <4>1, <4>2
    <3>2. move(y) = y
      BY <2>3
    <3> QED BY <3>1, <3>2
  <2> QED BY <2>2, <2>3
<1> HIDE DEF old, new, move
<1>7. f \in Bijection(old, new)
  <2>1. f \in [old -> new]
    BY <1>4
  <2>2. IsInjective(f)
    BY <1>5 DEF IsInjective
  <2>3. \A y \in new : \E x \in old : f[x] = y
    BY <1>6
  <2> HIDE DEF f
  <2> QED BY <2>1, <2>2, <2>3 DEF Bijection, Injection, Surjection
<1>8. IsFiniteSet(old)
  BY PlacesFinite, FS_Subset DEF old
<1>9. Cardinality(new) = Cardinality(old)
  <2>1. ExistsBijection(old, new)
    BY <1>7 DEF ExistsBijection
  <2> QED BY <1>8, <2>1, FS_Bijection
<1>10. Cardinality(old) = Cardinality(PlacesIn(Q, p)) - (IF p = Head(Q[s]) THEN 1 ELSE 0)
  <2>1. first \in PlacesIn(Q, p) <=> p = Head(Q[s])
    <3>1. 1 \in 1..Len(Q[s])
      OBVIOUS
    <3> QED BY <3>1, PlaceIn
  <2>2. CASE p = Head(Q[s])
    BY <2>1, <2>2, PlacesFinite, FS_RemoveElement DEF old
  <2>3. CASE p # Head(Q[s])
    <3>1. old = PlacesIn(Q, p)
      BY <2>1, <2>3 DEF old
    <3> QED BY <2>3, <3>1, PlacesFinite
  <2> QED BY <2>2, <2>3
<1> QED BY <1>9, <1>10 DEF new

LEMMA ShrunkBy ==
  ASSUME NEW Q \in [Sessions -> Seq(Objects)], NEW s \in Sessions, Q[s] # <<>>,
         NEW R, R = [Q EXCEPT ![s] = Tail(Q[s])]
  PROVE  R \in [Sessions -> Seq(Objects)] /\ Shrunk(Q, R, s)
<1>1. /\ Len(Q[s]) \in Nat \ {0} /\ Head(Q[s]) = Q[s][1]
      /\ Tail(Q[s]) \in Seq(Objects) /\ Len(Tail(Q[s])) = Len(Q[s]) - 1
      /\ \A i \in 1..(Len(Q[s]) - 1) : Tail(Q[s])[i] = Q[s][i + 1]
  BY HeadFacts
<1>2. R \in [Sessions -> Seq(Objects)] /\ R[s] = Tail(Q[s]) /\ \A r \in Sessions \ {s} : R[r] = Q[r]
  BY <1>1
<1>3. Shrunk(Q, R, s)
  BY <1>1, <1>2 DEF Shrunk
<1> QED BY <1>2, <1>3

-----------------------------------------------------------------------------
(* The pool *)

UsedOf(used, c) == {p \in used : p[1] = c}

LEMMA UsedFinite ==
  ASSUME NEW U \in SUBSET Objects, NEW c
  PROVE  IsFiniteSet(UsedOf(U, c)) /\ Cardinality(UsedOf(U, c)) \in Nat
<1>1. UsedOf(U, c) \subseteq Objects
  BY DEF UsedOf
<1> QED BY <1>1, ObjectFacts, FS_Subset, FS_CardinalityType

LEMMA UsedMore ==
  ASSUME NEW U \in SUBSET Objects, NEW p \in Objects, p \notin U
  PROVE  /\ Cardinality(UsedOf(U \cup {p}, p[1])) = Cardinality(UsedOf(U, p[1])) + 1
         /\ \A c : c # p[1] => UsedOf(U \cup {p}, c) = UsedOf(U, c)
<1>1. UsedOf(U \cup {p}, p[1]) = UsedOf(U, p[1]) \cup {p} /\ p \notin UsedOf(U, p[1])
  BY DEF UsedOf
<1>2. \A c : c # p[1] => UsedOf(U \cup {p}, c) = UsedOf(U, c)
  BY DEF UsedOf
<1> QED BY <1>1, <1>2, UsedFinite, FS_AddElement

LEMMA UsedLess ==
  ASSUME NEW U \in SUBSET Objects, NEW p \in U
  PROVE  /\ Cardinality(UsedOf(U \ {p}, p[1])) = Cardinality(UsedOf(U, p[1])) - 1
         /\ Cardinality(UsedOf(U \ {p}, p[1])) \in Nat /\ Cardinality(UsedOf(U, p[1])) \in Nat
         /\ \A c : c # p[1] => UsedOf(U \ {p}, c) = UsedOf(U, c)
<1>1. UsedOf(U \ {p}, p[1]) = UsedOf(U, p[1]) \ {p} /\ p \in UsedOf(U, p[1])
  BY DEF UsedOf
<1>2. \A c : c # p[1] => UsedOf(U \ {p}, c) = UsedOf(U, c)
  BY DEF UsedOf
<1>3. U \ {p} \in SUBSET Objects
  OBVIOUS
<1>4. Cardinality(UsedOf(U \ {p}, p[1])) \in Nat
  BY <1>3, UsedFinite
<1>5. IsFiniteSet(UsedOf(U, p[1])) /\ Cardinality(UsedOf(U, p[1])) \in Nat
  BY UsedFinite
<1>6. Cardinality(UsedOf(U, p[1]) \ {p}) = Cardinality(UsedOf(U, p[1])) - 1
  BY <1>1, <1>5, FS_RemoveElement
<1> QED BY <1>1, <1>2, <1>4, <1>5, <1>6

(* No object of a chunk is used whose count is its index. *)
LEMMA UsedNone ==
  ASSUME NEW U \in SUBSET Objects, NEW c, Cardinality(UsedOf(U, c)) = 0
  PROVE  UsedOf(U, c) = {}
BY UsedFinite, FS_EmptySet

LEMMA PoolTake ==
  ASSUME PoolType, NEW U \in SUBSET Objects, PoolGood(U), NEW w \in Workers, tls[w] # NoChunk, TakeObject(w),
         NEW p, p = NextObject(w)
  PROVE  /\ p \in Objects /\ p \notin U /\ PoolGood(U \cup {p})'
         /\ p[1] = tls[w] /\ p[2] = allocIndex'[tls[w]]
         /\ \A d \in Chunks : d # tls[w] => allocIndex'[d] = allocIndex[d]
<1> DEFINE c == tls[w]
<1>1. p \in Objects /\ c \in Chunks /\ allocIndex[c] \in 1..ObjectCount /\ PoolType'
  BY TakeTyped
<1>2. c \in 1..made /\ p[1] = c /\ p[2] = allocIndex[c] - 1
  BY <1>1 DEF PoolGood, NextObject, PoolType, Chunks
<1>3. /\ allocIndex' = [allocIndex EXCEPT ![c] = allocIndex[c] - 1]
      /\ UNCHANGED <<made, center, tls, freeCount>>
  BY DEF TakeObject
<1>4. allocIndex \in [Chunks -> 0..ObjectCount] /\ freeCount \in [Chunks -> Int] /\ made \in 0..MaxChunks
  BY DEF PoolType
<1>5. p \notin U
  <2>1. \A q \in U : q[1] = c => q[2] >= allocIndex[c]
    BY <1>2 DEF PoolGood
  <2> QED BY <1>1, <1>2, <2>1
<1>6. allocIndex'[c] = allocIndex[c] - 1 /\ \A d \in Chunks : d # c => allocIndex'[d] = allocIndex[d]
  BY <1>1, <1>3, <1>4
<1> HIDE DEF c
<1>7. ASSUME NEW d \in 1..made
      PROVE  /\ \A q \in U \cup {p} : q[1] = d => q[2] >= allocIndex'[d]
             /\ freeCount[d] = allocIndex'[d] + Cardinality(UsedOf(U \cup {p}, d))
  <2>0. /\ \A q \in U : q[1] = d => q[2] >= allocIndex[d]
        /\ freeCount[d] = allocIndex[d] + Cardinality(UsedOf(U, d))
    BY DEF PoolGood, UsedOf
  <2>q. \A q \in U : q[2] \in Int
    BY ObjectFacts
  <2>d. d \in Chunks /\ allocIndex[d] \in Int /\ Cardinality(UsedOf(U, d)) \in Nat
    BY <1>4, UsedFinite DEF Chunks
  <2>1. CASE d = c
    <3>1. Cardinality(UsedOf(U \cup {p}, d)) = Cardinality(UsedOf(U, d)) + 1
      BY <1>1, <1>2, <1>5, <2>1, UsedMore
    <3>2. freeCount[d] = allocIndex'[d] + Cardinality(UsedOf(U \cup {p}, d))
      BY <1>6, <2>0, <2>d, <2>1, <3>1
    <3>3. \A q \in U \cup {p} : q[1] = d => q[2] >= allocIndex'[d]
      BY <1>2, <1>6, <2>0, <2>q, <2>d, <2>1
    <3> QED BY <3>2, <3>3
  <2>2. CASE d # c
    <3>1. UsedOf(U \cup {p}, d) = UsedOf(U, d)
      BY <1>1, <1>2, <1>5, <2>2, UsedMore
    <3>2. allocIndex'[d] = allocIndex[d]
      BY <1>6, <2>d, <2>2
    <3>3. \A q \in U \cup {p} : q[1] = d => q[2] >= allocIndex'[d]
      BY <1>2, <2>0, <2>2, <3>2
    <3> QED BY <2>0, <3>1, <3>2, <3>3
  <2> QED BY <2>1, <2>2
<1>8. \A q \in U \cup {p} : q[1] \in 1..made
  BY <1>2 DEF PoolGood
<1>c. /\ \A i, j \in 1..Len(center) : center[i] = center[j] => i = j
      /\ \A i \in 1..Len(center) :
            /\ center[i] \in 1..made /\ freeCount[center[i]] = 0
            /\ \A t \in Workers : tls[t] # center[i]
      /\ \A t, u \in Workers : tls[t] = tls[u] => t = u \/ tls[t] = NoChunk
      /\ \A t \in Workers : tls[t] \in 0..made
  BY DEF PoolGood
<1>9. PoolGood(U \cup {p})'
  <2>1. \A d \in 1..made' :
           /\ \A q \in U \cup {p} : q[1] = d => q[2] >= allocIndex'[d]
           /\ freeCount'[d] = allocIndex'[d] + Cardinality({q \in U \cup {p} : q[1] = d})
    BY <1>3, <1>7 DEF UsedOf
  <2>2. /\ \A i, j \in 1..Len(center') : center'[i] = center'[j] => i = j
        /\ \A i \in 1..Len(center') :
              /\ center'[i] \in 1..made' /\ freeCount'[center'[i]] = 0
              /\ \A t \in Workers : tls'[t] # center'[i]
        /\ \A t, u \in Workers : tls'[t] = tls'[u] => t = u \/ tls'[t] = NoChunk
        /\ \A t \in Workers : tls'[t] \in 0..made'
        /\ \A q \in U \cup {p} : q[1] \in 1..made'
    BY <1>3, <1>8, <1>c
  <2> HIDE DEF NoChunk
  <2> QED BY <2>1, <2>2 DEF PoolGood
<1> QED BY <1>1, <1>2, <1>5, <1>6, <1>9 DEF c

LEMMA PoolFree ==
  ASSUME PoolType, NEW U \in SUBSET Objects, PoolGood(U), Refilling, NEW p \in U, FreeObject(p),
         \A t \in Workers : hand[t].packet # p,
         \A t \in Workers : hand[t].packet \in Objects => hand[t].packet \in U
  PROVE  PoolGood(U \ {p})'
<1> DEFINE c == p[1]
           f == freeCount[c]
<1>1. p \in Objects /\ c \in Chunks /\ c \in 1..made
  BY ObjectFacts DEF PoolGood
<1>2. /\ freeCount' = [freeCount EXCEPT ![c] = f - 1]
      /\ center' = IF f = 1 THEN <<c>> \o center ELSE center
      /\ UNCHANGED <<made, tls, allocIndex>>
  BY DEF FreeObject
<1>4. /\ allocIndex \in [Chunks -> 0..ObjectCount] /\ freeCount \in [Chunks -> Int] /\ made \in 0..MaxChunks
      /\ center \in Seq(Chunks)
  BY DEF PoolType
<1>5. /\ Cardinality(UsedOf(U \ {p}, c)) = Cardinality(UsedOf(U, c)) - 1
      /\ Cardinality(UsedOf(U \ {p}, c)) \in Nat
      /\ \A d : d # c => UsedOf(U \ {p}, d) = UsedOf(U, d)
  BY UsedLess
<1>g. f = allocIndex[c] + Cardinality(UsedOf(U, c))
  BY <1>1 DEF PoolGood, UsedOf
<1>n. Cardinality(UsedOf(U, c)) \in Nat
  BY UsedLess
<1>6. f = allocIndex[c] + Cardinality(UsedOf(U, c)) /\ f \in Int /\ allocIndex[c] \in Nat /\ Cardinality(UsedOf(U, c)) \in Nat
  BY <1>1, <1>4, <1>g, <1>n
<1>7. freeCount'[c] = f - 1 /\ \A d \in Chunks : d # c => freeCount'[d] = freeCount[d]
  BY <1>1, <1>2, <1>4
<1> HIDE DEF f, c
<1>8. ASSUME NEW d \in 1..made
      PROVE  /\ \A q \in U \ {p} : q[1] = d => q[2] >= allocIndex[d]
             /\ freeCount'[d] = allocIndex[d] + Cardinality(UsedOf(U \ {p}, d))
  <2>0. /\ \A q \in U : q[1] = d => q[2] >= allocIndex[d]
        /\ freeCount[d] = allocIndex[d] + Cardinality(UsedOf(U, d))
    BY DEF PoolGood, UsedOf
  <2>d. d \in Chunks
    BY <1>4 DEF Chunks
  <2>1. CASE d = c
    BY <1>5, <1>6, <1>7, <2>0, <2>1
  <2>2. CASE d # c
    BY <1>5, <1>7, <2>0, <2>d, <2>2
  <2> QED BY <2>1, <2>2
<1>9. \A i \in 1..Len(center) : center[i] # c \/ f = 0
  BY DEF PoolGood, f, c
<1>10. f # 0
  BY <1>5, <1>6
<1>11. \A i \in 1..Len(center) : freeCount'[center[i]] = 0 /\ center[i] # c
  <2>1. \A i \in 1..Len(center) : center[i] \in Chunks /\ freeCount[center[i]] = 0
    BY <1>4, ElementOfSeq DEF PoolGood
  <2> QED BY <1>7, <1>9, <1>10, <2>1
<1>12. ASSUME f = 1, NEW t \in Workers
       PROVE  tls[t] # c
  <2>1. allocIndex[c] = 0 /\ Cardinality(UsedOf(U \ {p}, c)) = 0
    BY <1>5, <1>6, <1>12
  <2>2. SUFFICES ASSUME tls[t] = c
                 PROVE  FALSE
    OBVIOUS
  <2>3. hand[t].packet = <<c, 0>> /\ <<c, 0>> \in Objects
    <3>1. c # NoChunk /\ 0 \in 0..(ObjectCount - 1)
      BY <1>1 DEF Chunks
    <3> QED BY <1>1, <2>1, <2>2, <3>1, ObjectFacts DEF Refilling
  <2>4. <<c, 0>> \in UsedOf(U \ {p}, c)
    BY <2>3 DEF UsedOf
  <2>5. U \ {p} \in SUBSET Objects
    OBVIOUS
  <2> QED BY <2>1, <2>4, <2>5, UsedNone
<1>13. /\ \A i, j \in 1..Len(center') : center'[i] = center'[j] => i = j
       /\ \A i \in 1..Len(center') :
            /\ center'[i] \in 1..made /\ freeCount'[center'[i]] = 0
            /\ \A t \in Workers : tls[t] # center'[i]
  <2>0. /\ \A i, j \in 1..Len(center) : center[i] = center[j] => i = j
        /\ \A i \in 1..Len(center) : center[i] \in 1..made /\ \A t \in Workers : tls[t] # center[i]
    BY DEF PoolGood
  <2>1. CASE f # 1
    BY <1>2, <1>11, <2>0, <2>1
  <2>2. CASE f = 1
    <3>1. /\ Len(center') = Len(center) + 1 /\ Len(center) \in Nat
          /\ center'[1] = c /\ \A i \in 2..(Len(center) + 1) : center'[i] = center[i - 1]
      <4>1. center' = <<c>> \o center /\ <<c>> \in Seq(Chunks) /\ Len(<<c>>) = 1 /\ <<c>>[1] = c
        BY <1>1, <1>2, <2>2
      <4>n. Len(center) \in Nat
        BY <1>4, LenProperties
      <4>2. /\ Len(center') = 1 + Len(center)
            /\ \A i \in 1..(1 + Len(center)) : center'[i] = IF i <= 1 THEN <<c>>[i] ELSE center[i - 1]
        BY <1>4, <4>1, ConcatProperties
      <4> QED BY <4>1, <4>n, <4>2
    <3>2. \A i \in 1..Len(center') : i = 1 \/ (i - 1 \in 1..Len(center) /\ center'[i] = center[i - 1])
      BY <3>1
    <3>3. freeCount'[c] = 0 /\ c \in 1..made /\ \A t \in Workers : tls[t] # c
      BY <1>1, <1>7, <1>12, <2>2
    <3>4. ASSUME NEW i \in 1..Len(center')
          PROVE  /\ center'[i] \in 1..made /\ freeCount'[center'[i]] = 0
                 /\ \A t \in Workers : tls[t] # center'[i]
      <4>1. CASE i = 1
        BY <3>1, <3>3, <4>1
      <4>2. CASE i # 1
        BY <1>11, <2>0, <3>2, <4>2
      <4> QED BY <4>1, <4>2
    <3>5. ASSUME NEW i \in 1..Len(center'), NEW j \in 1..Len(center'), center'[i] = center'[j]
          PROVE  i = j
      <4>1. CASE i # 1 /\ j # 1
        BY <2>0, <3>2, <3>5, <4>1
      <4>2. CASE i = 1 \/ j = 1
        BY <1>11, <3>1, <3>2, <3>5, <4>2
      <4> QED BY <4>1, <4>2
    <3> QED BY <3>4, <3>5
  <2> QED BY <2>1, <2>2
<1>14. /\ \A t, u \in Workers : tls[t] = tls[u] => t = u \/ tls[t] = NoChunk
       /\ \A q \in U \ {p} : q[1] \in 1..made
       /\ \A t \in Workers : tls[t] \in 0..made
  BY DEF PoolGood
<1> QED BY <1>2, <1>8, <1>13, <1>14, ZenonT(40) DEF PoolGood, UsedOf

LEMMA PoolChunk ==
  ASSUME PoolType, NEW U \in SUBSET Objects, PoolGood(U), Refilling, NEW w \in Workers, ChunkSetting(w)
  PROVE  /\ PoolGood(U)' /\ tls'[w] # NoChunk /\ allocIndex'[tls'[w]] # 0
         /\ \A t \in Workers : t # w => tls'[t] = tls[t] /\ (tls[t] # NoChunk => allocIndex'[tls[t]] = allocIndex[tls[t]])
<1>1. PICK c \in Chunks :
        /\ IF center = <<>> THEN c = made + 1 /\ made' = c /\ UNCHANGED center
                            ELSE c = Head(center) /\ center' = Tail(center) /\ UNCHANGED made
        /\ tls' = [tls EXCEPT ![w] = c]
        /\ allocIndex' = [allocIndex EXCEPT ![c] = ObjectCount]
        /\ freeCount' = [freeCount EXCEPT ![c] = ObjectCount]
  BY DEF ChunkSetting
<1>2. /\ allocIndex \in [Chunks -> 0..ObjectCount] /\ freeCount \in [Chunks -> Int] /\ made \in 0..MaxChunks
      /\ center \in Seq(Chunks) /\ tls \in [Workers -> 0..MaxChunks]
  BY DEF PoolType
<1>3. /\ allocIndex'[c] = ObjectCount /\ freeCount'[c] = ObjectCount /\ tls'[w] = c
      /\ \A d \in Chunks : d # c => allocIndex'[d] = allocIndex[d] /\ freeCount'[d] = freeCount[d]
      /\ \A t \in Workers : t # w => tls'[t] = tls[t]
  BY <1>1, <1>2
<1>4. /\ c \in 1..made' /\ made' \in Nat /\ made <= made' /\ \A d \in 1..made' : d = c \/ d \in 1..made
      /\ UsedOf(U, c) = {} /\ \A t \in Workers : tls[t] # c
      /\ \A i, j \in 1..Len(center') : center'[i] = center'[j] => i = j
      /\ \A i \in 1..Len(center') : center'[i] # c /\ \E k \in 1..Len(center) : center'[i] = center[k]
  <2>1. CASE center = <<>>
    <3>1. c = made + 1 /\ made' = c /\ center' = center /\ Len(center) = 0
      BY <1>1, <2>1
    <3>2. UsedOf(U, c) = {}
      BY <1>2, <3>1 DEF PoolGood, UsedOf
    <3>3. \A t \in Workers : tls[t] # c
      BY <1>2, <3>1 DEF PoolGood
    <3>4. 1..Len(center') = {}
      BY <3>1
    <3>5. c \in 1..made' /\ made' \in Nat /\ made <= made' /\ \A d \in 1..made' : d = c \/ d \in 1..made
      BY <1>2, <3>1
    <3> QED BY <3>2, <3>3, <3>4, <3>5
  <2>2. CASE center # <<>>
    <3>1. /\ c = center[1] /\ made' = made /\ Len(center) \in Nat \ {0} /\ Len(center') = Len(center) - 1
          /\ \A i \in 1..(Len(center) - 1) : center'[i] = center[i + 1]
      BY <1>1, <1>2, <2>2, HeadFacts
    <3>2. 1 \in 1..Len(center)
      BY <3>1
    <3>3. c \in 1..made /\ freeCount[c] = 0 /\ \A t \in Workers : tls[t] # c
      BY <3>1, <3>2 DEF PoolGood
    <3>4. UsedOf(U, c) = {}
      <4>1. 0 = allocIndex[c] + Cardinality(UsedOf(U, c))
        BY <3>3 DEF PoolGood, UsedOf
      <4>2. allocIndex[c] \in Nat /\ Cardinality(UsedOf(U, c)) \in Nat
        BY <1>2, UsedFinite
      <4>3. Cardinality(UsedOf(U, c)) = 0
        BY <4>1, <4>2
      <4> QED BY <4>3, UsedNone
    <3>5. \A i, j \in 1..Len(center) : center[i] = center[j] => i = j
      BY DEF PoolGood
    <3>6. \A i \in 1..Len(center') : i + 1 \in 1..Len(center) /\ center'[i] = center[i + 1] /\ i + 1 # 1
      BY <3>1
    <3>7. \A i, j \in 1..Len(center') : center'[i] = center'[j] => i = j
      BY <3>5, <3>6
    <3>8. \A i \in 1..Len(center') : center'[i] # c /\ \E k \in 1..Len(center) : center'[i] = center[k]
      BY <3>1, <3>2, <3>5, <3>6
    <3> QED BY <1>2, <3>1, <3>3, <3>4, <3>7, <3>8
  <2> QED BY <2>1, <2>2
<1>5. ASSUME NEW d \in 1..made'
      PROVE  /\ \A p \in U : p[1] = d => p[2] >= allocIndex'[d]
             /\ freeCount'[d] = allocIndex'[d] + Cardinality(UsedOf(U, d))
  <2>1. CASE d = c
    <3>1. Cardinality(UsedOf(U, c)) = 0
      BY <1>4, FS_EmptySet
    <3>2. \A p \in U : p[1] # c
      BY <1>4 DEF UsedOf
    <3> QED BY <1>3, <2>1, <3>1, <3>2
  <2>2. CASE d # c
    <3>1. d \in 1..made
      BY <1>4, <2>2
    <3>2. d \in Chunks
      BY <1>2, <3>1 DEF Chunks
    <3> QED BY <1>3, <2>2, <3>1, <3>2 DEF PoolGood, UsedOf
  <2> QED BY <2>1, <2>2
<1>6. ASSUME NEW i \in 1..Len(center')
      PROVE  /\ center'[i] \in 1..made' /\ freeCount'[center'[i]] = 0
             /\ \A t \in Workers : tls'[t] # center'[i]
  <2>1. PICK k \in 1..Len(center) : center'[i] = center[k]
    BY <1>4
  <2>2. center[k] \in 1..made /\ freeCount[center[k]] = 0 /\ \A t \in Workers : tls[t] # center[k]
    BY DEF PoolGood
  <2>m. made' \in Nat /\ made <= made'
    BY <1>4
  <2>n. made \in 0..MaxChunks
    BY <1>2
  <2>3. center[k] \in Chunks /\ center[k] \in 1..made'
    BY <2>m, <2>n, <2>2 DEF Chunks
  <2> QED BY <1>3, <1>4, <2>1, <2>2, <2>3
<1>7. \A t, u \in Workers : tls'[t] = tls'[u] => t = u \/ tls'[t] = NoChunk
  BY <1>3, <1>4 DEF PoolGood
<1>8. \A p \in U : p[1] \in 1..made'
  BY <1>2, <1>4 DEF PoolGood
<1>9. \A t \in Workers : tls'[t] \in 0..made'
  BY <1>2, <1>3, <1>4 DEF PoolGood
<1>10. PoolGood(U)'
  BY <1>4, <1>5, <1>6, <1>7, <1>8, <1>9 DEF PoolGood, UsedOf
<1>11. c # NoChunk
  BY DEF Chunks
<1>12. \A t \in Workers : tls[t] # NoChunk => tls[t] \in Chunks
  BY <1>2 DEF Chunks
<1> QED BY <1>3, <1>4, <1>10, <1>11, <1>12

-----------------------------------------------------------------------------
(* Who has a packet *)

LEMMA InUseFacts ==
  ASSUME TypeOK, Control
  PROVE  /\ AtWork = Working \cup Held /\ Queued \subseteq Objects /\ Held \subseteq Objects /\ Working \subseteq Objects
         /\ \A t \in Workers : hand[t].packet \in Objects => hand[t].packet \in Working
         /\ \A i \in 1..Len(jobs) : jobs[i].packet \in Objects => jobs[i].packet \in Working
         /\ upd.at \in {"answer", "send"} => Held = {upd.packet}
         /\ upd.at \notin {"answer", "send"} => Held = {}
<1>1. \A t \in Workers : Packets(hand[t]) = {hand[t].packet} \cap Objects
  <2>1. SUFFICES ASSUME NEW t \in Workers
                 PROVE  Packets(hand[t]) = {hand[t].packet} \cap Objects
    OBVIOUS
  <2>2. hand[t] \in JobSet \cup {NoJob} /\ Grip(t, at[t], hand[t])
    BY DEF TypeOK, Control
  <2>3. hand[t].packet \in Objects \cup {NoPacket}
    BY <2>2, JobFacts DEF JobSet
  <2> QED BY <2>2, <2>3, ObjectFacts DEF Packets, Grip
<1>2. \A i \in 1..Len(jobs) : Packets(jobs[i]) = {jobs[i].packet} \cap Objects
  <2>1. SUFFICES ASSUME NEW i \in 1..Len(jobs)
                 PROVE  Packets(jobs[i]) = {jobs[i].packet} \cap Objects
    OBVIOUS
  <2>2. jobs[i] \in JobSet /\ (jobs[i].packet \in Objects <=> jobs[i].type = "message")
    BY ElementOfSeq DEF TypeOK, Control
  <2>3. jobs[i].packet \in Objects \cup {NoPacket}
    BY <2>2 DEF JobSet
  <2> QED BY <2>2, <2>3, ObjectFacts DEF Packets
<1>3. ToSet(jobs) = {jobs[i] : i \in 1..Len(jobs)}
  BY Elements DEF TypeOK
<1>4. UNION {Packets(j) : j \in ToSet(jobs)} = {p \in Objects : \E i \in 1..Len(jobs) : jobs[i].packet = p}
  BY <1>2, <1>3
<1>5. UNION {Packets(hand[w]) : w \in Workers} = {p \in Objects : \E t \in Workers : hand[t].packet = p}
  BY <1>1
<1>6. /\ (IF upd.at \in {"send", "answer"} THEN {upd.packet} ELSE {}) = Held
      /\ upd.at \in {"answer", "send"} => Held = {upd.packet}
      /\ upd.at \notin {"answer", "send"} => Held = {}
  BY DEF Held, Control
<1>7. Queued \subseteq Objects
  <2>1. \A s \in Sessions : ToSet(sendQ[s]) \subseteq Objects
    BY Elements DEF TypeOK
  <2> QED BY <2>1 DEF Queued
<1>8. AtWork = Working \cup Held
  <2> DEFINE a == UNION {Packets(hand[w]) : w \in Workers}
             b == UNION {Packets(j) : j \in ToSet(jobs)}
             h == IF upd.at \in {"send", "answer"} THEN {upd.packet} ELSE {}
  <2>h. h = Held
    BY <1>6
  <2>1. AtWork = a \cup b \cup h
    BY DEF AtWork, a, b, h
  <2>2. Working = a \cup b
    BY <1>4, <1>5 DEF Working
  <2> HIDE DEF a, b, h
  <2> QED BY <2>1, <2>2, <2>h
<1> QED BY <1>6, <1>7, <1>8 DEF Working, Held

(* A packet is queued if it has a place; it is in use if it is counted. *)
LEMMA CountFacts ==
  ASSUME TypeOK, Control, NEW p \in Objects
  PROVE  /\ Counts(p) = Cardinality(PlacesIn(sendQ, p)) + (IF p \in AtWork THEN 1 ELSE 0)
         /\ Cardinality(PlacesIn(sendQ, p)) \in Nat /\ Counts(p) \in Nat
         /\ p \in Queued <=> Cardinality(PlacesIn(sendQ, p)) > 0
         /\ p \in InUse <=> Counts(p) > 0
<1>1. sendQ \in [Sessions -> Seq(Objects)]
  BY DEF TypeOK
<1>2. /\ Counts(p) = Cardinality(PlacesIn(sendQ, p)) + (IF p \in AtWork THEN 1 ELSE 0)
      /\ IsFiniteSet(PlacesIn(sendQ, p)) /\ Cardinality(PlacesIn(sendQ, p)) \in Nat
  <2>1. Places(p) = PlacesIn(sendQ, p)
    BY DEF Places, PlacesIn
  <2> QED BY <1>1, <2>1, PlacesFinite DEF Counts
<1>3. p \in Queued <=> PlacesIn(sendQ, p) # {}
  <2>1. p \in Queued <=> \E s \in Sessions : \E i \in 1..Len(sendQ[s]) : sendQ[s][i] = p
    <3>1. \A s \in Sessions : ToSet(sendQ[s]) = {sendQ[s][i] : i \in 1..Len(sendQ[s])}
      BY <1>1, Elements
    <3>2. p \in Queued <=> \E s \in Sessions : p \in ToSet(sendQ[s])
      BY DEF Queued
    <3>3. ASSUME NEW s \in Sessions
          PROVE  p \in ToSet(sendQ[s]) <=> \E i \in 1..Len(sendQ[s]) : sendQ[s][i] = p
      BY <3>1
    <3> QED BY <3>2, <3>3
  <2>2. ASSUME NEW s \in Sessions, NEW i \in 1..Len(sendQ[s]), sendQ[s][i] = p
        PROVE  PlacesIn(sendQ, p) # {}
    <3>1. <<s, i>> \in PlacesIn(sendQ, p)
      BY <1>1, <2>2, PlaceIn
    <3> QED BY <3>1
  <2>3. ASSUME NEW x \in PlacesIn(sendQ, p)
        PROVE  \E s \in Sessions : \E i \in 1..Len(sendQ[s]) : sendQ[s][i] = p
    BY <1>1, PlaceOf
  <2> QED BY <2>1, <2>2, <2>3
<1>4. p \in Queued <=> Cardinality(PlacesIn(sendQ, p)) > 0
  <2>1. Cardinality(PlacesIn(sendQ, p)) = 0 <=> PlacesIn(sendQ, p) = {}
    BY <1>2, FS_EmptySet
  <2> QED BY <1>2, <1>3, <2>1
<1>5. Counts(p) \in Nat /\ (Counts(p) > 0 <=> Cardinality(PlacesIn(sendQ, p)) > 0 \/ p \in AtWork)
  BY <1>2
<1> QED BY <1>2, <1>4, <1>5 DEF InUse

(* The packets the threads have, and the jobs, when ... nothing moves, *)
LEMMA WorkingSame ==
  ASSUME Single, UNCHANGED jobs, \A t \in Workers : hand'[t].packet = hand[t].packet
  PROVE  Single' /\ Working' = Working
BY DEF Single, Working

(* ... a job is queued, *)
LEMMA WorkingQueued ==
  ASSUME TypeOK, Control, Single, NEW t \in NetThreads, EnQ(t)
  PROVE  Single' /\ Working' = Working
<1>1. /\ at[t] = "enqueue" /\ jobs' = Append(jobs, hand[t]) /\ hand' = [hand EXCEPT ![t] = [hand[t] EXCEPT !.packet = NoPacket]]
  BY DEF EnQ, At, Take
<1>2. hand[t] \in JobSet /\ hand[t].packet \in Objects \cup {NoPacket} /\ (t = Acceptor => hand[t].packet = NoPacket)
  <2>1. hand[t].type # "message" => hand[t].packet = NoPacket
    BY <1>1, InHand
  <2>2. t = Acceptor => hand[t].type # "message"
    BY DEF Control, Grip
  <2> QED BY <1>1, <2>1, <2>2, InHand
<1> DEFINE p == hand[t].packet
           n == Len(jobs)
<1>3. /\ Len(jobs') = n + 1 /\ n \in Nat /\ \A i \in 1..n : jobs'[i] = jobs[i]
      /\ jobs'[n + 1].packet = p
  BY <1>1, <1>2, AppendFacts DEF TypeOK
<1>4. hand'[t].packet = NoPacket /\ \A u \in Workers : u # t => hand'[u] = hand[u]
  <2>1. [hand[t] EXCEPT !.packet = NoPacket].packet = NoPacket
    BY <1>2 DEF JobSet
  <2> QED BY <1>1, <2>1 DEF TypeOK
<1>5. NoPacket \notin Objects
  BY ObjectFacts
<1> SUFFICES ASSUME TRUE
             PROVE  Single' /\ Working' = Working
  OBVIOUS
<1>6. p \in Objects => t \in Workers
  BY <1>2, <1>5
<1> HIDE DEF p, n
<1>7. n = Len(jobs)
  BY DEF n
<1>p. p = hand[t].packet
  BY DEF p
<1>8. \A i \in 1..(n + 1) : i \in 1..n \/ i = n + 1
  BY <1>3
<1>9. Single'
  <2>0. /\ \A w, u \in Workers : hand[w].packet \in Objects /\ hand[w].packet = hand[u].packet => w = u
        /\ \A i, j \in 1..n : jobs[i].packet \in Objects /\ jobs[i].packet = jobs[j].packet => i = j
        /\ \A w \in Workers, i \in 1..n : hand[w].packet \in Objects => hand[w].packet # jobs[i].packet
    BY <1>7 DEF Single
  <2>1. \A w, u \in Workers : hand'[w].packet \in Objects /\ hand'[w].packet = hand'[u].packet => w = u
    BY <1>4, <1>5, <2>0
  <2>2. ASSUME NEW i \in 1..(n + 1), NEW j \in 1..(n + 1), jobs'[i].packet \in Objects, jobs'[i].packet = jobs'[j].packet
        PROVE  i = j
    <3>1. CASE i \in 1..n /\ j \in 1..n
      BY <1>3, <2>0, <2>2, <3>1
    <3>2. CASE i = n + 1 /\ j \in 1..n
      BY <1>3, <1>6, <1>p, <2>0, <2>2, <3>2
    <3>3. CASE i \in 1..n /\ j = n + 1
      BY <1>3, <1>6, <1>p, <2>0, <2>2, <3>3
    <3>4. CASE i = n + 1 /\ j = n + 1
      BY <3>4
    <3> QED BY <1>8, <3>1, <3>2, <3>3, <3>4
  <2>3. ASSUME NEW w \in Workers, NEW i \in 1..(n + 1), hand'[w].packet \in Objects
        PROVE  hand'[w].packet # jobs'[i].packet
    <3>1. w # t /\ hand'[w] = hand[w]
      BY <1>4, <1>5, <2>3
    <3>2. CASE i \in 1..n
      BY <1>3, <2>0, <2>3, <3>1, <3>2
    <3>3. CASE i = n + 1
      BY <1>3, <1>6, <1>p, <2>0, <2>3, <3>1, <3>3
    <3> QED BY <1>8, <3>2, <3>3
  <2> QED BY <1>3, <2>1, <2>2, <2>3 DEF Single
<1>10. ASSUME NEW q \in Objects
       PROVE  q \in Working' <=> q \in Working
  <2>1. ASSUME NEW w \in Workers, hand'[w].packet = q
        PROVE  q \in Working
    BY <1>4, <1>5, <2>1 DEF Working
  <2>2. ASSUME NEW i \in 1..(n + 1), jobs'[i].packet = q
        PROVE  q \in Working
    BY <1>3, <1>6, <1>7, <1>8, <1>p, <2>2 DEF Working
  <2>3. ASSUME NEW w \in Workers, hand[w].packet = q
        PROVE  q \in Working'
    <3>1. CASE w = t
      <4>1. jobs'[n + 1].packet = q /\ n + 1 \in 1..Len(jobs')
        BY <1>3, <1>p, <2>3, <3>1
      <4> QED BY <4>1 DEF Working
    <3>2. CASE w # t
      BY <1>4, <2>3, <3>2 DEF Working
    <3> QED BY <3>1, <3>2
  <2>4. ASSUME NEW i \in 1..n, jobs[i].packet = q
        PROVE  q \in Working'
    <3>1. jobs'[i].packet = q /\ i \in 1..Len(jobs')
      BY <1>3, <2>4
    <3> QED BY <3>1 DEF Working
  <2>5. q \in Working <=> (\E w \in Workers : hand[w].packet = q) \/ \E i \in 1..n : jobs[i].packet = q
    BY <1>7 DEF Working
  <2>6. q \in Working' <=> (\E w \in Workers : hand'[w].packet = q) \/ \E i \in 1..(n + 1) : jobs'[i].packet = q
    BY <1>3 DEF Working
  <2> QED BY <2>1, <2>2, <2>3, <2>4, <2>5, <2>6
<1>11. Working' \subseteq Objects /\ Working \subseteq Objects
  BY DEF Working
<1> QED BY <1>9, <1>10, <1>11

(* ... a job is taken, *)
LEMMA WorkingTaken ==
  ASSUME TypeOK, Control, Single, jobs # <<>>, jobs' = Tail(jobs), UNCHANGED hand
  PROVE  /\ Single' /\ Working' = Working \ {Head(jobs).packet}
         /\ Head(jobs).packet \in Objects => Head(jobs).packet \in Working
         /\ Head(jobs).packet \in Objects => \A t \in Workers : hand[t].packet # Head(jobs).packet
<1> DEFINE p == Head(jobs).packet
           n == Len(jobs)
<1>1. /\ n \in Nat \ {0} /\ p = jobs[1].packet /\ Len(jobs') = n - 1
      /\ \A i \in 1..(n - 1) : jobs'[i] = jobs[i + 1]
  BY Taken
<1>2. /\ \A w, u \in Workers : hand[w].packet \in Objects /\ hand[w].packet = hand[u].packet => w = u
      /\ \A i, j \in 1..n : jobs[i].packet \in Objects /\ jobs[i].packet = jobs[j].packet => i = j
      /\ \A w \in Workers, i \in 1..n : hand[w].packet \in Objects => hand[w].packet # jobs[i].packet
  BY DEF Single
<1>7. n = Len(jobs)
  OBVIOUS
<1> HIDE DEF p, n
<1>3. /\ 1 \in 1..n /\ \A i \in 1..(n - 1) : i + 1 \in 1..n /\ i + 1 # 1
      /\ \A i \in 1..n : i = 1 \/ (i - 1 \in 1..(n - 1) /\ (i - 1) + 1 = i)
  BY <1>1
<1>4. Single'
  <2>1. ASSUME NEW i \in 1..(n - 1), NEW j \in 1..(n - 1), jobs'[i].packet \in Objects, jobs'[i].packet = jobs'[j].packet
        PROVE  i = j
    <3>1. i + 1 = j + 1
      BY <1>1, <1>2, <1>3, <2>1
    <3> QED BY <3>1
  <2>2. \A w \in Workers, i \in 1..(n - 1) : hand[w].packet \in Objects => hand[w].packet # jobs'[i].packet
    BY <1>1, <1>2, <1>3
  <2> QED BY <1>1, <1>2, <2>1, <2>2 DEF Single
<1>5. p \in Objects => p \in Working /\ \A t \in Workers : hand[t].packet # p
  BY <1>1, <1>2, <1>3, <1>7 DEF Working
<1>6. ASSUME NEW q \in Objects
      PROVE  q \in Working' <=> q \in Working /\ q # p
  <2>1. q \in Working <=> (\E w \in Workers : hand[w].packet = q) \/ \E i \in 1..n : jobs[i].packet = q
    BY <1>7 DEF Working
  <2>2. q \in Working' <=> (\E w \in Workers : hand[w].packet = q) \/ \E i \in 1..(n - 1) : jobs'[i].packet = q
    BY <1>1 DEF Working
  <2>3. ASSUME NEW i \in 1..(n - 1), jobs'[i].packet = q
        PROVE  q # p /\ \E j \in 1..n : jobs[j].packet = q
    BY <1>1, <1>2, <1>3, <2>3
  <2>4. ASSUME NEW i \in 1..n, jobs[i].packet = q, q # p
        PROVE  \E j \in 1..(n - 1) : jobs'[j].packet = q
    BY <1>1, <1>3, <2>4
  <2> QED BY <1>5, <2>1, <2>2, <2>3, <2>4
<1>8. Working' \subseteq Objects /\ Working \subseteq Objects
  BY DEF Working
<1> QED BY <1>4, <1>5, <1>6, <1>8 DEF p

(* ... a thread allocates a packet. *)
LEMMA WorkingNew ==
  ASSUME TypeOK, Single, NEW w \in Workers, NEW p \in Objects, p \notin Working, hand[w].packet \notin Objects,
         NEW job \in JobSet, job.packet = p, hand' = [hand EXCEPT ![w] = job], UNCHANGED jobs
  PROVE  Single' /\ Working' = Working \cup {p}
<1>1. hand'[w].packet = p /\ \A u \in Workers : u # w => hand'[u] = hand[u]
  BY DEF TypeOK
<1>2. /\ \A t \in Workers : hand[t].packet # p
      /\ \A i \in 1..Len(jobs) : jobs[i].packet # p
  BY DEF Working
<1>3. Single'
  BY <1>1, <1>2 DEF Single
<1>4. ASSUME NEW q \in Objects
      PROVE  q \in Working' <=> q \in Working \/ q = p
  BY <1>1 DEF Working
<1>5. Working' \subseteq Objects /\ Working \subseteq Objects
  BY DEF Working
<1> QED BY <1>3, <1>4, <1>5

-----------------------------------------------------------------------------
(* The packets in a step *)

OwnersKnown ==
    /\ AtWork = Working \cup Held /\ Queued \subseteq Objects
    /\ Held \subseteq Objects /\ Working \subseteq Objects
    /\ upd.at \in {"answer", "send"} => Held = {upd.packet}
    /\ upd.at \notin {"answer", "send"} => Held = {}

CountsKnown ==
    \A p \in Objects :
        /\ Counts(p) = Cardinality(PlacesIn(sendQ, p)) + (IF p \in AtWork THEN 1 ELSE 0)
        /\ Cardinality(PlacesIn(sendQ, p)) \in Nat /\ Counts(p) \in Nat
        /\ p \in Queued <=> Cardinality(PlacesIn(sendQ, p)) > 0
        /\ p \in InUse <=> Counts(p) > 0

LEMMA PacketsKnown == TypeOK /\ Control => OwnersKnown /\ CountsKnown
BY InUseFacts, CountFacts DEF OwnersKnown, CountsKnown

LEMMA InUseNext ==
  ASSUME TypeOK', Control'
  PROVE  /\ AtWork' = Working' \cup Held' /\ Queued' \subseteq Objects
         /\ Held' \subseteq Objects /\ Working' \subseteq Objects
         /\ upd'.at \in {"answer", "send"} => Held' = {upd'.packet}
         /\ upd'.at \notin {"answer", "send"} => Held' = {}
<1>1. (TypeOK /\ Control => OwnersKnown /\ CountsKnown)'
  BY PacketsKnown, PTL
<1> QED BY <1>1 DEF OwnersKnown

LEMMA CountNext ==
  ASSUME TypeOK', Control', NEW p \in Objects
  PROVE  /\ Counts(p)' = Cardinality(PlacesIn(sendQ', p)) + (IF p \in AtWork' THEN 1 ELSE 0)
         /\ Cardinality(PlacesIn(sendQ', p)) \in Nat /\ Counts(p)' \in Nat
         /\ p \in Queued' <=> Cardinality(PlacesIn(sendQ', p)) > 0
         /\ p \in InUse' <=> Counts(p)' > 0
<1>1. (TypeOK /\ Control => OwnersKnown /\ CountsKnown)'
  BY PacketsKnown, PTL
<1> QED BY <1>1 DEF CountsKnown

LEMMA PoolAside ==
  ASSUME PoolGood(InUse), Refilling, UNCHANGED poolVars, InUse' = InUse,
         \A t \in Workers : at[t] = "refill" => at'[t] = "refill" /\ hand'[t].packet = hand[t].packet
  PROVE  PoolGood(InUse)' /\ Refilling'
<1>1. PoolGood(InUse)'
  <2>1. UNCHANGED <<made, center, tls, allocIndex, freeCount, InUse>>
    BY DEF poolVars
  <2> HIDE DEF NoChunk
  <2> QED BY <2>1 DEF PoolGood
<1>2. Refilling'
  BY DEF Refilling, poolVars
<1> QED BY <1>1, <1>2

(* A step that leaves the packets with those who have them. *)
LEMMA PacketsAside ==
  ASSUME TypeOK, Control, Sound, TypeOK', Control',
         UNCHANGED <<packetVars, sendQ>>, Single', Working' = Working,
         upd' = upd \/ (upd.at \notin {"answer", "send"} /\ upd'.at \notin {"answer", "send"})
  PROVE  Apart' /\ Counted' /\ Written' /\ InUse' = InUse
<1>1. Queued' = Queued
  BY DEF Queued
<1>2. Held' = Held
  BY InUseFacts, InUseNext DEF Held
<1>3. AtWork' = AtWork /\ InUse' = InUse
  BY <1>1, <1>2, InUseFacts, InUseNext DEF InUse
<1>4. Apart'
  BY <1>1, <1>2 DEF Apart, Sound
<1>5. ASSUME NEW p \in Objects
      PROVE  Counts(p)' = Counts(p)
  BY <1>3, CountFacts, CountNext
<1>6. Counted'
  BY <1>5 DEF Counted, Sound, packetVars
<1>7. Written'
  BY <1>1 DEF Written, Sound, packetVars
<1> QED BY <1>3, <1>4, <1>6, <1>7

LEMMA SoundAside ==
  ASSUME TypeOK, Control, Sound, TypeOK', Control', crash = "none", crash' = "none",
         UNCHANGED <<poolVars, packetVars, sendQ>>, Single', Working' = Working,
         upd' = upd \/ (upd.at \notin {"answer", "send"} /\ upd'.at \notin {"answer", "send"}),
         \A t \in Workers : at[t] = "refill" => at'[t] = "refill" /\ hand'[t].packet = hand[t].packet
  PROVE  Sound'
<1>1. Apart' /\ Counted' /\ Written' /\ InUse' = InUse
  BY PacketsAside
<1>2. PoolGood(InUse)' /\ Refilling'
  BY <1>1, PoolAside DEF Sound
<1> QED BY <1>1, <1>2 DEF Sound

LEMMA SoundAccept ==
  ASSUME TypeOK, Control, Sound, TypeOK', Control', NEW s \in Sessions, Accept(s)
  PROVE  Sound'
<1>1. /\ crash = "none" /\ UNCHANGED <<poolVars, packetVars, netVars, jobs, event, contentVars, upd, crash, logins>>
      /\ \E step, job : Take(Acceptor, step, job)
  BY DEF Accept, At
<1>2. \A t \in Workers : at'[t] = at[t] /\ hand'[t] = hand[t]
  BY <1>1 DEF Take, TypeOK
<1>3. Single' /\ Working' = Working
  BY <1>1, <1>2, WorkingSame DEF Sound, Apart
<1> QED BY <1>1, <1>2, <1>3, SoundAside DEF netVars

LEMMA SoundEnQ ==
  ASSUME TypeOK, Control, Sound, TypeOK', Control', NEW t \in NetThreads, EnQ(t)
  PROVE  Sound'
<1>1. /\ crash = "none" /\ at[t] = "enqueue" /\ UNCHANGED <<poolVars, packetVars, netVars, event, contentVars, upd, crash, logins>>
      /\ \E step, job : Take(t, step, job)
  BY DEF EnQ, At
<1>2. \A u \in Workers : at[u] = "refill" => at'[u] = at[u] /\ hand'[u] = hand[u]
  BY <1>1 DEF Take, TypeOK
<1>3. Single' /\ Working' = Working
  BY WorkingQueued DEF Sound, Apart
<1> QED BY <1>1, <1>2, <1>3, SoundAside DEF netVars

LEMMA SoundSignal ==
  ASSUME TypeOK, Control, Sound, TypeOK', Control', NEW t \in NetThreads, SetTheEvent(t)
  PROVE  Sound'
<1>1. /\ crash = "none" /\ at[t] = "signal" /\ Take(t, "idle", NoJob)
      /\ UNCHANGED <<poolVars, packetVars, sendQ, received, jobs, contentVars, upd, crash, logins>>
  BY DEF SetTheEvent, At
<1>2. hand[t].packet = NoPacket
  BY <1>1, InHand DEF Control, Grip
<1>3. hand'[t].packet = NoPacket /\ \A u \in Workers : u # t => at'[u] = at[u] /\ hand'[u] = hand[u]
  BY <1>1, JobFacts DEF Take, TypeOK
<1>4. Single' /\ Working' = Working
  BY <1>1, <1>2, <1>3, WorkingSame DEF Sound, Apart
<1>5. \A u \in Workers : at[u] = "refill" => at'[u] = "refill" /\ hand'[u].packet = hand[u].packet
  BY <1>1, <1>3
<1> QED BY <1>1, <1>4, <1>5, SoundAside

LEMMA SoundRelease ==
  ASSUME TypeOK, Control, Sound, TypeOK', Control', NEW w \in Workers, NEW s \in Sessions, Release(w, s)
  PROVE  Sound'
<1>1. /\ crash = "none" /\ at[w] = "idle" /\ Take(w, "release", Job("leave", s, NoPacket))
      /\ UNCHANGED <<poolVars, packetVars, sendQ, received, jobs, event, contentVars, upd, crash, logins>>
  BY DEF Release, At
<1>2. hand[w].packet = NoPacket
  BY <1>1, JobFacts DEF Control, Grip
<1>3. hand'[w].packet = NoPacket /\ \A u \in Workers : u # w => at'[u] = at[u] /\ hand'[u] = hand[u]
  BY <1>1, JobFacts DEF Take, TypeOK
<1>4. Single' /\ Working' = Working
  BY <1>1, <1>2, <1>3, WorkingSame DEF Sound, Apart
<1>5. \A u \in Workers : at[u] = "refill" => at'[u] = "refill" /\ hand'[u].packet = hand[u].packet
  BY <1>1, <1>3
<1> QED BY <1>1, <1>4, <1>5, SoundAside

LEMMA SoundRest ==
  ASSUME TypeOK, Control, Sound, TypeOK', Control', Wake \/ Drained \/ CreateNewUser
  PROVE  Sound'
<1>1. /\ crash = "none" /\ UpdateStep /\ UNCHANGED <<poolVars, packetVars, crash>>
      /\ upd' = upd \/ (upd.at \notin {"answer", "send"} /\ upd'.at \notin {"answer", "send"})
  BY UpdateFacts DEF Wake, Drained, CreateNewUser, NextJob, Updating
<1>2. Single' /\ Working' = Working
  <2>1. CASE Wake \/ Drained
    BY <1>1, <2>1, WorkingSame DEF Wake, Drained, UpdateStep, Sound, Apart
  <2>2. CASE CreateNewUser
    <3>1. jobs # <<>> /\ jobs' = Tail(jobs) /\ Head(jobs).type = "join"
      BY <2>2 DEF CreateNewUser, NextJob
    <3>2. Head(jobs).packet \notin Objects
      BY <3>1, Taken
    <3> QED BY <1>1, <3>1, <3>2, WorkingTaken, InUseFacts DEF UpdateStep, Sound, Apart
  <2> QED BY <2>1, <2>2
<1> QED BY <1>1, <1>2, SoundAside DEF UpdateStep, netVars

(* Whose leave the update thread takes is there: it is joined before. *)
LEMMA HeadJoined ==
  ASSUME TypeOK, Control, Order, jobs # <<>>, Head(jobs).type # "join"
  PROVE  Head(jobs).id \in DOMAIN clients
<1>1. Len(jobs) \in Nat \ {0} /\ Head(jobs) = jobs[1]
  BY Taken
<1>2. InOrder(1)
  BY <1>1 DEF Order
<1>3. ~ \E j \in 1..(1 - 1) : TRUE
  OBVIOUS
<1> QED BY <1>1, <1>2, <1>3 DEF InOrder

LEMMA SoundDelete ==
  ASSUME TypeOK, Control, Order, Sound, TypeOK', Control', DeleteUser
  PROVE  Sound'
<1>1. /\ crash = "none" /\ UpdateStep /\ jobs # <<>> /\ jobs' = Tail(jobs) /\ Head(jobs).type = "leave"
  BY DEF DeleteUser, NextJob, Updating
<1>2. UNCHANGED <<poolVars, packetVars, upd, crash, logins>>
  BY <1>1, HeadJoined DEF DeleteUser
<1>3. Head(jobs).packet \notin Objects
  BY <1>1, Taken
<1>4. Single' /\ Working' = Working
  BY <1>1, <1>3, WorkingTaken, InUseFacts DEF UpdateStep, Sound, Apart
<1> QED BY <1>1, <1>2, <1>4, SoundAside DEF UpdateStep, netVars

-----------------------------------------------------------------------------
(* The packets: a chunk is set, a packet is allocated *)

LEMMA PoolCarried ==
  ASSUME NEW U, InUse' = U, PoolGood(U)'
  PROVE  PoolGood(InUse)'
BY DEF PoolGood

LEMMA SoundChunk ==
  ASSUME TypeOK, Control, Sound, TypeOK', Control', NEW w \in Workers, FirstChunk(w) \/ Refill(w)
  PROVE  Sound'
<1>1. /\ crash = "none" /\ ChunkSetting(w) /\ UNCHANGED <<packetVars, netVars, jobs, event, contentVars, hand, upd, crash, logins>>
      /\ \A t \in Workers : t # w => at'[t] = at[t]
  BY DEF FirstChunk, Refill, At, TypeOK
<1>2. Single' /\ Working' = Working
  BY <1>1, WorkingSame DEF Sound, Apart
<1>3. Apart' /\ Counted' /\ Written' /\ InUse' = InUse
  BY <1>1, <1>2, PacketsAside DEF netVars
<1>4. PoolGood(InUse) /\ Refilling /\ PoolType /\ InUse \in SUBSET Objects
  BY <1>1, InUseFacts DEF Sound, TypeOK, InUse
<1>5. SUFFICES ASSUME NEW U \in SUBSET Objects, U = InUse
               PROVE  PoolGood(InUse)' /\ Refilling'
  BY <1>1, <1>3, <1>4 DEF Sound
<1>6. PoolGood(U)
  BY <1>4, <1>5
<1>7. /\ PoolGood(U)' /\ tls'[w] # NoChunk /\ allocIndex'[tls'[w]] # 0
      /\ \A t \in Workers : t # w => tls'[t] = tls[t] /\ (tls[t] # NoChunk => allocIndex'[tls[t]] = allocIndex[tls[t]])
  BY <1>1, <1>4, <1>6, PoolChunk
<1>8. Refilling'
  BY <1>1, <1>4, <1>7 DEF Refilling
<1> QED BY <1>3, <1>5, <1>7, <1>8, PoolCarried

LEMMA SoundRecv ==
  ASSUME TypeOK, Control, Sound, TypeOK', Control', NEW w \in Workers, NEW s \in Sessions, RecvPacket(w, s)
  PROVE  Sound'
<1>0. SUFFICES ASSUME NEW p, p = NextObject(w), NEW U \in SUBSET Objects, U = InUse
               PROVE  Sound'
  BY InUseFacts DEF InUse
<1>1. /\ crash = "none" /\ at[w] = "idle" /\ tls[w] # NoChunk /\ TakeObject(w)
      /\ \E m \in Messages : body' = [body EXCEPT ![p] = m]
      /\ Take(w, IF p[2] = 0 THEN "refill" ELSE "enqueue", Job("message", s, p))
      /\ UNCHANGED <<refs, session, sendQ, jobs, event, contentVars, upd, crash, logins>>
  BY <1>0 DEF RecvPacket, At
<1>2. PoolGood(U) /\ Refilling /\ PoolType
  BY <1>0, <1>1 DEF Sound, TypeOK
<1>3. /\ p \in Objects /\ p \notin U /\ PoolGood(U \cup {p})'
      /\ p[1] = tls[w] /\ p[2] = allocIndex'[tls[w]]
      /\ \A d \in Chunks : d # tls[w] => allocIndex'[d] = allocIndex[d]
  BY <1>0, <1>1, <1>2, PoolTake
<1>4. hand[w].packet = NoPacket
  BY <1>1, JobFacts DEF Control, Grip
<1>5. Job("message", s, p) \in JobSet /\ Job("message", s, p).packet = p
  BY <1>3, JobFacts
<1>6. p \notin Working /\ p \notin Held /\ p \notin Queued
  BY <1>0, <1>3, InUseFacts DEF InUse
<1>7. Single' /\ Working' = Working \cup {p}
  <2>1. hand' = [hand EXCEPT ![w] = Job("message", s, p)] /\ hand[w].packet \notin Objects
    BY <1>1, <1>4, ObjectFacts DEF Take
  <2> QED BY <1>1, <1>3, <1>5, <1>6, <2>1, WorkingNew DEF Sound, Apart
<1>8. Queued' = Queued /\ Held' = Held
  BY <1>1 DEF Queued, Held
<1>9. Apart'
  BY <1>6, <1>7, <1>8 DEF Apart, Sound
<1>10. AtWork' = AtWork \cup {p} /\ InUse' = U \cup {p}
  BY <1>0, <1>7, <1>8, InUseFacts, InUseNext DEF InUse
<1>11. Counted'
  <2>1. ASSUME NEW q \in Objects
        PROVE  refs'[q] = IF Counts(q)' > 0 THEN Counts(q)' ELSE 1
    <3>1. sendQ' = sendQ /\ refs' = refs
      BY <1>1
    <3>2. refs[q] = IF Counts(q) > 0 THEN Counts(q) ELSE 1
      BY DEF Sound, Counted
    <3>3. CASE q = p
      <4>1. ~(Counts(p) > 0) /\ ~(Cardinality(PlacesIn(sendQ, p)) > 0)
        BY <1>0, <1>3, <1>6, CountFacts
      <4>2. Counts(p)' = 1
        BY <1>3, <1>10, <3>1, <4>1, CountFacts, CountNext
      <4> QED BY <3>1, <3>2, <3>3, <4>1, <4>2
    <3>4. CASE q # p
      <4>1. Counts(q)' = Counts(q)
        BY <1>10, <3>1, <3>4, CountFacts, CountNext
      <4> QED BY <3>1, <3>2, <4>1
    <3> QED BY <3>3, <3>4
  <2> QED BY <2>1 DEF Counted
<1>12. Written'
  <2>1. body'[p] \in Messages /\ \A q \in Objects : q # p => body'[q] = body[q]
    BY <1>1, <1>3 DEF TypeOK
  <2>2. Working \subseteq Objects /\ Queued \subseteq Objects /\ (upd.at = "send" => upd.packet \in Held /\ Held \subseteq Objects)
    BY InUseFacts
  <2>3. \A q \in Working' : body'[q] \in Messages
    BY <1>7, <2>1, <2>2 DEF Sound, Written
  <2>4. \A q \in Queued : body'[q] = Reply
    BY <1>6, <2>1, <2>2 DEF Sound, Written
  <2>5. upd.at = "send" => body'[upd.packet] = Reply
    BY <1>6, <2>1, <2>2 DEF Sound, Written
  <2> QED BY <1>1, <1>8, <2>3, <2>4, <2>5 DEF Sound, Written
<1>13. Refilling'
  <2>1. ASSUME NEW t \in Workers, tls'[t] # NoChunk, allocIndex'[tls'[t]] = 0
        PROVE  at'[t] = "refill" /\ hand'[t].packet = <<tls'[t], 0>>
    <3>0. UNCHANGED tls
      BY <1>1 DEF TakeObject
    <3>1. CASE t = w
      <4>1. p[2] = 0 /\ p = <<tls[w], 0>>
        BY <1>3, <2>1, <3>0, <3>1, ObjectFacts
      <4>2. at'[w] = "refill" /\ hand'[w] = Job("message", s, p)
        BY <1>1, <4>1 DEF Take, TypeOK
      <4> QED BY <1>5, <3>0, <3>1, <4>1, <4>2
    <3>2. CASE t # w
      <4>1. at'[t] = at[t] /\ hand'[t] = hand[t]
        BY <1>1, <3>2 DEF Take, TypeOK
      <4>2. tls[t] # tls[w] /\ tls[t] \in Chunks
        BY <1>2, <2>1, <3>0, <3>2 DEF PoolGood, PoolType, Chunks
      <4>3. allocIndex[tls[t]] = 0
        BY <1>3, <2>1, <3>0, <4>2
      <4> QED BY <1>2, <2>1, <3>0, <4>1, <4>3 DEF Refilling
    <3> QED BY <3>1, <3>2
  <2> QED BY <2>1 DEF Refilling
<1>14. PoolGood(InUse)'
  <2>1. SUFFICES ASSUME NEW V, V = U \cup {p}
                 PROVE  PoolGood(InUse)'
    OBVIOUS
  <2>2. PoolGood(V)'
    BY <1>3, <2>1
  <2> QED BY <1>10, <2>1, <2>2, PoolCarried
<1> QED BY <1>1, <1>9, <1>11, <1>12, <1>13, <1>14 DEF Sound

-----------------------------------------------------------------------------
(* The packets: one count is given back *)

LEMMA Dropped ==
  ASSUME TypeOK, Control, Sound, TypeOK', Control', crash = "none", NEW p \in InUse, Drop(p),
         \A q \in Objects : Counts(q)' = Counts(q) - (IF q = p THEN 1 ELSE 0),
         \A t \in Workers : hand[t].packet # p, UNCHANGED <<at, hand>>
  PROVE  /\ Counted' /\ PoolGood(InUse)' /\ Refilling' /\ InUse' \subseteq InUse
         /\ \A q \in InUse' : body'[q] = body[q]
<1>0. SUFFICES ASSUME NEW U \in SUBSET Objects, U = InUse
               PROVE  /\ Counted' /\ PoolGood(InUse)' /\ Refilling' /\ InUse' \subseteq InUse
                      /\ \A q \in InUse' : body'[q] = body[q]
  BY InUseFacts DEF InUse
<1>1. p \in Objects /\ InUse' \subseteq Objects
  BY <1>0, InUseNext DEF InUse
<1>2. /\ refs[p] = Counts(p) /\ Counts(p) > 0 /\ Counts(p) \in Nat
      /\ \A q \in Objects : refs[q] = IF Counts(q) > 0 THEN Counts(q) ELSE 1
  BY <1>1, CountFacts DEF Sound, Counted
<1>3. ASSUME NEW q \in Objects, q # p
      PROVE  Counts(q)' = Counts(q) /\ (q \in InUse' <=> q \in U)
  <2>1. Counts(q)' = Counts(q) - 0 /\ Counts(q) \in Nat
    BY <1>3, CountFacts
  <2>2. Counts(q)' = Counts(q)
    BY <2>1
  <2> QED BY <1>0, <2>2, CountFacts, CountNext
<1>4. Counts(p)' = Counts(p) - 1 /\ (p \in InUse' <=> Counts(p) - 1 > 0)
  BY <1>1, CountNext
<1>5. PoolGood(U) /\ Refilling /\ PoolType /\ refs \in [Objects -> Int] /\ body \in [Objects -> Bodies]
  BY <1>0 DEF Sound, TypeOK
<1>6. CASE refs[p] = 1
  <2>1. Free(p) /\ Counts(p)' = 0 /\ p \notin InUse'
    BY <1>2, <1>4, <1>6 DEF Drop
  <2>2. InUse' = U \ {p}
    BY <1>1, <1>3, <2>1
  <2>3. /\ FreeObject(p) /\ refs'[p] = 1
        /\ \A q \in Objects : q # p => refs'[q] = refs[q] /\ body'[q] = body[q]
    BY <1>1, <1>5, <2>1 DEF Free
  <2>4. Counted'
    BY <1>2, <1>3, <2>1, <2>3 DEF Counted
  <2>5. \A t \in Workers : hand[t].packet \in Objects => hand[t].packet \in U
    BY <1>0, InUseFacts DEF InUse
  <2>6. PoolGood(U \ {p})'
    BY <1>0, <1>5, <2>3, <2>5, PoolFree
  <2>7. PoolGood(InUse)'
    <3>1. SUFFICES ASSUME NEW V, V = U \ {p}
                   PROVE  PoolGood(InUse)'
      OBVIOUS
    <3>2. PoolGood(V)'
      BY <2>6, <3>1
    <3> QED BY <2>2, <3>1, <3>2, PoolCarried
  <2>8. Refilling'
    BY <1>5, <2>3 DEF Refilling, FreeObject
  <2> QED BY <1>0, <1>1, <2>2, <2>3, <2>4, <2>7, <2>8
<1>7. CASE refs[p] # 1
  <2>1. refs' = [refs EXCEPT ![p] = refs[p] - 1] /\ UNCHANGED <<poolVars, body>>
    BY <1>7 DEF Drop
  <2>2. refs'[p] = refs[p] - 1 /\ \A q \in Objects : q # p => refs'[q] = refs[q]
    BY <1>1, <1>5, <2>1
  <2>3. Counts(p)' > 0 /\ refs'[p] = Counts(p)' /\ p \in InUse'
    BY <1>2, <1>4, <1>7, <2>2
  <2>4. Counted'
    BY <1>2, <1>3, <2>2, <2>3 DEF Counted
  <2>5. InUse' = InUse
    BY <1>0, <1>1, <1>3, <2>3
  <2>6. PoolGood(InUse)' /\ Refilling'
    BY <1>0, <1>5, <2>1, <2>5, PoolAside
  <2> QED BY <2>1, <2>4, <2>5, <2>6
<1> QED BY <1>6, <1>7

(* The first packet of a send queue is dropped. *)
LEMMA SoundTail ==
  ASSUME TypeOK, Control, Sound, TypeOK', Control', crash = "none", crash' = "none", NEW s \in Sessions, sendQ[s] # <<>>,
         sendQ' = [sendQ EXCEPT ![s] = Tail(sendQ[s])], Drop(Head(sendQ[s])), UNCHANGED <<jobs, at, hand, upd>>
  PROVE  Sound'
<1>0. SUFFICES ASSUME NEW p, p = Head(sendQ[s])
               PROVE  Sound'
  OBVIOUS
<1>1. sendQ' \in [Sessions -> Seq(Objects)] /\ Shrunk(sendQ, sendQ', s) /\ sendQ \in [Sessions -> Seq(Objects)]
  BY ShrunkBy DEF TypeOK
<1>2. \A q : Cardinality(PlacesIn(sendQ', q)) = Cardinality(PlacesIn(sendQ, q)) - (IF q = p THEN 1 ELSE 0)
  BY <1>0, <1>1, PlacesShrink, ZenonT(40)
<1>3. p \in Queued /\ p \in Objects
  <2>1. p \in Objects
    BY <1>0, HeadFacts DEF TypeOK
  <2>2. Len(sendQ[s]) \in Nat \ {0} /\ p = sendQ[s][1] /\ ToSet(sendQ[s]) = {sendQ[s][i] : i \in 1..Len(sendQ[s])}
    BY <1>0, HeadFacts, Elements DEF TypeOK
  <2>3. p \in ToSet(sendQ[s])
    BY <2>2
  <2> QED BY <2>1, <2>3 DEF Queued
<1>4. Single' /\ Working' = Working /\ Held' = Held
  BY WorkingSame DEF Sound, Apart, Held
<1>5. AtWork' = AtWork
  BY <1>4, InUseFacts, InUseNext
<1>6. ASSUME NEW q \in Objects
      PROVE  Counts(q)' = Counts(q) - (IF q = p THEN 1 ELSE 0)
  <2>1. Cardinality(PlacesIn(sendQ', q)) = Cardinality(PlacesIn(sendQ, q)) - (IF q = p THEN 1 ELSE 0)
    BY <1>2
  <2>2. q \in AtWork' <=> q \in AtWork
    BY <1>5
  <2>3. /\ Counts(q) = Cardinality(PlacesIn(sendQ, q)) + (IF q \in AtWork THEN 1 ELSE 0)
        /\ Cardinality(PlacesIn(sendQ, q)) \in Nat
    BY CountFacts
  <2>4. Counts(q)' = Cardinality(PlacesIn(sendQ', q)) + (IF q \in AtWork' THEN 1 ELSE 0)
    BY CountNext
  <2> QED BY <2>1, <2>2, <2>3, <2>4
<1>7. \A t \in Workers : hand[t].packet # p
  BY <1>3, InUseFacts DEF Sound, Apart
<1>8. /\ Counted' /\ PoolGood(InUse)' /\ Refilling' /\ InUse' \subseteq InUse
      /\ \A q \in InUse' : body'[q] = body[q]
  BY <1>0, <1>3, <1>6, <1>7, Dropped DEF InUse
<1>9. Queued' \subseteq Queued
  <2>1. ASSUME NEW q \in Queued'
        PROVE  q \in Queued
    <3>1. q \in Objects /\ Cardinality(PlacesIn(sendQ', q)) > 0
      BY <2>1, InUseNext, CountNext
    <3>2. Cardinality(PlacesIn(sendQ, q)) > 0
      BY <1>2, <3>1, CountFacts, CountNext
    <3> QED BY <3>1, <3>2, CountFacts
  <2> QED BY <2>1
<1>10. Apart'
  BY <1>4, <1>9 DEF Sound, Apart
<1>11. Written'
  <2>1. Working' \subseteq InUse' /\ Queued' \subseteq InUse' /\ (upd.at = "send" => upd.packet \in InUse')
    BY InUseNext DEF InUse
  <2> QED BY <1>4, <1>8, <1>9, <2>1 DEF Sound, Written
<1> QED BY <1>8, <1>10, <1>11 DEF Sound

LEMMA SoundComplete ==
  ASSUME TypeOK, Control, Sound, TypeOK', Control', NEW w \in Workers, NEW s \in Sessions, SendComplete(w, s)
  PROVE  Sound'
<1>1. /\ crash = "none" /\ sendQ[s] # <<>> /\ sendQ' = [sendQ EXCEPT ![s] = Tail(sendQ[s])]
      /\ UNCHANGED <<jobs, at, hand, upd>>
  BY DEF SendComplete, At
<1>2. Head(sendQ[s]) \in Queued
  <2>1. Len(sendQ[s]) \in Nat \ {0} /\ Head(sendQ[s]) = sendQ[s][1] /\ ToSet(sendQ[s]) = {sendQ[s][i] : i \in 1..Len(sendQ[s])}
    BY <1>1, HeadFacts, Elements DEF TypeOK
  <2>2. Head(sendQ[s]) \in ToSet(sendQ[s])
    BY <2>1
  <2> QED BY <2>2 DEF Queued
<1>3. body[Head(sendQ[s])] # Empty
  BY <1>2, BodyFacts DEF Sound, Written
<1>4. Drop(Head(sendQ[s])) /\ UNCHANGED crash
  BY <1>3 DEF SendComplete
<1> QED BY <1>1, <1>4, SoundTail

LEMMA SoundReleasePacket ==
  ASSUME TypeOK, Control, Sound, TypeOK', Control', NEW w \in Workers, ReleasePacket(w)
  PROVE  Sound'
<1> DEFINE s == hand[w].id
<1>1. /\ crash = "none" /\ at[w] = "release" /\ s \in Sessions
      /\ UNCHANGED <<session, received, jobs, event, contentVars, hand, upd, crash, logins>>
  BY InHand DEF ReleasePacket, At
<1>2. CASE sendQ[s] = <<>>
  <2>1. UNCHANGED <<poolVars, packetVars, sendQ>> /\ at' = [at EXCEPT ![w] = "enqueue"]
    BY <1>2 DEF ReleasePacket
  <2>2. \A t \in Workers : at[t] = "refill" => at'[t] = "refill"
    BY <1>1, <2>1 DEF TypeOK
  <2>3. Single' /\ Working' = Working
    BY <1>1, WorkingSame DEF Sound, Apart
  <2> QED BY <1>1, <2>1, <2>2, <2>3, SoundAside
<1>3. CASE sendQ[s] # <<>>
  <2>1. sendQ' = [sendQ EXCEPT ![s] = Tail(sendQ[s])] /\ Drop(Head(sendQ[s])) /\ UNCHANGED at
    BY <1>3 DEF ReleasePacket
  <2>2. SUFFICES ASSUME NEW r \in Sessions, r = s
                 PROVE  Sound'
    BY <1>1
  <2> HIDE DEF s
  <2> QED BY <1>1, <1>3, <2>1, <2>2, SoundTail
<1> QED BY <1>2, <1>3

(* The sender's own count. *)
LEMMA SoundSendEnd ==
  ASSUME TypeOK, Control, Sound, TypeOK', Control', SendEnd
  PROVE  Sound'
<1>0. SUFFICES ASSUME NEW p, p = upd.packet
               PROVE  Sound'
  OBVIOUS
<1>1. /\ crash = "none" /\ upd.at = "send" /\ Drop(p) /\ upd' = Idle
      /\ UpdateStep /\ UNCHANGED <<jobs, event, contentVars, logins>>
      /\ crash' = IF upd.wide /\ upd.sent = 0 /\ refs[p] # 1 THEN "NotFreed" ELSE crash
  BY <1>0 DEF SendEnd, Updating
<1>2. Held = {p} /\ p \in Objects /\ p \in AtWork /\ p \notin Working
  BY <1>0, <1>1, InUseFacts DEF Sound, Apart
<1>3. Held' = {} /\ Queued' = Queued
  BY <1>1, UpdateFacts, InUseNext DEF UpdateStep, netVars, Queued
<1>4. Single' /\ Working' = Working
  BY <1>1, WorkingSame DEF UpdateStep, Sound, Apart
<1>5. AtWork' = AtWork \ {p}
  BY <1>2, <1>3, <1>4, InUseFacts, InUseNext
<1>6. ASSUME NEW q \in Objects
      PROVE  Counts(q)' = Counts(q) - (IF q = p THEN 1 ELSE 0)
  <2>1. sendQ' = sendQ
    BY <1>1 DEF UpdateStep, netVars
  <2>2. q \in AtWork' <=> q \in AtWork /\ q # p
    BY <1>5
  <2> QED BY <1>2, <2>1, <2>2, CountFacts, CountNext
<1>7. \A t \in Workers : hand[t].packet # p
  BY <1>2, InUseFacts
<1>8. /\ Counted' /\ PoolGood(InUse)' /\ Refilling' /\ InUse' \subseteq InUse
      /\ \A q \in InUse' : body'[q] = body[q]
  BY <1>1, <1>2, <1>6, <1>7, Dropped DEF InUse, UpdateStep
<1>9. Apart'
  BY <1>3, <1>4 DEF Sound, Apart
<1>10. Written'
  <2>1. Working' \subseteq InUse' /\ Queued' \subseteq InUse'
    BY InUseNext DEF InUse
  <2> QED BY <1>1, <1>3, <1>4, <1>8, <2>1, UpdateFacts DEF Sound, Written
<1>11. crash' = "none"
  <2>1. SUFFICES ASSUME upd.sent = 0
                 PROVE  refs[p] = 1
    BY <1>1
  <2>2. p \notin Queued
    BY <1>0, <1>1, <2>1 DEF Sound, Written
  <2>3. Counts(p) = 1
    BY <1>2, <2>2, CountFacts
  <2> QED BY <1>2, <2>3 DEF Sound, Counted
<1> QED BY <1>8, <1>9, <1>10, <1>11 DEF Sound

(* The next recipient. *)
LEMMA SoundSendNext ==
  ASSUME TypeOK, Control, Sound, TypeOK', Control', SendNext
  PROVE  Sound'
<1>0. SUFFICES ASSUME NEW p, p = upd.packet, NEW s, s = Head(upd.to)
               PROVE  Sound'
  OBVIOUS
<1> DEFINE sent == session[s] \in {"new", "open"}
<1>1. /\ crash = "none" /\ upd.at = "send" /\ upd.to # <<>>
      /\ upd' = [upd EXCEPT !.to = Tail(@), !.sent = IF sent THEN @ + 1 ELSE @]
      /\ UNCHANGED <<poolVars, body, session, received, jobs, event, contentVars, at, hand, logins>>
  BY <1>0 DEF SendNext, Updating
<1>2. Held = {p} /\ p \in Objects /\ p \in AtWork /\ p \notin Working /\ body[p] = Reply /\ (upd.sent = 0 => p \notin Queued)
  BY <1>0, <1>1, InUseFacts DEF Sound, Apart, Written
<1>3. /\ refs' = IF sent THEN [refs EXCEPT ![p] = @ + 1] ELSE refs
      /\ sendQ' = IF sent THEN [sendQ EXCEPT ![s] = Append(@, p)] ELSE sendQ
      /\ crash' = "none"
  BY <1>0, <1>1, <1>2, BodyFacts DEF SendNext
<1>4. upd'.at = "send" /\ upd'.packet = p /\ upd.sent \in Nat /\ upd'.sent = IF sent THEN upd.sent + 1 ELSE upd.sent
  BY <1>0, <1>1 DEF TypeOK, Updates
<1>5. s \in Sessions
  <2>1. upd.to \in Seq(Sessions)
    BY DEF TypeOK, Updates
  <2> QED BY <1>0, <1>1, <2>1, HeadFacts
<1>6. Single' /\ Working' = Working
  BY <1>1, WorkingSame DEF Sound, Apart
<1>7. Held' = Held
  BY <1>2, <1>4 DEF Held
<1>8. AtWork' = AtWork
  BY <1>6, <1>7, InUseFacts, InUseNext
<1> HIDE DEF sent
<1>9. /\ Counted' /\ Queued' = IF sent THEN Queued \cup {p} ELSE Queued
  <2>1. CASE sent
    <3>1. /\ refs' = [refs EXCEPT ![p] = refs[p] + 1] /\ sendQ' = [sendQ EXCEPT ![s] = Append(sendQ[s], p)]
      BY <1>3, <2>1
    <3>2. sendQ' \in [Sessions -> Seq(Objects)] /\ Grown(sendQ, sendQ', s, p) /\ sendQ \in [Sessions -> Seq(Objects)]
      BY <1>2, <1>5, <3>1, GrownBy DEF TypeOK
    <3>3. /\ Cardinality(PlacesIn(sendQ', p)) = Cardinality(PlacesIn(sendQ, p)) + 1
          /\ \A q : q # p => PlacesIn(sendQ', q) = PlacesIn(sendQ, q)
      BY <1>2, <1>5, <3>2, PlacesGrow, SMTT(40)
    <3>4. /\ Counts(p)' = Counts(p) + 1 /\ refs'[p] = refs[p] + 1 /\ refs[p] = Counts(p)
          /\ Counts(p) \in Nat /\ Counts(p) > 0 /\ p \in Queued'
      <4>1. refs'[p] = refs[p] + 1
        BY <1>2, <3>1 DEF TypeOK
      <4>2. Counts(p) > 0 /\ Counts(p) \in Nat /\ refs[p] = Counts(p)
        BY <1>2, CountFacts DEF Sound, Counted
      <4>3. Counts(p)' = Counts(p) + 1 /\ p \in Queued'
        BY <1>2, <1>8, <3>3, CountFacts, CountNext
      <4> QED BY <4>1, <4>2, <4>3
    <3>5. ASSUME NEW q \in Objects, q # p
          PROVE  Counts(q)' = Counts(q) /\ refs'[q] = refs[q] /\ (q \in Queued' <=> q \in Queued)
      <4>1. PlacesIn(sendQ', q) = PlacesIn(sendQ, q) /\ refs'[q] = refs[q]
        BY <3>1, <3>3, <3>5 DEF TypeOK
      <4> QED BY <1>8, <4>1, CountFacts, CountNext
    <3>6. Counted'
      <4>1. ASSUME NEW q \in Objects
            PROVE  refs'[q] = IF Counts(q)' > 0 THEN Counts(q)' ELSE 1
        <5>1. CASE q = p
          BY <3>4, <5>1
        <5>2. CASE q # p
          BY <3>5, <5>2 DEF Sound, Counted
        <5> QED BY <5>1, <5>2
      <4> QED BY <4>1 DEF Counted
    <3>7. Queued' = Queued \cup {p}
      <4>1. Queued' \subseteq Objects /\ Queued \subseteq Objects
        BY InUseFacts, InUseNext
      <4> QED BY <1>2, <3>4, <3>5, <4>1
    <3> QED BY <2>1, <3>6, <3>7
  <2>2. CASE ~sent
    <3>1. sendQ' = sendQ /\ refs' = refs
      BY <1>3, <2>2
    <3>2. Queued' = Queued
      BY <3>1 DEF Queued
    <3>3. \A q \in Objects : Counts(q)' = Counts(q)
      BY <1>8, <3>1, CountFacts, CountNext
    <3> QED BY <2>2, <3>1, <3>2, <3>3 DEF Sound, Counted
  <2> QED BY <2>1, <2>2
<1>10. InUse' = InUse
  BY <1>2, <1>8, <1>9 DEF InUse
<1>11. PoolGood(InUse)' /\ Refilling'
  BY <1>1, <1>10, PoolAside DEF Sound
<1>12. Apart'
  BY <1>2, <1>6, <1>7, <1>9 DEF Sound, Apart
<1>13. Written'
  <2>1. \A q \in Queued' : body[q] = Reply
    BY <1>2, <1>9 DEF Sound, Written
  <2>2. upd'.sent = 0 => p \notin Queued'
    BY <1>2, <1>4, <1>9
  <2> QED BY <1>1, <1>2, <1>4, <1>6, <2>1, <2>2 DEF Sound, Written
<1> QED BY <1>3, <1>9, <1>11, <1>12, <1>13 DEF Sound

-----------------------------------------------------------------------------
(* The packets: a message is taken *)

LEMMA MessageTaken ==
  ASSUME TypeOK, Control, Sound, TypeOK', Control', NEW s \in Sessions, NEW m, Message(s, m),
         NEW p, p = Head(jobs).packet
  PROVE  /\ Single' /\ Working' = Working \ {p} /\ Queued' = Queued /\ Held = {} /\ UNCHANGED <<sendQ, at, hand>>
         /\ p \in Working /\ p \in Objects /\ p \in InUse /\ p \notin Queued /\ Counts(p) = 1 /\ refs[p] = 1
         /\ \A t \in Workers : hand[t].packet # p
         /\ m = body[p] /\ upd.at = "drain" /\ crash = "none"
         /\ AtWork = Working
<1>1. /\ jobs # <<>> /\ jobs' = Tail(jobs) /\ Head(jobs).type = "message" /\ m = body[p]
      /\ upd.at = "drain" /\ crash = "none" /\ UpdateStep
  BY DEF Message, NextJob, Updating
<1>2. UNCHANGED <<sendQ, at, hand>> /\ Queued' = Queued
  BY <1>1 DEF UpdateStep, netVars, Queued
<1>3. p \in Objects
  BY <1>1, Taken
<1>4. /\ Single' /\ Working' = Working \ {p} /\ p \in Working /\ \A t \in Workers : hand[t].packet # p
  BY <1>1, <1>2, <1>3, WorkingTaken DEF Sound, Apart
<1>5. Held = {} /\ AtWork = Working
  BY <1>1, InUseFacts
<1>6. p \notin Queued /\ p \in AtWork
  BY <1>4, <1>5 DEF Sound, Apart
<1>7. Counts(p) = 1
  BY <1>3, <1>6, CountFacts
<1>8. refs[p] = 1
  BY <1>3, <1>7 DEF Sound, Counted
<1> QED BY <1>1, <1>2, <1>3, <1>4, <1>5, <1>6, <1>7, <1>8 DEF InUse

(* The packet of the message is nobody's any more. *)
LEMMA MessageGone ==
  ASSUME TypeOK, Control, Sound, TypeOK', Control', NEW s \in Sessions, NEW m, Message(s, m),
         NEW p, p = Head(jobs).packet, UNCHANGED upd,
         \A q \in Objects : q # p => refs'[q] = refs[q] /\ body'[q] = body[q], refs'[p] = 1
  PROVE  Apart' /\ Counted' /\ Written' /\ InUse' = InUse \ {p}
<1>1. /\ Single' /\ Working' = Working \ {p} /\ Queued' = Queued /\ Held = {} /\ UNCHANGED <<sendQ, at, hand>>
      /\ p \in Working /\ p \in Objects /\ p \in InUse /\ p \notin Queued /\ Counts(p) = 1 /\ refs[p] = 1
      /\ upd.at = "drain" /\ AtWork = Working
  BY MessageTaken
<1>2. Held' = {}
  BY <1>1, InUseNext
<1>3. AtWork' = AtWork \ {p} /\ InUse' = InUse \ {p}
  BY <1>1, <1>2, InUseNext DEF InUse
<1>4. Apart'
  BY <1>1, <1>2 DEF Sound, Apart
<1>5. Counted'
  <2>1. ASSUME NEW q \in Objects
        PROVE  refs'[q] = IF Counts(q)' > 0 THEN Counts(q)' ELSE 1
    <3>1. CASE q = p
      <4>1. ~(Counts(q)' > 0)
        BY <1>3, <3>1, CountNext
      <4> QED BY <3>1, <4>1
    <3>2. CASE q # p
      <4>1. Counts(q)' = Counts(q)
        BY <1>1, <1>3, <3>2, CountFacts, CountNext
      <4> QED BY <3>2, <4>1 DEF Sound, Counted
    <3> QED BY <3>1, <3>2
  <2> QED BY <2>1 DEF Counted
<1>6. Written'
  <2>1. Working \subseteq Objects /\ Queued \subseteq Objects
    BY InUseFacts
  <2> QED BY <1>1, <2>1 DEF Sound, Written
<1> QED BY <1>3, <1>4, <1>5, <1>6

LEMMA SoundDie ==
  ASSUME TypeOK, Control, Order, Sound, TypeOK', Control', NEW s \in Sessions, NEW m, Message(s, m),
         NEW where, Die(where), where \in {"Marshal", "SectorMove", "SendSector"}
  PROVE  Sound'
<1>0. SUFFICES ASSUME NEW p, p = Head(jobs).packet
               PROVE  Sound'
  OBVIOUS
<1>1. refs[p] = 1
  BY <1>0, MessageTaken
<1>2. UNCHANGED <<poolVars, packetVars, upd>> /\ crash' = where
  BY DEF Die
<1>3. Apart' /\ Counted' /\ Written'
  BY <1>0, <1>1, <1>2, MessageGone DEF packetVars
<1> QED BY <1>2, <1>3 DEF Sound

LEMMA SoundDieOnMessage ==
  ASSUME TypeOK, Control, Order, Sound, TypeOK', Control', NEW s \in Sessions, NEW m, DieOnMessage(s, m)
  PROVE  Sound'
<1>1. Message(s, m) /\ DieOf(s, m) # "none" /\ Die(DieOf(s, m))
  BY DEF DieOnMessage
<1>2. s \in DOMAIN clients
  <2>1. jobs # <<>> /\ Head(jobs).type = "message" /\ s = Head(jobs).id
    BY <1>1 DEF Message, NextJob
  <2> QED BY <2>1, HeadJoined
<1>3. DieOf(s, m) = "Marshal"
  BY <1>1, <1>2 DEF DieOf
<1> QED BY <1>1, <1>3, SoundDie

LEMMA SoundRefuse ==
  ASSUME TypeOK, Control, Sound, TypeOK', Control', NEW s \in Sessions, NEW m, Refuse(s, m)
  PROVE  Sound'
<1>0. SUFFICES ASSUME NEW p, p = Head(jobs).packet, NEW U \in SUBSET Objects, U = InUse
               PROVE  Sound'
  BY InUseFacts DEF InUse
<1>1. Message(s, m) /\ Free(p) /\ UNCHANGED <<contentVars, upd, crash, logins>>
  BY <1>0 DEF Refuse
<1>2. /\ p \in U /\ p \in Objects /\ crash = "none" /\ UNCHANGED <<at, hand>>
      /\ \A t \in Workers : hand[t].packet # p
  BY <1>0, <1>1, MessageTaken
<1>3. /\ FreeObject(p) /\ refs'[p] = 1
      /\ \A q \in Objects : q # p => refs'[q] = refs[q] /\ body'[q] = body[q]
  BY <1>1, <1>2 DEF Free, TypeOK
<1>4. Apart' /\ Counted' /\ Written' /\ InUse' = U \ {p}
  BY <1>0, <1>1, <1>3, MessageGone
<1>5. PoolGood(U) /\ Refilling /\ PoolType
  BY <1>0, <1>2 DEF Sound, TypeOK
<1>6. \A t \in Workers : hand[t].packet \in Objects => hand[t].packet \in U
  BY <1>0, InUseFacts DEF InUse
<1>7. PoolGood(U \ {p})'
  BY <1>2, <1>3, <1>5, <1>6, PoolFree
<1>8. PoolGood(InUse)'
  <2>1. SUFFICES ASSUME NEW V, V = U \ {p}
                 PROVE  PoolGood(InUse)'
    OBVIOUS
  <2>2. PoolGood(V)'
    BY <1>7, <2>1
  <2> QED BY <1>4, <2>1, <2>2, PoolCarried
<1>9. Refilling'
  BY <1>2, <1>3, <1>5 DEF Refilling, FreeObject
<1> QED BY <1>1, <1>2, <1>4, <1>8, <1>9 DEF Sound

(* The packet of the message becomes the answer. *)
LEMMA SoundAnswer ==
  ASSUME TypeOK, Control, Sound, TypeOK', Control', NEW s \in Sessions, NEW m, Message(s, m),
         NEW p, p = Head(jobs).packet, Answer(p), NEW to, NEW wide, upd' = Sending(p, to, wide),
         UNCHANGED <<poolVars, crash>>
  PROVE  Sound'
<1>1. /\ Single' /\ Working' = Working \ {p} /\ Queued' = Queued /\ Held = {} /\ UNCHANGED <<sendQ, at, hand>>
      /\ p \in Working /\ p \in Objects /\ p \in InUse /\ p \notin Queued /\ Counts(p) = 1 /\ refs[p] = 1
      /\ crash = "none" /\ AtWork = Working
  BY MessageTaken
<1>2. upd'.at = "send" /\ upd'.packet = p /\ upd'.sent = 0
  BY DEF Sending
<1>3. Held' = {p}
  BY <1>2, InUseNext
<1>4. AtWork' = AtWork /\ InUse' = InUse
  BY <1>1, <1>3, InUseNext DEF InUse
<1>5. refs' = [refs EXCEPT ![p] = 1] /\ body' = [body EXCEPT ![p] = Reply]
  BY DEF Answer
<1>6. refs' = refs /\ body'[p] = Reply /\ \A q \in Objects : q # p => body'[q] = body[q]
  BY <1>1, <1>5 DEF TypeOK
<1>7. Apart'
  BY <1>1, <1>3 DEF Sound, Apart
<1>8. \A q \in Objects : Counts(q)' = Counts(q)
  BY <1>1, <1>4, CountFacts, CountNext
<1>9. Counted'
  BY <1>6, <1>8 DEF Sound, Counted
<1>10. Written'
  <2>1. Working \subseteq Objects /\ Queued \subseteq Objects
    BY InUseFacts
  <2> QED BY <1>1, <1>2, <1>6, <2>1 DEF Sound, Written
<1>11. PoolGood(InUse)' /\ Refilling'
  BY <1>1, <1>4, PoolAside DEF Sound
<1> QED BY <1>1, <1>7, <1>9, <1>10, <1>11 DEF Sound

LEMMA SoundMove ==
  ASSUME TypeOK, Control, Order, Sound, TypeOK', Control', NEW s \in Sessions, NEW m, SectorMove(s, m)
  PROVE  Sound'
<1>1. Message(s, m)
  BY DEF SectorMove
<1>2. CASE m.to \notin Sectors
  BY <1>1, <1>2, SoundDie DEF SectorMove
<1>3. CASE m.to \in Sectors
  <2>1. /\ Answer(Head(jobs).packet) /\ upd' = Sending(Head(jobs).packet, <<s>>, FALSE)
        /\ UNCHANGED <<poolVars, crash>>
    BY <1>3 DEF SectorMove
  <2> QED BY <1>1, <2>1, SoundAnswer
<1> QED BY <1>2, <1>3

LEMMA SoundChat ==
  ASSUME TypeOK, Control, Order, Sound, TypeOK', Control', NEW s \in Sessions, NEW m, Chat(s, m)
  PROVE  Sound'
<1>1. Message(s, m)
  BY DEF Chat
<1>2. CASE clients[s].sector \notin Sectors
  BY <1>1, <1>2, SoundDie DEF Chat
<1>3. CASE clients[s].sector \in Sectors
  <2>1. /\ Answer(Head(jobs).packet) /\ upd' = Sending(Head(jobs).packet, Recipients(clients[s].sector), TRUE)
        /\ UNCHANGED <<poolVars, crash>>
    BY <1>3 DEF Chat
  <2> QED BY <1>1, <2>1, SoundAnswer
<1> QED BY <1>2, <1>3

-----------------------------------------------------------------------------
(* The steps *)

LEMMA SectorsAside ==
  ASSUME SectorsMatch, UNCHANGED contentVars
  PROVE  SectorsMatch'
<1>1. UNCHANGED <<clients, sector>>
  BY DEF contentVars
<1> QED BY <1>1 DEF SectorsMatch

LEMMA WakeAside ==
  ASSUME NoLostWakeUp, event => event', upd'.at = "wait" => upd.at = "wait", jobs' # <<>> => jobs # <<>>,
         \A t \in NetThreads : at[t] = "signal" => at'[t] = "signal"
  PROVE  NoLostWakeUp'
BY DEF NoLostWakeUp

LEMMA AcceptStep ==
  ASSUME Sure, NEW s \in Sessions, Accept(s)
  PROVE  Sure' /\ (Sound => Sound') /\ UNCHANGED logins
<1>1. TypeOK' /\ Control'
  BY AcceptTyped DEF Sure
<1>2. Order'
  BY OrderAccept DEF Sure
<1>3. UNCHANGED <<netVars, jobs, event, contentVars, upd, logins>> /\ at' = [at EXCEPT ![Acceptor] = "enqueue"] /\ at[Acceptor] = "idle"
  BY DEF Accept, At, Take
<1>4. NoLostWakeUp'
  BY <1>3, WakeAside DEF Sure, TypeOK
<1> QED BY <1>1, <1>2, <1>3, <1>4, SectorsAside, SoundAccept DEF Sure

LEMMA ChunkStep ==
  ASSUME Sure, NEW w \in Workers, FirstChunk(w) \/ Refill(w)
  PROVE  Sure' /\ (Sound => Sound') /\ UNCHANGED logins
<1>1. TypeOK' /\ Control'
  BY FirstChunkTyped, RefillTyped DEF Sure
<1>2. UNCHANGED <<session, jobs, event, contentVars, clients, hand, upd, logins>>
  BY DEF FirstChunk, Refill, netVars, contentVars
<1>3. at' = at \/ (at[w] = "refill" /\ at' = [at EXCEPT ![w] = "enqueue"])
  BY DEF FirstChunk, Refill, At
<1>4. Order'
  BY <1>2, <1>3, OrderAside, OrderStep DEF Sure
<1>5. NoLostWakeUp'
  BY <1>2, <1>3, WakeAside DEF Sure, TypeOK
<1> QED BY <1>1, <1>2, <1>4, <1>5, SectorsAside, SoundChunk DEF Sure

LEMMA RecvStep ==
  ASSUME Sure, NEW w \in Workers, NEW s \in Sessions, RecvPacket(w, s)
  PROVE  Sure' /\ (Sound => Sound') /\ UNCHANGED logins
<1>1. TypeOK' /\ Control'
  BY RecvPacketTyped DEF Sure
<1>2. Order'
  BY OrderRecv DEF Sure
<1>3. /\ UNCHANGED <<jobs, event, contentVars, upd, logins>> /\ at[w] = "idle"
      /\ \E step : at' = [at EXCEPT ![w] = step]
  BY DEF RecvPacket, At, Take
<1>4. NoLostWakeUp'
  BY <1>3, WakeAside DEF Sure, TypeOK
<1> QED BY <1>1, <1>2, <1>3, <1>4, SectorsAside, SoundRecv DEF Sure

LEMMA EnQStep ==
  ASSUME Sure, NEW t \in NetThreads, EnQ(t)
  PROVE  Sure' /\ (Sound => Sound') /\ UNCHANGED logins
<1>1. TypeOK' /\ Control'
  BY EnQTyped DEF Sure
<1>2. Order'
  BY OrderEnQ DEF Sure
<1>3. UNCHANGED <<contentVars, logins>> /\ at' = [at EXCEPT ![t] = "signal"]
  BY DEF EnQ, Take
<1>4. NoLostWakeUp'
  BY <1>3 DEF Sure, TypeOK, NoLostWakeUp
<1> QED BY <1>1, <1>2, <1>3, <1>4, SectorsAside, SoundEnQ DEF Sure

LEMMA SignalStep ==
  ASSUME Sure, NEW t \in NetThreads, SetTheEvent(t)
  PROVE  Sure' /\ (Sound => Sound') /\ UNCHANGED logins
<1>1. TypeOK' /\ Control'
  BY SetTheEventTyped DEF Sure
<1>2. Order'
  BY OrderSignal DEF Sure
<1>3. UNCHANGED <<contentVars, logins>> /\ event' = TRUE
  BY DEF SetTheEvent
<1>4. NoLostWakeUp'
  BY <1>3 DEF NoLostWakeUp
<1> QED BY <1>1, <1>2, <1>3, <1>4, SectorsAside, SoundSignal DEF Sure

LEMMA CompleteStep ==
  ASSUME Sure, NEW w \in Workers, NEW s \in Sessions, SendComplete(w, s)
  PROVE  Sure' /\ (Sound => Sound') /\ UNCHANGED logins
<1>1. TypeOK' /\ Control'
  BY SendCompleteTyped DEF Sure
<1>2. UNCHANGED <<session, jobs, event, contentVars, clients, at, hand, upd, logins>>
  BY DEF SendComplete, contentVars
<1>3. Order'
  BY <1>2, OrderAside DEF Sure
<1>4. NoLostWakeUp'
  BY <1>2, WakeAside DEF Sure
<1> QED BY <1>1, <1>2, <1>3, <1>4, SectorsAside, SoundComplete DEF Sure

LEMMA ReleaseStep ==
  ASSUME Sure, NEW w \in Workers, NEW s \in Sessions, Release(w, s)
  PROVE  Sure' /\ (Sound => Sound') /\ UNCHANGED logins
<1>1. TypeOK' /\ Control'
  BY ReleaseTyped DEF Sure
<1>2. Order'
  BY OrderRelease DEF Sure
<1>3. UNCHANGED <<jobs, event, contentVars, upd, logins>> /\ at[w] = "idle" /\ at' = [at EXCEPT ![w] = "release"]
  BY DEF Release, At, Take
<1>4. NoLostWakeUp'
  BY <1>3, WakeAside DEF Sure, TypeOK
<1> QED BY <1>1, <1>2, <1>3, <1>4, SectorsAside, SoundRelease DEF Sure

LEMMA ReleasePacketStep ==
  ASSUME Sure, NEW w \in Workers, ReleasePacket(w)
  PROVE  Sure' /\ (Sound => Sound') /\ UNCHANGED logins
<1>1. TypeOK' /\ Control'
  BY ReleasePacketTyped DEF Sure
<1>2. /\ UNCHANGED <<session, jobs, event, contentVars, clients, hand, upd, logins>>
      /\ at[w] = "release" /\ (at' = at \/ at' = [at EXCEPT ![w] = "enqueue"])
  BY DEF ReleasePacket, At, contentVars
<1>3. Order'
  BY <1>2, OrderAside, OrderStep DEF Sure
<1>4. NoLostWakeUp'
  BY <1>2, WakeAside DEF Sure, TypeOK
<1> QED BY <1>1, <1>2, <1>3, <1>4, SectorsAside, SoundReleasePacket DEF Sure

LEMMA WaitStep ==
  ASSUME Sure, Wake \/ Drained
  PROVE  Sure' /\ (Sound => Sound') /\ UNCHANGED logins
<1>1. TypeOK' /\ Control'
  BY WakeTyped, DrainedTyped DEF Sure
<1>2. UNCHANGED <<session, jobs, contentVars, clients, at, hand, logins>>
  BY DEF Wake, Drained, UpdateStep, netVars, contentVars
<1>3. Order'
  BY <1>2, OrderAside DEF Sure
<1>4. upd'.at = "drain" \/ jobs' = <<>>
  BY UpdateFacts DEF Wake, Drained
<1>5. NoLostWakeUp'
  BY <1>4 DEF NoLostWakeUp
<1> QED BY <1>1, <1>2, <1>3, <1>5, SectorsAside, SoundRest DEF Sure

(* A job is taken: the thread does not sleep. *)
LEMMA JobWakes ==
  ASSUME NoLostWakeUp, upd'.at # "wait"
  PROVE  NoLostWakeUp'
BY DEF NoLostWakeUp

LEMMA CreateStep ==
  ASSUME Sure, CreateNewUser
  PROVE  Sure' /\ (Sound => Sound') /\ UNCHANGED logins
<1>1. TypeOK' /\ Control' /\ SectorsMatch'
  BY CreateTyped DEF Sure
<1>2. /\ jobs # <<>> /\ jobs' = Tail(jobs) /\ Head(jobs).type = "join" /\ UNCHANGED <<session, at, hand, upd, logins>>
      /\ upd.at = "drain" /\ DOMAIN clients' = DOMAIN clients \cup {Head(jobs).id}
  BY DEF CreateNewUser, NextJob, Updating, UpdateStep, netVars
<1>3. Order'
  BY <1>2, OrderPop DEF Sure
<1> QED BY <1>1, <1>2, <1>3, JobWakes, SoundRest DEF Sure

LEMMA DeleteStep ==
  ASSUME Sure, DeleteUser
  PROVE  Sure' /\ (Sound => Sound') /\ UNCHANGED logins
<1>1. TypeOK' /\ Control' /\ SectorsMatch'
  BY DeleteTyped DEF Sure
<1>2. /\ jobs # <<>> /\ jobs' = Tail(jobs) /\ Head(jobs).type = "leave" /\ UNCHANGED <<session, at, hand>>
      /\ upd.at = "drain"
  BY DEF DeleteUser, NextJob, Updating, UpdateStep, netVars
<1>3. Head(jobs).id \in DOMAIN clients
  BY <1>2, HeadJoined DEF Sure
<1>4. DOMAIN clients' = DOMAIN clients \ {Head(jobs).id} /\ UNCHANGED <<upd, logins>>
  BY <1>3 DEF DeleteUser
<1>5. Order'
  BY <1>2, <1>4, OrderPop DEF Sure
<1> QED BY <1>1, <1>2, <1>4, <1>5, JobWakes, SoundDelete DEF Sure

LEMMA MessageStep ==
  ASSUME Sure, NEW s \in Sessions, NEW m \in Messages \cup {Empty, Reply}, Process(s, m)
  PROVE  Sure' /\ ((logins' = logins /\ (Sound => Sound')) \/ logins')
<1>1. Message(s, m)
  BY DEF Process, DieOnMessage, Refuse, Login, SectorMove, Chat
<1>2. /\ jobs # <<>> /\ jobs' = Tail(jobs) /\ Head(jobs).type = "message" /\ upd.at = "drain"
      /\ UNCHANGED <<session, at, hand>>
  BY <1>1, MessageFacts DEF Sure, UpdateStep, netVars
<1>3. TypeOK' /\ Control' /\ SectorsMatch'
  <2>1. CASE DieOnMessage(s, m)
    BY <2>1, DieTyped DEF Sure, DieOnMessage
  <2>2. CASE Refuse(s, m)
    BY <2>2, RefuseTyped DEF Sure
  <2>3. CASE Login(s, m)
    <3>1. m.type = "login"
      BY <2>3 DEF Login, Known
    <3>2. m \in Messages
      BY <3>1, BodyFacts
    <3> QED BY <2>3, <3>2, LoginTyped DEF Sure
  <2>4. CASE SectorMove(s, m)
    BY <2>4, MoveTyped DEF Sure
  <2>5. CASE Chat(s, m)
    BY <2>5, ChatTyped DEF Sure
  <2> QED BY <2>1, <2>2, <2>3, <2>4, <2>5 DEF Process
<1>4. DOMAIN clients' = DOMAIN clients
  <2>1. CASE DieOnMessage(s, m) \/ Refuse(s, m) \/ Chat(s, m)
    <3>1. UNCHANGED clients
      BY <2>1 DEF DieOnMessage, Die, Refuse, Chat, contentVars
    <3> QED BY <3>1
  <2>2. CASE Login(s, m) \/ SectorMove(s, m)
    <3>1. clients' = clients \/ (\E a : clients' = [clients EXCEPT ![s].account = a]) \/ (\E c : clients' = [clients EXCEPT ![s].sector = c])
      BY <2>2 DEF Login, SectorMove, Die, contentVars
    <3> QED BY <3>1
  <2> QED BY <2>1, <2>2 DEF Process
<1>5. Order'
  BY <1>2, <1>4, OrderPop DEF Sure
<1>6. upd'.at # "wait"
  <2>1. CASE upd' = upd
    BY <1>2, <2>1
  <2>2. CASE \E p, to, wide : upd' = Sending(p, to, wide) \/ upd' = [Sending(p, to, wide) EXCEPT !.at = "answer"]
    BY <2>2 DEF Sending
  <2>3. upd' = upd \/ \E p, to, wide : upd' = Sending(p, to, wide) \/ upd' = [Sending(p, to, wide) EXCEPT !.at = "answer"]
    <3>1. CASE DieOnMessage(s, m) \/ Refuse(s, m)
      BY <3>1 DEF DieOnMessage, Die, Refuse
    <3>2. CASE Login(s, m)
      BY <3>2 DEF Login
    <3>3. CASE SectorMove(s, m)
      BY <3>3 DEF SectorMove, Die
    <3>4. CASE Chat(s, m)
      BY <3>4 DEF Chat, Die
    <3> QED BY <3>1, <3>2, <3>3, <3>4 DEF Process
  <2> QED BY <2>1, <2>2, <2>3
<1>7. NoLostWakeUp'
  BY <1>6, JobWakes DEF Sure
<1>8. (logins' = logins /\ (Sound => Sound')) \/ logins'
  <2>1. CASE DieOnMessage(s, m)
    BY <1>3, <2>1, SoundDieOnMessage DEF Sure, DieOnMessage, Die
  <2>2. CASE Refuse(s, m)
    BY <1>3, <2>2, SoundRefuse DEF Sure, Refuse
  <2>3. CASE Login(s, m)
    BY <2>3 DEF Login
  <2>4. CASE SectorMove(s, m)
    <3>1. logins' = logins
      BY <2>4 DEF SectorMove, Die
    <3> QED BY <1>3, <2>4, <3>1, SoundMove DEF Sure
  <2>5. CASE Chat(s, m)
    <3>1. logins' = logins
      BY <2>5 DEF Chat, Die
    <3> QED BY <1>3, <2>5, <3>1, SoundChat DEF Sure
  <2> QED BY <2>1, <2>2, <2>3, <2>4, <2>5 DEF Process
<1> QED BY <1>3, <1>5, <1>7, <1>8 DEF Sure

(* The answers: the clients and the jobs are left alone. *)
LEMMA SendStep ==
  ASSUME Sure, LoginAnswer \/ SendNext \/ SendEnd
  PROVE  Sure' /\ (Sound => Sound') /\ UNCHANGED logins
<1>1. TypeOK' /\ Control'
  BY LoginAnswerTyped, SendNextTyped, SendEndTyped DEF Sure
<1>2. UNCHANGED <<session, jobs, event, contentVars, clients, at, hand, logins>>
  BY DEF LoginAnswer, SendNext, SendEnd, UpdateStep, netVars, contentVars
<1>3. Order'
  BY <1>2, OrderAside DEF Sure
<1>4. upd'.at # "wait"
  <2>1. upd \in Updates
    BY DEF Sure, TypeOK
  <2>2. CASE LoginAnswer
    BY <2>1, <2>2 DEF LoginAnswer, Updating, Updates
  <2>3. CASE SendNext
    <3>1. upd.at = "send" /\ \E to, n : upd' = [upd EXCEPT !.to = to, !.sent = n]
      BY <2>3 DEF SendNext, Updating
    <3> QED BY <2>1, <3>1 DEF Updates
  <2>4. CASE SendEnd
    BY <2>4, UpdateFacts DEF SendEnd
  <2> QED BY <2>2, <2>3, <2>4
<1>5. NoLostWakeUp'
  BY <1>4, JobWakes DEF Sure
<1>6. Sound => Sound'
  <2>1. CASE LoginAnswer
    BY <2>1 DEF LoginAnswer, Updating, Sound, Written
  <2>2. CASE SendNext
    BY <1>1, <2>2, SoundSendNext DEF Sure
  <2>3. CASE SendEnd
    BY <1>1, <2>3, SoundSendEnd DEF Sure
  <2> QED BY <2>1, <2>2, <2>3
<1> QED BY <1>1, <1>2, <1>3, <1>5, <1>6, SectorsAside DEF Sure

LEMMA StillStep ==
  ASSUME Sure, UNCHANGED vars
  PROVE  Sure' /\ (Sound => Sound') /\ UNCHANGED logins
<1>1. UNCHANGED <<made, center, tls, allocIndex, freeCount, refs, body, session, sendQ, received, jobs, event,
                  clients, sector, at, hand, upd, crash, logins>>
  BY DEF vars, poolVars, packetVars, netVars, contentVars
<1>2. TypeOK' /\ Control'
  BY <1>1 DEF Sure, TypeOK, PoolType, Control
<1>3. Order'
  BY <1>1, OrderAside DEF Sure
<1>4. SectorsMatch' /\ NoLostWakeUp'
  BY <1>1, SectorsAside, WakeAside DEF Sure, contentVars
<1>5. Sound => Sound'
  <2>1. SUFFICES ASSUME Sound
                 PROVE  Sound'
    OBVIOUS
  <2>2. Single' /\ Working' = Working
    BY <1>1, <2>1, WorkingSame DEF Sound, Apart
  <2>3. Apart' /\ Counted' /\ Written' /\ InUse' = InUse
    BY <1>1, <1>2, <2>1, <2>2, PacketsAside DEF Sure, packetVars
  <2>4. crash = "none" => PoolGood(InUse)' /\ Refilling'
    BY <1>1, <2>1, <2>3, PoolAside DEF Sound, poolVars
  <2> QED BY <1>1, <2>1, <2>3, <2>4 DEF Sound
<1> QED BY <1>1, <1>2, <1>3, <1>4, <1>5 DEF Sure

-----------------------------------------------------------------------------
(* The invariant *)

LEMMA InitSure ==
  ASSUME Init
  PROVE  Sure
<1>1. PoolType
  <2>1. <<>> \in Seq(Chunks)
    OBVIOUS
  <2> QED BY <2>1 DEF Init, PoolInit, PoolType, Chunks
<1>2. hand \in [NetThreads -> JobSet \cup {NoJob}] /\ \A t \in NetThreads : hand[t] = NoJob /\ at[t] = "idle"
  BY DEF Init
<1>3. DOMAIN clients = {} /\ clients \in [DOMAIN clients -> Clients] /\ jobs = <<>> /\ Len(jobs) = 0 /\ 1..Len(jobs) = {}
  BY DEF Init
<1>4. TypeOK
  <2>1. refs \in [Objects -> Int] /\ body \in [Objects -> Bodies] /\ session \in [Sessions -> {"new", "open", "leaving", "closed"}]
    BY DEF Init, Bodies
  <2>2. sendQ \in [Sessions -> Seq(Objects)] /\ sector \in [Sectors -> Seq(Sessions)] /\ jobs \in Seq(JobSet)
    BY DEF Init
  <2>3. at \in [NetThreads -> Steps] /\ upd \in Updates /\ logins \in BOOLEAN
    BY UpdateFacts DEF Init, Steps
  <2> QED BY <1>1, <1>2, <1>3, <2>1, <2>2, <2>3 DEF TypeOK
<1>5. Control
  BY <1>2, <1>3, <1>4, IdleTyped, UpdateFacts, ObjectFacts DEF Init, Control
<1>6. Order
  <2>1. \A t \in NetThreads : Expected(t)
    BY <1>2, JobFacts DEF Expected, Announced
  <2>2. \A s \in Sessions : session[s] = "new" /\ Absent(s)
    BY <1>3 DEF Init, Absent
  <2> QED BY <1>2, <1>3, <2>1, <2>2 DEF Order
<1>7. SectorsMatch
  <2>1. \A c \in Sectors : sector[c] = <<>>
    BY DEF Init
  <2>2. IsInjective(<<>>) /\ ToSet(<<>>) = {}
    BY DEF IsInjective, ToSet
  <2> QED BY <1>3, <2>1, <2>2 DEF SectorsMatch
<1>8. NoLostWakeUp
  BY <1>3 DEF NoLostWakeUp
<1> QED BY <1>4, <1>5, <1>6, <1>7, <1>8 DEF Sure

LEMMA InitSound ==
  ASSUME Init
  PROVE  Sound
<1>0. TypeOK /\ Control
  BY InitSure DEF Sure
<1>1. \A t \in Workers : hand[t].packet = NoPacket
  BY JobFacts DEF Init
<1>2. 1..Len(jobs) = {} /\ NoPacket \notin Objects
  BY ObjectFacts DEF Init
<1>3. Single /\ Working = {}
  BY <1>1, <1>2 DEF Single, Working
<1>4. Held = {} /\ upd.at = "wait"
  BY <1>0, UpdateFacts, InUseFacts DEF Init
<1>5. Queued = {}
  <2>1. \A s \in Sessions : ToSet(sendQ[s]) = {}
    BY DEF Init, ToSet
  <2> QED BY <2>1 DEF Queued
<1>6. InUse = {}
  BY <1>0, <1>3, <1>4, <1>5, InUseFacts DEF InUse
<1>7. Counted
  BY <1>0, <1>6, CountFacts DEF Counted, Init
<1>8. PoolGood({})
  <2>1. 1..made = {} /\ 1..Len(center) = {} /\ \A t \in Workers : tls[t] = NoChunk /\ tls[t] \in 0..made
    BY DEF Init, PoolInit
  <2> QED BY <2>1 DEF PoolGood
<1>9. Refilling
  BY DEF Init, PoolInit, Refilling
<1>10. Written
  BY <1>3, <1>4, <1>5 DEF Written
<1> QED BY <1>3, <1>4, <1>5, <1>6, <1>7, <1>8, <1>9, <1>10 DEF Sound, Apart, Init

LEMMA StepKeeps ==
  ASSUME IInv, [Next]_vars
  PROVE  IInv'
<1>1. Sure /\ (~logins => Sound)
  BY DEF IInv
<1>2. SUFFICES Sure' /\ ((logins' = logins /\ (Sound => Sound')) \/ logins')
  BY <1>1 DEF IInv
<1>3. CASE Network
  <2>1. CASE \E t \in NetThreads : EnQ(t) \/ SetTheEvent(t)
    BY <1>1, <2>1, EnQStep, SignalStep
  <2>2. CASE \E w \in Workers : FirstChunk(w) \/ Refill(w) \/ ReleasePacket(w)
    BY <1>1, <2>2, ChunkStep, ReleasePacketStep
  <2>3. ASSUME NEW s \in Sessions, Accept(s) \/ \E w \in Workers : RecvPacket(w, s) \/ SendComplete(w, s) \/ Release(w, s)
        PROVE  Sure' /\ ((logins' = logins /\ (Sound => Sound')) \/ logins')
    BY <1>1, <2>3, AcceptStep, RecvStep, CompleteStep, ReleaseStep
  <2> QED BY <1>3, <2>1, <2>2, <2>3 DEF Network
<1>4. CASE Update
  <2>1. CASE Wake \/ Drained
    BY <1>1, <2>1, WaitStep
  <2>2. CASE CreateNewUser \/ DeleteUser
    BY <1>1, <2>2, CreateStep, DeleteStep
  <2>3. CASE \E s \in Sessions, m \in Messages \cup {Empty, Reply} : Process(s, m)
    BY <1>1, <2>3, MessageStep
  <2>4. CASE LoginAnswer \/ SendNext \/ SendEnd
    BY <1>1, <2>4, SendStep
  <2> QED BY <1>4, <2>1, <2>2, <2>3, <2>4 DEF Update
<1>5. CASE UNCHANGED vars
  BY <1>1, <1>5, StillStep
<1> QED BY <1>3, <1>4, <1>5 DEF Next

(* The invariant is inductive: the types, where the threads are, the order    *)
(* of the jobs of a session, the sectors and the wake-up whatever happens,    *)
(* and, until a login is processed, who has which packet and the pool.        *)
THEOREM ContentInvariance == Spec => []IInv
<1>1. Init => IInv
  BY InitSure, InitSound DEF IInv
<1>2. IInv /\ [Next]_vars => IInv'
  BY StepKeeps
<1> QED BY <1>1, <1>2, PTL DEF Spec

(* The sector lists and the clients say the same, for any number of sectors   *)
(* and sessions: SECTOR_MOVE and DeleteUser leave no pointer to a client that *)
(* is gone and no client in two lists.                                        *)
THEOREM SectorsCorrect == Spec => []SectorsMatch
<1>1. IInv => SectorsMatch
  BY DEF IInv, Sure
<1> QED BY <1>1, ContentInvariance, PTL

(* The update thread never sleeps on a job: the event is set, or the thread   *)
(* that queued the job is about to set it.                                    *)
THEOREM WakeUpCorrect == Spec => []NoLostWakeUp
<1>1. IInv => NoLostWakeUp
  BY DEF IInv, Sure
<1> QED BY <1>1, ContentInvariance, PTL

(* Until a login is processed m_RefCount of a packet in use is the number of  *)
(* those who will drop it, whatever the recipients and whoever leaves.        *)
THEOREM RefsCorrect == Spec => []RefsExact
<1>1. IInv => RefsExact
  <2>1. SUFFICES ASSUME IInv, ~logins, NEW p \in AtWork \cup Queued
                 PROVE  refs[p] = Counts(p)
    BY DEF RefsExact
  <2>2. TypeOK /\ Control /\ Counted
    BY <2>1 DEF IInv, Sure, Sound
  <2>3. p \in Objects /\ p \in InUse
    BY <2>1, <2>2, InUseFacts DEF InUse
  <2> QED BY <2>2, <2>3, CountFacts DEF Counted
<1> QED BY <1>1, ContentInvariance, PTL

(* Until a login is processed no object of the pool is lost, none is given    *)
(* back twice and no chunk is in two hands, although the pool is used without *)
(* a lock (MemoryPool_TLS.h).                                                 *)
THEOREM PoolCorrect == Spec => []PoolSound
<1>1. IInv => PoolSound
  <2>1. SUFFICES ASSUME IInv, crash = "none", ~logins
                 PROVE  PoolExact(AtWork \cup Queued)
    BY DEF PoolSound
  <2>2. PoolGood(AtWork \cup Queued)
    BY <2>1 DEF IInv, Sound, InUse
  <2>3. DOMAIN center = 1..Len(center)
    BY <2>1, Elements DEF IInv, Sure, TypeOK, PoolType
  <2> QED BY <2>2, <2>3 DEF PoolGood, PoolExact
<1> QED BY <1>1, ContentInvariance, PTL

(* Until a login is processed nobody writes into a packet that another will   *)
(* read: what is queued to be sent is an answer, what the update thread will  *)
(* read is what the client sent.                                              *)
THEOREM BodiesCorrect == Spec => []BodiesKept
<1>1. IInv => BodiesKept
  <2>1. SUFFICES ASSUME IInv, ~logins
                 PROVE  /\ \A p \in Queued : body[p] = Reply
                        /\ \A j \in ToSet(jobs) : j.type = "message" => body[j.packet] \in Messages
    BY DEF BodiesKept
  <2>2. TypeOK /\ Control /\ Written
    BY <2>1 DEF IInv, Sure, Sound
  <2>3. ToSet(jobs) = {jobs[i] : i \in 1..Len(jobs)}
    BY <2>2, Elements DEF TypeOK
  <2>4. ASSUME NEW i \in 1..Len(jobs), jobs[i].type = "message"
        PROVE  body[jobs[i].packet] \in Messages
    <3>1. jobs[i].packet \in Objects
      BY <2>2, <2>4 DEF Control
    <3> QED BY <2>2, <3>1, InUseFacts DEF Written
  <2> QED BY <2>2, <2>3, <2>4 DEF Written
<1> QED BY <1>1, ContentInvariance, PTL

(* Until a login is processed the Crash() calls that check the server's own   *)
(* bookkeeping are not reached: FindClient and DeleteUser find the client,    *)
(* the packets of a send queue are written, and SendSector's last count       *)
(* frees the packet.                                                          *)
THEOREM InternalCrashNever == Spec => []NoInternalCrash
<1>1. IInv => NoInternalCrash
  BY DEF IInv, Sound, NoInternalCrash
<1> QED BY <1>1, ContentInvariance, PTL

-----------------------------------------------------------------------------
(* The rooms: what the abstract content has, and its steps. *)

Where == [s \in DOMAIN clients |-> clients[s].sector]

Owed == ToSet(upd.to)

Mail == [s \in Sessions |-> Len(sendQ[s])]

Gone == {s \in Sessions : session[s] \in {"leaving", "closed"}}

Down == crash # "none"

Still == UNCHANGED <<Where, Owed, Mail, Gone, Down>>

(* The answer in hand is still owed to each of its recipients once, and to    *)
(* nobody when the thread takes the next job.                                 *)
OwedOnce == IsInjective(upd.to) /\ (upd.at \in {"wait", "drain"} => upd.to = <<>>)

RoomInv == IInv /\ OwedOnce

(* A list has the clients of some sectors, each once. *)
Hears(list, cells) ==
    /\ list \in Seq(Sessions) /\ IsInjective(list)
    /\ ToSet(list) = {s \in DOMAIN clients : clients[s].sector \in cells \cap Sectors}

(* Two sequences one after the other. *)
LEMMA JoinElements ==
  ASSUME NEW S, NEW a \in Seq(S), NEW b \in Seq(S)
  PROVE  /\ a \o b \in Seq(S) /\ ToSet(a \o b) = ToSet(a) \cup ToSet(b)
         /\ IsInjective(a) /\ IsInjective(b) /\ ToSet(a) \cap ToSet(b) = {} => IsInjective(a \o b)
<1> DEFINE ab == a \o b
<1>1. /\ ab \in Seq(S) /\ Len(ab) = Len(a) + Len(b) /\ Len(a) \in Nat /\ Len(b) \in Nat
      /\ \A i \in 1..(Len(a) + Len(b)) : ab[i] = IF i <= Len(a) THEN a[i] ELSE b[i - Len(a)]
  BY ConcatProperties, LenProperties
<1> HIDE DEF ab
<1>2. /\ DOMAIN a = 1..Len(a) /\ ToSet(a) = {a[i] : i \in 1..Len(a)}
      /\ DOMAIN b = 1..Len(b) /\ ToSet(b) = {b[i] : i \in 1..Len(b)}
      /\ DOMAIN ab = 1..Len(ab) /\ ToSet(ab) = {ab[i] : i \in 1..Len(ab)}
  BY <1>1, Elements
<1>3. \A i \in 1..Len(a) : i \in 1..Len(ab) /\ ab[i] = a[i]
  BY <1>1
<1>4. \A i \in 1..Len(b) : Len(a) + i \in 1..Len(ab) /\ ab[Len(a) + i] = b[i]
  BY <1>1
<1>5. ASSUME NEW i \in 1..Len(ab)
      PROVE  \/ i \in 1..Len(a) /\ ab[i] = a[i]
             \/ i - Len(a) \in 1..Len(b) /\ ab[i] = b[i - Len(a)] /\ i > Len(a)
  BY <1>1
<1>6. ToSet(ab) = ToSet(a) \cup ToSet(b)
  <2>1. ToSet(ab) \subseteq ToSet(a) \cup ToSet(b)
    BY <1>2, <1>5
  <2>2. ToSet(a) \subseteq ToSet(ab)
    BY <1>2, <1>3
  <2>3. ToSet(b) \subseteq ToSet(ab)
    BY <1>2, <1>4
  <2> QED BY <2>1, <2>2, <2>3
<1>7. ASSUME IsInjective(a), IsInjective(b), ToSet(a) \cap ToSet(b) = {}
      PROVE  IsInjective(ab)
  <2>1. SUFFICES ASSUME NEW i \in 1..Len(ab), NEW j \in 1..Len(ab), ab[i] = ab[j]
                 PROVE  i = j
    BY <1>2 DEF IsInjective
  <2>2. CASE i \in 1..Len(a) /\ ab[i] = a[i] /\ j \in 1..Len(a) /\ ab[j] = a[j]
    BY <1>2, <1>7, <2>1, <2>2 DEF IsInjective
  <2>3. CASE i - Len(a) \in 1..Len(b) /\ ab[i] = b[i - Len(a)] /\ j - Len(a) \in 1..Len(b) /\ ab[j] = b[j - Len(a)]
    <3>1. i - Len(a) = j - Len(a)
      BY <1>2, <1>7, <2>1, <2>3 DEF IsInjective
    <3> QED BY <1>1, <3>1
  <2>4. CASE i \in 1..Len(a) /\ ab[i] = a[i] /\ j - Len(a) \in 1..Len(b) /\ ab[j] = b[j - Len(a)]
    <3>1. a[i] \in ToSet(a) /\ a[i] \in ToSet(b)
      BY <1>2, <2>1, <2>4
    <3> QED BY <1>7, <3>1
  <2>5. CASE j \in 1..Len(a) /\ ab[j] = a[j] /\ i - Len(a) \in 1..Len(b) /\ ab[i] = b[i - Len(a)]
    <3>1. a[j] \in ToSet(a) /\ a[j] \in ToSet(b)
      BY <1>2, <2>1, <2>5
    <3> QED BY <1>7, <3>1
  <2> QED BY <1>5, <2>2, <2>3, <2>4, <2>5
<1> QED BY <1>1, <1>6, <1>7 DEF ab

(* What is left of a sequence without its head. *)
LEMMA TailElements ==
  ASSUME NEW S, NEW seq \in Seq(S), seq # <<>>, IsInjective(seq)
  PROVE  /\ Tail(seq) \in Seq(S) /\ IsInjective(Tail(seq))
         /\ Head(seq) \in ToSet(seq) /\ ToSet(Tail(seq)) = ToSet(seq) \ {Head(seq)}
<1> DEFINE rest == Tail(seq)
<1>1. /\ Len(seq) \in Nat \ {0} /\ Head(seq) = seq[1]
      /\ rest \in Seq(S) /\ Len(rest) = Len(seq) - 1
      /\ \A i \in 1..(Len(seq) - 1) : rest[i] = seq[i + 1]
  BY HeadFacts
<1> HIDE DEF rest
<1>2. /\ DOMAIN seq = 1..Len(seq) /\ ToSet(seq) = {seq[i] : i \in 1..Len(seq)}
      /\ DOMAIN rest = 1..Len(rest) /\ ToSet(rest) = {rest[i] : i \in 1..Len(rest)}
  BY <1>1, Elements
<1>3. IsInjective(rest)
  BY <1>1, <1>2 DEF IsInjective
<1>4. ToSet(rest) \subseteq ToSet(seq) \ {seq[1]}
  <2>1. ASSUME NEW i \in 1..Len(rest)
        PROVE  rest[i] = seq[i + 1] /\ i + 1 \in 1..Len(seq) /\ i + 1 # 1
    BY <1>1
  <2> QED BY <1>1, <1>2, <2>1 DEF IsInjective
<1>5. ToSet(seq) \ {seq[1]} \subseteq ToSet(rest)
  <2>1. ASSUME NEW i \in 1..Len(seq), seq[i] # seq[1]
        PROVE  i - 1 \in 1..Len(rest) /\ rest[i - 1] = seq[i]
    <3>1. i # 1
      BY <2>1
    <3> QED BY <1>1, <3>1
  <2> QED BY <1>2, <2>1
<1> QED BY <1>1, <1>2, <1>3, <1>4, <1>5 DEF rest

-----------------------------------------------------------------------------
(* Who hears what is said in a sector *)

LEMMA HearsListeners ==
  ASSUME TypeOK, SectorsMatch, NEW x \in Int, NEW y \in Int
  PROVE  Hears(Listeners(x, y), {<<x, y>>})
<1> DEFINE c == <<x, y>>
<1>1. CASE c \in Sectors
  <2>1. Listeners(x, y) = sector[c] /\ sector[c] \in Seq(Sessions) /\ IsInjective(sector[c])
    BY <1>1 DEF Listeners, TypeOK, SectorsMatch
  <2>2. ToSet(sector[c]) \subseteq Sessions
    BY <2>1, Elements
  <2>3. ToSet(sector[c]) = {s \in DOMAIN clients : clients[s].sector = c}
    BY <1>1, <2>2 DEF TypeOK, SectorsMatch
  <2> QED BY <1>1, <2>1, <2>3 DEF Hears
<1>2. CASE c \notin Sectors
  <2>1. Listeners(x, y) = <<>>
    BY <1>2 DEF Listeners
  <2>2. {s \in DOMAIN clients : clients[s].sector \in {c} \cap Sectors} = {}
    BY <1>2
  <2>3. <<>> \in Seq(Sessions) /\ ToSet(<<>>) = {} /\ IsInjective(<<>>)
    BY DEF ToSet, IsInjective
  <2> QED BY <2>1, <2>2, <2>3 DEF Hears
<1> QED BY <1>1, <1>2

LEMMA HearsMore ==
  ASSUME NEW a, NEW b, NEW C, NEW D, Hears(a, C), Hears(b, D), C \cap D = {}
  PROVE  Hears(a \o b, C \cup D)
<1>1. ToSet(a) \cap ToSet(b) = {}
  BY DEF Hears
<1>2. /\ a \o b \in Seq(Sessions) /\ IsInjective(a \o b)
      /\ ToSet(a \o b) = ToSet(a) \cup ToSet(b)
  BY <1>1, JoinElements DEF Hears
<1> QED BY <1>2 DEF Hears

RowCells(x, y) == {<<x - 1, y>>, <<x, y>>, <<x + 1, y>>}

LEMMA HearsRow ==
  ASSUME TypeOK, SectorsMatch, NEW x \in Int, NEW y \in Int
  PROVE  Hears(RowOfThree(x, y), RowCells(x, y))
<1>1. x - 1 \in Int /\ x + 1 \in Int /\ x - 1 # x /\ x + 1 # x /\ x - 1 # x + 1
  OBVIOUS
<1>2. /\ Hears(Listeners(x - 1, y), {<<x - 1, y>>}) /\ Hears(Listeners(x, y), {<<x, y>>})
      /\ Hears(Listeners(x + 1, y), {<<x + 1, y>>})
  BY <1>1, HearsListeners
<1>3. {<<x - 1, y>>} \cap {<<x, y>>} = {} /\ ({<<x - 1, y>>} \cup {<<x, y>>}) \cap {<<x + 1, y>>} = {}
  BY <1>1
<1>4. Hears(Listeners(x - 1, y) \o Listeners(x, y), {<<x - 1, y>>} \cup {<<x, y>>})
  BY <1>2, <1>3, HearsMore
<1>5. Hears((Listeners(x - 1, y) \o Listeners(x, y)) \o Listeners(x + 1, y),
            ({<<x - 1, y>>} \cup {<<x, y>>}) \cup {<<x + 1, y>>})
  BY <1>2, <1>3, <1>4, HearsMore
<1>6. ({<<x - 1, y>>} \cup {<<x, y>>}) \cup {<<x + 1, y>>} = RowCells(x, y)
  BY DEF RowCells
<1> QED BY <1>5, <1>6 DEF RowOfThree

(* The lists of the nine sectors around c have, each once, the clients in the *)
(* sectors that are near.                                                     *)
LEMMA HearsAll ==
  ASSUME TypeOK, SectorsMatch, NEW c \in Sectors
  PROVE  /\ Recipients(c) \in Seq(Sessions) /\ IsInjective(Recipients(c))
         /\ ToSet(Recipients(c)) = {s \in DOMAIN clients : clients[s].sector \in Sectors /\ Rooms!Near(clients[s].sector, c)}
<1> DEFINE x == c[1]
           y == c[2]
<1>1. x \in Int /\ y \in Int
  BY DEF Sectors
<1>2. \A d \in Sectors : d[1] \in Int /\ d[2] \in Int /\ d = <<d[1], d[2]>>
  BY DEF Sectors
<1> HIDE DEF x, y
<1>3. y - 1 \in Int /\ y + 1 \in Int /\ y - 1 # y /\ y + 1 # y /\ y - 1 # y + 1
  BY <1>1
<1>4. /\ Hears(RowOfThree(x, y - 1), RowCells(x, y - 1)) /\ Hears(RowOfThree(x, y), RowCells(x, y))
      /\ Hears(RowOfThree(x, y + 1), RowCells(x, y + 1))
  BY <1>1, <1>3, HearsRow
<1>5. /\ RowCells(x, y - 1) \cap RowCells(x, y) = {}
      /\ (RowCells(x, y - 1) \cup RowCells(x, y)) \cap RowCells(x, y + 1) = {}
  BY <1>3 DEF RowCells
<1>6. Hears(RowOfThree(x, y - 1) \o RowOfThree(x, y), RowCells(x, y - 1) \cup RowCells(x, y))
  BY <1>4, <1>5, HearsMore
<1>7. Hears((RowOfThree(x, y - 1) \o RowOfThree(x, y)) \o RowOfThree(x, y + 1),
            (RowCells(x, y - 1) \cup RowCells(x, y)) \cup RowCells(x, y + 1))
  BY <1>4, <1>5, <1>6, HearsMore
<1>8. Recipients(c) = (RowOfThree(x, y - 1) \o RowOfThree(x, y)) \o RowOfThree(x, y + 1)
  BY DEF Recipients, x, y
<1>9. ASSUME NEW d \in Sectors
      PROVE  d \in (RowCells(x, y - 1) \cup RowCells(x, y)) \cup RowCells(x, y + 1) <=> Rooms!Near(d, c)
  <2>1. Rooms!Near(d, c) <=> d[1] - x \in {-1, 0, 1} /\ d[2] - y \in {-1, 0, 1}
    BY <1>1, <1>2 DEF Rooms!Near, x, y
  <2>2. /\ d[1] - x \in {-1, 0, 1} <=> d[1] \in {x - 1, x, x + 1}
        /\ d[2] - y \in {-1, 0, 1} <=> d[2] \in {y - 1, y, y + 1}
    BY <1>1, <1>2
  <2>3. \A u, v : d = <<u, v>> <=> d[1] = u /\ d[2] = v
    BY <1>2
  <2> QED BY <2>1, <2>2, <2>3 DEF RowCells
<1> QED BY <1>7, <1>8, <1>9 DEF Hears

-----------------------------------------------------------------------------
(* Each step of the content is a step of the rooms, or leaves them alone *)

RoomStep == Rooms!Next \/ Still

RoomVars == UNCHANGED <<clients, session, sendQ, crash>>

(* The answer in hand does not change. *)
LEMMA OwedSame ==
  ASSUME OwedOnce, UNCHANGED upd
  PROVE  OwedOnce' /\ UNCHANGED Owed
BY DEF OwedOnce, Owed

LEMMA OwedNothing ==
  ASSUME OwedOnce, upd.to = <<>>, upd'.to = <<>>
  PROVE  OwedOnce' /\ UNCHANGED Owed
<1>1. IsInjective(<<>>)
  BY DEF IsInjective
<1> QED BY <1>1 DEF OwedOnce, Owed

(* The network: what is queued to a session, and who is gone. *)
LEMMA StillFacts ==
  ASSUME RoomVars, UNCHANGED Owed
  PROVE  Still
BY DEF RoomVars, Still, Where, Mail, Gone, Down

LEMMA MailMore ==
  ASSUME TypeOK, NEW s \in Sessions, NEW p \in Objects, sendQ' = [sendQ EXCEPT ![s] = Append(@, p)]
  PROVE  Mail' = [Mail EXCEPT ![s] = @ + 1]
<1>1. sendQ \in [Sessions -> Seq(Objects)]
  BY DEF TypeOK
<1>2. Len(Append(sendQ[s], p)) = Len(sendQ[s]) + 1
  BY <1>1, AppendFacts
<1> QED BY <1>1, <1>2 DEF Mail

LEMMA MailLess ==
  ASSUME TypeOK, NEW s \in Sessions, sendQ[s] # <<>>, sendQ' = [sendQ EXCEPT ![s] = Tail(@)]
  PROVE  Mail' = [Mail EXCEPT ![s] = @ - 1] /\ Mail[s] > 0 /\ \A r \in Sessions : Mail'[r] <= Mail[r]
<1>1. sendQ \in [Sessions -> Seq(Objects)]
  BY DEF TypeOK
<1>2. Len(Tail(sendQ[s])) = Len(sendQ[s]) - 1 /\ Len(sendQ[s]) \in Nat \ {0}
  BY <1>1, HeadFacts
<1>3. \A r \in Sessions : Len(sendQ[r]) \in Nat
  BY <1>1, LenProperties
<1>4. \A r \in Sessions : sendQ'[r] = IF r = s THEN Tail(sendQ[s]) ELSE sendQ[r]
  BY <1>1
<1>5. \A r \in Sessions : Mail[r] = Len(sendQ[r]) /\ Mail'[r] = Len(sendQ'[r])
  BY DEF Mail
<1>6. \A r \in Sessions : Mail[r] \in Nat /\ Mail'[r] = IF r = s THEN Mail[r] - 1 ELSE Mail[r]
  <2>1. ASSUME NEW r \in Sessions
        PROVE  Mail[r] \in Nat /\ (r = s => Mail'[r] = Mail[r] - 1) /\ (r # s => Mail'[r] = Mail[r])
    <3>1. Mail[r] = Len(sendQ[r]) /\ Mail'[r] = Len(sendQ'[r]) /\ Len(sendQ[r]) \in Nat
      BY <1>3, <1>5
    <3>2. CASE r = s
      BY <1>2, <1>4, <3>1, <3>2
    <3>3. CASE r # s
      BY <1>4, <3>1, <3>3
    <3> QED BY <3>2, <3>3
  <2> QED BY <2>1
<1>7. Mail[s] > 0 /\ \A r \in Sessions : Mail'[r] <= Mail[r]
  BY <1>2, <1>5, <1>6
<1>8. Mail = [r \in Sessions |-> Mail[r]] /\ Mail' = [r \in Sessions |-> Mail'[r]]
  BY DEF Mail
<1>9. Mail' = [Mail EXCEPT ![s] = @ - 1]
  BY <1>6, <1>8
<1> QED BY <1>7, <1>9

LEMMA MailSame ==
  ASSUME TypeOK, UNCHANGED sendQ
  PROVE  UNCHANGED Mail /\ \A r \in Sessions : Mail'[r] <= Mail[r]
<1>1. \A r \in Sessions : Len(sendQ[r]) \in Nat
  BY LenProperties DEF TypeOK
<1> QED BY <1>1 DEF Mail

(* The steps of the rooms, over what the content has. *)
LEMMA SentStep ==
  ASSUME NEW s \in Sessions, crash = "none", Mail[s] > 0, Mail' = [Mail EXCEPT ![s] = @ - 1],
         UNCHANGED <<Where, Owed, Gone, Down>>
  PROVE  RoomStep
<1>1. Rooms!Sent(s)
  BY DEF Rooms!Sent, Where, Owed, Mail, Gone, Down
<1> QED BY <1>1 DEF RoomStep, Rooms!Next

LEMMA CrashStep ==
  ASSUME crash = "none", crash' # "none", Owed' \subseteq Owed, \A s \in Sessions : Mail'[s] <= Mail[s],
         UNCHANGED <<Where, Gone>>
  PROVE  RoomStep
<1>1. Rooms!Crash
  BY DEF Rooms!Crash, Where, Owed, Mail, Gone
<1> QED BY <1>1 DEF RoomStep, Rooms!Next

(* The threads of the network that leave the queues alone. *)
LEMMA RoomsAside ==
  ASSUME RoomInv, RoomVars, UNCHANGED upd
  PROVE  RoomStep /\ OwedOnce'
BY OwedSame, StillFacts DEF RoomInv, RoomStep

LEMMA RoomsSignal ==
  ASSUME RoomInv, NEW t \in NetThreads, SetTheEvent(t)
  PROVE  RoomStep /\ OwedOnce'
<1>1. TypeOK /\ Control /\ Order
  BY DEF RoomInv, IInv, Sure
<1>2. /\ at[t] = "signal" /\ UNCHANGED <<clients, sendQ, upd, crash>>
      /\ session' = [session EXCEPT ![hand[t].id] =
                        CASE hand[t].type = "join" -> "open"
                          [] hand[t].type = "leave" -> "closed"
                          [] hand[t].type = "message" -> @]
  BY DEF SetTheEvent, At, contentVars
<1>3. hand[t] # NoJob /\ hand[t] \in JobSet
  BY <1>1, <1>2 DEF Control, Grip, TypeOK
<1>4. hand[t].type \in {"join", "message", "leave"} /\ hand[t].id \in Sessions
  BY <1>3 DEF JobSet
<1>5. /\ hand[t].type = "join" => session[hand[t].id] = "new"
      /\ hand[t].type = "message" => session[hand[t].id] = "open"
      /\ hand[t].type = "leave" => session[hand[t].id] = "leaving"
  BY <1>1 DEF Order, Expected
<1>6. session \in [Sessions -> {"new", "open", "leaving", "closed"}]
  BY <1>1 DEF TypeOK
<1>7. UNCHANGED Gone
  <2>1. CASE hand[t].type = "join"
    BY <1>2, <1>5, <1>6, <2>1 DEF Gone
  <2>2. CASE hand[t].type = "message"
    BY <1>2, <1>5, <1>6, <2>2 DEF Gone
  <2>3. CASE hand[t].type = "leave"
    BY <1>2, <1>5, <1>6, <2>3 DEF Gone
  <2> QED BY <1>4, <2>1, <2>2, <2>3
<1>8. OwedOnce' /\ UNCHANGED Owed
  BY <1>2, OwedSame DEF RoomInv
<1>9. UNCHANGED <<Where, Mail, Down>>
  BY <1>2 DEF Where, Mail, Down
<1> QED BY <1>7, <1>8, <1>9 DEF RoomStep, Still

LEMMA RoomsRelease ==
  ASSUME RoomInv, NEW w \in Workers, NEW s \in Sessions, Release(w, s)
  PROVE  RoomStep /\ OwedOnce'
<1>1. /\ crash = "none" /\ session' = [session EXCEPT ![s] = "leaving"]
      /\ UNCHANGED <<clients, sendQ, upd, crash>>
  BY DEF Release, At, contentVars
<1>2. OwedOnce' /\ UNCHANGED Owed
  BY <1>1, OwedSame DEF RoomInv
<1>3. UNCHANGED <<Where, Mail, Down>>
  BY <1>1 DEF Where, Mail, Down
<1>4. session \in [Sessions -> {"new", "open", "leaving", "closed"}]
  BY DEF RoomInv, IInv, Sure, TypeOK
<1>5. Gone' = Gone \cup {s}
  BY <1>1, <1>4 DEF Gone
<1>6. Rooms!Go(s)
  BY <1>1, <1>2, <1>3, <1>5 DEF Rooms!Go, Where, Owed, Mail, Gone, Down
<1> QED BY <1>2, <1>6 DEF RoomStep, Rooms!Next

LEMMA RoomsComplete ==
  ASSUME RoomInv, NEW w \in Workers, NEW s \in Sessions, SendComplete(w, s)
  PROVE  RoomStep /\ OwedOnce'
<1>1. /\ crash = "none" /\ sendQ[s] # <<>> /\ sendQ' = [sendQ EXCEPT ![s] = Tail(@)]
      /\ UNCHANGED <<clients, session, upd>> /\ (crash' = "SendPost" \/ crash' = crash)
  BY DEF SendComplete, At, contentVars
<1>2. OwedOnce' /\ UNCHANGED Owed
  BY <1>1, OwedSame DEF RoomInv
<1>3. Mail' = [Mail EXCEPT ![s] = @ - 1] /\ Mail[s] > 0 /\ \A r \in Sessions : Mail'[r] <= Mail[r]
  BY <1>1, MailLess DEF RoomInv, IInv, Sure
<1>4. UNCHANGED <<Where, Gone>>
  BY <1>1 DEF Where, Gone
<1>5. CASE crash' = crash
  BY <1>1, <1>2, <1>3, <1>4, <1>5, SentStep DEF Down
<1>6. CASE crash' = "SendPost"
  BY <1>1, <1>2, <1>3, <1>4, <1>6, CrashStep
<1> QED BY <1>1, <1>5, <1>6

LEMMA RoomsReleasePacket ==
  ASSUME RoomInv, NEW w \in Workers, ReleasePacket(w)
  PROVE  RoomStep /\ OwedOnce'
<1> DEFINE s == hand[w].id
<1>1. at[w] = "release" /\ crash = "none" /\ UNCHANGED <<clients, session, upd, crash>>
  BY DEF ReleasePacket, At, contentVars
<1>2. UNCHANGED sendQ \/ (sendQ[s] # <<>> /\ sendQ' = [sendQ EXCEPT ![s] = Tail(@)])
  BY DEF ReleasePacket
<1>3. s \in Sessions
  <2>1. hand[w] # NoJob /\ hand[w] \in JobSet
    BY <1>1 DEF RoomInv, IInv, Sure, Control, Grip, TypeOK
  <2> QED BY <2>1 DEF JobSet
<1>4. OwedOnce' /\ UNCHANGED Owed
  BY <1>1, OwedSame DEF RoomInv
<1>5. UNCHANGED <<Where, Gone, Down>>
  BY <1>1 DEF Where, Gone, Down
<1> HIDE DEF s
<1>6. CASE UNCHANGED sendQ
  BY <1>1, <1>4, <1>6, StillFacts DEF RoomVars, RoomStep
<1>7. CASE sendQ[s] # <<>> /\ sendQ' = [sendQ EXCEPT ![s] = Tail(@)]
  <2>1. Mail' = [Mail EXCEPT ![s] = @ - 1] /\ Mail[s] > 0
    BY <1>3, <1>7, MailLess DEF RoomInv, IInv, Sure
  <2> QED BY <1>1, <1>3, <1>4, <1>5, <2>1, SentStep
<1> QED BY <1>2, <1>6, <1>7

(* The update thread takes a job: nobody is owed an answer. *)
LEMMA JobFree ==
  ASSUME RoomInv, NEW type, NextJob(type)
  PROVE  /\ TypeOK /\ Control /\ Order /\ SectorsMatch /\ upd.at = "drain" /\ upd.to = <<>> /\ Owed = {}
         /\ crash = "none" /\ UNCHANGED <<session, sendQ>> /\ jobs # <<>> /\ Head(jobs).type = type
         /\ Head(jobs).id \in Sessions /\ UNCHANGED <<Mail, Gone>> /\ \A r \in Sessions : Mail'[r] <= Mail[r]
<1>1. TypeOK /\ Control /\ Order /\ SectorsMatch
  BY DEF RoomInv, IInv, Sure
<1>2. /\ upd.at = "drain" /\ crash = "none" /\ UNCHANGED <<session, sendQ>>
      /\ jobs # <<>> /\ Head(jobs).type = type
  BY DEF NextJob, Updating, UpdateStep, netVars
<1>3. Head(jobs).id \in Sessions
  BY <1>1, <1>2, Taken
<1>4. upd.to = <<>>
  BY <1>2 DEF RoomInv, OwedOnce
<1>5. ToSet(<<>>) = {}
  BY DEF ToSet
<1>6. UNCHANGED Mail /\ \A r \in Sessions : Mail'[r] <= Mail[r]
  BY <1>1, <1>2, MailSame
<1> QED BY <1>1, <1>2, <1>3, <1>4, <1>5, <1>6 DEF Owed, Gone

LEMMA RoomsDie ==
  ASSUME RoomInv, NEW type, NextJob(type), NEW line, line # "none", Die(line)
  PROVE  RoomStep /\ OwedOnce'
<1>1. crash' = line /\ UNCHANGED <<clients, upd>>
  BY DEF Die, contentVars
<1>2. OwedOnce' /\ UNCHANGED Owed
  BY <1>1, OwedSame DEF RoomInv
<1>3. UNCHANGED Where
  BY <1>1 DEF Where
<1>4. crash = "none" /\ UNCHANGED Gone /\ \A r \in Sessions : Mail'[r] <= Mail[r]
  BY JobFree
<1> QED BY <1>1, <1>2, <1>3, <1>4, CrashStep

LEMMA RoomDoes ==
  ASSUME NEW s \in Sessions, Rooms!Join(s) \/ Rooms!Leave(s) \/ Rooms!Give(s)
  PROVE  RoomStep
BY DEF RoomStep, Rooms!Next

LEMMA RoomsCreate ==
  ASSUME RoomInv, CreateNewUser
  PROVE  RoomStep /\ OwedOnce'
<1>0. NextJob("join")
  BY DEF CreateNewUser
<1>s. PICK s \in Sessions : s = Head(jobs).id
  BY <1>0, JobFree
<1>1. NextJob("join") /\ UNCHANGED <<upd, crash>>
      /\ clients' = [r \in DOMAIN clients \cup {s} |-> IF r \in DOMAIN clients THEN clients[r] ELSE NewClient]
  BY <1>s DEF CreateNewUser
<1>2. /\ TypeOK /\ Control /\ Order /\ Owed = {} /\ crash = "none" /\ jobs # <<>> /\ Head(jobs).type = "join"
      /\ s \in Sessions /\ UNCHANGED <<Mail, Gone>>
  BY <1>1, JobFree
<1>3. s \notin DOMAIN clients
  <2>1. Len(jobs) \in Nat \ {0} /\ Head(jobs) = jobs[1]
    BY <1>2, Taken
  <2>2. InOrder(1)
    BY <1>2, <2>1 DEF Order
  <2> QED BY <1>s, <1>2, <2>1, <2>2 DEF InOrder
<1>4. Where' = [r \in DOMAIN Where \cup {s} |-> IF r = s THEN NoSector ELSE Where[r]]
  BY <1>1, <1>3, ClientFacts, <1>2 DEF Where
<1>5. OwedOnce' /\ UNCHANGED Owed
  BY <1>1, OwedSame DEF RoomInv
<1>6. Rooms!Join(s)
  BY <1>1, <1>2, <1>3, <1>4, <1>5 DEF Rooms!Join, Rooms!Free, Where, Owed, Mail, Gone
<1> QED BY <1>2, <1>5, <1>6, RoomDoes

LEMMA RoomsDelete ==
  ASSUME RoomInv, DeleteUser
  PROVE  RoomStep /\ OwedOnce'
<1>1. NextJob("leave")
  BY DEF DeleteUser
<1>s. PICK s \in Sessions : s = Head(jobs).id
  BY <1>1, JobFree
<1>2. Owed = {} /\ crash = "none" /\ s \in Sessions /\ UNCHANGED <<Mail, Gone>>
  BY <1>1, JobFree
<1>3. CASE s \notin DOMAIN clients
  <2>1. Die("DeleteUser")
    BY <1>s, <1>3 DEF DeleteUser
  <2> QED BY <1>1, <2>1, RoomsDie
<1>4. CASE s \in DOMAIN clients
  <2>1. UNCHANGED <<upd, crash>> /\ clients' = [r \in DOMAIN clients \ {s} |-> clients[r]]
    BY <1>s, <1>4 DEF DeleteUser
  <2>2. Where' = [r \in DOMAIN Where \ {s} |-> Where[r]]
    BY <2>1 DEF Where
  <2>3. OwedOnce' /\ UNCHANGED Owed
    BY <2>1, OwedSame DEF RoomInv
  <2>4. Rooms!Leave(s)
    BY <1>2, <1>4, <2>1, <2>2, <2>3 DEF Rooms!Leave, Rooms!Free, Where, Owed, Mail, Gone
  <2> QED BY <1>2, <2>3, <2>4, RoomDoes
<1> QED BY <1>3, <1>4

(* One recipient. *)
LEMMA OwedOne ==
  ASSUME NEW s, upd'.to = <<s>>, upd'.at \notin {"wait", "drain"}
  PROVE  OwedOnce' /\ Owed' = {s}
<1>1. IsInjective(<<s>>) /\ ToSet(<<s>>) = {s}
  BY DEF IsInjective, ToSet
<1> QED BY <1>1 DEF OwedOnce, Owed

LEMMA RoomsLogin ==
  ASSUME RoomInv, NEW s, NEW m, Login(s, m)
  PROVE  RoomStep /\ OwedOnce'
<1>1. /\ NextJob("message") /\ s = Head(jobs).id /\ s \in DOMAIN clients /\ UNCHANGED crash
      /\ clients' = [clients EXCEPT ![s].account = m.account]
      /\ upd' = [Sending(Head(jobs).packet, <<s>>, FALSE) EXCEPT !.at = "answer"]
  BY DEF Login, Message, Known
<1>2. TypeOK /\ Owed = {} /\ crash = "none" /\ s \in Sessions /\ UNCHANGED <<Mail, Gone>>
  BY <1>1, JobFree
<1>3. OwedOnce' /\ Owed' = {s}
  <2>1. upd'.to = <<s>> /\ upd'.at = "answer"
    BY <1>1 DEF Sending
  <2> QED BY <2>1, OwedOne
<1>4. UNCHANGED Where
  <2>1. \A r \in DOMAIN clients : clients[r] \in Clients
    BY <1>2, ClientFacts
  <2>2. DOMAIN clients' = DOMAIN clients /\ \A r \in DOMAIN clients : clients'[r].sector = clients[r].sector
    BY <1>1, <1>2, <2>1 DEF Clients, TypeOK
  <2> QED BY <2>2 DEF Where
<1>5. Rooms!Login(s)
  BY <1>1, <1>2, <1>3, <1>4 DEF Rooms!Login, Rooms!Free, Where, Owed, Mail, Gone
<1> QED BY <1>2, <1>3, <1>5 DEF RoomStep, Rooms!Next

LEMMA RoomsMove ==
  ASSUME RoomInv, NEW s, NEW m, SectorMove(s, m)
  PROVE  RoomStep /\ OwedOnce'
<1>1. NextJob("message") /\ s = Head(jobs).id /\ s \in DOMAIN clients
  BY DEF SectorMove, Message, Known
<1>2. TypeOK /\ Owed = {} /\ crash = "none" /\ s \in Sessions /\ UNCHANGED <<Mail, Gone>>
  BY <1>1, JobFree
<1>3. CASE m.to \notin Sectors
  <2>1. Die("SectorMove")
    BY <1>3 DEF SectorMove
  <2> QED BY <1>1, <2>1, RoomsDie
<1>4. CASE m.to \in Sectors
  <2>1. /\ clients' = [clients EXCEPT ![s].sector = m.to] /\ UNCHANGED crash
        /\ upd' = Sending(Head(jobs).packet, <<s>>, FALSE)
    BY <1>4 DEF SectorMove
  <2>2. OwedOnce' /\ Owed' = {s}
    <3>1. upd'.to = <<s>> /\ upd'.at = "send"
      BY <2>1 DEF Sending
    <3> QED BY <3>1, OwedOne
  <2>3. Where' = [Where EXCEPT ![s] = m.to]
    <3>1. clients \in [DOMAIN clients -> Clients]
      BY <1>2 DEF TypeOK
    <3> QED BY <1>1, <2>1, <3>1 DEF Where, Clients
  <2>4. Rooms!Move(s, m.to)
    BY <1>1, <1>2, <2>1, <2>2, <2>3 DEF Rooms!Move, Rooms!Free, Where, Owed, Mail, Gone
  <2>5. m.to \in Rooms!Sectors
    BY <1>4 DEF Sectors, Rooms!Sectors
  <2> QED BY <1>2, <2>2, <2>4, <2>5 DEF RoomStep, Rooms!Next
<1> QED BY <1>3, <1>4

LEMMA RoomsChat ==
  ASSUME RoomInv, NEW s, NEW m, Chat(s, m)
  PROVE  RoomStep /\ OwedOnce'
<1>1. NextJob("message") /\ s = Head(jobs).id /\ s \in DOMAIN clients
  BY DEF Chat, Message, Known
<1>2. TypeOK /\ SectorsMatch /\ Owed = {} /\ crash = "none" /\ s \in Sessions /\ UNCHANGED <<Mail, Gone>>
  BY <1>1, JobFree
<1>3. CASE clients[s].sector \notin Sectors
  <2>1. Die("SendSector")
    BY <1>3 DEF Chat
  <2> QED BY <1>1, <2>1, RoomsDie
<1>4. CASE clients[s].sector \in Sectors
  <2> DEFINE c == clients[s].sector
  <2>1. upd' = Sending(Head(jobs).packet, Recipients(c), TRUE) /\ UNCHANGED <<clients, crash>>
    BY <1>4 DEF Chat, contentVars
  <2>2. /\ Recipients(c) \in Seq(Sessions) /\ IsInjective(Recipients(c))
        /\ ToSet(Recipients(c)) = {r \in DOMAIN clients : clients[r].sector \in Sectors /\ Rooms!Near(clients[r].sector, c)}
    BY <1>2, <1>4, HearsAll
  <2>3. upd'.to = Recipients(c) /\ upd'.at = "send"
    BY <2>1 DEF Sending
  <2>4. OwedOnce' /\ Owed' = ToSet(Recipients(c))
    BY <2>2, <2>3 DEF OwedOnce, Owed
  <2>5. Where[s] = c /\ c \in Rooms!Sectors /\ UNCHANGED Where
    BY <1>1, <1>4, <2>1 DEF Where, Sectors, Rooms!Sectors
  <2>6. Rooms!Audience(c) = ToSet(Recipients(c))
    BY <2>2 DEF Rooms!Audience, Sectors, Rooms!Sectors
  <2> HIDE DEF c
  <2>7. Rooms!Say(s)
    BY <1>1, <1>2, <2>1, <2>4, <2>5, <2>6 DEF Rooms!Say, Rooms!Free, Where, Owed, Mail, Gone
  <2> QED BY <1>2, <2>4, <2>7 DEF RoomStep, Rooms!Next
<1> QED BY <1>3, <1>4

(* The next recipient of the answer. *)
LEMMA RoomsSendNext ==
  ASSUME RoomInv, SendNext
  PROVE  RoomStep /\ OwedOnce'
<1>1. TypeOK /\ Control /\ IsInjective(upd.to) /\ upd \in Updates /\ upd.to \in Seq(Sessions)
  BY DEF RoomInv, OwedOnce, IInv, Sure, TypeOK, Updates
<1>s. PICK s \in Sessions : s = Head(upd.to)
  BY <1>1, HeadFacts DEF SendNext
<1> DEFINE sent == session[s] \in {"new", "open"}
<1>2. /\ crash = "none" /\ upd.at = "send" /\ upd.to # <<>> /\ UNCHANGED <<clients, session>>
      /\ upd' = [upd EXCEPT !.to = Tail(@), !.sent = IF sent THEN @ + 1 ELSE @]
  BY <1>s DEF SendNext, Updating, contentVars
<1>3. upd'.to = Tail(upd.to) /\ upd'.at = "send"
  BY <1>1, <1>2 DEF Updates
<1>4. /\ IsInjective(Tail(upd.to)) /\ s \in ToSet(upd.to) /\ ToSet(Tail(upd.to)) = ToSet(upd.to) \ {s}
  BY <1>s, <1>1, <1>2, TailElements
<1>5. OwedOnce' /\ s \in Owed /\ Owed' = Owed \ {s}
  BY <1>3, <1>4 DEF OwedOnce, Owed
<1>6. s \in Sessions
  OBVIOUS
<1>7. UNCHANGED <<Where, Gone>>
  BY <1>2 DEF Where, Gone
<1>8. CASE body[upd.packet] = Empty
  <2>1. crash' = "SendPacket" /\ UNCHANGED sendQ
    BY <1>8 DEF SendNext
  <2> QED BY <1>1, <1>2, <1>5, <1>7, <2>1, MailSame, CrashStep
<1>9. CASE body[upd.packet] # Empty
  <2>1. UNCHANGED crash /\ sendQ' = IF sent THEN [sendQ EXCEPT ![s] = Append(@, upd.packet)] ELSE sendQ
    BY <1>s, <1>9 DEF SendNext
  <2>2. upd.packet \in Objects
    BY <1>1, <1>2 DEF Control
  <2>3. session[s] \in {"new", "open", "leaving", "closed"}
    BY <1>1, <1>6 DEF TypeOK
  <2>4. Mail' = IF s \in Gone THEN Mail ELSE [Mail EXCEPT ![s] = @ + 1]
    <3>1. CASE sent
      <4>1. Mail' = [Mail EXCEPT ![s] = @ + 1]
        BY <1>1, <1>6, <2>1, <2>2, <3>1, MailMore
      <4>2. s \notin Gone
        BY <3>1 DEF Gone
      <4> QED BY <4>1, <4>2
    <3>2. CASE ~sent
      <4>1. UNCHANGED Mail
        BY <1>1, <2>1, <3>2, MailSame
      <4>2. s \in Gone
        BY <1>6, <2>3, <3>2 DEF Gone
      <4> QED BY <4>1, <4>2
    <3> QED BY <3>1, <3>2
  <2>5. Rooms!Give(s)
    BY <1>2, <1>5, <1>7, <2>1, <2>4 DEF Rooms!Give, Where, Owed, Mail, Gone
  <2> QED BY <1>5, <1>6, <2>5, RoomDoes
<1> QED BY <1>8, <1>9

LEMMA RoomsSendEnd ==
  ASSUME RoomInv, SendEnd
  PROVE  RoomStep /\ OwedOnce'
<1>1. /\ crash = "none" /\ upd.to = <<>> /\ upd' = Idle /\ UNCHANGED <<clients, session, sendQ>>
      /\ crash' = "NotFreed" \/ crash' = crash
  BY DEF SendEnd, Updating, UpdateStep, netVars, contentVars
<1>2. upd'.to = <<>>
  BY <1>1 DEF Idle
<1>3. OwedOnce' /\ UNCHANGED Owed
  BY <1>1, <1>2, OwedNothing DEF RoomInv
<1>4. CASE crash' = crash
  BY <1>1, <1>3, <1>4, StillFacts DEF RoomVars, RoomStep
<1>5. CASE crash' = "NotFreed"
  <2>1. \A r \in Sessions : Mail'[r] <= Mail[r]
    BY <1>1, MailSame DEF RoomInv, IInv, Sure
  <2> QED BY <1>1, <1>3, <1>5, <2>1, CrashStep DEF Where, Gone
<1> QED BY <1>1, <1>4, <1>5

(* The update thread begins and ends its round, and makes the login answer. *)
LEMMA RoomsRest ==
  ASSUME RoomInv, Wake \/ Drained \/ LoginAnswer
  PROVE  RoomStep /\ OwedOnce'
<1>1. RoomVars
  BY DEF Wake, Drained, LoginAnswer, UpdateStep, netVars, contentVars, RoomVars
<1>2. CASE Wake \/ Drained
  <2>1. upd.to = <<>>
    BY <1>2 DEF Wake, Drained, Updating, RoomInv, OwedOnce
  <2>2. upd'.to = <<>>
    BY <1>2 DEF Wake, Drained, Idle, Waiting
  <2> QED BY <1>1, <2>1, <2>2, OwedNothing, StillFacts DEF RoomInv, RoomStep
<1>3. CASE LoginAnswer
  <2>1. upd \in Updates
    BY DEF RoomInv, IInv, Sure, TypeOK
  <2>2. upd' = [upd EXCEPT !.at = "send"]
    BY <1>3 DEF LoginAnswer
  <2>3. upd'.to = upd.to /\ upd'.at = "send"
    BY <2>1, <2>2 DEF Updates
  <2>4. OwedOnce' /\ UNCHANGED Owed
    BY <2>3 DEF RoomInv, OwedOnce, Owed
  <2> QED BY <1>1, <2>4, StillFacts DEF RoomStep
<1> QED BY <1>2, <1>3

LEMMA RoomsMessage ==
  ASSUME RoomInv, NEW s \in Sessions, NEW m \in Messages \cup {Empty, Reply}, Process(s, m)
  PROVE  RoomStep /\ OwedOnce'
<1>1. CASE DieOnMessage(s, m)
  BY <1>1, RoomsDie DEF DieOnMessage, Message
<1>2. CASE Refuse(s, m)
  <2>1. UNCHANGED upd /\ RoomVars
    BY <1>2 DEF Refuse, Message, NextJob, UpdateStep, netVars, contentVars, RoomVars
  <2> QED BY <2>1, RoomsAside
<1>3. CASE Login(s, m) \/ SectorMove(s, m) \/ Chat(s, m)
  BY <1>3, RoomsLogin, RoomsMove, RoomsChat
<1> QED BY <1>1, <1>2, <1>3 DEF Process

LEMMA RoomsStep ==
  ASSUME RoomInv, [Next]_vars
  PROVE  RoomStep /\ OwedOnce'
<1>1. CASE Network
  <2>1. ASSUME NEW t \in NetThreads, EnQ(t) \/ SetTheEvent(t)
        PROVE  RoomStep /\ OwedOnce'
    <3>1. CASE EnQ(t)
      <4>1. UNCHANGED upd /\ RoomVars
        BY <3>1 DEF EnQ, netVars, contentVars, RoomVars
      <4> QED BY <4>1, RoomsAside
    <3> QED BY <2>1, <3>1, RoomsSignal
  <2>2. ASSUME NEW w \in Workers, FirstChunk(w) \/ Refill(w) \/ ReleasePacket(w)
        PROVE  RoomStep /\ OwedOnce'
    <3>1. CASE FirstChunk(w) \/ Refill(w)
      <4>1. UNCHANGED upd /\ RoomVars
        BY <3>1 DEF FirstChunk, Refill, netVars, contentVars, RoomVars
      <4> QED BY <4>1, RoomsAside
    <3> QED BY <2>2, <3>1, RoomsReleasePacket
  <2>3. ASSUME NEW s \in Sessions, Accept(s)
        PROVE  RoomStep /\ OwedOnce'
    <3>1. UNCHANGED upd /\ RoomVars
      BY <2>3 DEF Accept, netVars, contentVars, RoomVars
    <3> QED BY <3>1, RoomsAside
  <2>4. ASSUME NEW s \in Sessions, NEW w \in Workers, RecvPacket(w, s) \/ SendComplete(w, s) \/ Release(w, s)
        PROVE  RoomStep /\ OwedOnce'
    <3>1. CASE RecvPacket(w, s)
      <4>1. UNCHANGED upd /\ RoomVars
        BY <3>1 DEF RecvPacket, contentVars, RoomVars
      <4> QED BY <4>1, RoomsAside
    <3> QED BY <2>4, <3>1, RoomsComplete, RoomsRelease
  <2> QED BY <1>1, <2>1, <2>2, <2>3, <2>4 DEF Network
<1>2. CASE Update
  <2>1. CASE Wake \/ Drained \/ LoginAnswer
    BY <2>1, RoomsRest
  <2>2. CASE CreateNewUser \/ DeleteUser
    BY <2>2, RoomsCreate, RoomsDelete
  <2>3. CASE \E s \in Sessions, m \in Messages \cup {Empty, Reply} : Process(s, m)
    BY <2>3, RoomsMessage
  <2>4. CASE SendNext \/ SendEnd
    BY <2>4, RoomsSendNext, RoomsSendEnd
  <2> QED BY <1>2, <2>1, <2>2, <2>3, <2>4 DEF Update
<1>3. CASE UNCHANGED vars
  <2>1. UNCHANGED upd /\ RoomVars
    BY <1>3 DEF vars, netVars, contentVars, RoomVars
  <2> QED BY <2>1, RoomsAside
<1> QED BY <1>1, <1>2, <1>3 DEF Next

(* An answer is owed to each of its recipients once, whatever has happened:   *)
(* the lists SendSector walks through have each listener once, and the thread *)
(* takes no job while somebody is owed.                                       *)
THEOREM RoomInvariance == Spec => []RoomInv
<1>1. Init => OwedOnce
  BY DEF Init, Waiting, Idle, OwedOnce, IsInjective
<1>2. ASSUME IInv, OwedOnce, [Next]_vars
      PROVE  OwedOnce'
  BY <1>2, RoomsStep DEF RoomInv
<1>3. IInv /\ OwedOnce /\ [Next]_vars => OwedOnce'
  BY <1>2
<1>4. IInv /\ OwedOnce <=> RoomInv
  BY DEF RoomInv
<1> QED BY <1>1, <1>3, <1>4, ContentInvariance, PTL DEF Spec

(* The content implements the rooms: what a client says is queued once to     *)
(* each client in its sector or the eight around it at that moment and to     *)
(* nobody else, an answer goes to its client alone, and the next request      *)
(* waits for the last recipient, for any number of sectors, sessions, workers *)
(* and chunks, whoever logs in, leaves or is released meanwhile.              *)
THEOREM RoomsImplemented == Spec => RoomsSpec
<1>1. Init => Rooms!Init
  <2> SUFFICES ASSUME Init PROVE Rooms!Init
    OBVIOUS
  <2>1. /\ clients = <<>> /\ upd.to = <<>> /\ sendQ = [s \in Sessions |-> <<>>]
        /\ session = [s \in Sessions |-> "new"] /\ crash = "none"
    BY DEF Init, Waiting, Idle
  <2>2. [s \in DOMAIN clients |-> clients[s].sector] = [s \in {} |-> NoSector]
    BY <2>1
  <2>3. ToSet(upd.to) = {}
    BY <2>1 DEF ToSet
  <2>4. [s \in Sessions |-> Len(sendQ[s])] = [s \in Sessions |-> 0]
    BY <2>1
  <2>5. {s \in Sessions : session[s] \in {"leaving", "closed"}} = {}
    BY <2>1
  <2> QED BY <2>1, <2>2, <2>3, <2>4, <2>5 DEF Rooms!Init
<1>2. ASSUME RoomInv, [Next]_vars
      PROVE  [Rooms!Next]_Rooms!rooms
  BY <1>2, RoomsStep DEF RoomStep, Still, Rooms!rooms, Where, Owed, Mail, Gone, Down
<1>3. RoomInv /\ [Next]_vars => [Rooms!Next]_Rooms!rooms
  BY <1>2
<1> QED BY <1>1, <1>3, RoomInvariance, PTL DEF Spec, RoomsSpec, Rooms!Spec
=============================================================================
