-------------------------- MODULE NetServerBasics ---------------------------
(***************************************************************************)
(* That every variable of NetServer keeps its type, and the step lemmas of *)
(* RefCount, Control, Issued and IssuedJobs.                               *)
(* RefCount: the sum of cardinalities is reduced once, in CountFrame, to   *)
(* what the moving thread holds before and after: an action keeps RefCount *)
(* if it changes ioCount[s] by exactly the change of Held(t, s), for every *)
(* slot s. One case per action shows that (Counted).                       *)
(* The others: where threads can be in their code, and that every session  *)
(* ID somebody holds on to names a session that has existed.               *)
(* Types: TypeOK is not inductive by itself: AccId adds one to             *)
(* m_SessionID, and the bound was tested in AccPop. TypeInv adds what the  *)
(* accept thread knows in between. There is one lemma per action, with a   *)
(* step for each variable the action assigns.                              *)
(***************************************************************************)
EXTENDS NetServerInv, TLAPS, FiniteSetTheorems

USE ThreadAssumption DEF Threads, ref, ctl, snd, srv, loc, upd, net
USE DEF At, Goto, After, Decrement, Increment, Call, Enqueue, NextJob, SlotOf, Cancelled
USE DEF AcqPlaces, IOPlaces, OpenPlaces, AcceptPlaces, UsePlaces, Bodies

(* The server has finitely many threads. *)
LEMMA FiniteThreads == IsFiniteSet(Threads)
<1>1. IsFiniteSet(((Workers \cup {Acceptor}) \cup {Updater}) \cup {Monitor})
  BY FS_AddElement
<1>2. Threads = ((Workers \cup {Acceptor}) \cup {Updater}) \cup {Monitor}
  OBVIOUS
<1> QED BY <1>1, <1>2

(* One thread more or less in a set of threads changes its cardinality by    *)
(* one.                                                                      *)
LEMMA MemberCount ==
  ASSUME NEW S \in SUBSET Threads, NEW t
  PROVE  /\ Cardinality(S) \in Nat /\ Cardinality(S \ {t}) \in Nat
         /\ Cardinality(S) = Cardinality(S \ {t}) + (IF t \in S THEN 1 ELSE 0)
<1>1. IsFiniteSet(S)
  BY FiniteThreads, FS_Subset
<1>2. /\ IsFiniteSet(S \ {t})
      /\ Cardinality(S \ {t}) = IF t \in S THEN Cardinality(S) - 1 ELSE Cardinality(S)
  BY <1>1, FS_RemoveElement
<1>3. Cardinality(S) \in Nat /\ Cardinality(S \ {t}) \in Nat
  BY <1>1, <1>2, FS_CardinalityType
<1> QED BY <1>2, <1>3

(* Two sets of threads that differ in t at most. *)
LEMMA MemberFrame ==
  ASSUME NEW S \in SUBSET Threads, NEW R \in SUBSET Threads, NEW t, R \ {t} = S \ {t}
  PROVE  \E n \in Nat : /\ Cardinality(S) = n + (IF t \in S THEN 1 ELSE 0)
                       /\ Cardinality(R) = n + (IF t \in R THEN 1 ELSE 0)
<1>1. /\ Cardinality(S \ {t}) \in Nat
      /\ Cardinality(S) = Cardinality(S \ {t}) + (IF t \in S THEN 1 ELSE 0)
  BY MemberCount
<1>2. Cardinality(R) = Cardinality(R \ {t}) + (IF t \in R THEN 1 ELSE 0)
  BY MemberCount
<1> QED BY <1>1, <1>2

(* What thread t and the operations of slot s contribute to its count. *)
Holding(t, s) == IF cur[t] = s /\ pc[t] \in HoldPlaces THEN 1 ELSE 0

HoldingLog(t, s) == IF cur[t] = s /\ pc[t] \in LogPlaces THEN 1 ELSE 0

HoldingIO(t, s) == IF cur[t] = s /\ io[t] THEN 1 ELSE 0

Held(t, s) == Holding(t, s) + HoldingLog(t, s) + HoldingIO(t, s) + Overlapped(s)

(* No thread but t moves. *)
Others(t) == \A u \in Threads \ {t} : pc'[u] = pc[u] /\ cur'[u] = cur[u] /\ io'[u] = io[u]

(* If only t moves and _IOCount changes by what t holds, RefCount is kept. *)
LEMMA CountFrame ==
  ASSUME TypeOK, TypeOK', RefCount, NEW t \in Threads, Others(t),
         \A s \in Slots : ioCount'[s] - Held(t, s)' = ioCount[s] - Held(t, s)
  PROVE  RefCount'
<1> SUFFICES ASSUME NEW s \in Slots
             PROVE  (ioCount[s] = Cardinality(Holders(s)) + Cardinality(LogHolders(s))
                                  + Cardinality(Completing(s)) + Overlapped(s))'
  BY DEF RefCount
<1>1. PICK h \in Nat : Cardinality(Holders(s)) = h + Holding(t, s) /\ Cardinality(Holders(s)') = h + Holding(t, s)'
  <2>1. Holders(s) \in SUBSET Threads /\ Holders(s)' \in SUBSET Threads /\ Holders(s)' \ {t} = Holders(s) \ {t}
    BY DEF Others, Holders
  <2>2. /\ t \in Holders(s) <=> cur[t] = s /\ pc[t] \in HoldPlaces
        /\ t \in Holders(s)' <=> cur'[t] = s /\ pc'[t] \in HoldPlaces
    BY DEF Holders
  <2> QED BY <2>1, <2>2, MemberFrame DEF Holding
<1>2. PICK l \in Nat : Cardinality(LogHolders(s)) = l + HoldingLog(t, s) /\ Cardinality(LogHolders(s)') = l + HoldingLog(t, s)'
  <2>1. LogHolders(s) \in SUBSET Threads /\ LogHolders(s)' \in SUBSET Threads /\ LogHolders(s)' \ {t} = LogHolders(s) \ {t}
    BY DEF Others, LogHolders
  <2>2. /\ t \in LogHolders(s) <=> cur[t] = s /\ pc[t] \in LogPlaces
        /\ t \in LogHolders(s)' <=> cur'[t] = s /\ pc'[t] \in LogPlaces
    BY DEF LogHolders
  <2> QED BY <2>1, <2>2, MemberFrame DEF HoldingLog
<1>3. PICK c \in Nat : Cardinality(Completing(s)) = c + HoldingIO(t, s) /\ Cardinality(Completing(s)') = c + HoldingIO(t, s)'
  <2>1. Completing(s) \in SUBSET Threads /\ Completing(s)' \in SUBSET Threads /\ Completing(s)' \ {t} = Completing(s) \ {t}
    BY DEF Others, Completing
  <2>2. /\ t \in Completing(s) <=> cur[t] = s /\ io[t]
        /\ t \in Completing(s)' <=> cur'[t] = s /\ io'[t]
    BY DEF Completing
  <2> QED BY <2>1, <2>2, MemberFrame DEF HoldingIO
<1>4. /\ Holding(t, s) \in Int /\ HoldingLog(t, s) \in Int /\ HoldingIO(t, s) \in Int /\ Overlapped(s) \in Int
      /\ Holding(t, s)' \in Int /\ HoldingLog(t, s)' \in Int /\ HoldingIO(t, s)' \in Int /\ Overlapped(s)' \in Int
  BY DEF Holding, HoldingLog, HoldingIO, Overlapped
<1>5. ioCount[s] = h + l + c + Held(t, s)
  BY <1>1, <1>2, <1>3, <1>4 DEF RefCount, Held
<1>6. ioCount[s] \in Int /\ ioCount'[s] \in Int /\ Held(t, s) \in Int /\ Held(t, s)' \in Int
  <2>1. ioCount[s] \in Int /\ ioCount'[s] \in Int
    BY DEF TypeOK
  <2>2. Held(t, s) \in Int /\ Held(t, s)' \in Int
    BY <1>4 DEF Held
  <2> QED BY <2>1, <2>2
<1>7. ioCount'[s] = h + l + c + Held(t, s)'
  <2>1. ioCount'[s] - Held(t, s)' = ioCount[s] - Held(t, s)
    OBVIOUS
  <2> QED BY <2>1, <1>5, <1>6
<1> QED BY <1>1, <1>2, <1>3, <1>4, <1>7 DEF Held

(* Nobody refers to a slot whose count is zero. *)
LEMMA NoCountNoUse ==
  ASSUME TypeOK, RefCount, NEW s \in Slots, ioCount[s] = 0
  PROVE  /\ \A t \in Threads : cur[t] = s => pc[t] \notin HoldPlaces /\ ~io[t]
         /\ recvIO[s] = "none" /\ sendIO[s] = "none"
<1>1. /\ IsFiniteSet(Holders(s)) /\ IsFiniteSet(LogHolders(s)) /\ IsFiniteSet(Completing(s))
  <2>1. Holders(s) \subseteq Threads /\ LogHolders(s) \subseteq Threads /\ Completing(s) \subseteq Threads
    BY DEF Holders, LogHolders, Completing
  <2> QED BY <2>1, FiniteThreads, FS_Subset
<1>2. /\ Cardinality(Holders(s)) \in Nat /\ Cardinality(LogHolders(s)) \in Nat
      /\ Cardinality(Completing(s)) \in Nat
  BY <1>1, FS_CardinalityType
<1>3. Overlapped(s) \in Nat
  BY DEF Overlapped
<1>4. Cardinality(Holders(s)) = 0 /\ Cardinality(Completing(s)) = 0 /\ Overlapped(s) = 0
  BY <1>2, <1>3 DEF RefCount, TypeOK
<1>5. Holders(s) = {} /\ Completing(s) = {}
  BY <1>1, <1>4, FS_EmptySet
<1> QED BY <1>4, <1>5 DEF Holders, Completing, Overlapped

(* In drop2 (a send that was not posted) the thread holds two counts, so     *)
(* that the first decrement is never the last.                               *)
LEMMA TwoCounts ==
  ASSUME TypeOK, RefCount, NEW t \in Threads, pc[t] = "drop2"
  PROVE  ioCount[cur[t]] > 1
<1> DEFINE s == cur[t]
<1>1. s \in Slots
  BY DEF TypeOK
<1>2. /\ Holders(s) \in SUBSET Threads /\ LogHolders(s) \in SUBSET Threads /\ Completing(s) \in SUBSET Threads
      /\ t \in Holders(s) /\ t \in LogHolders(s)
  BY DEF Holders, LogHolders, Completing, HoldPlaces, LogPlaces
<1> HIDE DEF s
<1>3. Cardinality(Holders(s)) \in Nat /\ Cardinality(Holders(s)) > 0
  <2>1. /\ Cardinality(Holders(s) \ {t}) \in Nat
        /\ Cardinality(Holders(s)) = Cardinality(Holders(s) \ {t}) + (IF t \in Holders(s) THEN 1 ELSE 0)
    BY <1>2, MemberCount
  <2> QED BY <1>2, <2>1
<1>4. Cardinality(LogHolders(s)) \in Nat /\ Cardinality(LogHolders(s)) > 0
  <2>1. /\ Cardinality(LogHolders(s) \ {t}) \in Nat
        /\ Cardinality(LogHolders(s)) = Cardinality(LogHolders(s) \ {t}) + (IF t \in LogHolders(s) THEN 1 ELSE 0)
    BY <1>2, MemberCount
  <2> QED BY <1>2, <2>1
<1>5. Cardinality(Completing(s)) \in Nat
  BY <1>2, MemberCount
<1>6. Overlapped(s) \in Nat
  BY DEF Overlapped
<1>7. ioCount[s] = Cardinality(Holders(s)) + Cardinality(LogHolders(s)) + Cardinality(Completing(s)) + Overlapped(s)
  BY <1>1 DEF RefCount
<1>8. ioCount[s] > 1
  BY <1>3, <1>4, <1>5, <1>6, <1>7
<1> QED BY <1>8 DEF s

(* A step of t that keeps the balance of every slot. *)
Counted(t) ==
    /\ Others(t)
    /\ \A s \in Slots : ioCount'[s] - Held(t, s)' = ioCount[s] - Held(t, s)

(* AcqInc keeps the balance of every slot. *)
LEMMA AcqIncCounted ==
  ASSUME TypeOK, Control, Issued, NEW t \in Threads, AcqInc(t), UNCHANGED <<upd, net>>
  PROVE  Counted(t)
<1>1. Others(t)
  BY DEF Others, TypeOK, AcqInc
<1>2. ASSUME NEW s \in Slots
      PROVE  ioCount'[s] - Held(t, s)' = ioCount[s] - Held(t, s)
  <2>1. Overlapped(s)' = Overlapped(s) /\ Overlapped(s) \in Int
    BY DEF AcqInc, TypeOK, Overlapped, Control
  <2>2. HoldingIO(t, s)' = HoldingIO(t, s) /\ HoldingIO(t, s) \in Int
    BY DEF AcqInc, TypeOK, HoldingIO, Control
  <2>3. HoldingLog(t, s)' = HoldingLog(t, s) /\ HoldingLog(t, s) \in Int
    BY DEF AcqInc, TypeOK, HoldingLog, Control, LogPlaces
  <2>4. Holding(t, s) = 0 /\ Holding(t, s)' = (IF s = cur[t] THEN 1 ELSE 0)
    BY DEF AcqInc, TypeOK, Holding, HoldPlaces
  <2>5. ioCount'[s] = ioCount[s] + (IF s = cur[t] THEN 1 ELSE 0) /\ ioCount[s] \in Int
    BY DEF AcqInc, TypeOK
  <2> QED BY <2>1, <2>2, <2>3, <2>4, <2>5 DEF Held, TypeOK
<1> QED BY <1>1, <1>2 DEF Counted

(* AcqFail keeps the balance of every slot. *)
LEMMA AcqFailCounted ==
  ASSUME TypeOK, Control, Issued, NEW t \in Threads, AcqFail(t), UNCHANGED <<upd, net>>
  PROVE  Counted(t)
<1>1. Others(t)
  BY DEF Others, TypeOK, AcqFail
<1>2. ASSUME NEW s \in Slots
      PROVE  ioCount'[s] - Held(t, s)' = ioCount[s] - Held(t, s)
  <2>1. Overlapped(s)' = Overlapped(s) /\ Overlapped(s) \in Int
    BY DEF AcqFail, TypeOK, Overlapped, Control
  <2>2. HoldingIO(t, s)' = HoldingIO(t, s) /\ HoldingIO(t, s) \in Int
    BY DEF AcqFail, TypeOK, HoldingIO, Control
  <2>3. HoldingLog(t, s)' = HoldingLog(t, s) /\ HoldingLog(t, s) \in Int
    BY DEF AcqFail, TypeOK, HoldingLog, Control, LogPlaces
  <2>4. Holding(t, s) = (IF s = cur[t] THEN 1 ELSE 0) /\ Holding(t, s)' = 0
    BY DEF AcqFail, TypeOK, Holding, Control, HoldPlaces
  <2>5. ioCount'[s] = ioCount[s] - (IF s = cur[t] THEN 1 ELSE 0) /\ ioCount[s] \in Int
    BY DEF AcqFail, TypeOK
  <2> QED BY <2>1, <2>2, <2>3, <2>4, <2>5 DEF Held, TypeOK
<1> QED BY <1>1, <1>2 DEF Counted

(* Drop keeps the balance of every slot. *)
LEMMA DropCounted ==
  ASSUME TypeOK, Control, Issued, NEW t \in Threads, Drop(t), UNCHANGED <<upd, net>>
  PROVE  Counted(t)
<1>1. Others(t)
  BY DEF Others, TypeOK, Drop
<1>2. ASSUME NEW s \in Slots
      PROVE  ioCount'[s] - Held(t, s)' = ioCount[s] - Held(t, s)
  <2>1. Overlapped(s)' = Overlapped(s) /\ Overlapped(s) \in Int
    BY DEF Drop, TypeOK, Overlapped, Control
  <2>2. HoldingIO(t, s)' = HoldingIO(t, s) /\ HoldingIO(t, s) \in Int
    BY DEF Drop, TypeOK, HoldingIO, Control
  <2>3. HoldingLog(t, s)' = HoldingLog(t, s) /\ HoldingLog(t, s) \in Int
    BY DEF Drop, TypeOK, HoldingLog, Control, LogPlaces
  <2>4. Holding(t, s) = (IF s = cur[t] THEN 1 ELSE 0) /\ Holding(t, s)' = 0
    BY DEF Drop, TypeOK, Holding, Control, HoldPlaces
  <2>5. ioCount'[s] = ioCount[s] - (IF s = cur[t] THEN 1 ELSE 0) /\ ioCount[s] \in Int
    BY DEF Drop, TypeOK
  <2> QED BY <2>1, <2>2, <2>3, <2>4, <2>5 DEF Held, TypeOK
<1> QED BY <1>1, <1>2 DEF Counted

(* RelLeave keeps the balance of every slot. *)
LEMMA RelLeaveCounted ==
  ASSUME TypeOK, Control, Issued, NEW t \in Threads, RelLeave(t), UNCHANGED <<upd, net>>
  PROVE  Counted(t)
<1>1. Others(t)
  BY DEF Others, TypeOK, RelLeave
<1>2. ASSUME NEW s \in Slots
      PROVE  ioCount'[s] - Held(t, s)' = ioCount[s] - Held(t, s)
  <2>1. Overlapped(s)' = Overlapped(s) /\ Overlapped(s) \in Int
    BY DEF RelLeave, TypeOK, Overlapped, Control
  <2>2. HoldingIO(t, s)' = HoldingIO(t, s) /\ HoldingIO(t, s) \in Int
    BY DEF RelLeave, TypeOK, HoldingIO, Control
  <2>3. HoldingLog(t, s)' = HoldingLog(t, s) /\ HoldingLog(t, s) \in Int
    BY DEF RelLeave, TypeOK, HoldingLog, Control, LogPlaces
  <2>4. Holding(t, s)' = Holding(t, s) /\ Holding(t, s) \in Int
    BY DEF RelLeave, TypeOK, Holding, Control, HoldPlaces
  <2>5. ioCount'[s] = ioCount[s] /\ ioCount[s] \in Int
    BY DEF RelLeave, TypeOK
  <2> QED BY <2>1, <2>2, <2>3, <2>4, <2>5 DEF Held, TypeOK
<1> QED BY <1>1, <1>2 DEF Counted

(* SendComplete keeps the balance of every slot. *)
LEMMA SendCompleteCounted ==
  ASSUME TypeOK, Control, Issued, NEW w \in Workers, SendComplete(w)
  PROVE  Counted(w)
<1>1. Others(w)
  BY DEF Others, TypeOK, SendComplete
<1>2. ASSUME NEW s \in Slots
      PROVE  ioCount'[s] - Held(w, s)' = ioCount[s] - Held(w, s)
  <2>1. Overlapped(s)' = Overlapped(s) /\ Overlapped(s) \in Int
    BY DEF SendComplete, TypeOK, Overlapped, Control
  <2>2. SlotOf(id[cur[w]]) = cur[w]
    BY DEF SendComplete, TypeOK, Issued
  <2>3. HoldingIO(w, s)' = HoldingIO(w, s) /\ HoldingIO(w, s) \in Int
    BY SMTT(30) DEF SendComplete, TypeOK, HoldingIO, Issued
  <2>4. HoldingLog(w, s)' = HoldingLog(w, s) /\ HoldingLog(w, s) \in Int
    BY DEF SendComplete, TypeOK, HoldingLog, Issued, LogPlaces
  <2>5. Holding(w, s)' = Holding(w, s) /\ Holding(w, s) \in Int
    BY DEF SendComplete, TypeOK, Holding, Issued, HoldPlaces
  <2>6. ioCount'[s] = ioCount[s] /\ ioCount[s] \in Int
    BY DEF SendComplete, TypeOK
  <2> QED BY <2>1, <2>2, <2>3, <2>4, <2>5, <2>6 DEF Held, TypeOK
<1> QED BY <1>1, <1>2 DEF Counted

(* RecvGarbage keeps the balance of every slot. *)
LEMMA RecvGarbageCounted ==
  ASSUME TypeOK, Control, Issued, NEW w \in Workers, RecvGarbage(w)
  PROVE  Counted(w)
<1>1. Others(w)
  BY DEF Others, TypeOK, RecvGarbage
<1>2. ASSUME NEW s \in Slots
      PROVE  ioCount'[s] - Held(w, s)' = ioCount[s] - Held(w, s)
  <2>1. Overlapped(s)' = Overlapped(s) /\ Overlapped(s) \in Int
    BY DEF RecvGarbage, TypeOK, Overlapped, Control
  <2>2. SlotOf(id[cur[w]]) = cur[w]
    BY DEF RecvGarbage, TypeOK, Issued
  <2>3. HoldingIO(w, s)' = HoldingIO(w, s) /\ HoldingIO(w, s) \in Int
    BY SMTT(30) DEF RecvGarbage, TypeOK, HoldingIO, Issued
  <2>4. HoldingLog(w, s)' = HoldingLog(w, s) /\ HoldingLog(w, s) \in Int
    BY DEF RecvGarbage, TypeOK, HoldingLog, Issued, LogPlaces
  <2>5. Holding(w, s)' = Holding(w, s) /\ Holding(w, s) \in Int
    BY DEF RecvGarbage, TypeOK, Holding, Issued, HoldPlaces
  <2>6. ioCount'[s] = ioCount[s] /\ ioCount[s] \in Int
    BY DEF RecvGarbage, TypeOK
  <2> QED BY <2>1, <2>2, <2>3, <2>4, <2>5, <2>6 DEF Held, TypeOK
<1> QED BY <1>1, <1>2 DEF Counted

(* GetSend keeps the balance of every slot. *)
LEMMA GetSendCounted ==
  ASSUME TypeOK, Control, Issued, NEW w \in Workers, NEW z \in Slots, GetSend(w, z)
  PROVE  Counted(w)
<1>1. Others(w)
  BY DEF Others, TypeOK, GetSend
<1>2. ASSUME NEW s \in Slots
      PROVE  ioCount'[s] - Held(w, s)' = ioCount[s] - Held(w, s)
  <2>1. Holding(w, s) = 0 /\ Holding(w, s)' = 0
    BY DEF GetSend, TypeOK, Holding, HoldPlaces
  <2>2. HoldingLog(w, s) = 0 /\ HoldingLog(w, s)' = 0
    BY DEF GetSend, TypeOK, HoldingLog, LogPlaces
  <2>3. HoldingIO(w, s) = 0 /\ HoldingIO(w, s)' = IF s = z THEN 1 ELSE 0
    BY DEF GetSend, TypeOK, HoldingIO, Control
  <2>4. Overlapped(s)' = Overlapped(s) - (IF s = z THEN 1 ELSE 0) /\ Overlapped(s) \in Int
    BY SMTT(30) DEF GetSend, TypeOK, Overlapped
  <2>5. ioCount'[s] = ioCount[s] /\ ioCount[s] \in Int
    BY DEF GetSend, TypeOK
  <2> QED BY SMTT(30), <2>1, <2>2, <2>3, <2>4, <2>5 DEF Held, TypeOK
<1> QED BY <1>1, <1>2 DEF Counted

(* GetRecv keeps the balance of every slot. *)
LEMMA GetRecvCounted ==
  ASSUME TypeOK, Control, Issued, NEW w \in Workers, NEW z \in Slots, GetRecv(w, z)
  PROVE  Counted(w)
<1>1. Others(w)
  BY DEF Others, TypeOK, GetRecv
<1>2. ASSUME NEW s \in Slots
      PROVE  ioCount'[s] - Held(w, s)' = ioCount[s] - Held(w, s)
  <2>1. Holding(w, s) = 0 /\ Holding(w, s)' = 0
    BY DEF GetRecv, TypeOK, Holding, HoldPlaces
  <2>2. HoldingLog(w, s) = 0 /\ HoldingLog(w, s)' = 0
    BY DEF GetRecv, TypeOK, HoldingLog, LogPlaces
  <2>3. HoldingIO(w, s) = 0 /\ HoldingIO(w, s)' = IF s = z THEN 1 ELSE 0
    BY DEF GetRecv, TypeOK, HoldingIO, Control
  <2>4. Overlapped(s)' = Overlapped(s) - (IF s = z THEN 1 ELSE 0) /\ Overlapped(s) \in Int
    BY SMTT(30) DEF GetRecv, TypeOK, Overlapped
  <2>5. ioCount'[s] = ioCount[s] /\ ioCount[s] \in Int
    BY DEF GetRecv, TypeOK
  <2> QED BY SMTT(30), <2>1, <2>2, <2>3, <2>4, <2>5 DEF Held, TypeOK
<1> QED BY <1>1, <1>2 DEF Counted

(* ChatMessage keeps the balance of every slot. *)
LEMMA ChatMessageCounted ==
  ASSUME TypeOK, Control, Issued, NEW recipients \in SUBSET clients, ChatMessage(recipients)
  PROVE  Counted(Updater)
<1>1. Others(Updater)
  BY DEF Others, TypeOK, ChatMessage
<1>2. ASSUME NEW s \in Slots
      PROVE  ioCount'[s] - Held(Updater, s)' = ioCount[s] - Held(Updater, s)
  <2>1. Overlapped(s)' = Overlapped(s) /\ Overlapped(s) \in Int
    BY DEF ChatMessage, TypeOK, Overlapped, Control
  <2>2. HoldingIO(Updater, s)' = 0 /\ HoldingIO(Updater, s) = 0
    BY DEF ChatMessage, TypeOK, HoldingIO, Control
  <2>3. HoldingLog(Updater, s)' = 0 /\ HoldingLog(Updater, s) = 0
    BY DEF ChatMessage, TypeOK, HoldingLog, Control, LogPlaces
  <2>4. Holding(Updater, s)' = 0 /\ Holding(Updater, s) = 0
    BY DEF ChatMessage, TypeOK, Holding, Control, HoldPlaces
  <2>5. ioCount'[s] = ioCount[s] /\ ioCount[s] \in Int
    BY DEF ChatMessage, TypeOK
  <2> QED BY <2>1, <2>2, <2>3, <2>4, <2>5 DEF Held, TypeOK
<1> QED BY <1>1, <1>2 DEF Counted

(* So the first decrement goes on to the second. *)
LEMMA Drop2Goes ==
  ASSUME TypeOK, RefCount, NEW t \in Threads, Drop2(t)
  PROVE  pc' = [pc EXCEPT ![t] = "drop"]
<1>1. ioCount[cur[t]] > 1
  BY TwoCounts DEF Drop2
<1>2. ioCount[cur[t]] \in Int
  BY DEF TypeOK
<1>3. ioCount[cur[t]] # 1
  BY <1>1, <1>2
<1> QED BY <1>3 DEF Drop2

(* Drop2 keeps the balance of every slot. *)
LEMMA Drop2Counted ==
  ASSUME TypeOK, Control, RefCount, NEW t \in Threads, Drop2(t)
  PROVE  Counted(t)
<1>1. Others(t)
  BY DEF Others, TypeOK, Drop2
<1>2. pc' = [pc EXCEPT ![t] = "drop"]
  BY Drop2Goes
<1>3. ASSUME NEW s \in Slots
      PROVE  ioCount'[s] - Held(t, s)' = ioCount[s] - Held(t, s)
  <2>1. Overlapped(s)' = Overlapped(s) /\ Overlapped(s) \in Int
    BY DEF Drop2, Overlapped
  <2>2. HoldingIO(t, s)' = HoldingIO(t, s) /\ HoldingIO(t, s) \in Int
    BY DEF Drop2, HoldingIO
  <2>3. HoldingLog(t, s) = (IF s = cur[t] THEN 1 ELSE 0) /\ HoldingLog(t, s)' = 0
    BY <1>2 DEF Drop2, TypeOK, HoldingLog, LogPlaces
  <2>4. Holding(t, s)' = Holding(t, s) /\ Holding(t, s) \in Int
    BY <1>2 DEF Drop2, TypeOK, Holding, HoldPlaces
  <2>5. ioCount'[s] = ioCount[s] - (IF s = cur[t] THEN 1 ELSE 0) /\ ioCount[s] \in Int
    BY DEF Drop2, TypeOK
  <2> QED BY <2>1, <2>2, <2>3, <2>4, <2>5 DEF Held
<1> QED BY <1>1, <1>3 DEF Counted

(* Every group of actions keeps the balance. *)
LEMMA RoutineCounted ==
  ASSUME TypeOK, Control, Issued, Ownership, RecvPhase, SendPhase, RefCount, NEW t \in Threads,
         Routine(t), UNCHANGED <<upd, net>>
  PROVE  Counted(t)
<1>1. CASE AcqInc(t)
  BY <1>1, AcqIncCounted
<1>2. CASE AcqFlag(t)
  BY <1>2 DEF TypeOK, Control, Counted, Others, Held, Holding, HoldingLog, HoldingIO,
     Overlapped, HoldPlaces, LogPlaces, AcqFlag
<1>3. CASE AcqId(t)
  BY <1>3, SMTT(40) DEF TypeOK, Control, Counted, Others, Held, Holding, HoldingLog, HoldingIO,
     Overlapped, HoldPlaces, LogPlaces, AcqId
<1>4. CASE AcqFail(t)
  BY <1>4, AcqFailCounted
<1>5. CASE Drop(t)
  BY <1>5, DropCounted
<1>6. CASE RelCas(t)
  BY <1>6, SMTT(40) DEF TypeOK, Control, Counted, Others, Held, Holding, HoldingLog, HoldingIO,
     Overlapped, HoldPlaces, LogPlaces, RelCas
<1>7. CASE RelPackets(t)
  BY <1>7 DEF TypeOK, Control, Counted, Others, Held, Holding, HoldingLog, HoldingIO,
     Overlapped, HoldPlaces, LogPlaces, RelPackets
<1>8. CASE RelClear(t)
  BY <1>8, SMTT(40) DEF TypeOK, Control, Counted, Others, Held, Holding, HoldingLog, HoldingIO,
     Overlapped, HoldPlaces, LogPlaces, RelClear, Ownership, RecvPhase, RecvPlaces,
     ReleasePlaces
<1>9. CASE RelPush(t)
  BY <1>9 DEF TypeOK, Control, Counted, Others, Held, Holding, HoldingLog, HoldingIO,
     Overlapped, HoldPlaces, LogPlaces, RelPush
<1>10. CASE RelLeave(t)
  BY <1>10, RelLeaveCounted
<1>11. CASE Cancel(t)
  BY <1>11, SMTT(40) DEF TypeOK, Control, Counted, Others, Held, Holding, HoldingLog, HoldingIO,
     Overlapped, HoldPlaces, LogPlaces, Cancel, Ownership, RecvPhase, RecvPlaces, ReleasePlaces,
     SendPhase, SendPlaces
<1>12. CASE EnQ(t)
  BY <1>12 DEF TypeOK, Control, Counted, Others, Held, Holding, HoldingLog, HoldingIO,
     Overlapped, HoldPlaces, LogPlaces, EnQ
<1>13. CASE Pqcs(t)
  BY <1>13 DEF TypeOK, Control, Counted, Others, Held, Holding, HoldingLog, HoldingIO,
     Overlapped, HoldPlaces, LogPlaces, Pqcs
<1>14. CASE Mark(t)
  BY <1>14 DEF TypeOK, Control, Counted, Others, Held, Holding, HoldingLog, HoldingIO,
     Overlapped, HoldPlaces, LogPlaces, Mark
<1>15. CASE PostFlag(t)
  BY <1>15 DEF TypeOK, Control, Counted, Others, Held, Holding, HoldingLog, HoldingIO,
     Overlapped, HoldPlaces, LogPlaces, PostFlag
<1>16. CASE PostCount(t)
  BY <1>16 DEF TypeOK, Control, Counted, Others, Held, Holding, HoldingLog, HoldingIO,
     Overlapped, HoldPlaces, LogPlaces, PostCount
<1>17. CASE PostUnflag(t)
  BY <1>17 DEF TypeOK, Control, Counted, Others, Held, Holding, HoldingLog, HoldingIO,
     Overlapped, HoldPlaces, LogPlaces, PostUnflag
<1>18. CASE PostRecheck(t)
  BY <1>18 DEF TypeOK, Control, Counted, Others, Held, Holding, HoldingLog, HoldingIO,
     Overlapped, HoldPlaces, LogPlaces, PostRecheck
<1>19. CASE PostInc(t)
  BY SMTT(30), <1>19 DEF TypeOK, Control, Counted, Others, Held, Holding, HoldingLog, HoldingIO,
     Overlapped, HoldPlaces, LogPlaces, PostInc
<1>20. CASE PostDeq(t)
  BY <1>20 DEF TypeOK, Control, Counted, Others, Held, Holding, HoldingLog, HoldingIO,
     Overlapped, HoldPlaces, LogPlaces, PostDeq
<1>21. CASE PostCancel(t)
  BY <1>21 DEF TypeOK, Control, Counted, Others, Held, Holding, HoldingLog, HoldingIO,
     Overlapped, HoldPlaces, LogPlaces, PostCancel
<1>22. ASSUME NEW failed \in BOOLEAN, PostSend(t, failed)
       PROVE  Counted(t)
  BY SMTT(30), <1>22 DEF TypeOK, Control, Counted, Others, Held, Holding, HoldingLog, HoldingIO,
     Overlapped, HoldPlaces, LogPlaces, PostSend, SendPhase, SendPlaces
<1>23. CASE Drop2(t)
  BY <1>23, Drop2Counted
<1>24. CASE RpInc(t)
  BY SMTT(30), <1>24 DEF TypeOK, Control, Counted, Others, Held, Holding, HoldingLog, HoldingIO,
     Overlapped, HoldPlaces, LogPlaces, RpInc
<1>25. CASE RpCancel(t)
  BY <1>25 DEF TypeOK, Control, Counted, Others, Held, Holding, HoldingLog, HoldingIO,
     Overlapped, HoldPlaces, LogPlaces, RpCancel
<1>26. ASSUME NEW failed \in BOOLEAN, RpIssue(t, failed)
       PROVE  Counted(t)
  BY SMTT(30), <1>26 DEF TypeOK, Control, Counted, Others, Held, Holding, HoldingLog, HoldingIO,
     Overlapped, HoldPlaces, LogPlaces, RpIssue, Ownership, RecvPhase, RecvPlaces, ReleasePlaces
<1>27. CASE RpFail(t)
  BY SMTT(30), <1>27 DEF TypeOK, Control, Counted, Others, Held, Holding, HoldingLog, HoldingIO,
     Overlapped, HoldPlaces, LogPlaces, RpFail
<1> QED BY <1>1, <1>2, <1>3, <1>4, <1>5, <1>6, <1>7, <1>8, <1>9, <1>10, <1>11, <1>12, <1>13,
           <1>14, <1>15, <1>16, <1>17, <1>18, <1>19, <1>20, <1>21, <1>22, <1>23, <1>24, <1>25,
           <1>26, <1>27 DEF Routine

(* The same for the actions of the accept thread. *)
LEMMA AcceptCounted ==
  ASSUME TypeOK, Control, Issued, Ownership, RecvPhase, SendPhase, RefCount, Accept
  PROVE  Counted(Acceptor)
<1>1. ASSUME NEW s \in Slots, AccPop(s)
      PROVE  Counted(Acceptor)
  BY <1>1 DEF TypeOK, Control, Counted, Others, Held, Holding, HoldingLog, HoldingIO,
     Overlapped, HoldPlaces, LogPlaces, AccPop
<1>2. CASE AccId
  BY <1>2 DEF TypeOK, Control, Counted, Others, Held, Holding, HoldingLog, HoldingIO,
     Overlapped, HoldPlaces, LogPlaces, AccId
<1>3. CASE AccFlag
  BY <1>3 DEF TypeOK, Control, Counted, Others, Held, Holding, HoldingLog, HoldingIO,
     Overlapped, HoldPlaces, LogPlaces, AccFlag
<1>4. CASE AccUsed
  BY <1>4 DEF TypeOK, Control, Counted, Others, Held, Holding, HoldingLog, HoldingIO,
     Overlapped, HoldPlaces, LogPlaces, AccUsed
<1>5. CASE AccAttachFail
  BY <1>5 DEF TypeOK, Control, Counted, Others, Held, Holding, HoldingLog, HoldingIO,
     Overlapped, HoldPlaces, LogPlaces, AccAttachFail
<1>6. CASE AccJoin
  BY <1>6 DEF TypeOK, Control, Counted, Others, Held, Holding, HoldingLog, HoldingIO,
     Overlapped, HoldPlaces, LogPlaces, AccJoin
<1>7. ASSUME NEW failed \in BOOLEAN, AccRecv(failed)
      PROVE  Counted(Acceptor)
  BY SMTT(30), <1>7 DEF TypeOK, Control, Counted, Others, Held, Holding, HoldingLog, HoldingIO,
     Overlapped, HoldPlaces, LogPlaces, AccRecv, Ownership, RecvPhase, RecvPlaces, ReleasePlaces
<1>8. CASE AccFail
  BY <1>8, SMTT(40) DEF TypeOK, Control, Counted, Others, Held, Holding, HoldingLog, HoldingIO,
     Overlapped, HoldPlaces, LogPlaces, AccFail, Ownership, RecvPhase, RecvPlaces, ReleasePlaces
<1> QED BY <1>1, <1>2, <1>3, <1>4, <1>5, <1>6, <1>7, <1>8 DEF Accept

(* The same for the actions of a worker. *)
LEMMA WorkCounted ==
  ASSUME TypeOK, Control, Issued, Ownership, RecvPhase, SendPhase, RefCount, NEW w \in Workers,
         Work(w)
  PROVE  Counted(w)
<1>1. ASSUME NEW s \in Slots, GetRecv(w, s)
      PROVE  Counted(w)
  BY <1>1, GetRecvCounted
<1>2. ASSUME NEW s \in Slots, GetSend(w, s)
      PROVE  Counted(w)
  BY <1>2, GetSendCounted
<1>3. ASSUME NEW i \in Ids, GetPost(w, i)
      PROVE  Counted(w)
  BY <1>3 DEF TypeOK, Control, Counted, Others, Held, Holding, HoldingLog, HoldingIO,
     Overlapped, HoldPlaces, LogPlaces, GetPost, Issued
<1>4. ASSUME NEW kind \in Kinds, RecvMessage(w, kind)
      PROVE  Counted(w)
  BY <1>4 DEF TypeOK, Control, Counted, Others, Held, Holding, HoldingLog, HoldingIO,
     Overlapped, HoldPlaces, LogPlaces, RecvMessage
<1>5. CASE RecvGarbage(w)
  BY <1>5, RecvGarbageCounted
<1>6. CASE RecvDone(w)
  BY <1>6 DEF TypeOK, Control, Counted, Others, Held, Holding, HoldingLog, HoldingIO,
     Overlapped, HoldPlaces, LogPlaces, RecvDone
<1>7. CASE SendComplete(w)
  BY <1>7, SendCompleteCounted
<1>8. CASE Final(w)
  BY SMTT(30), <1>8 DEF TypeOK, Control, Counted, Others, Held, Holding, HoldingLog, HoldingIO,
     Overlapped, HoldPlaces, LogPlaces, Final
<1> QED BY <1>1, <1>2, <1>3, <1>4, <1>5, <1>6, <1>7, <1>8 DEF Work

(* The same for the actions of the update thread. *)
LEMMA UpdateCounted ==
  ASSUME TypeOK, Control, Issued, Ownership, RecvPhase, SendPhase, RefCount, Update
  PROVE  Counted(Updater)
<1>1. CASE CreateNewUser
  BY <1>1 DEF TypeOK, Control, Counted, Others, Held, Holding, HoldingLog, HoldingIO,
     Overlapped, HoldPlaces, LogPlaces, CreateNewUser
<1>2. CASE DeleteUser
  BY <1>2 DEF TypeOK, Control, Counted, Others, Held, Holding, HoldingLog, HoldingIO,
     Overlapped, HoldPlaces, LogPlaces, DeleteUser
<1>3. CASE TimeOut
  BY <1>3 DEF TypeOK, Control, Counted, Others, Held, Holding, HoldingLog, HoldingIO,
     Overlapped, HoldPlaces, LogPlaces, TimeOut, Issued
<1>4. CASE BadMessage
  BY <1>4 DEF TypeOK, Control, Counted, Others, Held, Holding, HoldingLog, HoldingIO,
     Overlapped, HoldPlaces, LogPlaces, BadMessage, Issued
<1>5. ASSUME NEW recipients \in SUBSET clients, ChatMessage(recipients)
      PROVE  Counted(Updater)
  BY <1>5, ChatMessageCounted
<1>6. ASSUME NEW i \in Ids, SendNext(i)
      PROVE  Counted(Updater)
  BY <1>6 DEF TypeOK, Control, Counted, Others, Held, Holding, HoldingLog, HoldingIO,
     Overlapped, HoldPlaces, LogPlaces, SendNext, Issued
<1> QED BY <1>1, <1>2, <1>3, <1>4, <1>5, <1>6 DEF Update

(* The same for the actions of the monitor thread. *)
LEMMA WatchCounted ==
  ASSUME TypeOK, Control, Issued, Ownership, RecvPhase, SendPhase, RefCount, Watch
  PROVE  Counted(Monitor)
<1>1. ASSUME NEW s \in Slots, MonUsed(s)
      PROVE  Counted(Monitor)
  BY <1>1 DEF TypeOK, Control, Counted, Others, Held, Holding, HoldingLog, HoldingIO,
     Overlapped, HoldPlaces, LogPlaces, MonUsed
<1>2. CASE MonId
  BY <1>2 DEF TypeOK, Control, Counted, Others, Held, Holding, HoldingLog, HoldingIO,
     Overlapped, HoldPlaces, LogPlaces, MonId, Issued
<1>3. ASSUME NEW late \in BOOLEAN, MonExpire(late)
      PROVE  Counted(Monitor)
  BY <1>3 DEF TypeOK, Control, Counted, Others, Held, Holding, HoldingLog, HoldingIO,
     Overlapped, HoldPlaces, LogPlaces, MonExpire
<1> QED BY <1>1, <1>2, <1>3 DEF Watch

(* The same for the actions of the kernel and the clients. *)
LEMMA KernelCounted ==
  ASSUME TypeOK, Control, Issued, Ownership, RecvPhase, SendPhase, RefCount, Kernel
  PROVE  Counted(Acceptor)
<1>1. ASSUME NEW s \in Slots, NEW how \in Closings, PeerClose(s, how)
      PROVE  Counted(Acceptor)
  BY <1>1 DEF TypeOK, Control, Counted, Others, Held, Holding, HoldingLog, HoldingIO,
     Overlapped, HoldPlaces, LogPlaces, PeerClose
<1>2. ASSUME NEW s \in Slots, NEW result \in {"data", "fail", "eof"}, RecvComplete(s, result)
      PROVE  Counted(Acceptor)
  BY <1>2, SMTT(40) DEF TypeOK, Control, Counted, Others, Held, Holding, HoldingLog, HoldingIO,
     Overlapped, HoldPlaces, LogPlaces, RecvComplete, Ownership, RecvPhase, RecvPlaces,
     ReleasePlaces
<1>3. ASSUME NEW s \in Slots, SendDone(s)
      PROVE  Counted(Acceptor)
  BY SMTT(30), <1>3 DEF TypeOK, Control, Counted, Others, Held, Holding, HoldingLog, HoldingIO,
     Overlapped, HoldPlaces, LogPlaces, SendDone, SendPhase, SendPlaces
<1> QED BY <1>1, <1>2, <1>3 DEF Kernel

(* Every step keeps RefCount. *)
LEMMA RefCountStep ==
  ASSUME TypeOK, TypeOK', Control, Issued, Ownership, RecvPhase, SendPhase, RefCount, [Next]_vars
  PROVE  RefCount'
<1>1. CASE Crashes \/ UNCHANGED vars
  BY ZenonT(60), <1>1 DEF Crashes, vars, RefCount, Holders, LogHolders, Completing, Overlapped
<1>2. ASSUME NEW t \in Threads, Counted(t)
      PROVE  RefCount'
  BY <1>2, CountFrame DEF Counted
<1>3. CASE Kernel
  BY <1>2, <1>3, KernelCounted
<1>4. ASSUME NEW t \in Threads, ThreadStep(t)
      PROVE  RefCount'
  BY <1>2, <1>4, RoutineCounted, AcceptCounted, WorkCounted, UpdateCounted,
     WatchCounted DEF ThreadStep
<1> QED BY <1>1, <1>3, <1>4 DEF Next

-----------------------------------------------------------------------------
(* The first of two decrements never enters ReleaseSession. *)
LEMMA Drop2Control ==
  ASSUME TypeOK, Control, RefCount, NEW t \in Threads, Drop2(t)
  PROVE  Control'
<1>1. pc' = [pc EXCEPT ![t] = "drop"]
  BY Drop2Goes
<1> QED BY <1>1 DEF TypeOK, Control, Drop2

(* Every group of actions keeps Control. *)
LEMMA RoutineControl ==
  ASSUME TypeOK, Control, RefCount, NEW t \in Threads, Routine(t), UNCHANGED <<upd, net>>
  PROVE  Control'
<1>1. CASE AcqInc(t)
  BY <1>1 DEF TypeOK, Control, AcqInc
<1>2. CASE AcqFlag(t)
  BY <1>2 DEF TypeOK, Control, AcqFlag
<1>3. CASE AcqId(t)
  BY ZenonT(60), <1>3 DEF TypeOK, Control, AcqId
<1>4. CASE AcqFail(t)
  BY SMTT(30), <1>4 DEF TypeOK, Control, AcqFail
<1>5. CASE Drop(t)
  BY <1>5 DEF TypeOK, Control, Drop
<1>6. CASE RelCas(t)
  BY <1>6 DEF TypeOK, Control, RelCas
<1>7. CASE RelPackets(t)
  BY <1>7 DEF TypeOK, Control, RelPackets
<1>8. CASE RelClear(t)
  BY <1>8 DEF TypeOK, Control, RelClear
<1>9. CASE RelPush(t)
  BY <1>9 DEF TypeOK, Control, RelPush
<1>10. CASE RelLeave(t)
  BY <1>10, SMTT(40) DEF TypeOK, Control, RelLeave
<1>11. CASE Cancel(t)
  BY <1>11 DEF TypeOK, Control, Cancel
<1>12. CASE EnQ(t)
  BY <1>12 DEF TypeOK, Control, EnQ
<1>13. CASE Pqcs(t)
  BY <1>13 DEF TypeOK, Control, Pqcs
<1>14. CASE Mark(t)
  BY <1>14 DEF TypeOK, Control, Mark
<1>15. CASE PostFlag(t)
  BY <1>15 DEF TypeOK, Control, PostFlag
<1>16. CASE PostCount(t)
  BY <1>16 DEF TypeOK, Control, PostCount
<1>17. CASE PostUnflag(t)
  BY <1>17 DEF TypeOK, Control, PostUnflag
<1>18. CASE PostRecheck(t)
  BY <1>18 DEF TypeOK, Control, PostRecheck
<1>19. CASE PostInc(t)
  BY <1>19 DEF TypeOK, Control, PostInc
<1>20. CASE PostDeq(t)
  BY <1>20 DEF TypeOK, Control, PostDeq
<1>21. CASE PostCancel(t)
  BY <1>21 DEF TypeOK, Control, PostCancel
<1>22. ASSUME NEW failed \in BOOLEAN, PostSend(t, failed)
       PROVE  Control'
  BY <1>22 DEF TypeOK, Control, PostSend
<1>23. CASE Drop2(t)
  BY <1>23, Drop2Control
<1>24. CASE RpInc(t)
  BY <1>24 DEF TypeOK, Control, RpInc
<1>25. CASE RpCancel(t)
  BY <1>25 DEF TypeOK, Control, RpCancel
<1>26. ASSUME NEW failed \in BOOLEAN, RpIssue(t, failed)
       PROVE  Control'
  BY <1>26 DEF TypeOK, Control, RpIssue
<1>27. CASE RpFail(t)
  BY <1>27 DEF TypeOK, Control, RpFail
<1> QED BY <1>1, <1>2, <1>3, <1>4, <1>5, <1>6, <1>7, <1>8, <1>9, <1>10, <1>11, <1>12, <1>13,
           <1>14, <1>15, <1>16, <1>17, <1>18, <1>19, <1>20, <1>21, <1>22, <1>23, <1>24, <1>25,
           <1>26, <1>27 DEF Routine

(* The same for the actions of the accept thread. *)
LEMMA AcceptControl ==
  ASSUME TypeOK, Control, RefCount, Accept
  PROVE  Control'
<1>1. ASSUME NEW s \in Slots, AccPop(s)
      PROVE  Control'
  BY <1>1 DEF TypeOK, Control, AccPop
<1>2. CASE AccId
  BY <1>2 DEF TypeOK, Control, AccId
<1>3. CASE AccFlag
  BY <1>3 DEF TypeOK, Control, AccFlag
<1>4. CASE AccUsed
  BY <1>4 DEF TypeOK, Control, AccUsed
<1>5. CASE AccAttachFail
  BY <1>5 DEF TypeOK, Control, AccAttachFail
<1>6. CASE AccJoin
  BY <1>6 DEF TypeOK, Control, AccJoin
<1>7. ASSUME NEW failed \in BOOLEAN, AccRecv(failed)
      PROVE  Control'
  BY <1>7 DEF TypeOK, Control, AccRecv
<1>8. CASE AccFail
  BY <1>8 DEF TypeOK, Control, AccFail
<1> QED BY <1>1, <1>2, <1>3, <1>4, <1>5, <1>6, <1>7, <1>8 DEF Accept

(* The same for the actions of a worker. *)
LEMMA WorkControl ==
  ASSUME TypeOK, Control, RefCount, NEW w \in Workers, Work(w)
  PROVE  Control'
<1>1. ASSUME NEW s \in Slots, GetRecv(w, s)
      PROVE  Control'
  BY <1>1 DEF TypeOK, Control, GetRecv
<1>2. ASSUME NEW s \in Slots, GetSend(w, s)
      PROVE  Control'
  BY <1>2 DEF TypeOK, Control, GetSend
<1>3. ASSUME NEW i \in Ids, GetPost(w, i)
      PROVE  Control'
  BY <1>3 DEF TypeOK, Control, GetPost
<1>4. ASSUME NEW kind \in Kinds, RecvMessage(w, kind)
      PROVE  Control'
  BY <1>4 DEF TypeOK, Control, RecvMessage
<1>5. CASE RecvGarbage(w)
  BY <1>5 DEF TypeOK, Control, RecvGarbage
<1>6. CASE RecvDone(w)
  BY <1>6 DEF TypeOK, Control, RecvDone
<1>7. CASE SendComplete(w)
  BY <1>7 DEF TypeOK, Control, SendComplete
<1>8. CASE Final(w)
  BY <1>8 DEF TypeOK, Control, Final
<1> QED BY <1>1, <1>2, <1>3, <1>4, <1>5, <1>6, <1>7, <1>8 DEF Work

(* The same for the actions of the update thread. *)
LEMMA UpdateControl ==
  ASSUME TypeOK, Control, RefCount, Update
  PROVE  Control'
<1>1. CASE CreateNewUser
  BY <1>1 DEF TypeOK, Control, CreateNewUser
<1>2. CASE DeleteUser
  BY <1>2 DEF TypeOK, Control, DeleteUser
<1>3. CASE TimeOut
  BY <1>3 DEF TypeOK, Control, TimeOut
<1>4. CASE BadMessage
  BY <1>4 DEF TypeOK, Control, BadMessage
<1>5. ASSUME NEW recipients \in SUBSET clients, ChatMessage(recipients)
      PROVE  Control'
  BY <1>5 DEF TypeOK, Control, ChatMessage
<1>6. ASSUME NEW i \in Ids, SendNext(i)
      PROVE  Control'
  BY <1>6 DEF TypeOK, Control, SendNext
<1> QED BY <1>1, <1>2, <1>3, <1>4, <1>5, <1>6 DEF Update

(* The same for the actions of the monitor thread. *)
LEMMA WatchControl ==
  ASSUME TypeOK, Control, RefCount, Watch
  PROVE  Control'
<1>1. ASSUME NEW s \in Slots, MonUsed(s)
      PROVE  Control'
  BY <1>1 DEF TypeOK, Control, MonUsed
<1>2. CASE MonId
  BY <1>2 DEF TypeOK, Control, MonId
<1>3. ASSUME NEW late \in BOOLEAN, MonExpire(late)
      PROVE  Control'
  BY <1>3 DEF TypeOK, Control, MonExpire
<1> QED BY <1>1, <1>2, <1>3 DEF Watch

(* The same for the actions of the kernel and the clients. *)
LEMMA KernelControl ==
  ASSUME TypeOK, Control, RefCount, Kernel
  PROVE  Control'
<1>1. ASSUME NEW s \in Slots, NEW how \in Closings, PeerClose(s, how)
      PROVE  Control'
  BY <1>1 DEF TypeOK, Control, PeerClose
<1>2. ASSUME NEW s \in Slots, NEW result \in {"data", "fail", "eof"}, RecvComplete(s, result)
      PROVE  Control'
  BY <1>2 DEF TypeOK, Control, RecvComplete
<1>3. ASSUME NEW s \in Slots, SendDone(s)
      PROVE  Control'
  BY <1>3 DEF TypeOK, Control, SendDone
<1> QED BY <1>1, <1>2, <1>3 DEF Kernel

(* Every step keeps Control. *)
LEMMA ControlStep ==
  ASSUME TypeOK, Control, RefCount, [Next]_vars
  PROVE  Control'
<1>1. CASE Crashes
  BY <1>1 DEF TypeOK, Control, Crashes
<1>2. CASE UNCHANGED vars
  BY <1>2 DEF TypeOK, Control, vars
<1> QED BY <1>1, <1>2, RoutineControl, AcceptControl, WorkControl, UpdateControl, WatchControl,
           KernelControl DEF Next, ThreadStep

(* The ID of a used slot has a positive serial. *)
LEMMA NotVirgin ==
  ASSUME TypeOK, NEW s \in Slots, ~Virgin(s)
  PROVE  id[s] \in Ids /\ id[s][2] > 0
<1>1. id[s] \in Ids
  BY DEF TypeOK
<1>2. id[s][2] \in 0..MaxSerial
  BY <1>1 DEF Ids
<1> QED BY <1>1, <1>2, BoundAssumption DEF Virgin

(* Where a call returns to. *)
LEMMA AfterPlaces ==
  ASSUME TypeOK, Control, NEW t \in Threads, pc[t] # "drop"
  PROVE  After(t) \in {"final", "idle", "pqcs"}
<1>1. nxt[t] \in {"ret", "pqcs"}
  BY DEF TypeOK, Control
<1> QED BY <1>1

(* The first job names a session that has existed, or is a leave. *)
LEMMA HeadIssued ==
  ASSUME IssuedJobs, jobs # <<>>
  PROVE  /\ Head(jobs) \in IssuedJob
         /\ Tail(jobs) \in Seq(IssuedJob)
         /\ Head(jobs).id \in Ids
         /\ Head(jobs).type # "leave" => Head(jobs).id[2] > 0
<1>1. Head(jobs) \in IssuedJob /\ Tail(jobs) \in Seq(IssuedJob)
  BY DEF IssuedJobs
<1> QED BY <1>1 DEF IssuedJob, Job

(* So does what Enqueue appends. *)
LEMMA EnqueueIssued ==
  ASSUME IssuedJobs, NEW type \in {"join", "message", "timeout", "leave"}, NEW i \in Ids,
         NEW kind \in Kinds \cup {"none"}, type = "leave" \/ i[2] > 0
  PROVE  Append(jobs, [type |-> type, id |-> i, kind |-> kind]) \in Seq(IssuedJob)
<1>1. [type |-> type, id |-> i, kind |-> kind] \in IssuedJob
  BY DEF IssuedJob, Job
<1> QED BY <1>1 DEF IssuedJobs

(* A step of t that brings no new session ID into play. *)
IssuedAside(t) ==
    /\ Others(t) /\ \A u \in Threads \ {t} : arg'[u] = arg[u] /\ nxt'[u] = nxt[u]
    /\ pc'[t] \in AcqPlaces \cup UsePlaces => arg'[t][2] > 0
    /\ nxt'[t] = "pqcs" => arg'[t][2] > 0
    /\ pc'[t] \in {"mon_id", "acc_flag"} \cup AcceptPlaces => ~Virgin(cur[t])'
    /\ io'[t] => ~Virgin(cur[t])'
    /\ UNCHANGED id
    /\ \A s \in Slots : Virgin(s) => ~used'[s] /\ recvIO'[s] = recvIO[s] /\ sendIO'[s] = sendIO[s]
    /\ \A i \in Ids : posts'[i] > 0 => posts[i] > 0 \/ i[2] > 0
    /\ \A i \in clients' \cup todo' : i \in clients \cup todo \/ i[2] > 0

(* Such a step keeps Issued. *)
LEMMA IssuedFrame ==
  ASSUME TypeOK, Issued, NEW t \in Threads, IssuedAside(t)
  PROVE  Issued'
<1>1. \A s \in Slots : Virgin(s)' <=> Virgin(s)
  BY DEF IssuedAside, Virgin
<1>2. \A s \in Slots : id'[s][1] = s /\ (Virgin(s)' => ~used'[s] /\ recvIO'[s] = "prepaid" /\ sendIO'[s] = "none")
  BY <1>1 DEF IssuedAside, Issued
<1>3. \A u \in Threads : (pc'[u] \in AcqPlaces \cup UsePlaces => arg'[u][2] > 0) /\ (nxt'[u] = "pqcs" => arg'[u][2] > 0)
  BY DEF IssuedAside, Others, Issued
<1>4. \A u \in Threads : (pc'[u] = "mon_id" => ~Virgin(cur[u])') /\ (io'[u] => ~Virgin(cur[u])')
  BY DEF IssuedAside, Others, Issued, Virgin
<1>5. pc'[Acceptor] \in {"acc_flag"} \cup AcceptPlaces => ~Virgin(cur[Acceptor])'
  BY DEF IssuedAside, Others, Issued, Virgin
<1>6. (\A i \in Ids : posts'[i] > 0 => i[2] > 0) /\ (\A i \in clients' \cup todo' : i[2] > 0)
  BY DEF IssuedAside, Issued
<1> QED BY <1>2, <1>3, <1>4, <1>5, <1>6 DEF Issued

(* The step that hands out an ID keeps Issued. *)
LEMMA AccIdIssued ==
  ASSUME TypeOK, Issued, AccId
  PROVE  Issued'
<1> PICK s \in Slots : s = cur[Acceptor]
  BY DEF TypeOK
<1>1. /\ serial \in Nat
      /\ pc' = [pc EXCEPT ![Acceptor] = "acc_flag"]
      /\ id' = [id EXCEPT ![s] = <<s, serial + 1>>]
      /\ UNCHANGED <<used, recvIO, sendIO, posts, nxt, arg, cur, io, clients, todo>>
  BY BoundAssumption DEF AccId, TypeOK
<1>2. id'[s] = <<s, serial + 1>> /\ serial + 1 # 0 /\ \A r \in Slots : r # s => id'[r] = id[r]
  BY <1>1 DEF TypeOK
<1>3. ~Virgin(s)' /\ id'[s][1] = s
  BY <1>2 DEF Virgin
<1>4. \A r \in Slots : id'[r][1] = r /\ (Virgin(r)' => Virgin(r))
  <2>1. ASSUME NEW r \in Slots, r # s
        PROVE  id'[r][1] = r /\ (Virgin(r)' => Virgin(r))
    BY <1>2, <2>1 DEF Issued, Virgin
  <2> QED BY <1>3, <2>1
<1>5. \A u \in Threads : cur[u] \in Slots /\ (pc'[u] # "acc_flag" => pc'[u] = pc[u])
  BY <1>1 DEF TypeOK
<1>6. s = cur'[Acceptor]
  BY <1>1
<1>7. \A u \in Threads : (pc'[u] = "mon_id" => ~Virgin(cur[u])') /\ (io'[u] => ~Virgin(cur[u])')
  BY <1>1, <1>4, <1>5 DEF Issued, Virgin
<1>8. ~Virgin(cur[Acceptor])'
  BY <1>3, <1>6 DEF Virgin
<1>9. \A r \in Slots : Virgin(r)' => ~used'[r] /\ recvIO'[r] = "prepaid" /\ sendIO'[r] = "none"
  BY <1>1, <1>4 DEF Issued
<1> QED BY <1>1, <1>4, <1>5, <1>7, <1>8, <1>9 DEF Issued

(* All other actions are steps aside. *)
LEMMA RoutineIssued ==
  ASSUME TypeOK, Control, Issued, IssuedJobs, Lifetime, NEW t \in Threads, Routine(t),
         UNCHANGED <<upd, net>>
  PROVE  IssuedAside(t)
<1>1. CASE AcqInc(t)
  BY <1>1 DEF TypeOK, Control, Issued, IssuedAside, Others, AcqInc, Virgin
<1>2. CASE AcqFlag(t)
  BY <1>2 DEF TypeOK, Control, Issued, IssuedAside, Others, AcqFlag, Virgin
<1>3. CASE AcqId(t)
  BY <1>3 DEF TypeOK, Control, Issued, IssuedAside, Others, AcqId, Virgin
<1>4. CASE AcqFail(t)
  BY <1>4 DEF TypeOK, Control, Issued, IssuedAside, Others, AcqFail, Virgin
<1>5. CASE Drop(t)
  BY <1>5 DEF TypeOK, Control, Issued, IssuedAside, Others, Drop, Virgin
<1>6. CASE RelCas(t)
  BY <1>6 DEF TypeOK, Control, Issued, IssuedAside, Others, RelCas, Virgin
<1>7. CASE RelPackets(t)
  BY <1>7 DEF TypeOK, Control, Issued, IssuedAside, Others, RelPackets, Virgin
<1>8. CASE RelClear(t)
  BY <1>8 DEF TypeOK, Control, Issued, IssuedAside, Others, RelClear, Virgin, Lifetime,
     NoUseAfterRelease
<1>9. CASE RelPush(t)
  BY <1>9 DEF TypeOK, Control, Issued, IssuedAside, Others, RelPush, Virgin
<1>10. CASE RelLeave(t)
  BY <1>10 DEF TypeOK, Control, Issued, IssuedAside, Others, RelLeave, Virgin
<1>11. CASE Cancel(t)
  BY <1>11 DEF TypeOK, Control, Issued, IssuedAside, Others, Cancel, Virgin, Lifetime,
     NoUseAfterRelease
<1>12. CASE EnQ(t)
  BY <1>12 DEF TypeOK, Control, Issued, IssuedAside, Others, EnQ, Virgin
<1>13. CASE Pqcs(t)
  BY <1>13 DEF TypeOK, Control, Issued, IssuedAside, Others, Pqcs, Virgin
<1>14. CASE Mark(t)
  BY <1>14 DEF TypeOK, Control, Issued, IssuedAside, Others, Mark, Virgin
<1>15. CASE PostFlag(t)
  BY <1>15 DEF TypeOK, Control, Issued, IssuedAside, Others, PostFlag, Virgin
<1>16. CASE PostCount(t)
  BY <1>16 DEF TypeOK, Control, Issued, IssuedAside, Others, PostCount, Virgin
<1>17. CASE PostUnflag(t)
  BY <1>17 DEF TypeOK, Control, Issued, IssuedAside, Others, PostUnflag, Virgin
<1>18. CASE PostRecheck(t)
  BY <1>18 DEF TypeOK, Control, Issued, IssuedAside, Others, PostRecheck, Virgin
<1>19. CASE PostInc(t)
  BY <1>19 DEF TypeOK, Control, Issued, IssuedAside, Others, PostInc, Virgin
<1>20. CASE PostDeq(t)
  BY <1>20 DEF TypeOK, Control, Issued, IssuedAside, Others, PostDeq, Virgin
<1>21. CASE PostCancel(t)
  BY <1>21 DEF TypeOK, Control, Issued, IssuedAside, Others, PostCancel, Virgin
<1>22. ASSUME NEW failed \in BOOLEAN, PostSend(t, failed)
       PROVE  IssuedAside(t)
  BY <1>22 DEF TypeOK, Control, Issued, IssuedAside, Others, PostSend, Virgin, Lifetime,
     NoUseAfterRelease
<1>23. CASE Drop2(t)
  BY <1>23 DEF TypeOK, Control, Issued, IssuedAside, Others, Drop2, Virgin
<1>24. CASE RpInc(t)
  BY <1>24 DEF TypeOK, Control, Issued, IssuedAside, Others, RpInc, Virgin
<1>25. CASE RpCancel(t)
  BY <1>25 DEF TypeOK, Control, Issued, IssuedAside, Others, RpCancel, Virgin
<1>26. ASSUME NEW failed \in BOOLEAN, RpIssue(t, failed)
       PROVE  IssuedAside(t)
  BY <1>26 DEF TypeOK, Control, Issued, IssuedAside, Others, RpIssue, Virgin, Lifetime,
     NoUseAfterRelease
<1>27. CASE RpFail(t)
  BY <1>27 DEF TypeOK, Control, Issued, IssuedAside, Others, RpFail, Virgin
<1> QED BY <1>1, <1>2, <1>3, <1>4, <1>5, <1>6, <1>7, <1>8, <1>9, <1>10, <1>11, <1>12, <1>13,
           <1>14, <1>15, <1>16, <1>17, <1>18, <1>19, <1>20, <1>21, <1>22, <1>23, <1>24, <1>25,
           <1>26, <1>27 DEF Routine

(* The same for the actions of the accept thread. *)
LEMMA AcceptIssued ==
  ASSUME TypeOK, Control, Issued, IssuedJobs, Lifetime, Accept
  PROVE  IssuedAside(Acceptor) \/ Issued'
<1>1. ASSUME NEW s \in Slots, AccPop(s)
      PROVE  IssuedAside(Acceptor) \/ Issued'
  BY <1>1 DEF TypeOK, Control, Issued, IssuedAside, Others, AccPop, Virgin
<1>2. CASE AccId
  BY <1>2, AccIdIssued
<1>3. CASE AccFlag
  BY <1>3 DEF TypeOK, Control, Issued, IssuedAside, Others, AccFlag, Virgin
<1>4. CASE AccUsed
  BY <1>4 DEF TypeOK, Control, Issued, IssuedAside, Others, AccUsed, Virgin
<1>5. CASE AccAttachFail
  BY <1>5 DEF TypeOK, Control, Issued, IssuedAside, Others, AccAttachFail, Virgin
<1>6. CASE AccJoin
  BY <1>6 DEF TypeOK, Control, Issued, IssuedAside, Others, AccJoin, Virgin
<1>7. ASSUME NEW failed \in BOOLEAN, AccRecv(failed)
      PROVE  IssuedAside(Acceptor) \/ Issued'
  BY <1>7 DEF TypeOK, Control, Issued, IssuedAside, Others, AccRecv, Virgin, Lifetime,
     NoUseAfterRelease
<1>8. CASE AccFail
  BY <1>8 DEF TypeOK, Control, Issued, IssuedAside, Others, AccFail, Virgin, Lifetime,
     NoUseAfterRelease
<1> QED BY <1>1, <1>2, <1>3, <1>4, <1>5, <1>6, <1>7, <1>8 DEF Accept

(* The same for the actions of a worker. *)
LEMMA WorkIssued ==
  ASSUME TypeOK, Control, Issued, IssuedJobs, Lifetime, NEW w \in Workers, Work(w)
  PROVE  IssuedAside(w)
<1>1. ASSUME NEW s \in Slots, GetRecv(w, s)
      PROVE  IssuedAside(w)
  BY <1>1 DEF TypeOK, Control, Issued, IssuedAside, Others, GetRecv, Virgin, Lifetime,
     NoUseAfterRelease
<1>2. ASSUME NEW s \in Slots, GetSend(w, s)
      PROVE  IssuedAside(w)
  BY <1>2 DEF TypeOK, Control, Issued, IssuedAside, Others, GetSend, Virgin, Lifetime,
     NoUseAfterRelease
<1>3. ASSUME NEW i \in Ids, GetPost(w, i)
      PROVE  IssuedAside(w)
  BY <1>3 DEF TypeOK, Control, Issued, IssuedAside, Others, GetPost, Virgin
<1>4. ASSUME NEW kind \in Kinds, RecvMessage(w, kind)
      PROVE  IssuedAside(w)
  BY <1>4 DEF TypeOK, Control, Issued, IssuedAside, Others, RecvMessage, Virgin
<1>5. CASE RecvGarbage(w)
  BY SMTT(30), <1>5, NotVirgin DEF TypeOK, Control, Issued, IssuedAside, Others, RecvGarbage, Virgin
<1>6. CASE RecvDone(w)
  BY <1>6 DEF TypeOK, Control, Issued, IssuedAside, Others, RecvDone, Virgin
<1>7. CASE SendComplete(w)
  BY SMTT(30), <1>7, NotVirgin DEF TypeOK, Control, Issued, IssuedAside, Others, SendComplete, Virgin
<1>8. CASE Final(w)
  BY <1>8 DEF TypeOK, Control, Issued, IssuedAside, Others, Final, Virgin
<1> QED BY <1>1, <1>2, <1>3, <1>4, <1>5, <1>6, <1>7, <1>8 DEF Work

(* The same for the actions of the update thread. *)
LEMMA UpdateIssued ==
  ASSUME TypeOK, Control, Issued, IssuedJobs, Lifetime, Update
  PROVE  IssuedAside(Updater)
<1>1. CASE CreateNewUser
  BY <1>1, HeadIssued DEF TypeOK, Control, Issued, IssuedAside, Others, CreateNewUser, Virgin
<1>2. CASE DeleteUser
  BY <1>2 DEF TypeOK, Control, Issued, IssuedAside, Others, DeleteUser, Virgin
<1>3. CASE TimeOut
  BY <1>3, HeadIssued DEF TypeOK, Control, Issued, IssuedAside, Others, TimeOut, Virgin
<1>4. CASE BadMessage
  BY <1>4, HeadIssued DEF TypeOK, Control, Issued, IssuedAside, Others, BadMessage, Virgin
<1>5. ASSUME NEW recipients \in SUBSET clients, ChatMessage(recipients)
      PROVE  IssuedAside(Updater)
  BY SMTT(30), <1>5, HeadIssued DEF TypeOK, Control, Issued, IssuedAside, Others, ChatMessage, Virgin
<1>6. ASSUME NEW i \in Ids, SendNext(i)
      PROVE  IssuedAside(Updater)
  BY <1>6 DEF TypeOK, Control, Issued, IssuedAside, Others, SendNext, Virgin
<1> QED BY <1>1, <1>2, <1>3, <1>4, <1>5, <1>6 DEF Update

(* The same for the actions of the monitor thread. *)
LEMMA WatchIssued ==
  ASSUME TypeOK, Control, Issued, IssuedJobs, Lifetime, Watch
  PROVE  IssuedAside(Monitor)
<1>1. ASSUME NEW s \in Slots, MonUsed(s)
      PROVE  IssuedAside(Monitor)
  BY <1>1 DEF TypeOK, Control, Issued, IssuedAside, Others, MonUsed, Virgin
<1>2. CASE MonId
  BY SMTT(30), <1>2, NotVirgin DEF TypeOK, Control, Issued, IssuedAside, Others, MonId, Virgin
<1>3. ASSUME NEW late \in BOOLEAN, MonExpire(late)
      PROVE  IssuedAside(Monitor)
  BY <1>3 DEF TypeOK, Control, Issued, IssuedAside, Others, MonExpire, Virgin
<1> QED BY <1>1, <1>2, <1>3 DEF Watch

(* The same for the actions of the kernel and the clients. *)
LEMMA KernelIssued ==
  ASSUME TypeOK, Control, Issued, IssuedJobs, Lifetime, Kernel
  PROVE  IssuedAside(Acceptor)
<1>1. ASSUME NEW s \in Slots, NEW how \in Closings, PeerClose(s, how)
      PROVE  IssuedAside(Acceptor)
  BY <1>1 DEF TypeOK, Control, Issued, IssuedAside, Others, PeerClose, Virgin
<1>2. ASSUME NEW s \in Slots, NEW result \in {"data", "fail", "eof"}, RecvComplete(s, result)
      PROVE  IssuedAside(Acceptor)
  BY <1>2 DEF TypeOK, Control, Issued, IssuedAside, Others, RecvComplete, Virgin, Lifetime,
     NoUseAfterRelease
<1>3. ASSUME NEW s \in Slots, SendDone(s)
      PROVE  IssuedAside(Acceptor)
  BY <1>3 DEF TypeOK, Control, Issued, IssuedAside, Others, SendDone, Virgin, Lifetime,
     NoUseAfterRelease
<1> QED BY <1>1, <1>2, <1>3 DEF Kernel

(* Every step keeps Issued. *)
LEMMA IssuedStep ==
  ASSUME TypeOK, Control, Issued, IssuedJobs, Lifetime, [Next]_vars
  PROVE  Issued'
<1>1. CASE Crashes \/ UNCHANGED vars
  <2>1. IssuedAside(Acceptor)
    BY <1>1 DEF Crashes, vars, IssuedAside, Others, Issued, Virgin
  <2> QED BY <2>1, IssuedFrame
<1>2. CASE Kernel
  BY <1>2, KernelIssued, IssuedFrame
<1>3. ASSUME NEW t \in Threads, ThreadStep(t)
      PROVE  Issued'
  BY <1>3, IssuedFrame, RoutineIssued, AcceptIssued, WorkIssued, UpdateIssued,
     WatchIssued DEF ThreadStep
<1> QED BY <1>1, <1>2, <1>3 DEF Next

(* The actions that touch m_ThreadQ keep IssuedJobs. *)
LEMMA RelLeaveIssuedJobs ==
  ASSUME TypeOK, Control, Issued, IssuedJobs, NEW t \in Threads, RelLeave(t)
  PROVE  IssuedJobs'
<1>1. gone[t] \in Ids
  BY DEF TypeOK
<1>2. Append(jobs, [type |-> "leave", id |-> gone[t], kind |-> "none"]) \in Seq(IssuedJob)
  BY <1>1, EnqueueIssued
<1> QED BY <1>2 DEF IssuedJobs, RelLeave

(* AccJoin keeps IssuedJobs. *)
LEMMA AccJoinIssuedJobs ==
  ASSUME TypeOK, Control, Issued, IssuedJobs, AccJoin
  PROVE  IssuedJobs'
<1>1. id[cur[Acceptor]] \in Ids /\ id[cur[Acceptor]][2] > 0
  BY DEF TypeOK, Issued, Virgin, Ids, AccJoin
<1>2. Append(jobs, [type |-> "join", id |-> id[cur[Acceptor]], kind |-> "none"]) \in Seq(IssuedJob)
  BY <1>1, EnqueueIssued
<1> QED BY <1>2 DEF IssuedJobs, AccJoin

(* RecvMessage keeps IssuedJobs. *)
LEMMA RecvMessageIssuedJobs ==
  ASSUME TypeOK, Control, Issued, IssuedJobs, NEW w \in Workers, NEW kind \in Kinds,
         RecvMessage(w, kind)
  PROVE  IssuedJobs'
<1>1. cur[w] \in Slots /\ ~Virgin(cur[w])
  BY DEF TypeOK, Control, Issued, RecvMessage
<1>2. id[cur[w]] \in Ids /\ id[cur[w]][2] > 0
  BY <1>1, NotVirgin
<1>3. Append(jobs, [type |-> "message", id |-> id[cur[w]], kind |-> kind]) \in Seq(IssuedJob)
  BY <1>2, EnqueueIssued
<1> QED BY <1>3 DEF IssuedJobs, RecvMessage

(* CreateNewUser keeps IssuedJobs. *)
LEMMA CreateNewUserIssuedJobs ==
  ASSUME TypeOK, Control, Issued, IssuedJobs, CreateNewUser
  PROVE  IssuedJobs'
  BY HeadIssued DEF IssuedJobs, CreateNewUser

(* DeleteUser keeps IssuedJobs. *)
LEMMA DeleteUserIssuedJobs ==
  ASSUME TypeOK, Control, Issued, IssuedJobs, DeleteUser
  PROVE  IssuedJobs'
  BY HeadIssued DEF IssuedJobs, DeleteUser

(* TimeOut keeps IssuedJobs. *)
LEMMA TimeOutIssuedJobs ==
  ASSUME TypeOK, Control, Issued, IssuedJobs, TimeOut
  PROVE  IssuedJobs'
  BY HeadIssued DEF IssuedJobs, TimeOut

(* BadMessage keeps IssuedJobs. *)
LEMMA BadMessageIssuedJobs ==
  ASSUME TypeOK, Control, Issued, IssuedJobs, BadMessage
  PROVE  IssuedJobs'
  BY HeadIssued DEF IssuedJobs, BadMessage

(* ChatMessage keeps IssuedJobs. *)
LEMMA ChatMessageIssuedJobs ==
  ASSUME TypeOK, Control, Issued, IssuedJobs, NEW recipients \in SUBSET clients,
         ChatMessage(recipients)
  PROVE  IssuedJobs'
  BY HeadIssued DEF IssuedJobs, ChatMessage

(* MonExpire keeps IssuedJobs. *)
LEMMA MonExpireIssuedJobs ==
  ASSUME TypeOK, Control, Issued, IssuedJobs, Lifetime, NEW late \in BOOLEAN, MonExpire(late)
  PROVE  IssuedJobs'
<1>1. id[cur[Monitor]] \in Ids /\ id[cur[Monitor]][2] > 0
  BY DEF TypeOK, Issued, Lifetime, NoUseAfterRelease, Ids, MonExpire
<1>2. Append(jobs, [type |-> "timeout", id |-> id[cur[Monitor]], kind |-> "none"]) \in Seq(IssuedJob)
  BY <1>1, EnqueueIssued
<1> QED BY <1>2 DEF IssuedJobs, MonExpire

(* Every group of actions keeps IssuedJobs. *)
LEMMA RoutineIssuedJobs ==
  ASSUME TypeOK, Control, Issued, IssuedJobs, Lifetime, NEW t \in Threads, Routine(t),
         UNCHANGED <<upd, net>>
  PROVE  IssuedJobs'
<1>1. CASE AcqInc(t)
  BY <1>1 DEF IssuedJobs, AcqInc
<1>2. CASE AcqFlag(t)
  BY <1>2 DEF IssuedJobs, AcqFlag
<1>3. CASE AcqId(t)
  BY <1>3 DEF IssuedJobs, AcqId
<1>4. CASE AcqFail(t)
  BY <1>4 DEF IssuedJobs, AcqFail
<1>5. CASE Drop(t)
  BY <1>5 DEF IssuedJobs, Drop
<1>6. CASE RelCas(t)
  BY <1>6 DEF IssuedJobs, RelCas
<1>7. CASE RelPackets(t)
  BY <1>7 DEF IssuedJobs, RelPackets
<1>8. CASE RelClear(t)
  BY <1>8 DEF IssuedJobs, RelClear
<1>9. CASE RelPush(t)
  BY <1>9 DEF IssuedJobs, RelPush
<1>10. CASE RelLeave(t)
  BY <1>10, RelLeaveIssuedJobs
<1>11. CASE Cancel(t)
  BY <1>11 DEF IssuedJobs, Cancel
<1>12. CASE EnQ(t)
  BY <1>12 DEF IssuedJobs, EnQ
<1>13. CASE Pqcs(t)
  BY <1>13 DEF IssuedJobs, Pqcs
<1>14. CASE Mark(t)
  BY <1>14 DEF IssuedJobs, Mark
<1>15. CASE PostFlag(t)
  BY <1>15 DEF IssuedJobs, PostFlag
<1>16. CASE PostCount(t)
  BY <1>16 DEF IssuedJobs, PostCount
<1>17. CASE PostUnflag(t)
  BY <1>17 DEF IssuedJobs, PostUnflag
<1>18. CASE PostRecheck(t)
  BY <1>18 DEF IssuedJobs, PostRecheck
<1>19. CASE PostInc(t)
  BY <1>19 DEF IssuedJobs, PostInc
<1>20. CASE PostDeq(t)
  BY <1>20 DEF IssuedJobs, PostDeq
<1>21. CASE PostCancel(t)
  BY <1>21 DEF IssuedJobs, PostCancel
<1>22. ASSUME NEW failed \in BOOLEAN, PostSend(t, failed)
       PROVE  IssuedJobs'
  BY <1>22 DEF IssuedJobs, PostSend
<1>23. CASE Drop2(t)
  BY <1>23 DEF IssuedJobs, Drop2
<1>24. CASE RpInc(t)
  BY <1>24 DEF IssuedJobs, RpInc
<1>25. CASE RpCancel(t)
  BY <1>25 DEF IssuedJobs, RpCancel
<1>26. ASSUME NEW failed \in BOOLEAN, RpIssue(t, failed)
       PROVE  IssuedJobs'
  BY <1>26 DEF IssuedJobs, RpIssue
<1>27. CASE RpFail(t)
  BY <1>27 DEF IssuedJobs, RpFail
<1> QED BY <1>1, <1>2, <1>3, <1>4, <1>5, <1>6, <1>7, <1>8, <1>9, <1>10, <1>11, <1>12, <1>13,
           <1>14, <1>15, <1>16, <1>17, <1>18, <1>19, <1>20, <1>21, <1>22, <1>23, <1>24, <1>25,
           <1>26, <1>27 DEF Routine

(* The same for the actions of the accept thread. *)
LEMMA AcceptIssuedJobs ==
  ASSUME TypeOK, Control, Issued, IssuedJobs, Lifetime, Accept
  PROVE  IssuedJobs'
<1>1. ASSUME NEW s \in Slots, AccPop(s)
      PROVE  IssuedJobs'
  BY <1>1 DEF IssuedJobs, AccPop
<1>2. CASE AccId
  BY <1>2 DEF IssuedJobs, AccId
<1>3. CASE AccFlag
  BY <1>3 DEF IssuedJobs, AccFlag
<1>4. CASE AccUsed
  BY <1>4 DEF IssuedJobs, AccUsed
<1>5. CASE AccAttachFail
  BY <1>5 DEF IssuedJobs, AccAttachFail
<1>6. CASE AccJoin
  BY <1>6, AccJoinIssuedJobs
<1>7. ASSUME NEW failed \in BOOLEAN, AccRecv(failed)
      PROVE  IssuedJobs'
  BY <1>7 DEF IssuedJobs, AccRecv
<1>8. CASE AccFail
  BY <1>8 DEF IssuedJobs, AccFail
<1> QED BY <1>1, <1>2, <1>3, <1>4, <1>5, <1>6, <1>7, <1>8 DEF Accept

(* The same for the actions of a worker. *)
LEMMA WorkIssuedJobs ==
  ASSUME TypeOK, Control, Issued, IssuedJobs, Lifetime, NEW w \in Workers, Work(w)
  PROVE  IssuedJobs'
<1>1. ASSUME NEW s \in Slots, GetRecv(w, s)
      PROVE  IssuedJobs'
  BY <1>1 DEF IssuedJobs, GetRecv
<1>2. ASSUME NEW s \in Slots, GetSend(w, s)
      PROVE  IssuedJobs'
  BY <1>2 DEF IssuedJobs, GetSend
<1>3. ASSUME NEW i \in Ids, GetPost(w, i)
      PROVE  IssuedJobs'
  BY <1>3 DEF IssuedJobs, GetPost
<1>4. ASSUME NEW kind \in Kinds, RecvMessage(w, kind)
      PROVE  IssuedJobs'
  BY <1>4, RecvMessageIssuedJobs
<1>5. CASE RecvGarbage(w)
  BY <1>5 DEF IssuedJobs, RecvGarbage
<1>6. CASE RecvDone(w)
  BY <1>6 DEF IssuedJobs, RecvDone
<1>7. CASE SendComplete(w)
  BY <1>7 DEF IssuedJobs, SendComplete
<1>8. CASE Final(w)
  BY <1>8 DEF IssuedJobs, Final
<1> QED BY <1>1, <1>2, <1>3, <1>4, <1>5, <1>6, <1>7, <1>8 DEF Work

(* The same for the actions of the update thread. *)
LEMMA UpdateIssuedJobs ==
  ASSUME TypeOK, Control, Issued, IssuedJobs, Lifetime, Update
  PROVE  IssuedJobs'
<1>1. CASE CreateNewUser
  BY <1>1, CreateNewUserIssuedJobs
<1>2. CASE DeleteUser
  BY <1>2, DeleteUserIssuedJobs
<1>3. CASE TimeOut
  BY <1>3, TimeOutIssuedJobs
<1>4. CASE BadMessage
  BY <1>4, BadMessageIssuedJobs
<1>5. ASSUME NEW recipients \in SUBSET clients, ChatMessage(recipients)
      PROVE  IssuedJobs'
  BY <1>5, ChatMessageIssuedJobs
<1>6. ASSUME NEW i \in Ids, SendNext(i)
      PROVE  IssuedJobs'
  BY <1>6 DEF IssuedJobs, SendNext
<1> QED BY <1>1, <1>2, <1>3, <1>4, <1>5, <1>6 DEF Update

(* The same for the actions of the monitor thread. *)
LEMMA WatchIssuedJobs ==
  ASSUME TypeOK, Control, Issued, IssuedJobs, Lifetime, Watch
  PROVE  IssuedJobs'
<1>1. ASSUME NEW s \in Slots, MonUsed(s)
      PROVE  IssuedJobs'
  BY <1>1 DEF IssuedJobs, MonUsed
<1>2. CASE MonId
  BY <1>2 DEF IssuedJobs, MonId
<1>3. ASSUME NEW late \in BOOLEAN, MonExpire(late)
      PROVE  IssuedJobs'
  BY <1>3, MonExpireIssuedJobs
<1> QED BY <1>1, <1>2, <1>3 DEF Watch

(* The same for the actions of the kernel and the clients. *)
LEMMA KernelIssuedJobs ==
  ASSUME TypeOK, Control, Issued, IssuedJobs, Lifetime, Kernel
  PROVE  IssuedJobs'
<1>1. ASSUME NEW s \in Slots, NEW how \in Closings, PeerClose(s, how)
      PROVE  IssuedJobs'
  BY <1>1 DEF IssuedJobs, PeerClose
<1>2. ASSUME NEW s \in Slots, NEW result \in {"data", "fail", "eof"}, RecvComplete(s, result)
      PROVE  IssuedJobs'
  BY <1>2 DEF IssuedJobs, RecvComplete
<1>3. ASSUME NEW s \in Slots, SendDone(s)
      PROVE  IssuedJobs'
  BY <1>3 DEF IssuedJobs, SendDone
<1> QED BY <1>1, <1>2, <1>3 DEF Kernel

(* Every step keeps IssuedJobs. *)
LEMMA IssuedJobsStep ==
  ASSUME TypeOK, Control, Issued, IssuedJobs, Lifetime, [Next]_vars
  PROVE  IssuedJobs'
<1>1. CASE Crashes
  BY <1>1 DEF IssuedJobs, Crashes
<1>2. CASE UNCHANGED vars
  BY <1>2 DEF IssuedJobs, vars
<1> QED BY <1>1, <1>2, RoutineIssuedJobs, AcceptIssuedJobs, WorkIssuedJobs, UpdateIssuedJobs,
           WatchIssuedJobs, KernelIssuedJobs DEF Next, ThreadStep

-----------------------------------------------------------------------------
(* The types *)

(* The accept thread is about to hand out a serial that exists. *)
SerialLeft == pc[Acceptor] = "acc_id" => serial < MaxSerial

(* The inductive form of TypeOK. *)
TypeInv == TypeOK /\ SerialLeft

USE ThreadAssumption, BoundAssumption, ClientAssumption DEF Threads, ref, ctl, snd, srv, loc,
     upd, net

(* The first job of the queue names a session ID. *)
LEMMA HeadJob ==
  ASSUME TypeOK, jobs # <<>>
  PROVE  Head(jobs).id \in Ids
<1>1. Head(jobs) \in Job
  BY DEF TypeOK
<1> QED BY <1>1 DEF Job

(* What Enqueue appends keeps the type of m_ThreadQ. *)
LEMMA MessageJob ==
  ASSUME NEW i \in Ids, NEW type \in {"join", "message", "timeout", "leave"},
         NEW kind \in Kinds \cup {"none"}, TypeOK
  PROVE  Append(jobs, [type |-> type, id |-> i, kind |-> kind]) \in Seq(Job)
<1>1. [type |-> type, id |-> i, kind |-> kind] \in Job
  BY DEF Job
<1> QED BY <1>1 DEF TypeOK

(* AcqInc keeps the types. *)
LEMMA AcqIncTypes ==
  ASSUME TypeInv, NEW t \in Threads, AcqInc(t), UNCHANGED <<upd, net>>
  PROVE  TypeInv'
<1>1. ioCount' \in [Slots -> Int]
  BY DEF TypeInv, TypeOK, AcqInc, Increment
<1>2. pc' \in [Threads -> Places]
  BY DEF TypeInv, TypeOK, AcqInc, Goto, Places, HoldPlaces, Bodies
<1>3. SerialLeft'
  BY DEF TypeInv, TypeOK, SerialLeft, AcqInc, Goto, Bodies
<1> QED BY <1>1, <1>2, <1>3 DEF TypeInv, TypeOK, AcqInc, At

(* AcqFlag keeps the types. *)
LEMMA AcqFlagTypes ==
  ASSUME TypeInv, NEW t \in Threads, AcqFlag(t), UNCHANGED <<upd, net>>
  PROVE  TypeInv'
<1>1. pc' \in [Threads -> Places]
  BY DEF TypeInv, TypeOK, AcqFlag, Goto, Places, HoldPlaces, Bodies
<1>2. SerialLeft'
  BY DEF TypeInv, TypeOK, SerialLeft, AcqFlag, Goto, Bodies
<1> QED BY <1>1, <1>2 DEF TypeInv, TypeOK, AcqFlag, At

(* AcqId keeps the types. *)
LEMMA AcqIdTypes ==
  ASSUME TypeInv, NEW t \in Threads, AcqId(t), UNCHANGED <<upd, net>>
  PROVE  TypeInv'
<1>1. pc' \in [Threads -> Places]
  BY DEF TypeInv, TypeOK, AcqId, Goto, Places, HoldPlaces, Bodies
<1>2. SerialLeft'
  BY DEF TypeInv, TypeOK, SerialLeft, AcqId, Goto, Bodies
<1> QED BY <1>1, <1>2 DEF TypeInv, TypeOK, AcqId, At

(* AcqFail keeps the types. *)
LEMMA AcqFailTypes ==
  ASSUME TypeInv, NEW t \in Threads, AcqFail(t), UNCHANGED <<upd, net>>
  PROVE  TypeInv'
<1>1. ioCount' \in [Slots -> Int]
  BY DEF TypeInv, TypeOK, AcqFail, Decrement
<1>2. pc' \in [Threads -> Places]
  BY DEF TypeInv, TypeOK, AcqFail, Decrement, Goto, After, Places, HoldPlaces, Bodies
<1>3. SerialLeft'
  BY DEF TypeInv, TypeOK, SerialLeft, AcqFail, Decrement, Goto, After, Bodies
<1> QED BY <1>1, <1>2, <1>3 DEF TypeInv, TypeOK, AcqFail, At

(* Drop keeps the types. *)
LEMMA DropTypes ==
  ASSUME TypeInv, NEW t \in Threads, Drop(t), UNCHANGED <<upd, net>>
  PROVE  TypeInv'
<1>1. ioCount' \in [Slots -> Int]
  BY DEF TypeInv, TypeOK, Drop, Decrement
<1>2. pc' \in [Threads -> Places]
  BY DEF TypeInv, TypeOK, Drop, Decrement, Goto, Places, HoldPlaces, Bodies
<1>3. nxt' \in [Threads -> {"ret", "pqcs", "drop"}]
  BY DEF TypeInv, TypeOK, Drop
<1>4. SerialLeft'
  BY DEF TypeInv, TypeOK, SerialLeft, Drop, Decrement, Goto, Bodies
<1> QED BY <1>1, <1>2, <1>3, <1>4 DEF TypeInv, TypeOK, Drop, At

(* RelCas keeps the types. *)
LEMMA RelCasTypes ==
  ASSUME TypeInv, NEW t \in Threads, RelCas(t), UNCHANGED <<upd, net>>
  PROVE  TypeInv'
<1>1. released' \in [Slots -> BOOLEAN]
  BY DEF TypeInv, TypeOK, RelCas
<1>2. pc' \in [Threads -> Places]
  BY DEF TypeInv, TypeOK, RelCas, Goto, After, Places, HoldPlaces, Bodies
<1>3. SerialLeft'
  BY DEF TypeInv, TypeOK, SerialLeft, RelCas, Goto, After, Bodies
<1> QED BY <1>1, <1>2, <1>3 DEF TypeInv, TypeOK, RelCas, At

(* RelPackets keeps the types. *)
LEMMA RelPacketsTypes ==
  ASSUME TypeInv, NEW t \in Threads, RelPackets(t), UNCHANGED <<upd, net>>
  PROVE  TypeInv'
<1>1. sendQ' \in [Slots -> Nat]
  BY DEF TypeInv, TypeOK, RelPackets
<1>2. inflight' \in [Slots -> Nat]
  BY DEF TypeInv, TypeOK, RelPackets, DeQPacket
<1>3. pc' \in [Threads -> Places]
  BY DEF TypeInv, TypeOK, RelPackets, Goto, Places, HoldPlaces, Bodies
<1>4. gone' \in [Threads -> Ids]
  BY DEF TypeInv, TypeOK, RelPackets
<1>5. SerialLeft'
  BY DEF TypeInv, TypeOK, SerialLeft, RelPackets, Goto, Bodies
<1>6. first' \in [Slots -> FirstEntries]
  BY DEF TypeInv, TypeOK, RelPackets, DeQPacket, FirstEntries
<1> QED BY <1>1, <1>2, <1>3, <1>4, <1>5, <1>6 DEF TypeInv, TypeOK, RelPackets, At

(* RelClear keeps the types. *)
LEMMA RelClearTypes ==
  ASSUME TypeInv, NEW t \in Threads, RelClear(t), UNCHANGED <<upd, net>>
  PROVE  TypeInv'
<1>1. ioCount' \in [Slots -> Int]
  BY DEF TypeInv, TypeOK, RelClear, Increment
<1>2. used' \in [Slots -> BOOLEAN]
  BY DEF TypeInv, TypeOK, RelClear
<1>3. cancel' \in [Slots -> BOOLEAN]
  BY DEF TypeInv, TypeOK, RelClear
<1>4. reserve' \in [Slots -> BOOLEAN]
  BY DEF TypeInv, TypeOK, RelClear
<1>5. sendFlag' \in [Slots -> BOOLEAN]
  BY DEF TypeInv, TypeOK, RelClear
<1>6. recvIO' \in [Slots -> RecvStates]
  BY DEF TypeInv, TypeOK, RelClear, RecvStates
<1>7. pc' \in [Threads -> Places]
  BY DEF TypeInv, TypeOK, RelClear, Goto, Places, HoldPlaces, Bodies
<1>8. SerialLeft'
  BY DEF TypeInv, TypeOK, SerialLeft, RelClear, Goto, Bodies
<1> QED BY <1>1, <1>2, <1>3, <1>4, <1>5, <1>6, <1>7, <1>8 DEF TypeInv, TypeOK, RelClear, At

(* RelPush keeps the types. *)
LEMMA RelPushTypes ==
  ASSUME TypeInv, NEW t \in Threads, RelPush(t), UNCHANGED <<upd, net>>
  PROVE  TypeInv'
<1>1. freeIdx' \in SUBSET Slots
  BY DEF TypeInv, TypeOK, RelPush
<1>2. pc' \in [Threads -> Places]
  BY DEF TypeInv, TypeOK, RelPush, Goto, Places, HoldPlaces, Bodies
<1>3. SerialLeft'
  BY DEF TypeInv, TypeOK, SerialLeft, RelPush, Goto, Bodies
<1> QED BY <1>1, <1>2, <1>3 DEF TypeInv, TypeOK, RelPush, At

(* RelLeave keeps the types. *)
LEMMA RelLeaveTypes ==
  ASSUME TypeInv, NEW t \in Threads, RelLeave(t), UNCHANGED <<upd, net>>
  PROVE  TypeInv'
<1>1. jobs' \in Seq(Job)
  BY DEF TypeInv, TypeOK, RelLeave, Enqueue, Job
<1>2. pc' \in [Threads -> Places]
  BY DEF TypeInv, TypeOK, RelLeave, Goto, After, Places, HoldPlaces, Bodies
<1>3. SerialLeft'
  BY DEF TypeInv, TypeOK, SerialLeft, RelLeave, Goto, After, Bodies
<1> QED BY <1>1, <1>2, <1>3 DEF TypeInv, TypeOK, RelLeave, At

(* Cancel keeps the types. *)
LEMMA CancelTypes ==
  ASSUME TypeInv, NEW t \in Threads, Cancel(t), UNCHANGED <<upd, net>>
  PROVE  TypeInv'
<1>1. cancel' \in [Slots -> BOOLEAN]
  BY DEF TypeInv, TypeOK, Cancel
<1>2. recvIO' \in [Slots -> RecvStates]
  BY DEF TypeInv, TypeOK, Cancel, Cancelled, RecvStates
<1>3. sendIO' \in [Slots -> SendStates]
  BY DEF TypeInv, TypeOK, Cancel, Cancelled, SendStates
<1>4. pc' \in [Threads -> Places]
  BY DEF TypeInv, TypeOK, Cancel, Goto, Places, HoldPlaces, Bodies
<1>5. SerialLeft'
  BY DEF TypeInv, TypeOK, SerialLeft, Cancel, Goto, Bodies
<1> QED BY <1>1, <1>2, <1>3, <1>4, <1>5 DEF TypeInv, TypeOK, Cancel, At

(* EnQ keeps the types. *)
LEMMA EnQTypes ==
  ASSUME TypeInv, NEW t \in Threads, EnQ(t), UNCHANGED <<upd, net>>
  PROVE  TypeInv'
<1>1. sendQ' \in [Slots -> Nat]
  BY DEF TypeInv, TypeOK, EnQ
<1>2. pc' \in [Threads -> Places]
  BY DEF TypeInv, TypeOK, EnQ, Goto, Places, HoldPlaces, Bodies
<1>3. nxt' \in [Threads -> {"ret", "pqcs", "drop"}]
  BY DEF TypeInv, TypeOK, EnQ
<1>4. SerialLeft'
  BY DEF TypeInv, TypeOK, SerialLeft, EnQ, Goto, Bodies
<1> QED BY <1>1, <1>2, <1>3, <1>4 DEF TypeInv, TypeOK, EnQ, At

(* Pqcs keeps the types. *)
LEMMA PqcsTypes ==
  ASSUME TypeInv, NEW t \in Threads, Pqcs(t), UNCHANGED <<upd, net>>
  PROVE  TypeInv'
<1>1. posts' \in [Ids -> Nat]
  BY DEF TypeInv, TypeOK, Pqcs
<1>2. pc' \in [Threads -> Places]
  BY DEF TypeInv, TypeOK, Pqcs, Goto, Places, HoldPlaces, Bodies
<1>3. nxt' \in [Threads -> {"ret", "pqcs", "drop"}]
  BY DEF TypeInv, TypeOK, Pqcs
<1>4. SerialLeft'
  BY DEF TypeInv, TypeOK, SerialLeft, Pqcs, Goto, Bodies
<1> QED BY <1>1, <1>2, <1>3, <1>4 DEF TypeInv, TypeOK, Pqcs, At

(* Mark keeps the types. *)
LEMMA MarkTypes ==
  ASSUME TypeInv, NEW t \in Threads, Mark(t), UNCHANGED <<upd, net>>
  PROVE  TypeInv'
<1>1. reserve' \in [Slots -> BOOLEAN]
  BY DEF TypeInv, TypeOK, Mark
<1>2. pc' \in [Threads -> Places]
  BY DEF TypeInv, TypeOK, Mark, Goto, Places, HoldPlaces, Bodies
<1>3. SerialLeft'
  BY DEF TypeInv, TypeOK, SerialLeft, Mark, Goto, Bodies
<1> QED BY <1>1, <1>2, <1>3 DEF TypeInv, TypeOK, Mark, At

(* PostFlag keeps the types. *)
LEMMA PostFlagTypes ==
  ASSUME TypeInv, NEW t \in Threads, PostFlag(t), UNCHANGED <<upd, net>>
  PROVE  TypeInv'
<1>1. sendFlag' \in [Slots -> BOOLEAN]
  BY DEF TypeInv, TypeOK, PostFlag
<1>2. pc' \in [Threads -> Places]
  BY DEF TypeInv, TypeOK, PostFlag, Goto, Places, HoldPlaces, Bodies
<1>3. SerialLeft'
  BY DEF TypeInv, TypeOK, SerialLeft, PostFlag, Goto, Bodies
<1> QED BY <1>1, <1>2, <1>3 DEF TypeInv, TypeOK, PostFlag, At

(* PostCount keeps the types. *)
LEMMA PostCountTypes ==
  ASSUME TypeInv, NEW t \in Threads, PostCount(t), UNCHANGED <<upd, net>>
  PROVE  TypeInv'
<1>1. pc' \in [Threads -> Places]
  BY DEF TypeInv, TypeOK, PostCount, Goto, Places, HoldPlaces, Bodies
<1>2. SerialLeft'
  BY DEF TypeInv, TypeOK, SerialLeft, PostCount, Goto, Bodies
<1> QED BY <1>1, <1>2 DEF TypeInv, TypeOK, PostCount, At

(* PostUnflag keeps the types. *)
LEMMA PostUnflagTypes ==
  ASSUME TypeInv, NEW t \in Threads, PostUnflag(t), UNCHANGED <<upd, net>>
  PROVE  TypeInv'
<1>1. sendFlag' \in [Slots -> BOOLEAN]
  BY DEF TypeInv, TypeOK, PostUnflag
<1>2. pc' \in [Threads -> Places]
  BY DEF TypeInv, TypeOK, PostUnflag, Goto, Places, HoldPlaces, Bodies
<1>3. SerialLeft'
  BY DEF TypeInv, TypeOK, SerialLeft, PostUnflag, Goto, Bodies
<1> QED BY <1>1, <1>2, <1>3 DEF TypeInv, TypeOK, PostUnflag, At

(* PostRecheck keeps the types. *)
LEMMA PostRecheckTypes ==
  ASSUME TypeInv, NEW t \in Threads, PostRecheck(t), UNCHANGED <<upd, net>>
  PROVE  TypeInv'
<1>1. pc' \in [Threads -> Places]
  BY DEF TypeInv, TypeOK, PostRecheck, Goto, Places, HoldPlaces, Bodies
<1>2. SerialLeft'
  BY DEF TypeInv, TypeOK, SerialLeft, PostRecheck, Goto, Bodies
<1> QED BY <1>1, <1>2 DEF TypeInv, TypeOK, PostRecheck, At

(* PostInc keeps the types. *)
LEMMA PostIncTypes ==
  ASSUME TypeInv, NEW t \in Threads, PostInc(t), UNCHANGED <<upd, net>>
  PROVE  TypeInv'
<1>1. ioCount' \in [Slots -> Int]
  BY DEF TypeInv, TypeOK, PostInc, Increment
<1>2. pc' \in [Threads -> Places]
  BY DEF TypeInv, TypeOK, PostInc, Goto, Places, HoldPlaces, Bodies
<1>3. SerialLeft'
  BY DEF TypeInv, TypeOK, SerialLeft, PostInc, Goto, Bodies
<1> QED BY <1>1, <1>2, <1>3 DEF TypeInv, TypeOK, PostInc, At

(* PostDeq keeps the types. *)
LEMMA PostDeqTypes ==
  ASSUME TypeInv, NEW t \in Threads, PostDeq(t), UNCHANGED <<upd, net>>
  PROVE  TypeInv'
<1>1. sendQ' \in [Slots -> Nat]
  BY DEF TypeInv, TypeOK, PostDeq
<1>2. inflight' \in [Slots -> Nat]
  BY DEF TypeInv, TypeOK, PostDeq
<1>3. pc' \in [Threads -> Places]
  BY DEF TypeInv, TypeOK, PostDeq, Goto, Places, HoldPlaces, Bodies
<1>4. SerialLeft'
  BY DEF TypeInv, TypeOK, SerialLeft, PostDeq, Goto, Bodies
<1>5. first' \in [Slots -> FirstEntries]
  BY DEF TypeInv, TypeOK, PostDeq, FirstEntries
<1> QED BY <1>1, <1>2, <1>3, <1>4, <1>5 DEF TypeInv, TypeOK, PostDeq, At

(* PostCancel keeps the types. *)
LEMMA PostCancelTypes ==
  ASSUME TypeInv, NEW t \in Threads, PostCancel(t), UNCHANGED <<upd, net>>
  PROVE  TypeInv'
<1>1. pc' \in [Threads -> Places]
  BY DEF TypeInv, TypeOK, PostCancel, Goto, Places, HoldPlaces, Bodies
<1>2. SerialLeft'
  BY DEF TypeInv, TypeOK, SerialLeft, PostCancel, Goto, Bodies
<1> QED BY <1>1, <1>2 DEF TypeInv, TypeOK, PostCancel, At

(* PostSend keeps the types. *)
LEMMA PostSendTypes ==
  ASSUME TypeInv, NEW t \in Threads, NEW failed \in BOOLEAN, PostSend(t, failed),
         UNCHANGED <<upd, net>>
  PROVE  TypeInv'
<1>1. sendIO' \in [Slots -> SendStates]
  BY DEF TypeInv, TypeOK, PostSend, SendStates
<1>2. pc' \in [Threads -> Places]
  BY DEF TypeInv, TypeOK, PostSend, Goto, Places, HoldPlaces, Bodies
<1>3. SerialLeft'
  BY DEF TypeInv, TypeOK, SerialLeft, PostSend, Goto, Bodies
<1> QED BY <1>1, <1>2, <1>3 DEF TypeInv, TypeOK, PostSend, At

(* Drop2 keeps the types. *)
LEMMA Drop2Types ==
  ASSUME TypeInv, NEW t \in Threads, Drop2(t), UNCHANGED <<upd, net>>
  PROVE  TypeInv'
<1>1. ioCount' \in [Slots -> Int]
  BY DEF TypeInv, TypeOK, Drop2, Decrement
<1>2. pc' \in [Threads -> Places]
  BY DEF TypeInv, TypeOK, Drop2, Decrement, Goto, Places, HoldPlaces, Bodies
<1>3. nxt' \in [Threads -> {"ret", "pqcs", "drop"}]
  BY DEF TypeInv, TypeOK, Drop2
<1>4. SerialLeft'
  BY DEF TypeInv, TypeOK, SerialLeft, Drop2, Decrement, Goto, Bodies
<1> QED BY <1>1, <1>2, <1>3, <1>4 DEF TypeInv, TypeOK, Drop2, At

(* RpInc keeps the types. *)
LEMMA RpIncTypes ==
  ASSUME TypeInv, NEW t \in Threads, RpInc(t), UNCHANGED <<upd, net>>
  PROVE  TypeInv'
<1>1. ioCount' \in [Slots -> Int]
  BY DEF TypeInv, TypeOK, RpInc, Increment
<1>2. pc' \in [Threads -> Places]
  BY DEF TypeInv, TypeOK, RpInc, Goto, Places, HoldPlaces, Bodies
<1>3. SerialLeft'
  BY DEF TypeInv, TypeOK, SerialLeft, RpInc, Goto, Bodies
<1> QED BY <1>1, <1>2, <1>3 DEF TypeInv, TypeOK, RpInc, At

(* RpCancel keeps the types. *)
LEMMA RpCancelTypes ==
  ASSUME TypeInv, NEW t \in Threads, RpCancel(t), UNCHANGED <<upd, net>>
  PROVE  TypeInv'
<1>1. pc' \in [Threads -> Places]
  BY DEF TypeInv, TypeOK, RpCancel, Goto, Places, HoldPlaces, Bodies
<1>2. SerialLeft'
  BY DEF TypeInv, TypeOK, SerialLeft, RpCancel, Goto, Bodies
<1> QED BY <1>1, <1>2 DEF TypeInv, TypeOK, RpCancel, At

(* RpIssue keeps the types. *)
LEMMA RpIssueTypes ==
  ASSUME TypeInv, NEW t \in Threads, NEW failed \in BOOLEAN, RpIssue(t, failed),
         UNCHANGED <<upd, net>>
  PROVE  TypeInv'
<1>1. recvIO' \in [Slots -> RecvStates]
  BY DEF TypeInv, TypeOK, RpIssue, RecvStates
<1>2. pc' \in [Threads -> Places]
  BY DEF TypeInv, TypeOK, RpIssue, Goto, After, Places, HoldPlaces, Bodies
<1>3. SerialLeft'
  BY DEF TypeInv, TypeOK, SerialLeft, RpIssue, Goto, After, Bodies
<1> QED BY <1>1, <1>2, <1>3 DEF TypeInv, TypeOK, RpIssue, At

(* RpFail keeps the types. *)
LEMMA RpFailTypes ==
  ASSUME TypeInv, NEW t \in Threads, RpFail(t), UNCHANGED <<upd, net>>
  PROVE  TypeInv'
<1>1. ioCount' \in [Slots -> Int]
  BY DEF TypeInv, TypeOK, RpFail
<1>2. pc' \in [Threads -> Places]
  BY DEF TypeInv, TypeOK, RpFail, Goto, After, Places, HoldPlaces, Bodies
<1>3. SerialLeft'
  BY DEF TypeInv, TypeOK, SerialLeft, RpFail, Goto, After, Bodies
<1> QED BY <1>1, <1>2, <1>3 DEF TypeInv, TypeOK, RpFail, At

(* AccPop keeps the types. *)
LEMMA AccPopTypes ==
  ASSUME TypeInv, NEW s \in Slots, AccPop(s)
  PROVE  TypeInv'
<1>1. freeIdx' \in SUBSET Slots
  BY DEF TypeInv, TypeOK, AccPop
<1>2. pc' \in [Threads -> Places]
  BY DEF TypeInv, TypeOK, AccPop, Goto, Places, HoldPlaces, Bodies
<1>3. cur' \in [Threads -> Slots]
  BY DEF TypeInv, TypeOK, AccPop, Ids
<1>4. peer' \in [Slots -> {"up", "reset", "fin"}]
  BY DEF TypeInv, TypeOK, AccPop
<1>5. sent' \in [Slots -> Nat]
  BY DEF TypeInv, TypeOK, AccPop
<1>6. said' \in [Slots -> BOOLEAN]
  BY DEF TypeInv, TypeOK, AccPop
<1>7. SerialLeft'
  BY DEF TypeInv, TypeOK, SerialLeft, AccPop, Goto, Bodies
<1> QED BY <1>1, <1>2, <1>3, <1>4, <1>5, <1>6, <1>7 DEF TypeInv, TypeOK, AccPop, At

(* AccId keeps the types. *)
LEMMA AccIdTypes ==
  ASSUME TypeInv, AccId
  PROVE  TypeInv'
<1>1. serial + 1 \in 0..MaxSerial
  BY DEF TypeInv, TypeOK, SerialLeft, AccId, At
<1>2. id' \in [Slots -> Ids]
  BY <1>1 DEF TypeInv, TypeOK, AccId, Ids
<1>3. serial' \in 0..MaxSerial
  BY <1>1 DEF AccId
<1>4. pc' \in [Threads -> Places]
  BY DEF TypeInv, TypeOK, AccId, Goto, Places, HoldPlaces, Bodies
<1>5. SerialLeft'
  BY DEF TypeInv, TypeOK, SerialLeft, AccId, Goto
<1> QED BY <1>2, <1>3, <1>4, <1>5 DEF TypeInv, TypeOK, AccId, At

(* AccFlag keeps the types. *)
LEMMA AccFlagTypes ==
  ASSUME TypeInv, AccFlag
  PROVE  TypeInv'
<1>1. released' \in [Slots -> BOOLEAN]
  BY DEF TypeInv, TypeOK, AccFlag
<1>2. pc' \in [Threads -> Places]
  BY DEF TypeInv, TypeOK, AccFlag, Goto, Places, HoldPlaces, Bodies
<1>3. SerialLeft'
  BY DEF TypeInv, TypeOK, SerialLeft, AccFlag, Goto, Bodies
<1> QED BY <1>1, <1>2, <1>3 DEF TypeInv, TypeOK, AccFlag, At

(* AccUsed keeps the types. *)
LEMMA AccUsedTypes ==
  ASSUME TypeInv, AccUsed
  PROVE  TypeInv'
<1>1. used' \in [Slots -> BOOLEAN]
  BY DEF TypeInv, TypeOK, AccUsed
<1>2. pc' \in [Threads -> Places]
  BY DEF TypeInv, TypeOK, AccUsed, Goto, Places, HoldPlaces, Bodies
<1>3. SerialLeft'
  BY DEF TypeInv, TypeOK, SerialLeft, AccUsed, Goto, Bodies
<1> QED BY <1>1, <1>2, <1>3 DEF TypeInv, TypeOK, AccUsed, At

(* AccAttachFail keeps the types. *)
LEMMA AccAttachFailTypes ==
  ASSUME TypeInv, AccAttachFail
  PROVE  TypeInv'
<1>1. used' \in [Slots -> BOOLEAN]
  BY DEF TypeInv, TypeOK, AccAttachFail
<1>2. pc' \in [Threads -> Places]
  BY DEF TypeInv, TypeOK, AccAttachFail, Goto, Places, HoldPlaces, Bodies
<1>3. SerialLeft'
  BY DEF TypeInv, TypeOK, SerialLeft, AccAttachFail, Goto, Bodies
<1> QED BY <1>1, <1>2, <1>3 DEF TypeInv, TypeOK, AccAttachFail, At

(* AccJoin keeps the types. *)
LEMMA AccJoinTypes ==
  ASSUME TypeInv, AccJoin
  PROVE  TypeInv'
<1>1. jobs' \in Seq(Job)
  BY DEF TypeInv, TypeOK, AccJoin, Enqueue, Job
<1>2. pc' \in [Threads -> Places]
  BY DEF TypeInv, TypeOK, AccJoin, Goto, Places, HoldPlaces, Bodies
<1>3. SerialLeft'
  BY DEF TypeInv, TypeOK, SerialLeft, AccJoin, Goto, Bodies
<1> QED BY <1>1, <1>2, <1>3 DEF TypeInv, TypeOK, AccJoin, At

(* AccRecv keeps the types. *)
LEMMA AccRecvTypes ==
  ASSUME TypeInv, NEW failed \in BOOLEAN, AccRecv(failed)
  PROVE  TypeInv'
<1>1. recvIO' \in [Slots -> RecvStates]
  BY DEF TypeInv, TypeOK, AccRecv, RecvStates
<1>2. pc' \in [Threads -> Places]
  BY DEF TypeInv, TypeOK, AccRecv, Goto, Places, HoldPlaces, Bodies
<1>3. SerialLeft'
  BY DEF TypeInv, TypeOK, SerialLeft, AccRecv, Goto, Bodies
<1> QED BY <1>1, <1>2, <1>3 DEF TypeInv, TypeOK, AccRecv, At

(* AccFail keeps the types. *)
LEMMA AccFailTypes ==
  ASSUME TypeInv, AccFail
  PROVE  TypeInv'
<1>1. ioCount' \in [Slots -> Int]
  BY DEF TypeInv, TypeOK, AccFail, Decrement
<1>2. recvIO' \in [Slots -> RecvStates]
  BY DEF TypeInv, TypeOK, AccFail, RecvStates
<1>3. pc' \in [Threads -> Places]
  BY DEF TypeInv, TypeOK, AccFail, Decrement, Goto, Places, HoldPlaces, Bodies
<1>4. SerialLeft'
  BY DEF TypeInv, TypeOK, SerialLeft, AccFail, Decrement, Goto, Bodies
<1> QED BY <1>1, <1>2, <1>3, <1>4 DEF TypeInv, TypeOK, AccFail, At

(* GetRecv keeps the types. *)
LEMMA GetRecvTypes ==
  ASSUME TypeInv, NEW w \in Workers, NEW s \in Slots, GetRecv(w, s)
  PROVE  TypeInv'
<1>1. recvIO' \in [Slots -> RecvStates]
  BY DEF TypeInv, TypeOK, GetRecv, RecvStates
<1>2. pc' \in [Threads -> Places]
  BY DEF TypeInv, TypeOK, GetRecv, Goto, Places, HoldPlaces, Bodies
<1>3. cur' \in [Threads -> Slots]
  BY DEF TypeInv, TypeOK, GetRecv, Ids
<1>4. io' \in [Threads -> BOOLEAN]
  BY DEF TypeInv, TypeOK, GetRecv
<1>5. SerialLeft'
  BY DEF TypeInv, TypeOK, SerialLeft, GetRecv, Goto, Bodies
<1> QED BY <1>1, <1>2, <1>3, <1>4, <1>5 DEF TypeInv, TypeOK, GetRecv, At

(* GetSend keeps the types. *)
LEMMA GetSendTypes ==
  ASSUME TypeInv, NEW w \in Workers, NEW s \in Slots, GetSend(w, s)
  PROVE  TypeInv'
<1>1. sendIO' \in [Slots -> SendStates]
  BY DEF TypeInv, TypeOK, GetSend, SendStates
<1>2. pc' \in [Threads -> Places]
  BY DEF TypeInv, TypeOK, GetSend, Goto, Places, HoldPlaces, Bodies
<1>3. cur' \in [Threads -> Slots]
  BY DEF TypeInv, TypeOK, GetSend, Ids
<1>4. io' \in [Threads -> BOOLEAN]
  BY DEF TypeInv, TypeOK, GetSend
<1>5. SerialLeft'
  BY DEF TypeInv, TypeOK, SerialLeft, GetSend, Goto, Bodies
<1> QED BY <1>1, <1>2, <1>3, <1>4, <1>5 DEF TypeInv, TypeOK, GetSend, At

(* GetPost keeps the types. *)
LEMMA GetPostTypes ==
  ASSUME TypeInv, NEW w \in Workers, NEW i \in Ids, GetPost(w, i)
  PROVE  TypeInv'
<1>1. posts' \in [Ids -> Nat]
  BY DEF TypeInv, TypeOK, GetPost
<1>2. pc' \in [Threads -> Places]
  BY DEF TypeInv, TypeOK, GetPost, Call, Goto, Places, HoldPlaces, Bodies
<1>3. op' \in [Threads -> Bodies]
  BY DEF TypeInv, TypeOK, GetPost, Call, Bodies
<1>4. arg' \in [Threads -> Ids]
  BY DEF TypeInv, TypeOK, GetPost, Call, Ids
<1>5. cur' \in [Threads -> Slots]
  BY DEF TypeInv, TypeOK, GetPost, Call, SlotOf, Ids
<1>6. SerialLeft'
  BY DEF TypeInv, TypeOK, SerialLeft, GetPost, Call, Goto, Bodies
<1> QED BY <1>1, <1>2, <1>3, <1>4, <1>5, <1>6 DEF TypeInv, TypeOK, GetPost, At

(* RecvMessage keeps the types. *)
LEMMA RecvMessageTypes ==
  ASSUME TypeInv, NEW w \in Workers, NEW kind \in Kinds, RecvMessage(w, kind)
  PROVE  TypeInv'
<1>1. jobs' \in Seq(Job)
  BY DEF TypeInv, TypeOK, RecvMessage, Enqueue, Job
<1>2. sent' \in [Slots -> Nat]
  BY DEF TypeInv, TypeOK, RecvMessage
<1>3. said' \in [Slots -> BOOLEAN]
  BY DEF TypeInv, TypeOK, RecvMessage
<1> QED BY <1>1, <1>2, <1>3 DEF TypeInv, TypeOK, SerialLeft, RecvMessage, At

(* RecvGarbage keeps the types. *)
LEMMA RecvGarbageTypes ==
  ASSUME TypeInv, NEW w \in Workers, RecvGarbage(w)
  PROVE  TypeInv'
<1>1. pc' \in [Threads -> Places]
  BY DEF TypeInv, TypeOK, RecvGarbage, Call, Goto, Places, HoldPlaces, Bodies
<1>2. op' \in [Threads -> Bodies]
  BY DEF TypeInv, TypeOK, RecvGarbage, Call, Bodies
<1>3. arg' \in [Threads -> Ids]
  BY SMTT(40) DEF TypeInv, TypeOK, RecvGarbage, Call, Ids
<1>4. cur' \in [Threads -> Slots]
  BY DEF TypeInv, TypeOK, RecvGarbage, Call, SlotOf, Ids
<1>5. SerialLeft'
  BY DEF TypeInv, TypeOK, SerialLeft, RecvGarbage, Call, Goto, Bodies
<1> QED BY <1>1, <1>2, <1>3, <1>4, <1>5 DEF TypeInv, TypeOK, RecvGarbage, At

(* RecvDone keeps the types. *)
LEMMA RecvDoneTypes ==
  ASSUME TypeInv, NEW w \in Workers, RecvDone(w)
  PROVE  TypeInv'
<1>1. pc' \in [Threads -> Places]
  BY DEF TypeInv, TypeOK, RecvDone, Goto, Places, HoldPlaces, Bodies
<1>2. SerialLeft'
  BY DEF TypeInv, TypeOK, SerialLeft, RecvDone, Goto, Bodies
<1> QED BY <1>1, <1>2 DEF TypeInv, TypeOK, RecvDone, At

(* SendComplete keeps the types. *)
LEMMA SendCompleteTypes ==
  ASSUME TypeInv, NEW w \in Workers, SendComplete(w)
  PROVE  TypeInv'
<1>1. sendFlag' \in [Slots -> BOOLEAN]
  BY DEF TypeInv, TypeOK, SendComplete
<1>2. inflight' \in [Slots -> Nat]
  BY DEF TypeInv, TypeOK, SendComplete, DeQPacket
<1>3. pc' \in [Threads -> Places]
  BY DEF TypeInv, TypeOK, SendComplete, Call, Goto, Places, HoldPlaces, Bodies
<1>4. op' \in [Threads -> Bodies]
  BY DEF TypeInv, TypeOK, SendComplete, Call, Bodies
<1>5. arg' \in [Threads -> Ids]
  BY SMTT(40) DEF TypeInv, TypeOK, SendComplete, Call, Ids
<1>6. cur' \in [Threads -> Slots]
  BY DEF TypeInv, TypeOK, SendComplete, Call, SlotOf, Ids
<1>7. SerialLeft'
  BY DEF TypeInv, TypeOK, SerialLeft, SendComplete, Call, Goto, Bodies
<1>8. first' \in [Slots -> FirstEntries]
  BY DEF TypeInv, TypeOK, SendComplete, DeQPacket, FirstEntries
<1> QED BY <1>1, <1>2, <1>3, <1>4, <1>5, <1>6, <1>7, <1>8 DEF TypeInv, TypeOK, SendComplete, At

(* Final keeps the types. *)
LEMMA FinalTypes ==
  ASSUME TypeInv, NEW w \in Workers, Final(w)
  PROVE  TypeInv'
<1>1. ioCount' \in [Slots -> Int]
  BY DEF TypeInv, TypeOK, Final, Decrement
<1>2. pc' \in [Threads -> Places]
  BY DEF TypeInv, TypeOK, Final, Decrement, Goto, Places, HoldPlaces, Bodies
<1>3. io' \in [Threads -> BOOLEAN]
  BY DEF TypeInv, TypeOK, Final
<1>4. SerialLeft'
  BY DEF TypeInv, TypeOK, SerialLeft, Final, Decrement, Goto, Bodies
<1> QED BY <1>1, <1>2, <1>3, <1>4 DEF TypeInv, TypeOK, Final, At

(* CreateNewUser keeps the types. *)
LEMMA CreateNewUserTypes ==
  ASSUME TypeInv, CreateNewUser
  PROVE  TypeInv'
<1>1. Head(jobs).id \in Ids
  BY HeadJob DEF TypeInv, CreateNewUser, NextJob
<1>2. jobs' \in Seq(Job)
  BY DEF TypeInv, TypeOK, CreateNewUser, NextJob, Job
<1>3. clients' \in SUBSET Ids
  BY <1>1 DEF TypeInv, TypeOK, CreateNewUser, NextJob
<1> QED BY <1>2, <1>3 DEF TypeInv, TypeOK, SerialLeft, CreateNewUser, NextJob, At

(* DeleteUser keeps the types. *)
LEMMA DeleteUserTypes ==
  ASSUME TypeInv, DeleteUser
  PROVE  TypeInv'
<1>1. jobs' \in Seq(Job)
  BY DEF TypeInv, TypeOK, DeleteUser, NextJob, Job
<1>2. clients' \in SUBSET Ids
  BY DEF TypeInv, TypeOK, DeleteUser, NextJob
<1> QED BY <1>1, <1>2 DEF TypeInv, TypeOK, SerialLeft, DeleteUser, NextJob, At

(* TimeOut keeps the types. *)
LEMMA TimeOutTypes ==
  ASSUME TypeInv, TimeOut
  PROVE  TypeInv'
<1>1. Head(jobs).id \in Ids
  BY HeadJob DEF TypeInv, TimeOut, NextJob
<1>2. jobs' \in Seq(Job)
  BY DEF TypeInv, TypeOK, TimeOut, NextJob, Job
<1>3. pc' \in [Threads -> Places]
  BY <1>1 DEF TypeInv, TypeOK, TimeOut, Call, Goto, Places, HoldPlaces, Bodies
<1>4. op' \in [Threads -> Bodies]
  BY <1>1 DEF TypeInv, TypeOK, TimeOut, Call, Bodies
<1>5. arg' \in [Threads -> Ids]
  BY <1>1 DEF TypeInv, TypeOK, TimeOut, Call, NextJob, Ids
<1>6. cur' \in [Threads -> Slots]
  BY <1>1 DEF TypeInv, TypeOK, TimeOut, Call, SlotOf, NextJob, Ids
<1>7. SerialLeft'
  BY DEF TypeInv, TypeOK, SerialLeft, TimeOut, Call, Goto, Bodies
<1> QED BY <1>2, <1>3, <1>4, <1>5, <1>6, <1>7 DEF TypeInv, TypeOK, TimeOut, NextJob, At

(* BadMessage keeps the types. *)
LEMMA BadMessageTypes ==
  ASSUME TypeInv, BadMessage
  PROVE  TypeInv'
<1>1. Head(jobs).id \in Ids
  BY HeadJob DEF TypeInv, BadMessage, NextJob
<1>2. jobs' \in Seq(Job)
  BY DEF TypeInv, TypeOK, BadMessage, NextJob, Job
<1>3. pc' \in [Threads -> Places]
  BY <1>1 DEF TypeInv, TypeOK, BadMessage, Call, Goto, Places, HoldPlaces, Bodies
<1>4. op' \in [Threads -> Bodies]
  BY <1>1 DEF TypeInv, TypeOK, BadMessage, Call, Bodies
<1>5. arg' \in [Threads -> Ids]
  BY <1>1 DEF TypeInv, TypeOK, BadMessage, Call, NextJob, Ids
<1>6. cur' \in [Threads -> Slots]
  BY <1>1 DEF TypeInv, TypeOK, BadMessage, Call, SlotOf, NextJob, Ids
<1>7. SerialLeft'
  BY DEF TypeInv, TypeOK, SerialLeft, BadMessage, Call, Goto, Bodies
<1> QED BY <1>2, <1>3, <1>4, <1>5, <1>6, <1>7 DEF TypeInv, TypeOK, BadMessage, NextJob, At

(* ChatMessage keeps the types. *)
LEMMA ChatMessageTypes ==
  ASSUME TypeInv, NEW recipients \in SUBSET clients, ChatMessage(recipients)
  PROVE  TypeInv'
<1>1. Head(jobs).id \in Ids
  BY HeadJob DEF TypeInv, ChatMessage, NextJob
<1>2. jobs' \in Seq(Job)
  BY DEF TypeInv, TypeOK, ChatMessage, NextJob, Job
<1>3. pc' \in [Threads -> Places]
  BY <1>1 DEF TypeInv, TypeOK, ChatMessage, Call, Goto, Places, HoldPlaces, Bodies
<1>4. op' \in [Threads -> Bodies]
  BY <1>1 DEF TypeInv, TypeOK, ChatMessage, Call, Bodies
<1>5. arg' \in [Threads -> Ids]
  <2>1. CASE Head(jobs).kind = "bye"
    BY <1>1, <2>1 DEF TypeInv, TypeOK, ChatMessage, Call
  <2>2. CASE Head(jobs).kind # "bye"
    BY <2>2 DEF TypeInv, TypeOK, ChatMessage
  <2> QED BY <2>1, <2>2
<1>6. cur' \in [Threads -> Slots]
  <2>1. CASE Head(jobs).kind = "bye"
    BY <1>1, <2>1 DEF TypeInv, TypeOK, ChatMessage, Call, SlotOf, Ids
  <2>2. CASE Head(jobs).kind # "bye"
    BY <2>2 DEF TypeInv, TypeOK, ChatMessage
  <2> QED BY <2>1, <2>2
<1>7. todo' \in SUBSET Ids
  BY DEF TypeInv, TypeOK, ChatMessage, NextJob
<1>8. SerialLeft'
  BY DEF TypeInv, TypeOK, SerialLeft, ChatMessage, Call, Goto, Bodies
<1> QED BY <1>2, <1>3, <1>4, <1>5, <1>6, <1>7, <1>8 DEF TypeInv, TypeOK, ChatMessage, NextJob, At

(* SendNext keeps the types. *)
LEMMA SendNextTypes ==
  ASSUME TypeInv, NEW i \in Ids, SendNext(i)
  PROVE  TypeInv'
<1>1. pc' \in [Threads -> Places]
  BY DEF TypeInv, TypeOK, SendNext, Call, Goto, Places, HoldPlaces, Bodies
<1>2. op' \in [Threads -> Bodies]
  BY DEF TypeInv, TypeOK, SendNext, Call, Bodies
<1>3. arg' \in [Threads -> Ids]
  BY DEF TypeInv, TypeOK, SendNext, Call, Ids
<1>4. cur' \in [Threads -> Slots]
  BY DEF TypeInv, TypeOK, SendNext, Call, SlotOf, Ids
<1>5. todo' \in SUBSET Ids
  BY DEF TypeInv, TypeOK, SendNext
<1>6. SerialLeft'
  BY DEF TypeInv, TypeOK, SerialLeft, SendNext, Call, Goto, Bodies
<1> QED BY <1>1, <1>2, <1>3, <1>4, <1>5, <1>6 DEF TypeInv, TypeOK, SendNext, At

(* MonUsed keeps the types. *)
LEMMA MonUsedTypes ==
  ASSUME TypeInv, NEW s \in Slots, MonUsed(s)
  PROVE  TypeInv'
<1>1. pc' \in [Threads -> Places]
  BY DEF TypeInv, TypeOK, MonUsed, Goto, Places, HoldPlaces, Bodies
<1>2. cur' \in [Threads -> Slots]
  BY DEF TypeInv, TypeOK, MonUsed, Ids
<1>3. SerialLeft'
  BY DEF TypeInv, TypeOK, SerialLeft, MonUsed, Goto, Bodies
<1> QED BY <1>1, <1>2, <1>3 DEF TypeInv, TypeOK, MonUsed, At

(* MonId keeps the types. *)
LEMMA MonIdTypes ==
  ASSUME TypeInv, MonId
  PROVE  TypeInv'
<1>1. pc' \in [Threads -> Places]
  BY DEF TypeInv, TypeOK, MonId, Call, Goto, Places, HoldPlaces, Bodies
<1>2. op' \in [Threads -> Bodies]
  BY DEF TypeInv, TypeOK, MonId, Call, Bodies
<1>3. arg' \in [Threads -> Ids]
  BY DEF TypeInv, TypeOK, MonId, Call, Ids
<1>4. cur' \in [Threads -> Slots]
  BY DEF TypeInv, TypeOK, MonId, Call, SlotOf, Ids
<1>5. SerialLeft'
  BY DEF TypeInv, TypeOK, SerialLeft, MonId, Call, Goto, Bodies
<1> QED BY <1>1, <1>2, <1>3, <1>4, <1>5 DEF TypeInv, TypeOK, MonId, At

(* MonExpire keeps the types. *)
LEMMA MonExpireTypes ==
  ASSUME TypeInv, NEW late \in BOOLEAN, MonExpire(late)
  PROVE  TypeInv'
<1>1. jobs' \in Seq(Job)
  <2>1. id[cur[Monitor]] \in Ids
    BY DEF TypeInv, TypeOK
  <2>2. Append(jobs, [type |-> "timeout", id |-> id[cur[Monitor]], kind |-> "none"]) \in Seq(Job)
    BY <2>1, MessageJob DEF TypeInv
  <2>3. CASE late
    BY <2>2, <2>3 DEF MonExpire, Enqueue
  <2>4. CASE ~late
    BY <2>4 DEF MonExpire, TypeInv, TypeOK
  <2> QED BY <2>3, <2>4
<1>2. pc' \in [Threads -> Places]
  BY DEF TypeInv, TypeOK, MonExpire, Goto, Places, HoldPlaces, Bodies
<1>3. SerialLeft'
  BY DEF TypeInv, TypeOK, SerialLeft, MonExpire, Goto, Bodies
<1> QED BY <1>1, <1>2, <1>3 DEF TypeInv, TypeOK, MonExpire, At

(* PeerClose keeps the types. *)
LEMMA PeerCloseTypes ==
  ASSUME TypeInv, NEW s \in Slots, NEW how \in Closings, PeerClose(s, how)
  PROVE  TypeInv'
<1>1. peer' \in [Slots -> {"up", "reset", "fin"}]
  BY DEF TypeInv, TypeOK, PeerClose
<1> QED BY <1>1 DEF TypeInv, TypeOK, SerialLeft, PeerClose, Alive

(* RecvComplete keeps the types. *)
LEMMA RecvCompleteTypes ==
  ASSUME TypeInv, NEW s \in Slots, NEW result \in {"data", "fail", "eof"}, RecvComplete(s, result)
  PROVE  TypeInv'
<1>1. recvIO' \in [Slots -> RecvStates]
  BY DEF TypeInv, TypeOK, RecvComplete, RecvStates
<1> QED BY <1>1 DEF TypeInv, TypeOK, SerialLeft, RecvComplete, Alive

(* SendDone keeps the types. *)
LEMMA SendDoneTypes ==
  ASSUME TypeInv, NEW s \in Slots, SendDone(s)
  PROVE  TypeInv'
<1>1. sendIO' \in [Slots -> SendStates]
  BY DEF TypeInv, TypeOK, SendDone, SendStates
<1> QED BY <1>1 DEF TypeInv, TypeOK, SerialLeft, SendDone, Alive

(* Every group of actions keeps the types. *)
LEMMA RoutineTypes ==
  ASSUME TypeInv, NEW t \in Threads, Routine(t), UNCHANGED <<upd, net>>
  PROVE  TypeInv'
  BY AcqIncTypes, AcqFlagTypes, AcqIdTypes, AcqFailTypes, DropTypes, RelCasTypes,
     RelPacketsTypes, RelClearTypes, RelPushTypes, RelLeaveTypes, CancelTypes,
     EnQTypes, PqcsTypes, MarkTypes, PostFlagTypes, PostCountTypes, PostUnflagTypes,
     PostRecheckTypes, PostIncTypes, PostDeqTypes, PostCancelTypes, PostSendTypes,
     Drop2Types, RpIncTypes, RpCancelTypes, RpIssueTypes, RpFailTypes DEF Routine

(* The same for the actions of the accept thread. *)
LEMMA AcceptTypes ==
  ASSUME TypeInv, Accept
  PROVE  TypeInv'
  BY AccPopTypes, AccIdTypes, AccFlagTypes, AccUsedTypes, AccAttachFailTypes, AccJoinTypes,
     AccRecvTypes, AccFailTypes DEF Accept

(* The same for the actions of a worker. *)
LEMMA WorkTypes ==
  ASSUME TypeInv, NEW w \in Workers, Work(w)
  PROVE  TypeInv'
  BY GetRecvTypes, GetSendTypes, GetPostTypes, RecvMessageTypes, RecvGarbageTypes,
     RecvDoneTypes, SendCompleteTypes, FinalTypes DEF Work

(* The same for the actions of the update thread. *)
LEMMA UpdateTypes ==
  ASSUME TypeInv, Update
  PROVE  TypeInv'
  BY CreateNewUserTypes, DeleteUserTypes, TimeOutTypes, BadMessageTypes, ChatMessageTypes,
     SendNextTypes DEF Update

(* The same for the actions of the monitor thread. *)
LEMMA WatchTypes ==
  ASSUME TypeInv, Watch
  PROVE  TypeInv'
  BY MonUsedTypes, MonIdTypes, MonExpireTypes DEF Watch

(* The same for the actions of the kernel and the clients. *)
LEMMA KernelTypes ==
  ASSUME TypeInv, Kernel
  PROVE  TypeInv'
  BY PeerCloseTypes, RecvCompleteTypes, SendDoneTypes DEF Kernel

(* The initial state is well typed. *)
LEMMA InitTypes ==
  ASSUME Init
  PROVE  TypeInv
<1>1. PICK s0 \in Slots : cur = [t \in Threads |-> s0]
  BY DEF Init
<1>2. arg \in [Threads -> Ids] /\ gone \in [Threads -> Ids] /\ id \in [Slots -> Ids]
  BY <1>1 DEF Init, Ids
<1>3. sendFlag \in [Slots -> BOOLEAN]
  BY DEF Init
<1>4. pc \in [Threads -> Places] /\ op \in [Threads -> Bodies] /\ nxt \in [Threads -> {"ret", "pqcs", "drop"}]
  BY DEF Init, Places, Bodies
<1>5. SerialLeft
  BY DEF Init, SerialLeft
<1>6. cur \in [Threads -> Slots]
  BY <1>1
<1>7. recvIO \in [Slots -> RecvStates] /\ sendIO \in [Slots -> SendStates]
  BY DEF Init, RecvStates, SendStates
<1>8. posts \in [Ids -> Nat] /\ jobs \in Seq(Job) /\ serial \in 0..MaxSerial
  BY DEF Init
<1>9. first \in [Slots -> FirstEntries]
  BY ClientAssumption DEF Init, FirstEntries
<1> QED BY <1>2, <1>3, <1>4, <1>5, <1>6, <1>7, <1>8, <1>9 DEF TypeInv, TypeOK, Init

(* A Crash() keeps the types. *)
LEMMA CrashTypes ==
  ASSUME TypeInv, Crashes
  PROVE  TypeInv'
<1> DEFINE own == UNION {Failing(t) : t \in Threads}
           content == IF MissingClient THEN {"client"} ELSE {}
<1>1. crash' \in own \cup content
  BY DEF Crashes
<1>2. own \subseteq Checks
  BY DEF Failing
<1>3. content \subseteq {"client"}
  OBVIOUS
<1> HIDE DEF own, content
<1>4. crash' \in Checks \cup {"none", "client"}
  BY <1>1, <1>2, <1>3
<1> QED BY <1>4 DEF TypeInv, TypeOK, SerialLeft, Crashes

(* Every step keeps the types. *)
LEMMA NextTypes ==
  ASSUME TypeInv, [Next]_vars
  PROVE  TypeInv'
<1>1. ASSUME NEW t \in Threads, ThreadStep(t)
      PROVE  TypeInv'
  BY <1>1, RoutineTypes, AcceptTypes, WorkTypes, UpdateTypes, WatchTypes DEF ThreadStep
<1>2. CASE UNCHANGED vars
  BY <1>2 DEF TypeInv, TypeOK, SerialLeft, vars
<1> QED BY <1>1, <1>2, KernelTypes, CrashTypes DEF Next

(* Whatever the numbers of slots, workers and messages: every variable of    *)
(* the server, the fields of Session and the queues, always has a value of   *)
(* its type.                                                                 *)
THEOREM TypeCorrect == Spec => []TypeOK
<1>1. Init => TypeInv
  BY InitTypes
<1>2. TypeInv /\ [Next]_vars => TypeInv'
  BY NextTypes
<1>3. TypeInv => TypeOK
  BY DEF TypeInv
<1> QED BY <1>1, <1>2, <1>3, PTL DEF Spec
=============================================================================
