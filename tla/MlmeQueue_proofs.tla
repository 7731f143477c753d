-------------------------- MODULE MlmeQueue_proofs --------------------------
(***************************************************************************)
(* Proofs about MlmeQueue, for a ring of any length and any number of      *)
(* senders: types, the refinement of MlmeFifo, and what it takes for a     *)
(* message to be written over another.                                     *)
(***************************************************************************)
EXTENDS MlmeQueue, SequenceTheorems, FiniteSetTheorems, TLAPS

\* The size of the ring.
M == MAX_LEN_OF_MLME_QUEUE

\* Callers between the full test and the end of the insertion.
Pending == {d \in Callers : call[d].pc \in {"read", "write"}}

\* The counters: what has been accepted and what is about to be stays within the
\* bound, and Num, now or as a sender has read it, counts accepted messages.
Counted ==
  /\ IsFiniteSet(Pending) /\ accepted + Cardinality(Pending) <= MaxMsgs
  /\ Num <= accepted
  /\ \A c \in Callers : call[c].num <= accepted

\* Caller c is between reading and writing the queue's fields.
Writing(c) == call[c].pc = "write"

\* Queue->Lock is held by the one context that is between its read and its write.
Locked == \A c \in Callers : Writing(c) <=> Lock = c

\* What the writer has read is still there.
Current == \A c \in Callers : Writing(c) => call[c].tail = QTail /\ call[c].num = Num

\* A slot that holds a message.
Whole(e) == e.Occupied /\ e.len = 1 /\ e.msg \in 1..MaxMsgs

\* The ring is sound: Tail is Num past Head, the slots between hold messages, and
\* the element being handled is the one before Head, still occupied.
Ring ==
  /\ Num <= M /\ QTail = Slot(Num)
  /\ \A i \in 0..Num - 1 : Whole(Entry[Slot(i)])
  /\ pc = "handle" => /\ Elem = Slot(M - 1) /\ Num < M
                      /\ Entry[Elem].Occupied /\ Entry[Elem].msg \in 1..MaxMsgs

\* While the thread lives, only those slots are occupied.
Tight == \A s \in Slots :
  Entry[s].Occupied => (\E i \in 0..Num - 1 : s = Slot(i)) \/ (pc = "handle" /\ s = Elem)

\* In MlmeQueueInit the fields are reset one after the other.
Clearing ==
  /\ pc # "init_num" => Num = 0
  /\ pc \in {"init_tail", "init_entries"} => QHead = 0
  /\ pc = "init_entries" => QTail = 0

\* What holds while the promise does.
Good ==
  /\ Locked
  /\ IF pc \in InInit THEN Clearing
     ELSE Current /\ Ring /\ (pc # "exited" => Tight)

Sound == ~Broken => Good

\* Inductive.
IndInv == TypeOK /\ Counted /\ Sound

-----------------------------------------------------------------------------
(***************************************************************************)
(* The arithmetic of the ring.                                             *)
(***************************************************************************)

\* The remainder by the length of the ring, for what at most one turn reaches.
LEMMA Remainder ==
  ASSUME NEW h \in Slots, NEW i \in 0..M
  PROVE  /\ (h + i) % M = IF h + i < M THEN h + i ELSE h + i - M
         /\ (h + i) % M \in Slots
<1>1. M \in Nat \ {0} /\ h \in 0..M - 1
  BY MlmeQueueAssumption DEF M, Slots
<1>2. h + i < M => (h + i) % M = h + i
  BY <1>1
<1>3. h + i >= M => (h + i) % M = h + i - M
  BY <1>1
<1> QED
  BY <1>1, <1>2, <1>3 DEF Slots, M

\* Going round: the successor of a slot, the slots as seen from the successor of
\* the head, and that a turn meets every slot once.
LEMMA Turn ==
  ASSUME NEW h \in Slots
  PROVE  /\ Next1(h) \in Slots
         /\ \A i \in 0..M - 1 : Next1((h + i) % M) = (h + (i + 1)) % M
         /\ \A i \in 0..M - 1 : (Next1(h) + i) % M = (h + (i + 1)) % M
         /\ (h + 0) % M = h /\ (h + M) % M = h
         /\ \A i, j \in 0..M - 1 : (h + i) % M = (h + j) % M => i = j
         /\ \A s \in Slots : \E i \in 0..M - 1 : s = (h + i) % M
<1>0. M \in Nat \ {0} /\ h \in 0..M - 1 /\ Slots = 0..M - 1 /\ MAX_LEN_OF_MLME_QUEUE = M
  BY MlmeQueueAssumption DEF M, Slots
<1>1. Next1(h) \in Slots
  BY <1>0 DEF Next1
<1>a. \A i \in 0..M : (h + i) % M = IF h + i < M THEN h + i ELSE h + i - M
  BY Remainder
<1>b. \A i \in 0..M : (Next1(h) + i) % M = IF Next1(h) + i < M THEN Next1(h) + i ELSE Next1(h) + i - M
  BY <1>1, Remainder
<1>2. \A i \in 0..M - 1 : Next1((h + i) % M) = (h + (i + 1)) % M
  BY <1>0, <1>a DEF Next1
<1>3. ASSUME NEW i \in 0..M - 1 PROVE (Next1(h) + i) % M = (h + (i + 1)) % M
  <2>1. i + 1 \in 0..M /\ i \in 0..M
    BY <1>0
  <2>2. CASE h + 1 = M
    <3>1. Next1(h) = 0 /\ h + (i + 1) = M + i
      BY <1>0, <2>1, <2>2 DEF Next1
    <3>2. (Next1(h) + i) % M = i
      BY <1>0, <1>b, <2>1, <3>1
    <3>3. (h + (i + 1)) % M = i
      BY <1>0, <1>a, <2>1, <3>1
    <3> QED
      BY <3>2, <3>3
  <2>3. CASE h + 1 # M
    <3>1. Next1(h) = h + 1 /\ Next1(h) + i = h + (i + 1)
      BY <1>0, <2>3 DEF Next1
    <3> QED
      BY <3>1
  <2> QED
    BY <2>2, <2>3
<1>4. (h + 0) % M = h /\ (h + M) % M = h
  BY <1>0, <1>a
<1>5. \A i, j \in 0..M - 1 : (h + i) % M = (h + j) % M => i = j
  BY <1>0, <1>a
<1>6. ASSUME NEW s \in Slots PROVE \E i \in 0..M - 1 : s = (h + i) % M
  <2> DEFINE i == IF s >= h THEN s - h ELSE s + M - h
  <2>1. i \in 0..M - 1 /\ s = (h + i) % M
    BY <1>0, <1>a
  <2> QED
    BY <2>1
<1> QED
  BY <1>1, <1>2, <1>3, <1>4, <1>5, <1>6

-----------------------------------------------------------------------------
(***************************************************************************)
(* Type correctness. That the counters stay within their bounds needs the  *)
(* number of insertions under way.                                         *)
(***************************************************************************)

\* A caller that has only the wake-up left.
Woken == [Idle EXCEPT !.pc = "wake"]

\* The records the code builds are records of their type.
LEMMA RecordTypes ==
  /\ 0 \in Slots
  /\ Blank \in EntryType
  /\ Idle \in CallType /\ Idle.pc = "idle" /\ Idle.num = 0
  /\ Woken \in CallType /\ Woken.pc = "wake" /\ Woken.num = 0
  /\ \A e \in EntryType : GiveBack(e) \in EntryType
<1>1. 0 \in Slots /\ 0 \in 0..MaxMsgs
  BY MlmeQueueAssumption DEF Slots
<1>2. Blank \in EntryType
  BY <1>1 DEF Blank, EntryType
<1>3. Idle \in CallType
  BY <1>1 DEF Idle, CallType
<1>4. ASSUME NEW r \in CallType
      PROVE  LET w == [r EXCEPT !.pc = "wake"] IN w \in CallType /\ w.pc = "wake" /\ w.num = r.num
  BY DEF CallType
<1>5. /\ Woken \in CallType /\ Woken.pc = "wake" /\ Woken.num = Idle.num
      /\ Idle.num = 0 /\ Idle.pc = "idle"
  BY <1>3, <1>4 DEF Idle, Woken
<1>6. ASSUME NEW e \in EntryType PROVE GiveBack(e) \in EntryType
  BY DEF GiveBack, EntryType
<1> QED
  BY <1>1, <1>2, <1>3, <1>5, <1>6

\* No insertion is under way at first.
LEMMA CountedInit == Init => TypeOK /\ Counted
<1> SUFFICES ASSUME Init PROVE TypeOK /\ Counted
  OBVIOUS
<1> USE MlmeQueueAssumption DEF Init
<1>1. Pending = {}
  BY DEF Pending, Idle
<1>2. HistTypes
  <2>1. flag \in [Flags -> BOOLEAN]
    BY DEF Flags
  <2>2. accepted \in 0..MaxMsgs
    OBVIOUS
  <2>3. overrun \in BOOLEAN /\ torn \in BOOLEAN
    OBVIOUS
  <2> QED
    BY <2>1, <2>2, <2>3 DEF HistTypes
<1>3. QueueTypes
  BY RecordTypes DEF QueueTypes
<1>4. ThreadTypes
  <2>1. pc \in {"wait", "loop", "exited"} \union Handling /\ pc \notin Handling
    BY DEF Handling, InHandler, InInit
  <2> QED
    BY <2>1 DEF ThreadTypes
<1>5. CallTypes
  BY RecordTypes DEF CallTypes
<1>6. Counted
  BY <1>1, FS_EmptySet DEF Counted, Idle
<1> QED
  BY <1>2, <1>3, <1>4, <1>5, <1>6 DEF TypeOK

\* A step that leaves the calls and the counters alone keeps what is counted.
LEMMA CountedSame ==
  ASSUME Counted, UNCHANGED <<call, accepted>>, Num' <= accepted
  PROVE  Counted'
<1>1. Pending' = Pending
  BY DEF Pending
<1> QED
  BY <1>1 DEF Counted

\* Every step of a sender, of the thread and of the device keeps the types.
LEMMA TypeStep == TypeOK /\ Counted /\ [Next]_vars => TypeOK' /\ Counted'
<1> SUFFICES ASSUME TypeOK, Counted, [Next]_vars PROVE TypeOK' /\ Counted'
  OBVIOUS
<1>0. IsFiniteSet(Pending) /\ Cardinality(Pending) \in Nat
  BY FS_CardinalityType DEF Counted
<1> USE MlmeQueueAssumption DEF TypeOK
<1>1. ASSUME NEW c \in Callers, NEW wake \in BOOLEAN, Test(c, wake) PROVE TypeOK' /\ Counted'
  <2>1. c \notin Pending /\ Pending' = Pending \union {c}
    BY <1>1 DEF Test, Pending, CallTypes, CallType
  <2>2. IsFiniteSet(Pending') /\ Cardinality(Pending') = Cardinality(Pending) + 1
    BY <1>0, <2>1, FS_AddElement
  <2>3. accepted + Cardinality(Pending') <= MaxMsgs
    BY <1>1, <1>0, <2>2 DEF Test, Pending, HistTypes
  <2>4. CallTypes'
    BY <1>1, ZenonT(30) DEF Test, CallTypes, CallType
  <2>5. (QueueTypes /\ ThreadTypes /\ HistTypes)'
    BY <1>1 DEF Test, queue, thread, hist, QueueTypes, ThreadTypes, HistTypes
  <2>6. Num' <= accepted' /\ \A d \in Callers : call'[d].num <= accepted'
    BY <1>1 DEF Test, queue, Counted, CallTypes, CallType
  <2>7. accepted' = accepted
    BY <1>1 DEF Test
  <2> QED
    BY <2>2, <2>3, <2>4, <2>5, <2>6, <2>7 DEF Counted
<1>2. ASSUME NEW c \in Callers, InsertRead(c) PROVE TypeOK' /\ Counted'
  <2>1. Pending' = Pending
    BY <1>2 DEF InsertRead, Pending, CallTypes, CallType
  <2>2. CallTypes'
    <3>1. [call[c] EXCEPT !.pc = "write", !.tail = QTail, !.num = Num] \in CallType
      BY DEF CallTypes, CallType, QueueTypes
    <3>2. call' = [call EXCEPT ![c] = [call[c] EXCEPT !.pc = "write", !.tail = QTail, !.num = Num]]
      BY <1>2 DEF InsertRead
    <3> QED
      BY <3>1, <3>2 DEF CallTypes
  <2>3. (QueueTypes /\ ThreadTypes /\ HistTypes)'
    BY <1>2 DEF InsertRead, thread, hist, QueueTypes, ThreadTypes, HistTypes
  <2>4. Num' <= accepted' /\ \A d \in Callers : call'[d].num <= accepted'
    BY <1>2 DEF InsertRead, Counted, CallTypes, CallType
  <2> QED
    BY <1>2, <2>1, <2>2, <2>3, <2>4 DEF Counted, InsertRead
<1>3. ASSUME NEW c \in Callers, InsertWrite(c) PROVE TypeOK' /\ Counted'
  <2>0. call' = [call EXCEPT ![c] = Idle] \/ call' = [call EXCEPT ![c] = Woken]
    BY <1>3 DEF InsertWrite, Woken
  <2>1. c \in Pending /\ Pending' = Pending \ {c}
    BY <1>3, <2>0, RecordTypes DEF InsertWrite, Pending, CallTypes
  <2>2. IsFiniteSet(Pending') /\ Cardinality(Pending') = Cardinality(Pending) - 1
    BY <1>0, <2>1, FS_RemoveElement
  <2>3. accepted' = accepted + 1 /\ accepted \in Nat
    BY <1>3 DEF InsertWrite, HistTypes
  <2>4. accepted' + Cardinality(Pending') <= MaxMsgs /\ accepted' \in 0..MaxMsgs
    <3>1. Cardinality(Pending') \in Nat
      BY <2>2, FS_CardinalityType
    <3>2. accepted + Cardinality(Pending) <= MaxMsgs
      BY DEF Counted
    <3> QED
      BY <1>0, <2>2, <2>3, <3>1, <3>2
  <2>5. call[c].num \in 0..MaxMsgs /\ call[c].num <= accepted /\ call[c].tail \in Slots
    BY <1>3 DEF Counted, CallTypes, CallType
  <2>6. Num' = call[c].num + 1 /\ Num' <= accepted' /\ Num' \in 0..MaxMsgs
    BY <1>3, <2>3, <2>4, <2>5 DEF InsertWrite
  <2>7. CallTypes'
    BY <2>0, RecordTypes DEF CallTypes
  <2>8. \A d \in Callers : call'[d].num <= accepted'
    BY <2>0, <2>3, RecordTypes DEF Counted, CallTypes, CallType
  <2>9. QueueTypes'
    <3>1. QTail' \in Slots /\ QHead' \in Slots /\ Lock' \in Callers \union {"none"}
      BY <1>3, <2>5, Turn DEF InsertWrite, QueueTypes
    <3>2. Message(c) \in EntryType
      BY <2>3, <2>4 DEF Message, EntryType
    <3>3. Entry' \in [Slots -> EntryType]
      BY <1>3, <3>2 DEF InsertWrite, QueueTypes
    <3> QED
      BY <2>6, <3>1, <3>3 DEF QueueTypes
  <2>10. (ThreadTypes /\ HistTypes)'
    BY <1>3, <2>4 DEF InsertWrite, thread, ThreadTypes, HistTypes
  <2> QED
    BY <2>2, <2>4, <2>6, <2>7, <2>8, <2>9, <2>10 DEF Counted
<1>4. ASSUME NEW c \in Callers, Wake(c) PROVE TypeOK' /\ Counted'
  <2>1. Pending' = Pending
    BY <1>4 DEF Wake, Pending, CallTypes, Idle, CallType
  <2>2. CallTypes'
    BY <1>4, RecordTypes DEF Wake, CallTypes
  <2>3. (QueueTypes /\ ThreadTypes /\ HistTypes)'
    BY <1>4 DEF Wake, queue, thread, hist, QueueTypes, ThreadTypes, HistTypes
  <2>4. Num' <= accepted' /\ \A d \in Callers : call'[d].num <= accepted'
    BY <1>4 DEF Wake, queue, Counted, CallTypes, Idle, HistTypes
  <2> QED
    BY <1>4, <2>1, <2>2, <2>3, <2>4 DEF Counted, Wake
<1>5. ASSUME MlmePeriodicExec \/ TaskWait \/ LeaveLoop \/ MlmeThreadExit PROVE TypeOK' /\ Counted'
  <2>1. TypeOK'
    BY <1>5 DEF MlmePeriodicExec, TaskWait, LeaveLoop, MlmeThreadExit, queue, thread, hist,
                QueueTypes, CallTypes, ThreadTypes, HistTypes, Handling, InHandler, InInit
  <2> QED
    BY <1>5, <2>1, CountedSame
    DEF MlmePeriodicExec, TaskWait, LeaveLoop, MlmeThreadExit, queue, Counted
<1>6. ASSUME MlmeDequeue PROVE TypeOK' /\ Counted'
  <2>1. Num \in 1..MaxMsgs /\ Num' \in 0..MaxMsgs /\ Num' <= accepted
    BY <1>6 DEF MlmeDequeue, MlmeQueueEmpty, QueueTypes, HistTypes, Counted
  <2>2. (QueueTypes /\ CallTypes /\ HistTypes)'
    BY <1>6, <2>1, Turn DEF MlmeDequeue, hist, QueueTypes, CallTypes, HistTypes
  <2>3. ThreadTypes'
    BY <1>6 DEF MlmeDequeue, TakenSlot, QueueTypes, ThreadTypes, Handling, InHandler, NoSlot, Slots
  <2> QED
    BY <1>6, <2>1, <2>2, <2>3, CountedSame DEF MlmeDequeue
<1>7. ASSUME FreeElem PROVE TypeOK' /\ Counted'
  <2>1. Elem \in Slots
    BY <1>7 DEF FreeElem, ThreadTypes, Handling, NoSlot
  <2>2. GiveBack(Entry[Elem]) \in EntryType
    BY <2>1, RecordTypes DEF QueueTypes
  <2>3. (QueueTypes /\ CallTypes /\ HistTypes)'
    BY <1>7, <2>1, <2>2 DEF FreeElem, QueueTypes, CallTypes, HistTypes
  <2>4. ThreadTypes'
    BY <1>7 DEF FreeElem, ThreadTypes, Handling, InHandler, InInit
  <2> QED
    BY <1>7, <2>3, <2>4, CountedSame DEF FreeElem, Counted
<1>8. ASSUME ChannelSwitch PROVE TypeOK' /\ Counted'
  <2>1. TypeOK'
    BY <1>8 DEF ChannelSwitch, QueueTypes, CallTypes, ThreadTypes, HistTypes, Handling, InHandler, InInit
  <2> QED
    BY <1>8, <2>1, CountedSame DEF ChannelSwitch, Counted
<1>9. ASSUME MlmeQueueInit PROVE TypeOK' /\ Counted'
  <2>1. Num' \in {Num, 0} /\ QHead' \in {QHead, 0} /\ QTail' \in {QTail, 0} /\ 0 \in Slots
    BY <1>9 DEF MlmeQueueInit, Slots
  <2>2. Entry' = Entry \/ Entry' = [i \in Slots |-> Blank]
    BY <1>9 DEF MlmeQueueInit
  <2>3. QueueTypes'
    <3>1. Entry' \in [Slots -> EntryType]
      BY <2>2, RecordTypes DEF QueueTypes
    <3>2. Num' \in 0..MaxMsgs
      BY <2>1 DEF QueueTypes
    <3> QED
      BY <1>9, <2>1, <3>1, <3>2 DEF MlmeQueueInit, QueueTypes
  <2>4. (CallTypes /\ HistTypes)'
    BY <1>9 DEF MlmeQueueInit, CallTypes, HistTypes
  <2>5. ThreadTypes'
    BY <1>9 DEF MlmeQueueInit, ThreadTypes, Handling, InHandler, InInit
  <2>6. Num' <= accepted
    BY <2>1 DEF Counted, HistTypes
  <2> QED
    BY <1>9, <2>3, <2>4, <2>5, <2>6, CountedSame DEF MlmeQueueInit
<1>10. ASSUME NEW f \in PauseFlags, Suspend(f) \/ Resume(f) PROVE TypeOK' /\ Counted'
  <2>1. TypeOK'
    BY <1>10 DEF Suspend, Resume, queue, thread, hist, QueueTypes, CallTypes, ThreadTypes, HistTypes, Flags
  <2> QED
    BY <1>10, <2>1, CountedSame DEF Suspend, Resume, queue, Counted
<1>11. ASSUME Halt \/ MlmeQueueDestroy PROVE TypeOK' /\ Counted'
  <2>1. QueueTypes' /\ Num' <= accepted
    <3>1. CASE Halt
      BY <3>1 DEF Halt, queue, QueueTypes, Counted
    <3>2. CASE MlmeQueueDestroy
      BY <3>2, RecordTypes DEF MlmeQueueDestroy, QueueTypes, HistTypes
    <3> QED
      BY <1>11, <3>1, <3>2
  <2>2. (CallTypes /\ ThreadTypes /\ HistTypes)'
    BY <1>11 DEF Halt, MlmeQueueDestroy, queue, thread, hist, CallTypes, ThreadTypes, HistTypes, Flags
  <2> QED
    BY <1>11, <2>1, <2>2, CountedSame DEF Halt, MlmeQueueDestroy
<1>12. ASSUME UNCHANGED vars PROVE TypeOK' /\ Counted'
  <2>1. TypeOK'
    BY <1>12 DEF vars, queue, thread, hist, QueueTypes, CallTypes, ThreadTypes, HistTypes
  <2> QED
    BY <1>12, <2>1, CountedSame DEF vars, queue, Counted
<1> QED
  BY <1>1, <1>2, <1>3, <1>4, <1>5, <1>6, <1>7, <1>8, <1>9, <1>10, <1>11, <1>12
  DEF Next, CallStep, ThreadStep

\* The queue, the calls and the thread keep their types, whatever the senders do
\* and whenever a channel switch clears the queue.
THEOREM TypeCorrect == Spec => []TypeOK
<1>1. TypeOK /\ Counted /\ [Next]_vars => (TypeOK /\ Counted)'
  BY TypeStep
<1> QED
  BY CountedInit, <1>1, PTL DEF Spec

-----------------------------------------------------------------------------
(***************************************************************************)
(* The ring is a queue as long as Broken is false: IndInv is inductive.    *)
(***************************************************************************)

\* The slots as Slot names them.
LEMMA SlotFacts ==
  ASSUME QHead \in Slots
  PROVE  /\ M \in Nat \ {0} /\ Slots = 0..M - 1
         /\ \A i \in 0..M : Slot(i) \in Slots
         /\ \A i \in 0..M - 1 : Next1(Slot(i)) = Slot(i + 1)
         /\ Slot(0) = QHead /\ Slot(M) = QHead
         /\ \A i, j \in 0..M - 1 : Slot(i) = Slot(j) => i = j
         /\ \A s \in Slots : \E i \in 0..M - 1 : s = Slot(i)
<1>1. M \in Nat \ {0} /\ Slots = 0..M - 1 /\ M = MAX_LEN_OF_MLME_QUEUE
  BY MlmeQueueAssumption DEF M, Slots
<1>2. \A i \in 0..M : Slot(i) \in Slots
  BY <1>1, Remainder DEF Slot
<1>3. /\ \A i \in 0..M - 1 : Next1(Slot(i)) = Slot(i + 1)
      /\ Slot(0) = QHead /\ Slot(M) = QHead
  BY Turn, Zenon DEF Slot, M
<1>4. /\ \A i, j \in 0..M - 1 : Slot(i) = Slot(j) => i = j
      /\ \A s \in Slots : \E i \in 0..M - 1 : s = Slot(i)
  BY Turn, Zenon DEF Slot, M
<1> QED
  BY <1>1, <1>2, <1>3, <1>4

\* A step that moves neither the ring nor a writer leaves a sound queue sound.
LEMMA SoundSame ==
  ASSUME TypeOK, Sound,
         UNCHANGED <<queue, Elem, overrun, torn>>,
         \A c \in Callers : (Writing(c))' <=> Writing(c),
         \A c \in Callers : Writing(c) => call'[c].tail = call[c].tail /\ call'[c].num = call[c].num,
         \/ pc' = pc
         \/ pc \in {"wait", "loop"} /\ pc' \in {"wait", "loop", "exited"}
  PROVE  Sound'
<1> SUFFICES ASSUME ~Broken' PROVE Good'
  BY DEF Sound
<1>1. ~Broken /\ Good
  BY DEF Sound, Broken
<1>2. Locked'
  BY <1>1 DEF Good, Locked, queue
<1>3. CASE pc \in InInit
  <2>1. pc' = pc
    BY <1>3 DEF InInit
  <2>2. Clearing'
    BY <1>1, <1>3, <2>1 DEF Good, Clearing, queue
  <2> QED
    BY <1>2, <1>3, <2>1, <2>2 DEF Good
<1>4. CASE pc \notin InInit
  <2>0. pc' \notin InInit /\ (pc' = "handle" <=> pc = "handle") /\ (pc' # "exited" => pc # "exited")
    BY <1>4 DEF InInit
  <2>1. Current'
    BY <1>1, <1>4 DEF Good, Current, queue
  <2>2. Ring'
    BY <1>1, <1>4, <2>0 DEF Good, Ring, queue, Slot, Whole
  <2>3. pc' # "exited" => Tight'
    BY <1>1, <1>4, <2>0 DEF Good, Tight, queue, Slot
  <2> QED
    BY <1>2, <2>0, <2>1, <2>2, <2>3 DEF Good
<1> QED
  BY <1>3, <1>4

\* An insertion that meets neither MlmeQueueInit nor an occupied slot extends the ring.
LEMMA InsertWriteSound ==
  ASSUME TypeOK, Counted, TypeOK', Sound, NEW c \in Callers, InsertWrite(c), ~Broken'
  PROVE  /\ Good' /\ Good /\ pc \notin InInit
         /\ QTail = Slot(Num) /\ call[c].tail = QTail /\ Num < M /\ Num' = Num + 1
         /\ \A i \in 0..Num - 1 : Slot(i) # QTail
         /\ pc = "handle" => Elem # QTail
<1>1. Good /\ pc \notin InInit /\ ~Entry[call[c].tail].Occupied
  BY DEF InsertWrite, Broken, Sound
<1>2. Current /\ Ring /\ Locked /\ (pc # "exited" => Tight)
  BY <1>1 DEF Good
<1>3. call[c].tail = QTail /\ call[c].num = Num /\ Writing(c)
  BY <1>2 DEF InsertWrite, Current, Writing
<1>4. QHead \in Slots /\ QTail \in Slots /\ Num \in Nat
  BY MlmeQueueAssumption DEF TypeOK, QueueTypes
<1>5. M \in Nat \ {0} /\ Num <= M /\ QTail = Slot(Num)
  BY <1>2, <1>4, SlotFacts DEF Ring
<1>6. Num < M
  <2>1. SUFFICES ASSUME Num = M PROVE FALSE
    BY <1>4, <1>5
  <2>2. QTail = Slot(0) /\ 0 \in 0..Num - 1
    BY <1>4, <1>5, <2>1, SlotFacts
  <2> QED
    BY <1>1, <1>2, <1>3, <2>2 DEF Ring, Whole
<1>7. \A i \in 0..Num - 1 : Slot(i) # QTail
  BY <1>1, <1>2, <1>3 DEF Ring, Whole
<1>8. pc = "handle" => Elem # QTail /\ Num + 1 < M
  <2> SUFFICES ASSUME pc = "handle" PROVE Elem # QTail /\ Num + 1 < M
    OBVIOUS
  <2>1. Elem = Slot(M - 1) /\ Entry[Elem].Occupied
    BY <1>2 DEF Ring
  <2>2. Elem # QTail
    BY <1>1, <1>3, <2>1
  <2> QED
    BY <1>4, <1>5, <1>6, <2>1, <2>2
<1>9. /\ QTail' = Next1(QTail) /\ Num' = Num + 1 /\ QHead' = QHead /\ pc' = pc /\ Elem' = Elem
      /\ Entry' = [Entry EXCEPT ![QTail] = Message(c)]
  BY <1>3 DEF InsertWrite, thread
<1>10. Message(c).Occupied /\ Message(c).len = 1 /\ Message(c).msg \in 1..MaxMsgs
  BY MlmeQueueAssumption DEF TypeOK, HistTypes, InsertWrite, Message
<1>11. Entry'[QTail] = Message(c) /\ \A s \in Slots \ {QTail} : Entry'[s] = Entry[s]
  BY <1>4, <1>9 DEF TypeOK, QueueTypes
<1>12. Locked'
  BY <1>2, <1>3, RecordTypes, MlmeQueueAssumption
  DEF Locked, Writing, InsertWrite, TypeOK, CallTypes, CallType, Callers, Woken
<1>13. Current'
  BY <1>12, MlmeQueueAssumption DEF InsertWrite, Locked, Current, Callers
<1>14. Ring'
  <2>1. Num' <= M /\ QTail' = Slot(Num')
    BY <1>4, <1>5, <1>6, <1>9, SlotFacts
  <2>2. \A i \in Int : (Slot(i))' = Slot(i)
    BY <1>9 DEF Slot
  <2>3. \A i \in 0..Num' - 1 : Whole(Entry'[Slot(i)])
    <3> TAKE i \in 0..Num' - 1
    <3>1. CASE i = Num
      BY <1>5, <1>10, <1>11, <3>1 DEF Whole
    <3>2. CASE i # Num
      <4>1. i \in 0..Num - 1 /\ i \in 0..M
        BY <1>4, <1>5, <1>9, <3>2
      <4>2. Slot(i) \in Slots \ {QTail} /\ Whole(Entry[Slot(i)])
        BY <1>2, <1>4, <1>7, <4>1, SlotFacts DEF Ring
      <4> QED
        BY <1>11, <4>2
    <3> QED
      BY <3>1, <3>2
  <2>4. pc' = "handle" => /\ Elem' = Slot(M - 1) /\ Num' < M
                          /\ Entry'[Elem'].Occupied /\ Entry'[Elem'].msg \in 1..MaxMsgs
    <3> SUFFICES ASSUME pc' = "handle"
                 PROVE  /\ Elem' = Slot(M - 1) /\ Num' < M
                        /\ Entry'[Elem'].Occupied /\ Entry'[Elem'].msg \in 1..MaxMsgs
      OBVIOUS
    <3>1. M - 1 \in 0..M /\ Elem = Slot(M - 1) /\ Entry[Elem].Occupied /\ Entry[Elem].msg \in 1..MaxMsgs
      BY <1>2, <1>5, <1>9 DEF Ring
    <3>2. Elem \in Slots \ {QTail}
      BY <1>4, <1>8, <1>9, <3>1, SlotFacts
    <3> QED
      BY <1>4, <1>5, <1>8, <1>9, <1>11, <3>1, <3>2
  <2>5. M' = M /\ M - 1 \in Int /\ Num' \in Int /\ \A i \in 0..Num' - 1 : i \in Int
    BY <1>4, <1>5, <1>9 DEF M
  <2> QED
    BY <2>1, <2>2, <2>3, <2>4, <2>5 DEF Ring
<1>15. pc' # "exited" => Tight'
  <2> SUFFICES ASSUME pc' # "exited", NEW s \in Slots, Entry'[s].Occupied
               PROVE  (\E i \in 0..Num' - 1 : s = (Slot(i))') \/ (pc' = "handle" /\ s = Elem')
    BY DEF Tight
  <2>1. \A i \in Int : (Slot(i))' = Slot(i)
    BY <1>9 DEF Slot
  <2>2. CASE s = QTail
    <3>1. PICK j \in 0..Num' - 1 : j = Num
      BY <1>4, <1>9
    <3>2. s = (Slot(j))'
      BY <1>5, <2>1, <2>2, <3>1
    <3> QED
      BY <3>2
  <2>3. CASE s # QTail
    <3>1. (\E i \in 0..Num - 1 : s = Slot(i)) \/ (pc = "handle" /\ s = Elem)
      BY <1>2, <1>9, <1>11, <2>3 DEF Tight
    <3>2. \A i \in 0..Num - 1 : i \in 0..Num' - 1 /\ (Slot(i))' = Slot(i)
      BY <1>4, <1>9, <2>1
    <3> QED
      BY <1>9, <3>1, <3>2
  <2> QED
    BY <2>2, <2>3
<1>16. Good'
  BY <1>1, <1>9, <1>12, <1>13, <1>14, <1>15 DEF Good
<1> QED
  BY <1>1, <1>3, <1>5, <1>6, <1>7, <1>8, <1>9, <1>16

\* Taking a message moves the head, and its slot becomes the one before the head.
LEMMA DequeueSound ==
  ASSUME TypeOK, Sound, MlmeDequeue, ~Broken'
  PROVE  /\ Good' /\ Good /\ Num \in 1..M /\ Elem' = Slot(0)
         /\ \A i \in 0..M - 1 : (Slot(i))' = Slot(i + 1)
<1>1. Good /\ pc = "loop" /\ pc' = "handle" /\ pc \notin InInit /\ pc' \notin InInit
  BY DEF MlmeDequeue, hist, Broken, Sound, InInit
<1>2. Locked /\ Ring /\ Tight
  BY <1>1 DEF Good
<1>3. QHead \in Slots /\ QHead' = Next1(QHead) /\ Num' = Num - 1
      /\ UNCHANGED <<QTail, Entry, Lock, call>> /\ Lock = "none" /\ Elem' = QHead
  BY DEF MlmeDequeue, TypeOK, QueueTypes, TakenSlot
<1>4. Num \in 1..M /\ M \in Nat \ {0}
  BY <1>2, <1>3, SlotFacts, MlmeQueueAssumption DEF MlmeDequeue, MlmeQueueEmpty, TypeOK, QueueTypes, Ring
<1>5. ASSUME NEW i \in 0..M - 1 PROVE (Slot(i))' = Slot(i + 1)
  <2>1. (Next1(QHead) + i) % M = (QHead + (i + 1)) % M
    BY <1>3, Turn
  <2> QED
    BY <1>3, <2>1 DEF Slot, M
<1>6. Elem' = Slot(0) /\ Elem' = (Slot(M - 1))'
  <2>1. PICK j \in 0..M - 1 : j = M - 1
    BY <1>4
  <2>2. (Slot(j))' = Slot(M)
    BY <1>4, <1>5, <2>1
  <2>3. M' = M
    BY DEF M
  <2> QED
    BY <1>3, <2>1, <2>2, <2>3, SlotFacts
<1>7. Locked' /\ Current'
  BY <1>2, <1>3, MlmeQueueAssumption DEF Locked, Current, Writing, Callers
<1>8. Ring'
  <2>1. Num' <= M /\ Num' < M /\ Num' \in 0..M - 1
    BY <1>3, <1>4
  <2>2. QTail' = (Slot(Num))'
    <3>1. PICK j \in 0..M - 1 : j = Num'
      BY <2>1
    <3>2. (Slot(j))' = Slot(Num)
      BY <1>3, <1>4, <1>5, <3>1
    <3> QED
      BY <1>2, <1>3, <3>1, <3>2 DEF Ring
  <2>3. ASSUME NEW i \in 0..Num' - 1 PROVE Whole(Entry'[(Slot(i))'])
    <3>1. i \in 0..M - 1 /\ i + 1 \in 0..Num - 1
      BY <1>3, <1>4
    <3> QED
      BY <1>2, <1>3, <1>5, <3>1 DEF Ring
  <2>4. Entry'[Elem'].Occupied /\ Entry'[Elem'].msg \in 1..MaxMsgs
    <3>1. 0 \in 0..Num - 1
      BY <1>4
    <3> QED
      BY <1>2, <1>3, <1>6, <3>1 DEF Ring, Whole
  <2>5. M' = M
    BY DEF M
  <2> QED
    BY <1>6, <2>1, <2>2, <2>3, <2>4, <2>5 DEF Ring
<1>9. Tight'
  <2> SUFFICES ASSUME NEW s \in Slots, Entry'[s].Occupied
               PROVE  (\E i \in 0..Num' - 1 : s = (Slot(i))') \/ (pc' = "handle" /\ s = Elem')
    BY DEF Tight
  <2>1. PICK i \in 0..Num - 1 : s = Slot(i)
    BY <1>1, <1>2, <1>3 DEF Tight
  <2>2. CASE i = 0
    BY <1>1, <1>6, <2>1, <2>2
  <2>3. CASE i # 0
    <3>1. PICK j \in 0..Num' - 1 : i = j + 1
      BY <1>3, <1>4, <2>3
    <3>2. s = (Slot(j))'
      BY <1>3, <1>4, <1>5, <2>1, <3>1
    <3> QED
      BY <3>2
  <2> QED
    BY <2>2, <2>3
<1>10. Good'
  BY <1>1, <1>7, <1>8, <1>9 DEF Good
<1> QED
  BY <1>1, <1>4, <1>5, <1>6, <1>10

\* Giving the element back touches no slot that holds a message.
LEMMA FreeElemSound ==
  ASSUME TypeOK, Sound, FreeElem, ~Broken'
  PROVE  /\ Good' /\ Good /\ Elem \in Slots
         /\ \A i \in 0..Num - 1 : Slot(i) \in Slots \ {Elem} /\ Entry'[Slot(i)] = Entry[Slot(i)]
<1>1. Good /\ pc \in {"handle", "cleared"} /\ pc' = "loop" /\ pc \notin InInit /\ pc' \notin InInit
  BY DEF FreeElem, Broken, Sound, InInit, InHandler
<1>2. Locked /\ Current /\ Ring /\ Tight
  BY <1>1 DEF Good
<1>3. Elem \in Slots /\ QHead \in Slots /\ Num \in Nat
  BY MlmeQueueAssumption DEF FreeElem, TypeOK, ThreadTypes, QueueTypes, Handling, NoSlot
<1>4. M \in Nat \ {0} /\ Num <= M
  BY <1>2, <1>3, SlotFacts DEF Ring
<1>5. ASSUME NEW i \in 0..Num - 1 PROVE Slot(i) \in Slots \ {Elem}
  <2>1. i \in 0..M - 1 /\ i \in 0..M
    BY <1>3, <1>4
  <2>2. Slot(i) \in Slots
    BY <1>3, <2>1, SlotFacts
  <2>3. CASE pc = "handle"
    <3>1. Elem = Slot(M - 1) /\ i # M - 1 /\ M - 1 \in 0..M - 1
      BY <1>2, <1>3, <1>4, <2>3 DEF Ring
    <3> QED
      BY <1>3, <2>1, <2>2, <3>1, SlotFacts
  <2>4. CASE pc = "cleared"
    <3>1. ~Entry[Elem].Occupied
      BY <2>4 DEF FreeElem, Broken
    <3> QED
      BY <1>2, <2>2, <3>1 DEF Ring, Whole
  <2> QED
    BY <1>1, <2>3, <2>4
<1>6. /\ UNCHANGED <<Num, QHead, QTail, Lock, call>>
      /\ Entry'[Elem] = GiveBack(Entry[Elem]) /\ \A s \in Slots \ {Elem} : Entry'[s] = Entry[s]
  BY <1>3 DEF FreeElem, TypeOK, QueueTypes
<1>7. ~Entry'[Elem].Occupied
  BY <1>3, <1>6 DEF GiveBack, TypeOK, QueueTypes, EntryType
<1>8. \A i \in Int : (Slot(i))' = Slot(i)
  BY <1>6 DEF Slot
<1>9. Locked' /\ Current'
  BY <1>2, <1>6 DEF Locked, Current, Writing
<1>10. Ring'
  <2>1. \A i \in 0..Num' - 1 : Whole(Entry'[(Slot(i))'])
    BY <1>2, <1>5, <1>6, <1>8 DEF Ring
  <2>2. QTail' = (Slot(Num))'
    BY <1>2, <1>6 DEF Ring, Slot
  <2>3. M' = M
    BY DEF M
  <2> QED
    BY <1>1, <1>4, <1>6, <2>1, <2>2, <2>3 DEF Ring
<1>11. Tight'
  <2> SUFFICES ASSUME NEW s \in Slots, Entry'[s].Occupied
               PROVE  \E i \in 0..Num' - 1 : s = (Slot(i))'
    BY DEF Tight
  <2>1. s # Elem /\ Entry[s].Occupied
    BY <1>6, <1>7
  <2> QED
    BY <1>2, <1>6, <1>8, <2>1 DEF Tight
<1>12. Good'
  BY <1>1, <1>9, <1>10, <1>11 DEF Good
<1> QED
  BY <1>1, <1>3, <1>5, <1>6, <1>12

\* A channel switch that meets no insertion clears the queue, and so does MlmeHalt.
LEMMA ClearSound ==
  ASSUME TypeOK, Sound, ~Broken'
  PROVE  /\ ChannelSwitch => Good'
         /\ MlmeQueueInit => Good'
         /\ MlmeQueueDestroy => Good'
<1> USE MlmeQueueAssumption
<1>0. 0 \in Slots /\ M \in Nat \ {0} /\ M' = M
  BY RecordTypes DEF M
<1>1. ASSUME ChannelSwitch PROVE Good'
  <2>1. Good /\ \A c \in Callers : ~Writing(c)
    BY <1>1 DEF ChannelSwitch, Broken, Sound, Writing
  <2>2. Locked'
    BY <1>1, <2>1 DEF ChannelSwitch, Locked, Writing, Callers
  <2> QED
    BY <1>1, <2>2 DEF ChannelSwitch, Good, Clearing, InInit
<1>2. ASSUME MlmeQueueInit PROVE Good'
  <2>1. Good /\ pc \in InInit /\ \A c \in Callers : ~Writing(c)
    BY <1>2 DEF MlmeQueueInit, Broken, Sound, Writing, InInit
  <2>2. Locked' /\ Current' /\ Clearing
    BY <1>2, <2>1 DEF MlmeQueueInit, Good, Locked, Current, Writing
  <2>3. CASE pc # "init_entries"
    BY <1>2, <2>2, <2>3 DEF MlmeQueueInit, Good, Clearing, InInit
  <2>4. CASE pc = "init_entries"
    <3>1. /\ pc' = "cleared" /\ Num' = 0 /\ QHead' = 0 /\ QTail' = 0
          /\ Entry' = [i \in Slots |-> Blank]
      BY <1>2, <2>2, <2>4 DEF MlmeQueueInit, Clearing
    <3>2. QTail' = (Slot(Num))'
      BY <3>1, <1>0 DEF Slot, M
    <3>3. Ring'
      BY <1>0, <3>1, <3>2 DEF Ring
    <3>4. Tight'
      BY <3>1 DEF Tight, Blank
    <3> QED
      BY <2>2, <3>1, <3>3, <3>4 DEF Good, InInit
  <2> QED
    BY <2>3, <2>4
<1>3. ASSUME MlmeQueueDestroy PROVE Good'
  <2>1. Good /\ pc \notin InInit /\ pc' = "exited" /\ pc' \notin InInit
    BY <1>3 DEF MlmeQueueDestroy, thread, hist, Broken, Sound, InInit
  <2>2. Locked' /\ Current'
    BY <1>3, <2>1 DEF MlmeQueueDestroy, Good, Locked, Current, Writing, Callers
  <2>3. QTail' = (Slot(Num))'
    BY <1>3, <1>0 DEF MlmeQueueDestroy, Slot, M
  <2>4. Ring'
    BY <1>0, <1>3, <2>1, <2>3 DEF MlmeQueueDestroy, Ring
  <2> QED
    BY <2>1, <2>2, <2>4 DEF Good
<1> QED
  BY <1>1, <1>2, <1>3

\* The queue is sound at first.
LEMMA IndInit == Init => IndInv
<1> SUFFICES ASSUME Init PROVE IndInv
  OBVIOUS
<1>1. TypeOK /\ Counted
  BY CountedInit
<1>2. Locked /\ Current
  BY MlmeQueueAssumption DEF Init, Locked, Current, Writing, Idle, Callers
<1>3. M \in Nat \ {0} /\ Num = 0 /\ QTail = Slot(Num)
  BY MlmeQueueAssumption DEF Init, Slot, M
<1>4. Ring /\ Tight
  BY <1>3 DEF Init, Ring, Tight, Blank
<1> QED
  BY <1>1, <1>2, <1>4 DEF IndInv, Sound, Good, Init, InInit

\* What is broken stays broken.
LEMMA BrokenStays == TypeOK /\ [Next]_vars /\ Broken => Broken'
BY DEF TypeOK, HistTypes, Broken, Next, vars, queue, thread, hist, CallStep, ThreadStep, Test, InsertRead,
       InsertWrite, Wake, MlmePeriodicExec, TaskWait, MlmeDequeue, LeaveLoop, FreeElem, MlmeQueueInit,
       MlmeThreadExit, ChannelSwitch, Suspend, Resume, Halt, MlmeQueueDestroy

\* The steps that concern neither the ring nor a writer, and InsertRead.
Aside ==
  \/ \E c \in Callers : Wake(c) \/ \E wake \in BOOLEAN : Test(c, wake)
  \/ MlmePeriodicExec \/ TaskWait \/ LeaveLoop \/ MlmeThreadExit
  \/ \E f \in PauseFlags : Suspend(f) \/ Resume(f)
  \/ Halt \/ UNCHANGED vars

\* What those steps leave alone.
LEMMA AsideFacts ==
  ASSUME TypeOK, Aside
  PROVE  /\ UNCHANGED <<queue, Elem, overrun, torn>>
         /\ \A c \in Callers : (Writing(c))' <=> Writing(c)
         /\ \A c \in Callers : Writing(c) => call'[c].tail = call[c].tail /\ call'[c].num = call[c].num
         /\ \/ pc' = pc
            \/ pc \in {"wait", "loop"} /\ pc' \in {"wait", "loop", "exited"}
<1>1. ASSUME NEW c \in Callers, Wake(c) \/ \E wake \in BOOLEAN : Test(c, wake)
      PROVE  /\ UNCHANGED <<queue, Elem, overrun, torn, pc>>
             /\ ~Writing(c) /\ ~Writing(c)' /\ \A d \in Callers \ {c} : call'[d] = call[d]
  <2>1. CASE Wake(c)
    BY <2>1, RecordTypes DEF Wake, thread, hist, Writing, TypeOK, CallTypes
  <2>2. CASE \E wake \in BOOLEAN : Test(c, wake)
    BY <2>2 DEF Test, thread, hist, Writing, TypeOK, CallTypes, CallType
  <2> QED
    BY <1>1, <2>1, <2>2
<1>2. CASE \E c \in Callers : Wake(c) \/ \E wake \in BOOLEAN : Test(c, wake)
  BY <1>1, <1>2 DEF Writing
<1>3. CASE ~ \E c \in Callers : Wake(c) \/ \E wake \in BOOLEAN : Test(c, wake)
  <2>1. call' = call /\ UNCHANGED <<queue, Elem, overrun, torn>>
    BY <1>3 DEF Aside, vars, queue, thread, hist, MlmePeriodicExec, TaskWait, LeaveLoop, MlmeThreadExit,
                Suspend, Resume, Halt
  <2>2. pc' = pc \/ (pc \in {"wait", "loop"} /\ pc' \in {"wait", "loop", "exited"})
    BY <1>3 DEF Aside, vars, thread, MlmePeriodicExec, TaskWait, LeaveLoop, MlmeThreadExit, Suspend,
                Resume, Halt
  <2> QED
    BY <2>1, <2>2 DEF Writing
<1> QED
  BY <1>2, <1>3

\* Taking the lock to read Tail and Num.
LEMMA InsertReadSound ==
  ASSUME TypeOK, Sound, NEW c \in Callers, InsertRead(c)
  PROVE  Sound'
<1> SUFFICES ASSUME ~Broken' PROVE Good'
  BY DEF Sound
<1>1. Good /\ UNCHANGED <<Num, QHead, QTail, Entry, pc, Elem>>
  BY DEF InsertRead, hist, thread, Broken, Sound
<1>2. \A d \in Callers : ~Writing(d)
  BY <1>1, MlmeQueueAssumption DEF InsertRead, Good, Locked, Callers
<1>3. /\ Writing(c)' /\ call'[c].tail = QTail /\ call'[c].num = Num
      /\ \A d \in Callers \ {c} : call'[d] = call[d]
  BY DEF InsertRead, Writing, TypeOK, CallTypes, CallType
<1>4. Locked' /\ Current'
  BY <1>1, <1>2, <1>3 DEF InsertRead, Locked, Current, Writing
<1>5. (Clearing => Clearing') /\ (Ring => Ring') /\ (Tight => Tight')
  BY <1>1 DEF Clearing, Ring, Tight, Slot, Whole
<1> QED
  BY <1>1, <1>4, <1>5 DEF Good

\* The steps of the thread and of the senders, by what they do to the ring.
LEMMA StepCases ==
  ASSUME [Next]_vars
  PROVE  \/ Aside
         \/ \E c \in Callers : InsertRead(c) \/ InsertWrite(c)
         \/ MlmeDequeue \/ FreeElem \/ ChannelSwitch \/ MlmeQueueInit \/ MlmeQueueDestroy
BY DEF Next, CallStep, ThreadStep, Aside

\* IndInv is inductive.
LEMMA IndStep == IndInv /\ [Next]_vars => IndInv'
<1> SUFFICES ASSUME IndInv, [Next]_vars PROVE IndInv'
  OBVIOUS
<1>1. TypeOK /\ Counted /\ Sound /\ TypeOK' /\ Counted'
  BY TypeStep DEF IndInv
<1>2. ASSUME Aside PROVE Sound'
  BY <1>1, <1>2, AsideFacts, SoundSame
<1>3. ASSUME NEW c \in Callers, InsertRead(c) PROVE Sound'
  BY <1>1, <1>3, InsertReadSound
<1>4. ASSUME NEW c \in Callers, InsertWrite(c) PROVE Sound'
  BY <1>1, <1>4, InsertWriteSound DEF Sound
<1>5. ASSUME MlmeDequeue PROVE Sound'
  BY <1>1, <1>5, DequeueSound DEF Sound
<1>6. ASSUME FreeElem PROVE Sound'
  BY <1>1, <1>6, FreeElemSound DEF Sound
<1>7. ASSUME ChannelSwitch \/ MlmeQueueInit \/ MlmeQueueDestroy PROVE Sound'
  BY <1>1, <1>7, ClearSound DEF Sound
<1> QED
  BY <1>1, <1>2, <1>3, <1>4, <1>5, <1>6, <1>7, StepCases DEF IndInv

\* A message goes over another only in a queue that is full, while the thread
\* lives and no insertion overlaps MlmeQueueInit.
THEOREM NoEarlyOverrun == Spec => OverrunOnlyWhenFull
<1> DEFINE Full == overrun' /\ ~overrun /\ ~torn' /\ pc # "exited" => Num >= MAX_LEN_OF_MLME_QUEUE - 1
<1>1. IndInv /\ [Next]_vars => [Full]_vars
  <2> SUFFICES ASSUME IndInv, [Next]_vars, overrun', ~overrun, ~torn', pc # "exited"
               PROVE  Num >= MAX_LEN_OF_MLME_QUEUE - 1
    OBVIOUS
  <2>1. PICK c \in Callers : InsertWrite(c)
    BY DEF Next, vars, hist, CallStep, ThreadStep, Test, InsertRead, Wake, MlmePeriodicExec, TaskWait,
           MlmeDequeue, LeaveLoop, FreeElem, MlmeQueueInit, MlmeThreadExit, ChannelSwitch, Suspend,
           Resume, Halt, MlmeQueueDestroy
  <2>2. ~torn /\ pc \notin InInit /\ Entry[call[c].tail].Occupied /\ Writing(c)
    BY <2>1 DEF InsertWrite, Writing
  <2>3. Current /\ Ring /\ Tight
    BY <2>2 DEF IndInv, Sound, Broken, Good
  <2>4. QHead \in Slots /\ QTail \in Slots /\ Num \in Nat /\ M = MAX_LEN_OF_MLME_QUEUE
    BY MlmeQueueAssumption DEF IndInv, TypeOK, QueueTypes, M
  <2>5. QTail = Slot(Num) /\ Num <= M /\ M \in Nat \ {0} /\ Entry[QTail].Occupied
    BY <2>2, <2>3, <2>4, SlotFacts DEF Current, Ring
  <2> SUFFICES ASSUME Num < M - 1 PROVE FALSE
    BY <2>4, <2>5
  <2>6. CASE pc = "handle" /\ QTail = Elem
    <3>1. Slot(Num) = Slot(M - 1) /\ Num \in 0..M - 1 /\ M - 1 \in 0..M - 1
      BY <2>3, <2>4, <2>5, <2>6 DEF Ring
    <3>2. Num = M - 1
      BY <2>4, <3>1, SlotFacts
    <3> QED
      BY <2>4, <2>5, <3>2
  <2>7. ASSUME NEW i \in 0..Num - 1, QTail = Slot(i) PROVE FALSE
    <3>1. i \in 0..M - 1 /\ Num \in 0..M - 1 /\ i # Num
      BY <2>4, <2>5
    <3> QED
      BY <2>4, <2>5, <2>7, <3>1, SlotFacts
  <2> QED
    BY <2>3, <2>4, <2>5, <2>6, <2>7 DEF Tight
<1> QED
  BY IndInit, IndStep, <1>1, PTL DEF Spec, OverrunOnlyWhenFull

-----------------------------------------------------------------------------
(***************************************************************************)
(* The ring implements MlmeFifo.                                           *)
(***************************************************************************)

\* The refinement mapping, by name.
AbsQueue == [i \in 1..Num |-> Content(Entry[Slot(i - 1)])]
\* The abstract variables, as FifoSpec maps them.
AbsTaken == IF pc = "handle" THEN Entry[Elem].msg ELSE NoSlot
Ids == 0..MaxMsgs

\* A sequence with one more entry, one less in front, or none.
LEMMA SeqSteps ==
  ASSUME NEW f \in Seq(Ids), NEW g \in Seq(Ids)
  PROVE  /\ Len(g) = Len(f) + 1 /\ (\A i \in 1..Len(f) : g[i] = f[i]) => g = Append(f, g[Len(g)])
         /\ Len(g) = Len(f) - 1 /\ (\A i \in 1..Len(g) : g[i] = f[i + 1])
              => f # << >> /\ Head(f) = f[1] /\ g = Tail(f)
         /\ Len(g) = 0 => g = << >>
<1>0. Len(f) \in Nat /\ Len(g) \in Nat
  BY LenProperties
<1>1. ASSUME Len(g) = Len(f) + 1, \A i \in 1..Len(f) : g[i] = f[i]
      PROVE  g = Append(f, g[Len(g)])
  <2>1. g[Len(g)] \in Ids
    BY <1>0, <1>1, LenProperties
  <2> QED
    BY <1>0, <1>1, <2>1, AppendProperties, SeqEqual
<1>2. ASSUME Len(g) = Len(f) - 1, \A i \in 1..Len(g) : g[i] = f[i + 1]
      PROVE  f # << >> /\ Head(f) = f[1] /\ g = Tail(f)
  <2>1. f # << >>
    BY <1>0, <1>2, EmptySeq
  <2> QED
    BY <1>2, <2>1, HeadTailProperties, SeqEqual
<1> QED
  BY <1>1, <1>2, EmptySeq

\* What the mapping says about the abstract queue.
AbsShape ==
  /\ AbsQueue \in Seq(Ids) /\ Len(AbsQueue) = Num
  /\ \A i \in 1..Num : AbsQueue[i] = Entry[Slot(i - 1)].msg

\* The abstract queue has the length Num and holds the messages of its slots.
LEMMA AbsFacts == TypeOK /\ Good /\ pc \notin InInit => AbsShape
<1> SUFFICES ASSUME TypeOK, Good, pc \notin InInit PROVE AbsShape
  OBVIOUS
<1>1. Ring /\ Num \in Nat /\ QHead \in Slots
  BY MlmeQueueAssumption DEF Good, TypeOK, QueueTypes
<1>2. ASSUME NEW i \in 1..Num
      PROVE  /\ Content(Entry[Slot(i - 1)]) = Entry[Slot(i - 1)].msg
             /\ Entry[Slot(i - 1)].msg \in Ids
  <2>1. i - 1 \in 0..Num - 1 /\ Whole(Entry[Slot(i - 1)])
    BY <1>1 DEF Ring
  <2> QED
    BY <2>1, MlmeQueueAssumption DEF Whole, Content, Ids
<1>3. AbsQueue \in [1..Num -> Ids]
  BY <1>2 DEF AbsQueue
<1>4. AbsQueue \in Seq(Ids) /\ Len(AbsQueue) = Num
  BY <1>1, <1>3
<1> QED
  BY <1>2, <1>4 DEF AbsQueue, AbsShape

\* An empty ring is an empty queue, also in the middle of MlmeQueueInit.
LEMMA AbsEmpty ==
  /\ Num = 0 => AbsQueue = << >>
  /\ Num' = 0 => AbsQueue' = << >>
<1>1. ASSUME NEW f \in [1..0 -> Ids] PROVE f = << >>
  <2>1. f \in Seq(Ids) /\ Len(f) = 0
    OBVIOUS
  <2> QED
    BY <2>1, EmptySeq
<1>2. Num = 0 => AbsQueue \in [1..0 -> Ids]
  BY DEF AbsQueue
<1>3. Num' = 0 => AbsQueue' \in [1..0 -> Ids]
  BY DEF AbsQueue
<1> QED
  BY <1>1, <1>2, <1>3

AbsPut   == \E m \in 1..MaxMsgs : AbsQueue' = Append(AbsQueue, m) /\ AbsTaken' = AbsTaken
AbsTake  == /\ AbsQueue # << >> /\ AbsTaken = NoSlot
            /\ AbsTaken' = Head(AbsQueue) /\ AbsQueue' = Tail(AbsQueue)
AbsDone  == AbsTaken # NoSlot /\ AbsTaken' = NoSlot /\ AbsQueue' = AbsQueue
\* The abstract queue is cleared.
AbsClear == AbsQueue' = << >> /\ AbsTaken' = AbsTaken
AbsSame  == AbsQueue' = AbsQueue /\ AbsTaken' = AbsTaken

\* An insertion appends.
LEMMA InsertWriteAbs ==
  ASSUME IndInv, IndInv', NEW c \in Callers, InsertWrite(c), ~Broken'
  PROVE  AbsPut
<1>1. /\ Good /\ Good' /\ pc \notin InInit
      /\ QTail = Slot(Num) /\ call[c].tail = QTail /\ Num < M /\ Num' = Num + 1
      /\ \A i \in 0..Num - 1 : Slot(i) # QTail
      /\ pc = "handle" => Elem # QTail
  BY InsertWriteSound DEF IndInv
<1>2. pc' = pc /\ Elem' = Elem /\ QHead' = QHead /\ Entry' = [Entry EXCEPT ![QTail] = Message(c)]
  BY <1>1 DEF InsertWrite, thread
<1>3. QTail \in Slots /\ QHead \in Slots /\ Num \in Nat /\ DOMAIN Entry = Slots
  BY MlmeQueueAssumption DEF IndInv, TypeOK, QueueTypes
<1>4. AbsQueue \in Seq(Ids) /\ Len(AbsQueue) = Num
      /\ \A i \in 1..Num : AbsQueue[i] = Entry[Slot(i - 1)].msg
  BY <1>1, AbsFacts DEF IndInv, AbsShape
<1>5. AbsQueue' \in Seq(Ids) /\ Len(AbsQueue') = Num'
      /\ \A i \in 1..Num' : AbsQueue'[i] = Entry'[(Slot(i - 1))'].msg
  <2>1. (TypeOK /\ Good /\ pc \notin InInit)'
    BY <1>1, <1>2 DEF IndInv
  <2>2. AbsShape'
    BY <2>1, AbsFacts, PTL
  <2> QED
    BY <2>2 DEF AbsShape
<1>6. \A i \in Int : (Slot(i))' = Slot(i)
  BY <1>2 DEF Slot
<1>7. ASSUME NEW i \in 1..Num PROVE AbsQueue'[i] = AbsQueue[i]
  <2>1. i \in 1..Num' /\ i - 1 \in 0..Num - 1 /\ i - 1 \in Int /\ Slot(i - 1) # QTail
    BY <1>1, <1>3
  <2>2. i - 1 \in 0..M /\ Slot(i - 1) \in Slots
    BY <1>1, <1>3, <2>1, SlotFacts
  <2> QED
    BY <1>2, <1>3, <1>4, <1>5, <1>6, <2>1, <2>2
<1>8. AbsQueue'[Num'] \in 1..MaxMsgs
  <2>1. Num' \in 1..Num' /\ Num' - 1 = Num
    BY <1>1, <1>3
  <2>2. AbsQueue'[Num'] = Entry'[Slot(Num)].msg
    <3>1. PICK n \in Nat : n = Num' /\ n - 1 = Num
      BY <1>1, <1>3
    <3>2. (Slot(n - 1))' = Slot(Num)
      BY <1>6, <3>1
    <3> QED
      BY <1>5, <2>1, <3>1, <3>2
  <2>3. Message(c).msg \in 1..MaxMsgs
    BY MlmeQueueAssumption DEF IndInv, TypeOK, HistTypes, InsertWrite, Message
  <2> QED
    BY <1>1, <1>2, <1>3, <2>2, <2>3
<1>9. AbsQueue' = Append(AbsQueue, AbsQueue'[Num'])
  BY <1>1, <1>4, <1>5, <1>7, SeqSteps
<1>10. AbsTaken' = AbsTaken
  BY <1>1, <1>2, <1>3 DEF AbsTaken
<1> QED
  BY <1>8, <1>9, <1>10 DEF AbsPut

\* Taking up a message takes the first.
LEMMA DequeueAbs ==
  ASSUME IndInv, IndInv', MlmeDequeue, ~Broken'
  PROVE  AbsTake
<1>1. /\ Good' /\ Good /\ Num \in 1..M /\ Elem' = Slot(0)
      /\ \A i \in 0..M - 1 : (Slot(i))' = Slot(i + 1)
  BY DequeueSound DEF IndInv
<1>2. pc = "loop" /\ pc' = "handle" /\ Num' = Num - 1 /\ Entry' = Entry
  BY DEF MlmeDequeue
<1>3. M \in Nat \ {0} /\ Num \in Nat /\ Num' \in Nat
  BY <1>1, <1>2, MlmeQueueAssumption DEF M
<1>4. AbsQueue \in Seq(Ids) /\ Len(AbsQueue) = Num
      /\ \A i \in 1..Num : AbsQueue[i] = Entry[Slot(i - 1)].msg
  BY <1>1, <1>2, AbsFacts DEF IndInv, AbsShape, InInit
<1>5. AbsQueue' \in Seq(Ids) /\ Len(AbsQueue') = Num'
      /\ \A i \in 1..Num' : AbsQueue'[i] = Entry'[(Slot(i - 1))'].msg
  <2>1. (TypeOK /\ Good /\ pc \notin InInit)'
    BY <1>1, <1>2 DEF IndInv, InInit
  <2>2. AbsShape'
    BY <2>1, AbsFacts, PTL
  <2> QED
    BY <2>2 DEF AbsShape
<1>6. ASSUME NEW i \in 1..Num' PROVE AbsQueue'[i] = AbsQueue[i + 1]
  <2>1. i - 1 \in 0..M - 1 /\ i + 1 \in 1..Num /\ (i - 1) + 1 = (i + 1) - 1
    BY <1>1, <1>2, <1>3
  <2>2. (Slot(i - 1))' = Slot((i + 1) - 1)
    BY <1>1, <2>1
  <2> QED
    BY <1>2, <1>4, <1>5, <2>1, <2>2
<1>7. AbsQueue # << >> /\ Head(AbsQueue) = AbsQueue[1] /\ AbsQueue' = Tail(AbsQueue)
  BY <1>2, <1>4, <1>5, <1>6, SeqSteps
<1>8. AbsQueue[1] = Entry[Slot(0)].msg
  <2>1. 1 \in 1..Num /\ 1 - 1 = 0
    BY <1>1, <1>3
  <2> QED
    BY <1>4, <2>1
<1>9. AbsTaken = NoSlot /\ AbsTaken' = Entry[Slot(0)].msg
  BY <1>1, <1>2 DEF AbsTaken
<1> QED
  BY <1>7, <1>8, <1>9 DEF AbsTake

\* Giving the element back ends the handling, or changes nothing after a clearing.
LEMMA FreeElemAbs ==
  ASSUME IndInv, FreeElem, ~Broken'
  PROVE  AbsDone \/ AbsSame
<1>1. /\ Good /\ Elem \in Slots
      /\ \A i \in 0..Num - 1 : Entry'[Slot(i)] = Entry[Slot(i)]
  BY FreeElemSound DEF IndInv
<1>2. pc \in {"handle", "cleared"} /\ pc' = "loop" /\ Num' = Num /\ QHead' = QHead
  BY DEF FreeElem, InHandler
<1>3. AbsQueue' = AbsQueue
  <2>1. Num \in Nat
    BY MlmeQueueAssumption DEF IndInv, TypeOK, QueueTypes
  <2>2. ASSUME NEW i \in 1..Num PROVE Content(Entry'[(Slot(i - 1))']) = Content(Entry[Slot(i - 1)])
    <3>1. i - 1 \in 0..Num - 1 /\ (Slot(i - 1))' = Slot(i - 1)
      BY <1>2, <2>1 DEF Slot
    <3> QED
      BY <1>1, <3>1
  <2> QED
    BY <1>2, <2>2 DEF AbsQueue
<1>4. AbsTaken' = NoSlot
  BY <1>2 DEF AbsTaken
<1>5. pc = "handle" => AbsTaken # NoSlot
  BY <1>1 DEF Good, Ring, AbsTaken, NoSlot, InInit
<1>6. pc = "cleared" => AbsTaken = NoSlot
  BY DEF AbsTaken
<1> QED
  BY <1>2, <1>3, <1>4, <1>5, <1>6 DEF AbsDone, AbsSame

\* A step that keeps the ring and the entries keeps the abstract queue.
LEMMA AbsQueueSame == UNCHANGED <<Num, QHead, Entry>> => AbsQueue' = AbsQueue
BY DEF AbsQueue, Slot, Content

\* A channel switch ends the handling and clears the queue; so does MlmeHalt.
LEMMA ClearAbs ==
  ASSUME IndInv, ~Broken'
  PROVE  /\ ChannelSwitch => AbsDone
         /\ MlmeQueueInit => AbsClear
         /\ MlmeQueueDestroy => AbsClear
<1>1. ASSUME ChannelSwitch PROVE AbsDone
  <2>1. Good /\ pc = "handle" /\ pc' = "init_num" /\ pc \notin InInit
    BY <1>1 DEF ChannelSwitch, IndInv, Sound, Broken, InInit
  <2>2. AbsQueue' = AbsQueue
    BY <1>1, AbsQueueSame DEF ChannelSwitch
  <2> QED
    BY <2>1, <2>2 DEF AbsDone, AbsTaken, Good, Ring, NoSlot
<1>2. ASSUME MlmeQueueInit PROVE AbsClear
  <2>1. Good /\ pc \in InInit /\ pc' # "handle" /\ pc # "handle"
    BY <1>2 DEF MlmeQueueInit, IndInv, Sound, Broken, InInit
  <2>2. Num' = 0
    BY <1>2, <2>1 DEF MlmeQueueInit, Good, Clearing
  <2>3. AbsQueue' = << >>
    BY <2>2, AbsEmpty
  <2> QED
    BY <2>1, <2>3 DEF AbsClear, AbsTaken
<1>3. ASSUME MlmeQueueDestroy PROVE AbsClear
  <2>1. Num' = 0 /\ pc' = pc /\ pc # "handle"
    BY <1>3 DEF MlmeQueueDestroy, thread
  <2>2. AbsQueue' = << >>
    BY <2>1, AbsEmpty
  <2> QED
    BY <2>1, <2>2 DEF AbsClear, AbsTaken
<1> QED
  BY <1>1, <1>2, <1>3

\* The steps that leave the ring alone are stuttering steps of MlmeFifo.
LEMMA AsideAbs ==
  ASSUME TypeOK, Aside \/ \E c \in Callers : InsertRead(c)
  PROVE  AbsSame
<1>1. /\ UNCHANGED <<Num, QHead, Entry, Elem>>
      /\ pc' = pc \/ (pc \in {"wait", "loop"} /\ pc' \in {"wait", "loop", "exited"})
  BY AsideFacts DEF queue, InsertRead, thread
<1> QED
  BY <1>1, AbsQueueSame DEF AbsSame, AbsTaken

\* Until a message is put over another or an insertion overlaps MlmeQueueInit, the
\* ring is a first-in first-out queue with one consumer: it implements MlmeFifo.
THEOREM ImplementsFifo == Spec => FifoSpec
<1>1. Init => Fifo!Init
  <2> SUFFICES ASSUME Init PROVE Fifo!Init
    OBVIOUS
  <2>1. AbsQueue = << >> /\ AbsTaken = NoSlot
    BY AbsEmpty DEF Init, AbsTaken
  <2> QED
    BY <2>1 DEF Init, Fifo!Init, AbsQueue, AbsTaken, Broken
<1>2. IndInv /\ IndInv' /\ [Next]_vars => [Fifo!Next]_<<AbsQueue, AbsTaken, Broken>>
  <2> SUFFICES ASSUME IndInv, IndInv', [Next]_vars
               PROVE  Fifo!Next \/ UNCHANGED <<AbsQueue, AbsTaken, Broken>>
    OBVIOUS
  <2>1. Broken \in BOOLEAN /\ Broken' \in BOOLEAN
    BY DEF Broken
  <2>2. CASE Broken'
    BY <2>1, <2>2 DEF Fifo!Next, Fifo!Break
  <2>3. CASE ~Broken'
    <3>1. ~Broken /\ Broken' = Broken /\ TypeOK
      BY <2>1, <2>3, BrokenStays DEF IndInv
    <3>2. AbsPut \/ AbsTake \/ AbsDone \/ AbsClear \/ AbsSame
      BY <2>3, <3>1, StepCases, InsertWriteAbs, DequeueAbs, FreeElemAbs, ClearAbs, AsideAbs
    <3>3. AbsPut => Fifo!Put
      BY <3>1 DEF AbsPut, Fifo!Put, AbsQueue, AbsTaken
    <3>4. AbsTake => Fifo!Take
      BY <3>1 DEF AbsTake, Fifo!Take, AbsQueue, AbsTaken
    <3>5. AbsDone => Fifo!Done
      BY <3>1 DEF AbsDone, Fifo!Done, AbsQueue, AbsTaken
    <3>6. AbsClear => Fifo!Clear
      BY <3>1 DEF AbsClear, Fifo!Clear, AbsQueue, AbsTaken
    <3> QED
      BY <3>1, <3>2, <3>3, <3>4, <3>5, <3>6 DEF Fifo!Next, AbsSame
  <2> QED
    BY <2>2, <2>3
<1>3. Spec => []IndInv
  BY IndInit, IndStep, PTL DEF Spec
<1> QED
  BY <1>1, <1>2, <1>3, PTL DEF Spec, FifoSpec, Fifo!Spec, AbsQueue, AbsTaken
=============================================================================
