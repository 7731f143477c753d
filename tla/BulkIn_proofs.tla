--------------------------- MODULE BulkIn_proofs ----------------------------
(***************************************************************************)
(* Proofs about BulkIn, for a ring of any size up to 255 contexts and any  *)
(* set of contexts that kick reception: types, who owns a receive buffer,  *)
(* and that the buffers are parsed in the order they were filled.          *)
(***************************************************************************)
EXTENDS BulkIn, WellFoundedInduction, NaturalsInduction, TLAPS

\* The ring's size and its two indices, by short names.
N  == RxRingSize
NB == NextRxBulkInIndex
NR == NextRxBulkInReadIndex

\* A parser of RTUSBBulkReceive works at the read index, on a context marked as being handled, alone.
Handlers ==
  \A c \in Contexts : pc[c] = "handle" =>
    /\ cur[c] = NR /\ bRxHandling[NR]
    /\ \A d \in Contexts : pc[d] = "handle" => d = c

\* Context c is about to submit the URB of context i.
Submits(c, i) == pc[c] = "submit" /\ cur[c] = i

\* A buffer is with one party: claimed and about to be submitted, with the
\* controller, with the tasklet, or full; all but the last only at the bulk-in index.
Owned ==
  /\ \A i \in Idx : urb[i] = "flying" => i = NB /\ task # i /\ ~Readable[i]
  /\ task # NoTask => task = NB /\ ~Readable[task]
  /\ \A c \in Contexts : pc[c] = "submit" =>
       /\ cur[c] = NB /\ urb[NB] # "flying" /\ task # NB /\ ~Readable[NB] /\ InUse[NB]
       /\ \A d \in Contexts : pc[d] = "submit" => d = c
  /\ \A c \in Contexts : pc[c] = "handle" => Readable[NR]

\* How far a context is from the read index.
Pos(i) == IF i >= NR THEN i - NR ELSE i - NR + N

\* The full buffers are those from the read index to the bulk-in index.
Segment ==
  IF Readable[NB] THEN NB = NR /\ \A i \in Idx : Readable[i]
  ELSE \A i \in Idx : Readable[i] <=> Pos(i) < Pos(NB)

\* They were filled in that order, after what has been delivered.
Ordered ==
  /\ \A i \in Idx : Readable[i] => data[i] > delivered
  /\ \A i, j \in Idx : Readable[i] /\ Readable[j] /\ Pos(i) < Pos(j) => data[i] < data[j]
  /\ \A i \in Idx : data[i] <= fills
  /\ delivered <= fills

\* Bytes outside the full buffers are at the bulk-in index, newer than all of them.
Fresh ==
  /\ \A i \in Idx : BulkInOffset[i] /\ ~Readable[i] => i = NB
  /\ ~Readable[NB] /\ (BulkInOffset[NB] \/ (task = NB /\ urb[NB] \in WithData)) =>
       /\ data[NB] > delivered
       /\ \A i \in Idx : Readable[i] => data[i] < data[NB]

\* What holds until a cancel comes between a claim and its completion.
Sound == ~torn => Owned /\ Segment /\ Ordered /\ Fresh

\* Inductive.
IndInv == TypeOK /\ Handlers /\ Sound

-----------------------------------------------------------------------------
(***************************************************************************)
(* Type correctness.                                                       *)
(***************************************************************************)

\* The ring's arithmetic, and the first pending context of the cancel loop.
LEMMA RingArithmetic ==
  /\ N \in Nat \ {0} /\ Idx = 0..N - 1 /\ 0 \in Idx
  /\ \A i \in Idx : INC_RING_INDEX(i) = IF i + 1 = N THEN 0 ELSE i + 1
  /\ \A i \in Idx : INC_RING_INDEX(i) \in Idx
<1>1. N \in Nat \ {0} /\ Idx = 0..N - 1 /\ 0 \in Idx
  BY BulkInAssumption DEF N, Idx
<1>2. ASSUME NEW i \in Idx PROVE INC_RING_INDEX(i) = IF i + 1 = N THEN 0 ELSE i + 1
  <2>1. INC_RING_INDEX(i) = (i + 1) % N
    BY DEF INC_RING_INDEX, N
  <2>2. CASE i + 1 = N
    <3>1. N % N = 0
      BY <1>1
    <3> QED
      BY <2>1, <2>2, <3>1
  <2>3. CASE i + 1 # N
    <3>1. i + 1 \in 0..N - 1
      BY <1>1, <2>3
    <3>2. (i + 1) % N = i + 1
      BY <1>1, <3>1
    <3> QED
      BY <2>1, <2>3, <3>2
  <2> QED
    BY <2>2, <2>3
<1> QED
  BY <1>1, <1>2

\* The least of a set of ring positions is one of them.
LEMMA LeastIs ==
  ASSUME NEW S, S \subseteq Idx, S # {}
  PROVE  Least(S) \in S
<1>1. S \subseteq Nat
  BY RingArithmetic
<1> DEFINE R == {ss \in Nat \X Nat : ss[1] < ss[2]}
<1>w. IsWellFoundedOn(R, Nat)
  BY NatLessThanWellFounded DEF OpToRel
<1> HIDE DEF R
<1>2. \E x \in S : \A y \in S : ~ (<<y, x>> \in R)
  BY <1>1, <1>w, WFMin, Zenon
<1>3. \E x \in S : \A y \in S : x <= y
  <2>1. PICK x \in S : \A y \in S : ~ (<<y, x>> \in R)
    BY <1>2
  <2>2. ASSUME NEW y \in S PROVE x <= y
    <3>1. x \in Nat /\ y \in Nat /\ ~ (<<y, x>> \in R)
      BY <1>1, <2>1
    <3>2. y < x => <<y, x>> \in R
      BY <3>1 DEF R
    <3> QED
      BY <3>1, <3>2
  <2> QED
    BY <2>2
<1> QED
  BY <1>3 DEF Least

\* Where a context holds a buffer or a ring entry.
Holding == {"handle", "submit", "killed", "copy"}

\* A context that goes to a label, keeping its RX_CONTEXT or taking one.
LEMMA PcMoves ==
  ASSUME PcTypes, NEW c \in Contexts, NEW l \in Labels, Goto(c, l),
         \/ l \notin Holding /\ cur' = cur
         \/ \E i \in 0..RxRingSize : Hold(c, i) /\ (l \in Holding => i \in Idx)
  PROVE  PcTypes'
<1>1. pc' \in [Contexts -> Labels] /\ pc'[c] = l /\ \A d \in Contexts \ {c} : pc'[d] = pc[d]
  BY DEF PcTypes, Goto
<1>2. CASE l \notin Holding /\ cur' = cur
  BY <1>1, <1>2 DEF PcTypes, Holding
<1>3. ASSUME NEW i \in 0..RxRingSize, Hold(c, i), l \in Holding => i \in Idx
      PROVE  PcTypes'
  <2>1. cur' \in [Contexts -> 0..RxRingSize] /\ cur'[c] = i /\ \A d \in Contexts \ {c} : cur'[d] = cur[d]
    BY <1>3 DEF PcTypes, Hold
  <2> QED
    BY <1>1, <1>3, <2>1 DEF PcTypes, Holding
<1> QED
  BY <1>2, <1>3

\* The driver starts with every field of its type, and nobody in the ring.
LEMMA TypeInit == Init => TypeOK
<1> SUFFICES ASSUME Init PROVE TypeOK
  OBVIOUS
<1> USE BulkInAssumption DEF Init
<1>1. CtxTypes
  BY DEF CtxTypes
<1>2. RingTypes
  BY RingArithmetic DEF RingTypes, UrbStatus, ByteSize
<1>3. FlagTypes
  BY DEF FlagTypes
<1>4. PcTypes
  BY RingArithmetic DEF PcTypes, Labels
<1>5. delivered \in 0..MaxFills /\ fills \in 0..MaxFills /\ events \in 0..MaxEvents
  OBVIOUS
<1>6. torn \in BOOLEAN /\ refused \in BOOLEAN /\ dropped \in BOOLEAN
  OBVIOUS
<1> QED
  BY <1>1, <1>2, <1>3, <1>4, <1>5, <1>6 DEF TypeOK, HistTypes

\* The steps of RTUSBBulkReceive.
LEMMA TypeReceive ==
  ASSUME TypeOK, NEW c \in Contexts, KickReceive(c) \/ ReceiveStep(c)
  PROVE  TypeOK'
<1> USE BulkInAssumption DEF TypeOK, cnts, hist, flags, ring, ctxs
<1>0. 0 \in 0..RxRingSize /\ Idx \subseteq 0..RxRingSize
  BY DEF Idx
<1>1. ASSUME KickReceive(c) PROVE TypeOK'
  <2>1. PcTypes'
    BY <1>1, PcMoves DEF KickReceive, Labels, Holding
  <2>2. (CtxTypes /\ RingTypes /\ FlagTypes)'
    BY <1>1 DEF KickReceive, CtxTypes, RingTypes, FlagTypes
  <2>3. HistTypes'
    BY <1>1 DEF KickReceive, Event, HistTypes
  <2> QED
    BY <2>1, <2>2, <2>3
<1>2. ASSUME Enter(c) \/ Gate(c) PROVE TypeOK'
  <2>1. PcTypes'
    BY <1>2, PcMoves DEF Enter, Gate, Labels, Holding
  <2> QED
    BY <1>2, <2>1 DEF Enter, Gate, CtxTypes, RingTypes, FlagTypes, HistTypes
<1>3. ASSUME Receive(c) PROVE TypeOK'
  <2>1. PcTypes'
    BY <1>0, <1>3, PcMoves DEF Receive, Labels, Holding, RingTypes
  <2>2. CtxTypes'
    BY <1>3 DEF Receive, CtxTypes, RingTypes
  <2> QED
    BY <1>3, <2>1, <2>2 DEF Receive, RingTypes, FlagTypes, HistTypes
<1>4. ASSUME HandleBuffer(c) PROVE TypeOK'
  <2>1. PcTypes'
    BY <1>0, <1>4, PcMoves DEF HandleBuffer, Labels, Holding
  <2>2. CtxTypes'
    <3>1. data' \in [Idx -> 0..MaxFills]
      <4>1. 0 \in 0..MaxFills
        OBVIOUS
      <4> QED
        BY <1>4, <4>1 DEF HandleBuffer, CtxTypes
    <3> QED
      BY <1>4, <3>1 DEF HandleBuffer, CtxTypes
  <2>3. RingTypes'
    BY <1>4, RingArithmetic DEF HandleBuffer, RingTypes
  <2>4. HistTypes'
    BY <1>4 DEF HandleBuffer, Parsed, HistTypes, CtxTypes, RingTypes
  <2> QED
    BY <1>4, <2>1, <2>2, <2>3, <2>4 DEF HandleBuffer, FlagTypes
<1>5. ASSUME Claim(c) PROVE TypeOK'
  <2>1. PcTypes'
    BY <1>0, <1>5, PcMoves DEF Claim, Labels, Holding, RingTypes
  <2>2. CtxTypes'
    BY <1>5 DEF Claim, CtxTypes
  <2>3. RingTypes'
    BY <1>5 DEF Claim, RingTypes, ByteSize
  <2>4. HistTypes'
    BY <1>5 DEF Claim, HistTypes
  <2> QED
    BY <1>5, <2>1, <2>2, <2>3, <2>4 DEF Claim, FlagTypes
<1>6. ASSUME Submit(c) PROVE TypeOK'
  <2>1. PcTypes'
    BY <1>0, <1>6, PcMoves DEF Submit, Labels, Holding
  <2> QED
    BY <1>6, <2>1 DEF Submit, CtxTypes, RingTypes, FlagTypes, HistTypes
<1>7. ASSUME SubmitFails(c) PROVE TypeOK'
  <2>1. PcTypes'
    BY <1>0, <1>7, PcMoves DEF SubmitFails, Labels, Holding
  <2>2. CtxTypes'
    BY <1>7 DEF SubmitFails, CtxTypes
  <2>3. RingTypes'
    BY <1>7 DEF SubmitFails, RingTypes, ByteSize
  <2>4. HistTypes'
    <3>1. events' \in 0..MaxEvents
      BY <1>7 DEF SubmitFails, Event, HistTypes
    <3>2. refused' \in BOOLEAN
      BY <1>7 DEF SubmitFails, HistTypes
    <3> QED
      BY <1>7, <3>1, <3>2 DEF SubmitFails, HistTypes
  <2> QED
    BY <1>7, <2>1, <2>2, <2>3, <2>4 DEF SubmitFails, FlagTypes
<1> QED
  BY <1>1, <1>2, <1>3, <1>4, <1>5, <1>6, <1>7 DEF ReceiveStep

\* The controller, the receive tasklet and the cancel loop.
LEMMA TypeComplete ==
  ASSUME TypeOK
  PROVE  /\ \A i \in Idx, s \in UrbStatus : UrbEnds(i, s) => TypeOK'
         /\ RxDone => TypeOK'
         /\ \A c \in Contexts : CancelStep(c) => TypeOK'
<1> USE BulkInAssumption DEF TypeOK, cnts, hist, flags, ring, ctxs
<1>0. 0 \in 0..RxRingSize /\ Idx \subseteq 0..RxRingSize /\ "T" \in Contexts
  BY DEF Idx, Contexts
<1>f. ASSUME NEW i \in Idx, NEW s \in UrbStatus, Fill(i, s)
      PROVE  /\ fills' \in 0..MaxFills /\ data' \in [Idx -> 0..MaxFills]
             /\ urb' \in [Idx -> UrbStatus \union {"flying"}] /\ task' \in Idx \union {NoTask}
  <2>1. fills' \in 0..MaxFills
    BY <1>f DEF Fill, HistTypes
  <2>2. data' \in [Idx -> 0..MaxFills]
    <3>1. CASE s \in WithData
      <4>1. fills + 1 \in 0..MaxFills
        BY <1>f, <3>1 DEF Fill, HistTypes
      <4> QED
        BY <1>f, <3>1, <4>1 DEF Fill, CtxTypes
    <3>2. CASE s \notin WithData
      BY <1>f, <3>2 DEF Fill, CtxTypes
    <3> QED
      BY <3>1, <3>2
  <2> QED
    BY <1>f, <2>1, <2>2 DEF Fill, RingTypes
<1>1. ASSUME NEW i \in Idx, NEW s \in UrbStatus, UrbEnds(i, s) PROVE TypeOK'
  <2>1. events' \in 0..MaxEvents
    BY <1>1 DEF UrbEnds, Event, HistTypes
  <2> QED
    BY <1>1, <1>f, <2>1 DEF UrbEnds, CtxTypes, RingTypes, FlagTypes, PcTypes, HistTypes
<1>2. ASSUME RxDone PROVE TypeOK'
  <2>1. PcTypes'
    BY <1>0, <1>2, PcMoves DEF RxDone, Labels, Holding
  <2>2. CtxTypes'
    <3>1. InUse' \in [Idx -> BOOLEAN] /\ IRPPending' \in [Idx -> BOOLEAN]
      BY <1>2 DEF RxDone, CtxTypes
    <3>2. BulkInOffset' \in [Idx -> BOOLEAN]
      BY <1>2 DEF RxDone, CtxTypes
    <3>3. Readable' \in [Idx -> BOOLEAN]
      BY <1>2 DEF RxDone, CtxTypes
    <3> QED
      BY <1>2, <3>1, <3>2, <3>3 DEF RxDone, CtxTypes
  <2>3. RingTypes'
    <3>1. PendingRx' \in 0..(ByteSize - 1)
      BY <1>2 DEF RxDone, RingTypes, ByteSize
    <3>2. NextRxBulkInIndex' \in Idx
      BY <1>2, RingArithmetic, SMTT(30) DEF RxDone, RingTypes
    <3> QED
      BY <1>2, <3>1, <3>2 DEF RxDone, RingTypes
  <2>4. FlagTypes'
    <3>1. bulkInReset' \in BOOLEAN
      BY <1>2 DEF RxDone, FlagTypes
    <3>2. resetCmds' \in Nat
      BY <1>2 DEF RxDone, FlagTypes
    <3> QED
      BY <1>2, <3>1, <3>2 DEF RxDone, FlagTypes
  <2> QED
    BY <1>2, <2>1, <2>2, <2>3, <2>4 DEF RxDone, HistTypes
<1>3. ASSUME NEW c \in Contexts, CancelKill(c) PROVE TypeOK'
  <2>1. PICK j \in Idx : /\ Hold(c, j)
                         /\ \/ \E s \in {"error", "partial"} : Fill(j, s)
                            \/ UNCHANGED <<fills, data, urb, task>>
    <3>1. Least(NextPending(cur[c])) \in Idx
      BY <1>3, LeastIs DEF CancelKill, NextPending
    <3> QED
      BY <1>3, <3>1 DEF CancelKill
  <2>2. PcTypes'
    BY <1>0, <1>3, <2>1, PcMoves DEF CancelKill, Labels, Holding
  <2>3. /\ fills' \in 0..MaxFills /\ data' \in [Idx -> 0..MaxFills]
        /\ urb' \in [Idx -> UrbStatus \union {"flying"}] /\ task' \in Idx \union {NoTask}
    <3>1. {"error", "partial"} \subseteq UrbStatus
      BY DEF UrbStatus
    <3> QED
      BY <1>f, <2>1, <3>1 DEF CtxTypes, RingTypes, HistTypes
  <2> QED
    BY <1>3, <2>2, <2>3 DEF CancelKill, CtxTypes, RingTypes, FlagTypes, HistTypes
<1>4. ASSUME NEW c \in Contexts, CancelClear(c) PROVE TypeOK'
  <2>1. PcTypes'
    <3>1. cur[c] + 1 \in 0..RxRingSize
      BY <1>4 DEF CancelClear, PcTypes, Idx
    <3> QED
      BY <1>4, <3>1, PcMoves DEF CancelClear, Labels, Holding
  <2>2. CtxTypes'
    BY <1>4 DEF CancelClear, CtxTypes
  <2> QED
    BY <1>4, <2>1, <2>2 DEF CancelClear, RingTypes, FlagTypes, HistTypes
<1> QED
  BY <1>1, <1>2, <1>3, <1>4 DEF CancelStep

\* The command thread's reset and the management context.
LEMMA TypeManage ==
  ASSUME TypeOK,
         \/ ResetStep \/ MlmeRadioOff \/ Sleep \/ PollAgain \/ RadioOffInterrupted \/ RadioStep
  PROVE  TypeOK'
<1> USE BulkInAssumption DEF TypeOK, cnts, hist, flags, ring, ctxs
<1>0. 0 \in 0..RxRingSize /\ Idx \subseteq 0..RxRingSize /\ "C" \in Contexts /\ "R" \in Contexts
  BY DEF Contexts, Idx
<1>1. ASSUME ResetStep PROVE TypeOK'
  <2>1. PcTypes'
    BY <1>0, <1>1, PcMoves DEF ResetStep, ResetBulkIn, ResetPending, Restart, Labels, Holding
  <2>2. (CtxTypes /\ RingTypes)'
    BY <1>1 DEF ResetStep, ResetBulkIn, ResetPending, Restart, CtxTypes, RingTypes, ByteSize
  <2>3. FlagTypes'
    <3>1. bulkInReset' \in BOOLEAN
      BY <1>1 DEF ResetStep, ResetBulkIn, ResetPending, Restart, FlagTypes, ResetFlag
    <3>2. resetCmds' \in Nat
      BY <1>1 DEF ResetStep, ResetBulkIn, ResetPending, Restart, FlagTypes
    <3> QED
      BY <1>1, <3>1, <3>2 DEF ResetStep, ResetBulkIn, ResetPending, Restart, FlagTypes
  <2>4. HistTypes'
    BY <1>1 DEF ResetStep, ResetBulkIn, ResetPending, Restart, HistTypes
  <2> QED
    BY <2>1, <2>2, <2>3, <2>4
<1>2. ASSUME MlmeRadioOff \/ Sleep \/ PollAgain \/ RadioOffInterrupted PROVE TypeOK'
  <2>1. PcTypes'
    BY <1>0, <1>2, PcMoves DEF MlmeRadioOff, Sleep, PollAgain, RadioOffInterrupted, Labels, Holding
  <2>2. (CtxTypes /\ RingTypes)'
    BY <1>2 DEF MlmeRadioOff, Sleep, PollAgain, RadioOffInterrupted, CtxTypes, RingTypes
  <2>3. FlagTypes'
    BY <1>2 DEF MlmeRadioOff, Sleep, PollAgain, RadioOffInterrupted, FlagTypes
  <2>4. HistTypes'
    BY <1>2 DEF MlmeRadioOff, Sleep, PollAgain, RadioOffInterrupted, Event, HistTypes
  <2> QED
    BY <2>1, <2>2, <2>3, <2>4
<1>3. ASSUME RadioStep PROVE TypeOK'
  <2> USE DEF RadioStep, PollIdle, PollEnds, Drain, DrainCopy, RadioOff, Quiet, RadioOnIdle, RadioOn,
              WakeUp
  <2>1. PcTypes'
    <3>1. NextRxBulkInReadIndex \in Idx /\ NextRxBulkInReadIndex \in 0..RxRingSize
      BY <1>0 DEF RingTypes
    <3>2. CASE Drain
      BY <1>0, <3>1, <3>2, PcMoves DEF Labels, Holding
    <3>3. CASE ~Drain
      BY <1>0, <1>3, <3>3, PcMoves DEF Labels, Holding
    <3> QED
      BY <3>2, <3>3
  <2>2. (CtxTypes /\ RingTypes)'
    BY <1>3 DEF CtxTypes, RingTypes, ByteSize
  <2>3. FlagTypes'
    BY <1>3 DEF FlagTypes
  <2>4. HistTypes'
    BY <1>3 DEF HistTypes
  <2> QED
    BY <2>1, <2>2, <2>3, <2>4
<1> QED
  BY <1>1, <1>2, <1>3

\* Every step keeps the types.
LEMMA TypeStep == TypeOK /\ [Next]_vars => TypeOK'
<1> SUFFICES ASSUME TypeOK, [Next]_vars PROVE TypeOK'
  OBVIOUS
<1>1. CASE Next
  BY <1>1, TypeReceive, TypeComplete, TypeManage DEF Next
<1>2. CASE UNCHANGED vars
  BY <1>2 DEF vars, cnts, hist, flags, ring, ctxs, TypeOK, CtxTypes, RingTypes, FlagTypes, PcTypes, HistTypes
<1> QED
  BY <1>1, <1>2

\* The ring indices stay inside RxContext and the counters inside their words,
\* whatever fails, is cancelled or is reset.
THEOREM TypeCorrect == Spec => []TypeOK
BY TypeInit, TypeStep, PTL DEF Spec

-----------------------------------------------------------------------------
(***************************************************************************)
(* IndInv is inductive.                                                    *)
(***************************************************************************)

\* Distances from the read index, and how they change when it moves on.
LEMMA PosFacts ==
  ASSUME NR \in Idx
  PROVE  /\ \A i \in Idx : Pos(i) \in 0..N - 1
         /\ \A i \in Idx : Pos(i) = 0 <=> i = NR
         /\ \A i, j \in Idx : Pos(i) = Pos(j) => i = j
         /\ \A i \in Idx : Pos(INC_RING_INDEX(i)) = IF Pos(i) = N - 1 THEN 0 ELSE Pos(i) + 1
<1>1. N \in Nat \ {0} /\ Idx = 0..N - 1 /\ NR \in 0..N - 1
  BY RingArithmetic
<1>2. /\ \A i \in Idx : Pos(i) \in 0..N - 1
      /\ \A i \in Idx : Pos(i) = 0 <=> i = NR
      /\ \A i, j \in Idx : Pos(i) = Pos(j) => i = j
  BY <1>1 DEF Pos
<1>3. \A i \in Idx : Pos(INC_RING_INDEX(i)) = IF Pos(i) = N - 1 THEN 0 ELSE Pos(i) + 1
  <2> TAKE i \in Idx
  <2>1. CASE i + 1 = N
    <3>1. INC_RING_INDEX(i) = 0
      BY <2>1, RingArithmetic
    <3> QED
      BY <1>1, <2>1, <3>1 DEF Pos
  <2>2. CASE i + 1 # N
    <3>1. INC_RING_INDEX(i) = i + 1
      BY <2>2, RingArithmetic
    <3> QED
      BY <1>1, <2>2, <3>1 DEF Pos
  <2> QED
    BY <2>1, <2>2
<1> QED
  BY <1>2, <1>3

\* When the read index moves on, every other place is one step nearer.
LEMMA PosShift ==
  ASSUME NR \in Idx, NR' = INC_RING_INDEX(NR)
  PROVE  \A i \in Idx : (Pos(i))' = IF i = NR THEN N - 1 ELSE Pos(i) - 1
<1>1. N \in Nat \ {0} /\ Idx = 0..N - 1 /\ NR \in 0..N - 1 /\ N' = N
  BY RingArithmetic DEF N
<1>2. NR' = IF NR + 1 = N THEN 0 ELSE NR + 1
  BY RingArithmetic
<1> QED
  BY <1>1, <1>2 DEF Pos

\* A step that leaves the buffers alone, and lets nobody start to parse or submit.
LEMMA AsideInd ==
  ASSUME TypeOK, Handlers, Sound,
         UNCHANGED <<urb, task, Readable, bRxHandling, BulkInOffset, data, NextRxBulkInIndex,
                     NextRxBulkInReadIndex, delivered, fills>>,
         torn => torn',
         \A c \in Contexts : pc'[c] \in {"handle", "submit"} => pc'[c] = pc[c] /\ cur'[c] = cur[c],
         ~torn' => \A c \in Contexts : pc'[c] = "submit" => InUse'[cur'[c]]
  PROVE  Handlers' /\ Sound'
<1>1. Handlers'
  BY DEF Handlers, NR
<1>2. ASSUME ~torn' PROVE (Owned /\ Segment /\ Ordered /\ Fresh)'
  <2>1. Owned /\ Segment /\ Ordered /\ Fresh
    BY <1>2 DEF Sound
  <2>2. Owned'
    BY <1>2, <2>1 DEF Owned, NB, NR
  <2>3. Segment' /\ Ordered' /\ Fresh'
    BY <2>1 DEF Segment, Ordered, Fresh, Pos, NB, NR, N
  <2> QED
    BY <2>2, <2>3
<1> QED
  BY <1>1, <1>2 DEF Sound

\* Taking a full buffer to parse.
LEMMA ReceiveInd ==
  ASSUME TypeOK, Handlers, Sound, NEW c \in Contexts, Receive(c)
  PROVE  Handlers' /\ Sound'
<1>1. CASE MayHandle(NextRxBulkInReadIndex)
  <2>1. /\ bRxHandling' = [bRxHandling EXCEPT ![NR] = TRUE]
        /\ pc' = [pc EXCEPT ![c] = "handle"] /\ cur' = [cur EXCEPT ![c] = NR]
        /\ UNCHANGED <<InUse, IRPPending, Readable, BulkInOffset, data, urb, task, PendingRx,
                       NextRxBulkInIndex, NextRxBulkInReadIndex, delivered, torn, fills>>
        /\ NR \in Idx /\ ~bRxHandling[NR] /\ Readable[NR]
    BY <1>1 DEF Receive, Hold, Goto, ring, hist, cnts, NR, MayHandle, TypeOK, RingTypes
  <2>2. /\ pc'[c] = "handle" /\ cur'[c] = NR /\ pc[c] # "submit"
        /\ \A d \in Contexts \ {c} : pc'[d] = pc[d] /\ cur'[d] = cur[d]
    BY <2>1 DEF TypeOK, PcTypes, Receive
  <2>3. \A d \in Contexts : pc[d] # "handle"
    BY <2>1 DEF Handlers
  <2>4. Handlers'
    <3>1. bRxHandling'[NR] /\ NR' = NR
      BY <2>1 DEF TypeOK, CtxTypes, NR
    <3> QED
      BY <2>2, <2>3, <3>1 DEF Handlers
  <2>5. ASSUME ~torn' PROVE (Owned /\ Segment /\ Ordered /\ Fresh)'
    <3>1. Owned /\ Segment /\ Ordered /\ Fresh
      BY <2>1, <2>5 DEF Sound
    <3>2. Owned'
      BY <2>1, <2>2, <3>1 DEF Owned, NB, NR
    <3>3. Segment' /\ Ordered' /\ Fresh'
      BY <2>1, <3>1 DEF Segment, Ordered, Fresh, Pos, NB, NR, N
    <3> QED
      BY <3>2, <3>3
  <2> QED
    BY <2>4, <2>5 DEF Sound
<1>2. CASE ~MayHandle(NextRxBulkInReadIndex)
  <2>1. /\ UNCHANGED <<urb, task, Readable, bRxHandling, BulkInOffset, data, NextRxBulkInIndex,
                       NextRxBulkInReadIndex, delivered, fills, torn, cur, InUse>>
        /\ pc' = [pc EXCEPT ![c] = "gate"]
    BY <1>2 DEF Receive, Goto, ring, hist, cnts
  <2>2. \A d \in Contexts : pc'[d] \in {"handle", "submit"} => pc'[d] = pc[d]
    BY <2>1 DEF TypeOK, PcTypes
  <2>3. ~torn' => \A d \in Contexts : pc'[d] = "submit" => InUse'[cur'[d]]
    BY <2>1, <2>2 DEF Sound, Owned
  <2> QED
    BY <2>1, <2>2, <2>3, AsideInd
<1> QED
  BY <1>1, <1>2

\* A parsed buffer is given back.
LEMMA HandleInd ==
  ASSUME TypeOK, Handlers, Sound, NEW c \in Contexts, HandleBuffer(c)
  PROVE  /\ Handlers' /\ Sound'
         /\ ~torn => delivered' = delivered \/ delivered' > delivered
<1>1. /\ cur[c] = NR /\ NR \in Idx /\ pc[c] = "handle"
      /\ \A d \in Contexts : pc[d] = "handle" => d = c
  BY DEF HandleBuffer, Handlers, TypeOK, RingTypes, NR
<1>2. /\ delivered' \in {delivered, data[NR]}
      /\ BulkInOffset' = [BulkInOffset EXCEPT ![NR] = FALSE]
      /\ Readable' = [Readable EXCEPT ![NR] = FALSE]
      /\ data' = [data EXCEPT ![NR] = 0]
      /\ NR' = INC_RING_INDEX(NR)
      /\ UNCHANGED <<InUse, urb, task, NextRxBulkInIndex, torn, fills>>
  BY <1>1 DEF HandleBuffer, Parsed, cnts, NR
<1>3. /\ pc'[c] = "receive"
      /\ \A d \in Contexts \ {c} : pc'[d] = pc[d] /\ cur'[d] = cur[d]
  BY DEF HandleBuffer, Goto, Hold, TypeOK, PcTypes
<1>4. Handlers'
  BY <1>1, <1>3 DEF Handlers
<1> SUFFICES ASSUME ~torn
             PROVE  /\ (Owned /\ Segment /\ Ordered /\ Fresh)'
                    /\ delivered' = delivered \/ delivered' > delivered
  BY <1>2, <1>4 DEF Sound
<1>5. Owned /\ Segment /\ Ordered /\ Fresh /\ Readable[NR]
  BY <1>1 DEF Sound, Owned
<1>6. /\ ~Readable'[NR] /\ \A i \in Idx \ {NR} : Readable'[i] = Readable[i]
      /\ data'[NR] = 0 /\ \A i \in Idx \ {NR} : data'[i] = data[i]
      /\ ~BulkInOffset'[NR] /\ \A i \in Idx \ {NR} : BulkInOffset'[i] = BulkInOffset[i]
  BY <1>1, <1>2 DEF TypeOK, CtxTypes
<1>7. /\ NB \in Idx /\ NB' = NB /\ \A i \in Idx : data[i] \in Nat
      /\ delivered \in Nat /\ fills \in Nat /\ N \in Nat \ {0}
  BY <1>2, RingArithmetic, BulkInAssumption DEF TypeOK, RingTypes, CtxTypes, HistTypes, NB
<1>8. /\ \A i \in Idx : Pos(i) \in 0..N - 1 /\ (Pos(i) = 0 <=> i = NR)
      /\ \A i \in Idx : (Pos(i))' = IF i = NR THEN N - 1 ELSE Pos(i) - 1
      /\ \A i, j \in Idx : Pos(i) = Pos(j) => i = j
  BY <1>1, <1>2, PosFacts, PosShift
<1>9. Owned'
  BY <1>1, <1>2, <1>3, <1>5, <1>6, <1>7 DEF Owned
<1>10. Segment'
  <2>1. CASE Readable[NB]
    <3>1. NB = NR /\ \A i \in Idx : Readable[i]
      BY <1>5, <2>1 DEF Segment
    <3>2. \A i \in Idx : Readable'[i] <=> i # NR
      BY <1>6, <3>1
    <3>3. ~Readable'[NB']
      BY <1>6, <1>7, <3>1
    <3>4. \A i \in Idx : Readable'[i] <=> (Pos(i))' < (Pos(NB))'
      <4>1. PICK k \in Idx : k = NB /\ k = NR
        BY <1>7, <3>1
      <4>2. (Pos(NB))' = (Pos(k))'
        BY <1>7, <4>1 DEF Pos
      <4> QED
        BY <1>7, <1>8, <3>2, <4>1, <4>2
    <3> QED
      BY <3>3, <3>4 DEF Segment
  <2>2. CASE ~Readable[NB]
    <3>1. \A i \in Idx : Readable[i] <=> Pos(i) < Pos(NB)
      BY <1>5, <2>2 DEF Segment
    <3>2. NB # NR /\ ~Readable'[NB']
      BY <1>5, <1>6, <1>7, <2>2
    <3>3. \A i \in Idx : Readable'[i] <=> (Pos(i))' < (Pos(NB))'
      <4>1. PICK k \in Idx : k = NB
        BY <1>7
      <4>2. (Pos(NB))' = (Pos(k))'
        BY <1>7, <4>1 DEF Pos
      <4>3. (Pos(k))' = Pos(k) - 1 /\ Pos(k) > 0
        BY <1>7, <1>8, <3>2, <4>1
      <4> QED
        BY <1>1, <1>6, <1>7, <1>8, <3>1, <4>1, <4>2, <4>3
    <3> QED
      BY <3>2, <3>3 DEF Segment
  <2> QED
    BY <2>1, <2>2
<1>11. \A i \in Idx \ {NR} : Readable[i] => data[i] > data[NR]
  BY <1>1, <1>5, <1>7, <1>8 DEF Ordered
<1>12. data[NR] > delivered
  BY <1>1, <1>5 DEF Ordered
<1>13. Ordered'
  <2>1. \A i \in Idx : Readable'[i] => i # NR /\ Readable[i] /\ data'[i] > delivered'
    BY <1>2, <1>5, <1>6, <1>7, <1>11 DEF Ordered
  <2>2. \A i, j \in Idx : Readable'[i] /\ Readable'[j] /\ (Pos(i))' < (Pos(j))' => data'[i] < data'[j]
    BY <1>1, <1>5, <1>6, <1>8, <2>1 DEF Ordered
  <2>3. (\A i \in Idx : data'[i] <= fills') /\ delivered' <= fills'
    BY <1>1, <1>2, <1>5, <1>6, <1>7 DEF Ordered
  <2> QED
    BY <2>1, <2>2, <2>3 DEF Ordered
<1>14. Fresh'
  <2>1. \A i \in Idx : BulkInOffset'[i] /\ ~Readable'[i] => i = NB'
    BY <1>5, <1>6, <1>7 DEF Fresh
  <2>2. ASSUME ~Readable'[NB'], BulkInOffset'[NB'] \/ (task' = NB' /\ urb'[NB'] \in WithData)
        PROVE  data'[NB'] > delivered' /\ \A i \in Idx : Readable'[i] => data'[i] < data'[NB']
    <3>0. task = NB => ~Readable[NB]
      BY <1>5, <1>7, RingArithmetic DEF Owned, NoTask
    <3>1. NB # NR
      BY <1>2, <1>5, <1>6, <1>7, <2>2, <3>0
    <3>2. data[NB] > delivered /\ \A i \in Idx : Readable[i] => data[i] < data[NB]
      BY <1>2, <1>5, <1>6, <1>7, <2>2, <3>1 DEF Fresh
    <3> QED
      BY <1>1, <1>2, <1>5, <1>6, <1>7, <3>1, <3>2
  <2> QED
    BY <2>1, <2>2 DEF Fresh
<1> QED
  BY <1>2, <1>9, <1>10, <1>12, <1>13, <1>14

\* Claiming the context at the bulk-in index.
LEMMA ClaimInd ==
  ASSUME TypeOK, Handlers, Sound, NEW c \in Contexts, Claim(c)
  PROVE  Handlers' /\ Sound'
<1>0. /\ UNCHANGED <<Readable, bRxHandling, BulkInOffset, data, urb, task, NextRxBulkInIndex,
                     NextRxBulkInReadIndex, delivered, fills>>
      /\ pc[c] = "claim" /\ NB \in Idx
  BY DEF Claim, cnts, TypeOK, RingTypes, NB
<1>1. CASE MayBulkIn(NextRxBulkInIndex)
  <2>1. /\ InUse' = [InUse EXCEPT ![NB] = TRUE]
        /\ pc' = [pc EXCEPT ![c] = "submit"] /\ cur' = [cur EXCEPT ![c] = NB]
        /\ torn' = (torn \/ task = NB \/ urb[NB] = "flying")
        /\ ~Readable[NB] /\ ~InUse[NB]
    BY <1>1 DEF Claim, Hold, Goto, NB, MayBulkIn
  <2>2. /\ pc'[c] = "submit" /\ cur'[c] = NB
        /\ \A d \in Contexts \ {c} : pc'[d] = pc[d] /\ cur'[d] = cur[d]
    BY <2>1 DEF TypeOK, PcTypes
  <2>3. Handlers'
    BY <1>0, <2>2 DEF Handlers, NR
  <2>4. ASSUME ~torn' PROVE (Owned /\ Segment /\ Ordered /\ Fresh)'
    <3>1. Owned /\ Segment /\ Ordered /\ Fresh /\ task # NB /\ urb[NB] # "flying"
      BY <2>1, <2>4 DEF Sound
    <3>2. \A d \in Contexts : pc[d] # "submit"
      BY <2>1, <3>1 DEF Owned
    <3>3. InUse'[NB] /\ NB' = NB /\ NR' = NR
      BY <1>0, <2>1 DEF TypeOK, CtxTypes, NB, NR
    <3>4. Owned'
      BY <1>0, <2>1, <2>2, <3>1, <3>2, <3>3 DEF Owned
    <3>5. Segment' /\ Ordered' /\ Fresh'
      BY <1>0, <3>1 DEF Segment, Ordered, Fresh, Pos, NB, NR, N
    <3> QED
      BY <3>4, <3>5
  <2> QED
    BY <2>3, <2>4 DEF Sound
<1>2. CASE ~MayBulkIn(NextRxBulkInIndex)
  <2>1. UNCHANGED <<torn, cur, InUse>> /\ pc' = [pc EXCEPT ![c] = "idle"]
    BY <1>2 DEF Claim, Goto
  <2>2. \A d \in Contexts : pc'[d] \in {"handle", "submit"} => pc'[d] = pc[d]
    BY <2>1 DEF TypeOK, PcTypes
  <2>3. ~torn' => \A d \in Contexts : pc'[d] = "submit" => InUse'[cur'[d]]
    BY <2>1, <2>2 DEF Sound, Owned
  <2> QED
    BY <1>0, <2>1, <2>2, <2>3, AsideInd
<1> QED
  BY <1>1, <1>2

\* The URB goes to the controller.
LEMMA SubmitInd ==
  ASSUME TypeOK, Handlers, Sound, NEW c \in Contexts, Submit(c)
  PROVE  Handlers' /\ Sound'
<1>1. /\ UNCHANGED <<InUse, Readable, bRxHandling, BulkInOffset, data, task, NextRxBulkInIndex,
                     NextRxBulkInReadIndex, delivered, torn, fills>>
      /\ pc[c] = "submit" /\ urb' = [urb EXCEPT ![cur[c]] = "flying"] /\ NB' = NB /\ NR' = NR
  BY DEF Submit, ctxs, ring, hist, cnts, NB, NR
<1>2. pc'[c] = "idle" /\ \A d \in Contexts \ {c} : pc'[d] = pc[d] /\ cur'[d] = cur[d]
  BY DEF Submit, Goto, Hold, TypeOK, PcTypes
<1>3. Handlers'
  BY <1>1, <1>2 DEF Handlers
<1>4. ASSUME ~torn' PROVE (Owned /\ Segment /\ Ordered /\ Fresh)'
  <2>1. Owned /\ Segment /\ Ordered /\ Fresh /\ cur[c] = NB /\ NB \in Idx
    BY <1>1, <1>4 DEF Sound, Owned, TypeOK, RingTypes, NB
  <2>2. urb'[NB] = "flying" /\ \A i \in Idx \ {NB} : urb'[i] = urb[i]
    BY <1>1, <2>1 DEF TypeOK, RingTypes
  <2>3. task # NB /\ ~Readable[NB] /\ \A d \in Contexts : pc[d] = "submit" => d = c
    BY <1>1, <2>1 DEF Owned
  <2>4. Owned'
    BY <1>1, <1>2, <2>1, <2>2, <2>3 DEF Owned
  <2>5. Segment' /\ Ordered'
    BY <1>1, <2>1 DEF Segment, Ordered, Pos, NB, NR, N
  <2>6. Fresh'
    BY <1>1, <2>1, <2>2, <2>3 DEF Fresh
  <2> QED
    BY <2>4, <2>5, <2>6
<1> QED
  BY <1>3, <1>4 DEF Sound

\* The claim is undone.
LEMMA SubmitFailsInd ==
  ASSUME TypeOK, Handlers, Sound, NEW c \in Contexts, SubmitFails(c)
  PROVE  Handlers' /\ Sound'
<1>1. /\ UNCHANGED <<urb, task, Readable, bRxHandling, BulkInOffset, data, NextRxBulkInIndex,
                     NextRxBulkInReadIndex, delivered, fills, torn>>
      /\ pc[c] = "submit"
  BY DEF SubmitFails
<1>2. pc'[c] = "idle" /\ \A d \in Contexts \ {c} : pc'[d] = pc[d] /\ cur'[d] = cur[d]
  BY DEF SubmitFails, Goto, Hold, TypeOK, PcTypes
<1>3. ASSUME ~torn' PROVE \A d \in Contexts : pc'[d] # "submit"
  BY <1>1, <1>2, <1>3 DEF Sound, Owned
<1> QED
  BY <1>1, <1>2, <1>3, AsideInd

\* A transfer ends, by itself or killed.
LEMMA FillInd ==
  ASSUME TypeOK, Handlers, Sound, NEW i \in Idx, NEW s \in UrbStatus, urb[i] = "flying", Fill(i, s),
         UNCHANGED <<InUse, Readable, bRxHandling, BulkInOffset, NextRxBulkInIndex,
                     NextRxBulkInReadIndex, delivered, torn>>,
         \A c \in Contexts : pc'[c] \in {"handle", "submit"} => pc'[c] = pc[c] /\ cur'[c] = cur[c]
  PROVE  Handlers' /\ Sound' /\ (~torn => \A j \in Idx : Readable[j] => data'[j] = data[j])
<1>1. Handlers'
  BY DEF Handlers, NR
<1> SUFFICES ASSUME ~torn
             PROVE  /\ (Owned /\ Segment /\ Ordered /\ Fresh)'
                    /\ \A j \in Idx : Readable[j] => data'[j] = data[j]
  BY <1>1 DEF Sound
<1>2. Owned /\ Segment /\ Ordered /\ Fresh /\ i = NB /\ ~Readable[NB] /\ NB' = NB /\ NR' = NR
  BY DEF Sound, Owned, NB, NR
<1>3. \A c \in Contexts : pc[c] # "submit"
  BY <1>2 DEF Owned
<1>4. /\ urb'[i] = s /\ s # "flying" /\ \A j \in Idx \ {i} : urb'[j] = urb[j]
      /\ task' = i /\ i # NoTask
      /\ \A j \in Idx \ {i} : data'[j] = data[j]
  <2>1. urb'[i] = s /\ s # "flying" /\ task' = i /\ \A j \in Idx \ {i} : urb'[j] = urb[j]
    BY DEF Fill, TypeOK, RingTypes, UrbStatus
  <2>2. i # NoTask
    BY RingArithmetic DEF NoTask
  <2>3. \A j \in Idx \ {i} : data'[j] = data[j]
    BY DEF Fill, TypeOK, CtxTypes
  <2> QED
    BY <2>1, <2>2, <2>3
<1>5. /\ fills \in Nat /\ delivered \in Nat /\ \A j \in Idx : data[j] \in Nat
      /\ s \in WithData => fills' = fills + 1 /\ data'[i] = fills + 1
      /\ s \notin WithData => fills' = fills /\ data' = data
  BY BulkInAssumption DEF Fill, TypeOK, HistTypes, CtxTypes
<1>6. Owned'
  BY <1>2, <1>3, <1>4 DEF Owned
<1>7. Segment'
  BY <1>2 DEF Segment, Pos, NB, NR, N
<1>8. Ordered'
  <2>1. \A j \in Idx : (Pos(j))' = Pos(j)
    BY <1>2 DEF Pos, N
  <2>2. \A j \in Idx : Readable[j] => data'[j] = data[j]
    BY <1>2, <1>4
  <2>3. \A j \in Idx : data'[j] <= fills'
    BY <1>2, <1>4, <1>5 DEF Ordered
  <2>4. delivered <= fills'
    BY <1>2, <1>5 DEF Ordered
  <2> QED
    BY <1>2, <2>1, <2>2, <2>3, <2>4 DEF Ordered
<1>9. Fresh'
  <2>1. ASSUME BulkInOffset[NB] \/ s \in WithData
        PROVE  data'[NB] > delivered /\ \A j \in Idx : Readable[j] => data'[j] < data'[NB]
    <3>1. CASE s \in WithData
      BY <1>2, <1>4, <1>5, <3>1 DEF Ordered
    <3>2. CASE s \notin WithData
      BY <1>2, <1>5, <2>1, <3>2 DEF Fresh
    <3> QED
      BY <3>1, <3>2
  <2> QED
    BY <1>2, <1>4, <2>1 DEF Fresh
<1> QED
  BY <1>2, <1>4, <1>6, <1>7, <1>8, <1>9

\* The tasklet makes the buffer readable, or gives it back.
LEMMA RxDoneInd ==
  ASSUME TypeOK, Handlers, Sound, RxDone
  PROVE  Handlers' /\ Sound'
<1>1. /\ UNCHANGED <<bRxHandling, data, urb, NextRxBulkInReadIndex, cur, delivered, torn, fills>>
      /\ pc[("T")] = "idle" /\ "T" \in Contexts /\ NR' = NR
  BY DEF RxDone, hist, cnts, Contexts, NR
<1>2. pc'["T"] = "enter" /\ \A d \in Contexts \ {"T"} : pc'[d] = pc[d]
  BY <1>1 DEF RxDone, Goto, TypeOK, PcTypes
<1>3. Handlers'
  BY <1>1, <1>2 DEF Handlers
<1> SUFFICES ASSUME ~torn PROVE (Owned /\ Segment /\ Ordered /\ Fresh)'
  BY <1>1, <1>3 DEF Sound
<1>4. /\ Owned /\ Segment /\ Ordered /\ Fresh
      /\ task = NB /\ NB \in Idx /\ NR \in Idx /\ ~Readable[NB] /\ urb[NB] # "flying"
  BY DEF Sound, Owned, RxDone, TypeOK, RingTypes, NB, NR
<1>5. \A c \in Contexts : pc[c] # "submit"
  BY <1>4 DEF Owned
<1>6. \A i \in Idx : urb[i] # "flying"
  BY <1>4 DEF Owned
<1>7. /\ task' = NoTask /\ NoTask \notin Idx
      /\ \A i \in Idx \ {NB} : BulkInOffset'[i] = BulkInOffset[i] /\ Readable'[i] = Readable[i]
      /\ BulkInOffset'[NB] <=> (BulkInOffset[NB] \/ urb[NB] \in WithData)
  <2>1. task' = NoTask /\ NoTask \notin Idx
    BY RingArithmetic DEF RxDone, NoTask
  <2>2. \A i \in Idx \ {NB} : BulkInOffset'[i] = BulkInOffset[i]
    BY <1>4 DEF RxDone, TypeOK, CtxTypes
  <2>3. BulkInOffset'[NB] <=> (BulkInOffset[NB] \/ urb[NB] \in WithData)
    BY <1>4 DEF RxDone, TypeOK, CtxTypes
  <2>4. \A i \in Idx \ {NB} : Readable'[i] = Readable[i]
    BY <1>4 DEF RxDone, TypeOK, CtxTypes
  <2> QED
    BY <2>1, <2>2, <2>3, <2>4
<1>8. BulkInOffset'[NB] => /\ data[NB] > delivered
                           /\ \A i \in Idx : Readable[i] => data[i] < data[NB]
  BY <1>4, <1>7 DEF Fresh
<1>9. CASE urb[NB] \in Success /\ BulkInOffset'[NB]
  <2>1. Readable'[NB] /\ NB' = INC_RING_INDEX(NB) /\ NB' \in Idx
    BY <1>4, <1>9, RingArithmetic, SMTT(30) DEF RxDone, TypeOK, CtxTypes, NB
  <2>2. Owned'
    BY <1>1, <1>2, <1>4, <1>5, <1>6, <1>7, <2>1 DEF Owned
  <2>3. /\ \A i \in Idx : Readable[i] <=> Pos(i) < Pos(NB)
        /\ \A i \in Idx : Readable'[i] <=> (Readable[i] \/ i = NB)
    BY <1>4, <1>7, <2>1 DEF Segment
  <2>4. /\ \A i \in Idx : Pos(i) \in 0..N - 1 /\ (Pos(i))' = Pos(i)
        /\ \A i, j \in Idx : Pos(i) = Pos(j) => i = j
        /\ Pos(INC_RING_INDEX(NB)) = IF Pos(NB) = N - 1 THEN 0 ELSE Pos(NB) + 1
        /\ \A i \in Idx : Pos(i) = 0 <=> i = NR
        /\ N \in Nat \ {0}
    <3>1. \A i \in Idx : (Pos(i))' = Pos(i)
      BY <1>1 DEF Pos, N
    <3> QED
      BY <1>4, <3>1, PosFacts, RingArithmetic
  <2>5. \A i \in Idx : Readable'[i] <=> Pos(i) <= Pos(NB)
    BY <1>4, <2>3, <2>4
  <2>6. PICK k \in Idx : k = INC_RING_INDEX(NB)
    BY <2>1
  <2>7. NB' = k /\ (Pos(NB))' = Pos(k) /\ Pos(k) = IF Pos(NB) = N - 1 THEN 0 ELSE Pos(NB) + 1
    BY <1>1, <2>1, <2>4, <2>6 DEF Pos, N
  <2>8. Segment'
    <3>1. CASE Pos(NB) = N - 1
      <4>1. Pos(k) = 0 /\ k = NR
        BY <2>4, <2>6, <2>7, <3>1
      <4>2. \A i \in Idx : Readable'[i]
        BY <1>4, <2>4, <2>5, <3>1
      <4> QED
        BY <1>1, <2>1, <2>7, <4>1, <4>2 DEF Segment
    <3>2. CASE Pos(NB) # N - 1
      <4>1. \A i \in Idx : Readable'[i] <=> (Pos(i))' < (Pos(NB))'
        BY <1>4, <2>4, <2>5, <2>7, <3>2
      <4>2. ~Readable'[NB']
        BY <1>4, <2>4, <2>5, <2>7, <3>2
      <4> QED
        BY <4>1, <4>2 DEF Segment
    <3> QED
      BY <3>1, <3>2
  <2>9. Ordered'
    <3>1. \A i \in Idx : Readable'[i] => data'[i] > delivered'
      BY <1>1, <1>4, <1>8, <1>9, <2>3 DEF Ordered
    <3>2. ASSUME NEW i \in Idx, NEW j \in Idx, Readable'[i], Readable'[j], (Pos(i))' < (Pos(j))'
          PROVE  data'[i] < data'[j]
      <4>1. Pos(i) < Pos(j) /\ Pos(j) <= Pos(NB) /\ Pos(i) < Pos(NB)
        BY <1>4, <2>4, <2>5, <3>2
      <4>2. Readable[i]
        BY <2>3, <4>1
      <4>3. CASE j = NB
        BY <1>1, <1>8, <1>9, <4>2, <4>3
      <4>4. CASE j # NB
        BY <1>1, <1>4, <1>7, <3>2, <4>1, <4>2, <4>4 DEF Ordered
      <4> QED
        BY <4>3, <4>4
    <3>3. (\A i \in Idx : data'[i] <= fills') /\ delivered' <= fills'
      BY <1>1, <1>4 DEF Ordered
    <3> QED
      BY <3>1, <3>2, <3>3 DEF Ordered
  <2>10. Fresh'
    <3>1. \A i \in Idx : BulkInOffset'[i] => Readable'[i]
      BY <1>4, <1>7, <2>1 DEF Fresh
    <3> QED
      BY <1>7, <2>1, <3>1 DEF Fresh
  <2> QED
    BY <2>2, <2>8, <2>9, <2>10
<1>10. CASE ~(urb[NB] \in Success /\ BulkInOffset'[NB])
  <2>1. ~Readable'[NB] /\ NB' = NB
    BY <1>4, <1>10 DEF RxDone, TypeOK, CtxTypes, NB
  <2>2. \A i \in Idx : Readable'[i] <=> Readable[i]
    BY <1>4, <1>7, <2>1
  <2>3. \A i \in Idx : (Pos(i))' = Pos(i)
    BY <1>1 DEF Pos, N
  <2>4. Owned'
    BY <1>1, <1>2, <1>4, <1>5, <1>6, <1>7, <2>1, <2>2 DEF Owned
  <2>5. Segment'
    <3>1. PICK k \in Idx : k = NB
      BY <1>4
    <3>2. (Pos(NB))' = Pos(k)
      BY <2>1, <2>3, <3>1 DEF Pos, N
    <3> QED
      BY <1>4, <2>1, <2>2, <2>3, <3>1, <3>2 DEF Segment
  <2>6. Ordered'
    BY <1>1, <1>4, <2>2, <2>3 DEF Ordered
  <2>7. Fresh'
    BY <1>1, <1>4, <1>7, <1>8, <2>1, <2>2 DEF Fresh
  <2> QED
    BY <2>4, <2>5, <2>6, <2>7
<1> QED
  BY <1>9, <1>10

\* Killing and clearing a pending context.
LEMMA CancelInd ==
  ASSUME TypeOK, Handlers, Sound, NEW c \in Contexts, CancelStep(c)
  PROVE  Handlers' /\ Sound' /\ (~torn => \A j \in Idx : Readable[j] => data'[j] = data[j])
<1>1. CASE CancelKill(c)
  <2>1. /\ UNCHANGED <<InUse, Readable, bRxHandling, BulkInOffset, NextRxBulkInIndex,
                       NextRxBulkInReadIndex, delivered, torn>>
        /\ pc[c] = "cancel"
    BY <1>1 DEF CancelKill, ring, hist
  <2>2. pc'[c] = "killed" /\ \A d \in Contexts \ {c} : pc'[d] = pc[d] /\ cur'[d] = cur[d]
    BY <1>1 DEF CancelKill, Goto, Hold, TypeOK, PcTypes
  <2>3. \/ \E j \in Idx : urb[j] = "flying" /\ \E s \in {"error", "partial"} : Fill(j, s)
        \/ UNCHANGED <<fills, data, urb, task>>
    <3>1. Least(NextPending(cur[c])) \in Idx
      BY <1>1, LeastIs DEF CancelKill, NextPending
    <3> QED
      BY <1>1, <3>1 DEF CancelKill
  <2>4. CASE UNCHANGED <<fills, data, urb, task>>
    <3>1. ~torn' => \A d \in Contexts : pc'[d] = "submit" => InUse'[cur'[d]]
      BY <2>1, <2>2 DEF Sound, Owned
    <3> QED
      BY <2>1, <2>2, <2>4, <3>1, AsideInd
  <2>5. ASSUME NEW j \in Idx, urb[j] = "flying", NEW s \in {"error", "partial"}, Fill(j, s)
        PROVE  Handlers' /\ Sound' /\ (~torn => \A k \in Idx : Readable[k] => data'[k] = data[k])
    <3>1. s \in UrbStatus
      BY DEF UrbStatus
    <3> QED
      BY <2>1, <2>2, <2>5, <3>1, FillInd
  <2> QED
    BY <2>3, <2>4, <2>5
<1>2. CASE CancelClear(c)
  <2>1. /\ UNCHANGED <<urb, task, Readable, bRxHandling, BulkInOffset, data, NextRxBulkInIndex,
                       NextRxBulkInReadIndex, delivered, fills>>
        /\ pc[c] = "killed" /\ cur[c] \in Idx
    BY <1>2 DEF CancelClear, ring, cnts, TypeOK, PcTypes
  <2>2. pc'[c] = "cancel" /\ \A d \in Contexts \ {c} : pc'[d] = pc[d] /\ cur'[d] = cur[d]
    BY <1>2 DEF CancelClear, Goto, Hold, TypeOK, PcTypes
  <2>3. ASSUME ~torn', NEW d \in Contexts, pc'[d] = "submit" PROVE InUse'[cur'[d]]
    <3>1. pc[d] = "submit" /\ cur'[d] = cur[d] /\ cur[d] # cur[c] /\ ~torn
      BY <1>2, <2>2, <2>3 DEF CancelClear
    <3>2. InUse[cur[d]] /\ cur[d] \in Idx
      BY <3>1 DEF Sound, Owned, TypeOK, PcTypes
    <3> QED
      BY <1>2, <3>1, <3>2 DEF CancelClear, TypeOK, CtxTypes
  <2>4. torn => torn'
    BY <1>2 DEF CancelClear
  <2> QED
    BY <2>1, <2>2, <2>3, <2>4, AsideInd
<1> QED
  BY <1>1, <1>2 DEF CancelStep

\* Everything else leaves the buffers alone.
LEMMA OtherInd ==
  ASSUME TypeOK, Handlers, Sound,
         \/ \E c \in Contexts : KickReceive(c) \/ Enter(c) \/ Gate(c)
         \/ ResetStep \/ MlmeRadioOff \/ Sleep \/ PollAgain \/ RadioOffInterrupted \/ RadioStep
         \/ UNCHANGED vars
  PROVE  Handlers' /\ Sound' /\ UNCHANGED <<Readable, data, delivered>>
<1>1. UNCHANGED <<InUse, urb, task, Readable, bRxHandling, BulkInOffset, data, NextRxBulkInIndex,
                  NextRxBulkInReadIndex, delivered, fills, torn>>
  BY DEF KickReceive, Enter, Gate, ResetStep, ResetBulkIn, ResetPending, Restart, MlmeRadioOff, Sleep,
         PollAgain, RadioOffInterrupted, RadioStep, PollIdle, PollEnds, Drain, DrainCopy, RadioOff, Quiet,
         RadioOnIdle, RadioOn, WakeUp, vars, ctxs, ring, hist, cnts
<1>2. \A d \in Contexts : pc'[d] \in {"handle", "submit"} => pc'[d] = pc[d] /\ cur'[d] = cur[d]
  <2>1. ASSUME NEW c \in Contexts, NEW l \in Labels \ {"handle", "submit"}, Goto(c, l),
               cur' = cur \/ Hold(c, 0) \/ Hold(c, NR)
        PROVE  \A d \in Contexts : pc'[d] \in {"handle", "submit"} => pc'[d] = pc[d] /\ cur'[d] = cur[d]
    BY <2>1 DEF Goto, Hold, TypeOK, PcTypes
  <2>2. UNCHANGED vars => pc' = pc /\ cur' = cur
    BY DEF vars
  <2>3. UNCHANGED vars \/ \E c \in Contexts, l \in Labels \ {"handle", "submit"} :
                             Goto(c, l) /\ (cur' = cur \/ Hold(c, 0) \/ Hold(c, NR))
    <3> USE DEF Contexts, Labels
    <3>1. ASSUME NEW c \in Contexts, KickReceive(c) \/ Enter(c) \/ Gate(c)
          PROVE  \E l \in Labels \ {"handle", "submit"} : Goto(c, l) /\ cur' = cur
      BY <3>1 DEF KickReceive, Enter, Gate
    <3>2. ASSUME ResetStep
          PROVE  \E l \in Labels \ {"handle", "submit"} : Goto("C", l) /\ (cur' = cur \/ Hold("C", 0))
      BY <3>2 DEF ResetStep, ResetBulkIn, ResetPending, Restart
    <3>3. ASSUME MlmeRadioOff \/ Sleep \/ PollAgain \/ RadioOffInterrupted \/ RadioStep
          PROVE  \E l \in Labels \ {"handle", "submit"} : /\ Goto("R", l)
                                                          /\ cur' = cur \/ Hold("R", 0) \/ Hold("R", NR)
      BY <3>3 DEF MlmeRadioOff, Sleep, PollAgain, RadioOffInterrupted, RadioStep, PollIdle, PollEnds,
                  Drain, DrainCopy, RadioOff, Quiet, RadioOnIdle, RadioOn, WakeUp, NR
    <3> QED
      BY <3>1, <3>2, <3>3
  <2> QED
    BY <2>1, <2>2, <2>3
<1>3. ~torn' => \A c \in Contexts : pc'[c] = "submit" => InUse'[cur'[c]]
  BY <1>1, <1>2 DEF Sound, Owned
<1> QED
  BY <1>1, <1>2, <1>3, AsideInd

\* The steps of Next, by what they do to the buffers.
LEMMA StepCases ==
  ASSUME [Next]_vars
  PROVE  \/ \E c \in Contexts : KickReceive(c) \/ Enter(c) \/ Gate(c)
         \/ ResetStep \/ MlmeRadioOff \/ Sleep \/ PollAgain \/ RadioOffInterrupted \/ RadioStep
         \/ UNCHANGED vars
         \/ \E c \in Contexts : Receive(c) \/ HandleBuffer(c) \/ Claim(c) \/ Submit(c) \/ SubmitFails(c)
         \/ \E c \in Contexts : CancelStep(c)
         \/ \E i \in Idx, s \in UrbStatus : UrbEnds(i, s)
         \/ RxDone
BY DEF Next, ReceiveStep

\* What UrbEnds leaves alone.
LEMMA UrbEndsInd ==
  ASSUME TypeOK, Handlers, Sound, NEW i \in Idx, NEW s \in UrbStatus, UrbEnds(i, s)
  PROVE  Handlers' /\ Sound' /\ (~torn => \A j \in Idx : Readable[j] => data'[j] = data[j])
<1>1. /\ UNCHANGED <<InUse, Readable, bRxHandling, BulkInOffset, NextRxBulkInIndex,
                     NextRxBulkInReadIndex, delivered, torn, pc, cur>>
      /\ urb[i] = "flying" /\ Fill(i, s)
  BY DEF UrbEnds, ring, hist
<1> QED
  BY <1>1, FillInd

\* Nothing is in the ring at first.
LEMMA IndInit == Init => IndInv
<1> SUFFICES ASSUME Init PROVE IndInv
  OBVIOUS
<1> USE RingArithmetic DEF Init
<1>1. TypeOK /\ Handlers
  BY TypeInit DEF Handlers
<1>2. Owned
  BY DEF Owned, NB, NoTask
<1>3. Segment
  BY DEF Segment, NB, NR, Pos
<1>4. Ordered /\ Fresh
  BY DEF Ordered, Fresh, NB, NoTask
<1> QED
  BY <1>1, <1>2, <1>3, <1>4 DEF IndInv, Sound

\* Every step keeps the invariant.
LEMMA IndStep == IndInv /\ [Next]_vars => IndInv'
<1> SUFFICES ASSUME IndInv, [Next]_vars PROVE IndInv'
  OBVIOUS
<1>1. TypeOK /\ Handlers /\ Sound /\ TypeOK'
  BY TypeStep DEF IndInv
<1>2. Handlers' /\ Sound'
  BY <1>1, StepCases, ReceiveInd, HandleInd, ClaimInd, SubmitInd, SubmitFailsInd, CancelInd, OtherInd,
     RxDoneInd, UrbEndsInd
<1> QED
  BY <1>1, <1>2 DEF IndInv

\* IndInv holds in every state.
LEMMA Inductive == Spec => []IndInv
BY IndInit, IndStep, PTL DEF Spec

\* The contexts that parse under bRxHandling exclude each other and the controller,
\* though rtmp_rx_done_handle runs without BulkInLock, and though the drain of
\* mt7612u_stop_dma_rx, which is outside this claim, reads the ring beside them.
THEOREM ParsedAlone == Spec => []BufferExclusive
<1>1. IndInv => BufferExclusive
  BY DEF IndInv, Handlers, Sound, Owned, BufferExclusive, NR, TypeOK, RingTypes
<1> QED
  BY <1>1, Inductive, PTL

\* Buffers are parsed in the order in which they were filled, none twice.
THEOREM InOrder == Spec => ParsedInOrder
<1>1. IndInv /\ [Next]_vars => [delivered' # delivered /\ ~torn => delivered' > delivered]_vars
  <2> SUFFICES ASSUME IndInv, [Next]_vars, delivered' # delivered, ~torn PROVE delivered' > delivered
    OBVIOUS
  <2>1. \E c \in Contexts : HandleBuffer(c)
    BY DEF Next, ReceiveStep, KickReceive, Enter, Gate, Receive, Claim, Submit, SubmitFails, CancelStep,
           CancelKill, CancelClear, UrbEnds, RxDone, ResetStep, ResetBulkIn, ResetPending, Restart,
           MlmeRadioOff, Sleep, PollAgain, RadioOffInterrupted, RadioStep, PollIdle, PollEnds, Drain,
           DrainCopy, RadioOff, Quiet, RadioOnIdle, RadioOn, WakeUp, vars, hist
  <2> QED
    BY <2>1, HandleInd DEF IndInv
<1> QED
  BY <1>1, Inductive, PTL DEF Spec, ParsedInOrder

\* A received buffer keeps its bytes until it has been parsed.
THEOREM Kept == Spec => ReceivedKept
<1>1. IndInv /\ [Next]_vars =>
        [\A i \in Idx : Readable[i] /\ Readable'[i] /\ ~torn => data'[i] = data[i]]_vars
  <2> SUFFICES ASSUME IndInv, [Next]_vars, NEW i \in Idx, Readable[i], Readable'[i], ~torn
               PROVE  data'[i] = data[i]
    OBVIOUS
  <2>1. TypeOK /\ Handlers /\ Sound
    BY DEF IndInv
  <2>2. ASSUME NEW c \in Contexts, HandleBuffer(c) PROVE data'[i] = data[i]
    BY <2>1, <2>2 DEF HandleBuffer, TypeOK, CtxTypes
  <2>3. ASSUME NEW c \in Contexts, Receive(c) \/ Claim(c) \/ Submit(c) \/ SubmitFails(c)
        PROVE  data' = data
    BY <2>3 DEF Receive, Claim, Submit, SubmitFails, ctxs
  <2>4. RxDone => data' = data
    BY DEF RxDone
  <2> QED
    BY <2>1, <2>2, <2>3, <2>4, StepCases, CancelInd, OtherInd, UrbEndsInd
<1> QED
  BY <1>1, Inductive, PTL DEF Spec, ReceivedKept
=============================================================================
