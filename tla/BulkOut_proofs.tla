--------------------------- MODULE BulkOut_proofs ---------------------------
(***************************************************************************)
(* Proofs about BulkOut, for any number of pipes, contexts, ring cells and *)
(* frames.                                                                 *)
(***************************************************************************)
EXTENDS BulkOut, TLAPS

-----------------------------------------------------------------------------
(***************************************************************************)
(* Type correctness.                                                       *)
(***************************************************************************)

\* What a URB is, and that it has a pipe.
LEMMA UrbFacts ==
  ASSUME NEW u \in Urbs
  PROVE  /\ u[1] \in {"data", "mgmt", "null"}
         /\ PipeOf(u) \in Pipes
         /\ u[1] = "data" => u[2] \in Pipes /\ u = <<"data", u[2]>>
         /\ u[1] = "mgmt" => u[2] \in Cells
         /\ u[1] # "data" => PipeOf(u) = 0
  BY BulkOutAssumption DEF Urbs, PipeOf, Pipes, Cells

\* The URBs the code names.
LEMMA NamedUrbs ==
  /\ NoUrb \in Urbs
  /\ \A p \in Pipes : <<"data", p>> \in Urbs
  /\ \A i \in Cells : <<"mgmt", i>> \in Urbs
  /\ 0 \in Pipes /\ 0 \in Cells
  BY BulkOutAssumption DEF Urbs, NoUrb, Pipes, Cells

\* INC_RING_INDEX stays in the ring, TxSwFreeIdx in its word.
LEMMA RingArithmetic ==
  /\ \A i \in Cells : INC_RING_INDEX(i) \in Cells
  /\ \A n \in Int : Word(n) \in 0..(WordSize - 1)
  BY BulkOutAssumption DEF INC_RING_INDEX, Word, Cells

\* A cell that waits, or no longer does, is still a cell.
LEMMA CellWaits ==
  ASSUME RingTypes
  PROVE  \A i \in Cells, b \in BOOLEAN :
           [cell EXCEPT ![i].bWaitingBulkOut = b] \in [Cells -> [InUse : BOOLEAN, bWaitingBulkOut : BOOLEAN]]
<1> SUFFICES ASSUME NEW i \in Cells, NEW b \in BOOLEAN
             PROVE  [cell EXCEPT ![i].bWaitingBulkOut = b]
                      \in [Cells -> [InUse : BOOLEAN, bWaitingBulkOut : BOOLEAN]]
  OBVIOUS
<1>1. cell \in [Cells -> [InUse : BOOLEAN, bWaitingBulkOut : BOOLEAN]]
  BY DEF RingTypes
<1>2. [cell[i] EXCEPT !.bWaitingBulkOut = b] \in [InUse : BOOLEAN, bWaitingBulkOut : BOOLEAN]
  BY <1>1
<1> QED
  BY <1>1, <1>2

\* A context that goes to a label, finishes or calls RTUSBKickBulkOut keeps its type.
LEMMA CtxMoves ==
  ASSUME CtxTypes, NEW c \in All
  PROVE  /\ \A l \in {"idle", "unlock", "check"}, p \in Pipes : Kick(c, l, p) => CtxTypes'
         /\ Finish(c) => CtxTypes'
         /\ \A l \in Labels : Goto(c, l) /\ UNCHANGED <<ret, cur>> => CtxTypes'
         /\ \A u \in Urbs : Try(c, u) /\ UNCHANGED ret => CtxTypes'
         /\ Return(c) /\ UNCHANGED ret => CtxTypes'
<1> USE NamedUrbs DEF CtxTypes, Labels
<1>1. \A l \in {"idle", "unlock", "check"}, p \in Pipes : Kick(c, l, p) => CtxTypes'
  BY DEF Kick
<1>2. Finish(c) => CtxTypes'
  BY DEF Finish
<1>3. \A l \in Labels : Goto(c, l) /\ UNCHANGED <<ret, cur>> => CtxTypes'
  BY DEF Goto
<1>4. \A u \in Urbs : Try(c, u) /\ UNCHANGED ret => CtxTypes'
  BY DEF Try
<1>5. Return(c) /\ UNCHANGED ret => CtxTypes'
  <2>1. ret[c] \in {"idle", "unlock", "check"} \X Pipes
    OBVIOUS
  <2>2. ret[c][1] \in Labels
    BY <2>1
  <2> QED
    BY <2>2 DEF Return
<1> QED
  BY <1>1, <1>2, <1>3, <1>4, <1>5

\* The next attempt of RTUSBKickBulkOut is again on a URB.
LEMMA TryNextType ==
  ASSUME CtxTypes, NEW c \in All, TryNext(c), UNCHANGED ret
  PROVE  CtxTypes'
<1>1. cur[c] \in Urbs
  BY DEF CtxTypes
<1>2. cur[c][1] = "data" /\ cur[c][2] + 1 < NPipes => cur[c][2] + 1 \in Pipes
  BY <1>1, UrbFacts, BulkOutAssumption DEF Pipes
<1>3. \/ Try(c, <<"data", 0>>) \/ (cur[c][2] + 1 \in Pipes /\ Try(c, <<"data", cur[c][2] + 1>>))
      \/ Try(c, NoUrb) \/ Return(c)
  BY <1>1, <1>2 DEF TryNext, NoUrb
<1> QED
  BY <1>3, NamedUrbs, CtxMoves

\* The driver starts with every field of its type.
LEMMA TypeInit == Init => TypeOK
<1> SUFFICES ASSUME Init PROVE TypeOK
  OBVIOUS
<1> USE BulkOutAssumption, NamedUrbs DEF Init
<1>1. PipeTypes
  BY DEF PipeTypes
<1>2. FlagTypes
  BY DEF FlagTypes
<1>3. RingTypes
  BY DEF RingTypes
<1>4. ResetTypes
  <2>1. bulkOutReset \in BOOLEAN /\ halted \in BOOLEAN
    OBVIOUS
  <2>2. bulkResetPipeid \in Pipes
    OBVIOUS
  <2>3. resetCmds \in Nat /\ failures \in 0..MaxFailures /\ sends \in 0..MaxSends
    OBVIOUS
  <2> QED
    BY <2>1, <2>2, <2>3 DEF ResetTypes
<1>5. CtxTypes
  BY DEF CtxTypes, Labels
<1> QED
  BY <1>1, <1>2, <1>3, <1>4, <1>5 DEF TypeOK

\* Every step, of a sender, a tasklet, the controller or the reset thread, keeps the types.
LEMMA TypeStep == TypeOK /\ [Next]_vars => TypeOK'
<1> SUFFICES ASSUME TypeOK, [Next]_vars PROVE TypeOK'
  OBVIOUS
<1>0. \A c \in All : cur[c] \in Urbs /\ ret[c][2] \in Pipes
  BY DEF TypeOK, CtxTypes
<1>c. Ctx \subseteq All /\ CmdThread \in All
  BY DEF All
<1> USE BulkOutAssumption, NamedUrbs
    DEF TypeOK, PipeTypes, FlagTypes, RingTypes, ResetTypes, ring, rst, flags, cnts
<1>1. ASSUME NEW c \in Ctx, NEW p \in Pipes, DataKickOut(c, p) PROVE TypeOK'
  <2>1. CtxTypes'
    BY <1>1, <1>0, <1>c, UrbFacts, CtxMoves DEF DataKickOut, Labels
  <2> QED
    BY <2>1, <1>1 DEF DataKickOut
<1>2. ASSUME NEW c \in Ctx, MiniportMMRequest(c) PROVE TypeOK'
  <2>1. CtxTypes'
    BY <1>2, <1>0, <1>c, UrbFacts, CtxMoves DEF MiniportMMRequest, Labels
  <2> QED
    BY <2>1, <1>2 DEF MiniportMMRequest
<1>3. ASSUME NEW c \in Ctx, MgmtKickOut(c) PROVE TypeOK'
  <2>1. CtxTypes'
    BY <1>3, <1>0, <1>c, UrbFacts, CtxMoves DEF MgmtKickOut, Labels
  <2> QED
    BY <2>1, <1>3, RingArithmetic DEF MgmtKickOut
<1>4. ASSUME NEW c \in Ctx, MgmtUnlock(c) PROVE TypeOK'
  <2>1. CtxTypes'
    BY <1>4, <1>0, <1>c, UrbFacts, CtxMoves DEF MgmtUnlock, Labels
  <2> QED
    BY <2>1, <1>4 DEF MgmtUnlock
<1>5. ASSUME NEW c \in Ctx, NullFrameKickOut(c) PROVE TypeOK'
  <2>1. CtxTypes'
    BY <1>5, <1>0, <1>c, UrbFacts, CtxMoves DEF NullFrameKickOut, Labels
  <2> QED
    BY <2>1, <1>5 DEF NullFrameKickOut
<1>6. ASSUME NEW c \in All, KickBulkOut(c) PROVE TypeOK'
  <2>1. CtxTypes'
    BY <1>6, <1>0, <1>c, UrbFacts, CtxMoves DEF KickBulkOut, Labels
  <2> QED
    BY <2>1, <1>6 DEF KickBulkOut
<1>7. ASSUME NEW c \in All, Claim(c) PROVE TypeOK'
  <2>1. CtxTypes'
    BY <1>7, <1>0, <1>c, UrbFacts, CtxMoves DEF Claim, Labels
  <2>2. PipeTypes'
    BY <1>7, <1>0, <1>c, UrbFacts DEF Claim, Kick, Finish, Goto
  <2>3. FlagTypes'
    BY <1>7, <1>0, <1>c, UrbFacts DEF Claim, Kick, Finish, Goto
  <2>4. RingTypes'
    <3>1. UNCHANGED <<TxCpuIdx, TxDmaIdx, TxSwFreeIdx>>
      BY <1>7 DEF Claim
    <3>2. cell' \in [Cells -> [InUse : BOOLEAN, bWaitingBulkOut : BOOLEAN]]
      BY <1>7, <1>0, UrbFacts, CellWaits DEF Claim
    <3> QED
      BY <3>1, <3>2
  <2>5. ResetTypes'
    BY <1>7, <1>0, <1>c, UrbFacts DEF Claim, Kick, Finish, Goto
  <2> QED
    BY <2>1, <2>2, <2>3, <2>4, <2>5
<1>8. ASSUME NEW c \in All, PassOver(c) PROVE TypeOK'
  <2>1. CtxTypes'
    BY <1>8, TryNextType DEF PassOver
  <2> QED
    BY <2>1, <1>8 DEF PassOver
<1>9. ASSUME NEW c \in All, GiveUp(c) PROVE TypeOK'
  <2>1. CtxTypes'
    BY <1>9, TryNextType DEF GiveUp
  <2> QED
    BY <2>1, <1>9 DEF GiveUp
<1>10. ASSUME NEW c \in All, Submit(c) PROVE TypeOK'
  <2>1. CtxTypes'
    BY <1>10, TryNextType DEF Submit, Load
  <2>2. cur[c] \in Urbs /\ (cur[c][1] = "data" => cur[c][2] \in Pipes)
    BY <1>0, UrbFacts
  <2>3. PipeTypes'
    BY <1>10, <2>2 DEF Submit, Load
  <2>4. FlagTypes'
    BY <1>10, <2>2 DEF Submit, Load
  <2>5. RingTypes'
    BY <1>10 DEF Submit
  <2>6. ResetTypes'
    BY <1>10 DEF Submit
  <2> QED
    BY <2>1, <2>3, <2>4, <2>5, <2>6
<1>11. ASSUME NEW c \in All, SubmitFails(c) PROVE TypeOK'
  <2>1. CtxTypes'
    BY <1>11, TryNextType DEF SubmitFails, Load
  <2>2. PipeTypes'
    BY <1>11, <1>0, <1>c, UrbFacts DEF SubmitFails, Load, Kick, Finish, Goto
  <2>3. FlagTypes'
    BY <1>11, <1>0, <1>c, UrbFacts DEF SubmitFails, Load, Kick, Finish, Goto
  <2>4. RingTypes'
    <3>1. UNCHANGED <<TxCpuIdx, TxDmaIdx, TxSwFreeIdx>>
      BY <1>11 DEF SubmitFails
    <3>2. cell' \in [Cells -> [InUse : BOOLEAN, bWaitingBulkOut : BOOLEAN]]
      BY <1>11, <1>0, UrbFacts, CellWaits DEF SubmitFails
    <3> QED
      BY <3>1, <3>2
  <2>5. ResetTypes'
    BY <1>11, <1>0, <1>c, UrbFacts DEF SubmitFails, Load, Kick, Finish, Goto
  <2> QED
    BY <2>1, <2>2, <2>3, <2>4, <2>5
<1>12. ASSUME NEW u \in Urbs, UrbDone(u) PROVE TypeOK'
  BY <1>12 DEF UrbDone, CtxTypes
<1>13. ASSUME NEW u \in Urbs, UrbFails(u) PROVE TypeOK'
  BY <1>13 DEF UrbFails, CtxTypes
<1>14. ASSUME NEW c \in Ctx, NEW u \in Urbs, Complete(c, u) PROVE TypeOK'
  <2>1. CtxTypes'
    BY <1>14, <1>0, <1>c, UrbFacts, CtxMoves DEF Complete, DonePipe, Labels, CtxTypes, Goto
  <2> QED
    BY <2>1, <1>14, UrbFacts DEF Complete, DonePipe
<1>15. ASSUME NEW c \in Ctx, SetReset(c) PROVE TypeOK'
  <2>1. CtxTypes'
    BY <1>15, <1>0, <1>c, UrbFacts, CtxMoves DEF SetReset, DonePipe, OwnCommand, Labels
  <2>2. PipeTypes'
    BY <1>15, <1>0, <1>c, UrbFacts DEF SetReset, DonePipe, OwnCommand, Kick, Finish, Goto
  <2>3. FlagTypes'
    BY <1>15, <1>0, <1>c, UrbFacts DEF SetReset, DonePipe, OwnCommand, Kick, Finish, Goto
  <2>4. RingTypes'
    BY <1>15, <1>0, <1>c, UrbFacts DEF SetReset, DonePipe, OwnCommand, Kick, Finish, Goto
  <2>5. ResetTypes'
    BY <1>15, <1>0, <1>c, UrbFacts DEF SetReset, DonePipe, OwnCommand, Kick, Finish, Goto
  <2> QED
    BY <2>1, <2>2, <2>3, <2>4, <2>5
<1>16. ASSUME NEW c \in Ctx, NullTail(c) PROVE TypeOK'
  <2>1. CtxTypes'
    BY <1>16, <1>0, <1>c, UrbFacts, CtxMoves DEF NullTail, Labels
  <2> QED
    BY <2>1, <1>16 DEF NullTail
<1>17. ASSUME NEW c \in Ctx, MgmtTail(c) PROVE TypeOK'
  <2>1. CtxTypes'
    BY <1>17, <1>0, <1>c, UrbFacts, CtxMoves DEF MgmtTail, Labels
  <2>2. PipeTypes'
    BY <1>17, <1>0, <1>c, UrbFacts, RingArithmetic DEF MgmtTail, Kick, Finish, Goto
  <2>3. FlagTypes'
    BY <1>17, <1>0, <1>c, UrbFacts, RingArithmetic DEF MgmtTail, Kick, Finish, Goto
  <2>4. RingTypes'
    BY <1>17, <1>0, <1>c, UrbFacts, RingArithmetic DEF MgmtTail, Kick, Finish, Goto
  <2>5. ResetTypes'
    BY <1>17, <1>0, <1>c, UrbFacts, RingArithmetic DEF MgmtTail, Kick, Finish, Goto
  <2> QED
    BY <2>1, <2>2, <2>3, <2>4, <2>5
<1>18. ASSUME NEW c \in Ctx, DataTail(c) PROVE TypeOK'
  <2>1. CtxTypes'
    BY <1>18, <1>0, <1>c, UrbFacts, CtxMoves DEF DataTail, DonePipe, Labels
  <2> QED
    BY <2>1, <1>18, <1>0, UrbFacts DEF DataTail, DonePipe
<1>19. ASSUME NEW c \in Ctx, DataCheck(c) PROVE TypeOK'
  <2>1. CtxTypes'
    BY <1>19, <1>0, <1>c, UrbFacts, CtxMoves DEF DataCheck, Labels
  <2>2. PipeTypes'
    BY <1>19, <1>0, <1>c, UrbFacts DEF DataCheck, Kick, Finish, Goto
  <2>3. FlagTypes'
    BY <1>19, <1>0, <1>c, UrbFacts DEF DataCheck, Kick, Finish, Goto
  <2>4. RingTypes'
    BY <1>19, <1>0, <1>c, UrbFacts DEF DataCheck, Kick, Finish, Goto
  <2>5. ResetTypes'
    BY <1>19, <1>0, <1>c, UrbFacts DEF DataCheck, Kick, Finish, Goto
  <2> QED
    BY <2>1, <2>2, <2>3, <2>4, <2>5
<1>20. CASE ResetMgmt
  <2>1. CtxTypes'
    BY <1>20, <1>c, CtxMoves DEF ResetMgmt, CtxTypes
  <2>2. PipeTypes'
    BY <1>20, <1>0, <1>c, UrbFacts DEF ResetMgmt, Kick, Finish, Goto
  <2>3. FlagTypes'
    BY <1>20, <1>0, <1>c, UrbFacts DEF ResetMgmt, Kick, Finish, Goto
  <2>4. RingTypes'
    BY <1>20, <1>0, <1>c, UrbFacts DEF ResetMgmt, Kick, Finish, Goto
  <2>5. ResetTypes'
    <3>1. resetCmds' \in Nat /\ UNCHANGED <<bulkResetPipeid, halted, failures, sends>>
      BY <1>20 DEF ResetMgmt
    <3>2. bulkOutReset' \in BOOLEAN
      BY <1>20 DEF ResetMgmt
    <3> QED
      BY <3>1, <3>2
  <2> QED
    BY <2>1, <2>2, <2>3, <2>4, <2>5
<1>21. CASE ResetLock
  <2>1. CtxTypes'
    BY <1>21, <1>0, <1>c, UrbFacts, CtxMoves DEF ResetLock, Labels, CtxTypes, Goto
  <2> QED
    BY <2>1, <1>21 DEF ResetLock
<1>22. CASE ResetClear
  <2>1. CtxTypes'
    BY <1>22, <1>0, <1>c, UrbFacts, CtxMoves DEF ResetClear, Labels
  <2> QED
    BY <2>1, <1>22 DEF ResetClear
<1>23. CASE ResetUnlock
  <2>1. CtxTypes'
    BY <1>23, <1>0, <1>c, UrbFacts, CtxMoves DEF ResetUnlock, Labels
  <2>2. PipeTypes'
    <3>1. locked' \subseteq locked /\ UNCHANGED <<BulkOutPending, urb, hasData>>
      BY <1>23 DEF ResetUnlock
    <3>2. BulkOutPipeId' \in [Pipes -> Pipes]
      BY <1>23 DEF ResetUnlock
    <3> QED
      BY <3>1, <3>2
  <2>3. FlagTypes'
    BY <1>23, <1>0, <1>c, UrbFacts DEF ResetUnlock, Kick, Finish, Goto
  <2>4. RingTypes'
    BY <1>23, <1>0, <1>c, UrbFacts DEF ResetUnlock, Kick, Finish, Goto
  <2>5. ResetTypes'
    BY <1>23, <1>0, <1>c, UrbFacts DEF ResetUnlock, Kick, Finish, Goto
  <2> QED
    BY <2>1, <2>2, <2>3, <2>4, <2>5
<1>24. CASE ResetSubmit
  <2>1. CtxTypes'
    BY <1>24, <1>0, <1>c, UrbFacts, CtxMoves DEF ResetSubmit, Labels
  <2> QED
    BY <2>1, <1>24, <1>0 DEF ResetSubmit
<1>25. CASE ResetSubmitFails
  <2>1. CtxTypes'
    BY <1>25, <1>0, <1>c, UrbFacts, CtxMoves DEF ResetSubmitFails, ReleaseReset, Labels
  <2> QED
    BY <2>1, <1>25 DEF ResetSubmitFails, ReleaseReset
<1>26. CASE Halt
  BY <1>26 DEF Halt, CtxTypes
<1>27. CASE UNCHANGED vars
  BY <1>27 DEF vars, CtxTypes
<1> QED
  BY <1>1, <1>2, <1>3, <1>4, <1>5, <1>6, <1>7, <1>8, <1>9, <1>10, <1>11, <1>12,
     <1>13, <1>14, <1>15, <1>16, <1>17, <1>18, <1>19, <1>20, <1>21, <1>22, <1>23, <1>24,
     <1>25, <1>26, <1>27
  DEF Next, KickStep, TaskletStep, ResetStep

\* Every reachable state is of the declared type: the ring indices stay inside
\* MgmtRing, every position a context or a tasklet works on is a URB.
THEOREM TypeCorrect == Spec => []TypeOK
  BY TypeInit, TypeStep, PTL DEF Spec

-----------------------------------------------------------------------------
(***************************************************************************)
(* Exclusive use of the pipes, up to the first failed transfer and its     *)
(* recovery. ResetBulkOutHdlr trusts bulkResetPipeid, which a second       *)
(* failure may overwrite, so the argument has to follow the one failure:   *)
(* it is a failed URB, then a tasklet about to set the reset flag, and     *)
(* only then can there be a command, and a handler, that uses it.          *)
(***************************************************************************)
HoldLabels == {"claimed", "rclaimed", "rsend", "rsubmit"}

\* The command thread is in ResetBulkOutHdlr.
InReset == pc[CmdThread] \in {"rbusy", "rclaimed", "rskip", "rsend", "rsubmit"}

\* No reset has been asked for.
NoReset == ~bulkOutReset /\ resetCmds = 0 /\ ~InReset

\* The failure has not reached its tasklet, or is past it.
NoFailedUrb == \A u \in Urbs : urb[u] # "failed"
NoSetReset  == \A c \in All : pc[c] # "setreset"

\* The one failure is in one place: at its URB, in its tasklet, asked for, or under way.
OneFailure ==
  /\ failures = 0 => NoReset /\ NoFailedUrb /\ NoSetReset
  /\ ~NoFailedUrb => NoReset /\ NoSetReset
  /\ ~NoSetReset => NoReset
  /\ \A u, v \in Urbs : urb[u] = "failed" /\ urb[v] = "failed" => u = v
  /\ \A c, d \in All : pc[c] = "setreset" /\ pc[d] = "setreset" => c = d

\* The handler works on the pipe bulkResetPipeid names.
ResetOnPipe ==
  InReset => bulkResetPipeid \in Pipes /\ cur[CmdThread] = <<"data", bulkResetPipeid>>

\* A data URB is sent on its own pipe.
OwnPipe == \A p \in Pipes : BulkOutPipeId[p] = p

\* The two properties of a pipe.
Exclusion == PipeExclusive /\ PendingHasUser

\* What holds while at most one transfer has failed.
Good == OneFailure /\ ResetOnPipe /\ OwnPipe /\ Exclusion

\* Inductive.
Inductive == failures <= 1 => Good

(***************************************************************************)
(* The five things a step may do to the users of the pipes.                *)
(***************************************************************************)

\* Nothing.
LEMMA NeutralStep ==
  ASSUME Exclusion,
         \A d \in All, p \in Pipes : Holds(d, p)' <=> Holds(d, p),
         \A v \in Urbs, p \in Pipes : Carries(v, p)' <=> Carries(v, p),
         \A p \in Pipes : BulkOutPending'[p] <=> BulkOutPending[p]
  PROVE  Exclusion'
  BY DEF Exclusion, PipeExclusive, PendingHasUser

\* A context takes a free pipe.
LEMMA TakeStep ==
  ASSUME Exclusion, NEW c \in All, NEW q \in Pipes, ~BulkOutPending[q],
         \A d \in All, p \in Pipes : Holds(d, p)' <=> (Holds(d, p) \/ (d = c /\ p = q)),
         \A v \in Urbs, p \in Pipes : Carries(v, p)' <=> Carries(v, p),
         \A p \in Pipes : BulkOutPending'[p] <=> (BulkOutPending[p] \/ p = q),
         \A p \in Pipes : Holds(c, p) => p = q
  PROVE  Exclusion'
  BY DEF Exclusion, PipeExclusive, PendingHasUser

\* The context that has a pipe hands it to a URB.
LEMMA LaunchStep ==
  ASSUME Exclusion, NEW c \in All, NEW q \in Pipes, NEW u \in Urbs,
         Holds(c, q), \A p \in Pipes : Holds(c, p) => p = q,
         \A d \in All, p \in Pipes : Holds(d, p)' <=> (Holds(d, p) /\ d # c),
         \A v \in Urbs, p \in Pipes : Carries(v, p)' <=> (Carries(v, p) \/ (v = u /\ p = q)),
         \A p \in Pipes : BulkOutPending'[p] <=> BulkOutPending[p]
  PROVE  Exclusion'
  BY DEF Exclusion, PipeExclusive, PendingHasUser

\* The context that has a pipe releases it.
LEMMA DropStep ==
  ASSUME Exclusion, NEW c \in All, NEW q \in Pipes,
         Holds(c, q), \A p \in Pipes : Holds(c, p) => p = q,
         \A d \in All, p \in Pipes : Holds(d, p)' <=> (Holds(d, p) /\ d # c),
         \A v \in Urbs, p \in Pipes : Carries(v, p)' <=> Carries(v, p),
         \A p \in Pipes : BulkOutPending'[p] <=> (BulkOutPending[p] /\ p # q)
  PROVE  Exclusion'
  BY DEF Exclusion, PipeExclusive, PendingHasUser

\* The tasklet of the URB that has a pipe releases it.
LEMMA EndStep ==
  ASSUME Exclusion, NEW u \in Urbs, NEW q \in Pipes,
         Carries(u, q), \A p \in Pipes : Carries(u, p) => p = q,
         \A d \in All, p \in Pipes : Holds(d, p)' <=> Holds(d, p),
         \A v \in Urbs, p \in Pipes : Carries(v, p)' <=> (Carries(v, p) /\ v # u),
         \A p \in Pipes : BulkOutPending'[p] <=> (BulkOutPending[p] /\ p # q)
  PROVE  Exclusion'
  BY DEF Exclusion, PipeExclusive, PendingHasUser

\* A context that moves to a label outside HoldLabels has no pipe afterwards, and
\* nobody else is affected.
LEMMA LeaveStep ==
  ASSUME TypeOK, NEW c \in All, NEW l, NEW u, l \notin HoldLabels,
         pc' = [pc EXCEPT ![c] = l], cur' = [cur EXCEPT ![c] = u]
  PROVE  \A d \in All, p \in Pipes : Holds(d, p)' <=> (Holds(d, p) /\ d # c)
  BY DEF TypeOK, CtxTypes, Holds, HoldLabels

(***************************************************************************)
(* Steps that use no pipe and end outside the tasklets and the handler.    *)
(***************************************************************************)
FreeLabels == {"idle", "mgmt", "kick", "try", "unlock", "check", "tail"}

\* Context c goes to a program point at which it uses no pipe.
Freed(c) == \E l \in FreeLabels, u \in Urbs :
              pc' = [pc EXCEPT ![c] = l] /\ cur' = [cur EXCEPT ![c] = u]

\* Kicking, finishing, returning and passing on to the next transfer all leave the
\* pipe free of the context.
LEMMA FreedBy ==
  ASSUME TypeOK, NEW c \in All
  PROVE  /\ \A l, p : Kick(c, l, p) => Freed(c)
         /\ Finish(c) => Freed(c)
         /\ \A u \in Urbs : Try(c, u) => Freed(c)
         /\ Return(c) => Freed(c)
         /\ TryNext(c) => Freed(c)
<1>0. cur[c] \in Urbs /\ ret[c][1] \in FreeLabels
  <2>1. ret[c] \in {"idle", "unlock", "check"} \X Pipes /\ cur[c] \in Urbs
    BY DEF TypeOK, CtxTypes
  <2> QED
    BY <2>1 DEF FreeLabels
<1>1. \A l, p : Kick(c, l, p) => Freed(c)
  BY NamedUrbs DEF Kick, Freed, FreeLabels
<1>2. Finish(c) => Freed(c)
  BY NamedUrbs DEF Finish, Freed, FreeLabels
<1>3. \A u \in Urbs : Try(c, u) => Freed(c)
  BY DEF Try, Freed, FreeLabels
<1>4. Return(c) => Freed(c)
  BY <1>0, NamedUrbs DEF Return, Freed
<1>5. TryNext(c) => Freed(c)
  <2>1. cur[c][1] = "data" /\ cur[c][2] + 1 < NPipes => cur[c][2] + 1 \in Pipes
    BY <1>0, UrbFacts, BulkOutAssumption DEF Pipes
  <2>2. TryNext(c) => (\E u \in Urbs : Try(c, u)) \/ Return(c)
    BY <2>1, NamedUrbs DEF TryNext, NoUrb
  <2> QED
    BY <2>2, <1>3, <1>4
<1> QED
  BY <1>1, <1>2, <1>3, <1>4, <1>5

\* OneFailure survives a step that makes no new failure and asks for no reset
\* unless one was asked for.
LEMMA FreedFailure ==
  ASSUME TypeOK, OneFailure, NEW c \in All, Freed(c), failures' = failures,
         \A u \in Urbs : urb'[u] = "failed" => urb[u] = "failed",
         NoReset => ~bulkOutReset' /\ resetCmds' = 0
  PROVE  OneFailure'
<1>1. \A d \in All : pc'[d] = "setreset" => pc[d] = "setreset"
  BY DEF TypeOK, CtxTypes, Freed, FreeLabels
<1>2. NoFailedUrb => NoFailedUrb'
  BY DEF NoFailedUrb
<1>3. NoSetReset => NoSetReset'
  BY <1>1 DEF NoSetReset
<1>4. InReset' => InReset
  BY DEF InReset, TypeOK, CtxTypes, Freed, FreeLabels, All
<1>5. NoReset => NoReset'
  BY <1>4 DEF NoReset
<1> QED
  BY <1>1, <1>2, <1>3, <1>5 DEF OneFailure

\* A context that moves on does not disturb the pipe the reset handler works on.
LEMMA FreedReset ==
  ASSUME TypeOK, ResetOnPipe, NEW c \in All, Freed(c), bulkResetPipeid' = bulkResetPipeid
  PROVE  ResetOnPipe'
  BY DEF ResetOnPipe, InReset, TypeOK, CtxTypes, Freed, FreeLabels, All

\* A context that moves on holds no pipe, and every other holder stays.
LEMMA FreedHolds ==
  ASSUME TypeOK, NEW c \in All, Freed(c)
  PROVE  \A d \in All, p \in Pipes : Holds(d, p)' <=> (Holds(d, p) /\ d # c)
<1>1. PICK l \in FreeLabels, u \in Urbs : pc' = [pc EXCEPT ![c] = l] /\ cur' = [cur EXCEPT ![c] = u]
  BY DEF Freed
<1>2. l \notin HoldLabels
  BY DEF FreeLabels, HoldLabels
<1> QED
  BY <1>1, <1>2, LeaveStep

\* A context without a pipe moves on and touches no pipe.
LEMMA QuietStep ==
  ASSUME TypeOK, Good, NEW c \in All, Freed(c), pc[c] \notin HoldLabels,
         UNCHANGED <<urb, BulkOutPending, BulkOutPipeId, failures, bulkResetPipeid>>,
         NoReset => ~bulkOutReset' /\ resetCmds' = 0
  PROVE  Good'
<1>1. OneFailure'
  BY FreedFailure DEF Good
<1>2. ResetOnPipe'
  BY FreedReset DEF Good
<1>3. OwnPipe'
  BY DEF Good, OwnPipe
<1>4. \A d \in All, p \in Pipes : Holds(d, p)' <=> Holds(d, p)
  BY FreedHolds DEF Holds, HoldLabels
<1>5. \A v \in Urbs, p \in Pipes : Carries(v, p)' <=> Carries(v, p)
  BY DEF Carries
<1>6. Exclusion'
  BY <1>4, <1>5, NeutralStep DEF Good
<1> QED
  BY <1>1, <1>2, <1>3, <1>6 DEF Good

\* No pipe is claimed and nothing has failed at the start.
LEMMA GoodInit == Init => Good
<1> SUFFICES ASSUME Init PROVE Good
  OBVIOUS
<1>1. OneFailure
  BY DEF Init, OneFailure, NoReset, NoFailedUrb, NoSetReset, InReset, All
<1>2. ResetOnPipe /\ OwnPipe
  BY DEF Init, ResetOnPipe, OwnPipe, InReset, All
<1>3. Exclusion
  BY DEF Init, Exclusion, PipeExclusive, PendingHasUser, Holds, Carries
<1> QED
  BY <1>1, <1>2, <1>3 DEF Good

\* The holder of a pipe: what Holds says of a context about to submit.
LEMMA HolderFacts ==
  ASSUME TypeOK, NEW c \in All, pc[c] \in HoldLabels
  PROVE  /\ PipeOf(cur[c]) \in Pipes /\ Holds(c, PipeOf(cur[c]))
         /\ \A p \in Pipes : Holds(c, p) => p = PipeOf(cur[c])
<1>1. cur[c] \in Urbs
  BY DEF TypeOK, CtxTypes
<1> QED
  BY <1>1, UrbFacts DEF Holds, HoldLabels

\* A holder releases its pipe: GiveUp, and the two failed submissions.
LEMMA DropsPipe ==
  ASSUME TypeOK, Good, NEW c \in All, Freed(c), pc[c] \in HoldLabels,
         UNCHANGED <<urb, BulkOutPipeId, failures, bulkResetPipeid, bulkOutReset, resetCmds>>,
         BulkOutPending' = [BulkOutPending EXCEPT ![PipeOf(cur[c])] = FALSE]
  PROVE  Good'
<1>1. OneFailure'
  BY FreedFailure DEF Good, NoReset
<1>2. ResetOnPipe' /\ OwnPipe'
  BY FreedReset DEF Good, OwnPipe
<1>3. \A v \in Urbs, p \in Pipes : Carries(v, p)' <=> Carries(v, p)
  BY DEF Carries
<1>4. \A p \in Pipes : BulkOutPending'[p] <=> (BulkOutPending[p] /\ p # PipeOf(cur[c]))
  BY DEF TypeOK, PipeTypes
<1>5. Exclusion'
  BY <1>3, <1>4, HolderFacts, FreedHolds, DropStep DEF Good
<1> QED
  BY <1>1, <1>2, <1>5 DEF Good

\* A holder submits its URB: Submit and ResetSubmit.
LEMMA LaunchesUrb ==
  ASSUME TypeOK, Good, NEW c \in All, Freed(c), pc[c] \in HoldLabels,
         UNCHANGED <<BulkOutPending, failures, bulkResetPipeid, bulkOutReset, resetCmds>>,
         OwnPipe', urb' = [urb EXCEPT ![cur[c]] = "flying"]
  PROVE  Good'
<1>0. cur[c] \in Urbs
  BY DEF TypeOK, CtxTypes
<1>1. OneFailure'
  <2>1. \A u \in Urbs : urb'[u] = "failed" => urb[u] = "failed"
    BY <1>0 DEF TypeOK, PipeTypes
  <2> QED
    BY <2>1, FreedFailure DEF Good, NoReset
<1>2. ResetOnPipe'
  BY FreedReset DEF Good
<1>3. \A v \in Urbs, p \in Pipes :
        Carries(v, p)' <=> (Carries(v, p) \/ (v = cur[c] /\ p = PipeOf(cur[c])))
  BY <1>0 DEF Carries, TypeOK, PipeTypes
<1>5. Exclusion'
  BY <1>0, <1>3, HolderFacts, FreedHolds, LaunchStep DEF Good
<1> QED
  BY <1>1, <1>2, <1>5 DEF Good

\* With at most one failure, every step keeps the pipes' users apart.
LEMMA GoodStep ==
  ASSUME TypeOK, Good, Next, failures' <= 1
  PROVE  Good'
<1>c. Ctx \subseteq All /\ CmdThread \in All /\ CmdThread \notin Ctx
  BY BulkOutAssumption DEF All
<1>u. \A c \in All : cur[c] \in Urbs
  BY DEF TypeOK, CtxTypes
<1> USE DEF ring, rst, flags, cnts
<1>1. ASSUME NEW c \in Ctx, NEW p \in Pipes, DataKickOut(c, p) PROVE Good'
  <2>1. Freed(c)
    BY <1>1, <1>c, FreedBy DEF DataKickOut
  <2>2. NoReset => ~bulkOutReset' /\ resetCmds' = 0
    BY <1>1 DEF DataKickOut, NoReset
  <2> QED
    BY <1>1, <1>c, <2>1, <2>2, QuietStep DEF DataKickOut, HoldLabels
<1>2. ASSUME NEW c \in Ctx, MiniportMMRequest(c) PROVE Good'
  <2>1. Freed(c)
    <3>1. cur' = [cur EXCEPT ![c] = cur[c]]
      BY <1>2 DEF MiniportMMRequest, TypeOK, CtxTypes
    <3> QED
      BY <1>2, <1>c, <1>u, <3>1 DEF MiniportMMRequest, Goto, Freed, FreeLabels
  <2>2. NoReset => ~bulkOutReset' /\ resetCmds' = 0
    BY <1>2 DEF MiniportMMRequest, NoReset
  <2> QED
    BY <1>2, <1>c, <2>1, <2>2, QuietStep DEF MiniportMMRequest, HoldLabels
<1>3. ASSUME NEW c \in Ctx, MgmtKickOut(c) PROVE Good'
  <2>1. Freed(c)
    BY <1>3, <1>c, FreedBy DEF MgmtKickOut
  <2>2. NoReset => ~bulkOutReset' /\ resetCmds' = 0
    BY <1>3 DEF MgmtKickOut, NoReset
  <2> QED
    BY <1>3, <1>c, <2>1, <2>2, QuietStep DEF MgmtKickOut, HoldLabels
<1>4. ASSUME NEW c \in Ctx, MgmtUnlock(c) PROVE Good'
  <2>1. Freed(c)
    BY <1>4, <1>c, FreedBy DEF MgmtUnlock
  <2>2. NoReset => ~bulkOutReset' /\ resetCmds' = 0
    BY <1>4 DEF MgmtUnlock, NoReset
  <2> QED
    BY <1>4, <1>c, <2>1, <2>2, QuietStep DEF MgmtUnlock, HoldLabels
<1>5. ASSUME NEW c \in Ctx, NullFrameKickOut(c) PROVE Good'
  <2>1. Freed(c)
    BY <1>5, <1>c, FreedBy DEF NullFrameKickOut
  <2>2. NoReset => ~bulkOutReset' /\ resetCmds' = 0
    BY <1>5 DEF NullFrameKickOut, NoReset
  <2> QED
    BY <1>5, <1>c, <2>1, <2>2, QuietStep DEF NullFrameKickOut, HoldLabels
<1>6. ASSUME NEW c \in All, KickBulkOut(c) PROVE Good'
  <2>1. Freed(c)
    <3>1. TxDmaIdx \in Cells
      BY DEF TypeOK, RingTypes
    <3> QED
      BY <1>6, <3>1, FreedBy, NamedUrbs DEF KickBulkOut
  <2>2. NoReset => ~bulkOutReset' /\ resetCmds' = 0
    BY <1>6 DEF KickBulkOut, NoReset
  <2> QED
    BY <1>6, <2>1, <2>2, QuietStep DEF KickBulkOut, HoldLabels
<1>7. ASSUME NEW c \in All, Claim(c) PROVE Good'
  <2> DEFINE q == PipeOf(cur[c])
  <2>q. q \in Pipes /\ ~BulkOutPending[q]
    BY <1>7, <1>u, UrbFacts DEF Claim, MayClaim
  <2>p. pc' = [pc EXCEPT ![c] = "claimed"] /\ UNCHANGED <<cur, urb, failures, rst, BulkOutPipeId>>
    BY <1>7 DEF Claim, Goto
  <2>1. OneFailure'
    <3>1. \A d \in All : pc'[d] = "setreset" <=> pc[d] = "setreset"
      BY <1>7, <2>p DEF Claim, TypeOK, CtxTypes
    <3>2. InReset' <=> InReset
      BY <1>7, <1>c, <2>p DEF Claim, InReset, TypeOK, CtxTypes
    <3> QED
      BY <2>p, <3>1, <3>2 DEF Good, OneFailure, NoReset, NoFailedUrb, NoSetReset
  <2>2. ResetOnPipe' /\ OwnPipe'
    BY <1>7, <1>c, <2>p DEF Claim, Good, OwnPipe, ResetOnPipe, InReset, TypeOK, CtxTypes
  <2>3. \A d \in All, p \in Pipes : Holds(d, p)' <=> (Holds(d, p) \/ (d = c /\ p = q))
    BY <1>7, <2>p DEF Claim, Holds, TypeOK, CtxTypes
  <2>4. \A v \in Urbs, p \in Pipes : Carries(v, p)' <=> Carries(v, p)
    BY <2>p DEF Carries
  <2>5. \A p \in Pipes : BulkOutPending'[p] <=> (BulkOutPending[p] \/ p = q)
    BY <1>7, <2>q DEF Claim, TypeOK, PipeTypes
  <2>6. \A p \in Pipes : Holds(c, p) => p = q
    BY DEF Holds
  <2>7. Exclusion'
    BY <2>q, <2>3, <2>4, <2>5, <2>6, TakeStep DEF Good
  <2> QED
    BY <2>1, <2>2, <2>7 DEF Good
<1>8. ASSUME NEW c \in All, PassOver(c) PROVE Good'
  <2>1. Freed(c)
    BY <1>8, <1>c, FreedBy DEF PassOver
  <2>2. NoReset => ~bulkOutReset' /\ resetCmds' = 0
    BY <1>8 DEF PassOver, NoReset
  <2> QED
    BY <1>8, <1>c, <2>1, <2>2, QuietStep DEF PassOver, HoldLabels
<1>9. ASSUME NEW c \in All, GiveUp(c) PROVE Good'
  <2>1. Freed(c)
    BY <1>9, FreedBy DEF GiveUp
  <2> QED
    BY <1>9, <2>1, DropsPipe DEF GiveUp, HoldLabels, PipeOf
<1>10. ASSUME NEW c \in All, Submit(c) PROVE Good'
  <2>1. Freed(c)
    BY <1>10, FreedBy DEF Submit
  <2>2. OwnPipe'
    BY <1>10, <1>u, UrbFacts DEF Submit, Load, Good, OwnPipe, TypeOK, PipeTypes
  <2> QED
    BY <1>10, <2>1, <2>2, LaunchesUrb DEF Submit, HoldLabels
<1>11. ASSUME NEW c \in All, SubmitFails(c) PROVE Good'
  <2>1. Freed(c)
    BY <1>11, FreedBy DEF SubmitFails
  <2>2. BulkOutPipeId' = BulkOutPipeId
    BY <1>11, <1>u, UrbFacts DEF SubmitFails, Load, Good, OwnPipe, TypeOK, PipeTypes
  <2> QED
    BY <1>11, <2>1, <2>2, DropsPipe DEF SubmitFails, HoldLabels
<1>12. ASSUME NEW u \in Urbs, UrbDone(u) PROVE Good'
  <2>1. \A v \in Urbs : (urb'[v] = "failed" <=> urb[v] = "failed") /\ (urb'[v] = "idle" <=> urb[v] = "idle")
    BY <1>12 DEF UrbDone, TypeOK, PipeTypes
  <2>2. OneFailure' /\ ResetOnPipe' /\ OwnPipe'
    BY <1>12, <2>1 DEF UrbDone, Good, OneFailure, NoReset, NoFailedUrb, NoSetReset, InReset,
       ResetOnPipe, OwnPipe
  <2>3. \A d \in All, p \in Pipes : Holds(d, p)' <=> Holds(d, p)
    BY <1>12 DEF UrbDone, Holds
  <2>4. \A v \in Urbs, p \in Pipes : Carries(v, p)' <=> Carries(v, p)
    BY <2>1 DEF Carries
  <2>5. Exclusion'
    BY <1>12, <2>3, <2>4, NeutralStep DEF Good, UrbDone
  <2> QED
    BY <2>2, <2>5 DEF Good
<1>13. ASSUME NEW u \in Urbs, UrbFails(u) PROVE Good'
  <2>1. failures = 0 /\ failures' = 1
    BY <1>13, BulkOutAssumption DEF UrbFails, TypeOK, ResetTypes
  <2>2. \A v \in Urbs : (urb'[v] = "failed" <=> v = u) /\ (urb'[v] = "idle" <=> urb[v] = "idle")
    BY <1>13, <2>1 DEF UrbFails, TypeOK, PipeTypes, Good, OneFailure, NoFailedUrb
  <2>3. OneFailure' /\ ResetOnPipe' /\ OwnPipe'
    BY <1>13, <2>1, <2>2 DEF UrbFails, Good, OneFailure, NoReset, NoFailedUrb, NoSetReset, InReset,
       ResetOnPipe, OwnPipe
  <2>4. \A d \in All, p \in Pipes : Holds(d, p)' <=> Holds(d, p)
    BY <1>13 DEF UrbFails, Holds
  <2>5. \A v \in Urbs, p \in Pipes : Carries(v, p)' <=> Carries(v, p)
    BY <2>2 DEF Carries
  <2>6. Exclusion'
    BY <1>13, <2>4, <2>5, NeutralStep DEF Good, UrbFails
  <2> QED
    BY <2>3, <2>6 DEF Good
<1>14. ASSUME NEW c \in Ctx, NEW u \in Urbs, Complete(c, u) PROVE Good'
  <2>0. c \in All /\ c # CmdThread /\ DonePipe(u) = PipeOf(u) /\ PipeOf(u) \in Pipes
    BY <1>c, UrbFacts DEF Good, OwnPipe, DonePipe, PipeOf
  <2>1. /\ pc[c] = "idle" /\ cur' = [cur EXCEPT ![c] = u] /\ urb' = [urb EXCEPT ![u] = "idle"]
        /\ \/ urb[u] = "failed" /\ pc' = [pc EXCEPT ![c] = "setreset"]
           \/ pc' = [pc EXCEPT ![c] = "tail"]
        /\ urb[u] \in {"done", "failed"}
        /\ UNCHANGED <<rst, BulkOutPipeId, failures>>
    BY <1>14 DEF Complete, Goto
  <2>2. \A v \in Urbs : urb'[v] = IF v = u THEN "idle" ELSE urb[v]
    BY <2>1 DEF TypeOK, PipeTypes
  <2>3. \A d \in All : d # c => pc'[d] = pc[d] /\ cur'[d] = cur[d]
    BY <2>0, <2>1 DEF TypeOK, CtxTypes
  <2>4. OneFailure'
    <3>1. NoReset' <=> NoReset
      BY <1>c, <2>0, <2>1, <2>3 DEF NoReset, InReset
    <3>2. CASE pc' = [pc EXCEPT ![c] = "tail"]
      <4>1. \A d \in All : pc'[d] = "setreset" => pc[d] = "setreset"
        BY <2>0, <3>2 DEF TypeOK, CtxTypes
      <4>2. NoSetReset => NoSetReset'
        BY <4>1 DEF NoSetReset
      <4>3. NoFailedUrb => NoFailedUrb'
        BY <2>2 DEF NoFailedUrb
      <4> QED
        BY <2>1, <2>2, <3>1, <4>1, <4>2, <4>3 DEF Good, OneFailure
    <3>3. CASE urb[u] = "failed" /\ pc' = [pc EXCEPT ![c] = "setreset"]
      <4>1. NoReset /\ NoSetReset /\ failures # 0
        BY <3>3 DEF Good, OneFailure, NoFailedUrb
      <4>2. NoFailedUrb'
        BY <2>2, <3>3 DEF Good, OneFailure, NoFailedUrb
      <4>3. \A d \in All : pc'[d] = "setreset" => d = c
        BY <2>3, <4>1 DEF NoSetReset
      <4> QED
        BY <2>1, <2>2, <3>1, <4>1, <4>2, <4>3 DEF OneFailure, NoFailedUrb
    <3> QED
      BY <2>1, <3>2, <3>3
  <2>5. ResetOnPipe' /\ OwnPipe'
    BY <1>c, <2>0, <2>1, <2>3 DEF Good, ResetOnPipe, OwnPipe, InReset
  <2>6. \A d \in All, p \in Pipes : Holds(d, p)' <=> Holds(d, p)
    BY <2>0, <2>1, <2>3 DEF Holds, TypeOK, CtxTypes
  <2>7. \A v \in Urbs, p \in Pipes : Carries(v, p)' <=> (Carries(v, p) /\ v # u)
    BY <2>2 DEF Carries
  <2>8. \A p \in Pipes : BulkOutPending'[p] <=> (BulkOutPending[p] /\ p # PipeOf(u))
    BY <1>14, <2>0 DEF Complete, TypeOK, PipeTypes
  <2>9. Carries(u, PipeOf(u)) /\ \A p \in Pipes : Carries(u, p) => p = PipeOf(u)
    BY <2>1 DEF Carries
  <2>10. Exclusion'
    BY <2>0, <2>6, <2>7, <2>8, <2>9, EndStep DEF Good
  <2> QED
    BY <2>4, <2>5, <2>10 DEF Good
<1>15. ASSUME NEW c \in Ctx, SetReset(c) PROVE Good'
  <2>0. c \in All /\ c # CmdThread
    BY <1>c
  <2>1. /\ pc[c] = "setreset" /\ pc' = [pc EXCEPT ![c] = "tail"]
        /\ UNCHANGED <<cur, urb, BulkOutPending, BulkOutPipeId, failures>>
    BY <1>15 DEF SetReset, Goto
  <2>2. \A d \in All : pc'[d] = IF d = c THEN "tail" ELSE pc[d]
    BY <2>0, <2>1 DEF TypeOK, CtxTypes
  <2>3. OneFailure'
    <3>1. NoSetReset' /\ NoFailedUrb' /\ failures # 0
      BY <2>0, <2>1, <2>2 DEF Good, OneFailure, NoSetReset, NoFailedUrb
    <3> QED
      BY <2>1, <3>1 DEF OneFailure, NoSetReset, NoFailedUrb
  <2>4. ~InReset /\ ~InReset'
    BY <1>c, <2>0, <2>1, <2>2 DEF Good, OneFailure, NoSetReset, NoReset, InReset
  <2>5. ResetOnPipe' /\ OwnPipe'
    BY <2>1, <2>4 DEF ResetOnPipe, OwnPipe, Good
  <2>6. \A d \in All, p \in Pipes : Holds(d, p)' <=> Holds(d, p)
    BY <2>1, <2>2 DEF Holds
  <2>7. \A v \in Urbs, p \in Pipes : Carries(v, p)' <=> Carries(v, p)
    BY <2>1 DEF Carries
  <2>8. Exclusion'
    BY <2>1, <2>6, <2>7, NeutralStep DEF Good
  <2> QED
    BY <2>3, <2>5, <2>8 DEF Good
<1>16. ASSUME NEW c \in Ctx, NullTail(c) PROVE Good'
  <2>1. Freed(c)
    BY <1>16, <1>c, FreedBy DEF NullTail
  <2>2. NoReset => ~bulkOutReset' /\ resetCmds' = 0
    BY <1>16 DEF NullTail, NoReset
  <2> QED
    BY <1>16, <1>c, <2>1, <2>2, QuietStep DEF NullTail, HoldLabels
<1>17. ASSUME NEW c \in Ctx, MgmtTail(c) PROVE Good'
  <2>1. Freed(c)
    BY <1>17, <1>c, FreedBy DEF MgmtTail
  <2>2. NoReset => ~bulkOutReset' /\ resetCmds' = 0
    BY <1>17 DEF MgmtTail, NoReset
  <2> QED
    BY <1>17, <1>c, <2>1, <2>2, QuietStep DEF MgmtTail, HoldLabels
<1>18. ASSUME NEW c \in Ctx, DataTail(c) PROVE Good'
  <2>1. Freed(c)
    BY <1>18, <1>c, FreedBy DEF DataTail
  <2>2. NoReset => ~bulkOutReset' /\ resetCmds' = 0
    BY <1>18 DEF DataTail, NoReset
  <2> QED
    BY <1>18, <1>c, <2>1, <2>2, QuietStep DEF DataTail, HoldLabels
<1>19. ASSUME NEW c \in Ctx, DataCheck(c) PROVE Good'
  <2>1. Freed(c)
    BY <1>19, <1>c, FreedBy DEF DataCheck
  <2>2. NoReset => ~bulkOutReset' /\ resetCmds' = 0
    BY <1>19 DEF DataCheck, NoReset
  <2> QED
    BY <1>19, <1>c, <2>1, <2>2, QuietStep DEF DataCheck, HoldLabels
<1>20. CASE ResetMgmt
  <2>1. ~NoReset
    BY <1>20 DEF ResetMgmt, NoReset
  <2>2. Freed(CmdThread)
    <3>1. CASE halted
      <4>1. pc' = [pc EXCEPT ![CmdThread] = "idle"] /\ cur' = [cur EXCEPT ![CmdThread] = cur[CmdThread]]
        BY <1>20, <3>1, <1>c DEF ResetMgmt, TypeOK, CtxTypes
      <4> QED
        BY <1>c, <1>u, <4>1 DEF Freed, FreeLabels
    <3>2. CASE ~halted
      BY <1>20, <3>2, <1>c, FreedBy DEF ResetMgmt
    <3> QED
      BY <3>1, <3>2
  <2> QED
    BY <1>20, <1>c, <2>1, <2>2, QuietStep DEF ResetMgmt, HoldLabels
<1>21. CASE ResetLock
  <2> DEFINE q == bulkResetPipeid
             l == IF BulkOutPending[q] THEN "rbusy" ELSE "rclaimed"
  <2>0. q \in Pipes /\ ~NoReset /\ NoFailedUrb /\ NoSetReset /\ failures # 0
    BY <1>21 DEF ResetLock, NoReset, Good, OneFailure
  <2>1. /\ pc[CmdThread] = "idle" /\ pc' = [pc EXCEPT ![CmdThread] = l]
        /\ cur' = [cur EXCEPT ![CmdThread] = <<"data", q>>]
        /\ UNCHANGED <<urb, BulkOutPipeId, failures, bulkResetPipeid>>
    BY <1>21 DEF ResetLock, Goto
  <2>l. l \in {"rbusy", "rclaimed"} /\ (l = "rbusy" <=> BulkOutPending[q])
    OBVIOUS
  <2> HIDE DEF l
  <2>2. /\ \A d \in All : d # CmdThread => pc'[d] = pc[d] /\ cur'[d] = cur[d]
        /\ pc'[CmdThread] = l /\ cur'[CmdThread] = <<"data", q>>
    BY <1>c, <2>1 DEF TypeOK, CtxTypes
  <2>3. OneFailure'
    <3>1. NoFailedUrb' /\ NoSetReset'
      BY <2>0, <2>1, <2>2, <2>l DEF NoFailedUrb, NoSetReset
    <3> QED
      BY <2>0, <2>1, <3>1 DEF OneFailure, NoFailedUrb, NoSetReset
  <2>4. ResetOnPipe' /\ OwnPipe'
    BY <1>c, <2>0, <2>1, <2>2 DEF ResetOnPipe, InReset, OwnPipe, Good
  <2>5. \A v \in Urbs, p \in Pipes : Carries(v, p)' <=> Carries(v, p)
    BY <2>1 DEF Carries
  <2>6. \A p \in Pipes : BulkOutPending'[p] <=> (BulkOutPending[p] \/ p = q)
    BY <1>21, <2>0 DEF ResetLock, TypeOK, PipeTypes
  <2>7. \A p \in Pipes : ~Holds(CmdThread, p)
    BY <2>1 DEF Holds
  <2>8. CASE BulkOutPending[q]
    <3>1. \A d \in All, p \in Pipes : Holds(d, p)' <=> Holds(d, p)
      BY <1>c, <2>2, <2>l, <2>7, <2>8 DEF Holds
    <3>2. Exclusion'
      BY <2>5, <2>6, <2>8, <3>1, NeutralStep DEF Good
    <3> QED
      BY <2>3, <2>4, <3>2 DEF Good
  <2>9. CASE ~BulkOutPending[q]
    <3>1. \A d \in All, p \in Pipes : Holds(d, p)' <=> (Holds(d, p) \/ (d = CmdThread /\ p = q))
      BY <1>c, <2>2, <2>l, <2>7, <2>9 DEF Holds, PipeOf
    <3>2. Exclusion'
      BY <1>c, <2>0, <2>5, <2>6, <2>7, <2>9, <3>1, TakeStep DEF Good
    <3> QED
      BY <2>3, <2>4, <3>2 DEF Good
  <2> QED
    BY <2>8, <2>9
<1>22. ASSUME ResetClear \/ (ResetUnlock /\ pc[CmdThread] = "rsend") PROVE Good'
  <2>0. InReset /\ InReset' /\ UNCHANGED <<cur, urb, BulkOutPending, failures, bulkResetPipeid>>
    BY <1>22, <1>c DEF ResetClear, ResetUnlock, InReset, Goto, TypeOK, CtxTypes
  <2>p. PICK l \in {"rskip", "rsend", "rsubmit"} :
          /\ pc' = [pc EXCEPT ![CmdThread] = l]
          /\ l = "rskip" <=> pc[CmdThread] = "rbusy"
          /\ pc[CmdThread] \in {"rbusy", "rclaimed", "rsend"}
    BY <1>22 DEF ResetClear, ResetUnlock, Goto
  <2>r. pc'[CmdThread] = l /\ \A d \in All : d # CmdThread => pc'[d] = pc[d]
    BY <2>p, <1>c DEF TypeOK, CtxTypes
  <2>s. pc'[CmdThread] # "setreset" /\ pc[CmdThread] # "setreset"
    BY <2>p, <2>r
  <2>h. pc'[CmdThread] \in HoldLabels <=> pc[CmdThread] \in HoldLabels
    BY <2>p, <2>r DEF HoldLabels
  <2>1. \A d \in All : pc'[d] = "setreset" => pc[d] = "setreset"
    BY <2>r, <2>s
  <2>2. OneFailure'
    <3>1. ~NoReset /\ NoFailedUrb /\ NoSetReset /\ failures # 0
      BY <2>0 DEF Good, OneFailure, NoReset
    <3>2. NoFailedUrb' /\ NoSetReset'
      <4>1. NoFailedUrb'
        BY <2>0, <3>1 DEF NoFailedUrb
      <4>2. NoSetReset'
        BY <2>1, <3>1 DEF NoSetReset
      <4> QED
        BY <4>1, <4>2
    <3> QED
      BY <2>0, <3>1, <3>2 DEF OneFailure, NoFailedUrb, NoSetReset
  <2>3. ResetOnPipe'
    BY <2>0 DEF Good, ResetOnPipe
  <2>4. OwnPipe'
    BY <1>22, <2>0 DEF Good, OwnPipe, ResetOnPipe, ResetClear, ResetUnlock, TypeOK, PipeTypes
  <2>5. \A d \in All, p \in Pipes : Holds(d, p)' <=> Holds(d, p)
    <3>1. \A p \in Pipes : Holds(CmdThread, p)' <=> Holds(CmdThread, p)
      BY <2>0, <2>h DEF Holds, HoldLabels
    <3> QED
      BY <2>0, <2>r, <3>1 DEF Holds
  <2>6. \A v \in Urbs, p \in Pipes : Carries(v, p)' <=> Carries(v, p)
    BY <2>0 DEF Carries
  <2>7. Exclusion'
    BY <2>0, <2>5, <2>6, NeutralStep DEF Good
  <2> QED
    BY <2>2, <2>3, <2>4, <2>7 DEF Good
<1>23. CASE ResetUnlock /\ pc[CmdThread] = "rskip"
  <2>1. Freed(CmdThread) /\ ~NoReset
    BY <1>23, <1>c, FreedBy DEF ResetUnlock, NoReset, InReset
  <2> QED
    BY <1>23, <1>c, <2>1, QuietStep DEF ResetUnlock, HoldLabels
<1>24. CASE ResetSubmit
  <2>1. Freed(CmdThread) /\ OwnPipe'
    BY <1>24, <1>c, FreedBy DEF ResetSubmit, Good, OwnPipe
  <2> QED
    BY <1>24, <1>c, <2>1, LaunchesUrb DEF ResetSubmit, HoldLabels
<1>25. CASE ResetSubmitFails
  <2>1. Freed(CmdThread)
    BY <1>25, <1>c, FreedBy DEF ResetSubmitFails
  <2>2. bulkResetPipeid \in Pipes /\ PipeOf(cur[CmdThread]) = bulkResetPipeid
    BY <1>25 DEF ResetSubmitFails, Good, ResetOnPipe, InReset, PipeOf
  <2> QED
    BY <1>25, <1>c, <2>1, <2>2, DropsPipe DEF ResetSubmitFails, ReleaseReset, HoldLabels
<1>26. CASE Halt
  BY <1>26 DEF Halt, Good, OneFailure, NoReset, NoFailedUrb, NoSetReset, InReset, ResetOnPipe,
     OwnPipe, Exclusion, PipeExclusive, PendingHasUser, Holds, Carries
<1> QED
  BY <1>1, <1>2, <1>3, <1>4, <1>5, <1>6, <1>7, <1>8, <1>9, <1>10, <1>11, <1>12,
     <1>13, <1>14, <1>15, <1>16, <1>17, <1>18, <1>19, <1>20, <1>21, <1>22, <1>23, <1>24,
     <1>25, <1>26
  DEF Next, KickStep, TaskletStep, ResetStep, ResetUnlock

\* The invariant is inductive: a step that brings the second failure ends its claim.
LEMMA InductiveStep == TypeOK /\ Inductive /\ [Next]_vars => Inductive'
<1> SUFFICES ASSUME TypeOK, Inductive, [Next]_vars, failures' <= 1 PROVE Good'
  BY DEF Inductive
<1>1. CASE UNCHANGED vars
  <2>1. Good
    BY <1>1 DEF Inductive, vars, cnts
  <2> QED
    BY <1>1, <2>1 DEF vars, ring, rst, flags, cnts, Good, OneFailure, NoReset, NoFailedUrb,
       NoSetReset, InReset, ResetOnPipe, OwnPipe, Exclusion, PipeExclusive, PendingHasUser,
       Holds, Carries
<1>2. CASE Next
  <2>1. failures' = failures \/ failures' = failures + 1
    BY <1>2, ZenonT(30) DEF Next, DataKickOut, MiniportMMRequest, MgmtKickOut, MgmtUnlock, NullFrameKickOut,
       TaskletStep, Complete, SetReset, NullTail, MgmtTail, DataTail, DataCheck, KickStep,
       KickBulkOut, Claim, PassOver, GiveUp, Submit, SubmitFails, UrbDone, UrbFails, ResetStep,
       ResetMgmt, ResetLock, ResetClear, ResetUnlock, ResetSubmit, ResetSubmitFails, Halt, cnts
  <2>2. failures <= 1
    BY <2>1 DEF TypeOK, ResetTypes
  <2> QED
    BY <1>2, <2>2, GoodStep DEF Inductive
<1> QED
  BY <1>1, <1>2

\* Whatever the number of pipes, contexts and frames, both hold as long as at most
\* one transfer has failed.
LEMMA Shared == Spec => []Inductive
<1>1. Init => Inductive
  BY GoodInit DEF Inductive
<1> QED
  BY <1>1, InductiveStep, TypeCorrect, PTL DEF Spec

\* RTUSBBulkOutDataPacket, RTUSBBulkOutMLMEPacket, RTUSBBulkOutNullFrame, the
\* completion tasklets and ResetBulkOutHdlr share BulkOutPending soundly: as long
\* as at most one transfer has failed, no pipe has two users.
THEOREM PipesExclusive == Spec => [](failures <= 1 => PipeExclusive)
<1>1. Inductive => (failures <= 1 => PipeExclusive)
  BY DEF Inductive, Good, Exclusion
<1> QED
  BY <1>1, Shared, PTL

\* And none of them leaves a pipe pending that nobody is left to release.
THEOREM PipesReleased == Spec => [](failures <= 1 => PendingHasUser)
<1>1. Inductive => (failures <= 1 => PendingHasUser)
  BY DEF Inductive, Good, Exclusion
<1> QED
  BY <1>1, Shared, PTL
=============================================================================
