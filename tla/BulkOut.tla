------------------------------ MODULE BulkOut ------------------------------
(***************************************************************************)
(* The bulk-out pipes of the adapter and who may use them.                 *)
(*                                                                         *)
(* Every data pipe has one URB (TxContext[p].pUrb). Pipe 0 also carries    *)
(* the management ring, one URB per cell, and the null frame. A context    *)
(* that wants a pipe sets BulkOutPending[p] under BulkOutLock[p], submits  *)
(* its URB, and the completion tasklet clears BulkOutPending[p]. A failed  *)
(* transfer sets fRTMP_ADAPTER_BULKOUT_RESET, which stops all kicks until  *)
(* the command thread has run ResetBulkOutHdlr.                            *)
(*                                                                         *)
(* What a data URB carries is the business of module TxRing; here a data   *)
(* ring is empty or not.                                                   *)
(***************************************************************************)
EXTENDS Integers, FiniteSets

CONSTANTS
  NPipes,       \* data pipes, 4 in the driver
  MgmtRingSize, \* MGMT_RING_SIZE
  Ctx,          \* contexts that send and run tasklets (CPUs, threads)
  CmdThread,    \* RTUSBCmdThread
  WordSize,     \* values of a uint32_t
  MaxFailures,  \* bound: transfers that complete with an error
  MaxSends      \* bound: frames handed to the driver

Pipes   == 0..(NPipes - 1)
Cells   == 0..(MgmtRingSize - 1)
All     == Ctx \union {CmdThread}

ASSUME BulkOutAssumption ==
  /\ NPipes \in 1..6 /\ MgmtRingSize \in Nat \ {0}
  /\ MaxFailures \in Nat /\ MaxSends \in Nat
  /\ CmdThread \notin Ctx
  /\ WordSize \in Nat /\ WordSize > MgmtRingSize + MaxSends

\* The URBs: <<kind, index>>, and the pipe each is sent on.
Urbs == ({"data"} \X Pipes) \union ({"mgmt"} \X Cells) \union {<<"null", 0>>}
PipeOf(u) == IF u[1] = "data" THEN u[2] ELSE 0

\* bulkResetPipeid of a failed management or null frame:
\* MGMTPIPEIDX | BULKOUT_MGMT_RESET_FLAG.
MgmtReset == 128

VARIABLES
  BulkOutPending,   \* per pipe
  locked,           \* BulkOutLock[p] held across steps
  urb,              \* "idle", "flying", "done" (tasklet scheduled) or "failed"
  BulkOutPipeId,    \* of the data contexts, stored by RTUSBInitHTTxDesc
  hasData,          \* does TxContext[p] hold frames to send?
  dataFlag, mlmeFlag, nullFlag,     \* BulkFlags
  TxCpuIdx, TxDmaIdx, TxSwFreeIdx,  \* MgmtRing
  cell,             \* TX_CONTEXT of each cell: [InUse, bWaitingBulkOut]
  nullInUse,        \* NullContext.InUse
  bulkOutReset,     \* fRTMP_ADAPTER_BULKOUT_RESET
  bulkResetPipeid,
  halted,           \* HALT_IN_PROGRESS or NIC_NOT_EXIST
  resetCmds,        \* queued CMDTHREAD_RESET_BULK_OUT
  pc, ret,          \* where a context is, and where its kick returns to
  cur,              \* the URB it is working on
  failures, sends

ring  == <<TxCpuIdx, TxDmaIdx, TxSwFreeIdx, cell>>
flags == <<dataFlag, mlmeFlag, nullFlag>>
rst   == <<bulkOutReset, bulkResetPipeid, resetCmds>>
cnts  == <<failures, sends>>
vars  == <<BulkOutPending, locked, urb, BulkOutPipeId, hasData, flags, ring, nullInUse,
           rst, halted, pc, ret, cur, cnts>>

\* cur[c] of a context that works on no URB.
NoUrb == <<"null", 0>>

Init ==
  /\ BulkOutPending = [p \in Pipes |-> FALSE]
  /\ locked = {}
  /\ urb = [u \in Urbs |-> "idle"]
  /\ BulkOutPipeId = [p \in Pipes |-> p]
  /\ hasData = [p \in Pipes |-> FALSE]
  /\ dataFlag = [p \in Pipes |-> FALSE] /\ mlmeFlag = FALSE /\ nullFlag = FALSE
  /\ TxCpuIdx = 0 /\ TxDmaIdx = 0 /\ TxSwFreeIdx = MgmtRingSize
  /\ cell = [i \in Cells |-> [InUse |-> FALSE, bWaitingBulkOut |-> FALSE]]
  /\ nullInUse = FALSE
  /\ bulkOutReset = FALSE /\ bulkResetPipeid = 0 /\ resetCmds = 0
  /\ halted = FALSE
  /\ pc = [c \in All |-> "idle"]
  /\ ret = [c \in All |-> <<"idle", 0>>]
  /\ cur = [c \in All |-> NoUrb]
  /\ failures = 0 /\ sends = 0

Goto(c, l) == pc' = [pc EXCEPT ![c] = l]

Finish(c) ==
  /\ pc' = [pc EXCEPT ![c] = "idle"]
  /\ ret' = [ret EXCEPT ![c] = <<"idle", 0>>]
  /\ cur' = [cur EXCEPT ![c] = NoUrb]

\* Call RTUSBKickBulkOut, then go on at label l, with pipe p.
Kick(c, l, p) ==
  /\ pc' = [pc EXCEPT ![c] = "kick"]
  /\ ret' = [ret EXCEPT ![c] = <<l, p>>]
  /\ cur' = [cur EXCEPT ![c] = NoUrb]

\* Mutant of INC_RING_INDEX: no wrap.
IncNoWrap(i) == i + 1

INC_RING_INDEX(i) == (i + 1) % MgmtRingSize

Word(n) == n % WordSize

-----------------------------------------------------------------------------
(***************************************************************************)
(* Senders.                                                                *)
(***************************************************************************)

\* A frame is complete in the ring of pipe p: RtmpUSBDataKickOut.
DataKickOut(c, p) ==
  /\ pc[c] = "idle" /\ c \in Ctx /\ sends < MaxSends
  /\ sends' = sends + 1
  /\ hasData' = [hasData EXCEPT ![p] = TRUE]
  /\ dataFlag' = [dataFlag EXCEPT ![p] = TRUE]
  /\ Kick(c, "idle", 0)
  /\ UNCHANGED <<BulkOutPending, locked, urb, BulkOutPipeId, mlmeFlag, nullFlag, ring,
                 nullInUse, rst, halted, failures>>

\* MiniportMMRequest finds a free cell, before it takes MgmtRingLock ...
MiniportMMRequest(c) ==
  /\ pc[c] = "idle" /\ c \in Ctx
  /\ ~halted /\ TxSwFreeIdx > 0 /\ sends < MaxSends
  /\ sends' = sends + 1
  /\ Goto(c, "mgmt")
  /\ UNCHANGED <<BulkOutPending, locked, urb, BulkOutPipeId, hasData, flags, ring, nullInUse,
                 rst, halted, ret, cur, failures>>

\* ... and RtmpUSBMgmtKickOut writes the frame and kicks, MgmtRingLock held
\* until the kick returns.
MgmtKickOut(c) ==
  /\ pc[c] = "mgmt" /\ \A d \in Ctx : ret[d][1] # "unlock"
  /\ cell' = [cell EXCEPT ![TxCpuIdx] = [InUse |-> TRUE, bWaitingBulkOut |-> TRUE]]
  /\ TxSwFreeIdx' = Word(TxSwFreeIdx - 1)
  /\ TxCpuIdx' = INC_RING_INDEX(TxCpuIdx)
  /\ mlmeFlag' = TRUE
  /\ Kick(c, "unlock", 0)
  /\ UNCHANGED <<BulkOutPending, locked, urb, BulkOutPipeId, hasData, dataFlag, nullFlag,
                 TxDmaIdx, nullInUse, rst, halted, cnts>>

MgmtUnlock(c) ==
  /\ pc[c] = "unlock"
  /\ Finish(c)
  /\ UNCHANGED <<BulkOutPending, locked, urb, BulkOutPipeId, hasData, flags, ring, nullInUse,
                 rst, halted, cnts>>

\* RtmpUSBNullFrameKickOut.
NullFrameKickOut(c) ==
  /\ pc[c] = "idle" /\ c \in Ctx /\ ~nullInUse /\ sends < MaxSends
  /\ sends' = sends + 1
  /\ nullInUse' = TRUE /\ nullFlag' = TRUE
  /\ Kick(c, "idle", 0)
  /\ UNCHANGED <<BulkOutPending, locked, urb, BulkOutPipeId, hasData, dataFlag, mlmeFlag, ring,
                 rst, halted, failures>>

-----------------------------------------------------------------------------
(***************************************************************************)
(* RTUSBKickBulkOut: management, then data 0, 1, ..., then the null frame. *)
(***************************************************************************)
Return(c) == pc' = [pc EXCEPT ![c] = ret[c][1]] /\ cur' = [cur EXCEPT ![c] = NoUrb]

Try(c, u) == pc' = [pc EXCEPT ![c] = "try"] /\ cur' = [cur EXCEPT ![c] = u]

\* The attempt after the one on cur[c].
TryNext(c) ==
  \/ cur[c][1] = "mgmt" /\ Try(c, <<"data", 0>>)
  \/ cur[c][1] = "data" /\ cur[c][2] + 1 < NPipes /\ Try(c, <<"data", cur[c][2] + 1>>)
  \/ cur[c][1] = "data" /\ cur[c][2] + 1 = NPipes /\ Try(c, <<"null", 0>>)
  \/ cur[c][1] = "null" /\ Return(c)

\* Entry, and the tests RTUSBBulkOutMLMEPacket makes before it takes the lock.
KickBulkOut(c) ==
  /\ pc[c] = "kick"
  /\ \/ /\ bulkOutReset \/ halted
        /\ Return(c)
        /\ UNCHANGED mlmeFlag
     \/ /\ ~bulkOutReset /\ ~halted
        /\ IF mlmeFlag \/ TxSwFreeIdx < MgmtRingSize
           THEN IF /\ TxSwFreeIdx < MgmtRingSize
                   /\ cell[TxDmaIdx].InUse
                   /\ cell[TxDmaIdx].bWaitingBulkOut
                THEN Try(c, <<"mgmt", TxDmaIdx>>) /\ UNCHANGED mlmeFlag
                ELSE Try(c, <<"data", 0>>) /\ mlmeFlag' = FALSE
           ELSE Try(c, <<"data", 0>>) /\ UNCHANGED mlmeFlag
  /\ UNCHANGED <<BulkOutPending, locked, urb, BulkOutPipeId, hasData, dataFlag, nullFlag, ring,
                 nullInUse, rst, halted, ret, cnts>>

\* Is there something to send? A management frame was tested for by KickBulkOut.
Wanted(u) == \/ u[1] = "mgmt"
             \/ u[1] = "data" /\ dataFlag[u[2]]
             \/ u[1] = "null" /\ nullFlag

\* Mutant of MayClaim: the pipe is taken without looking whether it is in use.
MayClaimUnchecked(p) == ~bulkOutReset /\ ~halted

\* The test RTUSBBulkOut*Packet makes under BulkOutLock[p].
MayClaim(p) == ~BulkOutPending[p] /\ ~bulkOutReset /\ ~halted

\* Take the pipe under its lock; a management cell stops waiting.
Claim(c) ==
  /\ pc[c] = "try" /\ PipeOf(cur[c]) \notin locked
  /\ Wanted(cur[c]) /\ MayClaim(PipeOf(cur[c]))
  /\ BulkOutPending' = [BulkOutPending EXCEPT ![PipeOf(cur[c])] = TRUE]
  /\ cell' = IF cur[c][1] = "mgmt" THEN [cell EXCEPT ![cur[c][2]].bWaitingBulkOut = FALSE]
             ELSE cell
  /\ mlmeFlag' = (mlmeFlag /\ cur[c][1] # "mgmt")
  /\ nullFlag' = (nullFlag /\ cur[c][1] # "null")
  /\ Goto(c, "claimed")
  /\ UNCHANGED <<locked, urb, BulkOutPipeId, hasData, dataFlag, TxCpuIdx, TxDmaIdx, TxSwFreeIdx,
                 nullInUse, rst, halted, ret, cur, cnts>>

\* Nothing to send, the pipe in use or stopped; a data pipe is also passed over
\* during a scan and while no link is up.
PassOver(c) ==
  /\ pc[c] = "try" /\ PipeOf(cur[c]) \notin locked
  /\ \/ ~Wanted(cur[c])
     \/ ~MayClaim(PipeOf(cur[c]))
     \/ cur[c][1] = "data"
  /\ TryNext(c)
  /\ UNCHANGED <<BulkOutPending, locked, urb, BulkOutPipeId, hasData, flags, ring, nullInUse,
                 rst, halted, ret, cnts>>

\* RTUSBBulkOutDataPacket finds its ring empty: it lets the pipe go.
GiveUp(c) ==
  /\ pc[c] = "claimed" /\ cur[c][1] = "data" /\ PipeOf(cur[c]) \notin locked
  /\ ~hasData[cur[c][2]]
  /\ BulkOutPending' = [BulkOutPending EXCEPT ![cur[c][2]] = FALSE]
  /\ dataFlag' = [dataFlag EXCEPT ![cur[c][2]] = FALSE]
  /\ TryNext(c)
  /\ UNCHANGED <<locked, urb, BulkOutPipeId, hasData, mlmeFlag, nullFlag, ring, nullInUse, rst,
                 halted, ret, cnts>>

\* The frames of a data ring go into its URB.
Load(u) ==
  IF u[1] = "data"
  THEN /\ hasData' = [hasData EXCEPT ![u[2]] = FALSE]
       /\ dataFlag' = [dataFlag EXCEPT ![u[2]] = FALSE]
       /\ BulkOutPipeId' = [BulkOutPipeId EXCEPT ![u[2]] = u[2]]
  ELSE UNCHANGED <<hasData, dataFlag, BulkOutPipeId>>

\* usb_submit_urb takes the URB ...
Submit(c) ==
  /\ pc[c] = "claimed"
  /\ cur[c][1] = "data" => hasData[cur[c][2]]
  /\ Load(cur[c])
  /\ urb' = [urb EXCEPT ![cur[c]] = "flying"]
  /\ TryNext(c)
  /\ UNCHANGED <<BulkOutPending, locked, mlmeFlag, nullFlag, ring, nullInUse, rst, halted, ret,
                 cnts>>

\* ... or refuses it: the pipe is released, a management cell waits again. A
\* data URB's frames, and the null frame's context, are not restored.
SubmitFails(c) ==
  /\ pc[c] = "claimed" /\ PipeOf(cur[c]) \notin locked
  /\ cur[c][1] = "data" => hasData[cur[c][2]]
  /\ Load(cur[c])
  /\ BulkOutPending' = [BulkOutPending EXCEPT ![PipeOf(cur[c])] = FALSE]
  /\ cell' = IF cur[c][1] = "mgmt" THEN [cell EXCEPT ![cur[c][2]].bWaitingBulkOut = TRUE]
             ELSE cell
  /\ TryNext(c)
  /\ UNCHANGED <<locked, urb, mlmeFlag, nullFlag, TxCpuIdx, TxDmaIdx, TxSwFreeIdx, nullInUse, rst,
                 halted, ret, cnts>>

-----------------------------------------------------------------------------
(***************************************************************************)
(* The host controller and the completion tasklets.                        *)
(***************************************************************************)
UrbDone(u) ==
  /\ urb[u] = "flying"
  /\ urb' = [urb EXCEPT ![u] = "done"]
  /\ UNCHANGED <<BulkOutPending, locked, BulkOutPipeId, hasData, flags, ring, nullInUse, rst,
                 halted, pc, ret, cur, cnts>>

UrbFails(u) ==
  /\ urb[u] = "flying" /\ failures < MaxFailures
  /\ urb' = [urb EXCEPT ![u] = "failed"]
  /\ failures' = failures + 1
  /\ UNCHANGED <<BulkOutPending, locked, BulkOutPipeId, hasData, flags, ring, nullInUse, rst,
                 halted, pc, ret, cur, sends>>

\* The pipe a completion releases.
DonePipe(u) == IF u[1] = "data" THEN BulkOutPipeId[u[2]] ELSE 0

\* First half of every completion tasklet: release the pipe under its lock. On
\* an error with no reset outstanding the lock is kept for SetReset: another
\* pipe's tasklet may make the same test under its own lock meanwhile. The
\* management tasklet does not run twice at a time.
Complete(c, u) ==
  /\ pc[c] = "idle" /\ c \in Ctx
  /\ urb[u] \in {"done", "failed"} /\ DonePipe(u) \notin locked
  /\ u[1] = "mgmt" => \A d \in Ctx : ~(cur[d][1] = "mgmt" /\ pc[d] \in {"setreset", "tail"})
  /\ BulkOutPending' = [BulkOutPending EXCEPT ![DonePipe(u)] = FALSE]
  /\ nullInUse' = (nullInUse /\ u[1] # "null")
  /\ urb' = [urb EXCEPT ![u] = "idle"]
  /\ cur' = [cur EXCEPT ![c] = u]
  /\ IF urb[u] = "failed" /\ ~bulkOutReset /\ ~halted
     THEN Goto(c, "setreset") /\ locked' = locked \union {DonePipe(u)}
     ELSE Goto(c, "tail") /\ UNCHANGED locked
  /\ UNCHANGED <<BulkOutPipeId, hasData, flags, ring, rst, halted, ret, cnts>>

\* Mutant of OwnCommand: the null tasklet leaves the command to the others.
OwnCommandMissing(u) == 0

\* The null tasklet queues the reset command itself, at once.
OwnCommand(u) == IF u[1] = "null" THEN 1 ELSE 0

\* Ask for a reset of the pipe and drop its lock.
SetReset(c) ==
  /\ pc[c] = "setreset"
  /\ bulkOutReset' = TRUE
  /\ bulkResetPipeid' = IF cur[c][1] = "data" THEN DonePipe(cur[c]) ELSE MgmtReset
  /\ locked' = locked \ {DonePipe(cur[c])}
  /\ resetCmds' = resetCmds + OwnCommand(cur[c])
  /\ Goto(c, "tail")
  /\ UNCHANGED <<BulkOutPending, urb, BulkOutPipeId, hasData, flags, ring, nullInUse, halted,
                 ret, cur, cnts>>

\* rtusb_null_frame_done_tasklet ends with a kick.
NullTail(c) ==
  /\ pc[c] = "tail" /\ cur[c][1] = "null"
  /\ Kick(c, "idle", 0)
  /\ UNCHANGED <<BulkOutPending, locked, urb, BulkOutPipeId, hasData, flags, ring, nullInUse,
                 rst, halted, cnts>>

\* rtusb_mgmt_dma_done_tasklet frees the cell and advances the ring under
\* MLMEBulkOutLock, then queues the reset or kicks.
MgmtTail(c) ==
  /\ pc[c] = "tail" /\ cur[c][1] = "mgmt"
  /\ cell' = [cell EXCEPT ![cur[c][2]] = [InUse |-> FALSE, bWaitingBulkOut |-> FALSE]]
  /\ TxDmaIdx' = INC_RING_INDEX(TxDmaIdx)
  /\ TxSwFreeIdx' = Word(TxSwFreeIdx + 1)
  /\ IF halted
     THEN Finish(c) /\ UNCHANGED <<resetCmds, mlmeFlag>>
     ELSE IF bulkOutReset /\ bulkResetPipeid = MgmtReset
     THEN Finish(c) /\ resetCmds' = resetCmds + 1 /\ UNCHANGED <<mlmeFlag>>
     ELSE /\ mlmeFlag' = (mlmeFlag \/ TxSwFreeIdx' < MgmtRingSize)
          /\ Kick(c, "idle", 0) /\ UNCHANGED resetCmds
  /\ UNCHANGED <<BulkOutPending, locked, urb, BulkOutPipeId, hasData, dataFlag, nullFlag, TxCpuIdx,
                 nullInUse, bulkOutReset, bulkResetPipeid, halted, cnts>>

\* rtusb_dataout_complete raises the flag if frames wait, and kicks ...
DataTail(c) ==
  /\ pc[c] = "tail" /\ cur[c][1] = "data"
  /\ dataFlag' = IF hasData[cur[c][2]]
                 THEN [dataFlag EXCEPT ![DonePipe(cur[c])] = TRUE] ELSE dataFlag
  /\ Kick(c, "check", cur[c][2])
  /\ UNCHANGED <<BulkOutPending, locked, urb, BulkOutPipeId, hasData, mlmeFlag, nullFlag, ring,
                 nullInUse, rst, halted, cnts>>

\* ... and rtusb_acN_dma_done_tasklet queues the reset, or raises its flag and
\* kicks again.
DataCheck(c) ==
  /\ pc[c] = "check"
  /\ IF halted
     THEN Finish(c) /\ UNCHANGED <<resetCmds, dataFlag>>
     ELSE IF bulkOutReset
     THEN Finish(c) /\ resetCmds' = resetCmds + 1 /\ UNCHANGED <<dataFlag>>
     ELSE /\ dataFlag' = [dataFlag EXCEPT ![ret[c][2]] = TRUE]
          /\ Kick(c, "idle", 0) /\ UNCHANGED resetCmds
  /\ UNCHANGED <<BulkOutPending, locked, urb, BulkOutPipeId, hasData, mlmeFlag, nullFlag, ring,
                 nullInUse, bulkOutReset, bulkResetPipeid, halted, cnts>>

-----------------------------------------------------------------------------
(***************************************************************************)
(* ResetBulkOutHdlr in the command thread. bulkResetPipeid is read again   *)
(* at every use.                                                           *)
(***************************************************************************)

\* CMDHandler drops the command when the adapter is going away; the management
\* branch clears the flag and kicks.
ResetMgmt ==
  /\ pc[CmdThread] = "idle" /\ resetCmds > 0
  /\ resetCmds' = resetCmds - 1
  /\ IF halted
     THEN UNCHANGED <<bulkOutReset, mlmeFlag, pc, ret, cur>>
     ELSE /\ bulkResetPipeid = MgmtReset
          /\ bulkOutReset' = FALSE
          /\ mlmeFlag' = (mlmeFlag \/ TxSwFreeIdx < MgmtRingSize)
          /\ Kick(CmdThread, "idle", 0)
  /\ UNCHANGED <<BulkOutPending, locked, urb, BulkOutPipeId, hasData, dataFlag, nullFlag, ring,
                 nullInUse, bulkResetPipeid, halted, cnts>>

\* The data branch takes the lock and, if the pipe is free, the pipe.
ResetLock ==
  /\ pc[CmdThread] = "idle" /\ resetCmds > 0 /\ ~halted
  /\ bulkResetPipeid \in Pipes \ locked
  /\ resetCmds' = resetCmds - 1
  /\ locked' = locked \union {bulkResetPipeid}
  /\ cur' = [cur EXCEPT ![CmdThread] = <<"data", bulkResetPipeid>>]
  /\ BulkOutPending' = [BulkOutPending EXCEPT ![bulkResetPipeid] = TRUE]
  /\ Goto(CmdThread, IF BulkOutPending[bulkResetPipeid] THEN "rbusy" ELSE "rclaimed")
  /\ UNCHANGED <<urb, BulkOutPipeId, hasData, flags, ring, nullInUse, bulkOutReset,
                 bulkResetPipeid, halted, ret, cnts>>

\* It clears the reset flag ...
ResetClear ==
  /\ pc[CmdThread] \in {"rbusy", "rclaimed"}
  /\ bulkOutReset' = FALSE
  /\ Goto(CmdThread, IF pc[CmdThread] = "rbusy" THEN "rskip" ELSE "rsend")
  /\ UNCHANGED <<BulkOutPending, locked, urb, BulkOutPipeId, hasData, flags, ring, nullInUse,
                 bulkResetPipeid, resetCmds, halted, ret, cur, cnts>>

\* ... drops the lock that bulkResetPipeid names now, and, having the pipe,
\* prepares the URB for the pipe bulkResetPipeid names.
ResetUnlock ==
  /\ pc[CmdThread] \in {"rskip", "rsend"}
  /\ locked' = locked \ {bulkResetPipeid}
  /\ IF pc[CmdThread] = "rskip"
     THEN /\ dataFlag' = IF bulkResetPipeid \in Pipes
                         THEN [dataFlag EXCEPT ![bulkResetPipeid] = TRUE] ELSE dataFlag
          /\ Kick(CmdThread, "idle", 0)
          /\ UNCHANGED BulkOutPipeId
     ELSE /\ BulkOutPipeId' = [BulkOutPipeId EXCEPT ![cur[CmdThread][2]] =
                                 IF bulkResetPipeid \in Pipes THEN bulkResetPipeid ELSE @]
          /\ Goto(CmdThread, "rsubmit")
          /\ UNCHANGED <<dataFlag, ret, cur>>
  /\ UNCHANGED <<BulkOutPending, urb, hasData, mlmeFlag, nullFlag, ring, nullInUse, rst, halted,
                 cnts>>

\* The URB is submitted once more; RTMPDeQueuePacket then kicks.
ResetSubmit ==
  /\ pc[CmdThread] = "rsubmit"
  /\ urb' = [urb EXCEPT ![cur[CmdThread]] = "flying"]
  /\ Kick(CmdThread, "idle", 0)
  /\ UNCHANGED <<BulkOutPending, locked, BulkOutPipeId, hasData, flags, ring, nullInUse, rst,
                 halted, cnts>>

\* Mutant of ReleaseReset: the pipe is not released.
ReleaseResetNot == BulkOutPending

\* BulkOutPending once the pipe bulkResetPipeid names is released.
ReleaseReset ==
  IF bulkResetPipeid \in Pipes THEN [BulkOutPending EXCEPT ![bulkResetPipeid] = FALSE]
  ELSE BulkOutPending

\* If that fails, the pipe bulkResetPipeid names is released.
ResetSubmitFails ==
  /\ pc[CmdThread] = "rsubmit" /\ bulkResetPipeid \notin locked
  /\ BulkOutPending' = ReleaseReset
  /\ Kick(CmdThread, "idle", 0)
  /\ UNCHANGED <<locked, urb, BulkOutPipeId, hasData, flags, ring, nullInUse, rst, halted, cnts>>

\* The adapter is halted or unplugged.
Halt ==
  /\ ~halted /\ halted' = TRUE
  /\ UNCHANGED <<BulkOutPending, locked, urb, BulkOutPipeId, hasData, flags, ring, nullInUse, rst,
                 pc, ret, cur, cnts>>

-----------------------------------------------------------------------------
KickStep(c) == KickBulkOut(c) \/ Claim(c) \/ PassOver(c) \/ GiveUp(c) \/ Submit(c) \/ SubmitFails(c)

TaskletStep(c) ==
  \/ \E u \in Urbs : Complete(c, u)
  \/ SetReset(c) \/ NullTail(c) \/ MgmtTail(c) \/ DataTail(c) \/ DataCheck(c)

ResetStep == ResetMgmt \/ ResetLock \/ ResetClear \/ ResetUnlock \/ ResetSubmit \/ ResetSubmitFails

Next ==
  \/ \E c \in Ctx : \/ \E p \in Pipes : DataKickOut(c, p)
                    \/ MiniportMMRequest(c) \/ MgmtKickOut(c) \/ MgmtUnlock(c)
                    \/ NullFrameKickOut(c) \/ TaskletStep(c)
  \/ \E c \in All : KickStep(c)
  \/ \E u \in Urbs : UrbDone(u) \/ UrbFails(u)
  \/ ResetStep
  \/ Halt

Spec == Init /\ [][Next]_vars

(***************************************************************************)
(* Fairness: a context runs on once it has started, the controller ends    *)
(* every transfer, a scheduled tasklet runs on some context, the command   *)
(* thread serves its queue. Nobody owes the driver a new frame. Softirqs   *)
(* are not kept out by new requests for ever, hence SF for the tasklets.   *)
(***************************************************************************)
Fairness ==
  /\ \A c \in All : WF_vars(KickStep(c))
  /\ \A c \in Ctx : /\ WF_vars(MgmtKickOut(c)) /\ WF_vars(MgmtUnlock(c))
                    /\ WF_vars(TaskletStep(c) /\ pc[c] # "idle")
  /\ \A u \in Urbs : /\ WF_vars(UrbDone(u) \/ UrbFails(u))
                     /\ SF_vars(\E c \in Ctx : Complete(c, u))
  /\ WF_vars(ResetStep)

FairSpec == Spec /\ Fairness

-----------------------------------------------------------------------------
(***************************************************************************)
(* Properties.                                                             *)
(***************************************************************************)
Labels == {"idle", "mgmt", "kick", "try", "claimed", "unlock", "setreset", "tail",
           "check", "rbusy", "rclaimed", "rskip", "rsend", "rsubmit"}

PipeTypes ==
  /\ BulkOutPending \in [Pipes -> BOOLEAN]
  /\ locked \in SUBSET Pipes
  /\ urb \in [Urbs -> {"idle", "flying", "done", "failed"}]
  /\ BulkOutPipeId \in [Pipes -> Pipes]
  /\ hasData \in [Pipes -> BOOLEAN]

FlagTypes ==
  /\ dataFlag \in [Pipes -> BOOLEAN]
  /\ mlmeFlag \in BOOLEAN /\ nullFlag \in BOOLEAN /\ nullInUse \in BOOLEAN

RingTypes ==
  /\ TxCpuIdx \in Cells /\ TxDmaIdx \in Cells /\ TxSwFreeIdx \in 0..(WordSize - 1)
  /\ cell \in [Cells -> [InUse : BOOLEAN, bWaitingBulkOut : BOOLEAN]]

ResetTypes ==
  /\ bulkOutReset \in BOOLEAN /\ halted \in BOOLEAN
  /\ bulkResetPipeid \in Pipes \union {MgmtReset}
  /\ resetCmds \in Nat
  /\ failures \in 0..MaxFailures /\ sends \in 0..MaxSends

CtxTypes ==
  /\ pc \in [All -> Labels]
  /\ ret \in [All -> {"idle", "unlock", "check"} \X Pipes]
  /\ cur \in [All -> Urbs]

\* Every field keeps its type: in particular the ring indices stay inside
\* MgmtRing however often they are advanced.
TypeOK == PipeTypes /\ FlagTypes /\ RingTypes /\ ResetTypes /\ CtxTypes

\* Who uses pipe p: a context between claim and submission, or a URB.
Holds(c, p) == pc[c] \in {"claimed", "rclaimed", "rsend", "rsubmit"} /\ PipeOf(cur[c]) = p
Carries(u, p) == urb[u] # "idle" /\ PipeOf(u) = p

\* At most one user per pipe, and only while BulkOutPending says so: no URB is
\* submitted while it, or another URB of its pipe, is still with the controller
\* or its tasklet, so no tasklet slot is overwritten either.
PipeExclusive ==
  \A p \in Pipes :
    /\ \A c \in All : Holds(c, p) =>
         /\ BulkOutPending[p]
         /\ \A d \in All : Holds(d, p) => d = c
         /\ \A u \in Urbs : ~Carries(u, p)
    /\ \A u \in Urbs : Carries(u, p) =>
         /\ BulkOutPending[p]
         /\ \A v \in Urbs : Carries(v, p) => v = u

\* A pipe marked pending has a user: no path of a sender, a tasklet or the reset
\* handler leaves BulkOutPending set with nobody left to clear it.
PendingHasUser ==
  \A p \in Pipes : BulkOutPending[p] =>
    \/ \E c \in All : Holds(c, p)
    \/ \E u \in Urbs : Carries(u, p)

\* The reset that a failed transfer asks for is carried out: the tasklets between
\* them queue CMDTHREAD_RESET_BULK_OUT and the handler clears the flag.
ResetServed == bulkOutReset ~> (~bulkOutReset \/ halted)

\* ASSERT((pAd->MgmtRing.TxDmaIdx == index)) at the start of
\* rtusb_mgmt_dma_done_tasklet.
MgmtIndexMatches ==
  \A i \in Cells :
    (/\ urb[<<"mgmt", i>>] = "done"
     /\ \A d \in Ctx : ~(cur[d][1] = "mgmt" /\ pc[d] \in {"setreset", "tail"}))
      => TxDmaIdx = i
=============================================================================
