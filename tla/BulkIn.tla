------------------------------- MODULE BulkIn -------------------------------
(***************************************************************************)
(* The bulk-in ring: RX_RING_SIZE receive contexts, filled by the host     *)
(* controller at NextRxBulkInIndex and parsed at NextRxBulkInReadIndex.    *)
(*                                                                         *)
(* RTUSBBulkReceive is run by the receive tasklet "T", by the management   *)
(* context "R" and by other Kickers; the command thread "C" restarts the   *)
(* pipe after a failed transfer. "R" starts the interface, switches the    *)
(* radio off and on, and puts the station to sleep for a beacon period.    *)
(* BulkInLock makes single steps of the sections it guards; the cancelling *)
(* of transfers runs without it.                                           *)
(***************************************************************************)
EXTENDS Integers, FiniteSets

CONSTANTS
  RxRingSize,     \* RX_RING_SIZE
  Kickers,        \* other contexts that call RTUSBBulkReceive
  MaxFills,       \* bound: transfers that bring data
  MaxEvents       \* bound: failed or empty transfers, refused submissions, calls
                  \* by the kickers, radio switches and sleeps, all together

Idx == 0..(RxRingSize - 1)
Contexts == {"T", "C", "R"} \union Kickers

ASSUME BulkInAssumption ==
  /\ RxRingSize \in 1..255
  /\ {MaxFills, MaxEvents} \subseteq Nat
  /\ Kickers \intersect {"T", "C", "R"} = {}

\* How a URB ends: with data, with none, failed, or failed after some data.
UrbStatus == {"ok", "empty", "error", "partial"}
Success   == {"ok", "empty"}
WithData  == {"ok", "partial"}

NoTask == -1
ByteSize == 256     \* PendingRx is a u8

VARIABLES
  InUse, IRPPending, Readable, bRxHandling,   \* RX_CONTEXT
  BulkInOffset,       \* has the context any bytes?
  data,               \* number of the transfer that filled it
  urb,                \* status of its URB: "flying", or how it ended (UrbStatus)
  task,               \* rx_done_task: the URB it is scheduled for
  PendingRx, NextRxBulkInIndex, NextRxBulkInReadIndex,
  ReadPosition,       \* in the buffer at the read index: 0, or 1, past its first frame
  bulkInReset,        \* fRTMP_ADAPTER_BULKIN_RESET
  radioOff, idleRadioOff, pollIdle,   \* other adapter flags
  resetCmds,          \* queued CMDTHREAD_RESET_BULK_IN
  pc, cur,            \* where a context is, and its pRxContext
  delivered,          \* history: the transfer parsed last
  torn,               \* history: has a cancel come between a claim and its completion?
  refused,            \* history: has the USB core refused a URB?
  dropped,            \* history: has a reset been given up with the radio off?
  fills, events

ctxs  == <<InUse, IRPPending, Readable, bRxHandling, BulkInOffset, data>>
ring  == <<PendingRx, NextRxBulkInIndex, NextRxBulkInReadIndex, ReadPosition>>
flags == <<bulkInReset, radioOff, idleRadioOff, pollIdle>>
cnts  == <<fills, events>>
hist  == <<delivered, torn, refused, dropped>>
vars  == <<ctxs, urb, task, ring, flags, resetCmds, pc, cur, hist, cnts>>

Init ==
  /\ InUse = [i \in Idx |-> FALSE] /\ IRPPending = [i \in Idx |-> FALSE]
  /\ Readable = [i \in Idx |-> FALSE] /\ bRxHandling = [i \in Idx |-> FALSE]
  /\ BulkInOffset = [i \in Idx |-> FALSE] /\ data = [i \in Idx |-> 0]
  /\ urb = [i \in Idx |-> "empty"] /\ task = NoTask
  /\ PendingRx = 0 /\ NextRxBulkInIndex = 0 /\ NextRxBulkInReadIndex = 0
  /\ ReadPosition = 0
  /\ bulkInReset = FALSE /\ radioOff = FALSE /\ idleRadioOff = FALSE
  /\ pollIdle = FALSE
  /\ resetCmds = 0
  /\ pc = [c \in Contexts |-> IF c = "R" THEN "enter" ELSE "idle"]
  /\ cur = [c \in Contexts |-> 0]
  /\ delivered = 0 /\ torn = FALSE /\ refused = FALSE /\ dropped = FALSE
  /\ fills = 0 /\ events = 0

\* Mutant of INC_RING_INDEX: off by one at the end of the ring.
IncPastEnd(i) == IF i >= RxRingSize THEN 0 ELSE i + 1

INC_RING_INDEX(i) == (i + 1) % RxRingSize

Goto(c, l) == pc' = [pc EXCEPT ![c] = l]
Hold(c, i) == cur' = [cur EXCEPT ![c] = i]

\* Something the environment does; no more once a claim is torn, where only the
\* type invariant is stated.
Event == events < MaxEvents /\ ~torn /\ events' = events + 1

-----------------------------------------------------------------------------
(***************************************************************************)
(* RTUSBBulkReceive and DoBulkIn.                                          *)
(***************************************************************************)

\* fRTMP_ADAPTER_NEED_STOP_HANDLE_RX and fRTMP_ADAPTER_NEED_STOP_RX.
StopHandleRx == radioOff /\ ~pollIdle
StopRx       == (radioOff \/ bulkInReset) /\ ~pollIdle

\* Somebody wants reception to go on: AP start-up, the interface enabled again.
KickReceive(c) ==
  /\ c \in Kickers \union {"R"} /\ pc[c] = "idle" /\ ~pollIdle
  /\ Event
  /\ Goto(c, "enter")
  /\ UNCHANGED <<ctxs, urb, task, ring, flags, resetCmds, cur, hist, fills>>

\* The sanity check on entry returns.
Enter(c) ==
  /\ pc[c] = "enter" /\ StopHandleRx
  /\ Goto(c, "idle")
  /\ UNCHANGED <<ctxs, urb, task, ring, flags, resetCmds, cur, hist, cnts>>

\* Mutant of MayHandle: the context may be parsed by somebody else already.
MayHandleShared(i) == ~InUse[i] /\ Readable[i]

\* May the buffer at the read index be parsed?
MayHandle(i) == ~InUse[i] /\ Readable[i] /\ ~bRxHandling[i]

\* Top of the loop, under BulkInLock: take the next full buffer, or leave.
Receive(c) ==
  /\ pc[c] = "receive" \/ (pc[c] = "enter" /\ ~StopHandleRx)
  /\ IF MayHandle(NextRxBulkInReadIndex)
     THEN /\ bRxHandling' = [bRxHandling EXCEPT ![NextRxBulkInReadIndex] = TRUE]
          /\ Hold(c, NextRxBulkInReadIndex)
          /\ Goto(c, "handle")
     ELSE /\ Goto(c, "gate")
          /\ UNCHANGED <<bRxHandling, cur>>
  /\ UNCHANGED <<InUse, IRPPending, Readable, BulkInOffset, data, urb, task, ring, flags,
                 resetCmds, hist, cnts>>

\* What rtmp_rx_done_handle parses of the buffer at the read index: nothing once
\* the adapter has been stopped, maybe nothing from behind the first frame.
Parsed ==
  IF StopHandleRx THEN {delivered}
  ELSE {data[NextRxBulkInReadIndex]} \union (IF ReadPosition = 0 THEN {} ELSE {delivered})

\* The buffer is parsed; then the context is given back, under BulkInLock.
HandleBuffer(c) ==
  /\ pc[c] = "handle"
  /\ delivered' \in Parsed
  /\ BulkInOffset' = [BulkInOffset EXCEPT ![cur[c]] = FALSE]
  /\ Readable' = [Readable EXCEPT ![cur[c]] = FALSE]
  /\ bRxHandling' = [bRxHandling EXCEPT ![cur[c]] = FALSE]
  /\ data' = [data EXCEPT ![cur[c]] = 0]
  /\ ReadPosition' = 0
  /\ NextRxBulkInReadIndex' = INC_RING_INDEX(NextRxBulkInReadIndex)
  /\ Goto(c, "receive") /\ Hold(c, 0)
  /\ UNCHANGED <<InUse, IRPPending, urb, task, PendingRx, NextRxBulkInIndex, flags, resetCmds,
                 torn, refused, dropped, cnts>>

\* The tests before DoBulkIn.
Gate(c) ==
  /\ pc[c] = "gate"
  /\ Goto(c, IF StopRx \/ idleRadioOff THEN "idle" ELSE "claim")
  /\ UNCHANGED <<ctxs, urb, task, ring, flags, resetCmds, cur, hist, cnts>>

\* Mutant of MayBulkIn: a full buffer may be overwritten.
MayBulkInReadable(i) == PendingRx = 0 /\ ~InUse[i]

\* May the context at the bulk-in index be given to the controller?
MayBulkIn(i) == PendingRx = 0 /\ ~Readable[i] /\ ~InUse[i]

\* DoBulkIn, first critical section; ResetBulkInHdlr has the same.
Claim(c) ==
  /\ pc[c] = "claim"
  /\ IF MayBulkIn(NextRxBulkInIndex)
     THEN /\ InUse' = [InUse EXCEPT ![NextRxBulkInIndex] = TRUE]
          /\ IRPPending' = [IRPPending EXCEPT ![NextRxBulkInIndex] = TRUE]
          /\ PendingRx' = (PendingRx + 1) % ByteSize
          /\ Hold(c, NextRxBulkInIndex)
          /\ Goto(c, "submit")
          /\ torn' = (torn \/ task = NextRxBulkInIndex \/ urb[NextRxBulkInIndex] = "flying")
     ELSE /\ Goto(c, "idle")
          /\ UNCHANGED <<InUse, IRPPending, PendingRx, cur, torn>>
  /\ UNCHANGED <<Readable, bRxHandling, BulkInOffset, data, urb, task, NextRxBulkInIndex,
                 NextRxBulkInReadIndex, ReadPosition, flags, resetCmds, delivered, refused,
                 dropped, cnts>>

\* usb_submit_urb accepts the URB ...
Submit(c) ==
  /\ pc[c] = "submit" /\ urb[cur[c]] # "flying"
  /\ urb' = [urb EXCEPT ![cur[c]] = "flying"]
  /\ Goto(c, "idle") /\ Hold(c, 0)
  /\ UNCHANGED <<ctxs, task, ring, flags, resetCmds, hist, cnts>>

\* ... or refuses it, always when it is still in flight: the claim is undone.
SubmitFails(c) ==
  /\ pc[c] = "submit"
  /\ \/ urb[cur[c]] = "flying" /\ UNCHANGED <<events, refused>>
     \/ Event /\ refused' = TRUE
  /\ InUse' = [InUse EXCEPT ![cur[c]] = FALSE]
  /\ IRPPending' = [IRPPending EXCEPT ![cur[c]] = FALSE]
  /\ PendingRx' = (PendingRx - 1) % ByteSize
  /\ Goto(c, "idle") /\ Hold(c, 0)
  /\ UNCHANGED <<Readable, bRxHandling, BulkInOffset, data, urb, task, NextRxBulkInIndex,
                 NextRxBulkInReadIndex, ReadPosition, flags, resetCmds, delivered, torn, dropped,
                 fills>>

ReceiveStep(c) ==
  \/ Enter(c) \/ Receive(c) \/ HandleBuffer(c) \/ Gate(c)
  \/ Claim(c) \/ Submit(c) \/ SubmitFails(c)

-----------------------------------------------------------------------------
(***************************************************************************)
(* The host controller; RTUSBBulkRxComplete puts the URB into rx_done_task *)
(* and schedules it, whatever URB was there before.                        *)
(***************************************************************************)
Fill(i, s) ==
  /\ IF s \in WithData
     THEN fills < MaxFills /\ ~torn /\ fills' = fills + 1 /\ data' = [data EXCEPT ![i] = fills + 1]
     ELSE UNCHANGED <<fills, data>>
  /\ urb' = [urb EXCEPT ![i] = s] /\ task' = i

UrbEnds(i, s) ==
  /\ urb[i] = "flying"
  /\ IF s = "ok" THEN UNCHANGED events ELSE Event
  /\ Fill(i, s)
  /\ UNCHANGED <<InUse, IRPPending, Readable, bRxHandling, BulkInOffset, ring, flags, resetCmds,
                 pc, cur, hist>>

\* Does a failed transfer ask for a reset?
ResetAsked == ~bulkInReset /\ ~radioOff

\* rx_done_tasklet up to its call of RTUSBBulkReceive. The URB's status is read
\* now: a URB that has been submitted again meanwhile is "in progress", which is
\* no success.
RxDone ==
  /\ task # NoTask /\ pc["T"] = "idle"
  /\ task' = NoTask
  /\ InUse' = [InUse EXCEPT ![task] = FALSE]
  /\ IRPPending' = [IRPPending EXCEPT ![task] = FALSE]
  /\ PendingRx' = IF PendingRx > 0 THEN PendingRx - 1 ELSE PendingRx
  /\ BulkInOffset' = [BulkInOffset EXCEPT ![task] = @ \/ urb[task] \in WithData]
  /\ IF urb[task] \in Success
     THEN /\ Readable' = [Readable EXCEPT ![task] = @ \/ BulkInOffset'[task]]
          /\ NextRxBulkInIndex' = IF BulkInOffset'[task] THEN INC_RING_INDEX(NextRxBulkInIndex)
                                  ELSE NextRxBulkInIndex
          /\ UNCHANGED <<bulkInReset, resetCmds>>
     ELSE /\ Readable' = [Readable EXCEPT ![task] = FALSE]
          /\ bulkInReset' = (bulkInReset \/ ResetAsked)
          /\ resetCmds' = IF ResetAsked THEN resetCmds + 1 ELSE resetCmds
          /\ UNCHANGED NextRxBulkInIndex
  /\ Goto("T", "enter")
  /\ UNCHANGED <<bRxHandling, data, urb, NextRxBulkInReadIndex, ReadPosition, radioOff,
                 idleRadioOff, pollIdle, cur, hist, cnts>>

-----------------------------------------------------------------------------
(***************************************************************************)
(* RTUSBCancelPendingBulkInIRP: for every context with IRPPending, in ring *)
(* order, kill the URB, then clear the two flags.                          *)
(***************************************************************************)
NextPending(i) == {j \in Idx : j >= i /\ IRPPending[j]}
Least(S) == CHOOSE j \in S : \A k \in S : j <= k

\* usb_kill_urb: a URB in flight ends with an error, and its completion handler
\* has run when the call returns; its tasklet may not have.
CancelKill(c) ==
  /\ pc[c] = "cancel" /\ NextPending(cur[c]) # {}
  /\ LET j == Least(NextPending(cur[c]))
     IN /\ Hold(c, j)
        /\ \/ urb[j] = "flying" /\ \E s \in {"error", "partial"} : Fill(j, s)
           \/ urb[j] # "flying" /\ UNCHANGED <<fills, data, urb, task>>
  /\ Goto(c, "killed")
  /\ UNCHANGED <<InUse, IRPPending, Readable, bRxHandling, BulkInOffset, ring, flags, resetCmds,
                 hist, events>>

CancelClear(c) ==
  /\ pc[c] = "killed"
  /\ IRPPending' = [IRPPending EXCEPT ![cur[c]] = FALSE]
  /\ InUse' = [InUse EXCEPT ![cur[c]] = FALSE]
  /\ Goto(c, "cancel") /\ Hold(c, cur[c] + 1)
  /\ torn' = (torn \/ \E d \in Contexts : pc[d] = "submit" /\ cur[d] = cur[c])
  /\ UNCHANGED <<Readable, bRxHandling, BulkInOffset, data, urb, task, ring, flags, resetCmds,
                 delivered, refused, dropped, cnts>>

Cancelled(c) == pc[c] = "cancel" /\ NextPending(cur[c]) = {}

CancelStep(c) == CancelKill(c) \/ CancelClear(c)

-----------------------------------------------------------------------------
(***************************************************************************)
(* ResetBulkInHdlr in the command thread (NumOfBulkInIRP is 1).            *)
(***************************************************************************)
ResetBulkIn ==
  /\ pc["C"] = "idle" /\ resetCmds > 0
  /\ resetCmds' = resetCmds - 1
  /\ bulkInReset' = (bulkInReset /\ ~idleRadioOff)
  /\ Goto("C", IF idleRadioOff THEN "idle"
               ELSE IF PendingRx > 0 THEN "cancel" ELSE "restart")
  /\ Hold("C", 0)
  /\ UNCHANGED <<ctxs, urb, task, ring, radioOff, idleRadioOff, pollIdle, hist, cnts>>

\* PendingRx = 0, after the cancelling and a delay, without the lock.
ResetPending ==
  /\ Cancelled("C")
  /\ PendingRx' = 0
  /\ Goto("C", "restart") /\ Hold("C", 0)
  /\ UNCHANGED <<ctxs, urb, task, NextRxBulkInIndex, NextRxBulkInReadIndex, ReadPosition, flags,
                 resetCmds, hist, cnts>>

\* Mutant of ResetFlag: RTMP_CLEAR_FLAG is forgotten.
ResetFlagKept == bulkInReset

\* fRTMP_ADAPTER_BULKIN_RESET at the end of the handler: it is cleared before the
\* pipe is restarted, unless the radio has gone off.
ResetFlag == bulkInReset /\ radioOff

Restart ==
  /\ pc["C"] = "restart"
  /\ bulkInReset' = ResetFlag
  /\ dropped' = (dropped \/ radioOff)
  /\ Goto("C", IF radioOff THEN "idle" ELSE "claim")
  /\ UNCHANGED <<ctxs, urb, task, ring, radioOff, idleRadioOff, pollIdle, resetCmds, cur,
                 delivered, torn, refused, cnts>>

ResetStep == ResetBulkIn \/ ResetPending \/ Restart

-----------------------------------------------------------------------------
(***************************************************************************)
(* Radio off and on (RT28xxUsbMlmeRadioOFF, mt7612u_radio_off and _on) and *)
(* sleeping until the wake-up timer (RT28xxUsbStaAsicSleepThenAutoWakeup). *)
(***************************************************************************)
MlmeRadioOff ==
  /\ pc["R"] = "idle" /\ ~radioOff
  /\ Event
  /\ radioOff' = TRUE
  /\ Goto("R", "disable")
  /\ UNCHANGED <<ctxs, urb, task, ring, bulkInReset, idleRadioOff, pollIdle, resetCmds,
                 cur, hist, fills>>

\* mt7612u_disable_txrx drains the ring with fRTMP_ADAPTER_POLL_IDLE set.
PollIdle ==
  /\ pc["R"] = "disable" /\ ~pollIdle
  /\ pollIdle' = TRUE
  /\ Goto("R", "enter")
  /\ UNCHANGED <<ctxs, urb, task, ring, bulkInReset, radioOff, idleRadioOff, resetCmds,
                 cur, hist, cnts>>

\* The poll loop turns again, until the RxQ has been empty for a while.
PollAgain ==
  /\ pc["R"] = "idle" /\ pollIdle
  /\ Event
  /\ Goto("R", "enter")
  /\ UNCHANGED <<ctxs, urb, task, ring, flags, resetCmds, cur, hist, fills>>

PollEnds ==
  /\ pc["R"] = "idle" /\ pollIdle
  /\ pollIdle' = FALSE
  /\ Goto("R", "drain")
  /\ UNCHANGED <<ctxs, urb, task, ring, bulkInReset, radioOff, idleRadioOff, resetCmds, cur,
                 hist, cnts>>

\* mt7612u_stop_dma_rx looks at the buffer at the read index through
\* GetPacketFromRxRing, without BulkInLock and without bRxHandling ...
Drain ==
  /\ pc["R"] = "drain"
  /\ IF Readable[NextRxBulkInReadIndex] /\ ~InUse[NextRxBulkInReadIndex]
     THEN Goto("R", "copy") /\ Hold("R", NextRxBulkInReadIndex)
     ELSE Goto("R", "disabled") /\ UNCHANGED cur
  /\ UNCHANGED <<ctxs, urb, task, ring, flags, resetCmds, hist, cnts>>

\* ... and takes one frame from it, if the frame is sound. RxPending and
\* bReschedule are never set, so that its loop ends here.
DrainCopy ==
  /\ pc["R"] = "copy"
  /\ ReadPosition' \in {ReadPosition, 1}
  /\ Goto("R", "disabled") /\ Hold("R", 0)
  /\ UNCHANGED <<ctxs, urb, task, PendingRx, NextRxBulkInIndex, NextRxBulkInReadIndex, flags,
                 resetCmds, hist, cnts>>

RadioOff ==
  /\ pc["R"] = "disabled"
  /\ idleRadioOff' = TRUE
  /\ Goto("R", "cancel") /\ Hold("R", 0)
  /\ UNCHANGED <<ctxs, urb, task, ring, bulkInReset, radioOff, pollIdle, resetCmds, hist, cnts>>

\* down_interruptible(hw_atomic) is interrupted: the transfers stay.
RadioOffInterrupted ==
  /\ pc["R"] = "disabled"
  /\ Event
  /\ Goto("R", "off")
  /\ UNCHANGED <<ctxs, urb, task, ring, flags, resetCmds, cur, hist, fills>>

\* The cancelling ends: with the radio off, PendingRx is left to the tasklet.
Quiet ==
  /\ Cancelled("R")
  /\ PendingRx' = IF radioOff THEN PendingRx ELSE 0
  /\ Goto("R", IF radioOff THEN "off" ELSE "doze") /\ Hold("R", 0)
  /\ UNCHANGED <<ctxs, urb, task, NextRxBulkInIndex, NextRxBulkInReadIndex, ReadPosition, flags,
                 resetCmds, hist, cnts>>

\* The two flags are cleared one after the other.
RadioOnIdle ==
  /\ pc["R"] = "off"
  /\ idleRadioOff' = FALSE
  /\ Goto("R", "on")
  /\ UNCHANGED <<ctxs, urb, task, ring, bulkInReset, radioOff, pollIdle, resetCmds, cur, hist,
                 cnts>>

RadioOn ==
  /\ pc["R"] = "on"
  /\ radioOff' = FALSE
  /\ Goto("R", "enter")
  /\ UNCHANGED <<ctxs, urb, task, ring, bulkInReset, idleRadioOff, pollIdle, resetCmds, cur, hist,
                 cnts>>

Sleep ==
  /\ pc["R"] = "idle" /\ ~radioOff
  /\ Event
  /\ Goto("R", IF PendingRx > 0 THEN "cancel" ELSE "doze") /\ Hold("R", 0)
  /\ UNCHANGED <<ctxs, urb, task, ring, flags, resetCmds, hist, fills>>

\* RtmpUsbStaAsicForceWakeupTimeout, or RT28xxUsbStaAsicForceWakeup, which stops
\* the timer and does not call RTUSBBulkReceive.
WakeUp ==
  /\ pc["R"] = "doze"
  /\ \E l \in {"enter", "idle"} : Goto("R", l)
  /\ UNCHANGED <<ctxs, urb, task, ring, flags, resetCmds, cur, hist, cnts>>

RadioStep ==
  \/ PollIdle \/ PollEnds \/ Drain \/ DrainCopy \/ RadioOff \/ Quiet
  \/ RadioOnIdle \/ RadioOn \/ WakeUp

-----------------------------------------------------------------------------
Next ==
  \/ \E c \in Contexts : KickReceive(c) \/ ReceiveStep(c) \/ CancelStep(c)
  \/ \E i \in Idx, s \in UrbStatus : UrbEnds(i, s)
  \/ RxDone
  \/ ResetStep
  \/ MlmeRadioOff \/ Sleep \/ PollAgain \/ RadioOffInterrupted \/ RadioStep

Spec == Init /\ [][Next]_vars

(***************************************************************************)
(* Fairness: running code runs on, a scheduled tasklet and a queued        *)
(* command are served, and the radio is not left off, nor the station      *)
(* asleep, for ever. The controller owes the driver no data.               *)
(***************************************************************************)
Fairness ==
  /\ \A c \in Contexts : WF_vars(ReceiveStep(c)) /\ WF_vars(CancelStep(c))
  /\ WF_vars(RxDone)
  /\ WF_vars(ResetStep) /\ WF_vars(RadioStep)

FairSpec == Spec /\ Fairness

-----------------------------------------------------------------------------
(***************************************************************************)
(* Properties.                                                             *)
(***************************************************************************)
Labels == {"idle", "enter", "receive", "handle", "gate", "claim", "submit",
           "cancel", "killed", "restart", "disable", "drain", "copy", "disabled", "off", "on",
           "doze"}

CtxTypes ==
  /\ InUse \in [Idx -> BOOLEAN] /\ IRPPending \in [Idx -> BOOLEAN]
  /\ Readable \in [Idx -> BOOLEAN] /\ bRxHandling \in [Idx -> BOOLEAN]
  /\ BulkInOffset \in [Idx -> BOOLEAN] /\ data \in [Idx -> 0..MaxFills]
RingTypes ==
  /\ urb \in [Idx -> UrbStatus \union {"flying"}]
  /\ task \in Idx \union {NoTask}
  /\ PendingRx \in 0..(ByteSize - 1)
  /\ NextRxBulkInIndex \in Idx /\ NextRxBulkInReadIndex \in Idx
  /\ ReadPosition \in 0..1
FlagTypes ==
  /\ bulkInReset \in BOOLEAN /\ radioOff \in BOOLEAN /\ idleRadioOff \in BOOLEAN
  /\ pollIdle \in BOOLEAN /\ resetCmds \in Nat
PcTypes ==
  /\ pc \in [Contexts -> Labels] /\ cur \in [Contexts -> 0..RxRingSize]
  /\ \A c \in Contexts : pc[c] \in {"handle", "submit", "killed", "copy"} => cur[c] \in Idx
HistTypes ==
  /\ delivered \in 0..MaxFills /\ fills \in 0..MaxFills /\ events \in 0..MaxEvents
  /\ torn \in BOOLEAN /\ refused \in BOOLEAN /\ dropped \in BOOLEAN

\* Every field keeps its type; the two ring indices, and the context a reader, a
\* submission or a cancel works on, stay inside RxContext.
TypeOK == CtxTypes /\ RingTypes /\ FlagTypes /\ PcTypes /\ HistTypes

\* The contexts that parse under bRxHandling exclude each other and the controller,
\* though rtmp_rx_done_handle runs without BulkInLock: the buffer is the one at the
\* read index and not in flight, and no second context of RTUSBBulkReceive parses.
\* The drain of mt7612u_stop_dma_rx keeps to no such rule: it may read beside them.
BufferExclusive ==
  \A c \in Contexts : pc[c] = "handle" /\ ~torn =>
    /\ urb[cur[c]] # "flying"
    /\ cur[c] = NextRxBulkInReadIndex
    /\ \A d \in Contexts : pc[d] = "handle" => d = c

\* The transfers are parsed in the order they were received, none twice, also when
\* the drain has moved ReadPosition under a parser.
ParsedInOrder == [][delivered' # delivered /\ ~torn => delivered' > delivered]_vars

\* A received buffer is not overwritten before it has been parsed.
ReceivedKept ==
  [][\A i \in Idx : Readable[i] /\ Readable'[i] /\ ~torn => data'[i] = data[i]]_vars

\* The controller holds a transfer.
Listening == \E i \in Idx : urb[i] = "flying"

\* As long as the USB core takes the URBs, no reset is given up with the radio
\* off and no cancel hits a claimed context, reception never stops for good: with
\* the radio on, a transfer is outstanding again and again, whatever fails, is
\* cancelled or is reset.
ReceiveContinues == []<>(radioOff \/ refused \/ dropped \/ torn \/ Listening)

\* mt7612u_radio_on: "Send Bulkin IRPs after flag fRTMP_ADAPTER_IDLE_RADIO_OFF
\* is cleared": with the radio on, no refused URB and no such cancel, a transfer
\* is outstanding again and again.
ReceiveResumes == []<>(radioOff \/ refused \/ torn \/ Listening)
=============================================================================
