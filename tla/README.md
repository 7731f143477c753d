# TLA+ models of the MT7612U USB driver

This directory holds TLA+ models of the concurrent core of the `mt7612u` Linux
driver, TLC configurations that check them on small instances, and TLAPS proofs of
most of their safety properties (`*_proofs`).
The models follow the code of this repository at the commit they are kept with:
`PROJECT.json` maps every definition to the lines it stands for.

## The system

The driver connects an 802.11 MAC implemented in software and firmware to a USB
device. Its build (`Makefile`: `RT28xx_MODE = APSTA`, so both AP and station code;
`include/os/rt_linux.h`: `KTHREAD_SUPPORT`; one outstanding bulk-in transfer) fixes what
is modelled: code under other `#ifdef`s is left aside.

| Component | State | Operations | Hard because |
|---|---|---|---|
| Bulk-out data ring, one per access category (`cmm_data_usb.c`, `rtusb_bulk.c`) | `TransferBuffer` and four positions in it, `SavedPad`, `bCurWriting` | write a frame (header, payload, publish), build a URB over the frames written, complete, resubmit | the payload is copied without the lock; full and empty have the same positions; zero bytes behind a URB fall on the next frame's header |
| Bulk-out pipes and management ring (`rtusb_bulk.c`, `rt_usb.c`, `rtusb_io.c`) | `BulkOutPending`, `BulkFlags`, `MgmtRing` indices, `bulkResetPipeid` | kick, claim a pipe, submit, completion tasklets, reset command | three kinds of transfer, several contexts, one flag per pipe; failures are repaired by another thread |
| Bulk-in ring (`rtusb_bulk.c`, `rt_usb.c`, `rtusb_io.c`, `rt65xx.c`) | `RxContext[]`, `PendingRx`, two ring indices, adapter flags | submit, complete, parse, cancel, reset, radio off/on, sleep | parsing and cancelling run without `BulkInLock`; each flag stops a different part |
| Timer queue (`rtmp_timer.c`, `rtmp_init.c`) | two linked lists of nodes, the timers, the thread's local `pTimer` | expire, set, modify, cancel, release, run, re-arm, stop | two locks, neither taken by everyone; the thread re-arms timers others cancel |
| Command queue and thread (`cmm_cmd.c`, `rtusb_io.c`) | FIFO of commands | enqueue, run | runs the two reset handlers |
| MLME queue and thread (`mlme.c`) | ring of messages, `Num`, `Head`, `Tail`, the thread's wake-up flag | enqueue from rx, timers, ioctls and the handlers themselves; dispatch; re-initialise | full test and insertion are two locked sections; an element is in use after it left the count; `MlmeQueueInit` takes no lock |
| Block acknowledgement (`ba_action.c`) | `BARecEntry` (reordering list, `LastIndSeq`, window), block pool, session index and count | reorder, flush on time-out, BAR, set up, tear down | numbers wrap; `LastIndSeq` is written outside the list's lock; two contexts tear down |
| Station MLME (`sta/`) | `CurrState` of CNTL, SYNC, AUTH, ASSOC; `MlmeAux`; link flags; timers | join, authenticate, associate, leave, reset, reconnect | requests and confirmations carry no number; timer callbacks run beside the machines |
| Access point MLME and MAC table (`ap/`, `mgmt_entrytb.c`) | one entry per station: `Sst`, `WpaState`, keys, counters, timers | authenticate, associate, kick out, delete | callbacks find the entry by its place; an old entry is used again |
| WPA handshake (`cmm_wpa.c`, `ap_wpa.c`) | nonces, replay counters, PTK, port, retry counter | messages 1 to 4, start and retry timers | loss, retry with a new nonce, a callback between two messages |
| MCU commands (`mcu_and.c`) | sequence number, ack queue | send, wait, response | timeout against a late answer |
| Power save (`ps.c`) | queues per station, service-period flags | enter, leave, trigger | frames queued while the state changes |
| Everything else | rate control, register programming, cryptography, configuration, cfg80211 | | sequential or hardware-defined |

The contexts that interleave: the network stack's transmit path, the USB host
controller, the completion tasklets (softirq), the command, MLME and timer
threads, kernel timer callbacks, and user requests. They share the adapter
structure, protected by several spin locks whose sections are the atomic steps
of the models; what the code does outside a lock is a step of its own. What is
at stake in each component is listed, at the line where it bites, under
`hazards` in `PROJECT.json`.

What would make the parts correct: data rings send every frame once, whole and
in order, and never stay idle with a frame ready; a pipe has one user and a
failure is repaired; reception goes on and no buffer is overwritten or parsed
twice; timers run when due and not after they were cancelled; queues neither
lose nor duplicate messages; reordering releases frames in sequence order and
never stalls; state machines end in a state where a new request is accepted.

## Modules

### TxRing: one data ring

State: `buf` (the content of each 8-byte unit of `TransferBuffer`), the positions
`CurWritePosition`, `CurWriteRealPos`, `NextBulkOutPosition`,
`ENextBulkOutPosition`, `SavedPad` with `bCopySavePad`, the claim
`BulkOutPending`, the `dataFlag` of `BulkFlags`, the URB, and the program points
of three contexts: the writer `W` (one at a time because of `DeQueueRunning`),
the completion tasklet `T` and the command thread `C`, each of which may kick.

| Action | Code |
|---|---|
| `DeQueuePacket`, `WriteHeader`, `WriteBody`, `WriteNext`, `PublishWrite`, `FinalWriteTxResource` | `RTMPDeQueuePacket`, `RtmpUSB_WriteSingleTxResource`, `..WriteFragTxResource`, `..WriteMultiTxResource`, `..FinalWriteTxResource` |
| `KickBulkOut` | `RTUSBKickBulkOut`, `RTUSBDataBulkOut` and the claim in `RTUSBBulkOutDataPacket` |
| `SeesEmpty`, `GivesUp`, `BuildUrb`, `SubmitOk`, `SubmitFails` | the rest of `RTUSBBulkOutDataPacket`; `Scan` is its loop over frames, from `ScanStart` (the parked header put back) by `ScanStep` (one turn, `ScanFrame` where it takes the frame) |
| `UrbDone`, `UrbFails`, `DataOutComplete`, `TaskletCheck` | completion, `rtusb_dataout_complete`, `rtusb_ac*_dma_done_tasklet` |
| `ResetBulkOut`, `OtherPipeQueuesReset` | `ResetBulkOutHdlr` for this pipe |

The device is external: `OnWire` follows lengths and next-valid bits (`WireStep`) the
way the DMA engine must for the driver to work. A frame's payload is its number and
length; whether a unit still belongs to the frame is what `SentIntact` sees.

### BulkOut: who may use a pipe

State: `BulkOutPending` and lock per pipe, the status of each URB (one per data
pipe, one per management cell, one null), `BulkFlags`, `MgmtRing`'s indices
(with `TxSwFreeIdx` in a machine word), the reset flag and `bulkResetPipeid`, the
queue of reset commands, and per context a program point and a return point. The
content of a data ring is a Boolean here; `TxRing` has the detail.

| Action | Code |
|---|---|
| `DataKickOut`, `MiniportMMRequest`, `MgmtKickOut`, `MgmtUnlock`, `NullFrameKickOut` | the senders |
| `KickBulkOut`, `PassOver`, `DataCheck`, `Claim`, `Load`, `Submit`, `SubmitFails`, `GiveUp` | `RTUSBKickBulkOut` and the three `RTUSBBulkOut*` routines, tried in turn |
| `UrbDone`, `UrbFails`, `Complete`, `DataTail`, `MgmtTail`, `NullTail`, `SetReset` | completions and their tasklets |
| `ResetLock`, `ResetSubmit`, `ResetSubmitFails`, `ResetUnlock`, `ResetMgmt`, `ResetClear` | `ResetBulkOutHdlr` |
| `Halt` | the device goes away |

### BulkIn: the receive ring

State: the `RX_CONTEXT` fields, `PendingRx` as a byte, the two indices, the
single slot of `rx_done_task`, the adapter flags that stop submission or parsing,
and per context a program point. `torn`, `refused` and `dropped` are history
variables: a cancel came between a claim and its completion, the USB core refused
a URB, a reset was given up with the radio off. They name the circumstances under
which the code makes no promise, and appear in the properties.

Who reads a buffer: the contexts in `RTUSBBulkReceive`, which claim it with
`bRxHandling` under `BulkInLock`, and the drain of the radio-off path
(`mt7612u_stop_dma_rx`), which does neither. The drain is two steps, so that a parser
may be under way or begin beside it, and it may move `ReadPosition` (0, or 1 when
past the first frame) under the parser, which then misses frames. `BufferExclusive` is
about the first kind of reader only: with the drain, two contexts may read one buffer at
once. The device is not unplugged in this model (`fRTMP_ADAPTER_NIC_NOT_EXIST`).

| Action | Code |
|---|---|
| `Enter`, `Receive`, `HandleBuffer`, `Gate`, `Claim`, `Submit`, `SubmitFails` | `RTUSBBulkReceive`, `DoBulkIn` |
| `Fill`, `UrbEnds`, `RxDone` | `RTUSBBulkRxComplete`, `rx_done_tasklet` |
| `CancelKill`, `CancelClear` | `RTUSBCancelPendingBulkInIRP` |
| `ResetBulkIn`, `Restart` | `ResetBulkInHdlr` |
| `MlmeRadioOff`, `PollIdle`, `PollAgain`, `PollEnds`, `Drain`, `DrainCopy`, `RadioOff`, `RadioOffInterrupted`, `RadioOnIdle`, `RadioOn`, `Sleep`, `Quiet`, `WakeUp` | radio and power-save paths of `rt65xx.c`, `cmm_mac_usb.c` and `cmm_data_usb.c` |

### TimerQ: timers and their thread

State: the timers (`Valid`, `State`, `Repeat`, armed or not, where their callback
is), `TimerQ`'s queue and free list as linked nodes, the thread's program point
and its local `pTimer`, the operations under way, and the shutdown.

| Action | Code |
|---|---|
| `Expire`, `RtmpTimerQInsert`, `InsertRefused`, `WakeUp`, `AddAgain` | the callback made by `BUILD_TIMER_FUNCTION`, `RtmpTimerQInsert` |
| `RTMPInitTimer`, `RTMPSetTimer`, `RTMPModTimer`, `Stop`, `DelTimer`, `DelTimerSync`, `Remove` | operations on timers; the last four are the phases of `RTMPCancelTimer` and `RTMPReleaseTimer` |
| `TaskWait`, `TaskClear`, `TaskCheck`, `TaskTake`, `TaskRun`, `TaskRearm`, `TaskAdd` | `RtmpTimerQHandle` |
| `Halt`, `RtmpTimerQExit`, `TaskKill` | `RtmpMgmtTaskExit` |

A handler run by `TaskRun` does nothing or sets a one-shot timer, which is what
the driver's handlers do to timers. `RTMPModTimer` on a periodic timer has no
caller and is left out.

### BaReorder: the recipient of a block-ack agreement

State: for each `BARecEntry` its status, `LastIndSeq`, window and reordering list,
the peer's session index `BARecWcidArray`, `numAsRecipient` (modulo a machine
word), the length of the block pool's free list, and where the receive tasklet and
the MLME thread are. Frames are numbered without wrapping and carry that number
modulo `ModSeq`, so the order they were sent in can be compared with the order they
go up in. The list is changed under `RxReRingLock` and `LastIndSeq` after it: these
are separate steps. `last`, `bar`, `order`, `raced`, `eaps` and `bypassed` are
history.

| Action | Code |
|---|---|
| `Indicate_AMPDU_Packet`, then `FirstFrame`, `InOrder` + `InOrderSet`, `DropOld`, `Queue`, `MoveWindow` + `WindowSet` + `WindowInOrder` | `Indicate_AMPDU_Packet`, its reset and its five cases |
| `Flush` (inside the arrival), `FlushOne`, `FlushSet`, `Indicate_Legacy_Packet` | `ba_flush_reordering_timeout_mpdus` and its two callers |
| `ba_enqueue_reordering_packet`, `NoBlock`, `NoBlockSet` | `ba_enqueue_reordering_packet` |
| `CntlEnqueueForRecv`, `BarSet` | `CntlEnqueueForRecv` |
| `PeerAddBAReqAction`, `BARecSessionAdd` | the same, with `BATableAllocRecEntry` |
| `BARecSessionTearDown`, `TearDownNothing`, `TearDownClear` | `BARecSessionTearDown` |
| `BATableFreeRecEntry`, `RecEntryFreed` | `BATableFreeRecEntry`: its test without the lock, and the count under it |
| `PeerAdvances` | the peer (external) |

### MlmeQueue and MlmeFifo

`MlmeFifo` is what the state machines rely on: one consumer, messages taken in the
order of acceptance, unchanged while they are handled, unless the queue is cleared.
`MlmeQueue` is the ring with its lock, and `FifoSpec` states that it implements
`MlmeFifo` (`queue` is the `Num` slots from `Head`, `taken` the element being
handled). The promise ends (`broken`) when a message is put over another or when
`MlmeQueueInit` overlaps an insertion; the code does not exclude either.

| Action | Code |
|---|---|
| `Test`, `InsertRead`, `InsertWrite`, `Wake` | `MlmeEnqueue`, `MlmeEnqueueForRecv`, `RTMP_MLME_HANDLER` |
| `MlmePeriodicExec` | its wake-up; `PeriodicRuns` stands for the tests at its top, and the flag `quiet` for the radio off, a measurement, a reset, monitor mode or a start-up that is not over |
| `TaskWait`, `MlmeDequeue`, `LeaveLoop`, `FreeElem` | `MlmeThread`, `MlmeHandler` |
| `ChannelSwitch`, `MlmeQueueInit` | a handler that re-initialises the queue |
| `Suspend`, `Resume`, `Halt`, `MlmeThreadExit`, `MlmeQueueDestroy` | suspend and close |

### Air, StaMlme, ApMlme, Link: a station and an access point

`Air` is what the two share: each side's MLME queue as a sequence (that the ring
behaves like one is the subject of `MlmeQueue`), the source of nonces, and the
faults. `StaMlme` and `ApMlme` are the two sides, both of which are code of this
driver, and `Link` composes them. Each side has two threads, the MLME thread, which
takes one message in a step, and the timer thread, whose callbacks are split where
the code reads or writes what the MLME thread also changes. A timer that has fired
is no longer armed and its callback runs later, so that a cancellation may come too
late. A pairwise key is the pair of nonces it was derived from; a MIC is the key it
was made with. Requests to authenticate and to associate name the BSS they are for
(`Req`), which need not be the current candidate when they are taken. `ReTryCounter++`
in the timer thread is a read and a write (`CountRetry`, `WPARetryExec`); `overwritten`
records that the write undid an assignment of the MLME thread.

Left out by name: allocations that fail in `WPAStart4WayHS` and `MlmeDeAuthAction`, and the
return of the former when the adapter is reset or halted (`cmm_wpa.c:763`, `:815`,
`ap_wpa.c:1758`), each of which would end a handshake without a timer; and the
removal of all keys at the head of `MlmeAssocReqAction` (`assoc.c:198`), which
`NoKeyAtAssoc` shows to find no key.

| Action | Code |
|---|---|
| `CntlOidSsidProc`, `CntlWait*Proc`, with `IterateOnBssTab`, `LinkUp`, `LinkDown` | `sta/connect.c` |
| `MlmeJoinReqAction`, `PeerBeaconAtJoinAction`, `BeaconTimeoutAtJoinAction` | `sta/sync.c` |
| `MlmeAuthReqAction`, `PeerAuthRspAtSeq2Action`, `AuthTimeoutAction`, `PeerDeauthAction` | `sta/auth.c`, `sta/auth_rsp.c` |
| `MlmeAssocReqAction`, `PeerAssocRspAction`, `AssocTimeoutAction`, `MlmeDisassocReqAction`, `DisassocTimeoutAction`, `PeerDisassocAction` | `sta/assoc.c`; the branches marked `InvalidState...` are the functions of that name |
| `Drop` | a message for which the machine has no action in its state |
| `MlmeRestartStateMachine` | `MT2_RESET_CONF` |
| `Fire`, `Timeout`, `AuthTimeout`, `LinkDownExecTest`, `..Enqueue`, `..Set` | the timer thread; `AuthTimeout`, `LinkDownExec` |
| `Set_SSID_Proc`, `Set_SSID_ProcEnqueue`, `MlmeAutoReconnectLastSSID` | the user's request; the driver's own |
| `PeerPairMsg1Action`, `PeerPairMsg3Action`, `StaIgnored` | the supplicant |
| `APPeerAuthReqAtIdleAction`, `ap_cmm_peer_assoc_req_action`, `APPeerLeaves`, `KickOut`, `APChkCls2Cls3Err` | `ap_auth.c`, `ap_assoc.c`, `ap_data.c` |
| `WpaEAPOLStartAction`, `PeerPairMsg2Action`, `PeerPairMsg4Action`, `ApIgnored` | the authenticator |
| `ApFire`, `EnqueueStartForPSKExec`, `CountRetry`, `WPARetryExec`, `WPAStart4WayHS`, `MlmeDeAuthAction` | the timers of the entry |

Some things the models show about the code that no run is kept for:

- the drain of `mt7612u_stop_dma_rx` reads a buffer while a context of
  `RTUSBBulkReceive` parses it, whose `bRxHandling` is there to "Notify this packet is
  being process now" (`mac_usb.h:248`), and moves `ReadPosition` under it;
- although the drain is to "process whole rx ring" (`rt65xx.c:139`), its loop ends
  after one look at one buffer, because `GetPacketFromRxRing` sets neither `RxPending`
  nor `bReschedule`;
- a session that the tasklet and the MLME thread tear down together is counted down
  twice, so that `ASSERT(pAd->BATable.numAsRecipient != 0)` (`ba_action.c:820`) fails
  and the count wraps;
- a request that finds the station connected goes on with the candidate after the first
  (`CntlWaitDisassocProc` increments `BssIdx`, also when the request names the same
  access point, `connect.c:445`);
- the station's port stays open without a key from a new association response to
  `LinkUp`;
- CNTL may be left in `WAIT_DISASSOC` by `LinkDownExec` until the next request;
- a handshake is not started when the callback of an older start timer ends after a new
  association (the station's `LinkDownTimer` then ends the link);
- when `ReTryCounter++` undoes the assignment of message 2 and message 4 is lost, the
  access point may neither open its port nor send the station away, whose port is open
  (with the run's one retry it still does; `KeysAgree` and `ApResolves` excuse the case
  for any number);
- a message whose sender does not wake the thread waits while the radio is off;
- a block of the reordering pool is lost with every EAP frame that comes to be queued.

## Runs

Every module has an `MC` module; each `.cfg` is one run. Deadlock is not checked:
all the systems may go quiet when nobody has anything to send or do.

| Run | Result | What it shows |
|---|---|---|
| `tx_ring` | passes | `SentIntact`, `FirstSentInOrder`, `UrbStable`, `NoZeroLengthFrame`: frames reach the device whole and in order, whatever the interleaving of copying, parking, wrapping and resubmission. `WritesInBounds`, `EmptyMeansDrained`: the four tests of `RtmpUSBCanDoWrite` and the wrap decision keep writes inside the buffer and never let a full ring look empty. |
| `tx_ring_mpdu_count` | violated | `MpduCountRight`: the final MPDU byte count does not reach a TXWI whose first bytes are parked. |
| `tx_ring_ready` | violated | `ReadyIsSent`: a frame published between the empty test and the clearing of the flag is not sent until another frame comes. |
| `bulk_out` | passes | `PipeExclusive`, `PendingHasUser`: a pipe has exactly one user while it is pending, with one failed transfer and its reset included. `ResetServed`: a reset that is asked for is carried out. |
| `bulk_out_mgmt_index` | violated | `MgmtIndexMatches`, the driver's own assertion. |
| `bulk_in` | passes | `BufferExclusive`, `ParsedInOrder`, `ReceivedKept`: no buffer is parsed twice, out of order or while the controller writes it, by those who parse under `bRxHandling` and with the drain beside them. `ReceiveContinues`: reception does not stop for good. |
| `bulk_in_resume` | violated | `ReceiveResumes`: the same without the excuse of a reset given up while the radio was off. |
| `timer_queue` | passes | `ListsSound`: no node is lost or on both lists. `CancelHolds`: a cancelled timer is neither pending nor queued. `PeriodicRuns`: no expiry, wake-up or re-arming is lost. `TaskEnds`: the thread can be stopped. |
| `timer_queue_cancel` | violated | `CancelledStays`: a handler runs after its timer was cancelled. |
| `ba_reorder` | passes | `DeliveredInOrder`, `ListInWindow`: frames go up in order and once, and the list holds what the window allows and nothing that is next in line. `PoolConserved`: no block lost or freed twice in any interleaving. `SessionsCounted`: set-up and teardown lose no entry. `GapReleased`: if frames keep coming after a silence, a gap is stepped over. |
| `mlme_queue` | passes | `FifoSpec`: the ring implements `MlmeFifo`. `OverrunOnlyWhenFull`: a message is lost to another only in a full queue. `Handled`: a message accepted is taken up unless the driver is halted or suspended, or the thread sleeps while the periodic timer is quiet. |
| `link` | passes | `KeysAgree`, `KeysFresh`, `StaOpensFirst`: what the two ends may assume of each other's keys and ports. `NoKeyAtAssoc`: no request to associate, however late, meets a key in use. `Settles`: every attempt to connect ends. `LinkResolves`, `ApResolves`: a handshake ends on each side, in an open port or in none. |

The violated runs are explained, with the lines that disagree, under `findings`
in `PROJECT.json`.

### Bounds

- `TxRing`: 26 units plus a local buffer of 9; single, fragmented and aggregated
  frames; five frames, so that the ring wraps and meets its own tail; one failed
  submission or completion and one reset command queued by another pipe. The
  reserves keep the order the real constants have, and `TxRingAssumption` states the
  relations the argument needs. `LocalTxBuf` is 9 because the last of these says that
  `LOCAL_TXBUF_SIZE` covers the headers of a batch and the first fragment of another.
  The driver's byte values satisfy it: fragments of a packet of at most 1500 bytes, about
  200 bytes of headers, 2048 bytes of local buffer.
- `BulkOut`: two data pipes (pipe 0 shared with management and null frames, pipe 1
  not), two contexts besides the command thread, one management cell, two frames,
  one failure. With `MaxFailures = 2` TLC finds the reset handler releasing a pipe
  it does not own: a second failure overwrites `bulkResetPipeid` while the handler
  runs, and its resubmission is refused. So the exclusion properties
  are claimed for one failure only; the proof says so in its statement.
- `BulkIn`: a ring of two, three transfers with data, one kicker besides the
  tasklet, the radio and the command thread, two disturbances (failed or empty
  transfer, refused submission, kick, radio switch or sleep). Two are enough for a
  reset to meet a radio switch.
- `TimerQ`: one periodic and one one-shot timer, a pool of two nodes (so it is
  exhausted when one timer is queued twice), one managing context, three
  operations.
- `BaReorder`: numbers modulo 16 and five frames that cross the wrap, a window of
  three, a pool of three blocks (so that it runs out), one frame that is EAP, two
  entries, two set-ups or teardowns. Half of the sequence space is larger than the
  peer's window and what it may run ahead (`BaReorderAssumption`), as 2048 is in the
  driver.
- `MlmeQueue`: two slots, one sender besides the receive path and the handlers, four
  messages, one channel switch, and one suspension or one time that the periodic timer
  turns quiet (it begins quiet, since start-up is not over): the ring wraps, fills up, is
  overrun and is cleared under an insertion.
- `Link`: two candidates, one of them out of range; two requests; one fault, and one
  retry of message 1. A fault is a lost frame, a station sent away, or a timer that
  expires although messages are still on their way; without a fault a timer expires
  only when nothing is, since the intervals are far longer than an exchange. The
  invariants also hold with two faults (4,161,939 states), the case in which the
  access point answers a key frame in `SST_AUTH`; the run keeps to one for its
  liveness properties.

### Fairness

Weak fairness for each context that has begun a piece of code (it is not
preempted for ever), for the controller (every URB ends), for scheduled tasklets,
queued commands and pending kernel timers, and for the shutdown once begun. Strong
fairness for a scheduled bulk-out tasklet in `BulkOut`: it competes with new
requests for a context, and softirqs are not starved by them. In `BulkIn` the
radio is not left off for ever. Nobody owes the driver a new frame, a received
packet or an operation on a timer, so no liveness property leans on fresh work. The
one exception says so: `GapReleased` is conditional on frames that arrive after a
silence, because nothing else in the code looks at the time-out. In `MlmeQueue` calls
that have begun end, the thread is scheduled, and the periodic timer wakes it only while
none of the tests of `MlmePeriodicExec` fails; nothing makes a suspended device resume or
the radio come on, so `Handled` owes nothing (`Paused`) while the driver is halted or
suspended, or the thread sleeps and the timer is quiet. In `Link` the four threads go on, an armed timer
expires and an ioctl that has begun ends; requests, beacons and faults are owed by
nobody, and one `WF` per thread suffices because a thread with work is never disabled
by another.

## Proofs

Each proof module extends the component's module and the proof system's, and proves
its theorems for every value of the constants that the component's assumption allows.
All of them follow the same plan: an inductive invariant, one lemma per action (or
per way in which actions touch the state) that it is kept, and `PTL` at the end. The
invariants also hold in every state TLC reaches with the constants of the runs (for
`TimerQ` with list lengths up to the size of the pool instead of any number).

| Module | Theorem | States |
|---|---|---|
| `BulkOut_proofs` | `TypeCorrect` | `Spec => []TypeOK` |
| | `PipesExclusive` | `Spec => [](failures <= 1 => PipeExclusive)` |
| | `PipesReleased` | `Spec => [](failures <= 1 => PendingHasUser)` |
| `BulkIn_proofs` | `TypeCorrect`, `ParsedAlone` | `[]TypeOK`, `[]BufferExclusive` |
| | `InOrder`, `Kept` | the action properties `ParsedInOrder`, `ReceivedKept` |
| `MlmeQueue_proofs` | `TypeCorrect` | `[]TypeOK` |
| | `NoEarlyOverrun` | the action property `OverrunOnlyWhenFull` |
| | `ImplementsFifo` | `Spec => FifoSpec`, the refinement of `MlmeFifo` |
| `Link_proofs` | `TypeCorrect`, `Fresh`, `OpensFirst`, `Agree` | `[]TypeOK`, `[]KeysFresh`, `[]StaOpensFirst`, `[]KeysAgree` |
| `TxRing_proofs` | `TypeCorrect`, `InBounds` | `[]TypeOK`, `[]WritesInBounds` |
| | `NeverZeroLength`, `ArrivesIntact`, `LeavesInOrder` | `[]NoZeroLengthFrame`, `[]SentIntact`, `[]FirstSentInOrder` |
| | `EmptyIsDrained`, `UrbUntouched` | `[]EmptyMeansDrained`, the action property `UrbStable` |
| `TimerQ_proofs` | `TypeCorrect`, `ListsStaySound`, `CancelStays` | `[]TypeOK`, `[]ListsSound`, `[]CancelHolds` |
| `BaReorder_proofs` | `TypeCorrect`, `Conserved`, `Counts` | `[]TypeOK`, `[]PoolConserved`, `[]SessionsCounted` |
| `BaOrder_proofs` | `InWindowAlways`, `UpInOrder` | `[]ListInWindow`, `[]DeliveredInOrder` |

**BulkOut.** For one to six pipes and any ring size, contexts and frames
(`BulkOutAssumption`; the word of `TxSwFreeIdx` is wider than what can be counted in
it). `TypeOK` is inductive by itself. Exclusion is not: a tasklet releases the pipe of a
failed URB and the reset handler claims it again through `bulkResetPipeid`, so the proof
must know that the failure, its tasklet and the reset are never there at the same time
(`OneFailure`), that the handler's pipe is the one `bulkResetPipeid` names
(`ResetOnPipe`), and that a data URB is tagged with its own pipe (`OwnPipe`). The
invariant is `Inductive == failures <= 1 => Good`; the step that brings a second failure
makes it vacuous, and the property is in fact false after it (see Bounds). Five lemmas
say what a step can do to the users of a pipe (nothing; a context takes it; hands it to a
URB; releases it; a tasklet releases it), and each action is one of them.

**BulkIn.** For rings of 1 to 255 contexts (`PendingRx` is a byte) and any set of kicking
contexts. That no two contexts of `RTUSBBulkReceive` parse at once rests on `bRxHandling`
alone and holds always (`Handlers`); the drain takes part in the proof only as a step that may
come anywhere and moves `ReadPosition`, and nothing is claimed of its own reading; the rest holds until a cancel comes between a claim and its
completion (`torn`, which is also what the properties say). There, a buffer that is claimed,
flying or with the tasklet is the one at the bulk-in index and has one owner (`Owned`);
the readable buffers are exactly those from the read index up to the bulk-in index
(`Segment`), so a submission cannot hit one; and their data grow along that segment
(`Ordered`, `Fresh`), from which the two action properties follow.

**MlmeQueue.** For any number of slots and any finite set of senders. `TypeOK` needs
that `Num`, now and as a sender has read it, counts accepted messages (`Counted`). While the
promise holds (`~Broken`), the lock is held by whoever is between reading and writing the
fields, what it has read is current, `Tail` is `Num` past `Head`, and the element being handled is the slot
before `Head` (`Good`). In that state, every step is mapped: the `Num` slots from `Head`
as a sequence gain a message at the end, lose their first, are emptied, or stay as they are,
and these are the steps of `MlmeFifo`. Once the promise is broken, `MlmeFifo` asks for nothing.

**Link.** For any list of candidates and any number of requests, retries of message 1 and
faults. The three properties about keys are provable only with what the frames on
their way carry. `StaFrames` and `ApFrames` say which nonces and keys they hold; `StaKeys`
and `ApKeys`, that what each side stores was drawn in its association; `Divided`, that in
the queue to the station the association response separates the frames of the earlier
association from those of this one; `Waiting`, that nothing of this handshake has come back before the response was taken;
`Answered` and `Agreed` tie replay counters to keys, so that a message 4 is accepted only
for the key the station uses; `ClosedFirst`, that the confirmation that closes the
port precedes every message 3 that opens it; `Guarded`, that a handshake in progress has
its retry timer armed or running, which is why `KeysAgree` may ask for a quiet state; it
holds until `overwritten`, which the property excuses.

**TxRing.** For any ring, reserves, batches and numbers of frames and errors within
`TxRingAssumption`. `InBounds` rests on three facts (`IndInv`): the block being written is one of the
batches, `Priv` counts what of it has been written, and a write that leaves less than
`AggReserve` is the last of its round, so the next begins at or below `Limit -
AggReserve + 1`. The content of the ring plays no part.

Everything else needs to know where the frames are. The code keeps four positions and
reads the rest from the bytes; the invariant `RingInv` says that there is a numbering of
the frames in the order they were published (`Laid`): frame `i` starts at `P[i]`, takes
`N[i]` units and has number `F[i]`; the last URB holds frames `u` to `r - 1`, frames `r` to
`t - 1` wait, and frame `z` was the last of its round. `Positions` ties the four fields
to `u`, `r` and `t`; `Rising` and `Joined` say that frames do not overlap and that none is
missing between two that follow each other; `Content`, which headers and bytes stand
there. `Content` speaks of the ring with the parked header put back (`View`), and
`Parked` says exactly when there is one to put back, so that the zeros behind a URB are never
taken for a frame. `Behind` is what the tests of `RtmpUSBCanDoWrite` are for: a
writer one round ahead stays below the last URB for the whole block it was let in for.
`Current` describes the frames being copied without the lock, `Numbered` and `SentSoFar`
what has become of every number. Each writer's step extends the numbering or leaves it alone;
building a URB moves `u` and `r`. What the loops compute (`Scan`, and `OnWire` on the
other side) is shown turn by turn: the value after `m` turns is the prefix of the numbering up
to frame `r + m`, with the next-valid bits set on it. The induction over the turns is
made with sets of numbers, not with an operator: a counterexample would have a least one
(`Least`, from the library's theorem on well-founded relations).

The attempt to prove `EmptyIsDrained` corrected the model's assumption. It used to compare the
reserves only with the sizes of frames, and under that the theorem is false: if a URB may
begin with the second fragment of a batch so far up in the buffer that a writer a round
ahead, still below it, is told to end its round, `CurWritePosition` goes back to 1 a second time and a
full ring looks empty. TLC shows it with a local buffer of 5 and ten frames (the five frames
of the run do not get there). `LOCAL_TXBUF_SIZE` excludes it, and the assumption now says
how (`FirstFragment`); `LowEnough` is the part of the invariant that uses it. For TLC, the
numbering was added to the model as variables, with what each action does to it; with the run's
constants `RingInv` holds in every state.

**TimerQ.** For any finite pool of nodes and any timers. `ListsSound` speaks of what `Walk` reaches in
`Cardinality(Nodes)` steps; the proof works with a numbering of the nodes of each
list (`Chain`), shows once that `Walk` follows the numbering (from its defining equation,
by a least counterexample), and then shows for each of insert, take, and removal at the
head, in the middle and at the tail how the numbering changes. For `CancelHolds` the
invariant adds that the cancelled timer is no longer periodic, which is why neither the
thread nor `AddAgain` arms it again, and that the thread did not take it in this turn.

**BaReorder.** For any modulus, window, table and pool (`BaReorderAssumption`: fewer
entries than the counter's width, as 64 is below `2^32`). `PoolConserved` sums the lengths of the lists; the proof counts the
set of places in them instead (`Cells`), which changes by one place when a frame is
queued and by a prefix when frames are released, and shows that the sum is that cardinality.
It holds in every interleaving, also in the ones the code does not protect. `SessionsCounted`
needs the table at every intermediate point of a set-up or teardown (`Counted`, with one case for each program
point, the one between the test and the count of `BATableFreeRecEntry` included) and, like the property, the contexts taking turns (`~raced`).

**BaOrder** (the order of frames in `BaReorder`). The code compares remainders; the proof
says which numbers they are remainders of. As long as the contexts take turns and no frame
has gone past a list, either nothing has been indicated since a reset (`Blank`), or
`LastIndSeq` stands for one frame number `p` (`Tracks`): the list is sorted and lies behind
`p` within the window, the frame at hand is near `p`, nothing newer than `p` has gone up
but for the frame a block-ack request starts at, and what the tasklet has decided but not
yet written to `LastIndSeq` already counts (`Written`). `Air` ties the peer's window to
what has been heard. From this no two numbers that are ever compared are more than
`MaxGap + 2 * WinSize` apart, and the lemmas on remainders turn every comparison in the
code into one of the numbers themselves; this is where `2 * (MaxGap + 2 * WinSize) <=
ModSeq` is used (in the driver, windows of at most 64 in 4096 numbers). TLC finds the
invariant true with the run's constants and with two other choices of modulus, window and
gap that meet this bound exactly or nearly.

Only model-checked:

- everything under fairness: `ResetServed`, `ReceiveContinues`, `PeriodicRuns`,
  `TaskEnds`, `GapReleased`, `Handled`, `Settles`, `LinkResolves`, `ApResolves`. The prover handles
  neither fairness nor `ENABLED`;
- `NoKeyAtAssoc`, whose argument runs through every way the station has back to an
  association.

Every other invariant and every action property without fairness that a passing run checks is
the subject of a theorem; where a theorem adds a condition (`BulkOut`), the table shows it.

## Not modelled, and the plan

`PROJECT.json` lists every component with its status. Next, in this order:

1. `McuCmd`: `AndesSendCmdMsg`, the ack queue, sequence numbers, timeouts and late
   responses; property: a response completes the command it belongs to, a waiter always
   returns.
2. `MiniportMMRequest` in two steps and the cancelling of bulk-out transfers, in
   `BulkOut`; the originator's half of the block-ack table; power save; several stations
   in the MAC table; the group key handshake.

Most of the tree's 157,809 lines are not in reach of models of this kind, and the map
does not pretend otherwise: register programming, calibration and rate control (tables
and sequences of writes whose effect the hardware defines), cryptography (settled by
test vectors), configuration parsing, ioctl and cfg80211 adapters (formatting and
copying), beam forming, headers, and the separate Bluetooth driver in `btmtk_usb/`.
Several files that the tree names for features (AP client, repeater, U-APSD) hold no
code at this commit. Of the code with state that more than one context changes, the
parts listed above are what is left.
