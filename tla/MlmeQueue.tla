----------------------------- MODULE MlmeQueue ------------------------------
(***************************************************************************)
(* The MLME queue and its thread (common/mlme.c). Timers, the command      *)
(* thread, ioctls and the state machines themselves put messages in with   *)
(* MlmeEnqueue, the receive tasklet puts frames in with                    *)
(* MlmeEnqueueForRecv, and MlmeThread drives the state machines with them. *)
(*                                                                         *)
(* The test for a full queue and the insertion are two critical sections   *)
(* of Queue->Lock, the insertion is split here in the reading of Tail and  *)
(* Num and the writing, because MlmeQueueInit, called by a state machine   *)
(* on a channel switch, takes no lock and even initialises it. A message   *)
(* is a number: the order of acceptance. Of its length the model keeps     *)
(* whether it is zero.                                                     *)
(***************************************************************************)
EXTENDS Integers, FiniteSets

CONSTANTS
  MAX_LEN_OF_MLME_QUEUE,
  Senders,     \* contexts that call MlmeEnqueue, other than the MLME thread
  MaxMsgs,     \* bound: messages accepted
  MaxSwitches, \* bound: channel switches, each of which clears the queue
  MaxPauses    \* bound: suspensions, and times the periodic timer is made idle

ASSUME MlmeQueueAssumption ==
  /\ MAX_LEN_OF_MLME_QUEUE \in Nat \ {0} /\ MaxMsgs \in Nat /\ MaxSwitches \in Nat /\ MaxPauses \in Nat
  /\ IsFiniteSet(Senders) /\ {"rx", "self", "none"} \intersect Senders = {}

VARIABLES
  Num, QHead, QTail, Entry, \* the MLME_QUEUE: Num, Head, Tail, Entry
  Lock,                     \* who holds Queue->Lock across steps, or "none"
  call,                     \* where each context is in its enqueue call
  pc, Elem,                 \* the MLME thread; the slot it is handling
  kthread_running,          \* the thread's wake-up flag
  flag,                     \* HALT_IN_PROGRESS or NIC_NOT_EXIST; SUSPEND; PM_FlgSuspend; quiet
  accepted,                 \* number of messages accepted
  switches, pauses,
  overrun,                  \* history: was a message put into a slot in use?
  torn                      \* history: did MlmeQueueInit and an insertion overlap?

queue  == <<Num, QHead, QTail, Entry, Lock>>
thread == <<pc, Elem>>
hist   == <<switches, pauses, overrun, torn>>
vars   == <<queue, call, thread, kthread_running, flag, accepted, hist>>

Slots   == 0..MAX_LEN_OF_MLME_QUEUE - 1
Callers == Senders \union {"rx", "self"}   \* "self": the MLME thread, in a handler
NoSlot  == -1
Blank   == [msg |-> 0, Occupied |-> FALSE, len |-> 0]
Idle    == [pc |-> "idle", tail |-> 0, num |-> 0, wake |-> FALSE]
\* "quiet": MlmePeriodicExec returns at once, for RADIO_OFF, RADIO_MEASUREMENT,
\* RESET_IN_PROGRESS, MONITOR_ON or for want of START_UP.
PauseFlags == {"suspend", "pm", "quiet"}
Flags   == {"halt"} \union PauseFlags
InInit  == {"init_num", "init_head", "init_tail", "init_entries"}
InHandler == {"handle", "cleared"}          \* "cleared": after MlmeQueueInit
Handling == InHandler \union InInit

Init ==
  /\ Num = 0 /\ QHead = 0 /\ QTail = 0 /\ Lock = "none"
  /\ Entry = [i \in Slots |-> Blank]
  /\ call = [c \in Callers |-> Idle]
  /\ pc = "wait" /\ Elem = NoSlot
  /\ kthread_running = FALSE
  /\ flag = [f \in Flags |-> f = "quiet"]       \* START_UP is not set yet
  /\ accepted = 0 /\ switches = 0 /\ pauses = 0
  /\ overrun = FALSE /\ torn = FALSE

-----------------------------------------------------------------------------
(***************************************************************************)
(* MlmeEnqueue and MlmeEnqueueForRecv.                                     *)
(***************************************************************************)
Next1NoWrap(i) == IF i = MAX_LEN_OF_MLME_QUEUE THEN 0 ELSE i + 1
Next1(i) == IF i + 1 = MAX_LEN_OF_MLME_QUEUE THEN 0 ELSE i + 1

\* SendId 0 is the receive path, which leaves half of the queue to the others.
MlmeQueueFull(SendId) ==
  IF SendId = 0 THEN Num >= MAX_LEN_OF_MLME_QUEUE \div 2 \/ Entry[QTail].Occupied
  ELSE Num = MAX_LEN_OF_MLME_QUEUE

SendIdOf(c) == IF c = "rx" THEN 0 ELSE 1

\* The tests that precede the insertion: halted, full. A frame of a kind unknown
\* to MsgTypeSubst is refused by not being offered. MlmeEnqueue leaves the
\* wake-up to its caller (wake); MlmeEnqueueForRecv does it itself; a state
\* machine that sends a message needs none.
Test(c, wake) ==
  /\ call[c].pc = "idle"
  /\ c = "rx" => wake
  /\ c = "self" => pc \in InHandler /\ ~wake
  /\ accepted + Cardinality({d \in Callers : call[d].pc \in {"read", "write"}}) < MaxMsgs
  /\ ~flag["halt"]
  /\ Lock = "none"
  /\ ~MlmeQueueFull(SendIdOf(c))
  /\ call' = [call EXCEPT ![c].pc = "read", ![c].wake = wake]
  /\ UNCHANGED <<queue, thread, kthread_running, flag, accepted, hist>>

\* spin_lock_bh; Tail and Num are read.
InsertRead(c) ==
  /\ call[c].pc = "read" /\ Lock = "none"
  /\ Lock' = c
  /\ call' = [call EXCEPT ![c].pc = "write", ![c].tail = QTail, ![c].num = Num]
  /\ UNCHANGED <<Num, QHead, QTail, Entry, thread, kthread_running, flag, accepted, hist>>

Message(c) == [msg |-> accepted + 1, Occupied |-> TRUE, len |-> 1]

\* Tail, Num and the entry are written; spin_unlock_bh.
InsertWrite(c) ==
  LET t == call[c].tail IN
  /\ call[c].pc = "write"
  /\ QTail' = Next1(t) /\ Num' = call[c].num + 1
  /\ Entry' = [Entry EXCEPT ![t] = Message(c)]
  /\ Lock' = "none"
  /\ call' = [call EXCEPT ![c] = IF call[c].wake THEN [Idle EXCEPT !.pc = "wake"] ELSE Idle]
  /\ accepted' = accepted + 1
  /\ overrun' = (overrun \/ Entry[t].Occupied)
  /\ torn' = (torn \/ pc \in InInit)
  /\ UNCHANGED <<QHead, thread, kthread_running, flag, switches, pauses>>

\* RTMP_MLME_HANDLER.
Wake(c) ==
  /\ call[c].pc = "wake"
  /\ kthread_running' = TRUE
  /\ call' = [call EXCEPT ![c] = Idle]
  /\ UNCHANGED <<queue, thread, flag, accepted, hist>>

\* MlmePeriodicExec ends with RTMP_MLME_HANDLER, every second, unless one of its
\* tests makes it return.
PeriodicRuns == ~flag["halt"] /\ ~flag["quiet"]
MlmePeriodicExecReturns == kthread_running /\ PeriodicRuns /\ UNCHANGED vars
MlmePeriodicExec ==
  /\ ~kthread_running /\ PeriodicRuns
  /\ kthread_running' = TRUE
  /\ UNCHANGED <<queue, call, thread, flag, accepted, hist>>

-----------------------------------------------------------------------------
(***************************************************************************)
(* MlmeThread and MlmeHandler. The thread is MlmeHandler's only caller.    *)
(***************************************************************************)

\* RtmpOSTaskWait returns; nothing is done while the device is suspended.
TaskWait ==
  /\ pc = "wait" /\ kthread_running
  /\ kthread_running' = FALSE
  /\ pc' = IF flag["pm"] THEN "wait" ELSE "loop"
  /\ UNCHANGED <<queue, call, Elem, flag, accepted, hist>>

MlmeQueueEmpty == Num = 0
TakenSlotAfter == Next1(QHead)
TakenSlot == QHead
Stopped == flag["halt"] \/ flag["suspend"]

\* The head of the loop: MlmeQueueEmpty, the flags, MlmeDequeue. Nobody else
\* takes messages, so the queue is still not empty when the slot is taken.
MlmeDequeue ==
  /\ pc = "loop" /\ Lock = "none" /\ ~MlmeQueueEmpty /\ ~Stopped
  /\ Elem' = TakenSlot /\ QHead' = Next1(QHead) /\ Num' = Num - 1
  /\ pc' = "handle"
  /\ UNCHANGED <<QTail, Entry, Lock, call, kthread_running, flag, accepted, hist>>

LeaveLoop ==
  /\ pc = "loop" /\ Lock = "none" /\ (MlmeQueueEmpty \/ Stopped)
  /\ pc' = "wait"
  /\ UNCHANGED <<queue, call, Elem, kthread_running, flag, accepted, hist>>

\* The state machine has run (MlmeRestartStateMachine for MT2_RESET_CONF): the
\* element is given back, through the pointer and without the lock, whatever is
\* in it by now.
GiveBackOccupied(e) == [e EXCEPT !.len = 0]
GiveBack(e) == [e EXCEPT !.Occupied = FALSE, !.len = 0]
FreeElem ==
  /\ pc \in InHandler /\ call["self"].pc = "idle"
  /\ Entry' = [Entry EXCEPT ![Elem] = GiveBack(@)]
  /\ Elem' = NoSlot /\ pc' = "loop"
  /\ torn' = (torn \/ (pc = "cleared" /\ Entry[Elem].Occupied))
  /\ UNCHANGED <<Num, QHead, QTail, Lock, call, kthread_running, flag, accepted, switches, pauses,
                 overrun>>

\* A channel switch announced by a beacon or an action frame: the handler calls
\* MlmeQueueInit, which takes no lock.
ChannelSwitch ==
  /\ pc = "handle" /\ call["self"].pc = "idle" /\ switches < MaxSwitches
  /\ pc' = "init_num"
  /\ Lock' = "none"
  /\ switches' = switches + 1
  /\ torn' = (torn \/ \E c \in Callers : call[c].pc = "write")
  /\ UNCHANGED <<Num, QHead, QTail, Entry, call, Elem, kthread_running, flag, accepted, pauses,
                 overrun>>

MlmeQueueInit ==
  /\ \/ /\ pc = "init_num" /\ pc' = "init_head"
        /\ Num' = 0 /\ UNCHANGED <<QHead, QTail, Entry>>
     \/ /\ pc = "init_head" /\ pc' = "init_tail"
        /\ QHead' = 0 /\ UNCHANGED <<Num, QTail, Entry>>
     \/ /\ pc = "init_tail" /\ pc' = "init_entries"
        /\ QTail' = 0 /\ UNCHANGED <<Num, QHead, Entry>>
     \/ /\ pc = "init_entries" /\ pc' = "cleared"
        /\ Entry' = [i \in Slots |-> Blank]
        /\ UNCHANGED <<Num, QHead, QTail>>
  /\ torn' = (torn \/ \E c \in Callers : call[c].pc = "write")
  /\ UNCHANGED <<Lock, call, Elem, kthread_running, flag, accepted, switches, pauses, overrun>>

-----------------------------------------------------------------------------
(***************************************************************************)
(* Suspension, the radio off and on, and shutdown.                         *)
(***************************************************************************)
Suspend(f) ==
  /\ f \in PauseFlags /\ ~flag[f] /\ pauses < MaxPauses
  /\ flag' = [flag EXCEPT ![f] = TRUE]
  /\ pauses' = pauses + 1
  /\ UNCHANGED <<queue, call, thread, kthread_running, accepted, switches, overrun, torn>>

Resume(f) ==
  /\ f \in PauseFlags /\ flag[f]
  /\ flag' = [flag EXCEPT ![f] = FALSE]
  /\ UNCHANGED <<queue, call, thread, kthread_running, accepted, hist>>

Halt ==
  /\ ~flag["halt"]
  /\ flag' = [flag EXCEPT !["halt"] = TRUE]
  /\ UNCHANGED <<queue, call, thread, kthread_running, accepted, hist>>

\* MlmeHalt: RtmpOSTaskKill waits for the thread, which leaves in RtmpOSTaskWait.
MlmeThreadExit ==
  /\ flag["halt"] /\ pc = "wait"
  /\ pc' = "exited"
  /\ UNCHANGED <<queue, call, Elem, kthread_running, flag, accepted, hist>>

\* MlmeHalt, then: the queue is emptied; the entries stay as they are.
MlmeQueueDestroy ==
  /\ pc = "exited" /\ Lock = "none" /\ <<Num, QHead, QTail>> # <<0, 0, 0>>
  /\ Num' = 0 /\ QHead' = 0 /\ QTail' = 0
  /\ UNCHANGED <<Entry, Lock, call, thread, kthread_running, flag, accepted, hist>>

-----------------------------------------------------------------------------
CallStep(c) == InsertRead(c) \/ InsertWrite(c) \/ Wake(c)
ThreadStep == TaskWait \/ MlmeDequeue \/ LeaveLoop \/ FreeElem \/ MlmeQueueInit \/ MlmeThreadExit

Next ==
  \/ \E c \in Callers : CallStep(c) \/ \E wake \in BOOLEAN : Test(c, wake)
  \/ MlmePeriodicExec
  \/ ThreadStep
  \/ ChannelSwitch
  \/ \E f \in PauseFlags : Suspend(f) \/ Resume(f)
  \/ Halt \/ MlmeQueueDestroy

Spec == Init /\ [][Next]_vars

(***************************************************************************)
(* Fairness: calls that have begun end, the thread is scheduled, and the   *)
(* periodic timer runs while none of its tests fails. Nothing makes a      *)
(* suspended device resume, or the radio come on.                          *)
(***************************************************************************)
Fairness ==
  /\ \A c \in Callers : WF_vars(CallStep(c))
  /\ WF_vars(ThreadStep)
  /\ WF_vars(MlmePeriodicExec)

FairSpec == Spec /\ Fairness

-----------------------------------------------------------------------------
(***************************************************************************)
(* Properties.                                                             *)
(***************************************************************************)

EntryType == [msg : 0..MaxMsgs, Occupied : BOOLEAN, len : {0, 1}]
CallType == [pc : {"idle", "read", "write", "wake"}, tail : Slots, num : 0..MaxMsgs, wake : BOOLEAN]
QueueTypes ==
  /\ Num \in 0..MaxMsgs /\ QHead \in Slots /\ QTail \in Slots
  /\ Entry \in [Slots -> EntryType]
  /\ Lock \in Callers \union {"none"}
CallTypes == call \in [Callers -> CallType]
ThreadTypes ==
  /\ pc \in {"wait", "loop", "exited"} \union Handling
  /\ Elem \in Slots \union {NoSlot} /\ (Elem # NoSlot <=> pc \in Handling)
  /\ kthread_running \in BOOLEAN
HistTypes ==
  /\ flag \in [Flags -> BOOLEAN] /\ accepted \in 0..MaxMsgs
  /\ overrun \in BOOLEAN /\ torn \in BOOLEAN

\* Every field keeps its type. Num is not bounded by the queue's length.
TypeOK == QueueTypes /\ CallTypes /\ ThreadTypes /\ HistTypes

Broken == overrun \/ torn
Slot(i) == (QHead + i) % MAX_LEN_OF_MLME_QUEUE
Content(e) == IF e.Occupied /\ e.len = 1 THEN e.msg ELSE 0

(***************************************************************************)
(* The ring is the queue the state machines rely on: the Num slots from    *)
(* Head on hold the messages waiting, whole and in order, and the element  *)
(* a handler works on does not change under it, until a message goes into  *)
(* a slot in use or MlmeQueueInit meets a message coming in.               *)
(***************************************************************************)
Fifo == INSTANCE MlmeFifo WITH
  Messages <- 1..MaxMsgs,
  None <- NoSlot,
  queue <- [i \in 1..Num |-> Content(Entry[Slot(i - 1)])],
  taken <- IF pc = "handle" THEN Entry[Elem].msg ELSE NoSlot,
  broken <- Broken
FifoSpec == Fifo!Spec

\* A message is put over another only in a queue that is full, counting the
\* element being handled: Occupied and Num do not part while the thread lives
\* and MlmeQueueInit meets nothing.
OverrunOnlyWhenFull ==
  [][overrun' /\ ~overrun /\ ~torn' /\ pc # "exited" => Num >= MAX_LEN_OF_MLME_QUEUE - 1]_vars

IsWaiting(m) == \E i \in 0..Num - 1 : Entry[Slot(i)].msg = m

\* Nothing is owed while the driver is halted or suspended, or while the thread
\* sleeps and the timer that wakes it is quiet.
Paused ==
  \/ \E f \in {"halt", "suspend", "pm"} : flag[f]
  \/ flag["quiet"] /\ pc = "wait" /\ ~kthread_running

\* A message accepted is taken up, also when its sender did not wake the thread or
\* the wake-up was used up by a suspended thread; with the radio off only if
\* somebody else wakes the thread.
Handled ==
  \A m \in 1..MaxMsgs : IsWaiting(m) ~> (~IsWaiting(m) \/ Broken \/ Paused)
=============================================================================
