------------------------------- MODULE TimerQ -------------------------------
(***************************************************************************)
(* The timer queue: kernel timers expire in interrupt context, where the   *)
(* handlers may not run, so the expired timer is linked into TimerQ and    *)
(* the thread RtmpTimerTask calls its handler.                             *)
(*                                                                         *)
(* Four kinds of steps interleave: the kernel's callback of a timer (one   *)
(* at a time for each timer), the thread, the contexts that set, modify,   *)
(* cancel and release timers, and the shutdown. TimerQLock guards the two  *)
(* linked lists; TimerSemLock the operations on timers, but neither the    *)
(* thread nor the callbacks take it.                                       *)
(***************************************************************************)
EXTENDS Integers, FiniteSets

CONSTANTS
  Timers,         \* RALINK_TIMER_STRUCTs
  Periodic,       \* those of PeriodicType
  Nodes,          \* the TIMER_QUEUE_SIZE_MAX entries of pTimerQPoll
  Ctx,            \* contexts that operate on timers
  NULL,
  MaxOps          \* bound: operations on timers

ASSUME TimerQAssumption ==
  /\ Periodic \subseteq Timers
  /\ IsFiniteSet(Nodes) /\ Nodes # {}
  /\ NULL \notin Timers \union Nodes \union Ctx
  /\ MaxOps \in Nat

VARIABLES
  Valid, State, Repeat,           \* RALINK_TIMER_STRUCT
  armed,                          \* timer_pending(TimerObj)
  cb,                             \* where the timer's callback is
  status,                         \* TimerQ.status: "inited" or "stopped"
  pQHead, pQTail, pQPollFreeList, \* TimerQ
  pNext, pRaTimer,                \* RTMP_TIMER_TASK_ENTRY
  kthread_running,                \* wake-up flag of the thread
  kthread_stop,                   \* has the thread been asked to stop?
  pc, pTimer,                     \* RtmpTimerQHandle: place and local variable
  TimerSemLock,                   \* its holder between steps
  mpc, arg, pCancelled,           \* the operation of each context
  halt,                           \* fRTMP_ADAPTER_HALT_IN_PROGRESS
  cancelled,                      \* history: cancelled for good (see CancelledStays)
  taken,                          \* history: did this turn of the loop take an entry?
  ops

timers == <<Valid, State, Repeat>>
lists  == <<pQHead, pQTail, pQPollFreeList, pNext, pRaTimer>>
task   == <<pc, pTimer, taken>>
mgr    == <<mpc, arg, pCancelled>>
stop   == <<status, kthread_stop, halt>>
vars   == <<timers, armed, cb, lists, kthread_running, task, TimerSemLock, mgr, stop, cancelled, ops>>

\* The order in which RtmpTimerQInit links the pool into the free list.
PoolOrder ==
  CHOOSE order \in [1..Cardinality(Nodes) -> Nodes] :
    \A i, j \in DOMAIN order : order[i] = order[j] => i = j
PlaceOf(n) == CHOOSE i \in DOMAIN PoolOrder : PoolOrder[i] = n

Init ==
  /\ Valid = [t \in Timers |-> TRUE]
  /\ State = [t \in Timers |-> FALSE] /\ Repeat = [t \in Timers |-> FALSE]
  /\ armed = [t \in Timers |-> FALSE] /\ cb = [t \in Timers |-> "no"]
  /\ status = "inited"
  /\ pQHead = NULL /\ pQTail = NULL /\ pQPollFreeList = PoolOrder[1]
  /\ pNext = [n \in Nodes |-> IF PlaceOf(n) = Cardinality(Nodes) THEN NULL
                              ELSE PoolOrder[PlaceOf(n) + 1]]
  /\ pRaTimer = [n \in Nodes |-> NULL]
  /\ kthread_running = FALSE /\ kthread_stop = FALSE
  /\ pc = "wait" /\ pTimer = NULL
  /\ TimerSemLock = NULL
  /\ mpc = [m \in Ctx |-> "idle"] /\ arg = [m \in Ctx |-> NULL]
  /\ pCancelled = [m \in Ctx |-> FALSE]
  /\ halt = FALSE
  /\ cancelled = [t \in Timers |-> FALSE] /\ taken = FALSE
  /\ ops = 0

Operation == ops < MaxOps /\ ops' = ops + 1

-----------------------------------------------------------------------------
(***************************************************************************)
(* The kernel's timer, and the callback that BUILD_TIMER_FUNCTION builds.  *)
(***************************************************************************)

\* status & RTMP_TASK_CAN_DO_INSERT
CanDoInsert == status = "inited"

Expire(t) ==
  /\ armed[t] /\ cb[t] = "no"
  /\ armed' = [armed EXCEPT ![t] = FALSE]
  /\ cb' = [cb EXCEPT ![t] = "insert"]
  /\ UNCHANGED <<timers, lists, kthread_running, task, TimerSemLock, mgr, stop, cancelled, ops>>

\* RtmpTimerQInsert under TimerQLock: a free node is linked at the tail ...
RtmpTimerQInsert(t) ==
  /\ cb[t] = "insert" /\ CanDoInsert /\ pQPollFreeList # NULL
  /\ LET n == pQPollFreeList
     IN /\ pQPollFreeList' = pNext[n]
        /\ pRaTimer' = [pRaTimer EXCEPT ![n] = t]
        /\ pNext' = [x \in Nodes |-> IF x = n THEN NULL ELSE IF x = pQTail THEN n ELSE pNext[x]]
        /\ pQTail' = n
        /\ pQHead' = IF pQHead = NULL THEN n ELSE pQHead
  /\ cb' = [cb EXCEPT ![t] = "wake"]
  /\ UNCHANGED <<timers, armed, kthread_running, task, TimerSemLock, mgr, stop, cancelled, ops>>

\* ... and the thread is woken after the unlock.
WakeUp(t) ==
  /\ cb[t] = "wake"
  /\ kthread_running' = TRUE
  /\ cb' = [cb EXCEPT ![t] = "no"]
  /\ UNCHANGED <<timers, armed, lists, task, TimerSemLock, mgr, stop, cancelled, ops>>

InsertRefused(t) ==
  /\ cb[t] = "insert" /\ (~CanDoInsert \/ pQPollFreeList = NULL)
  /\ cb' = [cb EXCEPT ![t] = "full"]
  /\ UNCHANGED <<timers, armed, lists, kthread_running, task, TimerSemLock, mgr, stop, cancelled, ops>>

\* Mutant of TryLater: an expiry that finds no node is forgotten.
TryLaterNever == FALSE

\* Is the timer started again when it could not be queued?
TryLater == CanDoInsert

AddAgain(t) ==
  /\ cb[t] = "full"
  /\ armed' = [armed EXCEPT ![t] = @ \/ TryLater]
  /\ cb' = [cb EXCEPT ![t] = "no"]
  /\ UNCHANGED <<timers, lists, kthread_running, task, TimerSemLock, mgr, stop, cancelled, ops>>

Callback(t) == RtmpTimerQInsert(t) \/ WakeUp(t) \/ InsertRefused(t) \/ AddAgain(t)

-----------------------------------------------------------------------------
(***************************************************************************)
(* The operations on timers.                                               *)
(***************************************************************************)
Armed(t) ==
  /\ armed' = [armed EXCEPT ![t] = TRUE]
  /\ State' = [State EXCEPT ![t] = FALSE]
  /\ cancelled' = [cancelled EXCEPT ![t] = FALSE]

\* RTMPSetTimer, in one go under TimerSemLock.
SetTimer(t) ==
  /\ TimerSemLock = NULL /\ Valid[t] /\ ~halt
  /\ Armed(t)
  /\ Repeat' = [Repeat EXCEPT ![t] = t \in Periodic]

RTMPSetTimer(m, t) ==
  /\ mpc[m] = "idle"
  /\ Operation
  /\ SetTimer(t)
  /\ UNCHANGED <<Valid, cb, lists, kthread_running, task, TimerSemLock, mgr, stop>>

RTMPInitTimer(m, t) ==
  /\ mpc[m] = "idle" /\ TimerSemLock = NULL /\ ~Valid[t]
  /\ Operation
  /\ Valid' = [Valid EXCEPT ![t] = TRUE]
  /\ State' = [State EXCEPT ![t] = FALSE]
  /\ UNCHANGED <<Repeat, armed, cb, lists, kthread_running, task, TimerSemLock, mgr, stop, cancelled>>

\* RTMPModTimer; no caller modifies a periodic timer.
RTMPModTimer(m, t) ==
  /\ mpc[m] = "idle" /\ TimerSemLock = NULL /\ Valid[t] /\ t \notin Periodic
  /\ Operation
  /\ Armed(t)
  /\ UNCHANGED <<Valid, Repeat, cb, lists, kthread_running, task, TimerSemLock, mgr, stop>>

\* RTMPCancelTimer and RTMPReleaseTimer begin alike, but RTMPReleaseTimer keeps
\* TimerSemLock to its end.
Stop(m, t, release) ==
  /\ mpc[m] = "idle" /\ TimerSemLock = NULL /\ Valid[t]
  /\ Operation
  /\ TimerSemLock' = IF release THEN m ELSE NULL
  /\ Repeat' = [Repeat EXCEPT ![t] = @ /\ State[t]]
  /\ mpc' = [mpc EXCEPT ![m] = "del"] /\ arg' = [arg EXCEPT ![m] = t]
  /\ UNCHANGED <<Valid, State, armed, cb, lists, kthread_running, task, pCancelled, stop, cancelled>>

\* RTMP_OS_Del_Timer: a timer that is not pending counts as cancelled, even when
\* its callback is running; for one that is pending del_timer_sync waits until
\* the callback has ended.
Deleted(m, l, c) ==
  /\ armed' = [armed EXCEPT ![arg[m]] = IF l = "remove" THEN FALSE ELSE @]
  /\ mpc' = [mpc EXCEPT ![m] = l]
  /\ pCancelled' = [pCancelled EXCEPT ![m] = c]
  /\ UNCHANGED <<timers, cb, lists, kthread_running, task, TimerSemLock, arg, stop, cancelled, ops>>

DelTimer(m) ==
  /\ mpc[m] = "del"
  /\ IF armed[arg[m]] /\ cb[arg[m]] # "no" THEN Deleted(m, "sync", FALSE)
     ELSE Deleted(m, "remove", TRUE)

DelTimerSync(m) ==
  /\ mpc[m] = "sync" /\ cb[arg[m]] = "no"
  /\ Deleted(m, "remove", armed[arg[m]])

\* The entries of the queue, in order: w[k] is the k-th one, or NULL.
Walk(h) ==
  LET w[k \in 0..Cardinality(Nodes)] ==
        IF k = 0 THEN h ELSE IF w[k - 1] = NULL THEN NULL ELSE pNext[w[k - 1]]
  IN w

\* The places in the queue that hold t.
Entries(t) ==
  LET w == Walk(pQHead) IN {k \in DOMAIN w : w[k] # NULL /\ pRaTimer[w[k]] = t}

\* Mutant of NewTail: the tail is not moved back.
NewTailKept(n, prev) == pQTail

\* pQTail once n is unlinked, prev being the entry before it.
NewTail(n, prev) == IF n = pQTail THEN prev ELSE pQTail

\* Mutant of RtmpTimerQRemove: the queue is not searched.
RemoveNothing(t) == UNCHANGED lists

\* RtmpTimerQRemove under TimerQLock: the first entry of the timer is unlinked
\* and returned to the free list.
RtmpTimerQRemove(t) ==
  LET w    == Walk(pQHead)
      hits == Entries(t)
  IN IF hits = {} THEN UNCHANGED lists
     ELSE LET k    == CHOOSE k \in hits : \A j \in hits : k <= j
              n    == w[k]
              prev == IF k = 0 THEN NULL ELSE w[k - 1]
          IN /\ pQHead' = IF n = pQHead THEN pNext[n] ELSE pQHead
             /\ pQTail' = NewTail(n, prev)
             /\ pNext' = [x \in Nodes |-> IF x = n THEN pQPollFreeList
                                          ELSE IF x = prev THEN pNext[n] ELSE pNext[x]]
             /\ pQPollFreeList' = n
             /\ UNCHANGED pRaTimer

\* The thread holds t and will call its handler, or start it again.
Busy(t) == pTimer = t /\ pc \in {"run", "rearm", "add"}

\* The end of RTMPCancelTimer and RTMPReleaseTimer, under TimerSemLock.
Remove(m) ==
  /\ mpc[m] = "remove" /\ TimerSemLock \in {NULL, m}
  /\ State' = [State EXCEPT ![arg[m]] = @ \/ pCancelled[m]]
  /\ RtmpTimerQRemove(arg[m])
  /\ Valid' = [Valid EXCEPT ![arg[m]] = @ /\ TimerSemLock # m]
  /\ TimerSemLock' = NULL
  /\ mpc' = [mpc EXCEPT ![m] = "idle"]
  /\ cancelled' = [cancelled EXCEPT ![arg[m]] =
       ~(\/ Cardinality(Entries(arg[m])) > 1 \/ Busy(arg[m])
         \/ Repeat[arg[m]] \/ armed[arg[m]] \/ cb[arg[m]] # "no")]
  /\ UNCHANGED <<Repeat, armed, cb, kthread_running, task, arg, pCancelled, stop, ops>>

CtxStep(m) == DelTimer(m) \/ DelTimerSync(m) \/ Remove(m)

-----------------------------------------------------------------------------
(***************************************************************************)
(* The thread: RtmpTimerQHandle.                                           *)
(***************************************************************************)

\* Mutant of MayWake: kthread_should_stop() is not part of the wait condition.
MayWakeOnly == kthread_running

\* The condition of wait_event_interruptible.
MayWake == kthread_running \/ kthread_stop

TaskWait ==
  /\ pc = "wait" /\ MayWake
  /\ pc' = "clear"
  /\ UNCHANGED <<timers, armed, cb, lists, kthread_running, pTimer, taken, TimerSemLock, mgr, stop,
                 cancelled, ops>>

\* The flag is cleared after the wait; a stopped thread or queue ends the loop.
TaskClear ==
  /\ pc = "clear"
  /\ kthread_running' = FALSE
  /\ pc' = IF kthread_stop \/ status = "stopped" THEN "exited" ELSE "check"
  /\ halt' = (halt \/ kthread_stop)
  /\ UNCHANGED <<timers, armed, cb, lists, pTimer, taken, TimerSemLock, mgr, status, kthread_stop,
                 cancelled, ops>>

\* while (pQHead), read without the lock; pTimer is reset before the next wait.
TaskCheck ==
  /\ pc = "check"
  /\ IF pQHead # NULL THEN pc' = "take" /\ UNCHANGED pTimer
     ELSE pc' = "wait" /\ pTimer' = NULL
  /\ UNCHANGED <<timers, armed, cb, lists, kthread_running, taken, TimerSemLock, mgr, stop,
                 cancelled, ops>>

\* Mutant of Turn: the NULL test is missing.
TurnAlways(t) == "run"

\* if (pTimer) ...
Turn(t) == IF t # NULL THEN "run" ELSE "check"

\* Under TimerQLock: the head, if there still is one, goes to the free list.
TaskTake ==
  /\ pc = "take"
  /\ IF pQHead = NULL THEN UNCHANGED <<lists, pTimer>>
     ELSE /\ pTimer' = pRaTimer[pQHead]
          /\ pQHead' = pNext[pQHead]
          /\ pQTail' = NewTail(pQHead, NULL)
          /\ pNext' = [pNext EXCEPT ![pQHead] = pQPollFreeList]
          /\ pQPollFreeList' = pQHead
          /\ UNCHANGED pRaTimer
  /\ taken' = (pQHead # NULL)
  /\ pc' = Turn(pTimer')
  /\ UNCHANGED <<timers, armed, cb, kthread_running, TimerSemLock, mgr, stop, cancelled, ops>>

\* The handler; it may set a timer that is not periodic.
TaskRun ==
  /\ pc = "run"
  /\ \/ UNCHANGED <<armed, State, Repeat, cancelled, ops>>
     \/ Operation /\ \E t \in Timers \ Periodic : SetTimer(t)
  /\ pc' = "rearm"
  /\ UNCHANGED <<Valid, cb, lists, kthread_running, pTimer, taken, TimerSemLock, mgr, stop>>

\* A periodic timer is started again: the test, then RTMP_OS_Add_Timer.
TaskRearm ==
  /\ pc = "rearm"
  /\ pc' = IF Repeat[pTimer] /\ ~State[pTimer] THEN "add" ELSE "check"
  /\ UNCHANGED <<timers, armed, cb, lists, kthread_running, pTimer, taken, TimerSemLock, mgr, stop,
                 cancelled, ops>>

TaskAdd ==
  /\ pc = "add"
  /\ armed' = [armed EXCEPT ![pTimer] = TRUE]
  /\ pc' = "check"
  /\ UNCHANGED <<timers, cb, lists, kthread_running, pTimer, taken, TimerSemLock, mgr, stop,
                 cancelled, ops>>

TaskStep == TaskWait \/ TaskClear \/ TaskCheck \/ TaskTake \/ TaskRun \/ TaskRearm \/ TaskAdd

-----------------------------------------------------------------------------
(***************************************************************************)
(* Closing the interface: the halt flag, then RtmpMgmtTaskExit.            *)
(***************************************************************************)
Halt ==
  /\ ~halt
  /\ halt' = TRUE
  /\ UNCHANGED <<timers, armed, cb, lists, kthread_running, task, TimerSemLock, mgr, status,
                 kthread_stop, cancelled, ops>>

\* The pool is freed and the queue closed, under TimerQLock.
RtmpTimerQExit ==
  /\ halt /\ status = "inited"
  /\ status' = "stopped"
  /\ pQHead' = NULL /\ pQTail' = NULL /\ pQPollFreeList' = NULL
  /\ UNCHANGED <<timers, armed, cb, pNext, pRaTimer, kthread_running, task, TimerSemLock, mgr,
                 kthread_stop, halt, cancelled, ops>>

\* RtmpOSTaskKill: kthread_stop, which waits for the thread.
TaskKill ==
  /\ status = "stopped" /\ ~kthread_stop
  /\ kthread_stop' = TRUE
  /\ UNCHANGED <<timers, armed, cb, lists, kthread_running, task, TimerSemLock, mgr, status, halt,
                 cancelled, ops>>

-----------------------------------------------------------------------------
Next ==
  \/ \E t \in Timers : Expire(t) \/ Callback(t)
  \/ \E m \in Ctx, t \in Timers :
       \/ RTMPSetTimer(m, t) \/ RTMPInitTimer(m, t) \/ RTMPModTimer(m, t)
       \/ \E release \in BOOLEAN : Stop(m, t, release)
  \/ \E m \in Ctx : CtxStep(m)
  \/ TaskStep
  \/ Halt \/ RtmpTimerQExit \/ TaskKill

Spec == Init /\ [][Next]_vars

(***************************************************************************)
(* Fairness: a pending timer expires, callbacks, the thread and operations *)
(* that have begun go on, and a shutdown that has begun is finished.       *)
(***************************************************************************)
Fairness ==
  /\ \A t \in Timers : WF_vars(Expire(t)) /\ WF_vars(Callback(t))
  /\ \A m \in Ctx : WF_vars(CtxStep(m))
  /\ WF_vars(TaskStep)
  /\ WF_vars(RtmpTimerQExit) /\ WF_vars(TaskKill)

FairSpec == Spec /\ Fairness

-----------------------------------------------------------------------------
(***************************************************************************)
(* Properties.                                                             *)
(***************************************************************************)

\* Every field keeps its type.
TypeOK ==
  /\ {Valid, State, Repeat, armed, cancelled} \subseteq [Timers -> BOOLEAN]
  /\ cb \in [Timers -> {"no", "insert", "wake", "full"}]
  /\ status \in {"inited", "stopped"}
  /\ {pQHead, pQTail, pQPollFreeList} \subseteq Nodes \union {NULL}
  /\ pNext \in [Nodes -> Nodes \union {NULL}] /\ pRaTimer \in [Nodes -> Timers \union {NULL}]
  /\ {kthread_running, kthread_stop, halt, taken} \subseteq BOOLEAN
  /\ pc \in {"wait", "clear", "check", "take", "run", "rearm", "add", "exited"}
  /\ pTimer \in Timers \union {NULL} /\ (pc \in {"run", "rearm", "add"} => pTimer # NULL)
  /\ TimerSemLock \in Ctx \union {NULL}
  /\ mpc \in [Ctx -> {"idle", "del", "sync", "remove"}]
  /\ arg \in [Ctx -> Timers \union {NULL}]
  /\ pCancelled \in [Ctx -> BOOLEAN]

InList(h) == {Walk(h)[k] : k \in 0..Cardinality(Nodes)} \ {NULL}

\* While the queue is open, the queue and the free list share out the nodes: no
\* node is lost or on both lists, both lists end, and pQTail is the last entry
\* of the queue. RtmpTimerQInsert, RtmpTimerQRemove and RtmpTimerQHandle keep it.
ListsSound ==
  status = "inited" =>
    /\ Walk(pQHead)[Cardinality(Nodes)] = NULL
    /\ Walk(pQPollFreeList)[Cardinality(Nodes)] = NULL
    /\ InList(pQHead) \intersect InList(pQPollFreeList) = {}
    /\ InList(pQHead) \union InList(pQPollFreeList) = Nodes
    /\ IF pQHead = NULL THEN pQTail = NULL
       ELSE pQTail \in InList(pQHead) /\ pNext[pQTail] = NULL

\* A timer cancelled for good has nothing left that could run it: it is not
\* pending, not queued, and the thread holds it only as the stale pTimer of an
\* earlier turn.
CancelHolds ==
  \A t \in Timers : cancelled[t] =>
    ~armed[t] /\ cb[t] = "no" /\ Entries(t) = {} /\ (Busy(t) => ~taken)

\* A periodic timer that is set and not cancelled has its handler called again
\* and again while the queue is open: no wake-up, no expiry on a full queue and
\* no re-arming is lost.
PeriodicRuns ==
  \A t \in Timers : []<>(~Repeat[t] \/ State[t] \/ halt \/ (pc = "run" /\ pTimer = t))

\* kthread_stop in RtmpMgmtTaskExit returns: the thread ends, whatever timers
\* are pending and whatever it was doing.
TaskEnds == kthread_stop ~> pc = "exited"

\* RTMPCancelTimer: "remove it if it's still waiting for execution": the handler
\* of a timer is not called after the timer has been cancelled for good, that is
\* with no callback running, not set again meanwhile, no further entry queued
\* and the handler not about to be called.
CancelledStays == [][\A t \in Timers : pc = "run" /\ pTimer = t /\ pc' # pc => ~cancelled[t]]_vars
=============================================================================
