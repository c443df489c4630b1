---------------------------- MODULE KHardwareTimer ----------------------------
(***************************************************************************)
(* KHardwareTimer and KHardwareTimerBase: the tree of timer tasks, the     *)
(* task that is next, and the one CoreTiming event that stands for the     *)
(* timer's interrupt.  The kernel registers and cancels tasks under the    *)
(* scheduler lock.  CoreTiming's thread takes a due event out of its queue *)
(* and then calls DoTask, which waits for that lock: between the two the   *)
(* kernel may register, cancel and reprogram the interrupt.                *)
(***************************************************************************)
EXTENDS Integers

CONSTANTS
    Tasks,          \* the KTimerTasks; every KThread is one
    Timeouts,       \* the timeouts KScopedSchedulerLockAndSleep may be given
    MaxNow,         \* bound on the clock
    MaxS64          \* the largest s64

Null == "null"

ASSUME TimerAssumption ==
    /\ MaxS64 \in Nat /\ MaxNow \in 1..(MaxS64 - 1)
    /\ Null \notin Tasks
    /\ Timeouts \subseteq 1..MaxS64

VARIABLES
    now,            \* GetTick()
    tree,           \* m_task_tree
    time,           \* KTimerTask::m_time
    nextTask,       \* m_next_task
    wakeup,         \* m_wakeup_time
    scheduled,      \* times of the timer's events in CoreTiming's queue
    firing,         \* CoreTiming has taken the event and calls DoTask
    curTime         \* the tick DoTask is handling, Idle outside of it

vars == <<now, tree, time, nextTask, wakeup, scheduled, firing, curTime>>

Idle == 0
Disabled == MaxS64

\* Addition of two s64 as the build does it.
Plus(a, b) == IF a + b > MaxS64 THEN a + b - 2 * (MaxS64 + 1) ELSE a + b

Init ==
    /\ now = 1
    /\ tree = {}
    /\ time = [t \in Tasks |-> 0]
    /\ nextTask = Null
    /\ wakeup = Disabled
    /\ scheduled = {}
    /\ firing = FALSE
    /\ curTime = Idle

\* Neither DoTask nor anybody else holds the scheduler lock.
LockFree == curTime = Idle

(***************************************************************************)
(* The interrupt.  DisableInterrupt unschedules without waiting for a      *)
(* callback that is running.                                               *)
(***************************************************************************)
DisableInterrupt == scheduled' = {} /\ wakeup' = Disabled

EnableInterrupt(wakeupTime) == scheduled' = {wakeupTime} /\ wakeup' = wakeupTime

(***************************************************************************)
(* RegisterTask and CancelTask.                                            *)
(***************************************************************************)

\* Mutant: the interrupt is never moved to an earlier time.
RegisterTaskLate(t, timeout) ==
    LET taskTime == Plus(now, timeout)
        isNext == nextTask = Null \/ time[nextTask] > taskTime
    IN  /\ LockFree
        /\ t \notin tree
        /\ time' = [time EXCEPT ![t] = taskTime]
        /\ tree' = tree \cup {t}
        /\ nextTask' = IF isNext THEN t ELSE nextTask
        /\ IF nextTask = Null THEN EnableInterrupt(taskTime) ELSE UNCHANGED <<scheduled, wakeup>>
        /\ UNCHANGED <<now, firing, curTime>>

\* Mutant: the next task is replaced whatever its time.
RegisterTaskAsNext(t, timeout) ==
    LET taskTime == Plus(now, timeout)
    IN  /\ LockFree
        /\ t \notin tree
        /\ time' = [time EXCEPT ![t] = taskTime]
        /\ tree' = tree \cup {t}
        /\ nextTask' = t
        /\ IF taskTime <= wakeup THEN EnableInterrupt(taskTime) ELSE UNCHANGED <<scheduled, wakeup>>
        /\ UNCHANGED <<now, firing, curTime>>

\* RegisterTask with RegisterAbsoluteTaskImpl, by a thread about to sleep.
RegisterTask(t, timeout) ==
    LET taskTime == Plus(now, timeout)
        isNext == nextTask = Null \/ time[nextTask] > taskTime
    IN  /\ LockFree
        /\ t \notin tree
        /\ time' = [time EXCEPT ![t] = taskTime]
        /\ tree' = tree \cup {t}
        /\ nextTask' = IF isNext THEN t ELSE nextTask
        /\ IF isNext /\ taskTime <= wakeup
           THEN EnableInterrupt(taskTime)
           ELSE UNCHANGED <<scheduled, wakeup>>
        /\ UNCHANGED <<now, firing, curTime>>

\* The tasks that may follow t in the tree, which is ordered by time.
Successors(t) ==
    {u \in tree \ {t} : /\ time[u] >= time[t]
                        /\ \A v \in tree \ {t} : time[v] >= time[t] => time[u] <= time[v]}

\* RemoveTaskFromTree.
RemoveTaskFromTree(t) ==
    /\ tree' = tree \ {t}
    /\ time' = [time EXCEPT ![t] = 0]
    /\ \/ /\ nextTask # t
          /\ nextTask' = nextTask
       \/ /\ nextTask = t
          /\ Successors(t) = {}
          /\ nextTask' = Null
       \/ /\ nextTask = t
          /\ nextTask' \in Successors(t)

\* CancelTask, called when a wait ends before its timeout.  The interrupt stays
\* programmed.
CancelTask(t) ==
    /\ LockFree
    /\ time[t] > 0
    /\ RemoveTaskFromTree(t)
    /\ UNCHANGED <<now, wakeup, scheduled, firing, curTime>>

(***************************************************************************)
(* CoreTiming and DoTask.                                                  *)
(***************************************************************************)

\* CoreTiming::Advance takes a due event out of the queue.
Advance ==
    /\ ~firing
    /\ \E w \in scheduled : w <= now /\ scheduled' = scheduled \ {w}
    /\ firing' = TRUE
    /\ UNCHANGED <<now, tree, time, nextTask, wakeup, curTime>>

\* DoTask takes the locks, disables the interrupt and reads the clock.  It ignores
\* the event if the interrupt is disabled, which InterruptCoversNextTask rules out.
DoTaskBegin ==
    /\ firing
    /\ LockFree
    /\ wakeup # Disabled
    /\ DisableInterrupt
    /\ curTime' = now
    /\ UNCHANGED <<now, tree, time, nextTask, firing>>

\* One round of DoInterruptTaskImpl: the task is removed and its OnTimer called.
DoInterruptTask ==
    /\ curTime # Idle
    /\ nextTask # Null
    /\ time[nextTask] <= curTime
    /\ RemoveTaskFromTree(nextTask)
    /\ UNCHANGED <<now, wakeup, scheduled, firing, curTime>>

\* Mutant: the interrupt is not enabled again for the tasks that remain.
DoTaskEndDisabled ==
    /\ curTime # Idle
    /\ ~(nextTask # Null /\ time[nextTask] <= curTime)
    /\ curTime' = Idle
    /\ firing' = FALSE
    /\ UNCHANGED <<now, tree, time, nextTask, wakeup, scheduled>>

\* Mutant: one interrupt handles one task.
DoTaskEndEarly ==
    /\ curTime # Idle
    /\ IF nextTask # Null THEN EnableInterrupt(time[nextTask]) ELSE UNCHANGED <<scheduled, wakeup>>
    /\ curTime' = Idle
    /\ firing' = FALSE
    /\ UNCHANGED <<now, tree, time, nextTask>>

\* DoInterruptTaskImpl returns 0 or the time of the next task, DoTask enables the
\* interrupt for it, and the callback returns to CoreTiming.
DoTaskEnd ==
    /\ curTime # Idle
    /\ \/ nextTask = Null /\ UNCHANGED <<scheduled, wakeup>>
       \/ /\ nextTask # Null
          /\ time[nextTask] > curTime
          /\ IF 0 < time[nextTask] /\ time[nextTask] <= wakeup
             THEN EnableInterrupt(time[nextTask])
             ELSE UNCHANGED <<scheduled, wakeup>>
    /\ curTime' = Idle
    /\ firing' = FALSE
    /\ UNCHANGED <<now, tree, time, nextTask>>

\* The clock does not wait for anybody.
Tick ==
    /\ now < MaxNow
    /\ now' = now + 1
    /\ UNCHANGED <<tree, time, nextTask, wakeup, scheduled, firing, curTime>>

TimerThread == Advance \/ DoTaskBegin \/ DoInterruptTask \/ DoTaskEnd

Next ==
    \/ \E t \in Tasks : CancelTask(t) \/ \E timeout \in Timeouts : RegisterTask(t, timeout)
    \/ TimerThread
    \/ Tick

Spec == Init /\ [][Next]_vars

\* CoreTiming's thread runs and the clock advances.
FairSpec == Spec /\ WF_vars(TimerThread) /\ WF_vars(Tick)

(***************************************************************************)
(* Properties.                                                             *)
(***************************************************************************)

S64 == -(MaxS64 + 1)..MaxS64

TypeOK ==
    /\ now \in 1..MaxNow
    /\ tree \subseteq Tasks
    /\ time \in [Tasks -> S64]
    /\ nextTask \in Tasks \cup {Null}
    /\ wakeup \in S64
    /\ scheduled \subseteq S64
    /\ firing \in BOOLEAN
    /\ curTime \in Nat

\* The assertion of RegisterAbsoluteTaskImpl, ASSERT(task_time > 0): the time of
\* a task in the tree is positive, which is also how CancelTask tells that a task
\* is in the tree.
TaskTimePositive == \A t \in Tasks : t \in tree <=> time[t] > 0

\* m_next_task caches the first task of the tree: registering in any order,
\* cancelling any task and running the due ones never leave it stale.
NextTaskIsEarliest ==
    /\ nextTask = Null <=> tree = {}
    /\ nextTask # Null => nextTask \in tree /\ \A t \in tree : time[nextTask] <= time[t]

\* While there are tasks and DoTask is not at work, an interrupt is due no later
\* than the first of them: its event is in CoreTiming's queue or has just been
\* taken out of it.  No other event of the timer is ever left in the queue, and an
\* event that was taken out finds the interrupt enabled when DoTask gets the lock.
InterruptCoversNextTask ==
    /\ (LockFree /\ tree # {}) =>
          /\ wakeup # Disabled
          /\ wakeup <= time[nextTask]
          /\ wakeup \in scheduled \/ firing
    /\ scheduled \subseteq {wakeup} \ {Disabled}
    /\ (LockFree /\ firing) => wakeup # Disabled

\* When DoTask returns, no task that was due when it read the clock is left.
NoDueTaskLeft ==
    [][(curTime # Idle /\ curTime' = Idle) => \A t \in tree' : time'[t] > curTime]_vars

\* The clock plus a timeout fits into an s64.
NoOverflow == \A timeout \in Timeouts : MaxNow + timeout < MaxS64

Abstract == INSTANCE KTimerTasks WITH deadline <- time

\* KHardwareTimer implements KTimerTasks: a task runs once, at or after its
\* deadline, and a due task is run eventually.
ImplementsTimerTasks == Abstract!Spec

=============================================================================
