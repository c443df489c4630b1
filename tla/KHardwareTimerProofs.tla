------------------------- MODULE KHardwareTimerProofs -------------------------
(***************************************************************************)
(* Proofs about KHardwareTimer, for any set of tasks, any clock and any    *)
(* timeouts that do not overflow an s64.                                   *)
(***************************************************************************)
EXTENDS KHardwareTimer, WellFoundedInduction, TLAPS

\* While DoTask is at work the interrupt is disabled and its event is not queued.
DisabledDuringDoTask ==
    ~LockFree => firing /\ wakeup = Disabled /\ scheduled = {} /\ curTime \in 1..now

\* An enabled interrupt has its event, whether or not there are tasks.
InterruptPending == (LockFree /\ wakeup # Disabled) => wakeup \in scheduled \/ firing

IInv ==
    /\ TypeOK
    /\ TaskTimePositive
    /\ NextTaskIsEarliest
    /\ InterruptCoversNextTask
    /\ InterruptPending
    /\ DisabledDuringDoTask
    /\ time \in [Tasks -> 0..(MaxS64 - 1)]

\* A non-empty set of naturals has a least element.
LEMMA EarliestTime ==
    ASSUME NEW T \in SUBSET Nat, T # {}
    PROVE  \E x \in T : \A y \in T : x <= y
<1>1. \E x \in T : \A y \in T : ~(<<y, x>> \in OpToRel(<, Nat))
  BY NatLessThanWellFounded, WFMin
<1>2. PICK x \in T : \A y \in T : ~(<<y, x>> \in OpToRel(<, Nat))
  BY <1>1
<1>3. \A y \in T : ~(y < x)
  BY <1>2 DEF OpToRel
<1> QED BY <1>3

LEMMA InitIInv ==
    ASSUME Init
    PROVE  IInv
<1> USE DEF Init
<1>1. time \in [Tasks -> 0..(MaxS64 - 1)] /\ time \in [Tasks -> S64]
  BY TimerAssumption DEF S64
<1>2. TypeOK
  <2>1. now \in 1..MaxNow /\ wakeup \in S64
    BY TimerAssumption DEF Disabled, S64
  <2>2. tree \subseteq Tasks /\ nextTask \in Tasks \cup {Null} /\ scheduled \subseteq S64
        /\ firing \in BOOLEAN /\ curTime \in Nat
    BY DEF Idle
  <2> QED BY <1>1, <2>1, <2>2 DEF TypeOK
<1>3. TaskTimePositive
  <2>1. \A t \in Tasks : t \notin tree /\ time[t] = 0
    OBVIOUS
  <2> HIDE DEF Init
  <2>2. ASSUME NEW t \in Tasks PROVE t \in tree <=> time[t] > 0
    <3>1. time[t] \in Int /\ time[t] = 0
      BY <2>1
    <3> QED BY <2>1, <3>1
  <2> QED BY <2>2 DEF TaskTimePositive
<1>4. NextTaskIsEarliest
  BY DEF NextTaskIsEarliest
<1> QED BY <1>1, <1>2, <1>3, <1>4 DEF IInv, InterruptCoversNextTask, InterruptPending,
                                      DisabledDuringDoTask, LockFree

\* If the next task has no successor, it is the only one.
LEMMA NoSuccessor ==
    ASSUME IInv, nextTask \in tree, Successors(nextTask) = {}
    PROVE  tree = {nextTask}
<1> SUFFICES ASSUME tree \ {nextTask} # {} PROVE FALSE
  OBVIOUS
<1> DEFINE others == tree \ {nextTask}
           T == {time[u] : u \in others}
<1>1. \A u \in tree : time[u] \in Nat /\ time[u] >= time[nextTask]
  BY DEF IInv, TypeOK, TaskTimePositive, NextTaskIsEarliest, S64
<1>2. T \in SUBSET Nat /\ T # {}
  BY <1>1
<1>3. PICK x \in T : \A y \in T : x <= y
  <2> HIDE DEF T
  <2> QED BY <1>2, EarliestTime
<1>4. PICK u \in others : x = time[u]
  BY <1>3
<1>5. u \in Successors(nextTask)
  BY <1>1, <1>3, <1>4 DEF Successors
<1> QED BY <1>5

\* Removing a task keeps the tree and its cache in order.
LEMMA RemoveKeepsOrder ==
    ASSUME IInv, NEW t \in tree, RemoveTaskFromTree(t)
    PROVE  /\ tree' \subseteq Tasks /\ time' \in [Tasks -> S64] /\ nextTask' \in Tasks \cup {Null}
           /\ TaskTimePositive'
           /\ NextTaskIsEarliest'
           /\ \A u \in tree' : u \in tree /\ time'[u] = time[u]
           /\ time' \in [Tasks -> 0..(MaxS64 - 1)]
<1> USE DEF IInv, TypeOK
<1>1. tree' = tree \ {t} /\ time' = [time EXCEPT ![t] = 0] /\ t \in Tasks
  BY DEF RemoveTaskFromTree
<1>2. \A u \in tree' : u \in tree /\ u # t /\ time'[u] = time[u]
  BY <1>1
<1>3. time' \in [Tasks -> S64] /\ time' \in [Tasks -> 0..(MaxS64 - 1)]
  BY <1>1, TimerAssumption DEF S64
<1>4. TaskTimePositive'
  BY <1>1 DEF TaskTimePositive, S64
<1>5. CASE nextTask # t
  <2>1. nextTask' = nextTask /\ nextTask \in tree'
    BY <1>1, <1>5 DEF RemoveTaskFromTree, NextTaskIsEarliest
  <2>2. NextTaskIsEarliest'
    BY <1>2, <2>1, TimerAssumption DEF NextTaskIsEarliest
  <2> QED BY <1>1, <1>2, <1>3, <1>4, <2>1, <2>2
<1>6. CASE nextTask = t /\ Successors(t) = {} /\ nextTask' = Null
  <2>1. tree = {t}
    BY <1>6, NoSuccessor
  <2>2. NextTaskIsEarliest'
    BY <1>1, <1>6, <2>1 DEF NextTaskIsEarliest
  <2> QED BY <1>1, <1>2, <1>3, <1>4, <1>6, <2>2
<1>7. CASE nextTask = t /\ nextTask' \in Successors(t)
  <2>1. nextTask' \in tree' /\ \A v \in tree' : time[v] >= time[t] => time[nextTask'] <= time[v]
    BY <1>1, <1>7 DEF Successors
  <2>2. \A v \in tree' : time[v] >= time[t]
    BY <1>2, <1>7 DEF NextTaskIsEarliest, S64
  <2>3. NextTaskIsEarliest'
    BY <1>2, <2>1, <2>2, TimerAssumption DEF NextTaskIsEarliest
  <2> QED BY <1>1, <1>2, <1>3, <1>4, <2>1, <2>3
<1> QED BY <1>5, <1>6, <1>7 DEF RemoveTaskFromTree

LEMMA RegisterTaskIInv ==
    ASSUME IInv, NoOverflow, NEW t \in Tasks, NEW timeout \in Timeouts,
           RegisterTask(t, timeout)
    PROVE  IInv'
<1> DEFINE taskTime == now + timeout
           isNext == nextTask = Null \/ time[nextTask] > taskTime
<1> USE DEF IInv, TypeOK
<1>1. taskTime \in 1..(MaxS64 - 1) /\ Plus(now, timeout) = taskTime /\ taskTime \in S64
  BY TimerAssumption DEF NoOverflow, Plus, S64
<1>2. /\ LockFree /\ LockFree' /\ t \notin tree
      /\ time' = [time EXCEPT ![t] = taskTime] /\ tree' = tree \cup {t}
      /\ nextTask' = (IF isNext THEN t ELSE nextTask)
      /\ now' = now /\ firing' = firing /\ curTime' = curTime
      /\ \/ isNext /\ taskTime <= wakeup /\ scheduled' = {taskTime} /\ wakeup' = taskTime
         \/ ~(isNext /\ taskTime <= wakeup) /\ scheduled' = scheduled /\ wakeup' = wakeup
  BY <1>1 DEF RegisterTask, EnableInterrupt, LockFree
<1> HIDE DEF taskTime
<1>3. TypeOK'
  BY <1>1, <1>2
<1>4. TaskTimePositive' /\ time' \in [Tasks -> 0..(MaxS64 - 1)]
  BY <1>1, <1>2 DEF TaskTimePositive, S64
<1>5. \A u \in tree : time'[u] = time[u] /\ time[u] \in S64
  BY <1>2
<1>6. NextTaskIsEarliest'
  <2>1. CASE isNext
    <3>1. \A u \in tree : taskTime <= time[u]
      BY <2>1, <1>1, <1>5 DEF NextTaskIsEarliest, S64
    <3> QED BY <2>1, <3>1, <1>1, <1>2, <1>5, TimerAssumption DEF NextTaskIsEarliest, S64
  <2>2. CASE ~isNext
    <3>1. nextTask \in tree /\ time[nextTask] <= taskTime
      BY <2>2, <1>1, <1>5 DEF NextTaskIsEarliest, S64
    <3> QED BY <2>2, <3>1, <1>1, <1>2, <1>5, TimerAssumption DEF NextTaskIsEarliest, S64
  <2> QED BY <2>1, <2>2
<1>7. InterruptCoversNextTask'
  <2>1. CASE isNext /\ taskTime <= wakeup
    BY <2>1, <1>1, <1>2 DEF InterruptCoversNextTask, Disabled
  <2>2. CASE isNext /\ ~(taskTime <= wakeup)
    <3>1. wakeup < taskTime /\ wakeup' = wakeup /\ scheduled' = scheduled /\ time'[nextTask'] = taskTime
      BY <2>2, <1>1, <1>2 DEF S64
    <3>2. wakeup # Disabled
      BY <3>1, <1>1 DEF Disabled
    <3>3. wakeup \in scheduled \/ firing
      BY <3>2, <1>2 DEF InterruptPending
    <3> QED BY <3>1, <3>2, <3>3, <1>1, <1>2 DEF InterruptCoversNextTask, S64
  <2>3. CASE ~isNext
    <3>1. nextTask \in tree /\ nextTask' = nextTask /\ time'[nextTask] = time[nextTask]
      BY <2>3, <1>2, <1>5 DEF NextTaskIsEarliest
    <3> QED BY <2>3, <3>1, <1>2 DEF InterruptCoversNextTask
  <2> QED BY <2>1, <2>2, <2>3
<1>8. DisabledDuringDoTask' /\ InterruptPending'
  BY <1>2 DEF DisabledDuringDoTask, InterruptPending
<1> QED BY <1>3, <1>4, <1>6, <1>7, <1>8

LEMMA CancelTaskIInv ==
    ASSUME IInv, NEW t \in Tasks, CancelTask(t)
    PROVE  IInv'
<1>1. t \in tree
  BY DEF CancelTask, IInv, TaskTimePositive
<1>2. RemoveTaskFromTree(t) /\ UNCHANGED <<now, wakeup, scheduled, firing, curTime>>
  BY DEF CancelTask
<1>3. /\ tree' \subseteq Tasks /\ time' \in [Tasks -> S64] /\ nextTask' \in Tasks \cup {Null}
      /\ TaskTimePositive' /\ NextTaskIsEarliest'
      /\ \A u \in tree' : u \in tree /\ time'[u] = time[u]
      /\ time' \in [Tasks -> 0..(MaxS64 - 1)]
  BY <1>1, <1>2, RemoveKeepsOrder
<1>4. TypeOK'
  BY <1>2, <1>3 DEF IInv, TypeOK
<1>5. \A u \in tree : wakeup <= time[u]
  <2>1. LockFree /\ tree # {} /\ wakeup <= time[nextTask]
    BY <1>1 DEF CancelTask, IInv, InterruptCoversNextTask
  <2> QED BY <2>1 DEF IInv, TypeOK, NextTaskIsEarliest, S64
<1>6. InterruptCoversNextTask'
  <2>1. tree' # {} => nextTask' \in tree'
    BY <1>3 DEF NextTaskIsEarliest
  <2> QED BY <1>1, <1>2, <1>3, <1>5, <2>1 DEF IInv, InterruptCoversNextTask, LockFree
<1> QED BY <1>2, <1>3, <1>4, <1>6 DEF IInv, InterruptPending, DisabledDuringDoTask, LockFree

LEMMA DoInterruptTaskIInv ==
    ASSUME IInv, DoInterruptTask
    PROVE  IInv'
<1>1. nextTask \in tree
  BY DEF DoInterruptTask, IInv, NextTaskIsEarliest
<1>2. /\ RemoveTaskFromTree(nextTask) /\ UNCHANGED <<now, wakeup, scheduled, firing, curTime>>
      /\ ~LockFree
  BY DEF DoInterruptTask, LockFree
<1>3. /\ tree' \subseteq Tasks /\ time' \in [Tasks -> S64] /\ nextTask' \in Tasks \cup {Null}
      /\ TaskTimePositive' /\ NextTaskIsEarliest'
      /\ \A u \in tree' : u \in tree /\ time'[u] = time[u]
      /\ time' \in [Tasks -> 0..(MaxS64 - 1)]
  BY <1>1, <1>2, RemoveKeepsOrder
<1>4. TypeOK'
  BY <1>2, <1>3 DEF IInv, TypeOK
<1> QED BY <1>2, <1>3, <1>4 DEF IInv, InterruptCoversNextTask, InterruptPending,
                                DisabledDuringDoTask, LockFree

\* The steps of CoreTiming and DoTask that leave the tree alone, and the clock.
LEMMA OtherIInv ==
    ASSUME IInv,
           Advance \/ DoTaskBegin \/ DoTaskEnd \/ Tick \/ UNCHANGED vars
    PROVE  IInv'
<1> USE DEF IInv, TypeOK, TaskTimePositive, NextTaskIsEarliest, InterruptCoversNextTask,
            InterruptPending, DisabledDuringDoTask, LockFree
<1>1. CASE Advance
  BY <1>1 DEF Advance
<1>2. CASE DoTaskBegin
  BY <1>2, TimerAssumption DEF DoTaskBegin, DisableInterrupt, Idle, Disabled, S64
<1>3. CASE DoTaskEnd
  <2>1. curTime # Idle /\ curTime' = Idle /\ firing' = FALSE /\ UNCHANGED <<now, tree, time, nextTask>>
    BY <1>3 DEF DoTaskEnd
  <2>2. CASE nextTask = Null /\ UNCHANGED <<scheduled, wakeup>>
    BY <2>1, <2>2 DEF Idle
  <2>3. CASE nextTask # Null /\ scheduled' = {time[nextTask]} /\ wakeup' = time[nextTask]
    <3>1. nextTask \in tree /\ tree # {} /\ time[nextTask] \in S64 /\ time[nextTask] # Disabled
      BY <2>3 DEF Disabled
    <3>2. TypeOK'
      BY <2>1, <2>3, <3>1 DEF Idle
    <3>3. TaskTimePositive' /\ NextTaskIsEarliest' /\ time' \in [Tasks -> 0..(MaxS64 - 1)]
      BY <2>1
    <3>4. InterruptCoversNextTask' /\ InterruptPending' /\ DisabledDuringDoTask'
      BY <2>1, <2>3, <3>1 DEF S64
    <3> QED BY <3>2, <3>3, <3>4
  <2>4. nextTask # Null => 0 < time[nextTask] /\ time[nextTask] <= wakeup
    BY <2>1 DEF Disabled, S64
  <2> QED BY <1>3, <2>2, <2>3, <2>4 DEF DoTaskEnd, EnableInterrupt
<1>4. CASE Tick
  <2>1. now' = now + 1 /\ now' \in 1..MaxNow
    BY <1>4, TimerAssumption DEF Tick
  <2>2. UNCHANGED <<tree, time, nextTask, wakeup, scheduled, firing, curTime>>
    BY <1>4 DEF Tick
  <2>3. DisabledDuringDoTask'
    BY <2>1, <2>2
  <2> QED BY <2>1, <2>2, <2>3
<1>5. CASE UNCHANGED vars
  BY <1>5 DEF vars
<1> QED BY <1>1, <1>2, <1>3, <1>4, <1>5

\* The strengthened invariant holds in every reachable state.
THEOREM TimerInvariant ==
    ASSUME NoOverflow
    PROVE  Spec => []IInv
<1>1. IInv /\ [Next]_vars => IInv'
  BY RegisterTaskIInv, CancelTaskIInv, DoInterruptTaskIInv, OtherIInv DEF Next, TimerThread
<1>2. Init => IInv
  BY InitIInv
<1> QED BY <1>1, <1>2, PTL DEF Spec

\* The cache of the first task of the tree is never stale.
THEOREM NextTaskIsEarliestAlways ==
    ASSUME NoOverflow
    PROVE  Spec => []NextTaskIsEarliest
<1>1. IInv => NextTaskIsEarliest
  BY DEF IInv
<1> QED BY <1>1, TimerInvariant, PTL

\* As long as there are tasks, an interrupt is on its way that is not too late.
THEOREM InterruptCoversNextTaskAlways ==
    ASSUME NoOverflow
    PROVE  Spec => []InterruptCoversNextTask
<1>1. IInv => InterruptCoversNextTask
  BY DEF IInv
<1> QED BY <1>1, TimerInvariant, PTL

\* Without overflow the assertion on a task's time holds.
THEOREM TaskTimePositiveAlways ==
    ASSUME NoOverflow
    PROVE  Spec => []TaskTimePositive
<1>1. IInv => TaskTimePositive
  BY DEF IInv
<1> QED BY <1>1, TimerInvariant, PTL

\* DoTask leaves no task behind that was due.
THEOREM NoDueTaskLeftAlways ==
    ASSUME NoOverflow
    PROVE  Spec => NoDueTaskLeft
<1>1. IInv /\ [Next]_vars =>
        [(curTime # Idle /\ curTime' = Idle) => \A t \in tree' : time'[t] > curTime]_vars
  <2> SUFFICES ASSUME IInv, Next, curTime # Idle, curTime' = Idle
               PROVE  \A t \in tree' : time'[t] > curTime
    OBVIOUS
  <2>1. DoTaskEnd
    BY DEF Next, TimerThread, CancelTask, RegisterTask, Advance, DoTaskBegin, DoInterruptTask, Tick,
           LockFree
  <2> QED BY <2>1 DEF DoTaskEnd, IInv, TypeOK, NextTaskIsEarliest, S64
<1> QED BY <1>1, TimerInvariant, PTL DEF Spec, NoDueTaskLeft

\* Every step of the timer is a step of KTimerTasks or leaves its state alone.
THEOREM TimerImplementsTasks ==
    ASSUME NoOverflow
    PROVE  Spec => Abstract!SafeSpec
<1>1. Init => Abstract!Init
  BY DEF Init, Abstract!Init, Abstract!NotRegistered
<1>2. IInv /\ [Next]_vars => [Abstract!Next]_(Abstract!taskVars)
  <2> SUFFICES ASSUME IInv, [Next]_vars PROVE [Abstract!Next]_(Abstract!taskVars)
    OBVIOUS
  <2>1. CASE \E t \in Tasks, timeout \in Timeouts : RegisterTask(t, timeout)
    <3>1. PICK t \in Tasks, timeout \in Timeouts : RegisterTask(t, timeout)
      BY <2>1
    <3>2. Plus(now, timeout) = now + timeout
      BY TimerAssumption DEF NoOverflow, Plus, IInv, TypeOK
    <3>3. time[t] = 0
      BY <3>1 DEF RegisterTask, IInv, TaskTimePositive
    <3>4. Abstract!Register(t, timeout)
      BY <3>1, <3>2, <3>3 DEF RegisterTask, Abstract!Register, Abstract!NotRegistered
    <3> QED BY <3>4 DEF Abstract!Next
  <2>2. CASE \E t \in Tasks : CancelTask(t)
    <3>1. PICK t \in Tasks : CancelTask(t)
      BY <2>2
    <3>2. Abstract!Cancel(t)
      BY <3>1 DEF CancelTask, RemoveTaskFromTree, Abstract!Cancel, Abstract!NotRegistered
    <3> QED BY <3>2 DEF Abstract!Next
  <2>3. CASE DoInterruptTask
    <3>1. nextTask \in tree /\ nextTask \in Tasks /\ time[nextTask] > 0
      BY <2>3 DEF DoInterruptTask, IInv, TypeOK, NextTaskIsEarliest, TaskTimePositive
    <3>2. time[nextTask] <= now
      BY <2>3, <3>1 DEF DoInterruptTask, IInv, TypeOK, DisabledDuringDoTask, LockFree, S64
    <3>3. Abstract!Expire(nextTask)
      BY <2>3, <3>1, <3>2 DEF DoInterruptTask, RemoveTaskFromTree, Abstract!Expire,
                              Abstract!NotRegistered
    <3> QED BY <3>1, <3>3 DEF Abstract!Next
  <2>4. CASE Tick
    BY <2>4 DEF Tick, Abstract!Next, Abstract!Tick
  <2>5. CASE Advance \/ DoTaskBegin \/ DoTaskEnd \/ UNCHANGED vars
    BY <2>5 DEF Advance, DoTaskBegin, DoTaskEnd, vars, Abstract!taskVars
  <2> QED BY <2>1, <2>2, <2>3, <2>4, <2>5 DEF Next, TimerThread
<1> QED BY <1>1, <1>2, TimerInvariant, PTL DEF Spec, Abstract!SafeSpec

=============================================================================
