---------------------------- MODULE KResourceLimit ----------------------------
(***************************************************************************)
(* KResourceLimit for one resource, with the KLightConditionVariable that  *)
(* Reserve waits on.  m_lock is the mutex KLightLock is shown to be, so    *)
(* what a thread does between taking m_lock and releasing it, by returning *)
(* or by waiting, is one action.  The lock is held across actions only by  *)
(* a terminating thread, for which Wait returns at once and Reserve spins. *)
(***************************************************************************)
EXTENDS Integers, FiniteSets, FiniteSetsExt

CONSTANTS
    Threads,        \* the KThreads that reserve and release
    Killable,       \* those that RequestTerminate may be called for
    Values,         \* the values that are reserved
    Limits,         \* the limits that are set
    Timeout,        \* what callers of Reserve add to the clock
    LastStart,      \* bound: no Reserve is called after this time
    MaxNow,         \* bound on the clock
    MaxS64          \* the largest s64

NoThread == "none"

ASSUME ResourceAssumption ==
    /\ IsFiniteSet(Threads)
    /\ MaxS64 \in Nat
    /\ Killable \subseteq Threads
    /\ NoThread \notin Threads
    /\ Values \subseteq 1..MaxS64
    /\ Limits \subseteq 0..MaxS64

VARIABLES
    limit, current, hint, peak,     \* m_limit_values, m_current_values, ... of the resource
    waiterCount,                    \* m_waiter_count
    lockOwner,                      \* owner of m_lock between two actions
    pc,                             \* where a thread is
    want,                           \* the value the thread reserves or has reserved
    deadline,                       \* the argument timeout of Reserve
    task,                           \* time of the thread's timer task, 0 if it has none
    terminating,                    \* m_termination_requested
    now                             \* GetGlobalTimeNs()

values == <<limit, current, hint, peak>>
vars == <<values, waiterCount, lockOwner, pc, want, deadline, task, terminating, now>>

\* held: reserved; hinted: reserved, and its hint released; waiting: in m_wait_list;
\* relock: woken, about to take m_lock; spinning: terminating, and holding m_lock.
PCs == {"idle", "held", "hinted", "waiting", "relock", "spinning"}

Init ==
    /\ limit \in Limits
    /\ current = 0 /\ hint = 0 /\ peak = 0
    /\ waiterCount = 0
    /\ lockOwner = NoThread
    /\ pc = [t \in Threads |-> "idle"]
    /\ want = [t \in Threads |-> 0]
    /\ deadline = [t \in Threads |-> 0]
    /\ task = [t \in Threads |-> 0]
    /\ terminating = [t \in Threads |-> FALSE]
    /\ now = 1

WrappingAdd(a, b) == IF a + b > MaxS64 THEN a + b - 2 * (MaxS64 + 1) ELSE a + b

LockFree == lockOwner = NoThread

\* Mutant: a lower limit is set whatever has been reserved.
SetLimitValueUnchecked(value) ==
    /\ LockFree
    /\ limit' = value
    /\ peak' = current
    /\ UNCHANGED <<current, hint, waiterCount, lockOwner, pc, want, deadline, task, terminating, now>>

\* SetLimitValue; the threads that wait are not told.
SetLimitValue(value) ==
    /\ LockFree
    /\ current <= value
    /\ limit' = value
    /\ peak' = current
    /\ UNCHANGED <<current, hint, waiterCount, lockOwner, pc, want, deadline, task, terminating, now>>

(***************************************************************************)
(* Reserve.                                                                *)
(***************************************************************************)

\* Reserve returns false, and m_lock is released.
ReserveFails(t, waiters) ==
    /\ pc' = [pc EXCEPT ![t] = "idle"]
    /\ lockOwner' = NoThread
    /\ waiterCount' = waiters
    /\ UNCHANGED <<values, task>>

\* Reserve returns true.
ReserveSucceeds(t, value, waiters) ==
    /\ current' = current + value
    /\ hint' = hint + value
    /\ peak' = Max({peak, current'})
    /\ pc' = [pc EXCEPT ![t] = "held"]
    /\ lockOwner' = NoThread
    /\ waiterCount' = waiters
    /\ UNCHANGED <<limit, task>>

\* Mutant: no timer task is registered.
WaitNoTask(t, timeout, waiters) ==
    /\ pc' = [pc EXCEPT ![t] = "waiting"]
    /\ lockOwner' = NoThread
    /\ waiterCount' = waiters + 1
    /\ UNCHANGED <<values, task>>

\* KLightConditionVariable::Wait: the timer task is registered relative to the clock.
\* A terminating thread returns at once, and goes on with the loop holding the lock.
Wait(t, timeout, waiters) ==
    /\ IF terminating[t]
       THEN /\ pc' = [pc EXCEPT ![t] = "spinning"]
            /\ lockOwner' = t
            /\ waiterCount' = waiters
            /\ UNCHANGED task
       ELSE /\ pc' = [pc EXCEPT ![t] = "waiting"]
            /\ lockOwner' = NoThread
            /\ waiterCount' = waiters + 1
            /\ task' = [task EXCEPT ![t] = now + timeout]
    /\ UNCHANGED values

\* Mutant: the hint is not reserved.
ReserveLoopNoHint(t, value, timeout, waiters) ==
    IF current + value <= limit
    THEN /\ current' = current + value
         /\ peak' = Max({peak, current'})
         /\ pc' = [pc EXCEPT ![t] = "held"]
         /\ lockOwner' = NoThread
         /\ waiterCount' = waiters
         /\ UNCHANGED <<limit, hint, task>>
    ELSE ReserveFails(t, waiters)

\* The loop of Reserve up to a return or a wait, with m_lock held.  No caller passes a
\* negative timeout, which would wait without end.
ReserveLoop(t, value, timeout, waiters) ==
    LET overflow == WrappingAdd(current, value) <= current
        fits == current + value <= limit
        mayWait == hint + value <= limit /\ now < timeout
    IN  \/ overflow /\ ReserveFails(t, waiters)
        \/ ~overflow /\ fits /\ ReserveSucceeds(t, value, waiters)
        \/ ~overflow /\ ~fits /\ mayWait /\ Wait(t, timeout, waiters)
        \/ ~overflow /\ ~fits /\ ~mayWait /\ ReserveFails(t, waiters)

\* Reserve, called with the time now + Timeout.
Reserve(t, value) ==
    /\ pc[t] = "idle"
    /\ LockFree
    /\ now <= LastStart
    /\ want' = [want EXCEPT ![t] = value]
    /\ deadline' = [deadline EXCEPT ![t] = now + Timeout]
    /\ \/ hint >= limit /\ ReserveFails(t, waiterCount)
       \/ hint < limit /\ ReserveLoop(t, value, now + Timeout, waiterCount)
    /\ UNCHANGED <<terminating, now>>

\* A woken thread takes m_lock again and goes on with the loop.
Relock(t) ==
    /\ pc[t] = "relock"
    /\ LockFree
    /\ ReserveLoop(t, want[t], deadline[t], waiterCount - 1)
    /\ UNCHANGED <<want, deadline, terminating, now>>

\* One round of the loop of a terminating thread, which holds m_lock.
Spin(t) ==
    /\ pc[t] = "spinning"
    /\ ReserveLoop(t, want[t], deadline[t], waiterCount)
    /\ UNCHANGED <<want, deadline, terminating, now>>

(***************************************************************************)
(* Release, and what else ends a wait.                                     *)
(***************************************************************************)

\* The threads in m_wait_list that are in ts are woken.
EndWaits(ts, p) ==
    /\ pc' = [t \in Threads |-> IF t \in ts /\ pc[t] = "waiting" THEN "relock" ELSE p[t]]
    /\ task' = [t \in Threads |-> IF t \in ts /\ pc[t] = "waiting" THEN 0 ELSE task[t]]

\* Mutant: the waiters are woken only when a hint is released.
ReleaseWakesForHint(t, value, h, next) ==
    /\ LockFree
    /\ current' = current - value
    /\ hint' = hint - h
    /\ EndWaits(IF waiterCount # 0 /\ h > 0 THEN Threads ELSE {}, [pc EXCEPT ![t] = next])
    /\ UNCHANGED <<limit, peak, waiterCount, lockOwner, want, deadline, terminating, now>>

\* Release(value, hint), which broadcasts if there are waiters.
Release(t, value, h, next) ==
    /\ LockFree
    /\ current' = current - value
    /\ hint' = hint - h
    /\ EndWaits(IF waiterCount # 0 THEN Threads ELSE {}, [pc EXCEPT ![t] = next])
    /\ UNCHANGED <<limit, peak, waiterCount, lockOwner, want, deadline, terminating, now>>

\* What was reserved is released at once, or the hint first: a thread that exits
\* releases its hint, and its value when it is destroyed.
ReleaseAll(t) == pc[t] = "held" /\ Release(t, want[t], want[t], "idle")
ReleaseHint(t) == pc[t] = "held" /\ Release(t, 0, want[t], "hinted")
ReleaseValue(t) == pc[t] = "hinted" /\ Release(t, want[t], 0, "idle")

\* The timer task runs: OnTimer cancels the wait.
OnTimer(t) ==
    /\ task[t] # 0
    /\ task[t] <= now
    /\ EndWaits({t}, pc)
    /\ UNCHANGED <<values, waiterCount, lockOwner, want, deadline, terminating, now>>

\* RequestTerminate cancels the wait of a blocked thread.
RequestTerminate(t) ==
    /\ t \in Killable
    /\ ~terminating[t]
    /\ terminating' = [terminating EXCEPT ![t] = TRUE]
    /\ EndWaits({t}, pc)
    /\ UNCHANGED <<values, waiterCount, lockOwner, want, deadline, now>>

Tick ==
    /\ now < MaxNow
    /\ now' = now + 1
    /\ UNCHANGED <<values, waiterCount, lockOwner, pc, want, deadline, task, terminating>>

Next ==
    \/ \E value \in Limits : SetLimitValue(value)
    \/ \E t \in Threads :
        \/ \E value \in Values : Reserve(t, value)
        \/ Relock(t)
        \/ Spin(t)
        \/ ReleaseAll(t)
        \/ ReleaseHint(t)
        \/ ReleaseValue(t)
        \/ OnTimer(t)
        \/ RequestTerminate(t)
    \/ Tick

Spec == Init /\ [][Next]_vars

(***************************************************************************)
(* Properties.                                                             *)
(***************************************************************************)

TypeOK ==
    /\ {limit, current, hint, peak} \subseteq 0..MaxS64
    /\ waiterCount \in 0..Cardinality(Threads)
    /\ lockOwner \in Threads \cup {NoThread}
    /\ pc \in [Threads -> PCs]
    /\ want \in [Threads -> Values \cup {0}]
    /\ deadline \in [Threads -> Nat]
    /\ task \in [Threads -> Nat]
    /\ terminating \in [Threads -> BOOLEAN]
    /\ now \in 1..MaxNow

\* What Reserve and Release assert of the values: the hint never exceeds the value, the
\* value never exceeds the limit, and the peak covers the value.
ValuesWithinLimit == hint <= current /\ current <= limit /\ current <= peak

\* What the threads of ts have reserved, unit by unit.
Units(ts) == UNION {{t} \X (1..want[t]) : t \in ts}

Holders == {t \in Threads : pc[t] \in {"held", "hinted"}}

\* Nothing that was reserved (Reserve, k_resource_limit.cpp:92) is lost or counted twice:
\* the value is what its holders have reserved, the hint what they have not given notice of.
ValueIsReserved ==
    /\ current = Cardinality(Units(Holders))
    /\ hint = Cardinality(Units({t \in Holders : pc[t] = "held"}))

Fits(t) == WrappingAdd(current, want[t]) \in current..limit

\* A release never leaves a thread blocked whose value fits because of it.  (Raising the
\* limit does.)
RoomWakesWaiters ==
    [][\A t \in Threads :
        (pc'[t] = "waiting" /\ Fits(t)' /\ limit' = limit) => pc[t] = "waiting" /\ Fits(t)]_vars

\* "waiting up to 100ms": a thread is not blocked for longer than it asked for.
TimerMatchesDeadline ==
    \A t \in Threads : pc[t] = "waiting" => task[t] # 0 /\ task[t] <= deadline[t]

(***************************************************************************)
(* Liveness: the clock and the timer run, and a runnable thread takes the  *)
(* lock.                                                                   *)
(***************************************************************************)
FairSpec ==
    /\ Spec
    /\ WF_vars(Tick)
    /\ \A t \in Threads : WF_vars(OnTimer(t)) /\ WF_vars(Spin(t)) /\ WF_vars(Relock(t))

\* Reserve returns, although the waiters are not told of a new limit, the releases may
\* never come, and a terminating thread spins with the lock.
ReserveReturns ==
    \A t \in Threads : pc[t] \in {"waiting", "relock", "spinning"} ~> pc[t] \in {"idle", "held"}

=============================================================================
