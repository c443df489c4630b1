----------------------------- MODULE KTimerTasks -----------------------------
(***************************************************************************)
(* What the kernel's threads rely on: a timer task that was registered is  *)
(* run once, not before its deadline, and a task that was cancelled is not *)
(* run.  KHardwareTimer is shown to implement it.                          *)
(***************************************************************************)
EXTENDS Integers

CONSTANTS
    Tasks,          \* the KTimerTasks; every KThread is one
    Timeouts,       \* the timeouts that are asked for, in ticks
    MaxNow          \* bound on the clock

VARIABLES
    now,            \* the clock
    deadline        \* absolute deadline of a task, NotRegistered if there is none

taskVars == <<now, deadline>>

NotRegistered == 0

Init ==
    /\ now = 1
    /\ deadline = [t \in Tasks |-> NotRegistered]

Register(t, timeout) ==
    /\ deadline[t] = NotRegistered
    /\ deadline' = [deadline EXCEPT ![t] = now + timeout]
    /\ UNCHANGED now

Cancel(t) ==
    /\ deadline[t] # NotRegistered
    /\ deadline' = [deadline EXCEPT ![t] = NotRegistered]
    /\ UNCHANGED now

\* The task's OnTimer is called.
Expire(t) ==
    /\ deadline[t] # NotRegistered
    /\ deadline[t] <= now
    /\ deadline' = [deadline EXCEPT ![t] = NotRegistered]
    /\ UNCHANGED now

Tick ==
    /\ now < MaxNow
    /\ now' = now + 1
    /\ UNCHANGED deadline

Next ==
    \/ \E t \in Tasks : \/ \E timeout \in Timeouts : Register(t, timeout)
                        \/ Cancel(t)
                        \/ Expire(t)
    \/ Tick

SafeSpec == Init /\ [][Next]_taskVars

Spec == SafeSpec /\ \A t \in Tasks : WF_taskVars(Expire(t))

=============================================================================
