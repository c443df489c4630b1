------------------------------ MODULE CoreTiming ------------------------------
(***************************************************************************)
(* CoreTiming with a timer thread of its own (multicore): the queue of     *)
(* events, the loop that runs their callbacks, SyncPause and Reset.  An    *)
(* event has one owner that schedules and unschedules it.  basic_lock is   *)
(* held within a step only; advance_lock is held while a callback runs.    *)
(* The clock keeps running while the timer is paused.                      *)
(***************************************************************************)
EXTENDS Naturals, Sequences, FiniteSets

CONSTANTS
    OneShot,    \* events for ScheduleEvent
    Looping,    \* events for ScheduleLoopingEvent
    Delays,     \* how far ahead an event is scheduled
    Periods,    \* the reschedule times of the looping events
    MaxTime     \* here the clock stops, and the owners stop scheduling

Events == OneShot \cup Looping
None == "none"

ASSUME TimingAssumption ==
    /\ OneShot \cap Looping = {}
    /\ None \notin Events
    /\ Delays \subseteq Nat
    /\ Periods \subseteq Nat \ {0}
    /\ MaxTime \in Nat

VARIABLES
    queue,          \* event_queue in the order of time, then fifo_order
    now,            \* GetGlobalTimeNs()
    pauseEndTime,
    paused,
    pausedSet,
    shuttingDown,
    eventSet,       \* event
    pauseEventSet,  \* pause_event
    tpc,            \* where the timer thread is
    running,        \* the event whose callback it runs, and that event's time
    nextTime,       \* what Advance returned: no time or one
    opc,            \* where the owner of an event is
    gone,           \* what the owner has last done with its event
    cpc,            \* where the thread in SyncPause or Reset is
    observed        \* the last SyncPause(false) found the timer thread parked

queueVars == <<queue, now, pauseEndTime>>
flagVars == <<paused, pausedSet, shuttingDown, eventSet, pauseEventSet>>
timerVars == <<tpc, running, nextTime>>
ownerVars == <<opc, gone>>
controlVars == <<cpc, observed>>
vars == <<queueVars, flagVars, timerVars, ownerVars, controlVars>>

Idle == [event |-> None, time |-> 0]

\* Initialize has called Reset, without a thread, and started the thread.
Init ==
    /\ queue = <<>>
    /\ now = 0
    /\ pauseEndTime = 0
    /\ paused = TRUE
    /\ pausedSet = FALSE
    /\ shuttingDown = FALSE
    /\ eventSet = TRUE
    /\ pauseEventSet = TRUE
    /\ tpc = "outer"
    /\ running = Idle
    /\ nextTime = {}
    /\ opc = [e \in Events |-> "idle"]
    /\ gone = [e \in Events |-> "waited"]
    /\ cpc = "idle"
    /\ observed = TRUE

(***************************************************************************)
(* The queue.                                                              *)
(***************************************************************************)

\* push_heap with the next fifo_order: behind the events that are not later.
Push(q, e, t) ==
    LET n == Cardinality({i \in DOMAIN q : q[i].time <= t})
    IN  SubSeq(q, 1, n) \o <<[event |-> e, time |-> t]>> \o SubSeq(q, n + 1, Len(q))

\* remove_if, for every entry of the event: the k-th entry left is the k-th that is kept.
Without(q, e) ==
    LET keep == {i \in DOMAIN q : q[i].event # e}
        Rank(i) == Cardinality({j \in keep : j <= i})
    IN  [k \in 1..Cardinality(keep) |-> q[CHOOSE i \in keep : Rank(i) = k]]

Queued(e) == \E i \in DOMAIN queue : queue[i].event = e

\* ScheduleEvent and ScheduleLoopingEvent: the event, which its owner has unscheduled if
\* it was ever scheduled, is queued ...
Schedule(e) ==
    /\ opc[e] = "idle"
    /\ now < MaxTime
    /\ gone[e] # "scheduled"
    /\ \E d \in Delays : queue' = Push(queue, e, now + d)
    /\ opc' = [opc EXCEPT ![e] = "set"]
    /\ gone' = [gone EXCEPT ![e] = "scheduled"]
    /\ UNCHANGED <<now, pauseEndTime, flagVars, timerVars, controlVars>>

\* Mutant: the timer thread is not woken for a new event.
SetEventSilently(e) ==
    /\ opc[e] = "set"
    /\ opc' = [opc EXCEPT ![e] = "idle"]
    /\ UNCHANGED <<queueVars, flagVars, timerVars, gone, controlVars>>

\* ... and then the timer thread is woken.
SetEvent(e) ==
    /\ opc[e] = "set"
    /\ eventSet' = TRUE
    /\ opc' = [opc EXCEPT ![e] = "idle"]
    /\ UNCHANGED <<queueVars, paused, pausedSet, shuttingDown, pauseEventSet, timerVars, gone,
                   controlVars>>

\* UnscheduleEvent removes the event (UnscheduleEventWithoutWait has one caller, the
\* hardware timer, for its event for one run) ...
Unschedule(e, wait) ==
    /\ opc[e] = "idle"
    /\ wait \/ e \in OneShot
    /\ queue' = Without(queue, e)
    /\ opc' = [opc EXCEPT ![e] = IF wait THEN "wait" ELSE "idle"]
    /\ gone' = [gone EXCEPT ![e] = "removed"]
    /\ UNCHANGED <<now, pauseEndTime, flagVars, timerVars, controlVars>>

\* Mutant: the wait does not take advance_lock.
UnscheduleNoWait(e) ==
    /\ opc[e] = "wait"
    /\ opc' = [opc EXCEPT ![e] = "idle"]
    /\ gone' = [gone EXCEPT ![e] = "waited"]
    /\ UNCHANGED <<queueVars, flagVars, timerVars, controlVars>>

\* ... and may take advance_lock to let a callback finish.
UnscheduleWait(e) ==
    /\ opc[e] = "wait"
    /\ tpc # "callback"
    /\ opc' = [opc EXCEPT ![e] = "idle"]
    /\ gone' = [gone EXCEPT ![e] = "waited"]
    /\ UNCHANGED <<queueVars, flagVars, timerVars, controlVars>>

(***************************************************************************)
(* The timer thread: ThreadLoop and Advance.                               *)
(***************************************************************************)

Outer ==
    /\ tpc = "outer"
    /\ tpc' = IF shuttingDown THEN "exited" ELSE "inner"
    /\ UNCHANGED <<queueVars, flagVars, running, nextTime, ownerVars, controlVars>>

\* while (!paused)
Inner ==
    /\ tpc = "inner"
    /\ tpc' = IF paused THEN "park" ELSE "unset"
    /\ UNCHANGED <<queueVars, flagVars, running, nextTime, ownerVars, controlVars>>

UnsetPaused ==
    /\ tpc = "unset"
    /\ pausedSet' = FALSE
    /\ tpc' = "advance"
    /\ UNCHANGED <<queueVars, paused, shuttingDown, eventSet, pauseEventSet, running, nextTime,
                   ownerVars, controlVars>>

\* Advance's loop, from where it has basic_lock and the queue is q: the first event is
\* popped if it is due, and its callback run without basic_lock; else Advance returns.
PopOrReturn(q) ==
    IF q # <<>> /\ Head(q).time <= now
    THEN /\ queue' = Tail(q)
         /\ running' = Head(q)
         /\ tpc' = "callback"
         /\ nextTime' = {}
    ELSE /\ queue' = q
         /\ running' = Idle
         /\ tpc' = "returned"
         /\ nextTime' = IF q = <<>> THEN {} ELSE {Head(q).time}

Advance ==
    /\ tpc = "advance"
    /\ PopOrReturn(queue)
    /\ UNCHANGED <<now, pauseEndTime, flagVars, ownerVars, controlVars>>

\* The callback is over, with the time to the next one: a looping event is queued again,
\* whoever unscheduled it meanwhile; one from before a pause continues from its end.
CallbackReturns ==
    LET base == IF running.time < pauseEndTime THEN pauseEndTime ELSE running.time IN
    /\ tpc = "callback"
    /\ \/ /\ running.event \in Looping
          /\ \E p \in Periods : PopOrReturn(Push(queue, running.event, base + p))
       \/ /\ running.event \in OneShot
          /\ PopOrReturn(queue)
    /\ UNCHANGED <<now, pauseEndTime, flagVars, ownerVars, controlVars>>

\* Nothing to wait for if the next event has become due.
TestTime ==
    /\ tpc = "returned"
    /\ IF \E t \in nextTime : t <= now
       THEN tpc' = "inner" /\ nextTime' = {}
       ELSE tpc' = "wait" /\ UNCHANGED nextTime
    /\ UNCHANGED <<queueVars, flagVars, running, ownerVars, controlVars>>

\* event.Wait() or event.WaitFor(), the latter as built for other hosts than Windows:
\* the event is set ...
Woken ==
    /\ tpc = "wait"
    /\ eventSet
    /\ eventSet' = FALSE
    /\ tpc' = "inner"
    /\ nextTime' = {}
    /\ UNCHANGED <<queueVars, paused, pausedSet, shuttingDown, pauseEventSet, running,
                   ownerVars, controlVars>>

\* ... or the time is over.
TimedOut ==
    /\ tpc = "wait"
    /\ ~eventSet
    /\ \E t \in nextTime : t <= now
    /\ tpc' = "inner"
    /\ nextTime' = {}
    /\ UNCHANGED <<queueVars, flagVars, running, ownerVars, controlVars>>

Park ==
    /\ tpc = "park"
    /\ pausedSet' = TRUE
    /\ tpc' = "parked"
    /\ UNCHANGED <<queueVars, paused, shuttingDown, eventSet, pauseEventSet, running, nextTime,
                   ownerVars, controlVars>>

Unpark ==
    /\ tpc = "parked"
    /\ pauseEventSet
    /\ pauseEventSet' = FALSE
    /\ tpc' = "outer"
    /\ UNCHANGED <<queueVars, paused, pausedSet, shuttingDown, eventSet, running, nextTime,
                   ownerVars, controlVars>>

TimerStep ==
    \/ Outer \/ Inner \/ UnsetPaused \/ Advance \/ CallbackReturns \/ TestTime
    \/ Woken \/ TimedOut \/ Park \/ Unpark

(***************************************************************************)
(* SyncPause, whose callers exclude each other, and Reset.                 *)
(***************************************************************************)

\* Unless there is nothing to do, paused is set ...
SyncPause(b) ==
    /\ cpc = "idle"
    /\ ~(paused = b /\ pausedSet = b)
    /\ paused' = b
    /\ observed' = IF b THEN observed ELSE pausedSet
    /\ cpc' = "setPause"
    /\ UNCHANGED <<queueVars, pausedSet, shuttingDown, eventSet, pauseEventSet, timerVars, ownerVars>>

SetPauseEvent ==
    /\ cpc = "setPause"
    /\ pauseEventSet' = TRUE
    /\ pauseEndTime' = IF paused THEN pauseEndTime ELSE now
    /\ cpc' = "setEvent"
    /\ UNCHANGED <<queue, now, paused, pausedSet, shuttingDown, eventSet, timerVars, ownerVars,
                   observed>>

\* Mutant: only pause_event is set, not the event the timer thread may sleep on.
SetTimerSilently ==
    /\ cpc = "setEvent"
    /\ pauseEventSet' = (pauseEventSet \/ ~paused)
    /\ cpc' = "spin"
    /\ UNCHANGED <<queueVars, paused, pausedSet, shuttingDown, eventSet, timerVars, ownerVars,
                   observed>>

\* ... the timer thread is woken (from a pause, once more) ...
SetTimerEvent ==
    /\ cpc = "setEvent"
    /\ eventSet' = TRUE
    /\ pauseEventSet' = (pauseEventSet \/ ~paused)
    /\ cpc' = "spin"
    /\ UNCHANGED <<queueVars, paused, pausedSet, shuttingDown, timerVars, ownerVars, observed>>

\* Mutant: SyncPause does not wait for the timer thread.
SpinNever ==
    /\ cpc = "spin"
    /\ pauseEndTime' = IF paused THEN pauseEndTime ELSE now
    /\ cpc' = "idle"
    /\ UNCHANGED <<queue, now, flagVars, timerVars, ownerVars, observed>>

\* ... and waited for.
Spin ==
    /\ cpc = "spin"
    /\ pausedSet = paused
    /\ pauseEndTime' = IF paused THEN pauseEndTime ELSE now
    /\ cpc' = "idle"
    /\ UNCHANGED <<queue, now, flagVars, timerVars, ownerVars, observed>>

\* Reset: paused and shutting_down, both events, and the thread is joined.
Reset ==
    /\ cpc = "idle"
    /\ paused' = TRUE
    /\ cpc' = "shutDown"
    /\ UNCHANGED <<queueVars, pausedSet, shuttingDown, eventSet, pauseEventSet, timerVars, ownerVars,
                   observed>>

ShutDown ==
    /\ cpc = "shutDown"
    /\ shuttingDown' = TRUE
    /\ cpc' = "resetPause"
    /\ UNCHANGED <<queueVars, paused, pausedSet, eventSet, pauseEventSet, timerVars, ownerVars,
                   observed>>

ResetPauseEvent ==
    /\ cpc = "resetPause"
    /\ pauseEventSet' = TRUE
    /\ cpc' = "resetEvent"
    /\ UNCHANGED <<queueVars, paused, pausedSet, shuttingDown, eventSet, timerVars, ownerVars,
                   observed>>

ResetTimerEvent ==
    /\ cpc = "resetEvent"
    /\ eventSet' = TRUE
    /\ cpc' = "join"
    /\ UNCHANGED <<queueVars, paused, pausedSet, shuttingDown, pauseEventSet, timerVars, ownerVars,
                   observed>>

Join ==
    /\ cpc = "join"
    /\ tpc = "exited"
    /\ cpc' = "done"
    /\ UNCHANGED <<queueVars, flagVars, timerVars, ownerVars, observed>>

ControlStep ==
    \/ SetPauseEvent \/ SetTimerEvent \/ Spin
    \/ ShutDown \/ ResetPauseEvent \/ ResetTimerEvent \/ Join

\* The wall clock.
Tick ==
    /\ now < MaxTime
    /\ now' = now + 1
    /\ UNCHANGED <<queue, pauseEndTime, flagVars, timerVars, ownerVars, controlVars>>

Next ==
    \/ \E e \in Events :
           Schedule(e) \/ SetEvent(e) \/ (\E w \in BOOLEAN : Unschedule(e, w)) \/ UnscheduleWait(e)
    \/ TimerStep
    \/ (\E b \in BOOLEAN : SyncPause(b)) \/ Reset \/ ControlStep
    \/ Tick

Spec == Init /\ [][Next]_vars

\* Host threads run, callbacks return, and time passes.
Fairness ==
    /\ WF_vars(TimerStep)
    /\ WF_vars(ControlStep)
    /\ WF_vars(Tick)
    /\ WF_vars(\E e \in Events : SetEvent(e))

FairSpec == Spec /\ Fairness

(***************************************************************************)
(* Properties.                                                             *)
(***************************************************************************)

EventEntries == [event : Events, time : Nat]

\* Every variable has its type.
TypeOK ==
    /\ queue \in Seq(EventEntries)
    /\ now \in 0..MaxTime
    /\ pauseEndTime \in 0..MaxTime
    /\ paused \in BOOLEAN
    /\ pausedSet \in BOOLEAN
    /\ shuttingDown \in BOOLEAN
    /\ eventSet \in BOOLEAN
    /\ pauseEventSet \in BOOLEAN
    /\ tpc \in {"outer", "inner", "unset", "advance", "callback", "returned", "wait",
                "park", "parked", "exited"}
    /\ running \in EventEntries \cup {Idle}
    /\ nextTime \subseteq Nat
    /\ opc \in [Events -> {"idle", "set", "wait"}]
    /\ gone \in [Events -> {"scheduled", "removed", "waited"}]
    /\ cpc \in {"idle", "setPause", "setEvent", "spin", "shutDown", "resetPause", "resetEvent",
                "join", "done"}
    /\ observed \in BOOLEAN

\* Between SyncPause(true) and the next SyncPause(false) the timer thread runs no callback
\* and is not on its way into Advance, so the owners of events may be taken apart.  It is
\* claimed of a pause that follows a SyncPause(false) which found the thread parked: the
\* first SyncPause(false) may come before the thread has parked once, see paused_set still
\* false and return at once, and the next SyncPause(true) may then see the true of the
\* first parking while the thread runs.
PausedIsStill ==
    cpc = "idle" /\ paused /\ observed => tpc \notin {"unset", "advance", "callback"}

\* What UnscheduleEvent and the schedules promise the owner, whatever the timer thread is
\* doing: an event for one run that was unscheduled is not queued, and once UnscheduleEvent
\* has waited its callback is not running either; a looping event that was scheduled and
\* not unscheduled since is queued or running, through any number of pauses.
FollowsOwner ==
    /\ \A e \in OneShot :
           /\ gone[e] # "scheduled" => ~Queued(e)
           /\ gone[e] = "waited" => running.event # e
    /\ \A e \in Looping : gone[e] = "scheduled" => Queued(e) \/ running.event = e

\* SyncPause and Reset return: SyncPause's busy wait sees paused_set change, and the
\* timer thread ends when Reset joins it, asleep or parked as it may have been.
ControlReturns == cpc # "idle" ~> cpc \in {"idle", "done"}

DueSoon == \E i \in DOMAIN queue : queue[i].time <= MaxTime

\* The timer thread never sleeps past an event: all that become due are popped, or
\* unscheduled, unless the timer is paused.  (The owners stop scheduling at MaxTime, so
\* that a time comes when nothing more is due.)
EventRuns == DueSoon ~> ~DueSoon \/ paused

=============================================================================
