# A TLA+ verification of the yuzu kernel

yuzu runs programs of the Nintendo Switch on a host computer.  The part of it
that is hardest to get right and hardest to test is its reimplementation of the
console's kernel, `src/src/core/hle/kernel`: threads that block, are woken, time
out, are cancelled, suspended and terminated by each other, on four emulated
cores that are host threads.  Next to it are the host threads that serve the
kernel's sessions (`src/src/core/hle/service/server_manager.cpp`) and the one that
drives its timer (`src/src/core/core_timing.cpp`).  This project models these parts,
checks them with TLC on small instances, and proves what matters most with TLAPS
for every instance.

## The system

| part | state | operations | with whom it interacts |
|---|---|---|---|
| threads (`k_thread.cpp`) | state, wait queue, wait result, priority, locks held and waited for, suspend flags | `Run`, `Sleep`, `Exit`, `RequestTerminate`, `RequestSuspend`, `Resume`, `AddWaiter`, `RemoveWaiter`, `RestorePriority` | everything below |
| synchronization objects (`k_synchronization_object.cpp`) | lists of nodes on the stacks of waiting threads, signals | `Wait`, `NotifyAvailable`, `Signal`, `Reset`, `WaitCancel` | threads, timer |
| hardware timer (`k_hardware_timer*.{h,cpp}`) | tree of tasks, next task, programmed wakeup | `RegisterTask`, `CancelTask`, `DoTask` | `CoreTiming`'s host thread |
| light lock (`k_light_lock.cpp`) | `m_tag` | `Lock`, `Unlock` and their slow paths | threads' waiters, suspension |
| resource limits (`k_resource_limit.cpp`, `k_light_condition_variable.cpp`) | values, hints, limits, peaks, waiter count | `Reserve`, `Release`, `SetLimitValue` | light lock, timer |
| guest mutexes and condition variables (`k_condition_variable.cpp`) | the tree of waiters; two words of guest memory | `WaitForAddress`, `SignalToAddress`, `Wait`, `Signal` | guest code, timer, threads' waiters |
| ports, sessions, requests (`k_client_port.cpp`, `k_session.cpp`, `k_server_session.cpp`, `k_client_session.cpp`) | the session count, the states and reference counts of sessions and their ends, queued and current requests | `CreateSession`, `SendSyncRequest`, `ReceiveRequest`, `SendReply`, closing of either end | client threads, server manager |
| server manager (`server_manager.cpp`) | the ports, sessions and deferred requests it looks after, two events, the stop request | the loop of its threads, the destructor | sessions; the services |
| core timing (`core_timing.cpp`) | queue of events, pause flags, two host events | `ScheduleEvent`, `UnscheduleEvent`, `Advance`, `SyncPause`, `Reset` | the owners of events, of which the hardware timer is one |
| address arbiter, scheduler, handle table, processes, memory | | | not modelled, see the end |

Four things make the behaviour hard.  Almost every handler runs under one lock,
the scheduler lock, but blocking splits an operation in two: what a woken thread
reads, it reads outside that lock and later.  Some state is changed outside of it
altogether: the tag of a light lock, and the words of guest memory.  And a wait
can be ended in four ways, by a signal, a timeout, a cancellation and a
termination, which race with each other and must each undo the whole wait.
Where the kernel meets the rest of the emulator, finally, host threads with locks
of their own hand objects to each other that either side may close at any time.

`PROJECT.json` lists the hazards one by one, with the line where each bites and
the properties that would catch it, and all the parts of the repository.

## Modules

A component has its module, an `MC...` module that gives TLC the model values and
the symmetry, and a `...Proofs` module.  Names are those of the source.

| module | models | proofs |
|---|---|---|
| `KSynchronization` | waits on objects, sleeping, events, and all that ends a wait | `KSynchronizationProofs` |
| `KTimerTasks` | what the kernel relies on from its timer: the abstract specification | |
| `KHardwareTimer` | the timer and the `CoreTiming` event behind it; implements `KTimerTasks` | `KHardwareTimerProofs` |
| `KLightLock` | the kernel's mutex, with suspension and termination of its users | `KLightLockProofs` |
| `KResourceLimit` | one resource of a limit, with the light condition variable | `KResourceLimitProofs` |
| `PriorityInheritance` | the locks with priority inheritance of `KThread` | `PriorityInheritanceProofs` |
| `KConditionVariable` | a guest mutex and a condition variable, with the guest code that uses them | `KConditionVariableProofs` |
| `KSession` | a port, its sessions and their requests, as the kernel sees them | |
| `ServerManager` | the threads that serve the port and the destructor that stops them, composed with `KSession` | `ServerManagerProofs` |
| `CoreTiming` | the timer thread, the events' owners, and pausing | `CoreTimingProofs` |

Definitions marked *Mutant* are plausible bugs in the definition that follows;
they are part of no specification and show that the properties notice them.

### KSynchronization

A handler is one action, since it runs under the scheduler lock.  `Wait` has two:
`Wait`, up to the point where the thread blocks, and `WaitReturn`, when the
scheduler runs the woken thread and it reads `m_synced_index` and its result.
`links` is the set of nodes linked into the lists of the objects.  The order of a
list is left out because `NotifyAvailable` visits all of it.  Indices start at 1
and 0 stands for the source's -1.  Those returns of `Wait` that change nothing
(terminating, already signaled, zero timeout) are stuttering steps.  A wait's
deadline is abstracted away: a task may become due at any time.  `DoTask` is one
action for a set of due tasks; the timer below it is `KHardwareTimer`.
`Exit` includes `StartTermination`, the notification of waiters included.

### KHardwareTimer and KTimerTasks

The kernel calls `RegisterTask` and `CancelTask` under the scheduler lock.  The
one event of the timer is fired by `CoreTiming`'s thread, which takes it out of
its queue (`Advance`) and then calls `DoTask`, which first has to get the lock.
Between the two the kernel may do anything, reprogramming included.  `DoTask` is
`DoTaskBegin`, `DoInterruptTask` once per task, `DoTaskEnd`; the clock runs on
meanwhile.  Times are `s64`, and `Plus` wraps as the build does.

`KTimerTasks` has only a clock and the deadlines.  The refinement maps the
deadline of a task to `m_time`, which the code resets to 0 on removal.

### KLightLock

The exchanges of `m_tag` in `Lock` and `Unlock` are atomic steps of their own;
the slow paths are one step each.  Waiters are kept by the owner.  Which waiter
is handed the lock is left open.  `suspended` are the suspend flags in the
thread's state, as opposed to those requested and allowed.

### KResourceLimit

`m_lock` is a mutex in this module, so everything between taking and releasing it
is one action.  `KLightLock` justifies that as long as no thread is terminated
while it waits for `m_lock` (see the findings).  A thread that is terminated
while it waits for the resource keeps spinning with the lock held until its
timeout, as the code does: `KLightConditionVariable::Wait` returns at once,
without giving up the lock.  That thread is the only one that holds the lock
between actions.  One resource is modelled: the resources of a limit have their
own values and share only the lock, the waiter count and the condition variable.
A release of another resource can therefore wake a waiter in vain, as a release
that is too small does here.  The alternative `timeout < 0` of `Reserve`, which waits
without end (`k_resource_limit.cpp:120`), is left out: no caller passes a negative time.

### PriorityInheritance

`waitsFor` and `holder` stand for the `LockWithPriorityInheritanceInfo` of each
lock: the info of a lock exists while it has waiters, and is the holder's.
`RestorePriority` is a loop along the chain of owners and is modelled a round at
a time, with nothing else happening until it ends.  The operations that call it
only if a local test says so set `restoring` under that test.  A thread may wait
for a guest lock whose owner waits for it, or that is its own: guest code can do
both, since `WaitForAddress` takes the owner from the tag the guest hands it.

### KConditionVariable

One mutex word, one condition variable key.  Guest code (marked external) locks,
unlocks, waits and signals by the protocol the handlers are made for, with its
atomic instructions interleaving with the handlers' accesses to guest memory: a
handler is split at each of them and `locked` says which thread has the scheduler
lock.  `WriteTag` is the blind store of `WriteToUser`, `UpdateLockAtomic` the
exclusive loop.  Accesses to guest memory always succeed, priorities do not
change, and the handles of a thread are closed only after it has terminated.

### KSession and ServerManager

`KSession` has the kernel objects and what client threads do with them; `ServerManager`
extends it with the threads on the other side and is what is run.  A step is one critical
section of the scheduler lock or one atomic operation on shared state.
`KServerSession::m_lock` and `m_serve_mutex` are held over several steps and are mutexes, as
`KLightLock` and the host provide them.

* *Life of an end.*  `end[s][e]` says how far the destruction of the client or the server end
  has got: the test of the state, its change, the requests, the parent's reference, the
  parent's end.  Whoever drops the last reference carries it out (`Destruction`) and goes on
  when it is over.
* *Requests.*  All are synchronous, so a request is named by the thread that sent it.
  `inHand` is one that has left the list or `m_current_request` and is not yet anywhere else:
  `ReceiveRequest` sets `m_current_request` after it has left the scheduler lock.  Ending the
  client's wait and closing the request are one step.  A client may be terminated at any time.
* *Creation.*  The reservation, the count, the enqueuing and the undoing of each, in their
  order.  `KSession::Initialize` is part of counting the session, which nobody else knows yet;
  the handle of the client end appears in the step that enqueues the server end, although the code
  adds it right after.
  `Finalize` and `PostDestroy` are one step.  A session of the slab is used once: `CreateFails`
  is what happens when none is left.
* *Server threads.*  A thread goes around `loop`, `gather`, `wait` and the handling of what
  ended its wait.  `gathered` are the objects of its `wait_objs`, which it keeps open.  A
  service answers, closes or defers a request as it likes; deferral and several threads are
  combined, although in the repository only `sm` defers and only `sockets` has extra threads.
* *Shutdown.*  `Destructor` requests the stop, signals, joins, and closes what is left.  It may
  begin at any time.  All threads are in `LoopProcess` when a behaviour begins: a manager that never
  gets there is among the observations.  A thread that is past the test of the stop request
  and waits for `m_serve_mutex` makes that test again in the model, which only lets it leave earlier.

### CoreTiming

The timer thread with its two loops, `Advance` split where it gives up `basic_lock` for a
callback, the owners of the events, and one thread that calls `SyncPause` and `Reset`.
`SyncPause` and the schedules are split between their change of shared state and the `Set` of
the host event that follows; the second `pause_event.Set` of `SyncPause` is merged with
`event.Set`.  `advance_lock` is held while a callback runs, and `UnscheduleEvent` waits for it.
An owner schedules an event again only after it has unscheduled it; the one caller of
`UnscheduleEventWithoutWait` is the hardware timer, for an event that does not loop.  What a
callback returns is one of `Periods`.  The clock runs on during a pause, since
`StandardWallClock` has nothing to pause.  The sleep until the next event is `event.WaitFor`; the
loop of short sleeps that replaces it on Windows (`core_timing.cpp:266` to 286) ends for the same
reasons, the event, the time and a pause, and is not modelled.  `KHardwareTimer` keeps its own, smaller picture of
this thread, the one event of the timer.

## What TLC checks

Each run asks one question.  All are exhaustive for their constants.

| run | instance | shows |
|---|---|---|
| `synchronization` | 2 threads, 1 event, lists of up to 2 objects | `NodesMatchWaits`, `NoMissedSignal`, `TimerTaskMatchesWait`, `NoPendingRequestWhileBlocked`, `WakeupHasCause`, `DecidedOnce`: no wakeup is lost, misattributed or overwritten, and nothing of a wait outlives it; `TerminationCompletes`, `WaitOnTerminatingEnds`: a thread that is asked to terminate does, and who waits for it is woken |
| `timer` | 3 tasks, timeouts 1 to 3, clock to 5 | `NextTaskIsEarliest`, `InterruptCoversNextTask`, `NoDueTaskLeft`, and `ImplementsTimerTasks`, the refinement with its liveness |
| `light_lock` | 3 threads, one may be terminated, one type of suspension | `MutexUntilTermination`, `WaitersAreSeen`: until the termination, one thread has the lock and no waiter is left behind; `OwnerNotSuspended`, `OwnerReleases`: throughout, an owner with waiters is not suspended and gives the lock up |
| `resource_limit` | 3 threads, one may be terminated; values 1, 2 and the largest `s64`; limits 2 and 3 | `ValuesWithinLimit`, `ValueIsReserved`, `RoomWakesWaiters`, `ReserveReturns` |
| `priority_inheritance` | 3 threads, 3 locks, 3 priorities | `PriorityInherited`, `PriorityIsEffective`, `KernelWaitersCounted`, `RestorePriorityEnds` |
| `condition_variable` | 3 threads, one of higher priority, one mortal | `MutualExclusion`, `WaiterIsTagged`, `KeyShowsWaiters`, `BlockedIsKept`, `HighestPriorityIsServed` |
| `server_manager` | 2 clients, 2 server threads; 1 session with the termination of a client and shutdown, or 2 sessions without | `RequestsCounted`, `BlockedRequestIsHeld`: a client that waits for a reply is never forgotten and its request is freed once; `ServerSessionOwned`, `SessionsCounted`: a session has one owner at a time and is counted until it is gone; `NothingMissed`, `AssertionsHold`: no server thread sleeps through work or acts on work that is gone; `StopNotStuck`: the destructor is never stuck and leaves no client waiting |
| `core_timing` | 1 event for one run, 1 looping event, delays 0 and 1 | `PausedIsStill`, `FollowsOwner`: no callback during a pause or after its event is gone, and no looping event is lost; `ControlReturns`, `EventRuns`: `SyncPause` and `Reset` return, and no due event is slept through |
| `timer_overflow`, `light_lock_termination`, `light_lock_resume`, `resource_limit_timeout` | 2 threads or tasks | the disagreements below |

### Bounds

* Waits: two threads and an event suffice for a thread that waits on an event, on
  another thread, on itself, on two objects or on one twice, and for both threads
  waiting on the same object.  The proofs cover the rest.
* Timer: with three tasks the next task can be cancelled while two are left, and
  two tasks can have the same deadline.  `MaxNow` lets each timeout expire
  and be registered again.  `MaxS64` is 20 instead of 2^63 - 1; what counts is
  whether a sum can pass it.
* Light lock: three threads give an owner, a waiter that is handed the lock, and one
  that stays behind or barges in.
* Resource limit: values 1 and 2 with limits 2 and 3 let two threads fit and the third
  wait, or one value fit and the other not; 7 is `MaxS64` and overflows the sum.
  No `Reserve` begins after `LastStart`, and `MaxNow` is late enough for the last timer task.
* Priorities: chains and circles of one to three threads, and a thread that owns two locks.
* Condition variable: an owner, a waiter in the lock function and one in the condition
  variable; `Signal` wakes one, two or all.
* Server manager: two clients give a request being served and one in the queue, a request and
  the closing of the handle at once, and two creations that compete for the last place of the
  port: with two sessions, `MaxSessions` 1 and `SessionLimit` 2, it is the port's count that turns
  the second one down, while the first session is being made, used or destroyed.  Two server threads
  suffice for both being woken by one object and for one tracking a session while the other builds
  its list.  `Bounded`, a guard of `MCNext`, keeps the run within minutes: one client thread is
  terminated at most, and a behaviour with a second session has no termination, no shutdown and no
  retry of deferred requests.  The proofs have no such bound; `StopNotStuck`, which is not among
  them, is checked with one session.
* Core timing: with `MaxTime` 1 an event can be due at once, later or in a pause, and a looping
  one be put back twice.  The invariants hold with `MaxTime` 2 as well.  The owners stop
  scheduling at `MaxTime`: events that are due again at once keep `Advance` in its loop, which
  does not look at `paused`, and then neither liveness property could hold.

`CHECK_DEADLOCK FALSE` is set where the system really may stop: when all threads have
exited, all are blocked for good by what the guest did, the server manager is gone, or the
bounded clock has run out.

### Fairness

* `KSynchronization`: the timer's thread gets to a due task; a terminating thread has the
  highest priority (`TerminatingThreadPriority`), so it returns from its wait and the core's
  run loop calls `Exit`.  Nothing is assumed of other threads, which may starve.  Both liveness
  properties thereby assume that a terminating thread is not suspended afterwards:
  `RequestTerminate` clears `m_suspend_allowed_flags` only if the thread is suspended at that time
  (`k_thread.cpp:1259`), and a `RequestSuspend` that comes later keeps it from running until it is
  resumed.  Suspension is part of `KLightLock` and not of this module.
* `KHardwareTimer`: `CoreTiming`'s host thread runs, and time passes.
* `KLightLock`: a thread the scheduler lets run gets on with `Lock` and `Unlock` and does not
  keep the lock for ever.  A suspended thread is not assumed to be resumed.
* `KResourceLimit`: time passes, due tasks run, and a woken thread gets the lock.  That
  anything is ever released is not assumed.
* `PriorityInheritance`: `RestorePriority` is one call and goes on until it returns.
* `KConditionVariable`: a handler with the scheduler lock goes on (WF).  Callers are not kept
  from the scheduler lock for ever, which takes strong fairness since it is taken again and
  again.  The guest's lock function goes on, and guest code gives the mutex back.
* `CoreTiming`: the timer thread, the thread in `SyncPause` or `Reset` and an owner on its way to
  `event.Set` are host threads and run (WF each), and time passes.
* `ServerManager`: none.  That the shutdown comes to its end is checked as `StopNotStuck`: as long as
  the destructor is not done, some step of a thread that is already under way is enabled.  A client
  may send requests faster than a thread serves them, so more would take an assumption on the guest.

## What is proved

All of the following hold for any sets of threads, events, tasks and locks.

**KSynchronization.**  `IInv` is the conjunction of the invariants of `synchronization` with two
facts that make it inductive: a thread that is waiting is inside `Wait` or `Sleep`
(`BlockedInCall`), and has no index yet (`NoIndexYet`), so that a wait that ends without a signal
returns none.  The lemma `ReleaseNodes` says that unlinking the nodes of the threads that are woken
keeps `NodesMatchWaits`; `CancelWaitIInv` and `NotifyAvailableIInv` use it for all the ways
to end a wait.  The action properties `DecidedOnce` and `WakeupHasCause` follow from `IInv` per action.

**KHardwareTimer.**  Under `NoOverflow` (the clock plus a timeout fits into an `s64`), `IInv` adds
that the interrupt is disabled while `DoTask` is at work and that a programmed interrupt has its event in
the queue or firing.  `TimerImplementsTasks` is the refinement without fairness: `Spec =>
Abstract!SafeSpec`.

**KLightLock.**  `Inv` relates the tag, the program counters and the waiters: the thread in
the tag holds the lock, only blocked threads are waiters, only the owner has any and then the tag has
the wait bit.  Mutual exclusion and `WaitersAreSeen` are proved up to the first termination, and
`OwnerNotSuspended` for one type of suspension, with terminations.  The findings show that mutual
exclusion fails after a termination, and `OwnerNotSuspended` with two types.

**KResourceLimit.**  `Release` broadcasts only if `m_waiter_count` is not zero, and `Reserve` changes
the count before it waits and after it has the lock again.  `CountInv` says that the count is the
number of threads in between; so `Release` wakes every waiter or there is none
(`ReleaseRoom`).  The other steps only take room, or let a thread wait whose value does not fit
(`ReserveLoopRoom`).  `RoomWakesWaitersAlways` follows for any threads, values and limits.
The two properties of the values would need a sum over the holders.  A holder of a value n is
counted as n pairs instead (`Units`), so that a sum is the size of a set and a holder that comes or
goes adds or removes its pairs (`UnitsAdded`, `UnitsMove`).  `ValueInv` says that the value and the hint
are such sizes, and that the value is within the limit and the peak; `ValueIsReservedAlways` and
`ValuesWithinLimitAlways` follow from it.

**PriorityInheritance.**  `Inv` says that a lock that is waited for has a holder and that every
thread except the one `RestorePriority` has got to has the priority it should have
(`OthersInherit`).  The hard steps are those in which a local test leaves `RestorePriority` out.
`PriorityIsEffectiveAlways` goes from neighbours to the whole graph of waiters.  `Chain(t)` is the least set that is closed
under lock owners from `t` on, so a bound that every owner inherits holds along a chain
(`ChainPriority`); and if a priority had no cause, neither would that of the waiter it comes from,
whose chain is larger, which cannot go on in a finite set without a circle (`PriorityHasCause`).
`CountInv` adds the number of kernel waiters, with cardinalities of finite sets.

**KConditionVariable.**  `Inv` says, also in the middle of a handler: one thread runs a handler
(`OneHandler`); who has the mutex is named in the word, and until the tag is written the
former owner is (`HolderIsNamed`); waiters are waiters of the named thread or, before the write, of the
next one, and the wait bit is set (`WaitersAreNamed`); what `WaitForAddress` has read is still in
the word when it adds the waiter, although guest code runs on (`ReadIsCurrent`); the key is
set before anybody is in the tree (`KeyIsSet`); a blocked thread is in one place
(`BlockedInOnePlace`).  Mutual exclusion of the blind stores rests on the wait bit: while it is
set, guest code leaves the word to the kernel.

**ServerManager.**  Six of the seven properties of `server_manager` are proved for any number of
clients, sessions and server threads, from invariants that build on each other:

* `ReplyInv`: the references of a client session are its handle and the calls that use it, so it is
  not closed under a call (`ClientHeld`); a request keeps its thread while that is blocked
  (`ThreadKept`); what is in hand is in the hands of who holds `m_lock` (`LockHeld`); while the state
  is `Normal`, the only state in which requests are queued, the server end has not come to
  `CleanupRequests` (`StateTested`); and a blocked client's request is held somewhere
  (`BlockedHeld`).  This is `ReplyCorrect`.
* `ServerInv` and `PlaceInv`: a request is in one place of one session at most, and then its client
  waits for it or has been terminated, so who may send another request has none.  The count
  of a request is therefore that of two facts, whether it has a place and whether its call
  is under way: `RequestsCountedAlways`.
* `ThreadInv` and `OwnerInv`: what a thread has in each place of its loop, and that a server session is had by its
  creator, the port, `m_sessions`, the deferrals or one thread, never by two.  A
  step keeps, passes on, drops or gives up the session, or adds or drops a user (`OwnerStep`), which is
  all a reference count can tell.  This is `ServerSessionOwnedAlways`.
* `PortInv` and `FoundInv`: the port is tracked or in the hands of one thread; what ended the wait of a thread
  is still signaled when the thread gets to it, because nobody else can have received from it;
  what is replied to has a request.  This is `AssertionsHoldAlways`.
* `AwakeInv` and `ToldInv`: the list a thread waits on is that of the manager, or `m_event`
  is signaled or about to be; and nothing in it is signaled unnoticed, but for a client end on its way
  to the notification.  This is `NothingMissedAlways`.
* `CountInv`: each end has a reference to its `KSession` until it is past `closeParent`, and one of
  them finalizes it.  This is `SessionsCountedAlways`.

Most steps touch one of these parts only; a lemma per invariant has one step per action.
What the lemmas use of finite sets is collected in `FiniteSetLaws`, which is a hypothesis of theirs
and is shown at the end of the module from the library's theorems, right before the six
theorems: the library is large and would slow down every other step.

**CoreTiming.**  `PauseCorrect` is `PausedIsStill` for any events, delays and periods.  The invariant ties
`paused`, `paused_set` and the places of the two threads together: while a `SyncPause(true)` is under
way, `paused_set` is true only once the timer thread is out of `Advance`; for that it must have been
false, and the thread not about to park for an earlier pause, when the call began, which is what the
`SyncPause(false)` before it has waited for.  The property
is claimed once a `SyncPause(false)` has found the thread parked (`observed`), see the observations.  `FollowsOwnerAlways` and `SleepsNoLongerAlways` are
about the queue.  `Push` and `Without` are defined by counting the entries before a place, not by a
recursion, so that what they add, keep and remove, and that they keep the queue sorted, can be proved
(`PushAdds`, `WithoutKeeps`).  `OwnerInv` adds to `FollowsOwner` that an entry is running only during a
callback, that an owner that waits for one has removed its event, and that the queue is sorted.
`SleepsNoLonger` says that a timer thread that has returned from `Advance` to sleep, or sleeps, does so
until a time that no queued event precedes, unless `event` is set or an owner is about to set it.
`Advance` looks at the first entry only, which is the earliest because the queue is sorted
(`PopOrReturnEarliest`); whatever is pushed afterwards comes with a `Set` (`SleepsNext`).  This is the safety
part of `EventRuns`.

Only model-checked: the liveness properties (`TerminationCompletes`, `WaitOnTerminatingEnds`,
`OwnerReleases`, `ReserveReturns`, `RestorePriorityEnds`, `HighestPriorityIsServed`, `ControlReturns`,
`EventRuns`) and the fairness part of the refinement, which the prover does not handle; and
`StopNotStuck`, which is about ENABLED.

## Where code and documentation disagree

1. `timer_overflow`: `RegisterTask` adds the timeout to the clock in `s64` without a test, so a
   timeout near the maximum gives a negative time and fails `ASSERT(task_time > 0)`.
2. `light_lock_termination`: `LockSlowPath` returns true when its wait was cancelled by a
   termination, so `Lock` returns to a thread that does not own the lock, although callers
   assert `IsLockedByCurrentThread`.
3. `light_lock_resume`: `Resume` updates the state without the test `TrySuspend` makes ("Ensure
   that we have no waiters"): with two types of suspension put off, resuming one suspends an owner
   with waiters.
4. `resource_limit_timeout`: the time given to `Reserve` is absolute, but is registered with the
   timer as a relative one, so "waiting up to 100ms" can take as long as the system has been running.

### Observations

These have no run of their own; the models have the behaviour.

* After a hand-over, a thread in `WaitForAddress` holds a reference to the former owner of the mutex
  and not to the new one.  If the new owner is terminated and destroyed with the mutex,
  `KThread::Finalize` takes the waiter from the lock and cancels its wait, and `CancelWait` in
  `k_condition_variable.cpp` then calls through the null `GetLockOwner()`.  The model records this in
  `crashed` and stops there; `condition_variable` reaches it.
* A looping event whose callback is running when its owner unschedules it is put back when the
  callback returns (`core_timing.cpp:240`), although `core_timing.h:94` says "until unscheduled".
  `FollowsOwner` therefore claims of looping events only that they are not lost.
* `Initialize` leaves `paused_set` false until the timer thread has parked once.  A
  `SyncPause(false)` before that returns at once, and the next `SyncPause(true)` may then take the
  thread's first parking for an answer while the thread is running callbacks.
* `KSynchronizationObject::Wait` returns `ResultSessionClosed` to a thread that waits while a client
  closes its session, and `R_TRY` (`server_manager.cpp:252`) makes it leave `LoopProcess` for good,
  although lines 363 to 366 are there to close the one session.  `StopNotStuck` shows that the
  shutdown completes even so; until then, the sessions have a thread less.
* `KernelCore::RunServer` returns without calling `LoopProcess` when the kernel is shutting down
  (`kernel.cpp:1015`), and destroys the manager.  `m_stopped` is set only on the way out of
  `LoopProcess` (`server_manager.cpp:180`), so the destructor waits for it for ever (line 44).
  `StopNotStuck` is about managers whose threads have entered the loop.
* `SendReply` returns a success whether or not the client has closed
  (`k_server_session.cpp:234` to 244), so the test for `ResultSessionClosed` after it does not fire.

## What is not modelled, and why

* **Address arbiter**: three waits and three signals on guest words, with the structure of
  `KConditionVariable` and without its hand-over of ownership.
* **Scheduler and priority queue**: the modules leave open which runnable thread runs, so their safety
  holds for any choice.  The queue itself is a matter of pointers and core masks.
* **Handle table**: an array with a free list behind a spin lock.  The counts that handles keep alive
  are in `KSession`, for the objects that several threads close.
* **Suspension and pinning** beyond what `KLightLock` has, and **processes** beyond the end of their
  threads and handles in `KSession`.
* **In the modelled parts**: failing accesses to guest memory, changes of priority while a thread uses
  a guest mutex, the contents of messages, light sessions, `ReplyAndReceive`, sessions that a
  service registers during a call, managers that never enter `LoopProcess`, suspension of a terminating
  thread, endless waits in `Reserve`, the single-core mode and the Windows sleep of `CoreTiming`, event
  types that expire while they are queued.
* **Page tables, memory blocks, allocators**: sequential under a lock; their difficulty is in ranges and
  attributes over large address spaces.
* **Rendering, shader translation, audio processing, CPU emulation, file formats, cryptography,
  device drivers, user interfaces**, and the many services that only answer commands.

The last two groups, with fonts and generated loaders, make up nearly all of the repository's half a
million lines.  The project covers well under one percent of them: the part in which
threads meet.  `PROJECT.json` lists every part with its reason.
