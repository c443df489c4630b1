--------------------------- MODULE KSynchronization ---------------------------
(***************************************************************************)
(* Waiting on kernel synchronization objects: KSynchronizationObject::Wait *)
(* and NotifyAvailable, the thread queues that end or cancel a wait, the   *)
(* timer task of a timed wait, CancelSynchronization, KThread::Sleep,      *)
(* KThread::Run/Exit/RequestTerminate and KEvent/KReadableEvent.           *)
(*                                                                         *)
(* Every handler runs under the scheduler lock, so it is one atomic step.  *)
(* A blocked Wait or Sleep takes a second step after it was woken: it      *)
(* reads its result when the scheduler runs the thread again, outside the  *)
(* lock.  Threads are objects too (a thread is signaled once it exits).    *)
(* Thread list nodes live on the stack of Wait; `links` is the set of the  *)
(* nodes that are linked into some object's list.  NotifyAvailable visits  *)
(* the whole list, so the order of the list is left out.                   *)
(***************************************************************************)
EXTENDS Naturals, FiniteSets

CONSTANTS
    Threads,        \* the KThreads
    Events,         \* the KReadableEvents (each with its KEvent)
    MaxObjects      \* Svc::ArgumentHandleCountMax

ASSUME ObjectsAssumption ==
    /\ MaxObjects \in Nat
    /\ Threads \cap Events = {}

VARIABLES
    state,                  \* m_thread_state & Mask
    pc,                     \* which blocking call the thread is inside of
    waitObjects,            \* the queue's m_objects, on the stack of Wait
    links,                  \* nodes linked into m_thread_list of their object
    hasTimer,               \* the queue's m_hardware_timer is not null
    timerTasks,             \* threads whose task is in the timer's tree
    cancellable,            \* m_cancellable
    waitCancelled,          \* m_wait_cancelled
    terminationRequested,   \* m_termination_requested
    syncedIndex,            \* m_synced_index
    waitResult,             \* m_wait_result
    signaled                \* m_is_signaled of events, m_signaled of threads

vars == <<state, pc, waitObjects, links, hasTimer, timerTasks, cancellable,
          waitCancelled, terminationRequested, syncedIndex, waitResult,
          signaled>>

Objects == Threads \cup Events

\* Index -1 of the source.
NoIndex == 0

Indices == 1..MaxObjects

ThreadState == {"Initialized", "Runnable", "Waiting", "Terminated"}

Results == {"Success", "TimedOut", "Cancelled", "TerminationRequested"}

\* The arrays of objects a caller may pass, duplicates included.
ObjectLists == UNION {[1..n -> Objects] : n \in 0..MaxObjects}

Nodes == [object : Objects, thread : Threads, index : Indices]

Init ==
    /\ state \in [Threads -> {"Initialized", "Runnable"}]
    /\ pc = [t \in Threads |-> "user"]
    /\ waitObjects = [t \in Threads |-> << >>]
    /\ links = {}
    /\ hasTimer = [t \in Threads |-> FALSE]
    /\ timerTasks = {}
    /\ cancellable = [t \in Threads |-> FALSE]
    /\ waitCancelled = [t \in Threads |-> FALSE]
    /\ terminationRequested = [t \in Threads |-> FALSE]
    /\ syncedIndex = [t \in Threads |-> NoIndex]
    /\ waitResult = [t \in Threads |-> "Success"]
    /\ signaled = [o \in Objects |-> FALSE]

(***************************************************************************)
(* Helpers shared by the handlers.                                         *)
(***************************************************************************)

\* KThread::IsTerminationRequested.
IsTerminationRequested(t) == terminationRequested[t] \/ state[t] = "Terminated"

\* The thread is the one executing: runnable and not inside a blocking call.
Running(t) == state[t] = "Runnable" /\ pc[t] = "user"

\* f with the value v at every element of S.
Assign(f, S, v) == [x \in DOMAIN f |-> IF x \in S THEN v ELSE f[x]]

IsFirstIndexOf(objs, o, i) ==
    /\ i \in DOMAIN objs
    /\ objs[i] = o
    /\ \A j \in 1..(i - 1) : objs[j] # o

\* The index at which the queue's NotifyAvailable finds the object.
FirstIndexOf(objs, o) == CHOOSE i \in Indices : IsFirstIndexOf(objs, o, i)

\* The waiting threads that have a node on o.
WaitersOf(o, st) ==
    {w \in Threads : st[w] = "Waiting" /\ \E n \in links : n.object = o /\ n.thread = w}

\* Mutant: the loop over the nodes stops after the first one.
UnlinkFirst(S) == {n \in links : n.thread \notin S \/ n.index # 1}

\* KSynchronizationObject::UnlinkNode for every node of the threads in S.
Unlink(S) == {n \in links : n.thread \notin S}

\* Mutant: the task of an ended wait stays registered.
CancelTaskNever(tasks, S) == tasks

\* KHardwareTimer::CancelTask for the threads in S whose queue has a timer.
CancelTask(tasks, S) == tasks \ {w \in S : hasTimer[w]}

\* The queue's NotifyAvailable for the threads in woken, with KThreadQueue's
\* EndWait.  st is the state function the caller has built so far.
EndWaits(o, woken, st) ==
    /\ state' = Assign(st, woken, "Runnable")
    /\ links' = Unlink(woken)
    /\ syncedIndex' = [t \in Threads |-> IF t \in woken THEN FirstIndexOf(waitObjects[t], o)
                                                        ELSE syncedIndex[t]]
    /\ cancellable' = Assign(cancellable, woken, FALSE)
    /\ waitResult' = Assign(waitResult, woken, "Success")
    /\ timerTasks' = CancelTask(timerTasks, woken)

\* KSynchronizationObject::NotifyAvailable of a signaled object.
NotifyAvailable(o, st) == EndWaits(o, WaitersOf(o, st), st)

\* Mutant: the thread is made runnable but its result is not set.
CancelWaitKeepsResult(S, result, tasks) ==
    /\ state' = Assign(state, S, "Runnable")
    /\ links' = Unlink(S)
    /\ cancellable' = Assign(cancellable, S, FALSE)
    /\ waitResult' = waitResult
    /\ timerTasks' = tasks

\* CancelWait of the queue of a synchronization wait or of a sleep, for every
\* thread in S; tasks is what stays in the timer's tree.  A sleeping thread has
\* no nodes and is never cancellable.
CancelWait(S, result, tasks) ==
    /\ state' = Assign(state, S, "Runnable")
    /\ links' = Unlink(S)
    /\ cancellable' = Assign(cancellable, S, FALSE)
    /\ waitResult' = Assign(waitResult, S, result)
    /\ timerTasks' = tasks

(***************************************************************************)
(* KSynchronizationObject::Wait.                                           *)
(***************************************************************************)

\* The waiters are added and the thread blocks; the timer task is registered
\* when the scoped lock is left.
WaitBlocks(t, objs, timeout) ==
    /\ links' = links \cup {[object |-> objs[i], thread |-> t, index |-> i] : i \in DOMAIN objs}
    /\ cancellable' = [cancellable EXCEPT ![t] = TRUE]
    /\ syncedIndex' = [syncedIndex EXCEPT ![t] = NoIndex]
    /\ state' = [state EXCEPT ![t] = "Waiting"]
    /\ pc' = [pc EXCEPT ![t] = "inWait"]
    /\ waitObjects' = [waitObjects EXCEPT ![t] = objs]
    /\ hasTimer' = [hasTimer EXCEPT ![t] = timeout = "finite"]
    /\ timerTasks' = IF timeout = "finite" THEN timerTasks \cup {t} ELSE timerTasks
    /\ UNCHANGED <<waitCancelled, terminationRequested, waitResult, signaled>>

\* Mutant: the objects are not checked before the thread blocks.
WaitIgnoresSignals(t, objs, timeout) ==
    /\ Running(t)
    /\ ~IsTerminationRequested(t)
    /\ timeout # "zero"
    /\ ~waitCancelled[t]
    /\ WaitBlocks(t, objs, timeout)

\* Mutant: the check for a pending termination is missing.
WaitIgnoresTermination(t, objs, timeout) ==
    /\ Running(t)
    /\ \A i \in DOMAIN objs : ~signaled[objs[i]]
    /\ timeout # "zero"
    /\ ~waitCancelled[t]
    /\ WaitBlocks(t, objs, timeout)

\* Wait returns ResultTerminationRequested, Success or ResultTimedOut at once when
\* one of the first three conditions fails, which changes nothing; it consumes a
\* pending cancellation and returns ResultCancelled, or it blocks.
Wait(t, objs, timeout) ==
    /\ Running(t)
    /\ ~IsTerminationRequested(t)
    /\ \A i \in DOMAIN objs : ~signaled[objs[i]]
    /\ timeout # "zero"
    /\ \/ /\ waitCancelled[t]
          /\ waitCancelled' = [waitCancelled EXCEPT ![t] = FALSE]
          /\ UNCHANGED <<state, pc, waitObjects, links, hasTimer, timerTasks, cancellable,
                         terminationRequested, syncedIndex, waitResult, signaled>>
       \/ /\ ~waitCancelled[t]
          /\ WaitBlocks(t, objs, timeout)

\* The scheduler runs a woken thread: Wait returns syncedIndex and waitResult,
\* which it reads now.  Its nodes and its queue go out of scope.  Nobody reads the
\* index and the result again before the next wait sets them: they are forgotten.
WaitReturn(t) ==
    /\ pc[t] = "inWait"
    /\ state[t] = "Runnable"
    /\ pc' = [pc EXCEPT ![t] = "user"]
    /\ waitObjects' = [waitObjects EXCEPT ![t] = << >>]
    /\ hasTimer' = [hasTimer EXCEPT ![t] = FALSE]
    /\ syncedIndex' = [syncedIndex EXCEPT ![t] = NoIndex]
    /\ waitResult' = [waitResult EXCEPT ![t] = "Success"]
    /\ UNCHANGED <<state, links, timerTasks, cancellable, waitCancelled,
                   terminationRequested, signaled>>

(***************************************************************************)
(* KThread::Sleep: an uncancellable wait for the timer.                    *)
(***************************************************************************)
Sleep(t) ==
    /\ Running(t)
    /\ ~IsTerminationRequested(t)
    /\ state' = [state EXCEPT ![t] = "Waiting"]
    /\ pc' = [pc EXCEPT ![t] = "inSleep"]
    /\ hasTimer' = [hasTimer EXCEPT ![t] = TRUE]
    /\ timerTasks' = timerTasks \cup {t}
    /\ UNCHANGED <<waitObjects, links, cancellable, waitCancelled,
                   terminationRequested, syncedIndex, waitResult, signaled>>

SleepReturn(t) ==
    /\ pc[t] = "inSleep"
    /\ state[t] = "Runnable"
    /\ pc' = [pc EXCEPT ![t] = "user"]
    /\ hasTimer' = [hasTimer EXCEPT ![t] = FALSE]
    /\ waitResult' = [waitResult EXCEPT ![t] = "Success"]
    /\ UNCHANGED <<state, waitObjects, links, timerTasks, cancellable, waitCancelled,
                   terminationRequested, syncedIndex, signaled>>

(***************************************************************************)
(* Those who end a wait.                                                   *)
(***************************************************************************)

\* KHardwareTimer::DoTask for the due tasks: each one is taken out of the tree
\* and its OnTimer cancels the wait of a waiting thread, leaving the timer be.
DoTask(due) ==
    /\ due # {}
    /\ due \subseteq timerTasks
    /\ CancelWait({t \in due : state[t] = "Waiting"}, "TimedOut", timerTasks \ due)
    /\ UNCHANGED <<pc, waitObjects, hasTimer, waitCancelled, terminationRequested,
                   syncedIndex, signaled>>

\* KThread::WaitCancel, called by CancelSynchronization.
WaitCancel(t) ==
    /\ \/ /\ state[t] = "Waiting"
          /\ cancellable[t]
          /\ waitCancelled' = [waitCancelled EXCEPT ![t] = FALSE]
          /\ CancelWait({t}, "Cancelled", CancelTask(timerTasks, {t}))
       \/ /\ ~(state[t] = "Waiting" /\ cancellable[t])
          /\ waitCancelled' = [waitCancelled EXCEPT ![t] = TRUE]
          /\ UNCHANGED <<state, links, cancellable, waitResult, timerTasks>>
    /\ UNCHANGED <<pc, waitObjects, hasTimer, terminationRequested, syncedIndex,
                   signaled>>

\* KEvent::Signal and KReadableEvent::Signal.
Signal(e) ==
    /\ ~signaled[e]
    /\ signaled' = [signaled EXCEPT ![e] = TRUE]
    /\ NotifyAvailable(e, state)
    /\ UNCHANGED <<pc, waitObjects, hasTimer, waitCancelled, terminationRequested>>

\* KReadableEvent::Reset, also reached from KEvent::Clear.
Reset(e) ==
    /\ signaled[e]
    /\ signaled' = [signaled EXCEPT ![e] = FALSE]
    /\ UNCHANGED <<state, pc, waitObjects, links, hasTimer, timerTasks, cancellable,
                   waitCancelled, terminationRequested, syncedIndex, waitResult>>

(***************************************************************************)
(* The life of a thread.                                                   *)
(***************************************************************************)

\* KThread::Run, called by a running thread c.
Run(c, t) ==
    /\ Running(c)
    /\ ~IsTerminationRequested(t)
    /\ ~IsTerminationRequested(c)
    /\ state[t] = "Initialized"
    /\ state' = [state EXCEPT ![t] = "Runnable"]
    /\ UNCHANGED <<pc, waitObjects, links, hasTimer, timerTasks, cancellable, waitCancelled,
                   terminationRequested, syncedIndex, waitResult, signaled>>

\* Mutant: the run loop of the core does not look for terminating threads.
ExitOnlyBySvc(t) ==
    /\ Running(t)
    /\ ~terminationRequested[t]
    /\ signaled' = [signaled EXCEPT ![t] = TRUE]
    /\ NotifyAvailable(t, [state EXCEPT ![t] = "Terminated"])
    /\ UNCHANGED <<pc, waitObjects, hasTimer, waitCancelled, terminationRequested>>

\* Mutant: the thread that exits is not signaled and nobody is told.
ExitUnsignaled(t) ==
    /\ Running(t)
    /\ state' = [state EXCEPT ![t] = "Terminated"]
    /\ UNCHANGED <<pc, waitObjects, links, hasTimer, timerTasks, cancellable, waitCancelled,
                   terminationRequested, syncedIndex, waitResult, signaled>>

\* KThread::Exit with StartTermination: by svc ExitThread, or from the run loop
\* of the core once termination was requested.
Exit(t) ==
    /\ Running(t)
    /\ signaled' = [signaled EXCEPT ![t] = TRUE]
    /\ NotifyAvailable(t, [state EXCEPT ![t] = "Terminated"])
    /\ UNCHANGED <<pc, waitObjects, hasTimer, waitCancelled, terminationRequested>>

\* Mutant: the wait is cancelled whether or not the thread is still waiting.
RequestTerminateAnyState(t) ==
    /\ ~terminationRequested[t]
    /\ terminationRequested' = [terminationRequested EXCEPT ![t] = TRUE]
    /\ state[t] # "Initialized"
    /\ CancelWait({t}, "TerminationRequested", CancelTask(timerTasks, {t}))
    /\ UNCHANGED <<pc, waitObjects, hasTimer, waitCancelled, syncedIndex, signaled>>

\* KThread::RequestTerminate, the first request; later ones change nothing.
\* A thread that was never started becomes Terminated without being signaled.
RequestTerminate(t) ==
    /\ ~terminationRequested[t]
    /\ terminationRequested' = [terminationRequested EXCEPT ![t] = TRUE]
    /\ \/ /\ state[t] = "Initialized"
          /\ state' = [state EXCEPT ![t] = "Terminated"]
          /\ UNCHANGED <<links, cancellable, waitResult, timerTasks>>
       \/ /\ state[t] = "Waiting"
          /\ CancelWait({t}, "TerminationRequested", CancelTask(timerTasks, {t}))
       \/ /\ state[t] \in {"Runnable", "Terminated"}
          /\ UNCHANGED <<state, links, cancellable, waitResult, timerTasks>>
    /\ UNCHANGED <<pc, waitObjects, hasTimer, waitCancelled, syncedIndex, signaled>>

Next ==
    \/ \E t \in Threads, objs \in ObjectLists, timeout \in {"zero", "finite", "infinite"} :
            Wait(t, objs, timeout)
    \/ \E t \in Threads : \/ WaitReturn(t)
                          \/ Sleep(t)
                          \/ SleepReturn(t)
                          \/ WaitCancel(t)
                          \/ Exit(t)
                          \/ RequestTerminate(t)
    \/ \E c, t \in Threads : Run(c, t)
    \/ \E due \in SUBSET Threads : DoTask(due)
    \/ \E e \in Events : Signal(e) \/ Reset(e)

Spec == Init /\ [][Next]_vars

(***************************************************************************)
(* Safety.                                                                 *)
(***************************************************************************)

TypeOK ==
    /\ state \in [Threads -> ThreadState]
    /\ pc \in [Threads -> {"user", "inWait", "inSleep"}]
    /\ waitObjects \in [Threads -> ObjectLists]
    /\ links \subseteq Nodes
    /\ hasTimer \in [Threads -> BOOLEAN]
    /\ timerTasks \subseteq Threads
    /\ cancellable \in [Threads -> BOOLEAN]
    /\ waitCancelled \in [Threads -> BOOLEAN]
    /\ terminationRequested \in [Threads -> BOOLEAN]
    /\ syncedIndex \in [Threads -> Indices \cup {NoIndex}]
    /\ waitResult \in [Threads -> Results]
    /\ signaled \in [Objects -> BOOLEAN]

InSyncWait(t) == state[t] = "Waiting" /\ pc[t] = "inWait"

\* The nodes linked into the objects' lists are exactly those of the threads
\* blocked in Wait, one per object passed to it.  A node left behind after its
\* Wait was ended by a signal, a timeout, a cancellation or a termination would
\* be a pointer into a dead stack frame; a missing one would lose a wakeup.
NodesMatchWaits ==
    links = {n \in Nodes : /\ InSyncWait(n.thread)
                           /\ n.index \in DOMAIN waitObjects[n.thread]
                           /\ waitObjects[n.thread][n.index] = n.object}

\* No thread stays blocked on an object that is signaled: Wait's check and every
\* Signal or Exit together leave no window in which a wakeup is missed.
NoMissedSignal ==
    \A t \in Threads : InSyncWait(t) =>
        \A i \in DOMAIN waitObjects[t] : ~signaled[waitObjects[t][i]]

\* The timer's tree holds the task of a thread exactly while the thread is blocked
\* in a wait with a timeout: a task that outlives its wait would cut the thread's
\* next wait short, whatever ended the first one.
TimerTaskMatchesWait ==
    timerTasks = {t \in Threads : state[t] = "Waiting" /\ hasTimer[t]}

\* Neither a cancellation nor a termination can be pending for a thread that is
\* blocked in Wait: the request either ended the wait or made Wait return at once.
NoPendingRequestWhileBlocked ==
    \A t \in Threads :
        /\ InSyncWait(t) => cancellable[t] /\ ~waitCancelled[t]
        /\ state[t] = "Waiting" => ~terminationRequested[t]
        /\ cancellable[t] => InSyncWait(t)

\* What the step that ends a wait leaves behind: the first position of an object
\* that is signaled, or no index and the timer task, cancellation or termination
\* request that ended it.
WakeupCause(t) ==
    \/ /\ waitResult'[t] = "Success"
       /\ IsFirstIndexOf(waitObjects[t], waitObjects[t][syncedIndex'[t]], syncedIndex'[t])
       /\ signaled'[waitObjects[t][syncedIndex'[t]]]
    \/ /\ syncedIndex'[t] = NoIndex
       /\ \/ waitResult'[t] = "TimedOut" /\ t \in timerTasks
          \/ waitResult'[t] = "Cancelled" /\ ~waitCancelled'[t]
          \/ waitResult'[t] = "TerminationRequested" /\ terminationRequested'[t]

\* Whoever ends a wait had cause to, and leaves the result and the index that say so.
WakeupHasCause ==
    [][\A t \in Threads : (InSyncWait(t) /\ state'[t] = "Runnable") => WakeupCause(t)]_vars

\* A wait is decided once: from the wakeup until the woken thread has read its
\* result outside the lock, no later signal, timeout, cancellation or termination
\* changes that result.
DecidedOnce ==
    [][\A t \in Threads : (pc[t] = "inWait" /\ state[t] # "Waiting" /\ pc'[t] = "inWait") =>
         waitResult'[t] = waitResult[t] /\ syncedIndex'[t] = syncedIndex[t]]_vars

(***************************************************************************)
(* Liveness.                                                               *)
(***************************************************************************)

\* Time reaches every deadline.  A terminating thread has the highest priority,
\* so it runs, and the run loop of its core calls Exit.  An ordinary runnable
\* thread may be starved by others: nothing is assumed of it.
Fairness ==
    \A t \in Threads :
        /\ WF_vars(DoTask({t}))
        /\ WF_vars(terminationRequested[t] /\ (WaitReturn(t) \/ SleepReturn(t) \/ Exit(t)))

FairSpec == Spec /\ Fairness

\* A thread whose termination was requested terminates, whatever it was blocked in.
TerminationCompletes ==
    \A t \in Threads : terminationRequested[t] ~> state[t] = "Terminated"

StartedAndTerminating(o) ==
    o \in Threads /\ terminationRequested[o] /\ state[o] \in {"Runnable", "Waiting"}

\* KThread::Terminate waits for the thread it has asked to terminate: a thread
\* waiting on a thread that was asked to terminate after it had been started wakes.
WaitOnTerminatingEnds ==
    \A t \in Threads :
        (InSyncWait(t) /\ \E i \in DOMAIN waitObjects[t] : StartedAndTerminating(waitObjects[t][i]))
          ~> state[t] # "Waiting"

=============================================================================
