------------------------------ MODULE KLightLock ------------------------------
(***************************************************************************)
(* KLightLock, step by step: the exchange of m_tag in Lock and the release *)
(* in Unlock are single atomic operations outside the scheduler lock, the  *)
(* two slow paths run under it.  The waiters are kept by the thread that   *)
(* owns the lock, as its waiters with the lock's kernel address key; which *)
(* of them has the highest priority is left open.  A thread may be asked   *)
(* to suspend, to resume and to terminate at any time.                     *)
(***************************************************************************)
EXTENDS Naturals, FiniteSets

CONSTANTS
    Threads,        \* the KThreads
    SuspendTypes,   \* the SuspendTypes a thread may be suspended with
    Killable        \* the threads RequestTerminate may be called for

NoThread == "none"

ASSUME LockAssumption ==
    /\ Killable \subseteq Threads
    /\ NoThread \notin Threads

VARIABLES
    tagOwner,           \* m_tag & ~1, NoThread for 0
    tagWait,            \* m_tag & 1
    pc,                 \* where a thread is in Lock and Unlock
    oldOwner,           \* the owner in the old_tag Lock has read
    waiters,            \* a thread's waiters for this lock
    terminating,        \* m_termination_requested
    suspendAllowed,     \* m_suspend_allowed_flags
    suspendRequest,     \* m_suspend_request_flags
    suspended           \* the suspend flags in m_thread_state

suspendVars == <<terminating, suspendAllowed, suspendRequest>>
vars == <<tagOwner, tagWait, pc, oldOwner, waiters, suspendVars, suspended>>

PCs == {"idle", "lock", "lockSlow", "waiting", "locked", "unlockSlow"}

Init ==
    /\ tagOwner = NoThread
    /\ tagWait = FALSE
    /\ pc = [t \in Threads |-> "idle"]
    /\ oldOwner = [t \in Threads |-> NoThread]
    /\ waiters = [t \in Threads |-> {}]
    /\ terminating = [t \in Threads |-> FALSE]
    /\ suspendAllowed = [t \in Threads |-> SuspendTypes]
    /\ suspendRequest = [t \in Threads |-> {}]
    /\ suspended = [t \in Threads |-> {}]

\* Lock has returned and Unlock has not.
Holds(t) == pc[t] \in {"locked", "unlockSlow"}

\* The scheduler lets the thread run.
CanRun(t) == suspended[t] = {} /\ pc[t] # "waiting"

\* KThread::GetSuspendFlags; IsSuspended is that there are any.
SuspendFlags(t) == suspendAllowed[t] \cap suspendRequest[t]

\* KThread::TrySuspend, for the waiters w: no update of the state while there are any.
TrySuspend(t, w, susp) ==
    IF w[t] = {} THEN [susp EXCEPT ![t] = SuspendFlags(t)] ELSE susp

\* IsSuspended and KThread::ContinueIfHasKernelWaiters.
ContinueIfHasKernelWaiters(t, w, susp) ==
    IF SuspendFlags(t) # {} /\ w[t] # {} THEN [susp EXCEPT ![t] = {}] ELSE susp

(***************************************************************************)
(* Lock.                                                                   *)
(***************************************************************************)

\* A thread calls Lock.
Lock(t) ==
    /\ CanRun(t)
    /\ pc[t] = "idle"
    /\ pc' = [pc EXCEPT ![t] = "lock"]
    /\ UNCHANGED <<tagOwner, tagWait, oldOwner, waiters, suspendVars, suspended>>

\* The loop around compare_exchange_weak: it ends with the one exchange that
\* succeeds.
LockExchange(t) ==
    /\ CanRun(t)
    /\ pc[t] = "lock"
    /\ \/ /\ tagOwner = NoThread
          /\ tagOwner' = t
          /\ tagWait' = FALSE
          /\ pc' = [pc EXCEPT ![t] = "locked"]
          /\ UNCHANGED oldOwner
       \/ /\ tagOwner # NoThread
          /\ tagWait' = TRUE
          /\ oldOwner' = [oldOwner EXCEPT ![t] = tagOwner]
          /\ pc' = [pc EXCEPT ![t] = "lockSlow"]
          /\ UNCHANGED tagOwner
    /\ UNCHANGED <<waiters, suspendVars, suspended>>

\* Mutant: the tag is not read again under the scheduler lock.
LockSlowPathNoCheck(t) ==
    /\ CanRun(t)
    /\ pc[t] = "lockSlow"
    /\ waiters' = [waiters EXCEPT ![oldOwner[t]] = @ \cup {t}]
    /\ pc' = [pc EXCEPT ![t] = "waiting"]
    /\ suspended' = ContinueIfHasKernelWaiters(oldOwner[t], waiters', suspended)
    /\ UNCHANGED <<tagOwner, tagWait, oldOwner, suspendVars>>

\* LockSlowPath: back to the exchange if the tag has changed, else wait for the
\* owner, which is continued if it is suspended.
LockSlowPath(t) ==
    /\ CanRun(t)
    /\ pc[t] = "lockSlow"
    /\ \/ /\ ~(tagOwner = oldOwner[t] /\ tagWait)
          /\ pc' = [pc EXCEPT ![t] = "lock"]
          /\ UNCHANGED <<waiters, suspended>>
       \/ /\ tagOwner = oldOwner[t]
          /\ tagWait
          /\ waiters' = [waiters EXCEPT ![oldOwner[t]] = @ \cup {t}]
          /\ pc' = [pc EXCEPT ![t] = "waiting"]
          /\ suspended' = ContinueIfHasKernelWaiters(oldOwner[t], waiters', suspended)
    /\ UNCHANGED <<tagOwner, tagWait, oldOwner, suspendVars>>

(***************************************************************************)
(* Unlock.                                                                 *)
(***************************************************************************)

\* The compare_exchange_strong of Unlock.
Unlock(t) ==
    /\ CanRun(t)
    /\ pc[t] = "locked"
    /\ \/ /\ tagOwner = t
          /\ ~tagWait
          /\ tagOwner' = NoThread
          /\ pc' = [pc EXCEPT ![t] = "idle"]
       \/ /\ ~(tagOwner = t /\ ~tagWait)
          /\ pc' = [pc EXCEPT ![t] = "unlockSlow"]
          /\ UNCHANGED tagOwner
    /\ UNCHANGED <<tagWait, oldOwner, waiters, suspendVars, suspended>>

\* Mutant: the next owner is woken, but the tag says the lock is free.
UnlockSlowPathFreesTag(t) ==
    /\ CanRun(t)
    /\ pc[t] = "unlockSlow"
    /\ \E next \in waiters[t] :
            /\ pc' = [pc EXCEPT ![t] = "idle", ![next] = "locked"]
            /\ waiters' = [waiters EXCEPT ![t] = {}, ![next] = waiters[t] \ {next}]
    /\ tagOwner' = NoThread
    /\ tagWait' = FALSE
    /\ UNCHANGED <<oldOwner, suspendVars, suspended>>

\* Mutant: the release waits for a waiter that is not terminating to hand the lock to.
UnlockSlowPathSkipsTerminating(t) ==
    /\ CanRun(t)
    /\ pc[t] = "unlockSlow"
    /\ \/ /\ waiters[t] = {}
          /\ tagOwner' = NoThread
          /\ tagWait' = FALSE
          /\ pc' = [pc EXCEPT ![t] = "idle"]
          /\ suspended' = TrySuspend(t, waiters, suspended)
          /\ UNCHANGED waiters
       \/ \E next \in {w \in waiters[t] : ~terminating[w]} :
            /\ tagOwner' = next
            /\ tagWait' = (waiters[t] # {next})
            /\ pc' = [pc EXCEPT ![t] = "idle", ![next] = "locked"]
            /\ waiters' = [waiters EXCEPT ![t] = {}, ![next] = waiters[t] \ {next}]
            /\ suspended' = TrySuspend(t, waiters',
                                ContinueIfHasKernelWaiters(next, waiters', suspended))
    /\ UNCHANGED <<oldOwner, suspendVars>>

\* UnlockSlowPath: the lock and the remaining waiters go to one of the waiters,
\* which is woken; then a suspension that was put off is made up for.
UnlockSlowPath(t) ==
    /\ CanRun(t)
    /\ pc[t] = "unlockSlow"
    /\ \/ /\ waiters[t] = {}
          /\ tagOwner' = NoThread
          /\ tagWait' = FALSE
          /\ pc' = [pc EXCEPT ![t] = "idle"]
          /\ suspended' = TrySuspend(t, waiters, suspended)
          /\ UNCHANGED waiters
       \/ \E next \in waiters[t] :
            /\ tagOwner' = next
            /\ tagWait' = (waiters[t] # {next})
            /\ pc' = [pc EXCEPT ![t] = "idle", ![next] = "locked"]
            /\ waiters' = [waiters EXCEPT ![t] = {}, ![next] = waiters[t] \ {next}]
            /\ suspended' = TrySuspend(t, waiters',
                                ContinueIfHasKernelWaiters(next, waiters', suspended))
    /\ UNCHANGED <<oldOwner, suspendVars>>

(***************************************************************************)
(* What other threads do to this one.                                      *)
(***************************************************************************)

\* Mutant: the thread is suspended although others wait for it.
RequestSuspendAlways(t, type) ==
    /\ suspendRequest' = [suspendRequest EXCEPT ![t] = @ \cup {type}]
    /\ UNCHANGED <<tagOwner, tagWait, pc, oldOwner, waiters, terminating, suspendAllowed>>
    /\ suspended' = [suspended EXCEPT ![t] = SuspendFlags(t)']

\* KThread::RequestSuspend.
RequestSuspend(t, type) ==
    /\ suspendRequest' = [suspendRequest EXCEPT ![t] = @ \cup {type}]
    /\ UNCHANGED <<tagOwner, tagWait, pc, oldOwner, waiters, terminating, suspendAllowed>>
    /\ suspended' = IF waiters[t] = {}
                    THEN [suspended EXCEPT ![t] = SuspendFlags(t)'] ELSE suspended

\* KThread::Resume, for a request that is there: UpdateState, whether the thread has
\* waiters or not.
Resume(t, type) ==
    /\ type \in suspendRequest[t]
    /\ suspendRequest' = [suspendRequest EXCEPT ![t] = @ \ {type}]
    /\ UNCHANGED <<tagOwner, tagWait, pc, oldOwner, waiters, terminating, suspendAllowed>>
    /\ suspended' = [suspended EXCEPT ![t] = SuspendFlags(t)']

\* KThread::RequestTerminate: a suspension is lifted for good, and if the thread is
\* blocked in LockSlowPath, CancelWait of its queue removes it from the owner's
\* waiters and wakes it, and LockSlowPath returns true.
RequestTerminate(t) ==
    /\ t \in Killable
    /\ ~terminating[t]
    /\ terminating' = [terminating EXCEPT ![t] = TRUE]
    /\ IF SuspendFlags(t) # {}
       THEN /\ suspendAllowed' = [suspendAllowed EXCEPT ![t] = {}]
            /\ suspended' = [suspended EXCEPT ![t] = {}]
       ELSE UNCHANGED <<suspendAllowed, suspended>>
    /\ IF pc[t] = "waiting"
       THEN /\ waiters' = [o \in Threads |-> waiters[o] \ {t}]
            /\ pc' = [pc EXCEPT ![t] = "locked"]
       ELSE UNCHANGED <<waiters, pc>>
    /\ UNCHANGED <<tagOwner, tagWait, oldOwner, suspendRequest>>

Next ==
    \E t \in Threads :
        \/ Lock(t)
        \/ LockExchange(t)
        \/ LockSlowPath(t)
        \/ Unlock(t)
        \/ UnlockSlowPath(t)
        \/ \E type \in SuspendTypes : RequestSuspend(t, type) \/ Resume(t, type)
        \/ RequestTerminate(t)

Spec == Init /\ [][Next]_vars

(***************************************************************************)
(* Safety.                                                                 *)
(***************************************************************************)

TypeOK ==
    /\ tagOwner \in Threads \cup {NoThread}
    /\ tagWait \in BOOLEAN
    /\ pc \in [Threads -> PCs]
    /\ oldOwner \in [Threads -> Threads \cup {NoThread}]
    /\ waiters \in [Threads -> SUBSET Threads]
    /\ terminating \in [Threads -> BOOLEAN]
    /\ suspendAllowed \in [Threads -> SUBSET SuspendTypes]
    /\ suspendRequest \in [Threads -> SUBSET SuspendTypes]
    /\ suspended \in [Threads -> SUBSET SuspendTypes]

\* A thread that has returned from Lock is the one in the tag, which is what
\* IsLockedByCurrentThread tests, so no two threads hold the lock.
HolderIsTagOwner == \A t \in Threads : Holds(t) => tagOwner = t

\* No thread has been asked to terminate.
NoneTerminating == \A t \in Threads : ~terminating[t]

\* Until a thread is terminated, which can make LockSlowPath return as if the lock had
\* been handed over, Lock gives mutual exclusion.
MutexUntilTermination == NoneTerminating => HolderIsTagOwner

\* Until a thread is terminated, a blocked thread is a waiter of exactly the thread
\* that owns the lock, whose tag has the wait bit: the owner cannot release the lock
\* on the fast path and leave the waiter behind.
WaitersAreSeen ==
    NoneTerminating => \A t \in Threads : pc[t] = "waiting" =>
        /\ tagWait
        /\ {o \in Threads : t \in waiters[o]} = {tagOwner}
        /\ Holds(tagOwner)

\* A thread that others wait for in the kernel is never suspended ("Ensure that we
\* have no waiters", k_thread.cpp:780), whatever the order of the requests, the
\* waiters and the hand-overs.
OwnerNotSuspended == \A t \in Threads : suspended[t] # {} => waiters[t] = {}

(***************************************************************************)
(* Liveness: a thread that runs gets on with Lock and Unlock, and does not *)
(* keep the lock for ever.                                                 *)
(***************************************************************************)
FairSpec == Spec /\ \A t \in Threads :
    /\ WF_vars(LockExchange(t))
    /\ WF_vars(LockSlowPath(t))
    /\ WF_vars(Unlock(t))
    /\ WF_vars(UnlockSlowPath(t))

\* A thread that others wait for gives the lock up, even if it is asked to suspend
\* again and again, and even if waiters are terminated.
OwnerReleases == \A t \in Threads : waiters[t] # {} ~> waiters[t] = {}

=============================================================================
