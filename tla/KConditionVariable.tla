-------------------------- MODULE KConditionVariable --------------------------
(***************************************************************************)
(* The guest mutex and the condition variable of a process: one mutex word *)
(* (the tag) and one condition variable key in guest memory, which guest   *)
(* code changes with atomic instructions at any time, and KConditionVariable *)
(* under the scheduler lock.  Its handlers are split where they touch      *)
(* guest memory, since guest code on other cores goes on meanwhile.  The   *)
(* guest follows the locking protocol the handlers are made for.  Threads  *)
(* may be terminated or exit with the mutex, and be destroyed.             *)
(***************************************************************************)
EXTENDS Naturals, FiniteSets

CONSTANTS
    Threads,        \* the KThreads of the process
    Priority,       \* their priorities; a smaller number is a higher priority
    Mortal          \* the threads that may be terminated or exit

None == "none"

ASSUME ThreadAssumption ==
    /\ None \notin Threads
    /\ IsFiniteSet(Threads)
    /\ Priority \in [Threads -> Nat]
    /\ Mortal \subseteq Threads

VARIABLES
    tagOwner,       \* the handle in the mutex word, None for 0
    tagWait,        \* HandleWaitMask of the mutex word
    cvFlag,         \* the word at the condition variable key
    lockOwner,      \* GetLockOwner: who keeps a thread as a waiter for the mutex
    cvTree,         \* m_tree
    timed,          \* the threads with a task in the hardware timer
    pc,             \* where a thread is
    handle,         \* the handle a thread has passed to WaitForAddress
    next,           \* next_owner_thread of the handler that runs
    budget,         \* how many threads Signal may still wake
    locked,         \* the thread that holds the scheduler lock
    holds,          \* whether the guest code of a thread has the mutex
    terminating,    \* m_termination_requested
    crashed         \* whether a call was made through a null pointer

guestVars == <<tagOwner, tagWait, cvFlag, holds>>
waitVars == <<lockOwner, cvTree, timed>>
callVars == <<handle, next, budget, locked>>
vars == <<guestVars, waitVars, pc, callVars, terminating, crashed>>

\* "guest" and "relock" are guest code, outside and inside its lock function; "arbWait"
\* and "cvWait" are the waits of WaitForAddress and of Wait; "dead" is terminated,
\* "closed" has no handle any more, "gone" is destroyed.
PCs == {"guest", "relock", "arbLock", "arbAdd", "arbWait", "unlock", "unlockWrite",
        "wait", "waitWrite", "cvWait", "signal", "signalLoop", "dead", "closed", "gone"}

Init ==
    /\ tagOwner = None
    /\ tagWait = FALSE
    /\ cvFlag = FALSE
    /\ lockOwner = [t \in Threads |-> None]
    /\ cvTree = {}
    /\ timed = {}
    /\ pc = [t \in Threads |-> "guest"]
    /\ handle = [t \in Threads |-> None]
    /\ next = None
    /\ budget = 0
    /\ locked = None
    /\ holds = [t \in Threads |-> FALSE]
    /\ terminating = [t \in Threads |-> FALSE]
    /\ crashed = FALSE

WaitersOf(o) == {t \in Threads : lockOwner[t] = o}

\* Mutant: the order of the tree is reversed.
FrontReversed(S) == {t \in S : \A u \in S : Priority[t] >= Priority[u]}

\* The front of a tree sorted by priority; the order of equal priorities is left open.
Front(S) == {t \in S : \A u \in S : Priority[t] <= Priority[u]}

\* The handle table finds the thread.
HandleIsValid(t) == pc[t] \notin {"closed", "gone"}

(***************************************************************************)
(* Guest code.                                                             *)
(***************************************************************************)

\* The lock function: take the free mutex, find that it was handed over, or set the
\* wait bit and call ArbitrateLock with the owner's handle.
GuestLock(t) ==
    /\ pc[t] \in {"guest", "relock"}
    /\ ~holds[t]
    /\ \/ /\ tagOwner \in {None, t}
          /\ tagOwner' = t
          /\ holds' = [holds EXCEPT ![t] = TRUE]
          /\ handle' = [handle EXCEPT ![t] = None]
          /\ pc' = [pc EXCEPT ![t] = "guest"]
          /\ UNCHANGED tagWait
       \/ /\ tagOwner \notin {None, t}
          /\ tagWait' = TRUE
          /\ handle' = [handle EXCEPT ![t] = tagOwner]
          /\ pc' = [pc EXCEPT ![t] = "arbLock"]
          /\ UNCHANGED <<tagOwner, holds>>
    /\ UNCHANGED <<cvFlag, waitVars, next, budget, locked, terminating, crashed>>

\* The unlock function: clear the word, or call ArbitrateUnlock if the wait bit is set.
GuestUnlock(t) ==
    /\ pc[t] = "guest"
    /\ holds[t]
    /\ \/ /\ ~tagWait
          /\ tagOwner' = None
          /\ holds' = [holds EXCEPT ![t] = FALSE]
          /\ UNCHANGED pc
       \/ /\ tagWait
          /\ pc' = [pc EXCEPT ![t] = "unlock"]
          /\ UNCHANGED <<tagOwner, holds>>
    /\ UNCHANGED <<tagWait, cvFlag, waitVars, callVars, terminating, crashed>>

\* WaitProcessWideKeyAtomic, called with the mutex.
GuestWait(t) ==
    /\ pc[t] = "guest"
    /\ holds[t]
    /\ pc' = [pc EXCEPT ![t] = "wait"]
    /\ UNCHANGED <<guestVars, waitVars, callVars, terminating, crashed>>

\* SignalProcessWideKey, called with or without the mutex if the key says there are
\* waiters.
GuestSignal(t) ==
    /\ pc[t] = "guest"
    /\ cvFlag
    /\ pc' = [pc EXCEPT ![t] = "signal"]
    /\ UNCHANGED <<guestVars, waitVars, callVars, terminating, crashed>>

Guest(t) == GuestLock(t) \/ GuestUnlock(t) \/ GuestWait(t) \/ GuestSignal(t)

(***************************************************************************)
(* What the handlers share.                                                *)
(***************************************************************************)

\* The handler of t takes the scheduler lock and runs up to step to.
Enter(t, from, to) ==
    /\ locked = None
    /\ pc[t] = from
    /\ locked' = t
    /\ pc' = [pc EXCEPT ![t] = to]

\* KThread::CancelWait: the thread is taken from its owner and from m_tree, and the wait
\* returns an error, after which the guest locks the mutex again.
CancelWait(t) ==
    /\ lockOwner' = [lockOwner EXCEPT ![t] = None]
    /\ cvTree' = cvTree \ {t}
    /\ timed' = timed \ {t}
    /\ pc' = [pc EXCEPT ![t] = "relock"]

\* Mutant: the waiters that are left stay without an owner.
RemoveUserWaiterByKeyDrops(t) ==
    \/ /\ WaitersOf(t) = {}
       /\ next' = None
       /\ UNCHANGED lockOwner
    \/ \E u \in Front(WaitersOf(t)) :
        /\ next' = u
        /\ lockOwner' = [v \in Threads |-> IF lockOwner[v] = t THEN None ELSE lockOwner[v]]

\* KThread::RemoveUserWaiterByKey: the front waiter becomes the next owner and gets the
\* waiters that are left.
RemoveUserWaiterByKey(t) ==
    \/ /\ WaitersOf(t) = {}
       /\ next' = None
       /\ UNCHANGED lockOwner
    \/ \E u \in Front(WaitersOf(t)) :
        /\ next' = u
        /\ lockOwner' = [v \in Threads |-> IF v = u THEN None
                                           ELSE IF lockOwner[v] = t THEN u ELSE lockOwner[v]]

\* The tag for the next owner: its handle, with the wait bit if it has waiters, or 0.
WriteTag ==
    /\ tagOwner' = next
    /\ tagWait' = (next # None /\ WaitersOf(next) # {})

\* The end of a handler of t that gave up the mutex: t goes on at step to, the next
\* owner's wait ends with success.  If that was a WaitForAddress, the guest's lock
\* function reads the word again; if it was a Wait, the guest has the mutex.
HandOver(t, to) ==
    /\ pc' = [u \in Threads |-> CASE u = t -> to
                                  [] u = next -> IF pc[u] = "arbWait" THEN "relock" ELSE "guest"
                                  [] OTHER -> pc[u]]
    /\ holds' = [u \in Threads |-> CASE u = t -> FALSE
                                     [] u = next -> pc[u] = "cvWait"
                                     [] OTHER -> holds[u]]
    /\ locked' = None
    /\ next' = None

(***************************************************************************)
(* WaitForAddress and SignalToAddress.                                     *)
(***************************************************************************)

\* Mutant: the tag is not read again under the scheduler lock.
WaitForAddressUnread(t) ==
    /\ Enter(t, "arbLock", "arbAdd")
    /\ UNCHANGED <<guestVars, waitVars, handle, next, budget, terminating, crashed>>

\* Up to the read of the tag: return if the thread terminates, or if the tag is no
\* longer the owner's with the wait bit.
WaitForAddress(t) ==
    /\ IF ~terminating[t] /\ tagOwner = handle[t] /\ tagWait
       THEN Enter(t, "arbLock", "arbAdd")
       ELSE /\ locked = None
            /\ pc[t] = "arbLock"
            /\ pc' = [pc EXCEPT ![t] = "relock"]
            /\ UNCHANGED locked
    /\ UNCHANGED <<guestVars, waitVars, handle, next, budget, terminating, crashed>>

\* The rest: wait with the owner, if its handle is valid.
WaitForAddressAdd(t) ==
    /\ pc[t] = "arbAdd"
    /\ \/ /\ HandleIsValid(handle[t])
          /\ lockOwner' = [lockOwner EXCEPT ![t] = handle[t]]
          /\ pc' = [pc EXCEPT ![t] = "arbWait"]
       \/ /\ ~HandleIsValid(handle[t])
          /\ pc' = [pc EXCEPT ![t] = "relock"]
          /\ UNCHANGED lockOwner
    /\ locked' = None
    /\ UNCHANGED <<guestVars, cvTree, timed, handle, next, budget, terminating, crashed>>

\* SignalToAddress, up to the write of the tag.
SignalToAddress(t) ==
    /\ Enter(t, "unlock", "unlockWrite")
    /\ RemoveUserWaiterByKey(t)
    /\ UNCHANGED <<guestVars, cvTree, timed, handle, budget, terminating, crashed>>

\* The write of the tag, and the end of the next owner's wait.
SignalToAddressWrite(t) ==
    /\ pc[t] = "unlockWrite"
    /\ WriteTag
    /\ HandOver(t, "guest")
    /\ timed' = timed \ {next}
    /\ UNCHANGED <<cvFlag, lockOwner, cvTree, handle, budget, terminating, crashed>>

(***************************************************************************)
(* Wait and Signal.                                                        *)
(***************************************************************************)

\* Wait, up to the write of the key; a thread that terminates keeps the mutex.
Wait(t) ==
    /\ IF terminating[t]
       THEN /\ locked = None
            /\ pc[t] = "wait"
            /\ pc' = [pc EXCEPT ![t] = "guest"]
            /\ UNCHANGED <<locked, lockOwner, next, cvFlag>>
       ELSE /\ Enter(t, "wait", "waitWrite")
            /\ RemoveUserWaiterByKey(t)
            /\ cvFlag' = TRUE
    /\ UNCHANGED <<tagOwner, tagWait, holds, cvTree, timed, handle, budget, terminating, crashed>>

\* The write of the tag; then the timeout is zero, or the wait begins, with a task in the
\* timer if the timeout is positive.
WaitWrite(t) ==
    /\ pc[t] = "waitWrite"
    /\ WriteTag
    /\ \/ /\ HandOver(t, "relock")
          /\ timed' = timed \ {next}
          /\ UNCHANGED cvTree
       \/ /\ HandOver(t, "cvWait")
          /\ timed' \in {timed \ {next}, (timed \ {next}) \cup {t}}
          /\ cvTree' = cvTree \cup {t}
    /\ UNCHANGED <<cvFlag, lockOwner, handle, budget, terminating, crashed>>

\* Signal, up to the loop.  The largest count wakes all, as count <= 0 does.
Signal(t) ==
    /\ Enter(t, "signal", "signalLoop")
    /\ budget' \in 1..Cardinality(Threads)
    /\ UNCHANGED <<guestVars, waitVars, handle, next, terminating, crashed>>

SignalGoesOn == budget # 0 /\ cvTree # {}

\* UpdateLockAtomic with HandleWaitMask: take the free mutex for u, or set the wait bit.
UpdateLockAtomic(u) ==
    /\ tagOwner' = IF tagOwner = None THEN u ELSE tagOwner
    /\ tagWait' = (tagOwner # None)

\* Mutant: the signalled thread goes on although the mutex has an owner.
SignalImplEndsWait(u) ==
    /\ UpdateLockAtomic(u)
    /\ holds' = [holds EXCEPT ![u] = TRUE]
    /\ pc' = [pc EXCEPT ![u] = "guest"]
    /\ timed' = timed \ {u}
    /\ UNCHANGED lockOwner

\* SignalImpl for thread u: one atomic update of the tag, then u has the mutex, waits
\* with its owner, or gets an error if there is no such owner.
SignalImpl(u) ==
    /\ UpdateLockAtomic(u)
    /\ \/ /\ tagOwner = None
          /\ holds' = [holds EXCEPT ![u] = TRUE]
          /\ pc' = [pc EXCEPT ![u] = "guest"]
          /\ timed' = timed \ {u}
          /\ UNCHANGED lockOwner
       \/ /\ tagOwner # None
          /\ HandleIsValid(tagOwner)
          /\ lockOwner' = [lockOwner EXCEPT ![u] = tagOwner]
          /\ UNCHANGED <<holds, pc, timed>>
       \/ /\ tagOwner # None
          /\ ~HandleIsValid(tagOwner)
          /\ pc' = [pc EXCEPT ![u] = "relock"]
          /\ timed' = timed \ {u}
          /\ UNCHANGED <<holds, lockOwner>>

\* One round of the loop of Signal.
SignalNext(t) ==
    /\ pc[t] = "signalLoop"
    /\ SignalGoesOn
    /\ \E u \in Front(cvTree) :
        /\ cvTree' = cvTree \ {u}
        /\ SignalImpl(u)
    /\ budget' = budget - 1
    /\ UNCHANGED <<cvFlag, handle, next, locked, terminating, crashed>>

\* Mutant: the key is cleared although threads still wait.
SignalEndClears(t) ==
    /\ pc[t] = "signalLoop"
    /\ ~SignalGoesOn
    /\ cvFlag' = FALSE
    /\ budget' = 0
    /\ locked' = None
    /\ pc' = [pc EXCEPT ![t] = "guest"]
    /\ UNCHANGED <<tagOwner, tagWait, holds, waitVars, handle, next, terminating, crashed>>

\* The end of Signal: the key is cleared if nobody waits any more.
SignalEnd(t) ==
    /\ pc[t] = "signalLoop"
    /\ ~SignalGoesOn
    /\ cvFlag' = (cvFlag /\ cvTree # {})
    /\ budget' = 0
    /\ locked' = None
    /\ pc' = [pc EXCEPT ![t] = "guest"]
    /\ UNCHANGED <<tagOwner, tagWait, holds, waitVars, handle, next, terminating, crashed>>

(***************************************************************************)
(* Timeouts, and the end of threads.                                       *)
(***************************************************************************)

\* KThread::OnTimer.
OnTimer(t) ==
    /\ locked = None
    /\ t \in timed
    /\ CancelWait(t)
    /\ UNCHANGED <<guestVars, callVars, terminating, crashed>>

\* KThread::RequestTerminate.
RequestTerminate(t) ==
    /\ t \in Mortal
    /\ locked = None
    /\ ~terminating[t]
    /\ terminating' = [terminating EXCEPT ![t] = TRUE]
    /\ IF pc[t] \in {"arbWait", "cvWait"} THEN CancelWait(t) ELSE UNCHANGED <<waitVars, pc>>
    /\ UNCHANGED <<guestVars, callVars, crashed>>

\* KThread::Exit, of a thread that terminates; one that exits of its own accord does the
\* same.  The mutex and the threads that wait for it are left as they are.
Exit(t) ==
    /\ locked = None
    /\ terminating[t]
    /\ pc[t] \in {"guest", "relock"}
    /\ pc' = [pc EXCEPT ![t] = "dead"]
    /\ UNCHANGED <<guestVars, waitVars, callVars, terminating, crashed>>

\* The last handle of a terminated thread is closed.
CloseHandle(t) ==
    /\ pc[t] = "dead"
    /\ pc' = [pc EXCEPT ![t] = "closed"]
    /\ UNCHANGED <<guestVars, waitVars, callVars, terminating, crashed>>

\* A thread in WaitForAddress has a reference to the owner it named.
Referenced(t) == \E u \in Threads : pc[u] = "arbWait" /\ handle[u] = t

\* KThread::Finalize, when the last reference is closed: the waiters are taken from the
\* lock and their waits cancelled.  CancelWait of WaitForAddress then finds no owner and
\* makes its call through a null pointer.
Finalize(t) ==
    /\ locked = None
    /\ pc[t] = "closed"
    /\ ~Referenced(t)
    /\ crashed' = \E u \in WaitersOf(t) : pc[u] = "arbWait"
    /\ lockOwner' = [u \in Threads |-> IF lockOwner[u] = t THEN None ELSE lockOwner[u]]
    /\ timed' = timed \ WaitersOf(t)
    /\ pc' = [u \in Threads |-> IF u = t THEN "gone"
                                ELSE IF lockOwner[u] = t THEN "relock" ELSE pc[u]]
    /\ UNCHANGED <<guestVars, cvTree, callVars, terminating>>

(***************************************************************************)
(* The specification.                                                      *)
(***************************************************************************)

\* A system call of t takes the scheduler lock; it goes on with it.
Begin(t) == WaitForAddress(t) \/ SignalToAddress(t) \/ Wait(t) \/ Signal(t)
Continue(t) ==
    \/ WaitForAddressAdd(t)
    \/ SignalToAddressWrite(t)
    \/ WaitWrite(t)
    \/ SignalNext(t)
    \/ SignalEnd(t)

End(t) == OnTimer(t) \/ RequestTerminate(t) \/ Exit(t) \/ CloseHandle(t) \/ Finalize(t)

Next == ~crashed /\ \E t \in Threads : Guest(t) \/ Begin(t) \/ Continue(t) \/ End(t)

Spec == Init /\ [][Next]_vars

\* A handler that has the scheduler lock goes on, nobody is kept from the scheduler lock
\* for ever, and guest code goes on in its lock function and gives the mutex back.
FairSpec ==
    /\ Spec
    /\ \A t \in Threads :
        /\ WF_vars(Continue(t))
        /\ SF_vars(Begin(t))
        /\ WF_vars(pc[t] = "relock" /\ GuestLock(t))
        /\ SF_vars(GuestUnlock(t) \/ GuestWait(t))

(***************************************************************************)
(* Properties.                                                             *)
(***************************************************************************)

\* The types; a mutex word without an owner is 0, so that guest code can take the mutex.
TypeOK ==
    /\ tagOwner \in Threads \cup {None}
    /\ tagWait \in BOOLEAN
    /\ tagWait => tagOwner # None
    /\ cvFlag \in BOOLEAN
    /\ lockOwner \in [Threads -> Threads \cup {None}]
    /\ cvTree \subseteq Threads
    /\ timed \subseteq Threads
    /\ pc \in [Threads -> PCs]
    /\ handle \in [Threads -> Threads \cup {None}]
    /\ next \in Threads \cup {None}
    /\ budget \in 0..Cardinality(Threads)
    /\ locked \in Threads \cup {None}
    /\ holds \in [Threads -> BOOLEAN]
    /\ terminating \in [Threads -> BOOLEAN]
    /\ crashed \in BOOLEAN

\* Two threads never have the guest mutex at once, although the handlers write the word
\* without an atomic exchange while guest code changes it.
MutualExclusion == \A t, u \in Threads : holds[t] /\ holds[u] => t = u

\* Outside of a handler, a thread that is kept as a waiter waits for the thread the word
\* names, and the word has the wait bit: the owner's unlock calls the kernel.
WaiterIsTagged ==
    locked = None => \A t \in Threads :
        lockOwner[t] # None => tagOwner = lockOwner[t] /\ tagWait

\* While a thread waits for the condition variable the key says so: the guest does not
\* leave the signal out.
KeyShowsWaiters == cvTree # {} => cvFlag

\* Outside of a handler, a blocked thread is in exactly one place from which it can be
\* woken: the waiters of an owner, or m_tree.
BlockedIsKept ==
    locked = None => \A t \in Threads :
        /\ t \in cvTree => pc[t] = "cvWait" /\ lockOwner[t] = None
        /\ lockOwner[t] # None => pc[t] \in {"arbWait", "cvWait"}
        /\ pc[t] \in {"arbWait", "cvWait"} => t \in cvTree \/ lockOwner[t] # None
        /\ t \in timed => pc[t] = "cvWait"

\* A thread above all the others in priority that waits for the mutex without a timeout
\* gets it, unless a thread ends.
HighestPriorityIsServed ==
    \A t \in Threads : (\A u \in Threads \ {t} : Priority[t] < Priority[u]) =>
        (lockOwner[t] # None /\ t \notin timed) ~>
            (holds[t] \/ \E u \in Threads : terminating[u])

=============================================================================
