-------------------------- MODULE PriorityInheritance --------------------------
(***************************************************************************)
(* The locks with priority inheritance of KThread: guest mutexes and light *)
(* locks.  A thread keeps a LockWithPriorityInheritanceInfo for each lock  *)
(* it owns that others wait for, and its priority is the best of its base  *)
(* priority and of those of its waiters.  RestorePriority passes a change  *)
(* on along the chain of owners; it is modelled one round at a time, with  *)
(* the scheduler lock held from the first round to the last.               *)
(***************************************************************************)
EXTENDS Naturals, FiniteSets

CONSTANTS
    Threads,        \* the KThreads
    Keys,           \* the address keys of the locks
    KernelKeys,     \* those that are kernel address keys
    Priorities      \* the priorities in use; a smaller number is a higher priority

None == "none"

ASSUME PriorityAssumption ==
    /\ KernelKeys \subseteq Keys
    /\ Priorities \subseteq Nat
    /\ IsFiniteSet(Threads)
    /\ None \notin Threads \cup Keys

VARIABLES
    holder,             \* the thread that owns the lock, None if it is free
    waitsFor,           \* m_waiting_lock_info: the lock a thread waits for
    numKernelWaiters,   \* m_num_kernel_waiters
    base,               \* m_base_priority
    priority,           \* m_priority
    restoring           \* the thread RestorePriority has got to, None outside of it

vars == <<holder, waitsFor, numKernelWaiters, base, priority, restoring>>

Init ==
    /\ holder = [k \in Keys |-> None]
    /\ waitsFor = [t \in Threads |-> None]
    /\ numKernelWaiters = [t \in Threads |-> 0]
    /\ base \in [Threads -> Priorities]
    /\ priority = base
    /\ restoring = None

\* The waiters in the info of lock k, which is there while there are any.
WaitersOn(k) == {t \in Threads : waitsFor[t] = k}

\* GetLockOwner.
LockOwner(t) == IF waitsFor[t] = None THEN None ELSE holder[waitsFor[t]]

\* The waiters of all the locks in m_held_lock_info_list of o.
WaitersOf(o) == {t \in Threads : LockOwner(t) = o}

\* What the priority of t is the least of, and that p is the least.
Candidates(t) == {base[t]} \cup {priority[u] : u \in WaitersOf(t)}
Inherits(t, p) == p \in Candidates(t) /\ \A q \in Candidates(t) : p <= q

\* GetHighestPriorityWaiter; the order of equal priorities is left open.
HighestPriorityWaiters(k) ==
    {t \in WaitersOn(k) : \A u \in WaitersOn(k) : priority[t] <= priority[u]}

KernelWaiters(k) == IF k \in KernelKeys THEN Cardinality(WaitersOn(k)) ELSE 0

(***************************************************************************)
(* RestorePriority.                                                        *)
(***************************************************************************)

\* Mutant: the change is not passed on to the owner of the lock.
RestorePriorityOnce(t) ==
    /\ restoring = t
    /\ \E p \in Priorities : Inherits(t, p) /\ priority' = [priority EXCEPT ![t] = p]
    /\ restoring' = None
    /\ UNCHANGED <<holder, waitsFor, numKernelWaiters, base>>

\* Mutant: the loop goes on with a thread whose priority has not changed.
RestorePriorityForever(t) ==
    /\ restoring = t
    /\ \E p \in Priorities : Inherits(t, p) /\ priority' = [priority EXCEPT ![t] = p]
    /\ restoring' = LockOwner(t)
    /\ UNCHANGED <<holder, waitsFor, numKernelWaiters, base>>

\* One round of the loop.  Taking a waiting thread out of the tree of its lock and
\* putting it back changes nothing but the order of the tree.
RestorePriority(t) ==
    /\ restoring = t
    /\ \E p \in Priorities :
        /\ Inherits(t, p)
        /\ \/ /\ p = priority[t]
              /\ restoring' = None
              /\ UNCHANGED priority
           \/ /\ p # priority[t]
              /\ priority' = [priority EXCEPT ![t] = p]
              /\ restoring' = LockOwner(t)
    /\ UNCHANGED <<holder, waitsFor, numKernelWaiters, base>>

(***************************************************************************)
(* The operations, each with the scheduler lock.                           *)
(***************************************************************************)

Running(t) == waitsFor[t] = None

\* A free lock is taken, by the guest or by the exchange of KLightLock.
Acquire(t, k) ==
    /\ restoring = None
    /\ Running(t)
    /\ holder[k] = None
    /\ holder' = [holder EXCEPT ![k] = t]
    /\ UNCHANGED <<waitsFor, numKernelWaiters, base, priority, restoring>>

\* Mutant: the waiter's base priority is compared, not the one it has inherited.
AddWaiterByBase(t, k) ==
    /\ restoring = None
    /\ Running(t)
    /\ holder[k] # None
    /\ holder[k] = t => k \notin KernelKeys
    /\ waitsFor' = [waitsFor EXCEPT ![t] = k]
    /\ numKernelWaiters' = [numKernelWaiters EXCEPT ![holder[k]] =
                                IF k \in KernelKeys THEN @ + 1 ELSE @]
    /\ restoring' = IF base[t] < priority[holder[k]] THEN holder[k] ELSE None
    /\ UNCHANGED <<holder, base, priority>>

\* AddWaiter.  WaitForAddress takes the owner from the value of the guest's mutex, and
\* that may be the thread itself; a light lock is never taken twice by one thread.
AddWaiter(t, k) ==
    /\ restoring = None
    /\ Running(t)
    /\ holder[k] # None
    /\ holder[k] = t => k \notin KernelKeys
    /\ waitsFor' = [waitsFor EXCEPT ![t] = k]
    /\ numKernelWaiters' = [numKernelWaiters EXCEPT ![holder[k]] =
                                IF k \in KernelKeys THEN @ + 1 ELSE @]
    /\ restoring' = IF priority[t] < priority[holder[k]] THEN holder[k] ELSE None
    /\ UNCHANGED <<holder, base, priority>>

\* RemoveWaiter, when the wait of t is cancelled.
RemoveWaiter(t) ==
    LET o == LockOwner(t)
    IN  /\ restoring = None
        /\ ~Running(t)
        /\ waitsFor' = [waitsFor EXCEPT ![t] = None]
        /\ numKernelWaiters' = [numKernelWaiters EXCEPT ![o] =
                                    IF waitsFor[t] \in KernelKeys THEN @ - 1 ELSE @]
        /\ restoring' = IF priority[o] = priority[t] /\ priority[o] < base[o] THEN o ELSE None
        /\ UNCHANGED <<holder, base, priority>>

\* Mutant: the kernel waiters that are left are not counted for the new owner.
RemoveWaiterByKeyUncounted(o, k) ==
    /\ restoring = None
    /\ Running(o)
    /\ holder[k] = o
    /\ \E next \in HighestPriorityWaiters(k) :
        /\ holder' = [holder EXCEPT ![k] = next]
        /\ waitsFor' = [waitsFor EXCEPT ![next] = None]
        /\ numKernelWaiters' = [numKernelWaiters EXCEPT ![o] = @ - KernelWaiters(k)]
        /\ restoring' = IF priority[o] = priority[next] /\ priority[o] < base[o]
                        THEN o ELSE None
    /\ UNCHANGED <<base, priority>>

\* RemoveWaiterByKey: the lock goes to its highest priority waiter with the info and the
\* waiters that are left, or is free.
RemoveWaiterByKey(o, k) ==
    /\ restoring = None
    /\ Running(o)
    /\ holder[k] = o
    /\ \/ /\ WaitersOn(k) = {}
          /\ holder' = [holder EXCEPT ![k] = None]
          /\ UNCHANGED <<waitsFor, numKernelWaiters, restoring>>
       \/ \E next \in HighestPriorityWaiters(k) :
            /\ holder' = [holder EXCEPT ![k] = next]
            /\ waitsFor' = [waitsFor EXCEPT ![next] = None]
            /\ numKernelWaiters' = [numKernelWaiters EXCEPT
                    ![o] = @ - KernelWaiters(k), ![next] = @ + KernelWaiters(k)']
            /\ restoring' = IF priority[o] = priority[next] /\ priority[o] < base[o]
                            THEN o ELSE None
    /\ UNCHANGED <<base, priority>>

\* SetBasePriority.
SetBasePriority(t, value) ==
    /\ restoring = None
    /\ base' = [base EXCEPT ![t] = value]
    /\ restoring' = t
    /\ UNCHANGED <<holder, waitsFor, numKernelWaiters, priority>>

\* IncreaseBasePriority.
IncreaseBasePriority(t, value) ==
    /\ restoring = None
    /\ base[t] > value
    /\ base' = [base EXCEPT ![t] = value]
    /\ restoring' = t
    /\ UNCHANGED <<holder, waitsFor, numKernelWaiters, priority>>

Next ==
    \E t \in Threads :
        \/ \E k \in Keys : Acquire(t, k) \/ AddWaiter(t, k) \/ RemoveWaiterByKey(t, k)
        \/ RemoveWaiter(t)
        \/ \E p \in Priorities : SetBasePriority(t, p) \/ IncreaseBasePriority(t, p)
        \/ RestorePriority(t)

Spec == Init /\ [][Next]_vars

\* RestorePriority runs to its end: it is one call.
FairSpec == Spec /\ WF_vars(\E t \in Threads : RestorePriority(t))

(***************************************************************************)
(* Properties.                                                             *)
(***************************************************************************)

TypeOK ==
    /\ holder \in [Keys -> Threads \cup {None}]
    /\ waitsFor \in [Threads -> Keys \cup {None}]
    /\ numKernelWaiters \in [Threads -> 0..Cardinality(Threads)]
    /\ base \in [Threads -> Priorities]
    /\ priority \in [Threads -> Priorities]
    /\ restoring \in Threads \cup {None}

\* m_num_kernel_waiters, which puts off suspension, counts the waiters of the kernel
\* locks a thread owns, however the locks have been handed on.
KernelWaitersCounted ==
    \A t \in Threads : numKernelWaiters[t] =
        Cardinality({u \in WaitersOf(t) : waitsFor[u] \in KernelKeys})

\* When no change is being passed on, the priority of every thread is the best of its
\* base priority and of those of its waiters: the tests that let AddWaiter, RemoveWaiter
\* and RemoveWaiterByKey leave RestorePriority out lose nothing.
PriorityInherited == restoring = None => \A t \in Threads : Inherits(t, priority[t])

\* The threads t waits for, directly or through others: the least set that has the owner
\* of the lock it waits for, and with a thread the owner of the lock that one waits for.
Chain(t) ==
    LET Closed(U) == \A u \in U \cup {t} : LockOwner(u) \in Threads => LockOwner(u) \in U
    IN  {o \in Threads : \A U \in SUBSET Threads : Closed(U) => o \in U}

\* Unless threads wait for each other in a circle, the priorities that RestorePriority
\* (k_thread.cpp:1019) leaves are the ones that follow from the whole graph of waiters:
\* the priority of a thread is the best base priority of the threads that wait for it,
\* directly or through others, and of itself.  No inherited priority is kept when its
\* cause is gone, and none is missed along a chain.
PriorityIsEffective ==
    (restoring = None /\ \A t \in Threads : t \notin Chain(t)) =>
        \A t \in Threads :
            LET causes == {u \in Threads : u = t \/ t \in Chain(u)}
            IN  /\ \E u \in causes : priority[t] = base[u]
                /\ \A u \in causes : priority[t] <= base[u]

\* RestorePriority ends, also when threads wait for each other in a circle.
RestorePriorityEnds == restoring # None ~> restoring = None

=============================================================================
