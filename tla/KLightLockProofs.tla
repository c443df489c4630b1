--------------------------- MODULE KLightLockProofs ---------------------------
(***************************************************************************)
(* Proofs about KLightLock, for any number of threads: mutual exclusion    *)
(* and that no waiter is left behind, until a thread is terminated; and    *)
(* that an owner with waiters is not suspended, when there is only one     *)
(* type of suspension.                                                     *)
(***************************************************************************)
EXTENDS KLightLock, TLAPS

\* The tag names the thread that holds the lock.
TagOwnerHolds == tagOwner # NoThread => Holds(tagOwner)

\* The waiters are the blocked threads, they are kept by the owner, and the tag says
\* that there are some.
WaitersOfOwner ==
    \A o \in Threads : waiters[o] # {} => tagOwner = o /\ tagWait

WaitersBlocked ==
    \A t \in Threads : pc[t] = "waiting" <=> \E o \in Threads : t \in waiters[o]

\* A thread on its way to LockSlowPath has read a tag that was not 0.
OldOwnerRead == \A t \in Threads : pc[t] = "lockSlow" => oldOwner[t] \in Threads

LockInv == HolderIsTagOwner /\ TagOwnerHolds /\ WaitersOfOwner /\ WaitersBlocked

Inv ==
    /\ TypeOK
    /\ OldOwnerRead
    /\ NoneTerminating => LockInv

\* The variables have their types in every step.
LEMMA TypeStep == TypeOK /\ OldOwnerRead /\ [Next]_vars => TypeOK' /\ OldOwnerRead'
<1> SUFFICES ASSUME TypeOK, OldOwnerRead, [Next]_vars PROVE TypeOK' /\ OldOwnerRead'
    OBVIOUS
<1> USE DEF TypeOK, OldOwnerRead, PCs
<1>1. CASE UNCHANGED vars
    BY <1>1 DEF vars, suspendVars
<1>2. ASSUME NEW t \in Threads, Lock(t) PROVE TypeOK' /\ OldOwnerRead'
    BY <1>2 DEF Lock, suspendVars
<1>8. ASSUME NEW t \in Threads, LockExchange(t) PROVE TypeOK' /\ OldOwnerRead'
    <2>1. CASE tagOwner = NoThread
        BY <1>8, <2>1 DEF LockExchange, suspendVars
    <2>2. CASE tagOwner # NoThread
        <3>1. /\ tagOwner \in Threads
              /\ tagWait' = TRUE
              /\ oldOwner' = [oldOwner EXCEPT ![t] = tagOwner]
              /\ pc' = [pc EXCEPT ![t] = "lockSlow"]
              /\ UNCHANGED <<tagOwner, waiters, suspendVars, suspended>>
            BY <1>8, <2>2 DEF LockExchange
        <3>2. TypeOK'
            BY <3>1 DEF suspendVars
        <3>3. OldOwnerRead'
            BY <3>1
        <3> QED BY <3>2, <3>3
    <2> QED BY <2>1, <2>2
<1>3. ASSUME NEW t \in Threads, LockSlowPath(t) PROVE TypeOK' /\ OldOwnerRead'
    BY <1>3 DEF LockSlowPath, ContinueIfHasKernelWaiters, suspendVars
<1>4. CASE \E t \in Threads : Unlock(t)
    BY <1>4 DEF Unlock, suspendVars
<1>5. ASSUME NEW t \in Threads, UnlockSlowPath(t) PROVE TypeOK' /\ OldOwnerRead'
    <2>1. CASE waiters[t] = {}
        <3>1. /\ tagOwner' = NoThread
              /\ tagWait' = FALSE
              /\ pc' = [pc EXCEPT ![t] = "idle"]
              /\ suspended' = TrySuspend(t, waiters, suspended)
              /\ UNCHANGED <<waiters, oldOwner, suspendVars>>
            BY <1>5, <2>1 DEF UnlockSlowPath
        <3>2. suspended' \in [Threads -> SUBSET SuspendTypes]
            BY <3>1 DEF TrySuspend, SuspendFlags
        <3> QED BY <3>1, <3>2 DEF suspendVars
    <2>2. CASE waiters[t] # {}
        <3>1. PICK next \in waiters[t] :
                /\ tagOwner' = next
                /\ tagWait' = (waiters[t] # {next})
                /\ pc' = [pc EXCEPT ![t] = "idle", ![next] = "locked"]
                /\ waiters' = [waiters EXCEPT ![t] = {}, ![next] = waiters[t] \ {next}]
                /\ suspended' = TrySuspend(t, waiters',
                                    ContinueIfHasKernelWaiters(next, waiters', suspended))
            BY <1>5, <2>2 DEF UnlockSlowPath
        <3>2. UNCHANGED <<oldOwner, suspendVars>>
            BY <1>5 DEF UnlockSlowPath
        <3>3. suspended' \in [Threads -> SUBSET SuspendTypes]
            BY <3>1 DEF TrySuspend, ContinueIfHasKernelWaiters, SuspendFlags
        <3> QED BY <3>1, <3>2, <3>3 DEF suspendVars
    <2> QED BY <2>1, <2>2
<1>6. ASSUME NEW t \in Threads, NEW type \in SuspendTypes,
             RequestSuspend(t, type) \/ Resume(t, type)
      PROVE TypeOK' /\ OldOwnerRead'
    <2>1. suspendRequest' \in [Threads -> SUBSET SuspendTypes]
        BY <1>6 DEF RequestSuspend, Resume
    <2>2. suspendAllowed' = suspendAllowed
        BY <1>6 DEF RequestSuspend, Resume
    <2>3. SuspendFlags(t)' \in SUBSET SuspendTypes
        BY <2>1, <2>2 DEF SuspendFlags
    <2>4. suspended' \in [Threads -> SUBSET SuspendTypes]
        BY <1>6, <2>3 DEF RequestSuspend, Resume
    <2> QED BY <1>6, <2>1, <2>4 DEF RequestSuspend, Resume
<1>7. ASSUME NEW t \in Threads, RequestTerminate(t) PROVE TypeOK' /\ OldOwnerRead'
    BY <1>7 DEF RequestTerminate, SuspendFlags
<1> QED BY <1>1, <1>2, <1>3, <1>4, <1>5, <1>6, <1>7, <1>8 DEF Next

\* Inv holds initially.
LEMMA InvInit == Init => Inv
BY DEF Init, Inv, LockInv, TypeOK, PCs, HolderIsTagOwner, Holds, TagOwnerHolds, WaitersOfOwner,
       WaitersBlocked, OldOwnerRead, NoThread

\* A request to terminate is never taken back.
LEMMA TerminatingStep ==
    ASSUME TypeOK, [Next]_vars, NoneTerminating'
    PROVE  NoneTerminating
<1> SUFFICES ASSUME NEW t \in Threads, terminating[t] PROVE terminating'[t]
    BY DEF NoneTerminating
<1>1. ASSUME NEW u \in Threads, RequestTerminate(u) PROVE terminating'[t]
    BY <1>1 DEF RequestTerminate, TypeOK
<1>2. ASSUME NEW u \in Threads, Lock(u) \/ LockExchange(u) \/ LockSlowPath(u) \/ Unlock(u)
                                \/ UnlockSlowPath(u)
      PROVE terminating'[t]
    BY <1>2 DEF Lock, LockExchange, LockSlowPath, Unlock, UnlockSlowPath, suspendVars
<1>3. ASSUME NEW u \in Threads, NEW type \in SuspendTypes,
             RequestSuspend(u, type) \/ Resume(u, type)
      PROVE terminating'[t]
    BY <1>3 DEF RequestSuspend, Resume
<1>4. CASE UNCHANGED vars
    BY <1>4 DEF vars, suspendVars
<1> QED BY <1>1, <1>2, <1>3, <1>4 DEF Next

\* Inv is preserved by every step.
LEMMA InvStep == Inv /\ [Next]_vars => Inv'
<1> SUFFICES ASSUME Inv, [Next]_vars PROVE Inv'
    OBVIOUS
<1>0. TypeOK /\ OldOwnerRead /\ TypeOK' /\ OldOwnerRead'
    BY TypeStep DEF Inv
<1> SUFFICES ASSUME NoneTerminating' PROVE LockInv'
    BY <1>0 DEF Inv
<1>a. LockInv
    BY <1>0, TerminatingStep DEF Inv
<1> USE DEF LockInv, HolderIsTagOwner, TagOwnerHolds, Holds, WaitersOfOwner, WaitersBlocked
<1>1. ASSUME UNCHANGED vars PROVE LockInv'
    BY <1>a, <1>1 DEF vars
<1>2. ASSUME NEW t \in Threads, Lock(t) PROVE LockInv'
    BY <1>a, <1>0, <1>2 DEF Lock, TypeOK
<1>3. ASSUME NEW t \in Threads, LockExchange(t) PROVE LockInv'
    BY <1>a, <1>0, <1>3, LockAssumption DEF LockExchange, TypeOK
<1>4. ASSUME NEW t \in Threads, LockSlowPath(t) PROVE LockInv'
    <2>1. CASE ~(tagOwner = oldOwner[t] /\ tagWait)
        BY <1>a, <1>0, <1>4, <2>1 DEF LockSlowPath, TypeOK
    <2>2. CASE tagOwner = oldOwner[t] /\ tagWait
        <3>1. /\ pc' = [pc EXCEPT ![t] = "waiting"]
              /\ waiters' = [waiters EXCEPT ![tagOwner] = @ \cup {t}]
              /\ tagOwner \in Threads
              /\ tagOwner' = tagOwner
              /\ tagWait'
            BY <1>0, <1>4, <2>2 DEF LockSlowPath, OldOwnerRead
        <3>2. pc[t] = "lockSlow" /\ tagOwner # t
            BY <1>a, <1>4, <3>1, LockAssumption DEF LockSlowPath
        <3>3. HolderIsTagOwner' /\ TagOwnerHolds'
            BY <1>a, <1>0, <3>1, <3>2 DEF TypeOK
        <3>4. WaitersOfOwner' /\ WaitersBlocked'
            BY <1>a, <1>0, <3>1, <3>2 DEF TypeOK
        <3> QED BY <3>3, <3>4
    <2> QED BY <2>1, <2>2
<1>5. ASSUME NEW t \in Threads, Unlock(t) PROVE LockInv'
    <2>1. CASE tagOwner = t /\ ~tagWait
        BY <1>a, <1>0, <1>5, <2>1, LockAssumption DEF Unlock, TypeOK
    <2>2. CASE ~(tagOwner = t /\ ~tagWait)
        BY <1>a, <1>0, <1>5, <2>2, LockAssumption DEF Unlock, TypeOK
    <2> QED BY <2>1, <2>2
<1>6. ASSUME NEW t \in Threads, UnlockSlowPath(t) PROVE LockInv'
    <2>0. tagOwner = t /\ t # NoThread
        BY <1>a, <1>6, LockAssumption DEF UnlockSlowPath
    <2>1. CASE waiters[t] = {}
        BY <1>a, <1>0, <1>6, <2>0, <2>1, LockAssumption DEF UnlockSlowPath, TypeOK
    <2>2. CASE waiters[t] # {}
        <3>1. PICK next \in waiters[t] :
                /\ tagOwner' = next
                /\ tagWait' = (waiters[t] # {next})
                /\ pc' = [pc EXCEPT ![t] = "idle", ![next] = "locked"]
                /\ waiters' = [waiters EXCEPT ![t] = {}, ![next] = waiters[t] \ {next}]
            BY <1>6, <2>2 DEF UnlockSlowPath
        <3>2. next \in Threads /\ pc[next] = "waiting" /\ pc[t] = "unlockSlow" /\ next # t
            BY <1>a, <1>0, <1>6 DEF UnlockSlowPath, TypeOK
        <3>3. \A o \in Threads \ {t} : waiters[o] = {}
            BY <1>a, <2>0
        <3>4. /\ waiters'[t] = {}
              /\ waiters'[next] = waiters[t] \ {next}
              /\ \A o \in Threads \ {t, next} : waiters'[o] = {}
            BY <1>0, <3>1, <3>2, <3>3 DEF TypeOK
        <3>5. /\ pc'[t] = "idle"
              /\ pc'[next] = "locked"
              /\ \A o \in Threads \ {t, next} : pc'[o] = pc[o]
            BY <1>0, <3>1, <3>2 DEF TypeOK
        <3>6. HolderIsTagOwner' /\ TagOwnerHolds'
            BY <1>a, <2>0, <3>1, <3>2, <3>5
        <3>7. WaitersOfOwner'
            BY <3>1, <3>4
        <3>8. WaitersBlocked'
            <4>1. SUFFICES ASSUME NEW u \in Threads
                  PROVE pc'[u] = "waiting" <=> \E o \in Threads : u \in waiters'[o]
                OBVIOUS
            <4>2. (\E o \in Threads : u \in waiters[o]) <=> u \in waiters[t]
                BY <3>3
            <4>3. (\E o \in Threads : u \in waiters'[o]) <=> u \in waiters[t] \ {next}
                BY <3>2, <3>4
            <4>4. t \notin waiters[t]
                BY <1>a, <3>2
            <4> QED BY <1>a, <3>5, <4>2, <4>3, <4>4
        <3> QED BY <3>6, <3>7, <3>8
    <2> QED BY <2>1, <2>2
<1>7. ASSUME NEW t \in Threads, NEW type \in SuspendTypes,
             RequestSuspend(t, type) \/ Resume(t, type)
      PROVE LockInv'
    BY <1>a, <1>7 DEF RequestSuspend, Resume
<1>8. ASSUME NEW t \in Threads PROVE ~RequestTerminate(t)
    BY <1>0 DEF RequestTerminate, NoneTerminating, TypeOK
<1> HIDE DEF LockInv
<1> QED BY <1>1, <1>2, <1>3, <1>4, <1>5, <1>6, <1>7, <1>8 DEF Next

\* Until a thread is terminated, Lock gives mutual exclusion: a thread that has
\* returned from Lock is the thread in m_tag.
THEOREM MutualExclusion == Spec => []MutexUntilTermination
<1>1. Inv => MutexUntilTermination
    BY DEF Inv, LockInv, MutexUntilTermination
<1> QED BY <1>1, InvInit, InvStep, PTL DEF Spec

\* Until a thread is terminated, every blocked thread is among the waiters of the one thread
\* that owns the lock, and the tag has the wait bit.
THEOREM NoWaiterLeftBehind == Spec => []WaitersAreSeen
<1>1. ASSUME Inv, NoneTerminating, NEW t \in Threads, pc[t] = "waiting"
      PROVE /\ tagWait
            /\ {o \in Threads : t \in waiters[o]} = {tagOwner}
            /\ Holds(tagOwner)
    <2>1. PICK o \in Threads : t \in waiters[o]
        BY <1>1 DEF Inv, LockInv, WaitersBlocked
    <2>2. \A p \in Threads : t \in waiters[p] => tagOwner = p /\ tagWait
        BY <1>1 DEF Inv, LockInv, WaitersOfOwner
    <2>3. tagOwner = o /\ tagWait
        BY <2>1, <2>2
    <2>4. Holds(tagOwner)
        BY <1>1, <2>3, LockAssumption DEF Inv, LockInv, TagOwnerHolds
    <2> QED BY <2>1, <2>2, <2>3, <2>4
<1>2. Inv => WaitersAreSeen
    BY <1>1 DEF WaitersAreSeen
<1> QED BY <1>2, InvInit, InvStep, PTL DEF Spec

(***************************************************************************)
(* Suspension, with one type and whatever threads are terminated.          *)
(***************************************************************************)

\* The flags in the state of a thread were requested and are allowed.
SuspendedRequested == \A t \in Threads : suspended[t] \subseteq SuspendFlags(t)

SuspendInv ==
    /\ TypeOK
    /\ OldOwnerRead
    /\ SuspendedRequested
    /\ OwnerNotSuspended

\* SuspendInv is preserved by every step.
LEMMA SuspendInvStep ==
    ASSUME \A a, b \in SuspendTypes : a = b
    PROVE  SuspendInv /\ [Next]_vars => SuspendInv'
<1> SUFFICES ASSUME SuspendInv, [Next]_vars PROVE SuspendInv'
    OBVIOUS
<1> DEFINE SInv == SuspendedRequested /\ OwnerNotSuspended
<1>0. TypeOK /\ OldOwnerRead /\ TypeOK' /\ OldOwnerRead'
    BY TypeStep DEF SuspendInv
<1>a. SInv
    BY DEF SuspendInv
<1> USE DEF SuspendedRequested, OwnerNotSuspended, SuspendFlags
<1>1. ASSUME UNCHANGED vars PROVE SInv'
    BY <1>a, <1>1 DEF vars, suspendVars
<1>2. ASSUME NEW t \in Threads, Lock(t) \/ LockExchange(t) \/ Unlock(t) PROVE SInv'
    BY <1>a, <1>2 DEF Lock, LockExchange, Unlock, suspendVars
<1>3. ASSUME NEW t \in Threads, LockSlowPath(t) PROVE SInv'
    <2>1. CASE ~(tagOwner = oldOwner[t] /\ tagWait)
        BY <1>a, <1>3, <2>1 DEF LockSlowPath, suspendVars
    <2>2. CASE tagOwner = oldOwner[t] /\ tagWait
        <3>1. /\ oldOwner[t] \in Threads
              /\ waiters' = [waiters EXCEPT ![oldOwner[t]] = @ \cup {t}]
              /\ suspended' = ContinueIfHasKernelWaiters(oldOwner[t], waiters', suspended)
              /\ UNCHANGED <<suspendAllowed, suspendRequest>>
            BY <1>0, <1>3, <2>2 DEF LockSlowPath, OldOwnerRead, suspendVars
        <3>2. suspended'[oldOwner[t]] = {}
            BY <1>a, <1>0, <3>1 DEF ContinueIfHasKernelWaiters, TypeOK
        <3>3. \A u \in Threads \ {oldOwner[t]} :
                waiters'[u] = waiters[u] /\ suspended'[u] = suspended[u]
            BY <1>0, <3>1 DEF ContinueIfHasKernelWaiters, TypeOK
        <3> QED BY <1>a, <3>1, <3>2, <3>3
    <2> QED BY <2>1, <2>2
<1>4. ASSUME NEW t \in Threads, UnlockSlowPath(t) PROVE SInv'
    <2>0. UNCHANGED <<suspendAllowed, suspendRequest>>
        BY <1>4 DEF UnlockSlowPath, suspendVars
    <2>1. CASE waiters[t] = {}
        BY <1>a, <1>0, <1>4, <2>0, <2>1 DEF UnlockSlowPath, TrySuspend, TypeOK
    <2>2. CASE waiters[t] # {}
        <3>1. PICK next \in waiters[t] :
                /\ waiters' = [waiters EXCEPT ![t] = {}, ![next] = waiters[t] \ {next}]
                /\ suspended' = TrySuspend(t, waiters',
                                    ContinueIfHasKernelWaiters(next, waiters', suspended))
            BY <1>4, <2>2 DEF UnlockSlowPath
        <3> DEFINE cont == ContinueIfHasKernelWaiters(next, waiters', suspended)
        <3>2. next \in Threads
            BY <1>0 DEF TypeOK
        <3>3. /\ cont \in [Threads -> SUBSET SuspendTypes]
              /\ waiters'[next] # {} => cont[next] = {}
              /\ \A u \in Threads : cont[u] \subseteq SuspendFlags(u)
              /\ \A u \in Threads \ {next} : cont[u] = suspended[u]
            BY <1>a, <1>0, <3>2 DEF ContinueIfHasKernelWaiters, TypeOK
        <3> HIDE DEF cont
        <3>4. \A u \in Threads \ {t, next} : waiters'[u] = waiters[u]
            BY <1>0, <3>1, <3>2 DEF TypeOK
        <3>5. suspended' = IF waiters'[t] = {}
                           THEN [cont EXCEPT ![t] = SuspendFlags(t)] ELSE cont
            BY <3>1 DEF TrySuspend, cont
        <3>6. /\ waiters'[t] # {} => suspended'[t] = cont[t]
              /\ waiters'[t] = {} => suspended'[t] = SuspendFlags(t)
              /\ \A u \in Threads \ {t} : suspended'[u] = cont[u]
            BY <3>3, <3>5
        <3>7. waiters'[t] # {} => next = t
            BY <1>0, <3>1, <3>2 DEF TypeOK
        <3>8. SuspendedRequested'
            BY <2>0, <3>3, <3>6
        <3>9. OwnerNotSuspended'
            BY <1>a, <3>3, <3>4, <3>6, <3>7
        <3> QED BY <3>8, <3>9
    <2> QED BY <2>1, <2>2
<1>5. ASSUME NEW t \in Threads, NEW type \in SuspendTypes, RequestSuspend(t, type)
      PROVE SInv'
    BY <1>a, <1>0, <1>5 DEF RequestSuspend, TypeOK
<1>6. ASSUME NEW t \in Threads, NEW type \in SuspendTypes, Resume(t, type)
      PROVE SInv'
    <2>1. suspendRequest'[t] = {}
        BY <1>0, <1>6 DEF Resume, TypeOK
    <2>2. suspended'[t] = {}
        BY <1>0, <1>6, <2>1 DEF Resume, TypeOK
    <2>3. \A u \in Threads \ {t} :
            suspended'[u] = suspended[u] /\ suspendRequest'[u] = suspendRequest[u]
        BY <1>0, <1>6 DEF Resume, TypeOK
    <2> QED BY <1>a, <1>6, <2>2, <2>3 DEF Resume
<1>7. ASSUME NEW t \in Threads, RequestTerminate(t) PROVE SInv'
    <2>1. \A o \in Threads : waiters'[o] \subseteq waiters[o]
        BY <1>0, <1>7 DEF RequestTerminate, TypeOK
    <2>2. \A u \in Threads \ {t} :
            suspended'[u] = suspended[u] /\ suspendAllowed'[u] = suspendAllowed[u]
        BY <1>0, <1>7 DEF RequestTerminate, TypeOK
    <2>3. suspended'[t] = {}
        BY <1>a, <1>0, <1>7 DEF RequestTerminate, TypeOK
    <2>4. suspendRequest' = suspendRequest
        BY <1>7 DEF RequestTerminate
    <2> QED BY <1>a, <2>1, <2>2, <2>3, <2>4
<1> HIDE DEF SInv
<1>8. SInv'
    BY <1>1, <1>2, <1>3, <1>4, <1>5, <1>6, <1>7 DEF Next
<1> QED BY <1>0, <1>8 DEF SuspendInv, SInv

\* With one type of suspension, a thread that others wait for is not suspended, so it
\* can go on to release the lock.
THEOREM OwnerNotSuspendedAlways ==
    ASSUME \A a, b \in SuspendTypes : a = b
    PROVE  Spec => []OwnerNotSuspended
<1>1. Init => SuspendInv
    BY DEF Init, SuspendInv, TypeOK, PCs, OldOwnerRead, SuspendedRequested, SuspendFlags,
           OwnerNotSuspended
<1>2. SuspendInv => OwnerNotSuspended
    BY DEF SuspendInv
<1> QED BY <1>1, <1>2, SuspendInvStep, PTL DEF Spec

=============================================================================
