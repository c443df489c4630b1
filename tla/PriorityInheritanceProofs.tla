----------------------- MODULE PriorityInheritanceProofs -----------------------
(***************************************************************************)
(* Proofs about PriorityInheritance, for any finite set of threads, any    *)
(* locks and any priorities.                                               *)
(***************************************************************************)
EXTENDS PriorityInheritance, FiniteSetTheorems, TLAPS

\* The types of all variables but the counters.
LockTypes ==
    /\ holder \in [Keys -> Threads \cup {None}]
    /\ waitsFor \in [Threads -> Keys \cup {None}]
    /\ base \in [Threads -> Priorities]
    /\ priority \in [Threads -> Priorities]
    /\ restoring \in Threads \cup {None}

\* A lock that is waited for has an owner.
WaitedForIsHeld ==
    \A t \in Threads : waitsFor[t] # None => LockOwner(t) \in Threads

\* Only the thread that RestorePriority has got to may have a stale priority.
OthersInherit == \A t \in Threads : t # restoring => Inherits(t, priority[t])

Inv == LockTypes /\ WaitedForIsHeld /\ OthersInherit

\* The best of the base priority and the waiters' priorities, without the set.
LEMMA InheritsDef ==
    ASSUME NEW t \in Threads, NEW p
    PROVE  Inherits(t, p) <=>
              /\ p = base[t] \/ \E u \in Threads : LockOwner(u) = t /\ p = priority[u]
              /\ p <= base[t]
              /\ \A u \in Threads : LockOwner(u) = t => p <= priority[u]
BY DEF Inherits, Candidates, WaitersOf

\* A step that leaves the priorities and the owners alone preserves who inherits.
LEMMA InheritsUnchanged ==
    ASSUME NEW t \in Threads, base'[t] = base[t], priority' = priority,
           \A u \in Threads : LockOwner(u)' = t <=> LockOwner(u) = t,
           Inherits(t, priority[t])
    PROVE  Inherits(t, priority[t])'
BY InheritsDef DEF Inherits, Candidates, WaitersOf

\* Inv holds initially.
LEMMA InvInit == Init => Inv
<1> SUFFICES ASSUME Init PROVE Inv
    OBVIOUS
<1>1. LockTypes
    BY PriorityAssumption DEF Init, LockTypes
<1>2. \A t \in Threads : LockOwner(t) = None
    BY DEF Init, LockOwner
<1>3. WaitedForIsHeld
    BY DEF Init, WaitedForIsHeld
<1>4. ASSUME NEW t \in Threads PROVE Inherits(t, priority[t])
    <2>1. t # None /\ priority[t] = base[t] /\ base[t] \in Nat
        BY PriorityAssumption, <1>1 DEF Init, LockTypes
    <2> QED BY <1>2, <2>1, InheritsDef
<1> QED BY <1>1, <1>3, <1>4 DEF Inv, OthersInherit

\* Priorities are numbers.
LEMMA PrioritiesAreNumbers ==
    ASSUME LockTypes, NEW t \in Threads
    PROVE  priority[t] \in Nat /\ base[t] \in Nat /\ t # None
BY PriorityAssumption DEF LockTypes

\* A round of RestorePriority.
LEMMA RestorePriorityStep ==
    ASSUME Inv, NEW t \in Threads, RestorePriority(t)
    PROVE  Inv'
<1> USE DEF Inv
<1>1. PICK p \in Priorities :
        /\ Inherits(t, p)
        /\ \/ p = priority[t] /\ restoring' = None /\ UNCHANGED priority
           \/ /\ p # priority[t]
              /\ priority' = [priority EXCEPT ![t] = p]
              /\ restoring' = LockOwner(t)
    BY DEF RestorePriority
<1>2. restoring = t /\ UNCHANGED <<holder, waitsFor, base>>
    BY DEF RestorePriority
<1>3. \A u \in Threads : LockOwner(u)' = LockOwner(u)
    BY <1>2 DEF LockOwner
<1>4. LockOwner(t) \in Threads \cup {None}
    BY PriorityAssumption DEF LockOwner, WaitedForIsHeld, LockTypes
<1>5. LockTypes'
    BY <1>1, <1>2, <1>4 DEF LockTypes
<1>6. WaitedForIsHeld'
    BY <1>2, <1>3 DEF WaitedForIsHeld
<1>7. OthersInherit'
    <2>1. CASE p = priority[t] /\ restoring' = None /\ UNCHANGED priority
        <3>1. \A u \in Threads : Inherits(u, priority[u])
            BY <1>1, <1>2, <2>1 DEF OthersInherit
        <3> QED BY <1>2, <1>3, <2>1, <3>1, InheritsUnchanged DEF OthersInherit
    <2>2. CASE priority' = [priority EXCEPT ![t] = p] /\ restoring' = LockOwner(t)
        <3>1. SUFFICES ASSUME NEW u \in Threads, u # LockOwner(t)
              PROVE Inherits(u, priority[u])'
            BY <2>2 DEF OthersInherit
        <3>2. \A v \in Threads : v # t => priority'[v] = priority[v]
            BY <2>2 DEF LockTypes
        <3>3. \A v \in Threads : LockOwner(v) = u => priority'[v] = priority[v]
            BY <3>1, <3>2
        <3>4. priority'[u] = IF u = t THEN p ELSE priority[u]
            BY <2>2 DEF LockTypes
        <3>5. Inherits(u, priority'[u])
            BY <1>1, <1>2, <3>4 DEF OthersInherit
        <3>6. WaitersOf(u)' = WaitersOf(u)
            BY <1>3 DEF WaitersOf
        <3>7. Candidates(u)' = Candidates(u)
            BY <1>2, <3>3, <3>6 DEF Candidates, WaitersOf
        <3> QED BY <3>5, <3>7 DEF Inherits
    <2> QED BY <1>1, <2>1, <2>2
<1> QED BY <1>5, <1>6, <1>7

\* AddWaiter: the owner inherits, or has no reason to.
LEMMA AddWaiterStep ==
    ASSUME Inv, NEW t \in Threads, NEW k \in Keys, AddWaiter(t, k)
    PROVE  Inv'
<1> USE DEF Inv
<1> DEFINE o == holder[k]
<1>1. /\ restoring = None
      /\ waitsFor[t] = None
      /\ o \in Threads
      /\ waitsFor' = [waitsFor EXCEPT ![t] = k]
      /\ restoring' = IF priority[t] < priority[o] THEN o ELSE None
      /\ UNCHANGED <<holder, base, priority>>
    BY DEF AddWaiter, Running, LockTypes
<1>2. LockTypes'
    BY <1>1 DEF LockTypes
<1>3. k # None
    BY PriorityAssumption
<1>4. LockOwner(t)' = o /\ LockOwner(t) = None
    BY <1>1, <1>3 DEF LockOwner, LockTypes
<1>5. \A u \in Threads \ {t} : LockOwner(u)' = LockOwner(u)
    BY <1>1 DEF LockOwner, LockTypes
<1>6. WaitedForIsHeld'
    BY <1>1, <1>4, <1>5 DEF WaitedForIsHeld, LockTypes
<1>7. ASSUME NEW u \in Threads, u # restoring' PROVE Inherits(u, priority[u])'
    <2>0. Inherits(u, priority[u])
        BY <1>1, PrioritiesAreNumbers DEF OthersInherit
    <2>1. CASE u # o
        <3>1. \A v \in Threads : LockOwner(v)' = u <=> LockOwner(v) = u
            BY <1>4, <1>5, <2>1, PrioritiesAreNumbers
        <3> QED BY <1>1, <2>0, <3>1, InheritsUnchanged
    <2>2. CASE u = o
        <3>1. priority[o] <= priority[t]
            BY <1>1, <1>7, <2>2, PrioritiesAreNumbers
        <3>2. \A v \in Threads : LockOwner(v)' = o <=> (LockOwner(v) = o \/ v = t)
            BY <1>1, <1>4, <1>5, PrioritiesAreNumbers
        <3>3. Candidates(o)' = Candidates(o) \cup {priority[t]}
            BY <1>1, <3>2 DEF Candidates, WaitersOf
        <3> QED BY <1>1, <2>0, <2>2, <3>1, <3>3 DEF Inherits
    <2> QED BY <2>1, <2>2
<1> QED BY <1>2, <1>6, <1>7 DEF OthersInherit

\* RemoveWaiter: the owner keeps its priority unless it may have been inherited from t.
LEMMA RemoveWaiterStep ==
    ASSUME Inv, NEW t \in Threads, RemoveWaiter(t)
    PROVE  Inv'
<1> USE DEF Inv
<1>0. PICK o \in Threads : o = LockOwner(t)
    BY DEF RemoveWaiter, Running, WaitedForIsHeld
<1>1. /\ restoring = None
      /\ waitsFor[t] # None
      /\ waitsFor' = [waitsFor EXCEPT ![t] = None]
      /\ restoring' = IF priority[o] = priority[t] /\ priority[o] < base[o] THEN o ELSE None
      /\ UNCHANGED <<holder, base, priority>>
    BY <1>0 DEF RemoveWaiter, Running
<1>2. LockTypes'
    BY <1>0, <1>1 DEF LockTypes
<1>4. LockOwner(t)' = None
    BY <1>1 DEF LockOwner, LockTypes
<1>5. \A u \in Threads \ {t} : LockOwner(u)' = LockOwner(u)
    BY <1>1 DEF LockOwner, LockTypes
<1>6. WaitedForIsHeld'
    BY <1>1, <1>5 DEF WaitedForIsHeld, LockTypes
<1>7. ASSUME NEW u \in Threads, u # restoring' PROVE Inherits(u, priority[u])'
    <2>0. Inherits(u, priority[u])
        BY <1>1, PrioritiesAreNumbers DEF OthersInherit
    <2>1. CASE u # o
        <3>1. \A v \in Threads : LockOwner(v)' = u <=> LockOwner(v) = u
            BY <1>0, <1>4, <1>5, <2>1, PrioritiesAreNumbers
        <3> QED BY <1>1, <2>0, <3>1, InheritsUnchanged
    <2>2. CASE u = o
        <3>1. priority[o] <= base[o] /\ priority[o] <= priority[t]
            BY <1>0, <2>0, <2>2, InheritsDef
        <3>2. priority[o] < priority[t] \/ priority[o] = base[o]
            BY <1>0, <1>1, <1>7, <2>2, <3>1, PrioritiesAreNumbers
        <3>3. \A v \in Threads : LockOwner(v)' = o <=> (LockOwner(v) = o /\ v # t)
            BY <1>0, <1>4, <1>5, PrioritiesAreNumbers
        <3>4. /\ priority[o] = base[o] \/ \E v \in Threads : LockOwner(v) = o /\ priority[o] = priority[v]
              /\ \A v \in Threads : LockOwner(v) = o => priority[o] <= priority[v]
            BY <1>0, <2>0, <2>2, InheritsDef
        <3>5. priority[o] = base[o] \/ \E v \in Threads : LockOwner(v)' = o /\ priority[o] = priority[v]
            BY <1>0, <3>2, <3>3, <3>4, PrioritiesAreNumbers
        <3>6. Candidates(o)' = {base[o]} \cup {priority[v] : v \in {w \in Threads : LockOwner(w)' = o}}
            BY <1>1 DEF Candidates, WaitersOf
        <3>7. priority[o] \in Candidates(o)'
            BY <3>5, <3>6
        <3>8. \A q \in Candidates(o)' : priority[o] <= q
            BY <3>1, <3>3, <3>4, <3>6
        <3> QED BY <1>1, <2>2, <3>7, <3>8 DEF Inherits
    <2> QED BY <2>1, <2>2
<1> QED BY <1>2, <1>6, <1>7 DEF OthersInherit

\* RemoveWaiterByKey: the new owner is the best of the waiters, so it need not inherit
\* from those that are left.
LEMMA RemoveWaiterByKeyStep ==
    ASSUME Inv, NEW o \in Threads, NEW k \in Keys, RemoveWaiterByKey(o, k)
    PROVE  Inv'
<1> USE DEF Inv
<1>0. /\ restoring = None
      /\ waitsFor[o] = None
      /\ holder[k] = o
      /\ UNCHANGED <<base, priority>>
    BY DEF RemoveWaiterByKey, Running
<1>a. \A u \in Threads : Inherits(u, priority[u])
    BY <1>0, PrioritiesAreNumbers DEF OthersInherit
<1>1. CASE /\ WaitersOn(k) = {}
           /\ holder' = [holder EXCEPT ![k] = None]
           /\ UNCHANGED <<waitsFor, numKernelWaiters, restoring>>
    <2>1. LockTypes'
        BY <1>0, <1>1 DEF LockTypes
    <2>2. \A u \in Threads : LockOwner(u)' = LockOwner(u)
        BY <1>1 DEF LockOwner, WaitersOn, LockTypes
    <2>3. WaitedForIsHeld'
        BY <1>1, <2>2 DEF WaitedForIsHeld
    <2> QED BY <1>0, <1>1, <1>a, <2>1, <2>2, <2>3, InheritsUnchanged DEF OthersInherit
<1>2. ASSUME NEW next \in HighestPriorityWaiters(k),
             holder' = [holder EXCEPT ![k] = next],
             waitsFor' = [waitsFor EXCEPT ![next] = None],
             restoring' = IF priority[o] = priority[next] /\ priority[o] < base[o]
                          THEN o ELSE None
      PROVE Inv'
    <2>1. /\ next \in Threads
          /\ waitsFor[next] = k
          /\ k # None
          /\ next # o
          /\ \A u \in Threads : waitsFor[u] = k => priority[next] <= priority[u]
        BY <1>0, PriorityAssumption DEF HighestPriorityWaiters, WaitersOn
    <2>2. LockTypes'
        BY <1>0, <1>2, <2>1 DEF LockTypes
    <2>3. LockOwner(next)' = None
        BY <1>2, <2>1 DEF LockOwner, LockTypes
    <2>4. \A u \in Threads \ {next} :
            LockOwner(u)' = IF waitsFor[u] = k THEN next ELSE LockOwner(u)
        BY <1>2, <2>1 DEF LockOwner, LockTypes
    <2>5. \A u \in Threads : waitsFor[u] = k => LockOwner(u) = o
        BY <1>0, <2>1 DEF LockOwner
    <2>6. WaitedForIsHeld'
        BY <1>2, <2>1, <2>3, <2>4 DEF WaitedForIsHeld, LockTypes
    <2>7. ASSUME NEW u \in Threads, u # restoring' PROVE Inherits(u, priority[u])'
        <3>0. Inherits(u, priority[u])
            BY <1>a
        <3>1. CASE u \notin {o, next}
            <4>1. \A v \in Threads : LockOwner(v)' = u <=> LockOwner(v) = u
                BY <2>1, <2>3, <2>4, <2>5, <3>1, PrioritiesAreNumbers
            <4> QED BY <1>0, <3>0, <4>1, InheritsUnchanged
        <3>2. CASE u = next
            <4>1. \A v \in Threads :
                    LockOwner(v)' = next <=> (LockOwner(v) = next \/ (waitsFor[v] = k /\ v # next))
                BY <2>1, <2>3, <2>4, <2>5, PrioritiesAreNumbers
            <4>2. Candidates(next)' = {base[next]} \cup
                    {priority[v] : v \in {w \in Threads : LockOwner(w)' = next}}
                BY <1>0 DEF Candidates, WaitersOf
            <4>3. /\ priority[next] = base[next] \/
                        \E v \in Threads : LockOwner(v) = next /\ priority[next] = priority[v]
                  /\ priority[next] <= base[next]
                  /\ \A v \in Threads : LockOwner(v) = next => priority[next] <= priority[v]
                BY <3>0, <3>2, InheritsDef
            <4>4. priority[next] \in Candidates(next)'
                BY <4>1, <4>2, <4>3
            <4>5. \A q \in Candidates(next)' : priority[next] <= q
                BY <2>1, <4>1, <4>2, <4>3
            <4> QED BY <1>0, <3>2, <4>4, <4>5 DEF Inherits
        <3>3. CASE u = o
            <4>1. \A v \in Threads : LockOwner(v)' = o <=> (LockOwner(v) = o /\ waitsFor[v] # k)
                BY <2>1, <2>3, <2>4, <2>5, PrioritiesAreNumbers
            <4>2. Candidates(o)' = {base[o]} \cup
                    {priority[v] : v \in {w \in Threads : LockOwner(w)' = o}}
                BY <1>0 DEF Candidates, WaitersOf
            <4>3. /\ priority[o] = base[o] \/
                        \E v \in Threads : LockOwner(v) = o /\ priority[o] = priority[v]
                  /\ priority[o] <= base[o]
                  /\ \A v \in Threads : LockOwner(v) = o => priority[o] <= priority[v]
                BY <3>0, <3>3, InheritsDef
            <4>4. priority[o] < priority[next] \/ priority[o] = base[o]
                BY <1>2, <2>1, <2>5, <2>7, <3>3, <4>3, PrioritiesAreNumbers
            <4>5. priority[o] = base[o] \/
                    \E v \in Threads : LockOwner(v)' = o /\ priority[o] = priority[v]
                BY <2>1, <4>1, <4>3, <4>4, PrioritiesAreNumbers
            <4>6. priority[o] \in Candidates(o)'
                BY <4>2, <4>5
            <4>7. \A q \in Candidates(o)' : priority[o] <= q
                BY <4>1, <4>2, <4>3
            <4> QED BY <1>0, <3>3, <4>6, <4>7 DEF Inherits
        <3> QED BY <3>1, <3>2, <3>3
    <2> QED BY <2>2, <2>6, <2>7 DEF OthersInherit
<1> QED BY <1>1, <1>2 DEF RemoveWaiterByKey

\* Every step preserves Inv.
LEMMA InvStep == Inv /\ [Next]_vars => Inv'
<1> SUFFICES ASSUME Inv, [Next]_vars PROVE Inv'
    OBVIOUS
<1>1. CASE UNCHANGED vars
    BY <1>1 DEF vars, Inv, LockTypes, WaitedForIsHeld, OthersInherit, Inherits, Candidates,
                WaitersOf, LockOwner
<1>2. ASSUME NEW t \in Threads, NEW k \in Keys, Acquire(t, k) PROVE Inv'
    <2>1. LockTypes'
        BY <1>2 DEF Acquire, Inv, LockTypes
    <2>2. \A u \in Threads : waitsFor[u] # k
        BY <1>2, PriorityAssumption DEF Acquire, Inv, WaitedForIsHeld, LockOwner
    <2>3. \A u \in Threads : LockOwner(u)' = LockOwner(u)
        BY <1>2, <2>2 DEF Acquire, LockOwner, Inv, LockTypes
    <2>4. WaitedForIsHeld'
        BY <1>2, <2>3 DEF Acquire, Inv, WaitedForIsHeld
    <2>5. UNCHANGED <<base, priority, restoring>>
        BY <1>2 DEF Acquire
    <2> QED BY <2>1, <2>3, <2>4, <2>5, InheritsUnchanged DEF Inv, OthersInherit
<1>3. ASSUME NEW t \in Threads, NEW p \in Priorities,
             SetBasePriority(t, p) \/ IncreaseBasePriority(t, p)
      PROVE Inv'
    <2>1. /\ restoring = None
          /\ base' = [base EXCEPT ![t] = p]
          /\ restoring' = t
          /\ UNCHANGED <<holder, waitsFor, priority>>
        BY <1>3 DEF SetBasePriority, IncreaseBasePriority
    <2>2. LockTypes'
        BY <2>1 DEF Inv, LockTypes
    <2>3. \A u \in Threads : LockOwner(u)' = LockOwner(u)
        BY <2>1 DEF LockOwner
    <2>4. WaitedForIsHeld'
        BY <2>1, <2>3 DEF Inv, WaitedForIsHeld
    <2>5. \A u \in Threads \ {t} : base'[u] = base[u]
        BY <2>1 DEF Inv, LockTypes
    <2>6. \A u \in Threads : Inherits(u, priority[u])
        BY <2>1, PrioritiesAreNumbers DEF Inv, OthersInherit
    <2>7. OthersInherit'
        BY <2>1, <2>3, <2>5, <2>6, InheritsUnchanged DEF OthersInherit
    <2> QED BY <2>2, <2>4, <2>7 DEF Inv
<1> QED BY <1>1, <1>2, <1>3, RestorePriorityStep, AddWaiterStep, RemoveWaiterStep,
           RemoveWaiterByKeyStep DEF Next

\* Between two operations every thread has the best priority of its base priority and
\* its waiters' priorities, for any threads, locks, priorities and chains of owners.
THEOREM PriorityInheritedAlways == Spec => []PriorityInherited
<1>1. Inv => PriorityInherited
    BY PrioritiesAreNumbers DEF Inv, OthersInherit, PriorityInherited
<1> QED BY <1>1, InvInit, InvStep, PTL DEF Spec

(***************************************************************************)
(* The whole graph of waiters.                                             *)
(***************************************************************************)

\* Chain(t) has the owner of the lock t waits for and all of that thread's chain, and
\* goes on from each of its threads.
LEMMA ChainOwner ==
    ASSUME NEW t \in Threads, NEW o \in Threads, LockOwner(t) = o
    PROVE  /\ o \in Chain(t)
           /\ Chain(o) \subseteq Chain(t)
           /\ \A u \in Threads : t \in Chain(u) => o \in Chain(u)
<1>1. o \in Chain(t)
    BY DEF Chain
<1>2. Chain(o) \subseteq Chain(t)
    BY DEF Chain
<1>3. \A u \in Threads : t \in Chain(u) => o \in Chain(u)
    BY DEF Chain
<1> QED BY <1>1, <1>2, <1>3

\* A thread has at least the priority of those whose chain it is in.
LEMMA ChainPriority ==
    ASSUME Inv, restoring = None, NEW u \in Threads, NEW t \in Chain(u)
    PROVE  priority[t] <= priority[u]
<1> DEFINE U == {x \in Threads : priority[x] <= priority[u]}
<1>1. ASSUME NEW x \in U \cup {u}, LockOwner(x) \in Threads
      PROVE  LockOwner(x) \in U
    <2> DEFINE o == LockOwner(x)
    <2>1. x \in Threads /\ priority[x] <= priority[u]
        BY PrioritiesAreNumbers DEF Inv
    <2>2. Inherits(o, priority[o])
        BY <1>1, PrioritiesAreNumbers DEF Inv, OthersInherit
    <2>3. priority[o] <= priority[x]
        BY <1>1, <2>1, <2>2, InheritsDef
    <2> QED BY <1>1, <2>1, <2>3, PrioritiesAreNumbers DEF Inv
<1>2. U \in SUBSET Threads
    OBVIOUS
<1>3. t \in U
    BY <1>1, <1>2, Zenon DEF Chain
<1> QED BY <1>3

\* Without a circle, some thread's base priority is the cause of every priority: follow
\* the waiters a priority comes from, whose chains only grow.
LEMMA PriorityHasCause ==
    ASSUME Inv, restoring = None, \A t \in Threads : t \notin Chain(t)
    PROVE  \A t \in Threads :
               \E u \in Threads : (u = t \/ t \in Chain(u)) /\ priority[t] = base[u]
<1> DEFINE Caused(t) == \E u \in Threads : (u = t \/ t \in Chain(u)) /\ priority[t] = base[u]
           B == {t \in Threads : ~Caused(t)}
           Rest(t) == Threads \ Chain(t)
           T == {Rest(t) : t \in B}
<1>1. SUFFICES ASSUME B # {} PROVE FALSE
    OBVIOUS
<1>2. ASSUME NEW t \in B
      PROVE  \E w \in B : LockOwner(w) = t
    <2>1. t \in Threads /\ ~Caused(t)
        OBVIOUS
    <2>2. Inherits(t, priority[t])
        BY <2>1, PrioritiesAreNumbers DEF Inv, OthersInherit
    <2>3. priority[t] # base[t]
        BY <2>1
    <2> HIDE DEF Caused
    <2>4. PICK w \in Threads : LockOwner(w) = t /\ priority[t] = priority[w]
        BY <2>1, <2>2, <2>3, InheritsDef
    <2>5. ~Caused(w)
        BY <2>1, <2>4, ChainOwner DEF Caused
    <2> QED BY <2>4, <2>5
<1> HIDE DEF Caused
<1>3. IsWellFoundedOn(StrictSubsetOrdering(Threads), SUBSET Threads)
    BY FS_StrictSubsetOrderingWellFounded, FS_FiniteSubsetsOfFinite, PriorityAssumption, Zenon
<1>4. T \subseteq SUBSET Threads /\ T # {}
    BY <1>1, Zenon
<1>5. PICK r \in T : \A y \in T : <<y, r>> \notin StrictSubsetOrdering(Threads)
    BY <1>3, <1>4, WFMin, Zenon
<1>6. PICK t \in B : r = Rest(t)
    OBVIOUS
<1>7. PICK w \in B : LockOwner(w) = t
    BY <1>2
<1>8. t \in Threads /\ w \in Threads
    OBVIOUS
<1>9. Rest(w) \subseteq Rest(t) /\ t \in Rest(t) /\ t \notin Rest(w)
    BY <1>7, <1>8, ChainOwner
<1>10. <<Rest(w), r>> \in StrictSubsetOrdering(Threads)
    BY <1>6, <1>9 DEF StrictSubsetOrdering
<1> QED BY <1>5, <1>10

\* Without a circle of waiters, the priorities between two operations are those of the
\* whole graph, for any threads and chains of any length.
THEOREM PriorityIsEffectiveAlways == Spec => []PriorityIsEffective
<1>1. ASSUME Inv PROVE PriorityIsEffective
    <2> SUFFICES ASSUME restoring = None, \A t \in Threads : t \notin Chain(t),
                        NEW t \in Threads
                 PROVE  /\ \E u \in Threads : (u = t \/ t \in Chain(u)) /\ priority[t] = base[u]
                        /\ \A u \in Threads : u = t \/ t \in Chain(u) => priority[t] <= base[u]
        BY DEF PriorityIsEffective
    <2>1. \E u \in Threads : (u = t \/ t \in Chain(u)) /\ priority[t] = base[u]
        BY <1>1, PriorityHasCause
    <2>2. ASSUME NEW u \in Threads, u = t \/ t \in Chain(u)
          PROVE  priority[t] <= base[u]
        <3>1. Inherits(u, priority[u])
            BY <1>1, PrioritiesAreNumbers DEF Inv, OthersInherit
        <3>2. priority[u] <= base[u]
            BY <3>1, InheritsDef
        <3>3. priority[t] <= priority[u]
            BY <1>1, <2>2, ChainPriority, PrioritiesAreNumbers DEF Inv
        <3> QED BY <1>1, <3>2, <3>3, PrioritiesAreNumbers DEF Inv
    <2> QED BY <2>1, <2>2
<1> QED BY <1>1, InvInit, InvStep, PTL DEF Spec

(***************************************************************************)
(* The count of kernel waiters.                                            *)
(***************************************************************************)

\* The kernel waiters of t.
KernelWaitersOf(t) == {u \in WaitersOf(t) : waitsFor[u] \in KernelKeys}

Counted == \A t \in Threads : numKernelWaiters[t] = Cardinality(KernelWaitersOf(t))

CountInv ==
    /\ Inv
    /\ numKernelWaiters \in [Threads -> Int]
    /\ Counted

\* Sets of threads are finite.
LEMMA ThreadSetsFinite ==
    ASSUME NEW S \in SUBSET Threads
    PROVE  IsFiniteSet(S) /\ Cardinality(S) \in Nat /\ Cardinality(S) <= Cardinality(Threads)
BY FS_Subset, FS_CardinalityType, PriorityAssumption

\* The cardinality of a union of disjoint sets of threads.
LEMMA DisjointUnion ==
    ASSUME NEW S \in SUBSET Threads, NEW T \in SUBSET Threads, S \cap T = {}
    PROVE  Cardinality(S \cup T) = Cardinality(S) + Cardinality(T)
<1>1. IsFiniteSet(S) /\ IsFiniteSet(T)
    BY ThreadSetsFinite
<1>2. Cardinality(S \cup T) = Cardinality(S) + Cardinality(T) - Cardinality(S \cap T)
    BY <1>1, FS_Union
<1>3. Cardinality(S \cap T) = 0
    BY FS_EmptySet
<1> QED BY <1>2, <1>3, ThreadSetsFinite

\* A step that leaves the waiters and the counters alone preserves the count.
LEMMA CountedUnchanged ==
    ASSUME Counted, UNCHANGED <<numKernelWaiters, waitsFor>>,
           \A u \in Threads : LockOwner(u)' = LockOwner(u)
    PROVE  Counted'
<1>1. \A t \in Threads : KernelWaitersOf(t)' = KernelWaitersOf(t)
    BY DEF KernelWaitersOf, WaitersOf
<1> QED BY <1>1 DEF Counted

\* Every step preserves the count.
LEMMA CountStep == CountInv /\ [Next]_vars => CountInv'
<1> SUFFICES ASSUME CountInv, [Next]_vars PROVE CountInv'
    OBVIOUS
<1>0. Inv /\ Inv' /\ LockTypes /\ Counted /\ numKernelWaiters \in [Threads -> Int]
    BY InvStep DEF CountInv, Inv
<1> DEFINE C == Counted /\ numKernelWaiters \in [Threads -> Int]
<1>1. ASSUME UNCHANGED vars PROVE C'
    BY <1>0, <1>1, CountedUnchanged DEF vars, LockOwner
<1>2. ASSUME NEW t \in Threads, NEW k \in Keys, Acquire(t, k) PROVE C'
    <2>1. \A u \in Threads : waitsFor[u] # k
        BY <1>0, <1>2, PriorityAssumption DEF Acquire, Inv, WaitedForIsHeld, LockOwner
    <2>2. \A u \in Threads : LockOwner(u)' = LockOwner(u)
        BY <1>0, <1>2, <2>1 DEF Acquire, LockOwner, LockTypes
    <2> QED BY <1>0, <1>2, <2>2, CountedUnchanged DEF Acquire
<1>3. ASSUME NEW t \in Threads, RestorePriority(t) PROVE C'
    BY <1>0, <1>3, CountedUnchanged DEF RestorePriority, LockOwner
<1>4. ASSUME NEW t \in Threads, NEW p \in Priorities,
             SetBasePriority(t, p) \/ IncreaseBasePriority(t, p)
      PROVE C'
    BY <1>0, <1>4, CountedUnchanged DEF SetBasePriority, IncreaseBasePriority, LockOwner
<1>5. ASSUME NEW t \in Threads, NEW k \in Keys, AddWaiter(t, k) PROVE C'
    <2>1. PICK o \in Threads : o = holder[k]
        BY <1>0, <1>5 DEF AddWaiter, LockTypes
    <2>2. /\ waitsFor[t] = None
          /\ k # None
          /\ waitsFor' = [waitsFor EXCEPT ![t] = k]
          /\ numKernelWaiters' = [numKernelWaiters EXCEPT ![o] = IF k \in KernelKeys THEN @ + 1 ELSE @]
          /\ holder' = holder
        BY <1>5, <2>1, PriorityAssumption DEF AddWaiter, Running
    <2>3. LockOwner(t) = None /\ LockOwner(t)' = o /\ waitsFor'[t] = k
        BY <1>0, <2>1, <2>2 DEF LockOwner, LockTypes
    <2>4. \A u \in Threads \ {t} : LockOwner(u)' = LockOwner(u) /\ waitsFor'[u] = waitsFor[u]
        BY <1>0, <2>2 DEF LockOwner, LockTypes
    <2>5. None \notin Threads
        BY PriorityAssumption
    <2>6. \A u \in Threads \ {o} : KernelWaitersOf(u)' = KernelWaitersOf(u)
        BY <2>3, <2>4, <2>5 DEF KernelWaitersOf, WaitersOf
    <2>7. /\ t \notin KernelWaitersOf(o)
          /\ KernelWaitersOf(o)' = IF k \in KernelKeys THEN KernelWaitersOf(o) \cup {t}
                                   ELSE KernelWaitersOf(o)
        BY <2>3, <2>4, <2>5 DEF KernelWaitersOf, WaitersOf
    <2>8. KernelWaitersOf(o) \in SUBSET Threads
        BY DEF KernelWaitersOf, WaitersOf
    <2>9. Cardinality(KernelWaitersOf(o)') = IF k \in KernelKeys THEN Cardinality(KernelWaitersOf(o)) + 1
                                   ELSE Cardinality(KernelWaitersOf(o))
        BY <2>7, <2>8, FS_AddElement, ThreadSetsFinite
    <2>10. numKernelWaiters'[o] = Cardinality(KernelWaitersOf(o)')
        BY <1>0, <2>1, <2>2, <2>9 DEF Counted
    <2>11. \A u \in Threads \ {o} : numKernelWaiters'[u] = Cardinality(KernelWaitersOf(u)')
        BY <1>0, <2>2, <2>6 DEF Counted
    <2>12. numKernelWaiters' \in [Threads -> Int]
        BY <1>0, <2>2
    <2> QED BY <2>10, <2>11, <2>12 DEF Counted
<1>6. ASSUME NEW t \in Threads, RemoveWaiter(t) PROVE C'
    <2>1. PICK o \in Threads : o = LockOwner(t)
        BY <1>0, <1>6 DEF RemoveWaiter, Running, Inv, WaitedForIsHeld
    <2>2. /\ waitsFor[t] # None
          /\ waitsFor' = [waitsFor EXCEPT ![t] = None]
          /\ numKernelWaiters' = [numKernelWaiters EXCEPT ![o] =
                                    IF waitsFor[t] \in KernelKeys THEN @ - 1 ELSE @]
          /\ holder' = holder
        BY <1>6, <2>1 DEF RemoveWaiter, Running
    <2>3. LockOwner(t)' = None
        BY <1>0, <2>2 DEF LockOwner, LockTypes
    <2>4. \A u \in Threads \ {t} : LockOwner(u)' = LockOwner(u) /\ waitsFor'[u] = waitsFor[u]
        BY <1>0, <2>2 DEF LockOwner, LockTypes
    <2>5. None \notin Threads
        BY PriorityAssumption
    <2>6. \A u \in Threads \ {o} : KernelWaitersOf(u)' = KernelWaitersOf(u)
        BY <2>1, <2>3, <2>4, <2>5 DEF KernelWaitersOf, WaitersOf
    <2>7. /\ t \in KernelWaitersOf(o) <=> waitsFor[t] \in KernelKeys
          /\ KernelWaitersOf(o)' = KernelWaitersOf(o) \ {t}
        BY <2>1, <2>3, <2>4, <2>5 DEF KernelWaitersOf, WaitersOf
    <2>8. KernelWaitersOf(o) \in SUBSET Threads
        BY DEF KernelWaitersOf, WaitersOf
    <2>9. Cardinality(KernelWaitersOf(o)') = IF waitsFor[t] \in KernelKeys
                                   THEN Cardinality(KernelWaitersOf(o)) - 1
                                   ELSE Cardinality(KernelWaitersOf(o))
        BY <2>7, <2>8, FS_RemoveElement, ThreadSetsFinite
    <2>10. numKernelWaiters'[o] = Cardinality(KernelWaitersOf(o)')
        BY <1>0, <2>1, <2>2, <2>9 DEF Counted
    <2>11. \A u \in Threads \ {o} : numKernelWaiters'[u] = Cardinality(KernelWaitersOf(u)')
        BY <1>0, <2>2, <2>6 DEF Counted
    <2>12. numKernelWaiters' \in [Threads -> Int]
        BY <1>0, <2>2
    <2> QED BY <2>10, <2>11, <2>12 DEF Counted
<1>7. ASSUME NEW o \in Threads, NEW k \in Keys, RemoveWaiterByKey(o, k) PROVE C'
    <2>1. CASE /\ WaitersOn(k) = {}
               /\ holder' = [holder EXCEPT ![k] = None]
               /\ UNCHANGED <<waitsFor, numKernelWaiters, restoring>>
        <3>1. \A u \in Threads : LockOwner(u)' = LockOwner(u)
            BY <1>0, <2>1 DEF LockOwner, WaitersOn, LockTypes
        <3> QED BY <1>0, <2>1, <3>1, CountedUnchanged
    <2>2. ASSUME NEW next \in HighestPriorityWaiters(k),
                 holder' = [holder EXCEPT ![k] = next],
                 waitsFor' = [waitsFor EXCEPT ![next] = None],
                 numKernelWaiters' = [numKernelWaiters EXCEPT
                    ![o] = @ - KernelWaiters(k), ![next] = @ + KernelWaiters(k)']
          PROVE C'
        <3>1. /\ next \in Threads
              /\ waitsFor[next] = k
              /\ k # None
              /\ next # o
              /\ holder[k] = o
              /\ None \notin Threads
            BY <1>7, PriorityAssumption
               DEF HighestPriorityWaiters, WaitersOn, RemoveWaiterByKey, Running
        <3>2. LockOwner(next)' = None /\ waitsFor'[next] = None /\ None \notin KernelKeys
            BY <1>0, <2>2, <3>1, PriorityAssumption DEF LockOwner, LockTypes
        <3>3. \A u \in Threads \ {next} :
                /\ LockOwner(u)' = IF waitsFor[u] = k THEN next ELSE LockOwner(u)
                /\ waitsFor'[u] = waitsFor[u]
            BY <1>0, <2>2, <3>1 DEF LockOwner, LockTypes
        <3>4. \A u \in Threads : waitsFor[u] = k => LockOwner(u) = o
            BY <3>1 DEF LockOwner
        <3>5. WaitersOn(k)' = WaitersOn(k) \ {next}
            BY <3>1, <3>2, <3>3 DEF WaitersOn
        <3>6. WaitersOn(k) \in SUBSET Threads /\ WaitersOn(k)' \in SUBSET Threads
              /\ \A u \in Threads : KernelWaitersOf(u) \in SUBSET Threads
            BY DEF WaitersOn, KernelWaitersOf, WaitersOf
        <3>7. /\ KernelWaiters(k) = IF k \in KernelKeys THEN Cardinality(WaitersOn(k)) ELSE 0
              /\ KernelWaiters(k)' = IF k \in KernelKeys THEN Cardinality(WaitersOn(k)') ELSE 0
            BY DEF KernelWaiters
        <3>8. \A u \in Threads \ {o, next} : KernelWaitersOf(u)' = KernelWaitersOf(u)
            BY <3>1, <3>2, <3>3, <3>4 DEF KernelWaitersOf, WaitersOf
        <3>9. KernelWaitersOf(o)' = KernelWaitersOf(o) \ WaitersOn(k)
            BY <3>1, <3>2, <3>3, <3>4 DEF KernelWaitersOf, WaitersOf, WaitersOn
        <3>10. KernelWaitersOf(next)' = IF k \in KernelKeys
                                        THEN KernelWaitersOf(next) \cup WaitersOn(k)'
                                        ELSE KernelWaitersOf(next)
            BY <3>1, <3>2, <3>3, <3>4, <3>5 DEF KernelWaitersOf, WaitersOf, WaitersOn
        <3>11. /\ k \in KernelKeys => WaitersOn(k) \subseteq KernelWaitersOf(o)
               /\ k \notin KernelKeys => KernelWaitersOf(o) \cap WaitersOn(k) = {}
               /\ KernelWaitersOf(next) \cap WaitersOn(k) = {}
            BY <3>1, <3>4 DEF KernelWaitersOf, WaitersOf, WaitersOn
        <3>12. Cardinality(KernelWaitersOf(o)') = Cardinality(KernelWaitersOf(o)) - KernelWaiters(k)
            <4>1. CASE k \in KernelKeys
                <5>1. KernelWaitersOf(o) = KernelWaitersOf(o)' \cup WaitersOn(k)
                    BY <3>9, <3>11, <4>1
                <5>2. KernelWaitersOf(o)' \cap WaitersOn(k) = {} /\ KernelWaitersOf(o)' \in SUBSET Threads
                    BY <3>6, <3>9
                <5>3. Cardinality(KernelWaitersOf(o)) = Cardinality(KernelWaitersOf(o)') + Cardinality(WaitersOn(k))
                    BY <3>6, <5>1, <5>2, DisjointUnion
                <5> QED BY <3>6, <3>7, <4>1, <5>2, <5>3, ThreadSetsFinite
            <4>2. CASE k \notin KernelKeys
                <5>1. KernelWaitersOf(o)' = KernelWaitersOf(o)
                    BY <3>9, <3>11, <4>2
                <5> QED BY <3>6, <3>7, <4>2, <5>1, ThreadSetsFinite
            <4> QED BY <4>1, <4>2
        <3>13. Cardinality(KernelWaitersOf(next)') =
                Cardinality(KernelWaitersOf(next)) + KernelWaiters(k)'
            <4>1. CASE k \in KernelKeys
                <5>1. KernelWaitersOf(next) \cap WaitersOn(k)' = {}
                    BY <3>5, <3>11
                <5>2. Cardinality(KernelWaitersOf(next) \cup WaitersOn(k)') =
                        Cardinality(KernelWaitersOf(next)) + Cardinality(WaitersOn(k)')
                    BY <3>1, <3>6, <5>1, DisjointUnion
                <5> QED BY <3>7, <3>10, <4>1, <5>2
            <4>2. CASE k \notin KernelKeys
                BY <3>1, <3>6, <3>7, <3>10, <4>2, ThreadSetsFinite
            <4> QED BY <4>1, <4>2
        <3>14. KernelWaiters(k) \in Int /\ KernelWaiters(k)' \in Int
            BY <3>6, <3>7, ThreadSetsFinite
        <3>15. /\ numKernelWaiters'[o] = numKernelWaiters[o] - KernelWaiters(k)
               /\ numKernelWaiters'[next] = numKernelWaiters[next] + KernelWaiters(k)'
               /\ \A u \in Threads \ {o, next} : numKernelWaiters'[u] = numKernelWaiters[u]
               /\ numKernelWaiters' \in [Threads -> Int]
            BY <1>0, <2>2, <3>1, <3>14
        <3>16. numKernelWaiters'[o] = Cardinality(KernelWaitersOf(o)')
            BY <1>0, <3>12, <3>15 DEF Counted
        <3>17. numKernelWaiters'[next] = Cardinality(KernelWaitersOf(next)')
            BY <1>0, <3>1, <3>13, <3>15 DEF Counted
        <3>18. \A u \in Threads \ {o, next} : numKernelWaiters'[u] = Cardinality(KernelWaitersOf(u)')
            BY <1>0, <3>8, <3>15 DEF Counted
        <3> QED BY <3>15, <3>16, <3>17, <3>18 DEF Counted
    <2> QED BY <1>7, <2>1, <2>2 DEF RemoveWaiterByKey
<1> HIDE DEF C
<1>8. C'
    BY <1>1, <1>2, <1>3, <1>4, <1>5, <1>6, <1>7 DEF Next
<1> QED BY <1>0, <1>8 DEF CountInv, C

\* CountInv holds initially.
LEMMA CountInit == Init => CountInv
<1> SUFFICES ASSUME Init PROVE CountInv
    OBVIOUS
<1>1. \A t \in Threads : KernelWaitersOf(t) = {}
    BY PriorityAssumption DEF Init, KernelWaitersOf, WaitersOf, LockOwner
<1>2. numKernelWaiters = [t \in Threads |-> 0]
    BY DEF Init
<1> QED BY <1>1, <1>2, InvInit, FS_EmptySet DEF CountInv, Counted

\* m_num_kernel_waiters is the number of waiters on kernel locks, for any history of
\* waits, cancelled waits and hand-overs.
THEOREM KernelWaitersCountedAlways == Spec => []KernelWaitersCounted
<1>1. CountInv => KernelWaitersCounted
    BY DEF CountInv, Counted, KernelWaitersCounted, KernelWaitersOf
<1> QED BY <1>1, CountInit, CountStep, PTL DEF Spec

\* Every reachable state is well typed; in particular m_num_kernel_waiters is never
\* negative, which RemoveWaiterImpl and RemoveWaiterByKey assert.
THEOREM TypeCorrect == Spec => []TypeOK
<1>1. ASSUME CountInv PROVE TypeOK
    <2>1. \A t \in Threads : KernelWaitersOf(t) \in SUBSET Threads
        BY DEF KernelWaitersOf, WaitersOf
    <2>2. \A t \in Threads : numKernelWaiters[t] \in 0..Cardinality(Threads)
        BY <1>1, <2>1, ThreadSetsFinite, PriorityAssumption, FS_CardinalityType
           DEF CountInv, Counted
    <2>3. numKernelWaiters \in [Threads -> 0..Cardinality(Threads)]
        BY <1>1, <2>2 DEF CountInv
    <2> QED BY <1>1, <2>3 DEF CountInv, Inv, LockTypes, TypeOK
<1> QED BY <1>1, CountInit, CountStep, PTL DEF Spec

=============================================================================
