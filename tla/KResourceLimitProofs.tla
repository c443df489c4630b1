------------------------- MODULE KResourceLimitProofs -------------------------
(***************************************************************************)
(* The value of a resource is what its users have reserved, and the hint,  *)
(* the value, the limit and the peak keep the order the asserts state.     *)
(*                                                                         *)
(* A release leaves no thread blocked whose value fits because of it.      *)
(* Release broadcasts only if m_waiter_count is not zero, so the proof has *)
(* to show that the count, which Reserve raises before it waits and lowers *)
(* when it has taken m_lock again, covers every thread in m_wait_list.     *)
(***************************************************************************)
EXTENDS KResourceLimit, FiniteSetTheorems, TLAPS

Typed ==
    /\ limit \in Int /\ current \in Int /\ hint \in Int
    /\ pc \in [Threads -> PCs]
    /\ want \in [Threads -> Values \cup {0}]
    /\ waiterCount \in Int

LEMMA WantType ==
    ASSUME Typed, NEW t \in Threads
    PROVE  want[t] \in 0..MaxS64
<1>1. want[t] \in Values \cup {0}
  BY DEF Typed
<1>2. Values \subseteq 1..MaxS64 /\ MaxS64 \in Nat
  BY ResourceAssumption
<1>3. ASSUME NEW v \in Values
      PROVE  v \in 0..MaxS64
  BY <1>2
<1>4. 0 \in 0..MaxS64
  BY <1>2
<1> QED
  BY <1>1, <1>3, <1>4, Zenon

\* The threads between the two changes of m_waiter_count in the loop of Reserve.
Counted(p) == {t \in Threads : p[t] \in {"waiting", "relock"}}

WaitersCounted == waiterCount = Cardinality(Counted(pc))

CountInv == Typed /\ WaitersCounted

\* Setting one thread's place moves at most that thread into or out of Counted.
LEMMA CountedMoves ==
    ASSUME NEW p \in [Threads -> PCs], NEW t \in Threads, NEW new \in PCs
    PROVE  LET C == Cardinality(Counted(p))
               D == Cardinality(Counted([p EXCEPT ![t] = new]))
               in == {"waiting", "relock"}
           IN  /\ C \in Nat /\ D \in Nat
               /\ p[t] \in in /\ new \in in => D = C
               /\ p[t] \notin in /\ new \in in => D = C + 1
               /\ p[t] \in in /\ new \notin in => D = C - 1
               /\ p[t] \notin in /\ new \notin in => D = C
<1> DEFINE q == [p EXCEPT ![t] = new]
           in == {"waiting", "relock"}
<1>1. IsFiniteSet(Threads) /\ IsFiniteSet(Counted(p)) /\ IsFiniteSet(Counted(q))
  BY ResourceAssumption, FS_Subset DEF Counted
<1>2. Cardinality(Counted(p)) \in Nat /\ Cardinality(Counted(q)) \in Nat
  BY <1>1, FS_CardinalityType
<1>3. CASE (p[t] \in in) = (new \in in)
  <2>1. Counted(q) = Counted(p)
    BY <1>3 DEF Counted
  <2> QED
    BY <2>1, <1>2, <1>3
<1>4. CASE p[t] \notin in /\ new \in in
  <2>1. Counted(q) = Counted(p) \cup {t} /\ t \notin Counted(p)
    BY <1>4 DEF Counted
  <2>2. Cardinality(Counted(p) \cup {t}) = Cardinality(Counted(p)) + 1
    BY <2>1, <1>1, FS_AddElement
  <2> QED
    BY <2>1, <2>2, <1>2, <1>4
<1>5. CASE p[t] \in in /\ new \notin in
  <2>1. Counted(q) = Counted(p) \ {t} /\ t \in Counted(p)
    BY <1>5 DEF Counted
  <2>2. Cardinality(Counted(p) \ {t}) = Cardinality(Counted(p)) - 1
    BY <2>1, <1>1, FS_RemoveElement
  <2> QED
    BY <2>1, <2>2, <1>2, <1>5
<1> QED
  BY <1>3, <1>4, <1>5

\* Ending waits moves threads from waiting to relock: both are counted.
LEMMA EndWaitsCounts ==
    ASSUME Typed, NEW ts \in SUBSET Threads, NEW p \in [Threads -> PCs],
           \A t \in Threads : p[t] = pc[t] \/ {p[t], pc[t]} \cap {"waiting", "relock"} = {},
           EndWaits(ts, p)
    PROVE  pc' \in [Threads -> PCs] /\ Counted(pc') = Counted(pc)
  BY DEF Typed, EndWaits, Counted, PCs

\* One run of the loop of Reserve by t keeps the count, if waiters leaves t out.
LEMMA ReserveLoopCounts ==
    ASSUME Typed, NEW t \in Threads, NEW value, NEW timeout, NEW waiters \in Int,
           ReserveLoop(t, value, timeout, waiters),
           value \in Int,
           waiters = Cardinality(Counted([pc EXCEPT ![t] = "idle"]))
    PROVE  /\ limit' \in Int /\ current' \in Int /\ hint' \in Int
           /\ pc' \in [Threads -> PCs] /\ waiterCount' \in Int
           /\ waiterCount' = Cardinality(Counted(pc'))
<1> DEFINE idle == [pc EXCEPT ![t] = "idle"]
<1>1. idle \in [Threads -> PCs] /\ idle[t] = "idle"
  BY DEF Typed, PCs
<1>2. \A s \in PCs : [pc EXCEPT ![t] = s] = [idle EXCEPT ![t] = s]
  BY DEF Typed
<1>3. \/ ReserveFails(t, waiters)
      \/ ReserveSucceeds(t, value, waiters)
      \/ Wait(t, timeout, waiters)
  BY DEF ReserveLoop
<1>4. /\ limit' \in Int /\ current' \in Int /\ hint' \in Int
      /\ pc' \in [Threads -> PCs] /\ waiterCount' \in Int
  BY <1>3 DEF ReserveFails, ReserveSucceeds, Wait, Typed, PCs, values
<1>5. PICK s \in PCs :
        /\ pc' = [pc EXCEPT ![t] = s]
        /\ \/ s = "waiting" /\ waiterCount' = waiters + 1
           \/ s \in {"idle", "held", "spinning"} /\ waiterCount' = waiters
  BY <1>3 DEF ReserveFails, ReserveSucceeds, Wait, PCs
<1>6. pc' = [idle EXCEPT ![t] = s]
  BY <1>5, <1>2
<1>7. CASE s = "waiting"
  <2>1. Cardinality(Counted([idle EXCEPT ![t] = s])) = Cardinality(Counted(idle)) + 1
    BY <1>1, <1>7, CountedMoves
  <2> QED
    BY <2>1, <1>4, <1>5, <1>6, <1>7
<1>8. CASE s \in {"idle", "held", "spinning"}
  <2>1. Cardinality(Counted([idle EXCEPT ![t] = s])) = Cardinality(Counted(idle))
    BY <1>1, <1>8, CountedMoves
  <2> QED
    BY <2>1, <1>4, <1>5, <1>6, <1>8
<1> QED
  BY <1>5, <1>7, <1>8

LEMMA CountInit == Init => CountInv
<1> SUFFICES ASSUME Init PROVE CountInv
  OBVIOUS
<1>1. Counted(pc) = {}
  BY DEF Init, Counted
<1>2. Typed
  BY ResourceAssumption DEF Init, Typed, PCs
<1> QED
  BY <1>1, <1>2, FS_EmptySet DEF CountInv, WaitersCounted, Init

LEMMA CountNext == CountInv /\ [Next]_vars => CountInv'
<1> SUFFICES ASSUME CountInv, [Next]_vars PROVE CountInv'
  OBVIOUS
<1>t. Typed /\ waiterCount = Cardinality(Counted(pc))
  BY DEF CountInv, WaitersCounted
<1>1. CASE \E value \in Limits : SetLimitValue(value)
  BY <1>1, <1>t, ResourceAssumption DEF SetLimitValue, CountInv, WaitersCounted, Typed
<1>2. ASSUME NEW t \in Threads, NEW value \in Values, Reserve(t, value)
      PROVE  CountInv'
  <2>1. [pc EXCEPT ![t] = "idle"] = pc /\ pc[t] = "idle"
    BY <1>2, <1>t DEF Reserve, Typed
  <2>2. want' \in [Threads -> Values \cup {0}]
    BY <1>2, <1>t DEF Reserve, Typed
  <2>3. CASE ReserveFails(t, waiterCount)
    BY <2>1, <2>2, <2>3, <1>t DEF ReserveFails, CountInv, WaitersCounted, Typed, values
  <2>4. CASE ReserveLoop(t, value, now + Timeout, waiterCount)
    <3>1. value \in Int /\ waiterCount \in Int
      BY <1>t, ResourceAssumption DEF Typed
    <3> QED
      BY <3>1, <2>1, <2>2, <2>4, <1>t, ReserveLoopCounts DEF CountInv, WaitersCounted, Typed
  <2> QED
    BY <1>2, <2>3, <2>4 DEF Reserve
<1>3. ASSUME NEW t \in Threads, Relock(t)
      PROVE  CountInv'
  <2>1. /\ pc[t] = "relock" /\ want' = want
        /\ ReserveLoop(t, want[t], deadline[t], waiterCount - 1)
    BY <1>3 DEF Relock
  <2>2. want[t] \in Int /\ waiterCount - 1 \in Int
    BY <1>t, WantType DEF Typed
  <2>3. Cardinality(Counted([pc EXCEPT ![t] = "idle"])) = Cardinality(Counted(pc)) - 1
    BY <2>1, <1>t, CountedMoves DEF Typed, PCs
  <2> QED
    BY <2>1, <2>2, <2>3, <1>t, ReserveLoopCounts DEF CountInv, WaitersCounted, Typed
<1>4. ASSUME NEW t \in Threads, Spin(t)
      PROVE  CountInv'
  <2>1. /\ pc[t] = "spinning" /\ want' = want
        /\ ReserveLoop(t, want[t], deadline[t], waiterCount)
    BY <1>4 DEF Spin
  <2>2. want[t] \in Int /\ waiterCount \in Int
    BY <1>t, WantType DEF Typed
  <2>3. Cardinality(Counted([pc EXCEPT ![t] = "idle"])) = Cardinality(Counted(pc))
    BY <2>1, <1>t, CountedMoves DEF Typed, PCs
  <2> QED
    BY <2>1, <2>2, <2>3, <1>t, ReserveLoopCounts DEF CountInv, WaitersCounted, Typed
<1>5. ASSUME NEW t \in Threads, NEW value \in Int, NEW h \in Int, NEW next \in {"idle", "hinted"},
             pc[t] \in {"held", "hinted"}, Release(t, value, h, next)
      PROVE  CountInv'
  <2> DEFINE p == [pc EXCEPT ![t] = next]
             ts == IF waiterCount # 0 THEN Threads ELSE {}
  <2>1. /\ p \in [Threads -> PCs] /\ ts \in SUBSET Threads
        /\ \A u \in Threads : p[u] = pc[u] \/ {p[u], pc[u]} \cap {"waiting", "relock"} = {}
    BY <1>5, <1>t DEF Typed, PCs
  <2>2. EndWaits(ts, p)
    BY <1>5 DEF Release
  <2>3. pc' \in [Threads -> PCs] /\ Counted(pc') = Counted(pc)
    BY <2>1, <2>2, <1>t, EndWaitsCounts
  <2> QED
    BY <2>3, <1>5, <1>t DEF Release, CountInv, WaitersCounted, Typed
<1>6. ASSUME NEW t \in Threads, ReleaseAll(t) \/ ReleaseHint(t) \/ ReleaseValue(t)
      PROVE  CountInv'
  <2>1. want[t] \in Int
    BY <1>t, WantType
  <2> QED
    BY <1>5, <1>6, <2>1 DEF ReleaseAll, ReleaseHint, ReleaseValue
<1>7. ASSUME NEW t \in Threads, OnTimer(t) \/ RequestTerminate(t)
      PROVE  CountInv'
  <2>1. EndWaits({t}, pc) /\ UNCHANGED <<values, waiterCount, want>>
    BY <1>7 DEF OnTimer, RequestTerminate
  <2>2. pc' \in [Threads -> PCs] /\ Counted(pc') = Counted(pc)
    BY <2>1, <1>t, EndWaitsCounts DEF Typed
  <2> QED
    BY <2>1, <2>2, <1>t DEF CountInv, WaitersCounted, Typed, values
<1>8. CASE Tick
  BY <1>8, <1>t DEF Tick, CountInv, WaitersCounted, Typed, values
<1>9. CASE UNCHANGED vars
  BY <1>9, <1>t DEF vars, CountInv, WaitersCounted, Typed, values
<1> QED
  BY <1>1, <1>2, <1>3, <1>4, <1>6, <1>7, <1>8, <1>9 DEF Next

\* A step of the loop by u leaves no thread blocked that fits and did not before: the
\* value only grows, and u itself waits only if its value does not fit.
LEMMA ReserveLoopRoom ==
    ASSUME Typed, NEW u \in Threads, NEW value \in 0..MaxS64, NEW timeout, NEW waiters,
           ReserveLoop(u, value, timeout, waiters),
           want' \in [Threads -> Values \cup {0}],
           want'[u] = value, \A t \in Threads \ {u} : want'[t] = want[t],
           NEW t \in Threads, pc'[t] = "waiting", Fits(t)'
    PROVE  pc[t] = "waiting" /\ Fits(t)
<1>1. /\ MaxS64 \in Nat /\ limit \in Int /\ current \in Int /\ want[t] \in 0..MaxS64
      /\ pc \in [Threads -> PCs]
  BY WantType, ResourceAssumption DEF Typed
<1>2. CASE current' = current + value /\ limit' = limit /\ pc' = [pc EXCEPT ![u] = "held"]
  <2>1. t # u /\ pc[t] = "waiting" /\ want'[t] = want[t]
    BY <1>1, <1>2
  <2>2. WrappingAdd(current + value, want[t]) \in (current + value)..limit
    BY <2>1, <1>2 DEF Fits, WrappingAdd
  <2> QED
    BY <2>1, <2>2, <1>1 DEF Fits, WrappingAdd
<1>3. CASE current' = current /\ limit' = limit /\ pc' = [pc EXCEPT ![u] = "idle"]
  BY <1>1, <1>3 DEF Fits, WrappingAdd
<1>4. CASE /\ WrappingAdd(current, value) > current /\ ~(current + value <= limit)
           /\ current' = current /\ limit' = limit
           /\ \E s \in {"waiting", "spinning"} : pc' = [pc EXCEPT ![u] = s]
  <2>1. CASE t = u
    <3>1. WrappingAdd(current, value) \in current..limit
      BY <2>1, <1>4 DEF Fits, WrappingAdd
    <3> QED
      BY <3>1, <1>1, <1>4 DEF WrappingAdd
  <2>2. CASE t # u
    BY <2>2, <1>1, <1>4 DEF Fits, WrappingAdd
  <2> QED
    BY <2>1, <2>2
<1>5. ReserveFails(u, waiters) => current' = current /\ limit' = limit /\ pc' = [pc EXCEPT ![u] = "idle"]
  BY DEF ReserveFails, values
<1>6. ReserveSucceeds(u, value, waiters) =>
        current' = current + value /\ limit' = limit /\ pc' = [pc EXCEPT ![u] = "held"]
  BY DEF ReserveSucceeds
<1>7. Wait(u, timeout, waiters) =>
        /\ current' = current /\ limit' = limit
        /\ \E s \in {"waiting", "spinning"} : pc' = [pc EXCEPT ![u] = s]
  BY DEF Wait, values
<1>8. WrappingAdd(current, value) \in Int
  BY <1>1 DEF WrappingAdd
<1> QED
  BY <1>1, <1>2, <1>3, <1>4, <1>5, <1>6, <1>7, <1>8 DEF ReserveLoop

\* Release wakes every waiter, or there is none.
LEMMA ReleaseRoom ==
    ASSUME CountInv, NEW u \in Threads, NEW value, NEW h, NEW next \in {"idle", "hinted"},
           Release(u, value, h, next), NEW t \in Threads
    PROVE  pc'[t] # "waiting"
<1>1. pc \in [Threads -> PCs] /\ waiterCount = Cardinality(Counted(pc))
  BY DEF CountInv, Typed, WaitersCounted
<1>2. CASE waiterCount # 0
  BY <1>1, <1>2 DEF Release, EndWaits
<1>3. CASE waiterCount = 0
  <2>1. IsFiniteSet(Counted(pc))
    BY ResourceAssumption, FS_Subset DEF Counted
  <2>2. Counted(pc) = {}
    BY <2>1, <1>1, <1>3, FS_EmptySet
  <2>3. pc[t] # "waiting"
    BY <2>2 DEF Counted
  <2> QED
    BY <2>3, <1>1, <1>3 DEF Release, EndWaits
<1> QED
  BY <1>2, <1>3

\* A release never leaves a thread blocked in Reserve whose value fits because of it,
\* for any set of threads, limits and values.
THEOREM RoomWakesWaitersAlways == Spec => RoomWakesWaiters
<1>1. ASSUME CountInv, [Next]_vars, NEW t \in Threads,
             pc'[t] = "waiting", Fits(t)', limit' = limit
      PROVE  pc[t] = "waiting" /\ Fits(t)
  <2>t. Typed /\ Typed'
    BY <1>1, CountNext DEF CountInv
  <2>1. ASSUME pc'[t] = pc[t], current' = current, want'[t] = want[t]
        PROVE  pc[t] = "waiting" /\ Fits(t)
    BY <2>1, <1>1 DEF Fits, WrappingAdd
  <2>2. CASE \E value \in Limits : SetLimitValue(value)
    BY <2>1, <2>2 DEF SetLimitValue
  <2>3. ASSUME NEW u \in Threads, NEW value \in Values, Reserve(u, value)
        PROVE  pc[t] = "waiting" /\ Fits(t)
    <3>1. /\ want'[u] = value /\ \A v \in Threads \ {u} : want'[v] = want[v]
          /\ pc[u] = "idle"
      BY <2>3, <2>t DEF Reserve, Typed
    <3>2. CASE ReserveFails(u, waiterCount)
      BY <3>1, <3>2, <2>t, <2>1, <1>1 DEF ReserveFails, values, Typed
    <3>3. CASE ReserveLoop(u, value, now + Timeout, waiterCount)
      <4>1. value \in 0..MaxS64
        BY ResourceAssumption
      <4> QED
        BY <4>1, <3>1, <3>3, <2>t, <1>1, ReserveLoopRoom DEF Typed
    <3> QED
      BY <2>3, <3>2, <3>3 DEF Reserve
  <2>4. ASSUME NEW u \in Threads, Relock(u) \/ Spin(u)
        PROVE  pc[t] = "waiting" /\ Fits(t)
    <3>1. want' = want /\ \E waiters : ReserveLoop(u, want[u], deadline[u], waiters)
      BY <2>4 DEF Relock, Spin
    <3>2. want[u] \in 0..MaxS64 /\ want' \in [Threads -> Values \cup {0}]
      BY <3>1, <2>t, WantType DEF Typed
    <3> QED
      BY <3>1, <3>2, <2>t, <1>1, ReserveLoopRoom
  <2>5. ASSUME NEW u \in Threads, ReleaseAll(u) \/ ReleaseHint(u) \/ ReleaseValue(u)
        PROVE  FALSE
    BY <2>5, <1>1, ReleaseRoom DEF ReleaseAll, ReleaseHint, ReleaseValue
  <2>6. ASSUME NEW u \in Threads, OnTimer(u) \/ RequestTerminate(u)
        PROVE  pc[t] = "waiting" /\ Fits(t)
    <3>1. EndWaits({u}, pc) /\ UNCHANGED <<values, want>>
      BY <2>6 DEF OnTimer, RequestTerminate
    <3>2. pc'[t] = pc[t]
      BY <3>1, <1>1 DEF EndWaits
    <3> QED
      BY <3>1, <3>2, <2>1 DEF values
  <2>7. CASE Tick
    BY <2>7, <2>1 DEF Tick, values
  <2>8. CASE UNCHANGED vars
    BY <2>8, <2>1 DEF vars, values
  <2> QED
    BY <1>1, <2>2, <2>3, <2>4, <2>5, <2>6, <2>7, <2>8 DEF Next
<1>2. CountInv /\ [Next]_vars =>
        [\A t \in Threads :
            (pc'[t] = "waiting" /\ Fits(t)' /\ limit' = limit) => pc[t] = "waiting" /\ Fits(t)]_vars
  BY <1>1
<1> QED
  BY <1>2, CountInit, CountNext, PTL DEF Spec, RoomWakesWaiters

(***************************************************************************)
(* The values.  What the holders have reserved is counted as a set of      *)
(* units, so that adding or removing a holder adds or removes its units.   *)
(***************************************************************************)

\* Units for given values, and the two sets of holders for given places.
UnitsOf(ts, w) == UNION {{t} \X (1..w[t]) : t \in ts}
Holding(p) == {t \in Threads : p[t] \in {"held", "hinted"}}
Held(p) == {t \in Threads : p[t] = "held"}

Wants == [Threads -> 0..MaxS64]

LEMMA UnitsFinite ==
    ASSUME NEW w \in Wants, NEW ts \in SUBSET Threads
    PROVE  IsFiniteSet(UnitsOf(ts, w)) /\ Cardinality(UnitsOf(ts, w)) \in Nat
<1> DEFINE all == Threads \X (1..MaxS64)
<1>1. IsFiniteSet(1..MaxS64) /\ IsFiniteSet(Threads) /\ MaxS64 \in Nat
  BY ResourceAssumption, FS_Interval
<1>2. IsFiniteSet(all)
  BY <1>1, FS_Product
<1>3. UnitsOf(ts, w) \in SUBSET all
  <2>1. ASSUME NEW u \in UnitsOf(ts, w)
        PROVE  u \in all
    <3>1. PICK t \in ts : u \in {t} \X (1..w[t])
      BY DEF UnitsOf
    <3>2. w[t] \in 0..MaxS64 /\ t \in Threads
      BY DEF Wants
    <3>3. \A n \in 1..w[t] : n \in 1..MaxS64
      BY <1>1, <3>2
    <3> QED
      BY <3>1, <3>2, <3>3
  <2> QED
    BY <2>1
<1> QED
  BY <1>2, <1>3, FS_Subset, FS_CardinalityType

\* One more thread adds the units it wants.
LEMMA UnitsAdded ==
    ASSUME NEW w \in Wants, NEW ts \in SUBSET Threads, NEW t \in Threads \ ts
    PROVE  Cardinality(UnitsOf(ts \cup {t}, w)) = Cardinality(UnitsOf(ts, w)) + w[t]
<1> DEFINE own == {t} \X (1..w[t])
           rest == UnitsOf(ts, w)
<1>1. w[t] \in Nat
  BY ResourceAssumption DEF Wants
<1>2. IsFiniteSet(own) /\ Cardinality(own) = w[t]
  <2>1. IsFiniteSet(1..w[t]) /\ Cardinality(1..w[t]) = w[t]
    <3>1. PICK n \in Nat : n = w[t]
      BY <1>1, Zenon
    <3>2. 1 \in Int /\ n \in Int
      OBVIOUS
    <3>3. IsFiniteSet(1..n) /\ Cardinality(1..n) = IF 1 > n THEN 0 ELSE n - 1 + 1
      BY <3>2, FS_Interval, Zenon
    <3>4. Cardinality(1..n) = n
      BY <3>3
    <3> QED
      BY <3>1, <3>3, <3>4, Zenon
  <2>2. IsFiniteSet({t}) /\ Cardinality({t}) = 1
    BY FS_Singleton
  <2>3. IsFiniteSet(own) /\ Cardinality(own) = Cardinality({t}) * Cardinality(1..w[t])
    BY <2>1, <2>2, FS_Product, Zenon
  <2> HIDE DEF own
  <2> QED
    BY <1>1, <2>1, <2>2, <2>3
<1>3. IsFiniteSet(rest) /\ Cardinality(rest) \in Nat
  BY UnitsFinite
<1>4. UnitsOf(ts \cup {t}, w) = rest \cup own
  BY DEF UnitsOf
<1>5. rest \cap own = {}
  BY DEF UnitsOf
<1>6. Cardinality(rest \cap own) = 0
  BY <1>5, FS_EmptySet
<1>7. Cardinality(rest \cup own) = Cardinality(rest) + Cardinality(own) - Cardinality(rest \cap own)
  BY <1>2, <1>3, FS_Union, Zenon
<1> HIDE DEF own, rest
<1>8. Cardinality(rest \cup own) = Cardinality(rest) + w[t]
  BY <1>1, <1>2, <1>3, <1>6, <1>7
<1> QED
  BY <1>4, <1>8 DEF rest

\* Two sets that differ in t only.
LEMMA UnitsMove ==
    ASSUME NEW w \in Wants, NEW v \in Wants, NEW A \in SUBSET Threads, NEW B \in SUBSET Threads,
           NEW t \in Threads, A \ {t} = B \ {t}, \A u \in A \ {t} : v[u] = w[u]
    PROVE  /\ Cardinality(UnitsOf(A, w)) \in Nat /\ Cardinality(UnitsOf(B, v)) \in Nat
           /\ Cardinality(UnitsOf(B, v)) = Cardinality(UnitsOf(A, w))
                  - (IF t \in A THEN w[t] ELSE 0) + (IF t \in B THEN v[t] ELSE 0)
<1> DEFINE R == A \ {t}
           n == Cardinality(UnitsOf(R, w))
<1>1. /\ Cardinality(UnitsOf(A, w)) \in Nat /\ Cardinality(UnitsOf(B, v)) \in Nat
      /\ n \in Nat /\ w[t] \in Nat /\ v[t] \in Nat
  BY UnitsFinite, ResourceAssumption DEF Wants
<1>2. UnitsOf(R, v) = UnitsOf(R, w)
  BY DEF UnitsOf
<1>3. Cardinality(UnitsOf(A, w)) = n + (IF t \in A THEN w[t] ELSE 0)
  <2>1. CASE t \in A
    <3>1. A = R \cup {t} /\ R \in SUBSET Threads /\ t \in Threads \ R
      BY <2>1
    <3> QED
      BY <2>1, <3>1, UnitsAdded
  <2>2. CASE t \notin A
    <3>1. Cardinality(UnitsOf(A, w)) = n
      <4>1. A = R
        BY <2>2
      <4> QED
        BY <4>1
    <3> HIDE DEF n
    <3> QED
      BY <1>1, <2>2, <3>1
  <2> QED
    BY <2>1, <2>2
<1>4. Cardinality(UnitsOf(B, v)) = n + (IF t \in B THEN v[t] ELSE 0)
  <2>1. CASE t \in B
    <3>1. B = R \cup {t} /\ R \in SUBSET Threads /\ t \in Threads \ R
      BY <2>1
    <3> QED
      BY <1>2, <2>1, <3>1, UnitsAdded
  <2>2. CASE t \notin B
    <3>1. Cardinality(UnitsOf(B, v)) = n
      <4>1. B = R
        BY <2>2
      <4> QED
        BY <4>1, <1>2
    <3> HIDE DEF n
    <3> QED
      BY <1>1, <2>2, <3>1
  <2> QED
    BY <2>1, <2>2
<1> HIDE DEF n
<1> QED
  BY <1>1, <1>3, <1>4

LEMMA MaxTwo ==
    ASSUME NEW a \in Int, NEW b \in Int
    PROVE  Max({a, b}) \in Int /\ a <= Max({a, b}) /\ b <= Max({a, b})
<1>1. \E x \in {a, b} : \A y \in {a, b} : x >= y
  <2>1. CASE a >= b
    BY <2>1
  <2>2. CASE b >= a
    BY <2>2
  <2> QED
    BY <2>1, <2>2
<1>2. Max({a, b}) \in {a, b} /\ \A y \in {a, b} : Max({a, b}) >= y
  BY <1>1 DEF Max
<1> QED
  BY <1>2

\* The bounds follow from the two sums, but for the limit and the peak.
ValueInv ==
    /\ Typed
    /\ peak \in Int
    /\ current = Cardinality(UnitsOf(Holding(pc), want))
    /\ hint = Cardinality(UnitsOf(Held(pc), want))
    /\ current <= limit
    /\ current <= peak

\* The values after thread t alone has moved, from reserved to not reserved or back.
LEMMA ValuesMove ==
    ASSUME ValueInv, Typed', NEW t \in Threads,
           \A u \in Threads \ {t} : /\ want'[u] = want[u]
                                    /\ pc'[u] = pc[u] \/ {pc'[u], pc[u]} \cap {"held", "hinted"} = {}
    PROVE  /\ Cardinality(UnitsOf(Holding(pc'), want')) = current
                  - (IF t \in Holding(pc) THEN want[t] ELSE 0) + (IF t \in Holding(pc') THEN want'[t] ELSE 0)
           /\ Cardinality(UnitsOf(Held(pc'), want')) = hint
                  - (IF t \in Held(pc) THEN want[t] ELSE 0) + (IF t \in Held(pc') THEN want'[t] ELSE 0)
<1>1. want \in Wants /\ want' \in Wants
  <2>1. Values \cup {0} \subseteq 0..MaxS64
    BY ResourceAssumption
  <2> QED
    BY <2>1 DEF ValueInv, Typed, Wants
<1>2. /\ Holding(pc) \in SUBSET Threads /\ Holding(pc') \in SUBSET Threads
      /\ Held(pc) \in SUBSET Threads /\ Held(pc') \in SUBSET Threads
  BY DEF Holding, Held
<1>3. Holding(pc) \ {t} = Holding(pc') \ {t}
  BY DEF Holding
<1>4. Held(pc) \ {t} = Held(pc') \ {t}
  BY DEF Held
<1>5. /\ \A u \in Holding(pc) \ {t} : want'[u] = want[u]
      /\ \A u \in Held(pc) \ {t} : want'[u] = want[u]
  BY <1>2
<1>6. Cardinality(UnitsOf(Holding(pc'), want')) = Cardinality(UnitsOf(Holding(pc), want))
          - (IF t \in Holding(pc) THEN want[t] ELSE 0) + (IF t \in Holding(pc') THEN want'[t] ELSE 0)
  BY <1>1, <1>2, <1>3, <1>5, UnitsMove
<1>7. Cardinality(UnitsOf(Held(pc'), want')) = Cardinality(UnitsOf(Held(pc), want))
          - (IF t \in Held(pc) THEN want[t] ELSE 0) + (IF t \in Held(pc') THEN want'[t] ELSE 0)
  BY <1>1, <1>2, <1>4, <1>5, UnitsMove
<1> QED
  BY <1>6, <1>7, Zenon DEF ValueInv

LEMMA ValueInit == Init => ValueInv
<1> SUFFICES ASSUME Init PROVE ValueInv
  OBVIOUS
<1>1. Typed /\ limit \in 0..MaxS64 /\ current = 0 /\ hint = 0 /\ peak = 0
  BY CountInit, ResourceAssumption DEF CountInv, Init
<1>2. Holding(pc) = {} /\ Held(pc) = {}
  BY DEF Init, Holding, Held
<1>3. UnitsOf({}, want) = {}
  BY DEF UnitsOf
<1> QED
  BY <1>1, <1>2, <1>3, FS_EmptySet, ResourceAssumption DEF ValueInv

\* One run of the loop by a thread that holds nothing: the value is added if it fits.
LEMMA ReserveLoopValue ==
    ASSUME ValueInv, Typed', NEW t \in Threads, NEW value \in 0..MaxS64, NEW timeout, NEW waiters,
           pc[t] \notin {"held", "hinted"},
           ReserveFails(t, waiters) \/ ReserveLoop(t, value, timeout, waiters),
           want'[t] = value, \A u \in Threads \ {t} : want'[u] = want[u]
    PROVE  ValueInv'
<1>1. /\ pc \in [Threads -> PCs] /\ current \in Int /\ hint \in Int /\ limit \in Int /\ peak \in Int
      /\ current <= limit /\ current <= peak /\ MaxS64 \in Nat
  BY ResourceAssumption DEF ValueInv, Typed
<1>2. t \notin Holding(pc) /\ t \notin Held(pc)
  BY DEF Holding, Held
<1>3. CASE /\ values' = values
           /\ \E s \in {"idle", "waiting", "spinning"} : pc' = [pc EXCEPT ![t] = s]
  <2>1. \A u \in Threads \ {t} : pc'[u] = pc[u]
    BY <1>1, <1>3
  <2>2. t \notin Holding(pc') /\ t \notin Held(pc')
    BY <1>1, <1>3 DEF Holding, Held
  <2>3. /\ Cardinality(UnitsOf(Holding(pc'), want')) = current - 0 + 0
        /\ Cardinality(UnitsOf(Held(pc'), want')) = hint - 0 + 0
    BY <2>1, <2>2, <1>2, ValuesMove
  <2> QED
    BY <2>3, <1>1, <1>3 DEF ValueInv, values
<1>4. CASE ReserveSucceeds(t, value, waiters) /\ current + value <= limit
  <2>1. \A u \in Threads \ {t} : pc'[u] = pc[u]
    BY <1>1, <1>4 DEF ReserveSucceeds
  <2>2. t \in Holding(pc') /\ t \in Held(pc')
    BY <1>1, <1>4 DEF ReserveSucceeds, Holding, Held
  <2>3. /\ Cardinality(UnitsOf(Holding(pc'), want')) = current - 0 + value
        /\ Cardinality(UnitsOf(Held(pc'), want')) = hint - 0 + value
    BY <2>1, <2>2, <1>2, ValuesMove
  <2>4. /\ current' = current + value /\ hint' = hint + value /\ limit' = limit
        /\ peak' = Max({peak, current'})
    BY <1>4 DEF ReserveSucceeds
  <2>5. peak' \in Int /\ current' <= peak'
    BY <2>4, <1>1, MaxTwo
  <2> QED
    BY <2>3, <2>4, <2>5, <1>1, <1>4 DEF ValueInv
<1>5. ReserveFails(t, waiters) \/ Wait(t, timeout, waiters) =>
        values' = values /\ \E s \in {"idle", "waiting", "spinning"} : pc' = [pc EXCEPT ![t] = s]
  BY DEF ReserveFails, Wait
<1> QED
  BY <1>3, <1>4, <1>5 DEF ReserveLoop

LEMMA ValueNext == CountInv /\ ValueInv /\ [Next]_vars => ValueInv'
<1> SUFFICES ASSUME CountInv, ValueInv, [Next]_vars PROVE ValueInv'
  OBVIOUS
<1>t. Typed' /\ Typed
  BY CountNext DEF CountInv
<1>i. /\ pc \in [Threads -> PCs] /\ current \in Int /\ hint \in Int /\ limit \in Int /\ peak \in Int
      /\ current <= limit /\ current <= peak /\ MaxS64 \in Nat
  BY ResourceAssumption DEF ValueInv, Typed
<1>1. CASE \E value \in Limits : SetLimitValue(value)
  BY <1>1, <1>t, <1>i, ResourceAssumption DEF SetLimitValue, ValueInv
<1>2. ASSUME NEW t \in Threads, NEW value \in Values, Reserve(t, value)
      PROVE  ValueInv'
  <2>1. /\ pc[t] = "idle" /\ want'[t] = value
        /\ \A u \in Threads \ {t} : want'[u] = want[u]
    BY <1>2, <1>t DEF Reserve, Typed
  <2>2. value \in 0..MaxS64
    BY ResourceAssumption
  <2>3. ReserveFails(t, waiterCount) \/ ReserveLoop(t, value, now + Timeout, waiterCount)
    BY <1>2 DEF Reserve
  <2> QED
    BY <2>1, <2>2, <2>3, <1>t, ReserveLoopValue
<1>3. ASSUME NEW t \in Threads, Relock(t) \/ Spin(t)
      PROVE  ValueInv'
  <2>1. /\ pc[t] \notin {"held", "hinted"} /\ want' = want
        /\ \E waiters : ReserveLoop(t, want[t], deadline[t], waiters)
    BY <1>3 DEF Relock, Spin
  <2>2. want[t] \in 0..MaxS64
    BY <1>t, WantType
  <2> QED
    BY <2>1, <2>2, <1>t, ReserveLoopValue
<1>4. ASSUME NEW t \in Threads, NEW value, NEW h, NEW next \in {"idle", "hinted"},
             pc[t] \in {"held", "hinted"}, Release(t, value, h, next),
             value = IF next = "idle" THEN want[t] ELSE 0,
             h = IF pc[t] = "held" THEN want[t] ELSE 0
      PROVE  ValueInv'
  <2>1. /\ pc'[t] = next /\ want' = want
        /\ \A u \in Threads \ {t} : pc'[u] = pc[u] \/ {pc'[u], pc[u]} \cap {"held", "hinted"} = {}
    BY <1>4, <1>i DEF Release, EndWaits
  <2>2. /\ current' = current - value /\ hint' = hint - h /\ limit' = limit /\ peak' = peak
    BY <1>4 DEF Release
  <2>3. want[t] \in 0..MaxS64
    BY <1>t, WantType
  <2>4. /\ t \in Holding(pc) /\ (t \in Held(pc)) = (pc[t] = "held")
        /\ (t \in Holding(pc')) = (next = "hinted") /\ t \notin Held(pc')
    BY <2>1, <1>4 DEF Holding, Held
  <2>5. /\ Cardinality(UnitsOf(Holding(pc'), want')) = current - want[t]
                + (IF next = "hinted" THEN want[t] ELSE 0)
        /\ Cardinality(UnitsOf(Held(pc'), want')) = hint
                - (IF pc[t] = "held" THEN want[t] ELSE 0) + 0
    BY <2>1, <2>4, <1>t, ValuesMove
  <2>6. /\ Cardinality(UnitsOf(Holding(pc'), want')) = current'
        /\ Cardinality(UnitsOf(Held(pc'), want')) = hint'
        /\ current' <= limit' /\ current' <= peak' /\ peak' \in Int
    BY <2>2, <2>3, <2>5, <1>4, <1>i
  <2> QED
    BY <2>6, <1>t DEF ValueInv
<1>5. ASSUME NEW t \in Threads, ReleaseAll(t) \/ ReleaseHint(t) \/ ReleaseValue(t)
      PROVE  ValueInv'
  BY <1>4, <1>5 DEF ReleaseAll, ReleaseHint, ReleaseValue
<1>6. ASSUME NEW t \in Threads, OnTimer(t) \/ RequestTerminate(t)
      PROVE  ValueInv'
  <2>1. EndWaits({t}, pc) /\ UNCHANGED <<values, want>>
    BY <1>6 DEF OnTimer, RequestTerminate
  <2>2. Holding(pc') = Holding(pc) /\ Held(pc') = Held(pc)
    BY <2>1, <1>i DEF EndWaits, Holding, Held
  <2> QED
    BY <2>1, <2>2, <1>t DEF ValueInv, values
<1>7. CASE Tick
  BY <1>7, <1>t DEF Tick, ValueInv, values
<1>8. CASE UNCHANGED vars
  BY <1>8, <1>t DEF vars, ValueInv, values
<1> QED
  BY <1>1, <1>2, <1>3, <1>5, <1>6, <1>7, <1>8 DEF Next

\* Nothing that Reserve has added is lost or counted twice: whatever the threads, values
\* and limits, and however waits end, the current value is what the holders have reserved
\* and the hint what they have not given notice of.
THEOREM ValueIsReservedAlways == Spec => []ValueIsReserved
<1>1. ValueInv => ValueIsReserved
  <2>1. Holders = Holding(pc) /\ {t \in Holders : pc[t] = "held"} = Held(pc)
    BY DEF Holders, Holding, Held
  <2>2. \A ts : Units(ts) = UnitsOf(ts, want)
    BY DEF Units, UnitsOf
  <2> QED
    BY <2>1, <2>2 DEF ValueInv, ValueIsReserved
<1> QED
  BY <1>1, CountInit, CountNext, ValueInit, ValueNext, PTL DEF Spec

\* What Reserve and Release assert of the values holds for every resource: the hint is
\* at most the value, because its units are among the value's, and the value is at most
\* the limit, which SetLimitValue never sets below it, and at most the peak.
THEOREM ValuesWithinLimitAlways == Spec => []ValuesWithinLimit
<1>1. ValueInv => ValuesWithinLimit
  <2> SUFFICES ASSUME ValueInv PROVE ValuesWithinLimit
    OBVIOUS
  <2>1. want \in Wants
    <3>1. Values \cup {0} \subseteq 0..MaxS64
      BY ResourceAssumption
    <3> QED
      BY <3>1 DEF ValueInv, Typed, Wants
  <2>2. IsFiniteSet(UnitsOf(Holding(pc), want))
    BY <2>1, UnitsFinite DEF Holding
  <2>3. UnitsOf(Held(pc), want) \in SUBSET UnitsOf(Holding(pc), want)
    BY DEF UnitsOf, Held, Holding
  <2>4. Cardinality(UnitsOf(Held(pc), want)) <= Cardinality(UnitsOf(Holding(pc), want))
    BY <2>2, <2>3, FS_Subset
  <2> QED
    BY <2>4 DEF ValueInv, ValuesWithinLimit
<1> QED
  BY <1>1, CountInit, CountNext, ValueInit, ValueNext, PTL DEF Spec

===============================================================================
