--------------------------- MODULE CoreTimingProofs ---------------------------
(***************************************************************************)
(* Proofs, for any events, delays and times: no callback runs while the    *)
(* timer is paused, the queue is sorted, and events follow what their      *)
(* owner schedules and unschedules.                                        *)
(***************************************************************************)
EXTENDS CoreTiming, FiniteSetTheorems, SequenceTheorems, TLAPS

\* The timer thread is in Advance or about to enter it.
Active == {"unset", "advance", "callback"}

InSyncPause == {"setPause", "setEvent", "spin"}

\* The handshake of SyncPause and the timer thread, for a pause that follows a
\* SyncPause(false) which found the thread parked.  While SyncPause(true) is under way
\* the paused_set it waits for is only true once the thread is out of Advance; for that,
\* paused_set must have been false when it began, and no thread about to park with the
\* answer to an earlier pause, which is what the SyncPause(false) before it waited for.
PauseInv ==
    /\ paused \in BOOLEAN /\ pausedSet \in BOOLEAN /\ observed \in BOOLEAN
    /\ observed /\ paused /\ cpc = "idle" => tpc \notin Active
    /\ observed /\ paused /\ cpc \in InSyncPause /\ pausedSet => tpc \notin Active
    /\ observed /\ ~paused /\ cpc = "idle" => ~pausedSet /\ tpc # "park"
    /\ observed /\ ~paused /\ cpc \in InSyncPause /\ ~pausedSet => tpc # "park"

\* A state that Initialize leaves satisfies the invariant: nothing has run yet.
LEMMA PauseInit == Init => PauseInv
  BY DEF Init, PauseInv, Active, InSyncPause

\* A step of the timer thread (ThreadLoop, Advance) preserves it.
LEMMA PauseTimer == PauseInv /\ TimerStep => PauseInv'
  <1> SUFFICES ASSUME PauseInv, TimerStep
               PROVE  PauseInv'
    OBVIOUS
  <1> USE DEF PauseInv, Active, InSyncPause, flagVars, controlVars
  <1>1. CASE Outer
    BY <1>1 DEF Outer
  <1>2. CASE Inner
    BY <1>2 DEF Inner
  <1>3. CASE UnsetPaused
    BY <1>3 DEF UnsetPaused
  <1>4. CASE Advance
    BY <1>4 DEF Advance, PopOrReturn
  <1>5. CASE CallbackReturns
    BY <1>5 DEF CallbackReturns, PopOrReturn
  <1>6. CASE TestTime
    BY <1>6 DEF TestTime
  <1>7. CASE Woken
    BY <1>7 DEF Woken
  <1>8. CASE TimedOut
    BY <1>8 DEF TimedOut
  <1>9. CASE Park
    BY <1>9 DEF Park
  <1>10. CASE Unpark
    BY <1>10 DEF Unpark
  <1> QED
    BY <1>1, <1>2, <1>3, <1>4, <1>5, <1>6, <1>7, <1>8, <1>9, <1>10 DEF TimerStep

\* A step of SyncPause or Reset preserves it.
LEMMA PauseControl ==
    ASSUME PauseInv, (\E b \in BOOLEAN : SyncPause(b)) \/ Reset \/ ControlStep
    PROVE  PauseInv'
  <1> USE DEF PauseInv, Active, InSyncPause, flagVars, controlVars, timerVars
  <1>1. CASE \E b \in BOOLEAN : SyncPause(b)
    <2>1. PICK b \in BOOLEAN : SyncPause(b)
      BY <1>1
    <2>2. CASE b
      BY <2>1, <2>2 DEF SyncPause
    <2>3. CASE ~b
      BY <2>1, <2>3 DEF SyncPause
    <2> QED
      BY <2>2, <2>3
  <1>2. CASE Reset
    BY <1>2 DEF Reset
  <1>3. CASE SetPauseEvent
    BY <1>3 DEF SetPauseEvent
  <1>4. CASE SetTimerEvent
    BY <1>4 DEF SetTimerEvent
  <1>5. CASE Spin
    BY <1>5 DEF Spin
  <1>6. CASE ShutDown
    BY <1>6 DEF ShutDown
  <1>7. CASE ResetPauseEvent
    BY <1>7 DEF ResetPauseEvent
  <1>8. CASE ResetTimerEvent
    BY <1>8 DEF ResetTimerEvent
  <1>9. CASE Join
    BY <1>9 DEF Join
  <1> QED
    BY <1>1, <1>2, <1>3, <1>4, <1>5, <1>6, <1>7, <1>8, <1>9 DEF ControlStep

\* What the owners of events and the clock do leaves the handshake alone.
LEMMA PauseOthers ==
    ASSUME PauseInv,
           \/ \E e \in Events :
                  \/ Schedule(e) \/ SetEvent(e)
                  \/ (\E w \in BOOLEAN : Unschedule(e, w)) \/ UnscheduleWait(e)
           \/ Tick
           \/ UNCHANGED vars
    PROVE  PauseInv'
  <1>1. UNCHANGED <<paused, pausedSet, observed, cpc, tpc>>
    BY DEF Schedule, SetEvent, Unschedule, UnscheduleWait, Tick, vars, flagVars, timerVars,
           controlVars
  <1> QED
    BY <1>1 DEF PauseInv

\* Between SyncPause(true) (core_timing.cpp:93) and the next SyncPause(false) the timer
\* thread runs no callback, whatever is queued and whoever schedules meanwhile.
THEOREM PauseCorrect == Spec => []PausedIsStill
  <1>1. PauseInv /\ [Next]_vars => PauseInv'
    BY PauseTimer, PauseControl, PauseOthers DEF Next
  <1>2. PauseInv => PausedIsStill
    BY DEF PauseInv, PausedIsStill, Active
  <1> QED
    BY PauseInit, <1>1, <1>2, PTL DEF Spec


(***************************************************************************)
(* The queue.  Push and Without as what they do to the entries, and to     *)
(* the order of time that Advance relies on when it looks at the first     *)
(* entry only.                                                             *)
(***************************************************************************)

InQueue(q, e) == \E i \in DOMAIN q : q[i].event = e

Sorted(q) == \A i, j \in DOMAIN q : i <= j => q[i].time <= q[j].time

\* The ranks of the positions that are kept are 1, 2, ... in the same order.
LEMMA RankOrder ==
    ASSUME NEW n \in Nat, NEW keep \in SUBSET (1..n)
    PROVE  LET Rank(i) == Cardinality({j \in keep : j <= i})
           IN  /\ Cardinality(keep) \in Nat
               /\ \A i \in keep : Rank(i) \in 1..Cardinality(keep)
               /\ \A i, j \in keep : i < j => Rank(i) < Rank(j)
               /\ \A k \in 1..Cardinality(keep) : \E i \in keep : Rank(i) = k
<1> DEFINE Upto(i) == {j \in keep : j <= i}
           Rank(i) == Cardinality(Upto(i))
           m == Cardinality(keep)
<1>1. IsFiniteSet(1..n)
  BY FS_Interval
<1>2. IsFiniteSet(keep)
  BY <1>1, FS_Subset
<1>3. m \in Nat
  BY <1>2, FS_CardinalityType
<1>4. ASSUME NEW i
      PROVE  IsFiniteSet(Upto(i)) /\ Rank(i) \in Nat /\ Rank(i) <= m
  <2>1. Upto(i) \in SUBSET keep
    OBVIOUS
  <2> QED
    BY <2>1, <1>2, FS_Subset, FS_CardinalityType
<1>5. ASSUME NEW i \in keep
      PROVE  Rank(i) \in 1..m
  <2>1. i \in Upto(i)
    OBVIOUS
  <2>2. Rank(i) # 0
    BY <2>1, <1>4, FS_EmptySet
  <2>3. Rank(i) \in Nat /\ Rank(i) <= m
    BY <1>4
  <2> HIDE DEF Rank, m
  <2> QED
    BY <2>2, <2>3, <1>3
<1>6. ASSUME NEW i \in keep, NEW j \in keep, i < j
      PROVE  Rank(i) < Rank(j)
  <2>0. i \in Int /\ j \in Int /\ \A x \in keep : x \in Int
    OBVIOUS
  <2>1. Upto(i) \in SUBSET Upto(j) /\ j \in Upto(j) /\ j \notin Upto(i)
    <3>1. (\A x \in keep : x <= i => x <= j) /\ j <= j /\ ~(j <= i)
      BY <2>0, <1>6
    <3> QED
      BY <3>1, Zenon
  <2>2. Rank(i) <= Rank(j) /\ Rank(i) # Rank(j)
    BY <2>1, <1>4, FS_Subset
  <2>3. Rank(i) \in Nat /\ Rank(j) \in Nat
    BY <1>4
  <2> HIDE DEF Rank
  <2> QED
    BY <2>2, <2>3
<1>7. ASSUME NEW k \in 1..m
      PROVE  \E i \in keep : Rank(i) = k
  <2> DEFINE f == [i \in keep |-> Rank(i)]
  <2>1. f \in [keep -> 1..m]
    BY <1>5
  <2>2. ASSUME NEW a \in keep, NEW b \in keep, f[a] = f[b]
        PROVE  a = b
    <3>1. Rank(a) = Rank(b) /\ Rank(a) \in Nat
      BY <2>2, <1>4
    <3>2. ~(a < b) /\ ~(b < a)
      <4> HIDE DEF Rank
      <4> QED
        BY <3>1, <1>6
    <3> QED
      BY <3>2
  <2>3. f \in Injection(keep, 1..m)
    <3> HIDE DEF f
    <3> QED
      BY <2>1, <2>2 DEF Injection, IsInjective
  <2>4. IsFiniteSet(1..m) /\ Cardinality(1..m) = m
    BY <1>3, FS_Interval
  <2>5. f \in Surjection(keep, 1..m)
    <3> HIDE DEF f
    <3> QED
      BY <2>3, <2>4, FS_Injection
  <2>6. \E i \in keep : f[i] = k
    BY <2>5 DEF Surjection
  <2> QED
    BY <2>6
<1> QED
  BY <1>3, <1>5, <1>6, <1>7

\* Without keeps the other events, and their order.
LEMMA WithoutKeeps ==
    ASSUME NEW q \in Seq(EventEntries), NEW e
    PROVE  LET w == Without(q, e)
           IN  /\ w \in Seq(EventEntries)
               /\ \A k \in DOMAIN w : \E i \in DOMAIN q : w[k] = q[i] /\ q[i].event # e
               /\ \A i \in DOMAIN q : q[i].event # e => \E k \in DOMAIN w : w[k] = q[i]
               /\ Sorted(q) => Sorted(w)
<1> DEFINE keep == {i \in DOMAIN q : q[i].event # e}
           Rank(i) == Cardinality({j \in keep : j <= i})
           m == Cardinality(keep)
           At(k) == CHOOSE i \in keep : Rank(i) = k
           w == Without(q, e)
<1>1. Len(q) \in Nat /\ DOMAIN q = 1..Len(q) /\ keep \in SUBSET (1..Len(q))
  OBVIOUS
<1>2. /\ m \in Nat
      /\ \A i \in keep : Rank(i) \in 1..m
      /\ \A i, j \in keep : i < j => Rank(i) < Rank(j)
      /\ \A k \in 1..m : \E i \in keep : Rank(i) = k
  <2> HIDE DEF keep
  <2> QED
    BY <1>1, RankOrder
<1>3. w = [k \in 1..m |-> q[At(k)]]
  BY DEF Without
<1>4. ASSUME NEW k \in 1..m
      PROVE  At(k) \in keep /\ Rank(At(k)) = k
  BY <1>2
<1>5. ASSUME NEW i \in keep
      PROVE  At(Rank(i)) = i
  <2>1. Rank(i) \in 1..m
    BY <1>2
  <2>2. At(Rank(i)) \in keep /\ Rank(At(Rank(i))) = Rank(i)
    BY <2>1, <1>4
  <2>3. i \in Int /\ At(Rank(i)) \in Int
    BY <2>2, <1>1
  <2> HIDE DEF Rank, At, m
  <2> QED
    BY <2>1, <2>2, <2>3, <1>2
<1>6. \A i \in keep : i \in DOMAIN q /\ q[i] \in EventEntries /\ q[i].event # e
  OBVIOUS
<1> HIDE DEF At, Rank, m, w, keep
<1>7. DOMAIN w = 1..m /\ \A k \in 1..m : w[k] = q[At(k)] /\ w[k] \in EventEntries
  BY <1>3, <1>4, <1>6
<1>8. w \in Seq(EventEntries)
  BY <1>2, <1>3, <1>7
<1>9. \A k \in DOMAIN w : \E i \in DOMAIN q : w[k] = q[i] /\ q[i].event # e
  BY <1>4, <1>6, <1>7
<1>10. ASSUME NEW i \in DOMAIN q, q[i].event # e
       PROVE  \E k \in DOMAIN w : w[k] = q[i]
  <2>1. i \in keep
    BY <1>10 DEF keep
  <2> QED
    BY <2>1, <1>2, <1>5, <1>7
<1>11. ASSUME Sorted(q), NEW k \in DOMAIN w, NEW l \in DOMAIN w, k <= l
       PROVE  w[k].time <= w[l].time
  <2>1. /\ At(k) \in keep /\ At(l) \in keep /\ Rank(At(k)) = k /\ Rank(At(l)) = l
        /\ w[k] = q[At(k)] /\ w[l] = q[At(l)] /\ k \in Int /\ l \in Int
    BY <1>4, <1>7, <1>2
  <2>2. At(k) \in 1..Len(q) /\ At(l) \in 1..Len(q)
    BY <2>1, <1>1
  <2>3. ~(At(l) < At(k))
    BY <2>1, <1>2, <1>11
  <2>4. At(k) <= At(l)
    BY <2>2, <2>3, <1>1
  <2> QED
    BY <2>1, <2>2, <2>4, <1>1, <1>11 DEF Sorted
<1>12. Sorted(q) => Sorted(w)
  BY <1>11 DEF Sorted
<1> QED
  BY <1>8, <1>9, <1>10, <1>12 DEF w


\* Push adds one entry, before the first that is later.
LEMMA PushAdds ==
    ASSUME NEW q \in Seq(EventEntries), NEW e \in Events, NEW t \in Nat
    PROVE  /\ Push(q, e, t) \in Seq(EventEntries)
           /\ \A a : InQueue(Push(q, e, t), a) <=> a = e \/ InQueue(q, a)
           /\ Sorted(q) => Sorted(Push(q, e, t))
<1> DEFINE S == {i \in DOMAIN q : q[i].time <= t}
           n == Cardinality(S)
           l == Len(q)
           new == [event |-> e, time |-> t]
           p == Push(q, e, t)
<1>1. l \in Nat /\ DOMAIN q = 1..l /\ S \in SUBSET (1..l) /\ new \in EventEntries
  BY DEF EventEntries
<1>2. n \in Nat /\ n <= l /\ IsFiniteSet(S)
  <2> HIDE DEF l, S
  <2>1. IsFiniteSet(1..l) /\ Cardinality(1..l) = l
    BY <1>1, FS_Interval
  <2>2. S \in SUBSET (1..l)
    BY <1>1, Zenon
  <2>3. IsFiniteSet(S) /\ Cardinality(S) <= Cardinality(1..l)
    BY <2>1, <2>2, FS_Subset, Zenon
  <2> QED
    BY <2>1, <2>3, FS_CardinalityType, Zenon
<1>3. p = SubSeq(q, 1, n) \o <<new>> \o SubSeq(q, n + 1, l)
  BY DEF Push
<1> HIDE DEF n, new, S
<1>4. /\ p \in Seq(EventEntries) /\ Len(p) = l + 1 /\ DOMAIN p = 1..(l + 1)
      /\ \A k \in 1..n : p[k] = q[k]
      /\ p[n + 1] = new
      /\ \A k \in (n + 2)..(l + 1) : p[k] = q[k - 1]
  <2> DEFINE a == SubSeq(q, 1, n)
             b == SubSeq(q, n + 1, l)
  <2>1. a \in Seq(EventEntries) /\ Len(a) = n /\ \A k \in 1..n : a[k] = q[k]
    BY <1>1, <1>2
  <2>2. b \in Seq(EventEntries) /\ Len(b) = l - n /\ \A k \in 1..(l - n) : b[k] = q[n + k]
    <3> HIDE DEF l
    <3>1. n + 1 \in Int /\ l \in Int /\ \A k \in (n + 1)..l : q[k] \in EventEntries
      BY <1>1, <1>2
    <3>2. /\ b \in Seq(EventEntries) /\ Len(b) = (IF n + 1 <= l THEN l - (n + 1) + 1 ELSE 0)
          /\ \A k \in 1..(l - (n + 1) + 1) : b[k] = q[(n + 1) + k - 1]
      BY <3>1, SubSeqProperties
    <3>3. l - (n + 1) + 1 = l - n /\ (~(n + 1 <= l) => l - n = 0)
      BY <1>1, <1>2
    <3>4. \A k \in 1..(l - n) : (n + 1) + k - 1 = n + k
      BY <1>1, <1>2
    <3> HIDE DEF b
    <3> QED
      BY <3>2, <3>3, <3>4
  <2>3. p = a \o <<new>> \o b
    BY <1>3
  <2> HIDE DEF a, b, p
  <2>4. a \o <<new>> \in Seq(EventEntries) /\ Len(a \o <<new>>) = n + 1
    BY <2>1, <1>1, <1>2
  <2>5. (\A k \in 1..n : (a \o <<new>>)[k] = q[k]) /\ (a \o <<new>>)[n + 1] = new
    BY <2>1, <1>1, <1>2
  <2> DEFINE c == a \o <<new>>
  <2> HIDE DEF c
  <2>6. p = c \o b /\ c \in Seq(EventEntries) /\ Len(c) = n + 1
    BY <2>3, <2>4 DEF c
  <2>7. (\A k \in 1..n : c[k] = q[k]) /\ c[n + 1] = new
    BY <2>5 DEF c
  <2>8. p \in Seq(EventEntries) /\ Len(p) = l + 1 /\ DOMAIN p = 1..(l + 1)
    <3> HIDE DEF l
    <3>1. c \o b \in Seq(EventEntries) /\ Len(c \o b) = Len(c) + Len(b)
      BY <2>2, <2>6, ConcatProperties, Zenon
    <3>2. (n + 1) + (l - n) = l + 1
      BY <1>1, <1>2
    <3>3. p \in Seq(EventEntries) /\ Len(p) = l + 1
      BY <2>2, <2>6, <3>1, <3>2, Zenon
    <3> QED
      BY <3>3
  <2>9. \A k \in 1..(n + 1) : p[k] = c[k]
    BY <2>2, <2>6, <1>1, <1>2
  <2>10. \A k \in (n + 2)..(l + 1) : p[k] = b[k - (n + 1)]
    BY <2>2, <2>6, <1>1, <1>2
  <2>11. \A k \in (n + 2)..(l + 1) : k - (n + 1) \in 1..(l - n) /\ n + (k - (n + 1)) = k - 1
    BY <1>1, <1>2
  <2>12. \A k \in (n + 2)..(l + 1) : p[k] = q[k - 1]
    BY <2>2, <2>10, <2>11
  <2>13. (\A k \in 1..n : k \in 1..(n + 1)) /\ n + 1 \in 1..(n + 1)
    BY <1>2
  <2> QED
    BY <2>7, <2>8, <2>9, <2>12, <2>13
<1> HIDE DEF p, l
<1>5. \E k \in DOMAIN p : p[k] = new
  <2>1. n + 1 \in 1..(l + 1)
    BY <1>1, <1>2
  <2> QED
    BY <2>1, <1>4
<1>6. ASSUME NEW k \in DOMAIN p
      PROVE  p[k] = new \/ \E i \in DOMAIN q : p[k] = q[i]
  <2>1. k \in 1..n \/ k = n + 1 \/ (k \in (n + 2)..(l + 1) /\ k - 1 \in 1..l)
    BY <1>1, <1>2, <1>4
  <2>2. \A i \in 1..n : i \in 1..l
    BY <1>1, <1>2
  <2> QED
    BY <2>1, <2>2, <1>1, <1>4
<1>7. ASSUME NEW i \in DOMAIN q
      PROVE  \E k \in DOMAIN p : p[k] = q[i]
  <2>1. CASE i <= n
    <3>1. i \in 1..n /\ i \in 1..(l + 1)
      BY <2>1, <1>1, <1>2
    <3> QED
      BY <3>1, <1>4
  <2>2. CASE ~(i <= n)
    <3>1. i + 1 \in (n + 2)..(l + 1) /\ i + 1 \in 1..(l + 1) /\ (i + 1) - 1 = i
      BY <2>2, <1>1, <1>2
    <3> QED
      BY <3>1, <1>4
  <2> QED
    BY <2>1, <2>2
<1>8. ASSUME Sorted(q)
      PROVE  Sorted(p)
  <2>0. \A i \in 1..l : q[i].time \in Nat
    <3>1. \A i \in 1..l : q[i] \in EventEntries
      BY <1>1
    <3> QED
      BY <3>1 DEF EventEntries
  <2>1. ASSUME NEW i \in 1..l, q[i].time <= t
        PROVE  i <= n
    <3>1. 1..i \in SUBSET S
      <4>1. ASSUME NEW j \in 1..i
            PROVE  j \in S
        <5>1. j \in 1..l /\ j <= i
          BY <1>1
        <5>2. q[j].time <= q[i].time
          BY <5>1, <1>1, <1>8 DEF Sorted
        <5>3. q[j].time <= t
          BY <5>1, <5>2, <2>0, <2>1
        <5> QED
          BY <5>1, <5>3, <1>1 DEF S
      <4> QED
        BY <4>1
    <3>2. Cardinality(1..i) = i
      BY <1>1, FS_Interval
    <3> QED
      BY <3>1, <3>2, <1>2, FS_Subset DEF n
  <2>2. ASSUME NEW i \in 1..l, ~(q[i].time <= t)
        PROVE  n < i
    <3>1. S \in SUBSET (1..(i - 1))
      <4>1. ASSUME NEW j \in S
            PROVE  j \in 1..(i - 1)
        <5>1. j \in 1..l /\ q[j].time <= t
          BY <1>1 DEF S
        <5>2. ~(i <= j)
          <6>1. i <= j => q[i].time <= q[j].time
            BY <5>1, <1>1, <1>8 DEF Sorted
          <6> QED
            BY <6>1, <5>1, <2>0, <2>2
        <5> QED
          BY <5>1, <5>2, <1>1
      <4> QED
        BY <4>1
    <3>2. IsFiniteSet(1..(i - 1)) /\ Cardinality(1..(i - 1)) = i - 1
      BY <1>1, FS_Interval
    <3>3. n <= i - 1
      BY <3>1, <3>2, FS_Subset DEF n
    <3> QED
      BY <3>3, <1>1, <1>2
  <2>3. new.time = t
    BY DEF new
  <2>4. ASSUME NEW j \in 1..(l + 1), NEW k \in 1..(l + 1), j < k
        PROVE  p[j].time <= p[k].time
    <3>1. CASE k <= n
      <4>1. j \in 1..n /\ k \in 1..n /\ j \in 1..l /\ k \in 1..l /\ j <= k
        BY <3>1, <2>4, <1>1, <1>2
      <4> QED
        BY <4>1, <1>1, <1>4, <1>8 DEF Sorted
    <3>2. CASE k = n + 1
      <4>1. j \in 1..n /\ j \in 1..l
        BY <3>2, <2>4, <1>1, <1>2
      <4>2. q[j].time <= t
        BY <4>1, <2>2, <1>1, <1>2
      <4> QED
        BY <4>1, <4>2, <3>2, <2>3, <1>4
    <3>3. CASE j = n + 1
      <4>1. k \in (n + 2)..(l + 1) /\ k - 1 \in 1..l /\ ~(k - 1 <= n)
        BY <3>3, <2>4, <1>1, <1>2
      <4>2. ~(q[k - 1].time <= t)
        BY <4>1, <2>1
      <4>3. t <= q[k - 1].time
        BY <4>1, <4>2, <2>0
      <4> QED
        BY <4>1, <4>3, <3>3, <2>3, <1>4
    <3>4. CASE j <= n /\ n + 1 < k
      <4>1. /\ k \in (n + 2)..(l + 1) /\ k - 1 \in 1..l
            /\ j \in 1..n /\ j \in 1..l /\ j <= k - 1
        BY <3>4, <2>4, <1>1, <1>2
      <4> QED
        BY <4>1, <1>1, <1>4, <1>8 DEF Sorted
    <3>5. CASE n + 1 < j
      <4>1. /\ k \in (n + 2)..(l + 1) /\ k - 1 \in 1..l
            /\ j \in (n + 2)..(l + 1) /\ j - 1 \in 1..l /\ j - 1 <= k - 1
        BY <3>5, <2>4, <1>1, <1>2
      <4> QED
        BY <4>1, <1>1, <1>4, <1>8 DEF Sorted
    <3>6. k <= n \/ k = n + 1 \/ j = n + 1 \/ (j <= n /\ n + 1 < k) \/ n + 1 < j
      BY <2>4, <1>1, <1>2
    <3> QED
      BY <3>1, <3>2, <3>3, <3>4, <3>5, <3>6
  <2>5. \A k \in 1..(l + 1) : p[k].time \in Nat
    <3>1. \A k \in 1..(l + 1) : p[k] \in EventEntries
      BY <1>4
    <3> QED
      BY <3>1 DEF EventEntries
  <2>6. ASSUME NEW j \in 1..(l + 1), NEW k \in 1..(l + 1), j <= k
        PROVE  p[j].time <= p[k].time
    <3>1. j < k \/ j = k
      BY <2>6, <1>1
    <3> QED
      BY <3>1, <2>4, <2>5
  <2> QED
    BY <2>6, <1>4 DEF Sorted
<1>9. new.event = e
  BY DEF new
<1>10. \A a : InQueue(p, a) <=> a = e \/ InQueue(q, a)
  BY <1>5, <1>6, <1>7, <1>9 DEF InQueue
<1> QED
  BY <1>4, <1>8, <1>10 DEF p


(***************************************************************************)
(* The owners.                                                             *)
(***************************************************************************)

\* FollowsOwner, with the parts that make it inductive: only a callback that runs is
\* running, and an owner that waits for one has removed its event.
OwnerInv ==
    /\ queue \in Seq(EventEntries)
    /\ Sorted(queue)
    /\ now \in Nat /\ pauseEndTime \in Nat
    /\ opc \in [Events -> {"idle", "set", "wait"}]
    /\ gone \in [Events -> {"scheduled", "removed", "waited"}]
    /\ running \in EventEntries \cup {Idle}
    /\ tpc # "callback" => running = Idle
    /\ \A e \in Events : opc[e] = "wait" => gone[e] = "removed"
    /\ FollowsOwner

\* What PopOrReturn does, from a queue with the same events but for the one that ran.
LEMMA PopOrReturnFollows ==
    ASSUME OwnerInv, NEW q \in Seq(EventEntries), Sorted(q), PopOrReturn(q),
           UNCHANGED <<now, pauseEndTime, opc, gone>>,
           \A e \in OneShot : InQueue(q, e) => InQueue(queue, e),
           \A e \in Looping : InQueue(queue, e) \/ running.event = e => InQueue(q, e)
    PROVE  OwnerInv'
<1>1. /\ \A e \in OneShot : gone[e] # "scheduled" => ~InQueue(q, e)
      /\ \A e \in Looping : gone[e] = "scheduled" => InQueue(q, e)
  BY DEF OwnerInv, FollowsOwner, Queued, InQueue
<1>2. CASE q # <<>> /\ Head(q).time <= now
  <2>1. /\ queue' = Tail(q) /\ running' = Head(q) /\ tpc' = "callback"
    BY <1>2 DEF PopOrReturn
  <2>2. Head(q) = q[1] /\ q[1] \in EventEntries /\ 1 \in DOMAIN q
    BY <1>2
  <2>3. /\ Tail(q) \in Seq(EventEntries) /\ Len(Tail(q)) = Len(q) - 1
        /\ \A k \in DOMAIN Tail(q) : k + 1 \in DOMAIN q /\ Tail(q)[k] = q[k + 1]
    BY <1>2
  <2>4. \A i \in DOMAIN q : i = 1 \/ (i - 1 \in DOMAIN Tail(q) /\ Tail(q)[i - 1] = q[i])
    BY <1>2, <2>3
  <2>5. Sorted(Tail(q))
    <3>1. ASSUME NEW j \in DOMAIN Tail(q), NEW k \in DOMAIN Tail(q), j <= k
          PROVE  Tail(q)[j].time <= Tail(q)[k].time
      <4>1. j + 1 <= k + 1
        BY <3>1, <2>3
      <4> QED
        BY <4>1, <2>3 DEF Sorted
    <3> QED
      BY <3>1 DEF Sorted
  <2>6. \A e \in OneShot : gone[e] # "scheduled" => ~InQueue(Tail(q), e) /\ Head(q).event # e
    BY <1>1, <2>2, <2>3 DEF InQueue
  <2>7. \A e \in Looping : gone[e] = "scheduled" => InQueue(Tail(q), e) \/ Head(q).event = e
    <3> SUFFICES ASSUME NEW e \in Looping, gone[e] = "scheduled", Head(q).event # e
                 PROVE  InQueue(Tail(q), e)
      OBVIOUS
    <3>1. PICK i \in DOMAIN q : q[i].event = e
      BY <1>1, Zenon DEF InQueue
    <3>2. i # 1
      BY <3>1, <2>2, Zenon
    <3> QED
      BY <3>1, <3>2, <2>4, Zenon DEF InQueue
  <2>8. FollowsOwner'
    BY <2>1, <2>6, <2>7 DEF FollowsOwner, Queued, InQueue
  <2> QED
    BY <2>1, <2>2, <2>3, <2>5, <2>8 DEF OwnerInv
<1>3. CASE ~(q # <<>> /\ Head(q).time <= now)
  <2>1. queue' = q /\ running' = Idle /\ tpc' = "returned"
    BY <1>3 DEF PopOrReturn
  <2>2. \A e \in Events : Idle.event # e
    BY TimingAssumption DEF Idle
  <2>3. FollowsOwner'
    BY <2>1, <2>2, <1>1 DEF FollowsOwner, Queued, InQueue, Events
  <2> QED
    BY <2>1, <2>3 DEF OwnerInv
<1> QED
  BY <1>2, <1>3

LEMMA OwnerInit == Init => OwnerInv
<1> SUFFICES ASSUME Init PROVE OwnerInv
  OBVIOUS
<1>1. queue \in Seq(EventEntries) /\ DOMAIN queue = {}
  BY DEF Init
<1>2. \A e \in Events : Idle.event # e
  BY TimingAssumption DEF Idle
<1>3. FollowsOwner
  BY <1>1, <1>2 DEF Init, FollowsOwner, Queued, Events
<1> QED
  BY <1>1, <1>3 DEF Init, OwnerInv, Sorted

\* A step of an owner.
LEMMA OwnerSteps ==
    ASSUME OwnerInv, NEW e \in Events,
           \/ Schedule(e) \/ SetEvent(e)
           \/ (\E w \in BOOLEAN : Unschedule(e, w)) \/ UnscheduleWait(e)
    PROVE  OwnerInv'
<1>i. /\ queue \in Seq(EventEntries) /\ Sorted(queue) /\ now \in Nat
      /\ opc \in [Events -> {"idle", "set", "wait"}]
      /\ gone \in [Events -> {"scheduled", "removed", "waited"}]
      /\ OneShot \cap Looping = {} /\ Events = OneShot \cup Looping
      /\ \A a \in Events : Idle.event # a
  BY TimingAssumption DEF OwnerInv, Events, Idle
<1>1. CASE Schedule(e)
  <2>1. PICK d \in Delays : queue' = Push(queue, e, now + d)
    BY <1>1 DEF Schedule
  <2>2. now + d \in Nat
    BY <1>i, TimingAssumption
  <2>3. /\ queue' \in Seq(EventEntries) /\ Sorted(queue')
        /\ InQueue(queue', e)
        /\ \A a \in Events \ {e} : InQueue(queue', a) <=> InQueue(queue, a)
    BY <2>1, <2>2, <1>i, PushAdds
  <2>4. /\ opc' = [opc EXCEPT ![e] = "set"] /\ gone' = [gone EXCEPT ![e] = "scheduled"]
        /\ UNCHANGED <<now, pauseEndTime, running, tpc>>
    BY <1>1 DEF Schedule, timerVars
  <2>5. FollowsOwner'
    BY <2>3, <2>4, <1>i DEF FollowsOwner, Queued, InQueue, OwnerInv
  <2>6. \A a \in Events : opc'[a] = "wait" => gone'[a] = "removed"
    BY <2>4, <1>i DEF OwnerInv
  <2> QED
    BY <2>3, <2>4, <2>5, <2>6, <1>i DEF OwnerInv
<1>2. CASE SetEvent(e)
  <2>1. /\ opc[e] = "set" /\ opc' = [opc EXCEPT ![e] = "idle"]
        /\ UNCHANGED <<queue, now, pauseEndTime, running, tpc, gone>>
    BY <1>2 DEF SetEvent, queueVars, timerVars
  <2>2. \A a \in Events : opc'[a] = "wait" => gone'[a] = "removed"
    BY <2>1, <1>i DEF OwnerInv
  <2> QED
    BY <2>1, <2>2, <1>i DEF OwnerInv, FollowsOwner, Queued
<1>3. ASSUME NEW w \in BOOLEAN, Unschedule(e, w)
      PROVE  OwnerInv'
  <2>1. /\ queue' = Without(queue, e)
        /\ opc' = [opc EXCEPT ![e] = IF w THEN "wait" ELSE "idle"]
        /\ gone' = [gone EXCEPT ![e] = "removed"]
        /\ UNCHANGED <<now, pauseEndTime, running, tpc>>
    BY <1>3 DEF Unschedule, timerVars
  <2>2. /\ queue' \in Seq(EventEntries) /\ Sorted(queue')
        /\ ~InQueue(queue', e)
        /\ \A a \in Events \ {e} : InQueue(queue', a) <=> InQueue(queue, a)
    BY <2>1, <1>i, WithoutKeeps DEF InQueue
  <2>3. FollowsOwner'
    BY <2>1, <2>2, <1>i DEF FollowsOwner, Queued, InQueue, OwnerInv
  <2>4. \A a \in Events : opc'[a] = "wait" => gone'[a] = "removed"
    BY <2>1, <1>i DEF OwnerInv
  <2>5. opc' \in [Events -> {"idle", "set", "wait"}]
    BY <2>1, <1>i
  <2> QED
    BY <2>1, <2>2, <2>3, <2>4, <2>5, <1>i DEF OwnerInv
<1>4. CASE UnscheduleWait(e)
  <2>1. /\ opc[e] = "wait" /\ tpc # "callback"
        /\ opc' = [opc EXCEPT ![e] = "idle"] /\ gone' = [gone EXCEPT ![e] = "waited"]
        /\ UNCHANGED <<queue, now, pauseEndTime, running, tpc>>
    BY <1>4 DEF UnscheduleWait, queueVars, timerVars
  <2>2. running = Idle /\ gone[e] = "removed"
    BY <2>1 DEF OwnerInv
  <2>3. FollowsOwner'
    BY <2>1, <2>2, <1>i DEF FollowsOwner, Queued, OwnerInv
  <2>4. \A a \in Events : opc'[a] = "wait" => gone'[a] = "removed"
    BY <2>1, <1>i DEF OwnerInv
  <2> QED
    BY <2>1, <2>3, <2>4, <1>i DEF OwnerInv
<1> QED
  BY <1>1, <1>2, <1>3, <1>4


\* A step of the timer thread.
LEMMA OwnerTimer ==
    ASSUME OwnerInv, TimerStep
    PROVE  OwnerInv'
<1>i. /\ queue \in Seq(EventEntries) /\ Sorted(queue) /\ now \in Nat /\ pauseEndTime \in Nat
      /\ running \in EventEntries \cup {Idle}
      /\ OneShot \cap Looping = {} /\ Events = OneShot \cup Looping
      /\ \A a \in Events : Idle.event # a
  BY TimingAssumption DEF OwnerInv, Events, Idle
<1>1. CASE Advance
  <2>1. PopOrReturn(queue) /\ tpc = "advance" /\ UNCHANGED <<now, pauseEndTime, opc, gone>>
    BY <1>1 DEF Advance, ownerVars
  <2>2. running = Idle
    BY <2>1 DEF OwnerInv
  <2> QED
    BY <2>1, <2>2, <1>i, PopOrReturnFollows
<1>2. CASE CallbackReturns
  <2>1. UNCHANGED <<now, pauseEndTime, opc, gone>>
    BY <1>2 DEF CallbackReturns, ownerVars
  <2>2. CASE running.event \in OneShot /\ PopOrReturn(queue)
    <3>1. \A a \in Looping : running.event # a
      BY <2>2, <1>i
    <3> QED
      BY <2>1, <2>2, <3>1, <1>i, PopOrReturnFollows
  <2>3. ASSUME NEW b \in {pauseEndTime, running.time}, NEW p \in Periods, running.event \in Looping,
               PopOrReturn(Push(queue, running.event, b + p))
        PROVE  OwnerInv'
    <3>1. running \in EventEntries /\ running.event \in Events
      BY <2>3, <1>i
    <3>2. running.time \in Nat
      BY <3>1 DEF EventEntries
    <3>3. b + p \in Nat
      BY <3>2, <2>3, <1>i, TimingAssumption
    <3> DEFINE q == Push(queue, running.event, b + p)
    <3>4. q \in Seq(EventEntries) /\ Sorted(q) /\ \A a : InQueue(q, a) <=> a = running.event \/ InQueue(queue, a)
      BY <3>1, <3>3, <1>i, PushAdds
    <3>5. PopOrReturn(q)
      BY <2>3
    <3> HIDE DEF q
    <3>6. /\ \A a \in OneShot : InQueue(q, a) => InQueue(queue, a)
          /\ \A a \in Looping : InQueue(queue, a) \/ running.event = a => InQueue(q, a)
      BY <3>4, <2>3, <1>i
    <3> QED
      BY <2>1, <3>4, <3>5, <3>6, PopOrReturnFollows
  <2> QED
    BY <1>2, <2>2, <2>3 DEF CallbackReturns
<1>3. CASE Outer \/ Inner \/ UnsetPaused \/ TestTime \/ Woken \/ TimedOut \/ Park \/ Unpark
  <2>1. UNCHANGED <<queue, now, pauseEndTime, running, opc, gone>>
    BY <1>3 DEF Outer, Inner, UnsetPaused, TestTime, Woken, TimedOut, Park, Unpark, queueVars, ownerVars
  <2>2. tpc # "callback" /\ tpc' # "callback"
    BY <1>3 DEF Outer, Inner, UnsetPaused, TestTime, Woken, TimedOut, Park, Unpark
  <2> QED
    BY <2>1, <2>2 DEF OwnerInv, FollowsOwner, Queued
<1> QED
  BY <1>1, <1>2, <1>3 DEF TimerStep

LEMMA OwnerNext == OwnerInv /\ [Next]_vars => OwnerInv'
<1> SUFFICES ASSUME OwnerInv, [Next]_vars PROVE OwnerInv'
  OBVIOUS
<1>1. CASE (\E b \in BOOLEAN : SyncPause(b)) \/ Reset \/ ControlStep \/ Tick \/ UNCHANGED vars
  <2>1. UNCHANGED <<queue, running, tpc, opc, gone>>
    BY <1>1 DEF SyncPause, Reset, ControlStep, SetPauseEvent, SetTimerEvent, Spin, ShutDown,
                ResetPauseEvent, ResetTimerEvent, Join, Tick, vars, queueVars, timerVars, ownerVars
  <2>2. now' \in {now, now + 1} /\ pauseEndTime' \in {pauseEndTime, now}
    BY <1>1 DEF SyncPause, Reset, ControlStep, SetPauseEvent, SetTimerEvent, Spin, ShutDown,
                ResetPauseEvent, ResetTimerEvent, Join, Tick, vars, queueVars
  <2>3. now' \in Nat /\ pauseEndTime' \in Nat
    BY <2>2 DEF OwnerInv
  <2> QED
    BY <2>1, <2>3 DEF OwnerInv, FollowsOwner, Queued
<1> QED
  BY <1>1, OwnerSteps, OwnerTimer DEF Next

\* UnscheduleEvent and the schedules (core_timing.cpp:153) keep their promise to the
\* owner for any number of events, times and pauses: the timer thread neither runs what
\* was unscheduled and waited for, nor loses a looping event.
THEOREM FollowsOwnerAlways == Spec => []FollowsOwner
<1>1. OwnerInv => FollowsOwner
  BY DEF OwnerInv
<1> QED
  BY <1>1, OwnerInit, OwnerNext, PTL DEF Spec

(***************************************************************************)
(* The sleep of the timer thread.                                          *)
(***************************************************************************)

\* From where Advance has returned until the timer thread wakes up, no event is queued for
\* a time before the one it sleeps until, unless something is on its way to wake it: its
\* event is set, or an owner that has queued an event has yet to set it.
SleepsNoLonger ==
    (tpc \in {"returned", "wait"} /\ ~eventSet /\ \A e \in Events : opc[e] # "set") =>
        \A i \in DOMAIN queue : \E t \in nextTime : t <= queue[i].time

\* What Advance returns is the earliest time of the queue it leaves.
LEMMA PopOrReturnEarliest ==
    ASSUME NEW q \in Seq(EventEntries), Sorted(q), PopOrReturn(q)
    PROVE  SleepsNoLonger'
<1>1. CASE q # <<>> /\ Head(q).time <= now
  BY <1>1 DEF PopOrReturn, SleepsNoLonger
<1>2. CASE ~(q # <<>> /\ Head(q).time <= now)
  <2>1. queue' = q /\ nextTime' = IF q = <<>> THEN {} ELSE {Head(q).time}
    BY <1>2 DEF PopOrReturn
  <2>2. ASSUME NEW i \in DOMAIN q PROVE \E t \in nextTime' : t <= q[i].time
    <3>1. q # <<>> /\ Head(q) = q[1] /\ 1 \in DOMAIN q /\ 1 <= i
      OBVIOUS
    <3>2. q[1].time <= q[i].time
      BY <3>1 DEF Sorted
    <3> QED
      BY <2>1, <3>1, <3>2
  <2> QED
    BY <2>1, <2>2 DEF SleepsNoLonger
<1> QED
  BY <1>1, <1>2

LEMMA SleepsNext == OwnerInv /\ SleepsNoLonger /\ [Next]_vars => SleepsNoLonger'
<1> SUFFICES ASSUME OwnerInv, SleepsNoLonger, [Next]_vars PROVE SleepsNoLonger'
  OBVIOUS
<1>i. /\ queue \in Seq(EventEntries) /\ Sorted(queue) /\ now \in Nat /\ pauseEndTime \in Nat
      /\ opc \in [Events -> {"idle", "set", "wait"}]
      /\ running \in EventEntries \cup {Idle}
      /\ Looping \subseteq Events /\ \A a \in Events : Idle.event # a
  BY TimingAssumption DEF OwnerInv, Events, Idle
<1>1. ASSUME NEW e \in Events, Schedule(e) \/ SetEvent(e) PROVE SleepsNoLonger'
  <2>1. opc'[e] = "set" \/ eventSet'
    BY <1>1, <1>i DEF Schedule, SetEvent
  <2> QED
    BY <2>1, <1>1 DEF SleepsNoLonger
<1>2. ASSUME NEW e \in Events, NEW w \in BOOLEAN, Unschedule(e, w) PROVE SleepsNoLonger'
  <2>1. /\ queue' = Without(queue, e) /\ UNCHANGED <<tpc, nextTime, eventSet>>
        /\ \A a \in Events : opc'[a] # "set" => opc[a] # "set"
    BY <1>2, <1>i DEF Unschedule, timerVars, flagVars
  <2>2. \A k \in DOMAIN queue' : \E i \in DOMAIN queue : queue'[k] = queue[i]
    BY <2>1, <1>i, WithoutKeeps
  <2> QED
    BY <2>1, <2>2 DEF SleepsNoLonger
<1>3. ASSUME NEW e \in Events, UnscheduleWait(e) PROVE SleepsNoLonger'
  <2>1. /\ UNCHANGED <<queue, tpc, nextTime, eventSet>>
        /\ \A a \in Events : opc'[a] # "set" => opc[a] # "set"
    BY <1>3, <1>i DEF UnscheduleWait, queueVars, timerVars, flagVars
  <2> QED
    BY <2>1 DEF SleepsNoLonger
<1>4. CASE Advance
  BY <1>4, <1>i, PopOrReturnEarliest DEF Advance
<1>5. CASE CallbackReturns
  <2>1. ASSUME NEW b \in {pauseEndTime, running.time}, NEW p \in Periods, running.event \in Looping,
               PopOrReturn(Push(queue, running.event, b + p))
        PROVE  SleepsNoLonger'
    <3>1. running \in EventEntries /\ running.event \in Events
      BY <2>1, <1>i
    <3>2. running.time \in Nat
      BY <3>1 DEF EventEntries
    <3>3. b + p \in Nat
      BY <3>2, <2>1, <1>i, TimingAssumption
    <3> DEFINE q == Push(queue, running.event, b + p)
    <3>4. q \in Seq(EventEntries) /\ Sorted(q)
      BY <3>1, <3>3, <1>i, PushAdds
    <3>5. PopOrReturn(q)
      BY <2>1
    <3> HIDE DEF q
    <3> QED
      BY <3>4, <3>5, PopOrReturnEarliest
  <2>2. CASE PopOrReturn(queue)
    BY <2>2, <1>i, PopOrReturnEarliest
  <2> QED
    BY <1>5, <2>1, <2>2 DEF CallbackReturns
<1>6. CASE Outer \/ Inner \/ UnsetPaused \/ Woken \/ TimedOut \/ Park \/ Unpark
  <2>1. tpc' \notin {"returned", "wait"}
    BY <1>6 DEF Outer, Inner, UnsetPaused, Woken, TimedOut, Park, Unpark
  <2> QED
    BY <2>1 DEF SleepsNoLonger
<1>7. CASE TestTime
  <2>1. /\ tpc = "returned" /\ (tpc' = "inner" \/ UNCHANGED nextTime)
        /\ UNCHANGED <<queue, eventSet, opc>>
    BY <1>7 DEF TestTime, queueVars, flagVars, ownerVars
  <2> QED
    BY <2>1 DEF SleepsNoLonger
<1>8. CASE (\E b \in BOOLEAN : SyncPause(b)) \/ Reset \/ ControlStep \/ Tick \/ UNCHANGED vars
  <2>1. UNCHANGED <<queue, tpc, nextTime, opc>>
    BY <1>8 DEF SyncPause, Reset, ControlStep, SetPauseEvent, SetTimerEvent, Spin, ShutDown,
                ResetPauseEvent, ResetTimerEvent, Join, Tick, vars, queueVars, timerVars, ownerVars
  <2>2. eventSet' \/ UNCHANGED eventSet
    BY <1>8 DEF SyncPause, Reset, ControlStep, SetPauseEvent, SetTimerEvent, Spin, ShutDown,
                ResetPauseEvent, ResetTimerEvent, Join, Tick, vars, flagVars
  <2> QED
    BY <2>1, <2>2 DEF SleepsNoLonger
<1> QED
  BY <1>1, <1>2, <1>3, <1>4, <1>5, <1>6, <1>7, <1>8 DEF Next, TimerStep

\* No wake-up of the timer thread is lost (core_timing.cpp:120, 212, 259), for any number of
\* events, delays, periods and pauses: however the owners schedule and unschedule between
\* the moment Advance reads the queue and the moment the thread sleeps, it sleeps no longer
\* than to the earliest event or is about to be woken.
THEOREM SleepsNoLongerAlways == Spec => []SleepsNoLonger
<1>1. Init => SleepsNoLonger
  BY DEF Init, SleepsNoLonger
<1> QED
  BY <1>1, OwnerInit, OwnerNext, SleepsNext, PTL DEF Spec

=============================================================================
