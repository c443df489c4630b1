------------------------ MODULE KSynchronizationProofs ------------------------
(***************************************************************************)
(* The safety invariants of KSynchronization hold for every set of threads *)
(* and events and every bound on the number of objects of a wait.          *)
(***************************************************************************)
EXTENDS KSynchronization, WellFoundedInduction, TLAPS

\* A waiting thread is inside one of the two blocking calls.
BlockedInCall == \A t \in Threads : state[t] = "Waiting" => pc[t] # "user"

\* A blocked Wait has not been given an index.
NoIndexYet == \A t \in Threads : InSyncWait(t) => syncedIndex[t] = NoIndex

\* The inductive invariant: the properties below support one another.
IInv ==
    /\ TypeOK
    /\ BlockedInCall
    /\ NoIndexYet
    /\ NodesMatchWaits
    /\ NoMissedSignal
    /\ TimerTaskMatchesWait
    /\ NoPendingRequestWhileBlocked

\* What a node has to satisfy to be linked.
Belongs(n) ==
    /\ InSyncWait(n.thread)
    /\ n.index \in DOMAIN waitObjects[n.thread]
    /\ waitObjects[n.thread][n.index] = n.object

\* NodesMatchWaits, node by node.
LEMMA NodesPointwise ==
    NodesMatchWaits <=> (links \subseteq Nodes /\ \A n \in Nodes : n \in links <=> Belongs(n))
BY DEF NodesMatchWaits, Belongs

\* The empty list of objects.
LEMMA EmptyList == << >> \in ObjectLists
BY ObjectsAssumption DEF ObjectLists

\* The initial states satisfy the inductive invariant.
LEMMA InitIInv == Init => IInv
<1> SUFFICES ASSUME Init PROVE IInv
  OBVIOUS
<1>1. TypeOK
  <2> QED BY EmptyList DEF Init, TypeOK, ThreadState, Results, Nodes, NoIndex
<1>2. \A t \in Threads : state[t] # "Waiting"
  BY DEF Init
<1>3. NodesMatchWaits
  BY <1>2 DEF Init, NodesMatchWaits, Nodes, InSyncWait
<1> QED
  BY <1>1, <1>2, <1>3 DEF Init, IInv, BlockedInCall, NoIndexYet, NoMissedSignal, InSyncWait,
              TimerTaskMatchesWait, NoPendingRequestWhileBlocked

\* An object list is a function from a prefix of Indices to Objects.
LEMMA ObjectListsType ==
    ASSUME NEW objs \in ObjectLists
    PROVE  /\ DOMAIN objs \subseteq Indices
           /\ \A i \in DOMAIN objs : objs[i] \in Objects
<1>1. PICK n \in 0..MaxObjects : objs \in [1..n -> Objects]
  BY DEF ObjectLists
<1> QED BY <1>1, ObjectsAssumption DEF Indices

\* A thread that blocks in Wait.
LEMMA WaitIInv ==
    ASSUME IInv, NEW t \in Threads, NEW objs \in ObjectLists,
           NEW timeout \in {"zero", "finite", "infinite"}, Wait(t, objs, timeout)
    PROVE  IInv'
<1> USE DEF IInv, InSyncWait
<1>0. /\ DOMAIN objs \subseteq Indices
      /\ \A i \in DOMAIN objs : objs[i] \in Objects
  BY ObjectListsType
<1>1. CASE waitCancelled[t]
  <2>1. /\ waitCancelled' = [waitCancelled EXCEPT ![t] = FALSE]
        /\ UNCHANGED <<state, pc, waitObjects, links, hasTimer, timerTasks, cancellable,
                       terminationRequested, syncedIndex, waitResult, signaled>>
    BY <1>1 DEF Wait, WaitBlocks
  <2> QED BY <2>1 DEF TypeOK, BlockedInCall, NoIndexYet, NodesMatchWaits, NoMissedSignal,
                      TimerTaskMatchesWait, NoPendingRequestWhileBlocked
<1>2. CASE ~waitCancelled[t]
  <2>1. WaitBlocks(t, objs, timeout) /\ state[t] = "Runnable" /\ pc[t] = "user"
        /\ ~terminationRequested[t] /\ \A i \in DOMAIN objs : ~signaled[objs[i]]
    BY <1>2 DEF Wait, Running, IsTerminationRequested
  <2>2. TypeOK'
    <3>1. links' \subseteq Nodes
      BY <2>1, <1>0 DEF WaitBlocks, TypeOK, Nodes
    <3> QED BY <2>1, <3>1 DEF WaitBlocks, TypeOK, ThreadState, NoIndex
  <2>3. BlockedInCall' /\ NoIndexYet'
    BY <2>1 DEF WaitBlocks, TypeOK, BlockedInCall, NoIndexYet
  <2>4. NodesMatchWaits'
    <3>1. \A n \in Nodes : n \in links <=> Belongs(n)
      BY NodesPointwise
    <3>2. links' \subseteq Nodes
      BY <2>2 DEF TypeOK
    <3>3. ASSUME NEW n \in Nodes PROVE n \in links' <=> Belongs(n)'
      <4>1. n \in links' <=> \/ n \in links
                             \/ n.thread = t /\ n.index \in DOMAIN objs /\ n.object = objs[n.index]
        BY <2>1 DEF WaitBlocks, Nodes
      <4>2. CASE n.thread = t
        BY <4>1, <4>2, <3>1, <2>1 DEF Belongs, WaitBlocks, TypeOK
      <4>3. CASE n.thread # t
        <5>1. n.thread \in Threads
          BY DEF Nodes
        <5> QED BY <4>1, <4>3, <5>1, <3>1, <2>1 DEF Belongs, WaitBlocks, TypeOK
      <4> QED BY <4>2, <4>3
    <3> QED BY <3>2, <3>3 DEF NodesMatchWaits, Belongs
  <2>5. NoMissedSignal'
    BY <2>1 DEF WaitBlocks, TypeOK, NoMissedSignal
  <2>6. TimerTaskMatchesWait'
    BY <2>1 DEF WaitBlocks, TypeOK, TimerTaskMatchesWait
  <2>7. NoPendingRequestWhileBlocked'
    BY <2>1, <1>2 DEF WaitBlocks, TypeOK, NoPendingRequestWhileBlocked
  <2> QED BY <2>2, <2>3, <2>4, <2>5, <2>6, <2>7
<1> QED BY <1>1, <1>2

\* Ending the waits of the threads in S, by whatever cause, while the other
\* threads keep waiting or keep not waiting, unlinks the right nodes.
LEMMA ReleaseNodes ==
    ASSUME IInv, NEW S \in SUBSET Threads,
           \A t \in S : state'[t] # "Waiting",
           \A t \in Threads \ S : state'[t] = "Waiting" <=> state[t] = "Waiting",
           links' = Unlink(S), pc' = pc, waitObjects' = waitObjects
    PROVE  /\ BlockedInCall'
           /\ links' \subseteq Nodes
           /\ NodesMatchWaits'
<1>1. BlockedInCall'
  BY DEF IInv, BlockedInCall
<1>2. links' \subseteq Nodes
  BY DEF IInv, TypeOK, Unlink
<1>3. \A n \in Nodes : n \in links <=> Belongs(n)
  BY NodesPointwise DEF IInv
<1>4. ASSUME NEW n \in Nodes PROVE n \in links' <=> Belongs(n)'
  <2>1. n.thread \in Threads
    BY DEF Nodes
  <2>2. CASE n.thread \in S
    BY <2>2 DEF Unlink, Belongs, InSyncWait
  <2>3. CASE n.thread \notin S
    BY <2>1, <2>3, <1>3 DEF Unlink, Belongs, InSyncWait
  <2> QED BY <2>2, <2>3
<1>5. NodesMatchWaits'
  BY <1>2, <1>4 DEF NodesMatchWaits, Belongs
<1> QED BY <1>1, <1>2, <1>5

\* Cancelling the waits of the waiting threads in S.
LEMMA CancelWaitIInv ==
    ASSUME IInv, NEW S \in SUBSET Threads, \A t \in S : state[t] = "Waiting",
           NEW result \in Results, NEW tasks \in SUBSET Threads,
           CancelWait(S, result, tasks),
           tasks = {t \in timerTasks : t \notin S},
           UNCHANGED <<pc, waitObjects, hasTimer, syncedIndex, signaled>>,
           waitCancelled' \in [Threads -> BOOLEAN],
           terminationRequested' \in [Threads -> BOOLEAN],
           \A t \in Threads \ S : state[t] = "Waiting" =>
               /\ waitCancelled[t] = waitCancelled'[t]
               /\ terminationRequested'[t] = terminationRequested[t]
    PROVE  IInv'
<1>1. /\ state' \in [Threads -> ThreadState]
      /\ \A t \in S : state'[t] = "Runnable"
      /\ \A t \in Threads \ S : state'[t] = state[t]
  BY DEF CancelWait, Assign, IInv, TypeOK, ThreadState
<1>2. /\ cancellable' \in [Threads -> BOOLEAN]
      /\ \A t \in S : cancellable'[t] = FALSE
      /\ \A t \in Threads \ S : cancellable'[t] = cancellable[t]
  BY DEF CancelWait, Assign, IInv, TypeOK
<1>3. links' = Unlink(S)
  BY DEF CancelWait
<1>4. BlockedInCall' /\ links' \subseteq Nodes /\ NodesMatchWaits'
  BY <1>1, <1>3, ReleaseNodes
<1>5. TypeOK'
  <2>1. waitResult' \in [Threads -> Results]
    BY DEF CancelWait, Assign, IInv, TypeOK
  <2>2. timerTasks' \in SUBSET Threads
    BY DEF CancelWait
  <2> QED BY <1>1, <1>2, <1>4, <2>1, <2>2 DEF IInv, TypeOK
<1>6. NoMissedSignal'
  BY <1>1 DEF IInv, NoMissedSignal, InSyncWait
<1>7. TimerTaskMatchesWait'
  BY <1>1 DEF IInv, TimerTaskMatchesWait, CancelWait
<1>8. NoPendingRequestWhileBlocked'
  BY <1>1, <1>2 DEF IInv, NoPendingRequestWhileBlocked, InSyncWait, TypeOK
<1>9. NoIndexYet'
  BY <1>1 DEF IInv, NoIndexYet, InSyncWait
<1> QED BY <1>4, <1>5, <1>6, <1>7, <1>8, <1>9 DEF IInv

\* CancelTask leaves the tasks of the other waiting threads.
LEMMA CancelTaskTasks ==
    ASSUME IInv, NEW S \in SUBSET Threads, \A t \in S : state[t] = "Waiting"
    PROVE  CancelTask(timerTasks, S) = {t \in timerTasks : t \notin S}
BY DEF IInv, TimerTaskMatchesWait, CancelTask

\* The timer.
LEMMA DoTaskIInv ==
    ASSUME IInv, NEW due \in SUBSET Threads, DoTask(due)
    PROVE  IInv'
<1> DEFINE S == {t \in due : state[t] = "Waiting"}
<1>1. timerTasks \ due = {t \in timerTasks : t \notin S}
  BY DEF DoTask, IInv, TimerTaskMatchesWait
<1>2. CancelWait(S, "TimedOut", timerTasks \ due)
  BY DEF DoTask
<1>3. timerTasks \ due \in SUBSET Threads /\ "TimedOut" \in Results
  BY DEF IInv, TypeOK, Results
<1>4. /\ UNCHANGED <<pc, waitObjects, hasTimer, syncedIndex, signaled>>
      /\ UNCHANGED <<waitCancelled, terminationRequested>>
  BY DEF DoTask
<1>5. waitCancelled' \in [Threads -> BOOLEAN] /\ terminationRequested' \in [Threads -> BOOLEAN]
  BY <1>4 DEF IInv, TypeOK
<1> HIDE DEF S
<1>6. S \in SUBSET Threads /\ \A t \in S : state[t] = "Waiting"
  BY DEF S
<1> QED BY <1>1, <1>2, <1>3, <1>4, <1>5, <1>6, CancelWaitIInv

\* CancelSynchronization.
LEMMA WaitCancelIInv ==
    ASSUME IInv, NEW t \in Threads, WaitCancel(t)
    PROVE  IInv'
<1>0. waitCancelled' \in [Threads -> BOOLEAN] /\ terminationRequested' \in [Threads -> BOOLEAN]
  BY DEF WaitCancel, IInv, TypeOK
<1>1. CASE state[t] = "Waiting" /\ cancellable[t]
  <2>1. /\ CancelWait({t}, "Cancelled", CancelTask(timerTasks, {t}))
        /\ waitCancelled' = [waitCancelled EXCEPT ![t] = FALSE]
        /\ UNCHANGED <<pc, waitObjects, hasTimer, syncedIndex, signaled>>
        /\ UNCHANGED terminationRequested
    BY <1>1 DEF WaitCancel
  <2>2. CancelTask(timerTasks, {t}) = {u \in timerTasks : u \notin {t}}
    BY <1>1, CancelTaskTasks
  <2>3. CancelTask(timerTasks, {t}) \in SUBSET Threads /\ "Cancelled" \in Results
    BY <2>2 DEF IInv, TypeOK, Results
  <2>4. \A u \in Threads \ {t} : /\ waitCancelled[u] = waitCancelled'[u]
                                 /\ terminationRequested'[u] = terminationRequested[u]
    BY <2>1 DEF IInv, TypeOK
  <2>5. {t} \in SUBSET Threads /\ \A u \in {t} : state[u] = "Waiting"
    BY <1>1
  <2>6. \A u \in Threads \ {t} : state[u] = "Waiting" =>
               /\ waitCancelled[u] = waitCancelled'[u]
               /\ terminationRequested'[u] = terminationRequested[u]
    BY <2>4
  <2> QED BY <1>0, <2>1, <2>2, <2>3, <2>5, <2>6, CancelWaitIInv
<1>2. CASE ~(state[t] = "Waiting" /\ cancellable[t])
  <2>1. /\ waitCancelled' = [waitCancelled EXCEPT ![t] = TRUE]
        /\ UNCHANGED <<state, links, cancellable, waitResult, timerTasks, pc, waitObjects,
                       hasTimer, terminationRequested, syncedIndex, signaled>>
    BY <1>2 DEF WaitCancel
  <2>2. ~InSyncWait(t)
    BY <1>2 DEF IInv, NoPendingRequestWhileBlocked, InSyncWait
  <2> QED BY <1>0, <2>1, <2>2 DEF IInv, TypeOK, BlockedInCall, NoIndexYet, NodesMatchWaits,
                 NoMissedSignal, InSyncWait, TimerTaskMatchesWait, NoPendingRequestWhileBlocked
<1> QED BY <1>1, <1>2

\* A termination request.
LEMMA RequestTerminateIInv ==
    ASSUME IInv, NEW t \in Threads, RequestTerminate(t)
    PROVE  IInv'
<1>0. waitCancelled' \in [Threads -> BOOLEAN] /\ terminationRequested' \in [Threads -> BOOLEAN]
  BY DEF RequestTerminate, IInv, TypeOK
<1>1. CASE state[t] = "Waiting"
  <2>1. /\ CancelWait({t}, "TerminationRequested", CancelTask(timerTasks, {t}))
        /\ terminationRequested' = [terminationRequested EXCEPT ![t] = TRUE]
        /\ UNCHANGED <<pc, waitObjects, hasTimer, syncedIndex, signaled>>
        /\ UNCHANGED waitCancelled
    BY <1>1 DEF RequestTerminate
  <2>2. CancelTask(timerTasks, {t}) = {u \in timerTasks : u \notin {t}}
    BY <1>1, CancelTaskTasks
  <2>3. CancelTask(timerTasks, {t}) \in SUBSET Threads /\ "TerminationRequested" \in Results
    BY <2>2 DEF IInv, TypeOK, Results
  <2>4. \A u \in Threads \ {t} : /\ waitCancelled[u] = waitCancelled'[u]
                                 /\ terminationRequested'[u] = terminationRequested[u]
    BY <2>1 DEF IInv, TypeOK
  <2>5. {t} \in SUBSET Threads /\ \A u \in {t} : state[u] = "Waiting"
    BY <1>1
  <2>6. \A u \in Threads \ {t} : state[u] = "Waiting" =>
               /\ waitCancelled[u] = waitCancelled'[u]
               /\ terminationRequested'[u] = terminationRequested[u]
    BY <2>4
  <2> QED BY <1>0, <2>1, <2>2, <2>3, <2>5, <2>6, CancelWaitIInv
<1>2. CASE state[t] # "Waiting"
  <2>1. /\ terminationRequested' = [terminationRequested EXCEPT ![t] = TRUE]
        /\ UNCHANGED <<links, cancellable, waitResult, timerTasks, pc, waitObjects,
                       hasTimer, waitCancelled, syncedIndex, signaled>>
        /\ state' \in [Threads -> ThreadState]
        /\ state'[t] # "Waiting"
        /\ \A u \in Threads \ {t} : state'[u] = state[u]
    BY <1>2 DEF RequestTerminate, IInv, TypeOK, ThreadState
  <2>2. TypeOK'
    BY <1>0, <2>1 DEF IInv, TypeOK
  <2>3. \A u \in Threads : InSyncWait(u)' <=> InSyncWait(u)
    BY <1>2, <2>1 DEF InSyncWait
  <2>4. \A n \in Nodes : n.thread \in Threads
    BY DEF Nodes
  <2>5. NodesMatchWaits'
    BY <2>1, <2>3, <2>4 DEF IInv, NodesMatchWaits
  <2>6. NoMissedSignal'
    BY <2>1, <2>3 DEF IInv, NoMissedSignal
  <2>7. TimerTaskMatchesWait' /\ BlockedInCall' /\ NoIndexYet'
    BY <1>2, <2>1, <2>3 DEF IInv, TimerTaskMatchesWait, BlockedInCall, NoIndexYet
  <2>8. NoPendingRequestWhileBlocked'
    BY <1>2, <2>1, <2>3 DEF IInv, NoPendingRequestWhileBlocked, TypeOK
  <2> QED BY <2>2, <2>5, <2>6, <2>7, <2>8 DEF IInv
<1> QED BY <1>1, <1>2

\* A non-empty set of naturals has a least element.
LEMMA LeastElement ==
    ASSUME NEW T \in SUBSET Nat, T # {}
    PROVE  \E x \in T : \A y \in T : x <= y
<1>1. \E x \in T : \A y \in T : ~(<<y, x>> \in OpToRel(<, Nat))
  BY NatLessThanWellFounded, WFMin
<1>2. PICK x \in T : \A y \in T : ~(<<y, x>> \in OpToRel(<, Nat))
  BY <1>1
<1>3. \A y \in T : ~(y < x)
  BY <1>2 DEF OpToRel
<1> QED BY <1>3

\* A thread with a node on o has o among its objects, so o has a first index.
LEMMA FirstIndexExists ==
    ASSUME IInv, NEW o \in Objects, NEW st, NEW t \in WaitersOf(o, st)
    PROVE  /\ FirstIndexOf(waitObjects[t], o) \in Indices
           /\ IsFirstIndexOf(waitObjects[t], o, FirstIndexOf(waitObjects[t], o))
<1>1. PICK n \in links : n.object = o /\ n.thread = t
  BY DEF WaitersOf
<1>2. n \in Nodes /\ n.index \in DOMAIN waitObjects[t] /\ waitObjects[t][n.index] = o
  BY <1>1 DEF IInv, NodesMatchWaits
<1>3. \E i \in Indices : IsFirstIndexOf(waitObjects[t], o, i)
  <2> DEFINE At == {k \in DOMAIN waitObjects[t] : waitObjects[t][k] = o}
  <2>0. waitObjects[t] \in ObjectLists
    BY DEF IInv, TypeOK, WaitersOf
  <2>1. PICK m \in 0..MaxObjects : waitObjects[t] \in [1..m -> Objects]
    BY <2>0 DEF ObjectLists
  <2>2. At \in SUBSET Nat /\ At # {}
    BY <1>2, <2>1
  <2>3. PICK i \in At : \A j \in At : i <= j
    BY <2>2, LeastElement
  <2>4. i \in 1..m /\ \A j \in 1..(i - 1) : waitObjects[t][j] # o
    BY <2>1, <2>3
  <2> QED BY <2>1, <2>3, <2>4, ObjectsAssumption DEF IsFirstIndexOf, Indices
<1> QED BY <1>3 DEF FirstIndexOf

\* NotifyAvailable of an object o that the step has just signaled; st differs from
\* state at most in a thread that was not waiting and still is not.
LEMMA NotifyAvailableIInv ==
    ASSUME IInv, NEW o \in Objects, NEW st \in [Threads -> ThreadState],
           \A t \in Threads : st[t] = "Waiting" <=> state[t] = "Waiting",
           signaled' = [signaled EXCEPT ![o] = TRUE],
           NotifyAvailable(o, st),
           UNCHANGED <<pc, waitObjects, hasTimer, waitCancelled, terminationRequested>>
    PROVE  IInv'
<1> DEFINE S == WaitersOf(o, st)
<1>0. EndWaits(o, S, st) /\ S \in SUBSET Threads
  BY DEF NotifyAvailable, WaitersOf
<1>a. \A t \in S : state[t] = "Waiting"
  BY DEF WaitersOf
\* Every thread blocked on o has a node there.
<1>b. \A t \in Threads \ S : InSyncWait(t) => \A i \in DOMAIN waitObjects[t] : waitObjects[t][i] # o
  <2> SUFFICES ASSUME NEW t \in Threads, t \notin S, InSyncWait(t),
                      NEW i \in DOMAIN waitObjects[t], waitObjects[t][i] = o
               PROVE  FALSE
    OBVIOUS
  <2> DEFINE n == [object |-> o, thread |-> t, index |-> i]
  <2>1. i \in Indices
    BY ObjectListsType DEF IInv, TypeOK
  <2>2. n \in Nodes /\ Belongs(n)
    BY <2>1 DEF Nodes, Belongs
  <2>3. n \in links
    BY <2>2, NodesPointwise DEF IInv
  <2> QED BY <2>3 DEF WaitersOf, InSyncWait
<1>c. \A t \in S : FirstIndexOf(waitObjects[t], o) \in Indices
  BY FirstIndexExists DEF S
<1> HIDE DEF S
<1>1. /\ state' \in [Threads -> ThreadState]
      /\ \A t \in S : state'[t] = "Runnable"
      /\ \A t \in Threads \ S : state'[t] = st[t]
  BY <1>0 DEF EndWaits, Assign, ThreadState
<1>2. /\ cancellable' \in [Threads -> BOOLEAN]
      /\ \A t \in S : cancellable'[t] = FALSE
      /\ \A t \in Threads \ S : cancellable'[t] = cancellable[t]
  BY <1>0 DEF EndWaits, Assign, IInv, TypeOK
<1>3. links' = Unlink(S)
  BY <1>0 DEF EndWaits
<1>4. BlockedInCall' /\ links' \subseteq Nodes /\ NodesMatchWaits'
  BY <1>0, <1>1, <1>3, ReleaseNodes
<1>5. timerTasks' = {t \in timerTasks : t \notin S}
  BY <1>0, <1>a, CancelTaskTasks DEF EndWaits
<1>6. TypeOK'
  <2>1. waitResult' \in [Threads -> Results]
    BY <1>0 DEF EndWaits, Assign, IInv, TypeOK, Results
  <2>2. syncedIndex' \in [Threads -> Indices \cup {NoIndex}]
    BY <1>0, <1>c DEF EndWaits, IInv, TypeOK
  <2>3. signaled' \in [Objects -> BOOLEAN]
    BY DEF IInv, TypeOK
  <2> QED BY <1>1, <1>2, <1>4, <1>5, <2>1, <2>2, <2>3 DEF IInv, TypeOK
<1>7. NoMissedSignal'
  <2> SUFFICES ASSUME NEW t \in Threads, InSyncWait(t)', NEW i \in DOMAIN waitObjects[t]
               PROVE  ~signaled'[waitObjects[t][i]]
    BY DEF NoMissedSignal
  <2>1. t \notin S /\ InSyncWait(t)
    BY <1>1 DEF InSyncWait
  <2>2. waitObjects[t][i] # o /\ ~signaled[waitObjects[t][i]] /\ waitObjects[t][i] \in Objects
    BY <2>1, <1>b, ObjectListsType DEF IInv, NoMissedSignal, TypeOK
  <2> QED BY <2>2 DEF IInv, TypeOK
<1>8. TimerTaskMatchesWait'
  BY <1>1, <1>5 DEF IInv, TimerTaskMatchesWait
<1>9. NoPendingRequestWhileBlocked'
  BY <1>1, <1>2 DEF IInv, NoPendingRequestWhileBlocked, InSyncWait, TypeOK
<1>10. NoIndexYet'
  BY <1>0, <1>1 DEF IInv, NoIndexYet, InSyncWait, EndWaits, TypeOK
<1> QED BY <1>4, <1>6, <1>7, <1>8, <1>9, <1>10 DEF IInv

\* Signalling an event.
LEMMA SignalIInv ==
    ASSUME IInv, NEW e \in Events, Signal(e)
    PROVE  IInv'
<1>1. e \in Objects /\ state \in [Threads -> ThreadState]
  BY DEF Objects, IInv, TypeOK
<1> QED BY <1>1, NotifyAvailableIInv DEF Signal

\* The exit of a thread.
LEMMA ExitIInv ==
    ASSUME IInv, NEW t \in Threads, Exit(t)
    PROVE  IInv'
<1> DEFINE st == [state EXCEPT ![t] = "Terminated"]
<1>1. t \in Objects /\ st \in [Threads -> ThreadState]
  BY DEF Objects, IInv, TypeOK, ThreadState
<1>2. \A u \in Threads : st[u] = "Waiting" <=> state[u] = "Waiting"
  BY DEF Exit, Running, IInv, TypeOK
<1>3. /\ NotifyAvailable(t, st)
      /\ signaled' = [signaled EXCEPT ![t] = TRUE]
      /\ UNCHANGED <<pc, waitObjects, hasTimer, waitCancelled, terminationRequested>>
  BY DEF Exit
<1> HIDE DEF st
<1> QED BY <1>1, <1>2, <1>3, NotifyAvailableIInv

\* Steps that neither end nor begin a wait on an object, or that do nothing.
LEMMA OtherIInv ==
    ASSUME IInv,
           \/ \E t \in Threads : WaitReturn(t) \/ Sleep(t) \/ SleepReturn(t)
           \/ \E c, t \in Threads : Run(c, t)
           \/ \E e \in Events : Reset(e)
           \/ UNCHANGED vars
    PROVE  IInv'
<1> USE DEF IInv, InSyncWait
<1>n. \A n \in Nodes : n.thread \in Threads
  BY DEF Nodes
<1>1. ASSUME NEW t \in Threads, WaitReturn(t) PROVE IInv'
  <2>1. TypeOK'
    BY <1>1, EmptyList DEF WaitReturn, TypeOK, Results, NoIndex
  <2>2. NodesMatchWaits'
    BY <1>1, <1>n DEF WaitReturn, TypeOK, NodesMatchWaits
  <2>3. BlockedInCall' /\ NoIndexYet'
    BY <1>1 DEF WaitReturn, TypeOK, BlockedInCall, NoIndexYet
  <2>4. NoMissedSignal'
    BY <1>1 DEF WaitReturn, TypeOK, NoMissedSignal
  <2>5. TimerTaskMatchesWait'
    BY <1>1 DEF WaitReturn, TypeOK, TimerTaskMatchesWait
  <2>6. NoPendingRequestWhileBlocked'
    BY <1>1 DEF WaitReturn, TypeOK, NoPendingRequestWhileBlocked
  <2> QED BY <2>1, <2>2, <2>3, <2>4, <2>5, <2>6
<1>2. ASSUME NEW t \in Threads, Sleep(t) PROVE IInv'
  <2>1. TypeOK'
    BY <1>2 DEF Sleep, TypeOK, ThreadState
  <2>2. NodesMatchWaits'
    BY <1>2, <1>n DEF Sleep, Running, TypeOK, NodesMatchWaits
  <2>3. BlockedInCall' /\ NoIndexYet'
    BY <1>2 DEF Sleep, Running, IsTerminationRequested, TypeOK, BlockedInCall, NoIndexYet
  <2>4. NoMissedSignal'
    BY <1>2 DEF Sleep, Running, IsTerminationRequested, TypeOK, NoMissedSignal
  <2>5. TimerTaskMatchesWait'
    BY <1>2 DEF Sleep, Running, IsTerminationRequested, TypeOK, TimerTaskMatchesWait
  <2>6. NoPendingRequestWhileBlocked'
    BY <1>2 DEF Sleep, Running, IsTerminationRequested, TypeOK, NoPendingRequestWhileBlocked
  <2> QED BY <2>1, <2>2, <2>3, <2>4, <2>5, <2>6
<1>3. ASSUME NEW t \in Threads, SleepReturn(t) PROVE IInv'
  <2>1. TypeOK'
    BY <1>3 DEF SleepReturn, TypeOK, Results
  <2>2. NodesMatchWaits'
    BY <1>3, <1>n DEF SleepReturn, TypeOK, NodesMatchWaits
  <2>3. BlockedInCall' /\ NoIndexYet'
    BY <1>3 DEF SleepReturn, TypeOK, BlockedInCall, NoIndexYet
  <2>4. NoMissedSignal'
    BY <1>3 DEF SleepReturn, TypeOK, NoMissedSignal
  <2>5. TimerTaskMatchesWait'
    BY <1>3 DEF SleepReturn, TypeOK, TimerTaskMatchesWait
  <2>6. NoPendingRequestWhileBlocked'
    BY <1>3 DEF SleepReturn, TypeOK, NoPendingRequestWhileBlocked
  <2> QED BY <2>1, <2>2, <2>3, <2>4, <2>5, <2>6
<1>4. ASSUME NEW c \in Threads, NEW t \in Threads, Run(c, t) PROVE IInv'
  <2>1. TypeOK'
    BY <1>4 DEF Run, TypeOK, ThreadState
  <2>2. NodesMatchWaits'
    BY <1>4, <1>n DEF Run, TypeOK, NodesMatchWaits
  <2>3. BlockedInCall' /\ NoIndexYet'
    BY <1>4 DEF Run, TypeOK, BlockedInCall, NoIndexYet
  <2>4. NoMissedSignal'
    BY <1>4 DEF Run, TypeOK, NoMissedSignal
  <2>5. TimerTaskMatchesWait'
    BY <1>4 DEF Run, TypeOK, TimerTaskMatchesWait
  <2>6. NoPendingRequestWhileBlocked'
    BY <1>4 DEF Run, TypeOK, NoPendingRequestWhileBlocked
  <2> QED BY <2>1, <2>2, <2>3, <2>4, <2>5, <2>6
<1>5. ASSUME NEW e \in Events, Reset(e) PROVE IInv'
  <2>1. NoMissedSignal'
    BY <1>5, ObjectListsType DEF Reset, NoMissedSignal, TypeOK
  <2> QED BY <1>5, <2>1 DEF Reset, TypeOK, BlockedInCall, NoIndexYet, NodesMatchWaits,
                 TimerTaskMatchesWait, NoPendingRequestWhileBlocked
<1>6. ASSUME UNCHANGED vars PROVE IInv'
  BY <1>6 DEF vars, TypeOK, BlockedInCall, NoIndexYet, NodesMatchWaits, NoMissedSignal,
              TimerTaskMatchesWait, NoPendingRequestWhileBlocked
<1> QED BY <1>1, <1>2, <1>3, <1>4, <1>5, <1>6

\* The strengthened invariant holds in every reachable state, for any number of
\* threads, events and objects per wait.
THEOREM WaitInvariant == Spec => []IInv
<1>1. IInv /\ [Next]_vars => IInv'
  <2> SUFFICES ASSUME IInv, [Next]_vars PROVE IInv'
    OBVIOUS
  <2> QED BY WaitIInv, DoTaskIInv, WaitCancelIInv, RequestTerminateIInv, SignalIInv, ExitIInv,
             OtherIInv DEF Next
<1> QED BY InitIInv, <1>1, PTL DEF Spec

\* Types are respected.
THEOREM TypeCorrect == Spec => []TypeOK
<1>1. IInv => TypeOK
  BY DEF IInv
<1> QED BY WaitInvariant, <1>1, PTL

\* The linked nodes are exactly those of the blocked threads: no list of a kernel
\* object holds a node of a Wait that has ended.
THEOREM NodesMatchWaitsAlways == Spec => []NodesMatchWaits
<1>1. IInv => NodesMatchWaits
  BY DEF IInv
<1> QED BY WaitInvariant, <1>1, PTL

\* No wakeup is lost between Wait's check and a Signal or an Exit.
THEOREM NoMissedSignalAlways == Spec => []NoMissedSignal
<1>1. IInv => NoMissedSignal
  BY DEF IInv
<1> QED BY WaitInvariant, <1>1, PTL

\* No timer task outlives the wait it was registered for.
THEOREM TimerTaskMatchesWaitAlways == Spec => []TimerTaskMatchesWait
<1>1. IInv => TimerTaskMatchesWait
  BY DEF IInv
<1> QED BY WaitInvariant, <1>1, PTL

\* No thread is blocked with a cancellation or a termination request pending.
THEOREM NoPendingRequestAlways == Spec => []NoPendingRequestWhileBlocked
<1>1. IInv => NoPendingRequestWhileBlocked
  BY DEF IInv
<1> QED BY WaitInvariant, <1>1, PTL

\* What a step does to the result and the index of a thread that is not blocked
\* in Wait but is still inside of it.
LEMMA DecidedStep ==
    ASSUME IInv, [Next]_vars, NEW t \in Threads, pc[t] = "inWait", state[t] # "Waiting",
           pc'[t] = "inWait"
    PROVE  waitResult'[t] = waitResult[t] /\ syncedIndex'[t] = syncedIndex[t]
<1> USE DEF IInv, TypeOK
<1>1. ASSUME NEW S, NEW r, NEW tasks, CancelWait(S, r, tasks), \A u \in S : state[u] = "Waiting"
      PROVE  waitResult'[t] = waitResult[t]
  BY <1>1 DEF CancelWait, Assign
<1>2. ASSUME NEW o, NEW st, NotifyAvailable(o, st), st[t] # "Waiting"
      PROVE  waitResult'[t] = waitResult[t] /\ syncedIndex'[t] = syncedIndex[t]
  BY <1>2 DEF NotifyAvailable, EndWaits, WaitersOf, Assign
<1>3. CASE \E u \in Threads, objs \in ObjectLists, timeout \in {"zero", "finite", "infinite"} :
                Wait(u, objs, timeout)
  <2>1. PICK u \in Threads, objs \in ObjectLists, timeout \in {"zero", "finite", "infinite"} :
                Wait(u, objs, timeout)
    BY <1>3
  <2>2. u # t /\ waitResult' = waitResult
    BY <2>1 DEF Wait, WaitBlocks, Running
  <2>3. syncedIndex' \in {syncedIndex, [syncedIndex EXCEPT ![u] = NoIndex]}
    BY <2>1 DEF Wait, WaitBlocks
  <2> QED BY <2>2, <2>3
<1>4. CASE \E u \in Threads : WaitReturn(u) \/ Sleep(u) \/ SleepReturn(u)
  <2>1. ASSUME NEW u \in Threads, WaitReturn(u) PROVE u # t
    BY <2>1 DEF WaitReturn
  <2>2. ASSUME NEW u \in Threads, SleepReturn(u) PROVE u # t
    BY <2>2 DEF SleepReturn
  <2> QED BY <1>4, <2>1, <2>2 DEF WaitReturn, Sleep, SleepReturn
<1>5. CASE \E u \in Threads : WaitCancel(u)
  BY <1>5, <1>1 DEF WaitCancel
<1>6. CASE \E u \in Threads : RequestTerminate(u)
  BY <1>6, <1>1 DEF RequestTerminate
<1>7. CASE \E u \in Threads : Exit(u)
  BY <1>7, <1>2 DEF Exit
<1>8. CASE \E c, u \in Threads : Run(c, u)
  BY <1>8 DEF Run
<1>9. CASE \E due \in SUBSET Threads : DoTask(due)
  BY <1>9, <1>1 DEF DoTask
<1>10. CASE \E e \in Events : Signal(e) \/ Reset(e)
  BY <1>10, <1>2 DEF Signal, Reset
<1>11. CASE UNCHANGED vars
  BY <1>11 DEF vars
<1> QED BY <1>3, <1>4, <1>5, <1>6, <1>7, <1>8, <1>9, <1>10, <1>11 DEF Next

\* The outcome of a wait is decided once.
THEOREM DecidedOnceAlways == Spec => DecidedOnce
<1>1. IInv /\ [Next]_vars =>
        [\A t \in Threads : (pc[t] = "inWait" /\ state[t] # "Waiting" /\ pc'[t] = "inWait") =>
            waitResult'[t] = waitResult[t] /\ syncedIndex'[t] = syncedIndex[t]]_vars
  BY DecidedStep
<1> QED BY WaitInvariant, <1>1, PTL DEF Spec, DecidedOnce

\* The step that ends a wait leaves its cause.
LEMMA WakeupStep ==
    ASSUME IInv, [Next]_vars, NEW t \in Threads, InSyncWait(t), state'[t] = "Runnable"
    PROVE  WakeupCause(t)
<1> USE DEF InSyncWait
<1>0. state[t] = "Waiting" /\ pc[t] = "inWait" /\ syncedIndex[t] = NoIndex
  BY DEF IInv, NoIndexYet
<1>1. ASSUME NEW S, NEW r, NEW tasks, CancelWait(S, r, tasks)
      PROVE  t \in S /\ waitResult'[t] = r
  BY <1>1, <1>0 DEF CancelWait, Assign, IInv, TypeOK
<1>2. ASSUME NEW o \in Objects, NEW st, st[t] = "Waiting", st \in [Threads -> ThreadState],
             signaled' = [signaled EXCEPT ![o] = TRUE], NotifyAvailable(o, st)
      PROVE  WakeupCause(t)
  <2>1. t \in WaitersOf(o, st)
    BY <1>2, <1>0 DEF NotifyAvailable, EndWaits, Assign
  <2>2. waitResult'[t] = "Success" /\ syncedIndex'[t] = FirstIndexOf(waitObjects[t], o)
    BY <1>2, <2>1 DEF NotifyAvailable, EndWaits, Assign, IInv, TypeOK
  <2>3. IsFirstIndexOf(waitObjects[t], o, FirstIndexOf(waitObjects[t], o))
    BY <2>1, FirstIndexExists
  <2>4. waitObjects[t][FirstIndexOf(waitObjects[t], o)] = o
    BY <2>3 DEF IsFirstIndexOf
  <2>5. signaled'[o]
    BY <1>2 DEF IInv, TypeOK
  <2> QED BY <2>2, <2>3, <2>4, <2>5 DEF WakeupCause
<1>3. CASE \E u \in Threads, objs \in ObjectLists, timeout \in {"zero", "finite", "infinite"} :
                Wait(u, objs, timeout)
  BY <1>3, <1>0 DEF Wait, WaitBlocks, Running, IInv, TypeOK
<1>4. CASE \E u \in Threads : WaitReturn(u) \/ Sleep(u) \/ SleepReturn(u)
  BY <1>4, <1>0 DEF WaitReturn, Sleep, SleepReturn, Running, IInv, TypeOK
<1>5. CASE \E u \in Threads : WaitCancel(u)
  <2>1. PICK u \in Threads : WaitCancel(u)
    BY <1>5
  <2>2. CancelWait({u}, "Cancelled", CancelTask(timerTasks, {u}))
        /\ waitCancelled' = [waitCancelled EXCEPT ![u] = FALSE] /\ syncedIndex' = syncedIndex
    BY <2>1, <1>0 DEF WaitCancel
  <2>3. t = u /\ waitResult'[t] = "Cancelled"
    BY <2>2, <1>1
  <2> QED BY <2>2, <2>3, <1>0 DEF WakeupCause, IInv, TypeOK
<1>6. CASE \E u \in Threads : RequestTerminate(u)
  <2>1. PICK u \in Threads : RequestTerminate(u)
    BY <1>6
  <2>2. CASE u # t
    <3>1. state'[t] = state[t]
      BY <2>1, <2>2 DEF RequestTerminate, CancelWait, Assign, IInv, TypeOK
    <3> QED BY <3>1, <1>0
  <2>3. CASE u = t
    <3>1. CancelWait({t}, "TerminationRequested", CancelTask(timerTasks, {t}))
          /\ terminationRequested' = [terminationRequested EXCEPT ![t] = TRUE]
          /\ syncedIndex' = syncedIndex
      BY <2>1, <2>3, <1>0 DEF RequestTerminate
    <3>2. waitResult'[t] = "TerminationRequested"
      BY <3>1, <1>1
    <3> QED BY <3>1, <3>2, <1>0 DEF WakeupCause, IInv, TypeOK
  <2> QED BY <2>2, <2>3
<1>7. CASE \E u \in Threads : Exit(u)
  <2>1. PICK u \in Threads : Exit(u)
    BY <1>7
  <2> DEFINE st == [state EXCEPT ![u] = "Terminated"]
  <2>2. u \in Objects /\ st \in [Threads -> ThreadState] /\ st[t] = "Waiting"
    BY <2>1, <1>0 DEF Exit, Running, Objects, IInv, TypeOK, ThreadState
  <2>3. signaled' = [signaled EXCEPT ![u] = TRUE] /\ NotifyAvailable(u, st)
    BY <2>1 DEF Exit
  <2> HIDE DEF st
  <2> QED BY <2>2, <2>3, <1>2
<1>8. CASE \E c, u \in Threads : Run(c, u)
  BY <1>8, <1>0 DEF Run, IInv, TypeOK
<1>9. CASE \E due \in SUBSET Threads : DoTask(due)
  <2>1. PICK due \in SUBSET Threads : DoTask(due)
    BY <1>9
  <2>2. t \in {u \in due : state[u] = "Waiting"} /\ waitResult'[t] = "TimedOut"
    BY <2>1, <1>1 DEF DoTask
  <2> QED BY <2>1, <2>2, <1>0 DEF DoTask, WakeupCause
<1>10. CASE \E e \in Events : Signal(e)
  BY <1>10, <1>0, <1>2 DEF Signal, Objects, IInv, TypeOK
<1>11. CASE UNCHANGED vars \/ \E e \in Events : Reset(e)
  BY <1>11, <1>0 DEF vars, Reset
<1> QED BY <1>3, <1>4, <1>5, <1>6, <1>7, <1>8, <1>9, <1>10, <1>11 DEF Next

\* Every wakeup has a cause, and the result and the index name it.
THEOREM WakeupHasCauseAlways == Spec => WakeupHasCause
<1>1. IInv /\ [Next]_vars =>
        [\A t \in Threads : (InSyncWait(t) /\ state'[t] = "Runnable") => WakeupCause(t)]_vars
  BY WakeupStep
<1> QED BY WaitInvariant, <1>1, PTL DEF Spec, WakeupHasCause
=============================================================================
