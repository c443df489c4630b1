------------------------ MODULE KConditionVariableProofs ------------------------
(***************************************************************************)
(* Proofs about KConditionVariable for any number of threads: two threads  *)
(* never have the guest mutex, a waiter is always announced in the word,   *)
(* and a condition variable with waiters is announced at its key.          *)
(***************************************************************************)
EXTENDS KConditionVariable, FiniteSetTheorems, TLAPS

\* The steps of a handler with the scheduler lock, and of one that gives up the mutex.
Inside == {"arbAdd", "unlockWrite", "waitWrite", "signalLoop"}
Handing == {"unlockWrite", "waitWrite"}
Releasing == {"unlock", "unlockWrite", "wait", "waitWrite"}
Blocked == {"arbWait", "cvWait"}

\* The scheduler lock is held by the thread whose handler is under way.
OneHandler ==
    /\ \A t \in Threads : pc[t] \in Inside => locked = t
    /\ locked # None => pc[locked] \in Inside

\* The word names the thread that has the mutex, which is the one that may give it up.
HolderIsNamed ==
    /\ \A t \in Threads : holds[t] => tagOwner = t
    /\ \A t \in Threads : pc[t] \in Releasing => holds[t]

\* The waiters wait for the thread the word names, with the wait bit; in between the two
\* steps of a hand-over they wait for the next owner.
WaitersAreNamed ==
    \A t \in Threads : lockOwner[t] # None =>
        IF locked # None /\ pc[locked] \in Handing
        THEN lockOwner[t] = next
        ELSE tagOwner = lockOwner[t] /\ tagWait

\* What WaitForAddress has read stays true until it has added its waiter.
ReadIsCurrent ==
    \A t \in Threads : pc[t] = "arbAdd" => tagOwner = handle[t] /\ tagWait

\* The key is set before the thread is in m_tree.
KeyIsSet == (cvTree # {} \/ \E t \in Threads : pc[t] = "waitWrite") => cvFlag

\* A blocked thread is among the waiters of an owner, in m_tree, or about to be the next
\* owner, and in one of these places only.
BlockedInOnePlace ==
    /\ \A t \in Threads :
        /\ t \in cvTree => pc[t] = "cvWait" /\ lockOwner[t] = None
        /\ lockOwner[t] # None => pc[t] \in Blocked
        /\ pc[t] \in Blocked => t \in cvTree \/ lockOwner[t] # None \/ t = next
        /\ t \in timed => pc[t] = "cvWait"
    /\ next # None =>
        /\ pc[next] \in Blocked
        /\ lockOwner[next] = None
        /\ next \notin cvTree
        /\ locked # None
        /\ pc[locked] \in Handing

Inv ==
    /\ TypeOK
    /\ OneHandler
    /\ HolderIsNamed
    /\ WaitersAreNamed
    /\ ReadIsCurrent
    /\ KeyIsSet
    /\ BlockedInOnePlace

LEMMA InvInit == Init => Inv
<1> SUFFICES ASSUME Init PROVE Inv
    OBVIOUS
<1>1. Cardinality(Threads) \in Nat
    BY FS_CardinalityType, ThreadAssumption
<1>2. TypeOK
    <2>1. 0 \in 0..Cardinality(Threads)
        BY <1>1
    <2>2. tagWait \in BOOLEAN /\ cvFlag \in BOOLEAN /\ crashed \in BOOLEAN /\ ~tagWait
        BY  DEF Init
    <2>3. holds \in [Threads -> BOOLEAN] /\ terminating \in [Threads -> BOOLEAN]
        BY  DEF Init
    <2> QED BY <2>1, <2>2, <2>3 DEF Init, TypeOK, PCs
<1>3. OneHandler /\ HolderIsNamed /\ WaitersAreNamed /\ ReadIsCurrent /\ KeyIsSet
      /\ BlockedInOnePlace
    BY  DEF Init, BlockedInOnePlace, Blocked, OneHandler, HolderIsNamed, WaitersAreNamed,
           ReadIsCurrent, KeyIsSet, Inside, Releasing
<1> QED BY <1>2, <1>3 DEF Inv

\* Every step preserves Inv.
LEMMA InvStep == Inv /\ [Next]_vars => Inv'
<1> SUFFICES ASSUME Inv, [Next]_vars PROVE Inv'
    OBVIOUS
<1>0. Cardinality(Threads) \in Nat
    BY FS_CardinalityType, ThreadAssumption
<1> USE DEF Inv
<1>1. ASSUME NEW t \in Threads, GuestLock(t) PROVE Inv'
    <2>1. TypeOK'
        <3>1. /\ tagOwner' \in Threads \cup {None}
              /\ tagWait' => tagOwner' # None
              /\ lockOwner' \in [Threads -> Threads \cup {None}]
              /\ cvTree' \subseteq Threads
              /\ timed' \subseteq Threads
            BY <1>1, ThreadAssumption DEF TypeOK, GuestLock, waitVars
        <3>2. /\ pc' \in [Threads -> PCs]
              /\ handle' \in [Threads -> Threads \cup {None}]
              /\ next' \in Threads \cup {None}
              /\ locked' \in Threads \cup {None}
            BY <1>1 DEF TypeOK, PCs, GuestLock, waitVars
        <3>3. budget' \in 0..Cardinality(Threads)
            BY <1>0, <1>1 DEF TypeOK, GuestLock, waitVars
        <3>4. tagWait' \in BOOLEAN /\ cvFlag' \in BOOLEAN /\ crashed' \in BOOLEAN
            BY <1>1 DEF TypeOK, GuestLock, waitVars
        <3>5. holds' \in [Threads -> BOOLEAN] /\ terminating' \in [Threads -> BOOLEAN]
            BY <1>1 DEF TypeOK, GuestLock, waitVars
        <3> QED BY <3>1, <3>2, <3>3, <3>4, <3>5 DEF TypeOK
    <2>2. OneHandler'
        BY <1>1, ThreadAssumption
           DEF TypeOK, OneHandler, Inside, GuestLock, waitVars
    <2>3. HolderIsNamed'
        BY <1>1, ThreadAssumption
           DEF TypeOK, HolderIsNamed, Releasing, GuestLock, waitVars
    <2>4. WaitersAreNamed'
        BY <1>1, ThreadAssumption
           DEF TypeOK, OneHandler, HolderIsNamed, WaitersAreNamed, ReadIsCurrent, Inside,
               Handing, Releasing, GuestLock, waitVars
    <2>5. ReadIsCurrent'
        BY <1>1, ThreadAssumption
           DEF TypeOK, OneHandler, HolderIsNamed, ReadIsCurrent, Inside, Releasing,
               GuestLock, waitVars
    <2>6. KeyIsSet'
        BY <1>1, ThreadAssumption
           DEF TypeOK, OneHandler, KeyIsSet, Inside, GuestLock, waitVars
    <2>7. BlockedInOnePlace'
        BY <1>1, ThreadAssumption
           DEF TypeOK, PCs, OneHandler, BlockedInOnePlace, Inside, Handing, Blocked,
               GuestLock, waitVars
    <2> QED BY <2>1, <2>2, <2>3, <2>4, <2>5, <2>6, <2>7
<1>2. ASSUME NEW t \in Threads, GuestUnlock(t) PROVE Inv'
    <2>1. TypeOK'
        <3>1. /\ tagOwner' \in Threads \cup {None}
              /\ tagWait' => tagOwner' # None
              /\ lockOwner' \in [Threads -> Threads \cup {None}]
              /\ cvTree' \subseteq Threads
              /\ timed' \subseteq Threads
            BY <1>2, ThreadAssumption DEF TypeOK, GuestUnlock, waitVars, callVars
        <3>2. /\ pc' \in [Threads -> PCs]
              /\ handle' \in [Threads -> Threads \cup {None}]
              /\ next' \in Threads \cup {None}
              /\ locked' \in Threads \cup {None}
            BY <1>2 DEF TypeOK, PCs, GuestUnlock, waitVars, callVars
        <3>3. budget' \in 0..Cardinality(Threads)
            BY <1>0, <1>2 DEF TypeOK, GuestUnlock, waitVars, callVars
        <3>4. tagWait' \in BOOLEAN /\ cvFlag' \in BOOLEAN /\ crashed' \in BOOLEAN
            BY <1>2 DEF TypeOK, GuestUnlock, waitVars, callVars
        <3>5. holds' \in [Threads -> BOOLEAN] /\ terminating' \in [Threads -> BOOLEAN]
            BY <1>2 DEF TypeOK, GuestUnlock, waitVars, callVars
        <3> QED BY <3>1, <3>2, <3>3, <3>4, <3>5 DEF TypeOK
    <2>2. OneHandler'
        BY <1>2, ThreadAssumption
           DEF TypeOK, OneHandler, Inside, GuestUnlock, waitVars, callVars
    <2>3. HolderIsNamed'
        BY <1>2, ThreadAssumption
           DEF TypeOK, HolderIsNamed, Releasing, GuestUnlock, waitVars, callVars
    <2>4. WaitersAreNamed'
        BY <1>2, ThreadAssumption
           DEF TypeOK, OneHandler, HolderIsNamed, WaitersAreNamed, ReadIsCurrent, Inside,
               Handing, Releasing, GuestUnlock, waitVars, callVars
    <2>5. ReadIsCurrent'
        BY <1>2, ThreadAssumption
           DEF TypeOK, OneHandler, HolderIsNamed, ReadIsCurrent, Inside, Releasing,
               GuestUnlock, waitVars, callVars
    <2>6. KeyIsSet'
        BY <1>2, ThreadAssumption
           DEF TypeOK, OneHandler, KeyIsSet, Inside, GuestUnlock, waitVars, callVars
    <2>7. BlockedInOnePlace'
        BY <1>2, ThreadAssumption
           DEF TypeOK, PCs, OneHandler, BlockedInOnePlace, Inside, Handing, Blocked,
               GuestUnlock, waitVars, callVars
    <2> QED BY <2>1, <2>2, <2>3, <2>4, <2>5, <2>6, <2>7
<1>3. ASSUME NEW t \in Threads, GuestWait(t) PROVE Inv'
    <2>1. TypeOK'
        BY <1>0, <1>3, ThreadAssumption
           DEF TypeOK, PCs, GuestWait, guestVars, waitVars, callVars
    <2>2. OneHandler'
        BY <1>3, ThreadAssumption
           DEF TypeOK, OneHandler, Inside, GuestWait, guestVars, waitVars, callVars
    <2>3. HolderIsNamed'
        BY <1>3, ThreadAssumption
           DEF TypeOK, HolderIsNamed, Releasing, GuestWait, guestVars, waitVars, callVars
    <2>4. WaitersAreNamed'
        BY <1>3, ThreadAssumption
           DEF TypeOK, OneHandler, HolderIsNamed, WaitersAreNamed, ReadIsCurrent, Inside,
               Handing, Releasing, GuestWait, guestVars, waitVars, callVars
    <2>5. ReadIsCurrent'
        BY <1>3, ThreadAssumption
           DEF TypeOK, OneHandler, HolderIsNamed, ReadIsCurrent, Inside, Releasing,
               GuestWait, guestVars, waitVars, callVars
    <2>6. KeyIsSet'
        BY <1>3, ThreadAssumption
           DEF TypeOK, OneHandler, KeyIsSet, Inside, GuestWait, guestVars, waitVars,
               callVars
    <2>7. BlockedInOnePlace'
        BY <1>3, ThreadAssumption
           DEF TypeOK, PCs, OneHandler, BlockedInOnePlace, Inside, Handing, Blocked,
               GuestWait, guestVars, waitVars, callVars
    <2> QED BY <2>1, <2>2, <2>3, <2>4, <2>5, <2>6, <2>7
<1>4. ASSUME NEW t \in Threads, GuestSignal(t) PROVE Inv'
    <2>1. TypeOK'
        BY <1>0, <1>4, ThreadAssumption
           DEF TypeOK, PCs, GuestSignal, guestVars, waitVars, callVars
    <2>2. OneHandler'
        BY <1>4, ThreadAssumption
           DEF TypeOK, OneHandler, Inside, GuestSignal, guestVars, waitVars, callVars
    <2>3. HolderIsNamed'
        BY <1>4, ThreadAssumption
           DEF TypeOK, HolderIsNamed, Releasing, GuestSignal, guestVars, waitVars, callVars
    <2>4. WaitersAreNamed'
        BY <1>4, ThreadAssumption
           DEF TypeOK, OneHandler, HolderIsNamed, WaitersAreNamed, ReadIsCurrent, Inside,
               Handing, Releasing, GuestSignal, guestVars, waitVars, callVars
    <2>5. ReadIsCurrent'
        BY <1>4, ThreadAssumption
           DEF TypeOK, OneHandler, HolderIsNamed, ReadIsCurrent, Inside, Releasing,
               GuestSignal, guestVars, waitVars, callVars
    <2>6. KeyIsSet'
        BY <1>4, ThreadAssumption
           DEF TypeOK, OneHandler, KeyIsSet, Inside, GuestSignal, guestVars, waitVars,
               callVars
    <2>7. BlockedInOnePlace'
        BY <1>4, ThreadAssumption
           DEF TypeOK, PCs, OneHandler, BlockedInOnePlace, Inside, Handing, Blocked,
               GuestSignal, guestVars, waitVars, callVars
    <2> QED BY <2>1, <2>2, <2>3, <2>4, <2>5, <2>6, <2>7
<1>5. ASSUME NEW t \in Threads, WaitForAddress(t) PROVE Inv'
    <2>1. TypeOK'
        BY <1>0, <1>5, ThreadAssumption
           DEF TypeOK, PCs, WaitForAddress, Enter, guestVars, waitVars
    <2>2. OneHandler'
        BY <1>5, ThreadAssumption
           DEF TypeOK, OneHandler, Inside, WaitForAddress, Enter, guestVars, waitVars
    <2>3. HolderIsNamed'
        BY <1>5, ThreadAssumption
           DEF TypeOK, HolderIsNamed, Releasing, WaitForAddress, Enter, guestVars, waitVars
    <2>4. WaitersAreNamed'
        BY <1>5, ThreadAssumption
           DEF TypeOK, OneHandler, HolderIsNamed, WaitersAreNamed, ReadIsCurrent, Inside,
               Handing, Releasing, WaitForAddress, Enter, guestVars, waitVars
    <2>5. ReadIsCurrent'
        BY <1>5, ThreadAssumption
           DEF TypeOK, OneHandler, HolderIsNamed, ReadIsCurrent, Inside, Releasing,
               WaitForAddress, Enter, guestVars, waitVars
    <2>6. KeyIsSet'
        BY <1>5, ThreadAssumption
           DEF TypeOK, OneHandler, KeyIsSet, Inside, WaitForAddress, Enter, guestVars,
               waitVars
    <2>7. BlockedInOnePlace'
        BY <1>5, ThreadAssumption
           DEF TypeOK, PCs, OneHandler, BlockedInOnePlace, Inside, Handing, Blocked,
               WaitForAddress, Enter, guestVars, waitVars
    <2> QED BY <2>1, <2>2, <2>3, <2>4, <2>5, <2>6, <2>7
<1>6. ASSUME NEW t \in Threads, WaitForAddressAdd(t) PROVE Inv'
    <2>1. TypeOK'
        BY <1>0, <1>6, ThreadAssumption
           DEF TypeOK, PCs, WaitForAddressAdd, guestVars
    <2>2. OneHandler'
        BY <1>6, ThreadAssumption
           DEF TypeOK, OneHandler, Inside, WaitForAddressAdd, guestVars
    <2>3. HolderIsNamed'
        BY <1>6, ThreadAssumption
           DEF TypeOK, HolderIsNamed, Releasing, WaitForAddressAdd, guestVars
    <2>4. WaitersAreNamed'
        BY <1>6, ThreadAssumption
           DEF TypeOK, OneHandler, HolderIsNamed, WaitersAreNamed, ReadIsCurrent, Inside,
               Handing, Releasing, WaitForAddressAdd, guestVars
    <2>5. ReadIsCurrent'
        BY <1>6, ThreadAssumption
           DEF TypeOK, OneHandler, HolderIsNamed, ReadIsCurrent, Inside, Releasing,
               WaitForAddressAdd, guestVars
    <2>6. KeyIsSet'
        BY <1>6, ThreadAssumption
           DEF TypeOK, OneHandler, KeyIsSet, Inside, WaitForAddressAdd, guestVars
    <2>7. BlockedInOnePlace'
        BY <1>6, ThreadAssumption
           DEF TypeOK, PCs, OneHandler, ReadIsCurrent, BlockedInOnePlace, Inside, Handing,
               Blocked, WaitForAddressAdd, guestVars
    <2> QED BY <2>1, <2>2, <2>3, <2>4, <2>5, <2>6, <2>7
<1>7. ASSUME NEW t \in Threads, SignalToAddress(t) PROVE Inv'
    <2>1. TypeOK'
        BY <1>0, <1>7, ThreadAssumption
           DEF TypeOK, PCs, SignalToAddress, Enter, RemoveUserWaiterByKey, Front, WaitersOf,
               guestVars
    <2>2. OneHandler'
        BY <1>7, ThreadAssumption
           DEF TypeOK, OneHandler, Inside, SignalToAddress, Enter, RemoveUserWaiterByKey,
               Front, WaitersOf, guestVars
    <2>3. HolderIsNamed'
        BY <1>7, ThreadAssumption
           DEF TypeOK, HolderIsNamed, Releasing, SignalToAddress, Enter,
               RemoveUserWaiterByKey, Front, WaitersOf, guestVars
    <2>4. WaitersAreNamed'
        BY <1>7, ThreadAssumption
           DEF TypeOK, OneHandler, HolderIsNamed, WaitersAreNamed, ReadIsCurrent, Inside,
               Handing, Releasing, SignalToAddress, Enter, RemoveUserWaiterByKey, Front,
               WaitersOf, guestVars
    <2>5. ReadIsCurrent'
        BY <1>7, ThreadAssumption
           DEF TypeOK, OneHandler, HolderIsNamed, ReadIsCurrent, Inside, Releasing,
               SignalToAddress, Enter, RemoveUserWaiterByKey, Front, WaitersOf, guestVars
    <2>6. KeyIsSet'
        BY <1>7, ThreadAssumption
           DEF TypeOK, OneHandler, KeyIsSet, Inside, SignalToAddress, Enter,
               RemoveUserWaiterByKey, Front, WaitersOf, guestVars
    <2>7. BlockedInOnePlace'
        BY <1>7, ThreadAssumption
           DEF TypeOK, PCs, OneHandler, BlockedInOnePlace, Inside, Handing, Blocked,
               SignalToAddress, Enter, RemoveUserWaiterByKey, Front, WaitersOf, guestVars
    <2> QED BY <2>1, <2>2, <2>3, <2>4, <2>5, <2>6, <2>7
<1>8. ASSUME NEW t \in Threads, SignalToAddressWrite(t) PROVE Inv'
    <2>1. TypeOK'
        BY <1>0, <1>8, ThreadAssumption
           DEF TypeOK, PCs, SignalToAddressWrite, WriteTag, HandOver, WaitersOf
    <2>2. OneHandler'
        BY <1>8, ThreadAssumption
           DEF TypeOK, OneHandler, Inside, SignalToAddressWrite, WriteTag, HandOver,
               WaitersOf
    <2>3. HolderIsNamed'
        BY <1>8, ThreadAssumption
           DEF TypeOK, HolderIsNamed, Releasing, SignalToAddressWrite, WriteTag, HandOver,
               WaitersOf
    <2>4. WaitersAreNamed'
        BY <1>8, ThreadAssumption
           DEF TypeOK, OneHandler, HolderIsNamed, WaitersAreNamed, ReadIsCurrent, Inside,
               Handing, Releasing, SignalToAddressWrite, WriteTag, HandOver, WaitersOf
    <2>5. ReadIsCurrent'
        BY <1>8, ThreadAssumption
           DEF TypeOK, OneHandler, HolderIsNamed, ReadIsCurrent, Inside, Releasing,
               SignalToAddressWrite, WriteTag, HandOver, WaitersOf
    <2>6. KeyIsSet'
        BY <1>8, ThreadAssumption
           DEF TypeOK, OneHandler, KeyIsSet, Inside, SignalToAddressWrite, WriteTag,
               HandOver, WaitersOf
    <2>7. BlockedInOnePlace'
        BY <1>8, ThreadAssumption
           DEF TypeOK, PCs, OneHandler, BlockedInOnePlace, Inside, Handing, Blocked,
               SignalToAddressWrite, WriteTag, HandOver, WaitersOf
    <2> QED BY <2>1, <2>2, <2>3, <2>4, <2>5, <2>6, <2>7
<1>9. ASSUME NEW t \in Threads, Wait(t) PROVE Inv'
    <2>1. TypeOK'
        <3>1. /\ tagOwner' \in Threads \cup {None}
              /\ tagWait' => tagOwner' # None
              /\ lockOwner' \in [Threads -> Threads \cup {None}]
              /\ cvTree' \subseteq Threads
              /\ timed' \subseteq Threads
            BY <1>9, ThreadAssumption DEF TypeOK, Wait, Enter, RemoveUserWaiterByKey, Front,
                   WaitersOf
        <3>2. /\ pc' \in [Threads -> PCs]
              /\ handle' \in [Threads -> Threads \cup {None}]
              /\ next' \in Threads \cup {None}
              /\ locked' \in Threads \cup {None}
            BY <1>9 DEF TypeOK, PCs, Wait, Enter, RemoveUserWaiterByKey, Front, WaitersOf
        <3>3. budget' \in 0..Cardinality(Threads)
            BY <1>0, <1>9 DEF TypeOK, Wait, Enter, RemoveUserWaiterByKey, Front, WaitersOf
        <3>4. tagWait' \in BOOLEAN /\ cvFlag' \in BOOLEAN /\ crashed' \in BOOLEAN
            BY <1>9 DEF TypeOK, Wait, Enter, RemoveUserWaiterByKey, Front, WaitersOf
        <3>5. holds' \in [Threads -> BOOLEAN] /\ terminating' \in [Threads -> BOOLEAN]
            BY <1>9 DEF TypeOK, Wait, Enter, RemoveUserWaiterByKey, Front, WaitersOf
        <3> QED BY <3>1, <3>2, <3>3, <3>4, <3>5 DEF TypeOK
    <2>2. OneHandler'
        BY <1>9, ThreadAssumption
           DEF TypeOK, OneHandler, Inside, Wait, Enter, RemoveUserWaiterByKey, Front,
               WaitersOf
    <2>3. HolderIsNamed'
        BY <1>9, ThreadAssumption
           DEF TypeOK, HolderIsNamed, Releasing, Wait, Enter, RemoveUserWaiterByKey, Front,
               WaitersOf
    <2>4. WaitersAreNamed'
        BY <1>9, ThreadAssumption
           DEF TypeOK, OneHandler, HolderIsNamed, WaitersAreNamed, ReadIsCurrent, Inside,
               Handing, Releasing, Wait, Enter, RemoveUserWaiterByKey, Front, WaitersOf
    <2>5. ReadIsCurrent'
        BY <1>9, ThreadAssumption
           DEF TypeOK, OneHandler, HolderIsNamed, ReadIsCurrent, Inside, Releasing, Wait,
               Enter, RemoveUserWaiterByKey, Front, WaitersOf
    <2>6. KeyIsSet'
        BY <1>9, ThreadAssumption
           DEF TypeOK, OneHandler, KeyIsSet, Inside, Wait, Enter, RemoveUserWaiterByKey,
               Front, WaitersOf
    <2>7. BlockedInOnePlace'
        BY <1>9, ThreadAssumption
           DEF TypeOK, PCs, OneHandler, BlockedInOnePlace, Inside, Handing, Blocked, Wait,
               Enter, RemoveUserWaiterByKey, Front, WaitersOf
    <2> QED BY <2>1, <2>2, <2>3, <2>4, <2>5, <2>6, <2>7
<1>10. ASSUME NEW t \in Threads, WaitWrite(t) PROVE Inv'
    <2>0. PICK to \in {"relock", "cvWait"} :
            /\ pc[t] = "waitWrite"
            /\ WriteTag
            /\ HandOver(t, to)
            /\ cvTree' = IF to = "cvWait" THEN cvTree \cup {t} ELSE cvTree
            /\ timed' \subseteq (timed \ {next}) \cup (IF to = "cvWait" THEN {t} ELSE {})
            /\ UNCHANGED <<cvFlag, lockOwner, handle, budget, terminating, crashed>>
        BY <1>10 DEF WaitWrite
    <2>1. TypeOK'
        <3>1. /\ tagOwner' \in Threads \cup {None}
              /\ tagWait' => tagOwner' # None
              /\ lockOwner' \in [Threads -> Threads \cup {None}]
              /\ cvTree' \subseteq Threads
              /\ timed' \subseteq Threads
            BY <2>0, ThreadAssumption DEF TypeOK, WriteTag, HandOver, WaitersOf
        <3>2. /\ pc' \in [Threads -> PCs]
              /\ handle' \in [Threads -> Threads \cup {None}]
              /\ next' \in Threads \cup {None}
              /\ locked' \in Threads \cup {None}
            BY <2>0 DEF TypeOK, PCs, WriteTag, HandOver, WaitersOf
        <3>3. budget' \in 0..Cardinality(Threads)
            BY <1>0, <2>0 DEF TypeOK, WriteTag, HandOver, WaitersOf
        <3>4. tagWait' \in BOOLEAN /\ cvFlag' \in BOOLEAN /\ crashed' \in BOOLEAN
            BY <2>0 DEF TypeOK, WriteTag, HandOver, WaitersOf
        <3>5. holds' \in [Threads -> BOOLEAN] /\ terminating' \in [Threads -> BOOLEAN]
            BY <2>0 DEF TypeOK, WriteTag, HandOver, WaitersOf
        <3> QED BY <3>1, <3>2, <3>3, <3>4, <3>5 DEF TypeOK
    <2>2. OneHandler'
        BY <2>0, ThreadAssumption
           DEF TypeOK, OneHandler, Inside, WriteTag, HandOver, WaitersOf
    <2>3. HolderIsNamed'
        BY <2>0, ThreadAssumption
           DEF TypeOK, HolderIsNamed, Releasing, WriteTag, HandOver, WaitersOf
    <2>4. WaitersAreNamed'
        BY <2>0, ThreadAssumption
           DEF TypeOK, OneHandler, HolderIsNamed, WaitersAreNamed, ReadIsCurrent, Inside,
               Handing, Releasing, WriteTag, HandOver, WaitersOf
    <2>5. ReadIsCurrent'
        BY <2>0, ThreadAssumption
           DEF TypeOK, OneHandler, HolderIsNamed, ReadIsCurrent, Inside, Releasing,
               WriteTag, HandOver, WaitersOf
    <2>6. KeyIsSet'
        BY <2>0, ThreadAssumption
           DEF TypeOK, OneHandler, KeyIsSet, Inside, WriteTag, HandOver, WaitersOf
    <2>7. BlockedInOnePlace'
        BY <2>0, ThreadAssumption
           DEF TypeOK, PCs, OneHandler, BlockedInOnePlace, Inside, Handing, Blocked,
               WriteTag, HandOver, WaitersOf
    <2> QED BY <2>1, <2>2, <2>3, <2>4, <2>5, <2>6, <2>7
<1>11. ASSUME NEW t \in Threads, Signal(t) PROVE Inv'
    <2>1. TypeOK'
        BY <1>0, <1>11, ThreadAssumption
           DEF TypeOK, PCs, Signal, Enter, guestVars, waitVars
    <2>2. OneHandler'
        BY <1>11, ThreadAssumption
           DEF TypeOK, OneHandler, Inside, Signal, Enter, guestVars, waitVars
    <2>3. HolderIsNamed'
        BY <1>11, ThreadAssumption
           DEF TypeOK, HolderIsNamed, Releasing, Signal, Enter, guestVars, waitVars
    <2>4. WaitersAreNamed'
        BY <1>11, ThreadAssumption
           DEF TypeOK, OneHandler, HolderIsNamed, WaitersAreNamed, ReadIsCurrent, Inside,
               Handing, Releasing, Signal, Enter, guestVars, waitVars
    <2>5. ReadIsCurrent'
        BY <1>11, ThreadAssumption
           DEF TypeOK, OneHandler, HolderIsNamed, ReadIsCurrent, Inside, Releasing, Signal,
               Enter, guestVars, waitVars
    <2>6. KeyIsSet'
        BY <1>11, ThreadAssumption
           DEF TypeOK, OneHandler, KeyIsSet, Inside, Signal, Enter, guestVars, waitVars
    <2>7. BlockedInOnePlace'
        BY <1>11, ThreadAssumption
           DEF TypeOK, PCs, OneHandler, BlockedInOnePlace, Inside, Handing, Blocked, Signal,
               Enter, guestVars, waitVars
    <2> QED BY <2>1, <2>2, <2>3, <2>4, <2>5, <2>6, <2>7
<1>12. ASSUME NEW t \in Threads, SignalNext(t) PROVE Inv'
    <2>0. PICK u \in Threads :
            /\ pc[t] = "signalLoop"
            /\ u \in cvTree
            /\ cvTree' = cvTree \ {u}
            /\ SignalImpl(u)
            /\ budget # 0
            /\ budget' = budget - 1
            /\ UNCHANGED <<cvFlag, handle, next, locked, terminating, crashed>>
        BY <1>12 DEF SignalNext, SignalGoesOn, Front, TypeOK
    <2>a. u # t /\ pc[u] = "cvWait"
        BY <2>0 DEF BlockedInOnePlace
    <2>1. TypeOK'
        <3>1. /\ tagOwner' \in Threads \cup {None}
              /\ tagWait' => tagOwner' # None
              /\ lockOwner' \in [Threads -> Threads \cup {None}]
              /\ cvTree' \subseteq Threads
              /\ timed' \subseteq Threads
            BY <2>0, <2>a, ThreadAssumption DEF TypeOK, SignalImpl, UpdateLockAtomic
        <3>2. /\ pc' \in [Threads -> PCs]
              /\ handle' \in [Threads -> Threads \cup {None}]
              /\ next' \in Threads \cup {None}
              /\ locked' \in Threads \cup {None}
            BY <2>0, <2>a DEF TypeOK, PCs, SignalImpl, UpdateLockAtomic
        <3>3. budget' \in 0..Cardinality(Threads)
            BY <1>0, <2>0, <2>a DEF TypeOK, SignalImpl, UpdateLockAtomic
        <3>4. tagWait' \in BOOLEAN /\ cvFlag' \in BOOLEAN /\ crashed' \in BOOLEAN
            BY <2>0, <2>a DEF TypeOK, SignalImpl, UpdateLockAtomic
        <3>5. holds' \in [Threads -> BOOLEAN] /\ terminating' \in [Threads -> BOOLEAN]
            BY <2>0, <2>a DEF TypeOK, SignalImpl, UpdateLockAtomic
        <3> QED BY <3>1, <3>2, <3>3, <3>4, <3>5 DEF TypeOK
    <2>2. OneHandler'
        BY <2>0, <2>a, ThreadAssumption
           DEF TypeOK, OneHandler, Inside, SignalImpl, UpdateLockAtomic
    <2>3. HolderIsNamed'
        BY <2>0, <2>a, ThreadAssumption
           DEF TypeOK, HolderIsNamed, Releasing, SignalImpl, UpdateLockAtomic
    <2>4. WaitersAreNamed'
        BY <2>0, <2>a, ThreadAssumption
           DEF TypeOK, OneHandler, HolderIsNamed, WaitersAreNamed, ReadIsCurrent, Inside,
               Handing, Releasing, SignalImpl, UpdateLockAtomic
    <2>5. ReadIsCurrent'
        BY <2>0, <2>a, ThreadAssumption
           DEF TypeOK, OneHandler, HolderIsNamed, ReadIsCurrent, Inside, Releasing,
               SignalImpl, UpdateLockAtomic
    <2>6. KeyIsSet'
        BY <2>0, <2>a, ThreadAssumption
           DEF TypeOK, OneHandler, KeyIsSet, Inside, SignalImpl, UpdateLockAtomic
    <2>7. BlockedInOnePlace'
        BY <2>0, <2>a, ThreadAssumption
           DEF TypeOK, PCs, OneHandler, BlockedInOnePlace, Inside, Handing, Blocked,
               SignalImpl, UpdateLockAtomic
    <2> QED BY <2>1, <2>2, <2>3, <2>4, <2>5, <2>6, <2>7
<1>13. ASSUME NEW t \in Threads, SignalEnd(t) PROVE Inv'
    <2>1. TypeOK'
        BY <1>0, <1>13, ThreadAssumption
           DEF TypeOK, PCs, SignalEnd, waitVars
    <2>2. OneHandler'
        BY <1>13, ThreadAssumption
           DEF TypeOK, OneHandler, Inside, SignalEnd, waitVars
    <2>3. HolderIsNamed'
        BY <1>13, ThreadAssumption
           DEF TypeOK, HolderIsNamed, Releasing, SignalEnd, waitVars
    <2>4. WaitersAreNamed'
        BY <1>13, ThreadAssumption
           DEF TypeOK, OneHandler, HolderIsNamed, WaitersAreNamed, ReadIsCurrent, Inside,
               Handing, Releasing, SignalEnd, waitVars
    <2>5. ReadIsCurrent'
        BY <1>13, ThreadAssumption
           DEF TypeOK, OneHandler, HolderIsNamed, ReadIsCurrent, Inside, Releasing,
               SignalEnd, waitVars
    <2>6. KeyIsSet'
        BY <1>13, ThreadAssumption
           DEF TypeOK, OneHandler, KeyIsSet, Inside, SignalEnd, waitVars
    <2>7. BlockedInOnePlace'
        BY <1>13, ThreadAssumption
           DEF TypeOK, PCs, OneHandler, BlockedInOnePlace, Inside, Handing, Blocked,
               SignalEnd, waitVars
    <2> QED BY <2>1, <2>2, <2>3, <2>4, <2>5, <2>6, <2>7
<1>14. ASSUME NEW t \in Threads, OnTimer(t) PROVE Inv'
    <2>1. TypeOK'
        BY <1>0, <1>14, ThreadAssumption
           DEF TypeOK, PCs, OnTimer, CancelWait, guestVars, callVars
    <2>2. OneHandler'
        BY <1>14, ThreadAssumption
           DEF TypeOK, OneHandler, Inside, OnTimer, CancelWait, guestVars, callVars
    <2>3. HolderIsNamed'
        BY <1>14, ThreadAssumption
           DEF TypeOK, HolderIsNamed, Releasing, OnTimer, CancelWait, guestVars, callVars
    <2>4. WaitersAreNamed'
        BY <1>14, ThreadAssumption
           DEF TypeOK, OneHandler, HolderIsNamed, WaitersAreNamed, ReadIsCurrent, Inside,
               Handing, Releasing, OnTimer, CancelWait, guestVars, callVars
    <2>5. ReadIsCurrent'
        BY <1>14, ThreadAssumption
           DEF TypeOK, OneHandler, HolderIsNamed, ReadIsCurrent, Inside, Releasing, OnTimer,
               CancelWait, guestVars, callVars
    <2>6. KeyIsSet'
        BY <1>14, ThreadAssumption
           DEF TypeOK, OneHandler, KeyIsSet, Inside, OnTimer, CancelWait, guestVars,
               callVars
    <2>7. BlockedInOnePlace'
        BY <1>14, ThreadAssumption
           DEF TypeOK, PCs, OneHandler, BlockedInOnePlace, Inside, Handing, Blocked,
               OnTimer, CancelWait, guestVars, callVars
    <2> QED BY <2>1, <2>2, <2>3, <2>4, <2>5, <2>6, <2>7
<1>15. ASSUME NEW t \in Threads, RequestTerminate(t) PROVE Inv'
    <2>1. TypeOK'
        BY <1>0, <1>15, ThreadAssumption
           DEF TypeOK, PCs, RequestTerminate, CancelWait, guestVars, waitVars, callVars
    <2>2. OneHandler'
        BY <1>15, ThreadAssumption
           DEF TypeOK, OneHandler, Inside, RequestTerminate, CancelWait, guestVars,
               waitVars, callVars
    <2>3. HolderIsNamed'
        BY <1>15, ThreadAssumption
           DEF TypeOK, HolderIsNamed, Releasing, RequestTerminate, CancelWait, guestVars,
               waitVars, callVars
    <2>4. WaitersAreNamed'
        BY <1>15, ThreadAssumption
           DEF TypeOK, OneHandler, HolderIsNamed, WaitersAreNamed, ReadIsCurrent, Inside,
               Handing, Releasing, RequestTerminate, CancelWait, guestVars, waitVars,
               callVars
    <2>5. ReadIsCurrent'
        BY <1>15, ThreadAssumption
           DEF TypeOK, OneHandler, HolderIsNamed, ReadIsCurrent, Inside, Releasing,
               RequestTerminate, CancelWait, guestVars, waitVars, callVars
    <2>6. KeyIsSet'
        BY <1>15, ThreadAssumption
           DEF TypeOK, OneHandler, KeyIsSet, Inside, RequestTerminate, CancelWait,
               guestVars, waitVars, callVars
    <2>7. BlockedInOnePlace'
        BY <1>15, ThreadAssumption
           DEF TypeOK, PCs, OneHandler, BlockedInOnePlace, Inside, Handing, Blocked,
               RequestTerminate, CancelWait, guestVars, waitVars, callVars
    <2> QED BY <2>1, <2>2, <2>3, <2>4, <2>5, <2>6, <2>7
<1>16. ASSUME NEW t \in Threads, Exit(t) PROVE Inv'
    <2>1. TypeOK'
        BY <1>0, <1>16, ThreadAssumption
           DEF TypeOK, PCs, Exit, guestVars, waitVars, callVars
    <2>2. OneHandler'
        BY <1>16, ThreadAssumption
           DEF TypeOK, OneHandler, Inside, Exit, guestVars, waitVars, callVars
    <2>3. HolderIsNamed'
        BY <1>16, ThreadAssumption
           DEF TypeOK, HolderIsNamed, Releasing, Exit, guestVars, waitVars, callVars
    <2>4. WaitersAreNamed'
        BY <1>16, ThreadAssumption
           DEF TypeOK, OneHandler, HolderIsNamed, WaitersAreNamed, ReadIsCurrent, Inside,
               Handing, Releasing, Exit, guestVars, waitVars, callVars
    <2>5. ReadIsCurrent'
        BY <1>16, ThreadAssumption
           DEF TypeOK, OneHandler, HolderIsNamed, ReadIsCurrent, Inside, Releasing, Exit,
               guestVars, waitVars, callVars
    <2>6. KeyIsSet'
        BY <1>16, ThreadAssumption
           DEF TypeOK, OneHandler, KeyIsSet, Inside, Exit, guestVars, waitVars, callVars
    <2>7. BlockedInOnePlace'
        BY <1>16, ThreadAssumption
           DEF TypeOK, PCs, OneHandler, BlockedInOnePlace, Inside, Handing, Blocked, Exit,
               guestVars, waitVars, callVars
    <2> QED BY <2>1, <2>2, <2>3, <2>4, <2>5, <2>6, <2>7
<1>17. ASSUME NEW t \in Threads, CloseHandle(t) PROVE Inv'
    <2>1. TypeOK'
        BY <1>0, <1>17, ThreadAssumption
           DEF TypeOK, PCs, CloseHandle, guestVars, waitVars, callVars
    <2>2. OneHandler'
        BY <1>17, ThreadAssumption
           DEF TypeOK, OneHandler, Inside, CloseHandle, guestVars, waitVars, callVars
    <2>3. HolderIsNamed'
        BY <1>17, ThreadAssumption
           DEF TypeOK, HolderIsNamed, Releasing, CloseHandle, guestVars, waitVars, callVars
    <2>4. WaitersAreNamed'
        BY <1>17, ThreadAssumption
           DEF TypeOK, OneHandler, HolderIsNamed, WaitersAreNamed, ReadIsCurrent, Inside,
               Handing, Releasing, CloseHandle, guestVars, waitVars, callVars
    <2>5. ReadIsCurrent'
        BY <1>17, ThreadAssumption
           DEF TypeOK, OneHandler, HolderIsNamed, ReadIsCurrent, Inside, Releasing,
               CloseHandle, guestVars, waitVars, callVars
    <2>6. KeyIsSet'
        BY <1>17, ThreadAssumption
           DEF TypeOK, OneHandler, KeyIsSet, Inside, CloseHandle, guestVars, waitVars,
               callVars
    <2>7. BlockedInOnePlace'
        BY <1>17, ThreadAssumption
           DEF TypeOK, PCs, OneHandler, BlockedInOnePlace, Inside, Handing, Blocked,
               CloseHandle, guestVars, waitVars, callVars
    <2> QED BY <2>1, <2>2, <2>3, <2>4, <2>5, <2>6, <2>7
<1>18. ASSUME NEW t \in Threads, Finalize(t) PROVE Inv'
    <2>1. TypeOK'
        BY <1>0, <1>18, ThreadAssumption
           DEF TypeOK, PCs, Finalize, WaitersOf, guestVars, callVars
    <2>2. OneHandler'
        BY <1>18, ThreadAssumption
           DEF TypeOK, OneHandler, Inside, Finalize, WaitersOf, guestVars, callVars
    <2>3. HolderIsNamed'
        BY <1>18, ThreadAssumption
           DEF TypeOK, HolderIsNamed, Releasing, Finalize, WaitersOf, guestVars, callVars
    <2>4. WaitersAreNamed'
        BY <1>18, ThreadAssumption
           DEF TypeOK, OneHandler, HolderIsNamed, WaitersAreNamed, ReadIsCurrent, Inside,
               Handing, Releasing, Finalize, WaitersOf, guestVars, callVars
    <2>5. ReadIsCurrent'
        BY <1>18, ThreadAssumption
           DEF TypeOK, OneHandler, HolderIsNamed, ReadIsCurrent, Inside, Releasing,
               Finalize, WaitersOf, guestVars, callVars
    <2>6. KeyIsSet'
        BY <1>18, ThreadAssumption
           DEF TypeOK, OneHandler, KeyIsSet, Inside, Finalize, WaitersOf, guestVars,
               callVars
    <2>7. BlockedInOnePlace'
        BY <1>18, ThreadAssumption
           DEF TypeOK, PCs, OneHandler, BlockedInOnePlace, Inside, Handing, Blocked,
               Finalize, WaitersOf, guestVars, callVars
    <2> QED BY <2>1, <2>2, <2>3, <2>4, <2>5, <2>6, <2>7
<1>19. CASE UNCHANGED vars
    BY <1>19 DEF vars, guestVars, waitVars, callVars, TypeOK, OneHandler, HolderIsNamed,
           WaitersAreNamed, ReadIsCurrent, KeyIsSet, BlockedInOnePlace
<1> QED
    BY <1>1, <1>2, <1>3, <1>4, <1>5, <1>6, <1>7, <1>8, <1>9, <1>10, <1>11, <1>12, <1>13, <1>14, <1>15, <1>16, <1>17, <1>18, <1>19
       DEF Next, Guest, Begin, Continue, End

\* A blocked thread can always be woken: it is in m_tree or it has an owner, not both,
\* also after timeouts, terminations and the end of its owner.
THEOREM BlockedIsKeptAlways == Spec => []BlockedIsKept
<1>1. Inv => BlockedIsKept
    BY ThreadAssumption DEF Inv, TypeOK, BlockedInOnePlace, BlockedIsKept, Blocked
<1> QED BY <1>1, InvInit, InvStep, PTL DEF Spec

\* Two threads never have the guest mutex at once, whatever the interleaving of guest
\* code, system calls, timeouts, terminations and destructions.
THEOREM MutualExclusionAlways == Spec => []MutualExclusion
<1>1. Inv => MutualExclusion
    BY  DEF Inv, HolderIsNamed, MutualExclusion
<1> QED BY <1>1, InvInit, InvStep, PTL DEF Spec

\* No waiter is left behind: its owner is the thread in the word, which has the wait bit,
\* so that the owner's unlock calls SignalToAddress.
THEOREM WaiterIsTaggedAlways == Spec => []WaiterIsTagged
<1>1. Inv => WaiterIsTagged
    BY  DEF Inv, WaitersAreNamed, WaiterIsTagged
<1> QED BY <1>1, InvInit, InvStep, PTL DEF Spec

\* A condition variable with waiters is never shown as free of them.
THEOREM KeyShowsWaitersAlways == Spec => []KeyShowsWaiters
<1>1. Inv => KeyShowsWaiters
    BY  DEF Inv, KeyIsSet, KeyShowsWaiters
<1> QED BY <1>1, InvInit, InvStep, PTL DEF Spec

\* Every reachable state is well typed, and the word is 0 when it names no owner.
THEOREM TypeCorrect == Spec => []TypeOK
<1>1. Inv => TypeOK
    BY  DEF Inv
<1> QED BY <1>1, InvInit, InvStep, PTL DEF Spec

=============================================================================
