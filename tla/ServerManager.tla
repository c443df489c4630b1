----------------------------- MODULE ServerManager -----------------------------
(***************************************************************************)
(* Service::ServerManager: the host threads that serve a named port and    *)
(* its sessions, the requests a service defers, and the destructor that    *)
(* stops it all, composed with the kernel objects of KSession.             *)
(***************************************************************************)
EXTENDS KSession

VARIABLES
    stopRequested,  \* m_stop_source
    serveMutex,     \* who holds m_serve_mutex
    portTracked,    \* the port is in m_ports
    tracked,        \* m_sessions
    deferrals,      \* m_deferrals
    event,          \* m_event is signaled
    deferralEvent,  \* m_deferral_event is signaled
    spc,            \* where a server thread is
    gathered,       \* the sessions of its wait_objs
    waitObj,        \* its wait_obj
    serving,        \* the session it works on
    closeAfter,     \* service_rc is ResultSessionClosed
    drained,        \* the local list of OnDeferralEvent
    dpc,            \* where the destructor is
    dsession        \* the session it is closing

managerVars == <<stopRequested, serveMutex, portTracked, tracked, deferrals, event, deferralEvent>>
serverVars == <<spc, gathered, waitObj, serving, closeAfter, drained>>
destructorVars == <<dpc, dsession>>
vars == <<kernelVars, managerVars, serverVars, destructorVars>>

\* ManageNamedPort has run, and the threads enter LoopProcess.  A manager that RunServer
\* drops because the kernel is shutting down never gets here.
Init ==
    /\ KernelInit
    /\ stopRequested = FALSE
    /\ serveMutex = None
    /\ portTracked = TRUE
    /\ tracked = {}
    /\ deferrals = <<>>
    /\ event = FALSE
    /\ deferralEvent = FALSE
    /\ spc = [v \in Servers |-> "loop"]
    /\ gathered = [v \in Servers |-> {}]
    /\ waitObj = [v \in Servers |-> None]
    /\ serving = [v \in Servers |-> None]
    /\ closeAfter = [v \in Servers |-> FALSE]
    /\ drained = [v \in Servers |-> <<>>]
    /\ dpc = "none"
    /\ dsession = None

Goto(v, label) == spc' = [spc EXCEPT ![v] = label]

(***************************************************************************)
(* WaitAndProcessImpl.                                                     *)
(***************************************************************************)

\* LoopProcessImpl's condition, when it ends the loop.
LoopEnds(v) ==
    /\ spc[v] = "loop"
    /\ stopRequested
    /\ Goto(v, "exited")
    /\ UNCHANGED <<kernelVars, managerVars, gathered, waitObj, serving, closeAfter, drained,
                   destructorVars>>

\* Otherwise m_serve_mutex is taken.  (A thread that waits for it when the stop is
\* requested goes through WaitAndProcessImpl once more, which then does nothing.)
LockServe(v) ==
    /\ spc[v] = "loop"
    /\ ~stopRequested
    /\ serveMutex = None
    /\ serveMutex' = v
    /\ Goto(v, "gather")
    /\ UNCHANGED <<kernelVars, stopRequested, portTracked, tracked, deferrals, event, deferralEvent,
                   gathered, waitObj, serving, closeAfter, drained, destructorVars>>

\* Stopped before it waits.
ReturnStopped(v) ==
    /\ spc[v] = "gather"
    /\ stopRequested
    /\ serveMutex' = None
    /\ Goto(v, "loop")
    /\ UNCHANGED <<kernelVars, stopRequested, portTracked, tracked, deferrals, event, deferralEvent,
                   gathered, waitObj, serving, closeAfter, drained, destructorVars>>

\* The list of wait objects, each opened, is built under m_list_mutex.  The references
\* to the port and the events are not counted: they outlive the threads.
Gather(v) ==
    /\ spc[v] = "gather"
    /\ ~stopRequested
    /\ gathered' = [gathered EXCEPT ![v] =
           tracked \cup (IF portTracked THEN {"port"} ELSE {}) \cup {"deferral", "event"}]
    /\ serverRefs' = [s \in Sessions |-> serverRefs[s] + (IF s \in tracked THEN 1 ELSE 0)]
    /\ Goto(v, "wait")
    /\ UNCHANGED <<portVars, sessionRefs, clientRefs, handle, endVars, requestVars, clientVars,
                   waitVars, managerVars, waitObj, serving, closeAfter, drained, destructorVars>>

IsSignaled(o) ==
    \/ o = "port" /\ sessionList # <<>>
    \/ o = "deferral" /\ deferralEvent
    \/ o = "event" /\ event
    \/ o \in Sessions /\ SessionSignaled(state[o], requestList[o], current[o])

\* KSynchronizationObject::Wait takes the first signaled object in the order of the
\* list: the port, the sessions (in the order of their addresses, any order here), the
\* deferral event, m_event.
FirstSignaled(v) ==
    LET signaled == {o \in gathered[v] : IsSignaled(o)} IN
    IF "port" \in signaled THEN {"port"}
    ELSE IF signaled \cap Sessions # {} THEN signaled \cap Sessions
    ELSE IF "deferral" \in signaled THEN {"deferral"}
    ELSE signaled

\* The wait ends at once ...
WaitImmediate(v) ==
    /\ spc[v] = "wait"
    /\ \E o \in FirstSignaled(v) : wokenBy' = [wokenBy EXCEPT ![v] = o]
    /\ waitResult' = [waitResult EXCEPT ![v] = "Success"]
    /\ Goto(v, "blocked")
    /\ UNCHANGED <<portVars, refVars, endVars, requestVars, clientVars, waitSet, managerVars,
                   gathered, waitObj, serving, closeAfter, drained, destructorVars>>

\* ... or the thread blocks until an object notifies it.
WaitBlock(v) ==
    /\ spc[v] = "wait"
    /\ FirstSignaled(v) = {}
    /\ waitSet' = [waitSet EXCEPT ![v] = gathered[v]]
    /\ Goto(v, "blocked")
    /\ UNCHANGED <<portVars, refVars, endVars, requestVars, clientVars, wokenBy, waitResult,
                   managerVars, gathered, waitObj, serving, closeAfter, drained, destructorVars>>

\* The references of wait_objs are closed, but for those to keep.  The wait and its
\* result are over.
CloseWaitObjs(v, keep) ==
    /\ DropServerRefs((gathered[v] \cap Sessions) \ keep)
    /\ gathered' = [gathered EXCEPT ![v] = {}]
    /\ wokenBy' = [wokenBy EXCEPT ![v] = None]
    /\ waitResult' = [waitResult EXCEPT ![v] = "Success"]
    /\ UNCHANGED <<portVars, sessionRefs, clientRefs, handle, state, lock, requestVars, clientVars,
                   waitSet>>

\* The wait is over: the references of the list are closed, except that wait_obj keeps
\* the object o that ended it.
Woken(v, o) ==
    /\ spc[v] = "blocked"
    /\ waitSet[v] = {}
    /\ wokenBy[v] = o
    /\ waitResult[v] = "Success"
    /\ CloseWaitObjs(v, {o})
    /\ waitObj' = [waitObj EXCEPT ![v] = o]

\* The wait failed, because the client closed a session meanwhile: R_TRY leaves
\* WaitAndProcessImpl and then LoopProcessImpl.
WaitFailed(v) ==
    /\ spc[v] = "blocked"
    /\ waitSet[v] = {}
    /\ waitResult[v] # "Success"
    /\ CloseWaitObjs(v, {})
    /\ serveMutex' = None
    /\ Goto(v, "exited")
    /\ UNCHANGED <<stopRequested, portTracked, tracked, deferrals, event, deferralEvent, waitObj,
                   serving, closeAfter, drained, destructorVars>>

\* Mutant: the port stays tracked while it is served.
TakePortTracked(v) ==
    /\ Woken(v, "port")
    /\ serveMutex' = None
    /\ Goto(v, "accept")
    /\ UNCHANGED <<stopRequested, portTracked, tracked, deferrals, event, deferralEvent, serving,
                   closeAfter, drained, destructorVars>>

\* It leaves the tracking lists, and the mutex is released.
TakePort(v) ==
    /\ Woken(v, "port")
    /\ portTracked' = FALSE
    /\ serveMutex' = None
    /\ Goto(v, "accept")
    /\ UNCHANGED <<stopRequested, tracked, deferrals, event, deferralEvent, serving, closeAfter,
                   drained, destructorVars>>

\* Mutant: the session stays tracked while it is served.
TakeSessionTracked(v) ==
    /\ \E s \in Sessions :
       /\ Woken(v, s)
       /\ serving' = [serving EXCEPT ![v] = s]
    /\ serveMutex' = None
    /\ Goto(v, "receive")
    /\ UNCHANGED <<stopRequested, portTracked, tracked, deferrals, event, deferralEvent, closeAfter,
                   drained, destructorVars>>

TakeSession(v) ==
    /\ \E s \in Sessions :
       /\ Woken(v, s)
       /\ tracked' = tracked \ {s}
       /\ serving' = [serving EXCEPT ![v] = s]
    /\ serveMutex' = None
    /\ Goto(v, "receive")
    /\ UNCHANGED <<stopRequested, portTracked, deferrals, event, deferralEvent, closeAfter, drained,
                   destructorVars>>

TakeEvent(v) ==
    /\ Woken(v, "event")
    /\ event' = FALSE
    /\ serveMutex' = None
    /\ Goto(v, "leave")
    /\ UNCHANGED <<stopRequested, portTracked, tracked, deferrals, deferralEvent, serving,
                   closeAfter, drained, destructorVars>>

\* The deferral event is cleared before the list is drained.
ClearDeferral(v) ==
    /\ Woken(v, "deferral")
    /\ deferralEvent' = FALSE
    /\ Goto(v, "drain")
    /\ UNCHANGED <<stopRequested, serveMutex, portTracked, tracked, deferrals, event, serving,
                   closeAfter, drained, destructorVars>>

DrainDeferrals(v) ==
    /\ spc[v] = "drain"
    /\ drained' = [drained EXCEPT ![v] = deferrals]
    /\ deferrals' = <<>>
    /\ serveMutex' = None
    /\ Goto(v, "deferred")
    /\ UNCHANGED <<kernelVars, stopRequested, portTracked, tracked, event, deferralEvent, gathered,
                   waitObj, serving, closeAfter, destructorVars>>

(***************************************************************************)
(* OnPortEvent, OnSessionEvent, OnDeferralEvent and CompleteSyncRequest.   *)
(***************************************************************************)

\* Where a thread goes on once it is done with a session: the next deferred request, or
\* the end of WaitAndProcessImpl.
AfterSession(v) == IF waitObj[v] = "deferral" THEN "deferred" ELSE "leave"

Accept(v) ==
    /\ spc[v] = "accept"
    /\ \E s \in Sessions : AcceptSession(s) /\ serving' = [serving EXCEPT ![v] = s]
    /\ Goto(v, "track")
    /\ UNCHANGED <<managerVars, gathered, waitObj, closeAfter, drained, destructorVars>>

\* The port and the new session are tracked.
TrackPort(v) ==
    /\ spc[v] = "track"
    /\ portTracked' = TRUE
    /\ tracked' = tracked \cup {serving[v]}
    /\ serving' = [serving EXCEPT ![v] = None]
    /\ Goto(v, "signal")
    /\ UNCHANGED <<kernelVars, stopRequested, serveMutex, deferrals, event, deferralEvent, gathered,
                   waitObj, closeAfter, drained, destructorVars>>

\* m_event->Signal().
SignalEvent(v) ==
    /\ spc[v] = "signal"
    /\ event' = TRUE
    /\ Notify("event", "Success", TRUE)
    /\ Goto(v, AfterSession(v))
    /\ UNCHANGED <<portVars, refVars, endVars, requestVars, clientVars, stopRequested, serveMutex,
                   portTracked, tracked, deferrals, deferralEvent, gathered, waitObj, serving,
                   closeAfter, drained, destructorVars>>

\* OnSessionEvent receives a request, or finds the session closed.
Receive(v) ==
    /\ spc[v] = "receive"
    /\ \/ ReceiveClosed(serving[v]) /\ Goto(v, "close")
       \/ ReceiveRequest(v, serving[v]) /\ Goto(v, "received")
    /\ UNCHANGED <<managerVars, gathered, waitObj, serving, closeAfter, drained, destructorVars>>

Received(v) ==
    /\ spc[v] = "received"
    /\ SetCurrent(v, serving[v])
    /\ Goto(v, "complete")
    /\ UNCHANGED <<managerVars, gathered, waitObj, serving, closeAfter, drained, destructorVars>>

\* The service defers the request: it is kept, with its session, until the deferral event.
Defer(v) ==
    /\ spc[v] = "complete"
    /\ deferrals' = Append(deferrals, serving[v])
    /\ serving' = [serving EXCEPT ![v] = None]
    /\ Goto(v, AfterSession(v))
    /\ UNCHANGED <<kernelVars, stopRequested, serveMutex, portTracked, tracked, event, deferralEvent,
                   gathered, waitObj, closeAfter, drained, destructorVars>>

\* The service completes the request, and the reply is sent; after a Close command the
\* session is to be closed.
Reply(v) ==
    /\ spc[v] = "complete"
    /\ \E b \in BOOLEAN : closeAfter' = [closeAfter EXCEPT ![v] = b]
    /\ SendReply(v, serving[v])
    /\ Goto(v, "endReply")
    /\ UNCHANGED <<managerVars, gathered, waitObj, serving, drained, destructorVars>>

Replied(v) ==
    /\ spc[v] = "endReply"
    /\ EndReply(v, serving[v])
    /\ closeAfter' = [closeAfter EXCEPT ![v] = FALSE]
    /\ Goto(v, IF closeAfter[v] THEN "close" ELSE "reinsert")
    /\ UNCHANGED <<managerVars, gathered, waitObj, serving, drained, destructorVars>>

\* Mutant: m_event is not signaled after the session is reinserted.
ReinsertSilently(v) ==
    /\ spc[v] = "reinsert"
    /\ tracked' = tracked \cup {serving[v]}
    /\ serving' = [serving EXCEPT ![v] = None]
    /\ Goto(v, AfterSession(v))
    /\ UNCHANGED <<kernelVars, stopRequested, serveMutex, portTracked, deferrals, event,
                   deferralEvent, gathered, waitObj, closeAfter, drained, destructorVars>>

Reinsert(v) ==
    /\ spc[v] = "reinsert"
    /\ tracked' = tracked \cup {serving[v]}
    /\ serving' = [serving EXCEPT ![v] = None]
    /\ Goto(v, "signal")
    /\ UNCHANGED <<kernelVars, stopRequested, serveMutex, portTracked, deferrals, event,
                   deferralEvent, gathered, waitObj, closeAfter, drained, destructorVars>>

\* The session is closed; the thread that drops the last reference destroys it.
CloseSession(v) ==
    /\ spc[v] = "close"
    /\ DropServer({serving[v]})
    /\ \/ /\ serverRefs[serving[v]] = 1
          /\ Goto(v, "closing")
          /\ UNCHANGED serving
       \/ /\ serverRefs[serving[v]] # 1
          /\ Goto(v, AfterSession(v))
          /\ serving' = [serving EXCEPT ![v] = None]
    /\ UNCHANGED <<managerVars, gathered, waitObj, closeAfter, drained, destructorVars>>

CloseDone(v) ==
    /\ spc[v] = "closing"
    /\ end[serving[v]]["server"] = "closed"
    /\ serving' = [serving EXCEPT ![v] = None]
    /\ Goto(v, AfterSession(v))
    /\ UNCHANGED <<kernelVars, managerVars, gathered, waitObj, closeAfter, drained, destructorVars>>

NextDeferral(v) ==
    /\ spc[v] = "deferred"
    /\ \/ /\ drained[v] = <<>>
          /\ Goto(v, "leave")
          /\ UNCHANGED <<serving, drained>>
       \/ /\ drained[v] # <<>>
          /\ serving' = [serving EXCEPT ![v] = Head(drained[v])]
          /\ drained' = [drained EXCEPT ![v] = Tail(@)]
          /\ Goto(v, "complete")
    /\ UNCHANGED <<kernelVars, managerVars, gathered, waitObj, closeAfter, destructorVars>>

\* wait_obj goes out of scope.
Leave(v) ==
    /\ spc[v] = "leave"
    /\ DropServer({waitObj[v]} \cap Sessions)
    /\ \/ /\ waitObj[v] \in Sessions
          /\ serverRefs[waitObj[v]] = 1
          /\ Goto(v, "leaving")
          /\ UNCHANGED waitObj
       \/ /\ waitObj[v] \in Sessions => serverRefs[waitObj[v]] # 1
          /\ Goto(v, "loop")
          /\ waitObj' = [waitObj EXCEPT ![v] = None]
    /\ UNCHANGED <<managerVars, gathered, serving, closeAfter, drained, destructorVars>>

LeaveDone(v) ==
    /\ spc[v] = "leaving"
    /\ end[waitObj[v]]["server"] = "closed"
    /\ waitObj' = [waitObj EXCEPT ![v] = None]
    /\ Goto(v, "loop")
    /\ UNCHANGED <<kernelVars, managerVars, gathered, serving, closeAfter, drained, destructorVars>>

ServerStep(v) ==
    \/ LoopEnds(v) \/ LockServe(v) \/ ReturnStopped(v) \/ Gather(v)
    \/ WaitImmediate(v) \/ WaitBlock(v) \/ WaitFailed(v)
    \/ TakePort(v) \/ TakeSession(v) \/ ClearDeferral(v) \/ DrainDeferrals(v) \/ TakeEvent(v)
    \/ Accept(v) \/ TrackPort(v) \/ SignalEvent(v) \/ Receive(v) \/ Received(v)
    \/ Defer(v) \/ Reply(v) \/ Replied(v) \/ Reinsert(v)
    \/ CloseSession(v) \/ CloseDone(v) \/ NextDeferral(v) \/ Leave(v) \/ LeaveDone(v)

(***************************************************************************)
(* The destructor, and the service manager that signals the deferral event *)
(* when a service is registered.                                           *)
(***************************************************************************)

\* ServiceManager::RegisterService signals the deferral event.
SignalDeferral ==
    /\ ~deferralEvent
    /\ dpc # "done"
    /\ deferralEvent' = TRUE
    /\ Notify("deferral", "Success", TRUE)
    /\ UNCHANGED <<portVars, refVars, endVars, requestVars, clientVars, stopRequested, serveMutex,
                   portTracked, tracked, deferrals, event, serverVars, destructorVars>>

RequestStop ==
    /\ dpc = "none"
    /\ stopRequested' = TRUE
    /\ dpc' = "signal"
    /\ UNCHANGED <<kernelVars, serveMutex, portTracked, tracked, deferrals, event, deferralEvent,
                   serverVars, dsession>>

\* Mutant: m_event is not signaled for the stop.
StopSilently ==
    /\ dpc = "signal"
    /\ dpc' = "join"
    /\ UNCHANGED <<kernelVars, managerVars, serverVars, dsession>>

StopSignal ==
    /\ dpc = "signal"
    /\ event' = TRUE
    /\ Notify("event", "Success", TRUE)
    /\ dpc' = "join"
    /\ UNCHANGED <<portVars, refVars, endVars, requestVars, clientVars, stopRequested, serveMutex,
                   portTracked, tracked, deferrals, deferralEvent, serverVars, dsession>>

\* m_stopped and the other threads are waited for; then the port is closed, which is the
\* last reference to the server port: KServerPort::Destroy tells KPort ...
ClosePort ==
    /\ dpc = "join"
    /\ \A v \in Servers : spc[v] = "exited"
    /\ portClosed' = (portClosed \/ portTracked)
    /\ dpc' = IF portTracked THEN "cleanupPort" ELSE "sessions"
    /\ UNCHANGED <<sessionList, numSessions, reserved, refVars, endVars, requestVars, clientVars,
                   waitVars, managerVars, serverVars, dsession>>

\* The destructor's thread has destroyed the session it closed.
Idle == dsession # None => end[dsession]["server"] = "closed"

\* ... and closes the sessions nobody accepted (KServerPort::CleanupSessions).
CleanupSession ==
    /\ dpc = "cleanupPort"
    /\ Idle
    /\ sessionList # <<>>
    /\ LET s == Head(sessionList) IN
       /\ serverRefs' = [serverRefs EXCEPT ![s] = @ - 1]
       /\ end' = [end EXCEPT ![s]["server"] = IF serverRefs[s] = 1 THEN "destroy" ELSE @]
       /\ dsession' = IF serverRefs[s] = 1 THEN s ELSE None
    /\ sessionList' = Tail(sessionList)
    /\ UNCHANGED <<portClosed, numSessions, reserved, sessionRefs, clientRefs, handle, state, lock,
                   requestVars, clientVars, waitVars, managerVars, serverVars, dpc>>

CleanupSessionsDone ==
    /\ dpc = "cleanupPort"
    /\ Idle
    /\ sessionList = <<>>
    /\ dpc' = "sessions"
    /\ dsession' = None
    /\ UNCHANGED <<kernelVars, managerVars, serverVars>>

\* The tracked sessions are closed, then those of deferred requests.
CloseTracked ==
    /\ dpc = "sessions"
    /\ Idle
    /\ \E s \in tracked :
       /\ DropServer({s})
       /\ tracked' = tracked \ {s}
       /\ dsession' = IF serverRefs[s] = 1 THEN s ELSE None
    /\ UNCHANGED <<stopRequested, serveMutex, portTracked, deferrals, event, deferralEvent,
                   serverVars, dpc>>

CloseDeferred ==
    /\ dpc = "sessions"
    /\ Idle
    /\ tracked = {}
    /\ deferrals # <<>>
    /\ DropServer({Head(deferrals)})
    /\ deferrals' = Tail(deferrals)
    /\ dsession' = IF serverRefs[Head(deferrals)] = 1 THEN Head(deferrals) ELSE None
    /\ UNCHANGED <<stopRequested, serveMutex, portTracked, tracked, event, deferralEvent, serverVars,
                   dpc>>

DestructorDone ==
    /\ dpc = "sessions"
    /\ Idle
    /\ tracked = {}
    /\ deferrals = <<>>
    /\ dpc' = "done"
    /\ dsession' = None
    /\ UNCHANGED <<kernelVars, managerVars, serverVars>>

Destructor ==
    \/ StopSignal \/ ClosePort \/ CleanupSession \/ CleanupSessionsDone
    \/ CloseTracked \/ CloseDeferred \/ DestructorDone

(***************************************************************************)
(* The composition.                                                        *)
(***************************************************************************)

\* What a client thread decides to do.
ClientCall(c) ==
    \/ CreateSession(c)
    \/ \E s \in Sessions : SendSyncRequest(c, s) \/ CloseHandle(c, s)

\* What it does once it is in a call.
ClientStep(c) ==
    \/ CountSession(c) \/ CreateFails(c)
    \/ EnqueueSession(c) \/ EnqueueFails(c) \/ UndoServer(c)
    \/ OnRequestFails(c) \/ OnRequest(c) \/ ReturnRequest(c) \/ ClientDone(c)

Kernel(A) == A /\ UNCHANGED <<managerVars, serverVars, destructorVars>>

Next ==
    \/ \E c \in Clients : Kernel(ClientCall(c) \/ ClientStep(c) \/ RequestTerminate(c))
    \/ \E s \in Sessions : Kernel(Destruction(s))
    \/ \E v \in Servers : ServerStep(v)
    \/ SignalDeferral \/ RequestStop \/ Destructor

Spec == Init /\ [][Next]_vars

(***************************************************************************)
(* Properties.                                                             *)
(***************************************************************************)

States == {"Invalid", "Normal", "ClientClosed", "ServerClosed"}

EndLabels == {"none", "open", "destroy", "setState", "current", "sweep", "cleanup", "closeParent",
              "finalize", "closed"}

ClientLabels == {"idle", "count", "enqueue", "undo", "undone", "send", "blocked", "return",
                 "closing"}

ServerLabels == {"loop", "gather", "wait", "blocked", "accept", "track", "signal", "receive",
                 "received", "complete", "endReply", "reinsert", "close", "closing", "drain",
                 "deferred", "leave", "leaving", "exited"}

\* Every variable has its type.
TypeOK ==
    /\ portClosed \in BOOLEAN
    /\ sessionList \in Seq(Sessions)
    /\ numSessions \in Nat
    /\ reserved \in Nat
    /\ state \in [Sessions -> States]
    /\ sessionRefs \in [Sessions -> Nat]
    /\ clientRefs \in [Sessions -> Nat]
    /\ serverRefs \in [Sessions -> Nat]
    /\ handle \in [Sessions -> BOOLEAN]
    /\ end \in [Sessions -> [Ends -> EndLabels]]
    /\ lock \in [Sessions -> Servers \cup Ends \cup {None}]
    /\ requestList \in [Sessions -> Seq(Clients)]
    /\ current \in [Sessions -> Clients \cup {None}]
    /\ inHand \in [Sessions -> Clients \cup {None}]
    /\ requestRefs \in [Clients -> Nat]
    /\ requestThread \in [Clients -> BOOLEAN]
    /\ cpc \in [Clients -> ClientLabels]
    /\ csession \in [Clients -> Sessions \cup {None}]
    /\ cresult \in [Clients -> {"Success", "SessionClosed", "TerminationRequested"}]
    /\ terminating \in [Clients -> BOOLEAN]
    /\ waitSet \in [Servers -> SUBSET Objects]
    /\ wokenBy \in [Servers -> Objects \cup {None}]
    /\ waitResult \in [Servers -> {"Success", "SessionClosed"}]
    /\ stopRequested \in BOOLEAN
    /\ serveMutex \in Servers \cup {None}
    /\ portTracked \in BOOLEAN
    /\ tracked \in SUBSET Sessions
    /\ deferrals \in Seq(Sessions)
    /\ event \in BOOLEAN
    /\ deferralEvent \in BOOLEAN
    /\ spc \in [Servers -> ServerLabels]
    /\ gathered \in [Servers -> SUBSET Objects]
    /\ waitObj \in [Servers -> Objects \cup {None}]
    /\ serving \in [Servers -> Sessions \cup {None}]
    /\ closeAfter \in [Servers -> BOOLEAN]
    /\ drained \in [Servers -> Seq(Sessions)]
    /\ dpc \in {"none", "signal", "join", "cleanupPort", "sessions", "done"}
    /\ dsession \in Sessions \cup {None}

\* Where on the server's side the request of client c is, in session s.
Places(c, s) ==
    {<<"list", s, i>> : i \in {j \in DOMAIN requestList[s] : requestList[s][j] = c}}
    \cup {p \in {<<"current", s, 0>>} : current[s] = c}
    \cup {p \in {<<"inHand", s, 0>>} : inHand[s] = c}

\* The reference count of a request (KSessionRequest, created at k_client_session.cpp:27
\* and opened at k_server_session.cpp:167) is the number of its holders: the call that
\* made it, and the one place of one session where the server's side keeps it.  So it is
\* freed exactly when the last of them lets go of it, whoever that is: the client, a
\* reply, the client closing the session or the server closing it.
RequestsCounted ==
    \A c \in Clients :
        LET places == UNION {Places(c, s) : s \in Sessions} IN
        /\ requestRefs[c] =
               Cardinality(places) + (IF cpc[c] \in {"send", "blocked", "return"} THEN 1 ELSE 0)
        /\ Cardinality(places) <= 1

\* A client thread that waits for a reply (OnRequest, k_server_session.cpp:180) is not
\* forgotten: its request is queued, current or in the hands of whoever holds m_lock, in
\* its own session, whose server end has not got past CleanupRequests.  The test of the
\* state in OnRequest and its being set in OnServerClosed (k_session.cpp:58) are not under
\* a common lock.
BlockedRequestIsHeld ==
    \A c \in Clients : cpc[c] = "blocked" =>
        /\ Places(c, csession[c]) # {}
        /\ end[csession[c]]["server"] \in {"open", "destroy", "setState", "cleanup"}

\* Who owns server session s: it is being created, waits to be accepted, is tracked, is
\* deferred, or a thread works on it.
Owners(s) ==
    {<<"creator", c, 0>> : c \in {d \in Clients : csession[d] = s /\ cpc[d] \in {"enqueue", "undo"}}}
    \cup {<<"port", None, i>> : i \in {j \in DOMAIN sessionList : sessionList[j] = s}}
    \cup {<<"tracked", None, 0>> : x \in tracked \cap {s}}
    \cup {<<"deferred", None, i>> : i \in {j \in DOMAIN deferrals : deferrals[j] = s}}
    \cup (UNION {{<<"drained", v, i>> : i \in {j \in DOMAIN drained[v] : drained[v][j] = s}}
                     : v \in Servers})
    \cup {<<"serving", v, 0>> : v \in {w \in Servers : serving[w] = s /\ spc[w] # "closing"}}

\* Who else has a reference to it: a thread that waits on it, or whose wait_obj it is.
Users(s) ==
    {v \in Servers : s \in gathered[v]}
    \cup {v \in Servers : waitObj[v] = s /\ spc[v] # "leaving"}

\* A server session has one owner until it is closed, and its reference count is that
\* owner plus the threads that use it: ServerManager hands it from list to thread to list
\* (server_manager.cpp:294, 345, 397, 421) and closes it once (366, 409, or the
\* destructor), however the threads interleave; it is destroyed when nobody has it.
ServerSessionOwned ==
    \A s \in Sessions :
        /\ serverRefs[s] = Cardinality(Owners(s)) + Cardinality(Users(s))
        /\ Cardinality(Owners(s)) <= 1
        /\ end[s]["server"] = "open" <=> serverRefs[s] > 0

\* m_num_sessions of the port is the number of its sessions that live, and never above
\* m_max_sessions (k_client_port.cpp:83); the resource limit counts those and the
\* creations under way.
Alive(s) == sessionRefs[s] > 0 \/ \E e \in Ends : end[s][e] = "finalize"

SessionsCounted ==
    /\ numSessions = Cardinality({s \in Sessions : Alive(s)})
    /\ numSessions <= MaxSessions
    /\ reserved = numSessions + Cardinality({c \in Clients : cpc[c] = "count"})

\* A thread that is blocked in Wait (server_manager.cpp:252) misses nothing.  Nothing it
\* waits on is signaled, unless a client is closing the session and has yet to notify;
\* and when the port or a session has been tracked since it built its list, the thread
\* that tracked it has yet to signal m_event.
NothingMissed ==
    \A v \in Servers : waitSet[v] # {} =>
        /\ \A o \in waitSet[v] : IsSignaled(o) =>
               o \in Sessions /\ end[o]["client"] \in {"current", "sweep"}
        /\ \/ tracked \subseteq waitSet[v] /\ (portTracked => "port" \in waitSet[v])
           \/ \E w \in Servers : spc[w] = "signal"

\* The ASSERTs of server_manager.cpp: what ended the wait is tracked (273, 292), there is
\* a session to accept (335), ReceiveRequest finds a request unless the session is closed
\* (371), and SendReply finds it current (415).
AssertionsHold ==
    \A v \in Servers :
        /\ wokenBy[v] = "port" => portTracked
        /\ wokenBy[v] \in Sessions => wokenBy[v] \in tracked
        /\ spc[v] = "accept" => sessionList # <<>>
        /\ spc[v] = "receive" =>
               LET s == serving[v] IN
               state[s] # "Normal" \/ (current[s] = None /\ requestList[s] # <<>>)
        /\ spc[v] = "complete" => current[serving[v]] # None

\* Something can go on without a new call, request or registration.
CanStep ==
    \/ \E c \in Clients : ENABLED Kernel(ClientStep(c))
    \/ \E s \in Sessions : ENABLED Kernel(Destruction(s))
    \/ \E v \in Servers : ENABLED ServerStep(v)
    \/ ENABLED Destructor

\* Once the stop is requested, the destructor (server_manager.cpp:38) is never stuck: the
\* threads it joins, the sessions it destroys and the locks these need do not wait for
\* each other in a circle, and none of them sleeps through the stop.  When it is done, no
\* client thread is left waiting for a reply, of a deferred request or any other.
StopNotStuck ==
    stopRequested =>
        IF dpc = "done" THEN \A c \in Clients : cpc[c] # "blocked" ELSE CanStep

=============================================================================
