------------------------------- MODULE KSession -------------------------------
(***************************************************************************)
(* Ports, sessions and requests: KPort with its two ends, KSession with    *)
(* its two ends, and KSessionRequest.  A step is one critical section of   *)
(* the scheduler lock or one atomic operation; KServerSession::m_lock is   *)
(* held over several.  Every request is synchronous (SendAsyncRequest is   *)
(* not implemented), so a request is named by the thread that sent it.     *)
(* The threads that serve a port are those of ServerManager; of them, this *)
(* module has what NotifyAvailable does to one that waits.                 *)
(***************************************************************************)
EXTENDS Naturals, Sequences, FiniteSets

CONSTANTS
    Clients,        \* threads of the client process
    Killable,       \* those that may be terminated
    Servers,        \* threads of the server
    Sessions,       \* the KSessions of the slab heap, each allocated at most once
    MaxSessions,    \* m_max_sessions of the client port
    SessionLimit    \* the limit of SessionCountMax

None == "none"

\* What a server thread waits for: the server port, the server sessions, and the
\* two events of its ServerManager.
Objects == {"port", "event", "deferral"} \cup Sessions

ASSUME SessionAssumption ==
    /\ MaxSessions \in Nat
    /\ SessionLimit \in Nat
    /\ None \notin Clients \cup Servers \cup Sessions
    /\ Sessions \cap {"port", "event", "deferral"} = {}
    /\ Servers \cap {"client", "server"} = {}
    /\ Killable \subseteq Clients
    /\ IsFiniteSet(Clients)

VARIABLES
    portClosed,     \* m_state of the port is ServerClosed, not Normal
    sessionList,    \* m_session_list of the server port
    numSessions,    \* m_num_sessions of the client port
    reserved,       \* the current value of SessionCountMax
    state,          \* m_atomic_state of a session
    sessionRefs,    \* m_ref_count of the KSession
    clientRefs,     \* m_ref_count of its KClientSession
    serverRefs,     \* m_ref_count of its KServerSession
    handle,         \* the client process has a handle to the client session
    end,            \* where the life of each end of a session is
    lock,           \* who holds m_lock of the server session
    requestList,    \* m_request_list
    current,        \* m_current_request
    inHand,         \* the request a destruction or a server thread has taken out
    requestRefs,    \* m_ref_count of a client's KSessionRequest
    requestThread,  \* m_thread of the request is set
    cpc,            \* where a client thread is
    csession,       \* the session it uses
    cresult,        \* the result of its last request
    terminating,    \* m_termination_requested of a client thread
    waitSet,        \* the objects a blocked server thread waits on
    wokenBy,        \* the object that ended its wait
    waitResult      \* and the result it was ended with

portVars == <<portClosed, sessionList, numSessions, reserved>>
refVars == <<sessionRefs, clientRefs, serverRefs, handle>>
endVars == <<state, end, lock>>
requestVars == <<requestList, current, inHand, requestRefs, requestThread>>
clientVars == <<cpc, csession, cresult, terminating>>
waitVars == <<waitSet, wokenBy, waitResult>>
kernelVars == <<portVars, refVars, endVars, requestVars, clientVars, waitVars>>

\* The two ends of a session.
Ends == {"client", "server"}

Free(s) == sessionRefs[s] = 0 /\ end[s]["client"] = "none"

KernelInit ==
    /\ portClosed = FALSE
    /\ sessionList = <<>>
    /\ numSessions = 0
    /\ reserved = 0
    /\ state = [s \in Sessions |-> "Invalid"]
    /\ sessionRefs = [s \in Sessions |-> 0]
    /\ clientRefs = [s \in Sessions |-> 0]
    /\ serverRefs = [s \in Sessions |-> 0]
    /\ handle = [s \in Sessions |-> FALSE]
    /\ end = [s \in Sessions |-> [e \in Ends |-> "none"]]
    /\ lock = [s \in Sessions |-> None]
    /\ requestList = [s \in Sessions |-> <<>>]
    /\ current = [s \in Sessions |-> None]
    /\ inHand = [s \in Sessions |-> None]
    /\ requestRefs = [c \in Clients |-> 0]
    /\ requestThread = [c \in Clients |-> TRUE]
    /\ cpc = [c \in Clients |-> "idle"]
    /\ csession = [c \in Clients |-> None]
    /\ cresult = [c \in Clients |-> "Success"]
    /\ terminating = [c \in Clients |-> FALSE]
    /\ waitSet = [v \in Servers |-> {}]
    /\ wokenBy = [v \in Servers |-> None]
    /\ waitResult = [v \in Servers |-> "Success"]

(***************************************************************************)
(* Waiting.                                                                *)
(***************************************************************************)

\* KServerSession::IsSignaled, for a given state, list and current request.
SessionSignaled(st, list, cur) == st # "Normal" \/ (list # <<>> /\ cur = None)

\* KSynchronizationObject::NotifyAvailable, if the object is signaled.
Notify(o, result, signaled) ==
    LET woken == {v \in Servers : signaled /\ o \in waitSet[v]} IN
    /\ waitSet' = [v \in Servers |-> IF v \in woken THEN {} ELSE waitSet[v]]
    /\ wokenBy' = [v \in Servers |-> IF v \in woken THEN o ELSE wokenBy[v]]
    /\ waitResult' = [v \in Servers |-> IF v \in woken THEN result ELSE waitResult[v]]

\* KThread::EndWait for the thread of a request.  A thread that is terminating is left
\* alone: its wait has been cancelled.
EndWait(c, result) ==
    IF requestThread[c] /\ ~terminating[c] /\ cpc[c] = "blocked"
    THEN /\ cpc' = [cpc EXCEPT ![c] = "return"]
         /\ cresult' = [cresult EXCEPT ![c] = result]
    ELSE UNCHANGED <<cpc, cresult>>

(***************************************************************************)
(* Connecting: KClientPort::CreateSession.                                 *)
(***************************************************************************)

\* A session is reserved from the resource limit.
CreateSession(c) ==
    /\ cpc[c] = "idle"
    /\ ~terminating[c]
    /\ reserved < SessionLimit
    /\ \E s \in Sessions : Free(s)
    /\ reserved' = reserved + 1
    /\ cpc' = [cpc EXCEPT ![c] = "count"]
    /\ UNCHANGED <<portClosed, sessionList, numSessions, csession, cresult, terminating, refVars,
                   endVars, requestVars, waitVars>>

\* Mutant: m_num_sessions is incremented without a look at m_max_sessions.
CountSessionUnchecked(c) ==
    /\ cpc[c] = "count"
    /\ numSessions' = numSessions + 1
    /\ \E s \in Sessions :
       /\ Free(s)
       /\ sessionRefs' = [sessionRefs EXCEPT ![s] = 2]
       /\ clientRefs' = [clientRefs EXCEPT ![s] = 1]
       /\ serverRefs' = [serverRefs EXCEPT ![s] = 1]
       /\ end' = [end EXCEPT ![s] = [e \in Ends |-> "open"]]
       /\ state' = [state EXCEPT ![s] = "Normal"]
       /\ csession' = [csession EXCEPT ![c] = s]
    /\ cpc' = [cpc EXCEPT ![c] = "enqueue"]
    /\ UNCHANGED <<portClosed, sessionList, reserved, handle, lock, cresult, terminating,
                   requestVars, waitVars>>

\* The loop around compare_exchange_weak on m_num_sessions; then KSession::Initialize
\* makes the two ends, each with a reference to the session, before anyone else sees it.
CountSession(c) ==
    /\ cpc[c] = "count"
    /\ numSessions < MaxSessions
    /\ numSessions' = numSessions + 1
    /\ \E s \in Sessions :
       /\ Free(s)
       /\ sessionRefs' = [sessionRefs EXCEPT ![s] = 2]
       /\ clientRefs' = [clientRefs EXCEPT ![s] = 1]
       /\ serverRefs' = [serverRefs EXCEPT ![s] = 1]
       /\ end' = [end EXCEPT ![s] = [e \in Ends |-> "open"]]
       /\ state' = [state EXCEPT ![s] = "Normal"]
       /\ csession' = [csession EXCEPT ![c] = s]
    /\ cpc' = [cpc EXCEPT ![c] = "enqueue"]
    /\ UNCHANGED <<portClosed, sessionList, reserved, handle, lock, cresult, terminating,
                   requestVars, waitVars>>

\* No session can be allocated, or the port has no room: the reservation is given back.
CreateFails(c) ==
    /\ cpc[c] = "count"
    /\ numSessions >= MaxSessions \/ \A s \in Sessions : ~Free(s)
    /\ reserved' = reserved - 1
    /\ cpc' = [cpc EXCEPT ![c] = "idle"]
    /\ UNCHANGED <<portClosed, sessionList, numSessions, csession, cresult, terminating, refVars,
                   endVars, requestVars, waitVars>>

\* KPort::EnqueueSession and KServerPort::EnqueueSession.  The client end becomes a
\* handle of the client process.
EnqueueSession(c) ==
    /\ cpc[c] = "enqueue"
    /\ ~portClosed
    /\ sessionList' = Append(sessionList, csession[c])
    /\ Notify("port", "Success", Len(sessionList') = 1)
    /\ handle' = [handle EXCEPT ![csession[c]] = TRUE]
    /\ cpc' = [cpc EXCEPT ![c] = "idle"]
    /\ csession' = [csession EXCEPT ![c] = None]
    /\ UNCHANGED <<portClosed, numSessions, reserved, sessionRefs, clientRefs, serverRefs, cresult,
                   terminating, endVars, requestVars>>

\* The port is closed: ON_RESULT_FAILURE closes the client end ...
EnqueueFails(c) ==
    /\ cpc[c] = "enqueue"
    /\ portClosed
    /\ clientRefs' = [clientRefs EXCEPT ![csession[c]] = 0]
    /\ end' = [end EXCEPT ![csession[c]]["client"] = "destroy"]
    /\ cpc' = [cpc EXCEPT ![c] = "undo"]
    /\ UNCHANGED <<portVars, sessionRefs, serverRefs, handle, state, lock, requestVars, csession,
                   cresult, terminating, waitVars>>

\* ... and then the server end.
UndoServer(c) ==
    /\ cpc[c] = "undo"
    /\ end[csession[c]]["client"] = "closed"
    /\ serverRefs' = [serverRefs EXCEPT ![csession[c]] = 0]
    /\ end' = [end EXCEPT ![csession[c]]["server"] = "destroy"]
    /\ cpc' = [cpc EXCEPT ![c] = "undone"]
    /\ UNCHANGED <<portVars, sessionRefs, clientRefs, handle, state, lock, requestVars, csession,
                   cresult, terminating, waitVars>>

(***************************************************************************)
(* The client session: requests, and closing it.                           *)
(***************************************************************************)

\* svc SendSyncRequest: the handle is looked up, which opens the client session, and a
\* request is created.
SendSyncRequest(c, s) ==
    /\ cpc[c] = "idle"
    /\ ~terminating[c]
    /\ handle[s]
    /\ clientRefs' = [clientRefs EXCEPT ![s] = @ + 1]
    /\ requestRefs' = [requestRefs EXCEPT ![c] = 1]
    /\ requestThread' = [requestThread EXCEPT ![c] = TRUE]
    /\ cpc' = [cpc EXCEPT ![c] = "send"]
    /\ csession' = [csession EXCEPT ![c] = s]
    /\ UNCHANGED <<portVars, sessionRefs, serverRefs, handle, endVars, requestList, current, inHand,
                   cresult, terminating, waitVars>>

\* The request is not queued: the server is closed, or the thread is terminating.
OnRequestFails(c) ==
    /\ cpc[c] = "send"
    /\ state[csession[c]] # "Normal" \/ terminating[c]
    /\ cresult' = [cresult EXCEPT ![c] =
           IF state[csession[c]] # "Normal" THEN "SessionClosed" ELSE "TerminationRequested"]
    /\ cpc' = [cpc EXCEPT ![c] = "return"]
    /\ UNCHANGED <<portVars, refVars, endVars, requestVars, csession, terminating, waitVars>>

\* Mutant: the state of the session is not tested.
OnRequestUnchecked(c) ==
    LET s == csession[c] IN
    /\ cpc[c] = "send"
    /\ ~terminating[c]
    /\ requestRefs' = [requestRefs EXCEPT ![c] = @ + 1]
    /\ requestList' = [requestList EXCEPT ![s] = Append(@, c)]
    /\ Notify(s, "Success", requestList[s] = <<>> /\ current[s] = None)
    /\ cpc' = [cpc EXCEPT ![c] = "blocked"]
    /\ UNCHANGED <<portVars, refVars, endVars, current, inHand, requestThread, csession, cresult,
                   terminating>>

\* KServerSession::OnRequest: the request is queued and its thread waits.
OnRequest(c) ==
    LET s == csession[c] IN
    /\ cpc[c] = "send"
    /\ state[s] = "Normal"
    /\ ~terminating[c]
    /\ requestRefs' = [requestRefs EXCEPT ![c] = @ + 1]
    /\ requestList' = [requestList EXCEPT ![s] = Append(@, c)]
    /\ Notify(s, "Success", requestList[s] = <<>> /\ current[s] = None)
    /\ cpc' = [cpc EXCEPT ![c] = "blocked"]
    /\ UNCHANGED <<portVars, refVars, endVars, current, inHand, requestThread, csession, cresult,
                   terminating>>

\* KAutoObject::Close of the client session; who drops the last reference destroys it.
CloseClient(c, s) ==
    /\ clientRefs' = [clientRefs EXCEPT ![s] = @ - 1]
    /\ IF clientRefs[s] = 1
       THEN /\ end' = [end EXCEPT ![s]["client"] = "destroy"]
            /\ cpc' = [cpc EXCEPT ![c] = "closing"]
            /\ csession' = [csession EXCEPT ![c] = s]
       ELSE /\ cpc' = [cpc EXCEPT ![c] = "idle"]
            /\ csession' = [csession EXCEPT ![c] = None]
            /\ UNCHANGED end

\* SendSyncRequest's SCOPE_EXIT closes the request, and the svc's KScopedAutoObject the
\* client session; the result goes to the guest.
ReturnRequest(c) ==
    /\ cpc[c] = "return"
    /\ requestRefs' = [requestRefs EXCEPT ![c] = @ - 1]
    /\ CloseClient(c, csession[c])
    /\ cresult' = [cresult EXCEPT ![c] = "Success"]
    /\ UNCHANGED <<portVars, sessionRefs, serverRefs, handle, state, lock, requestList, current,
                   inHand, requestThread, terminating, waitVars>>

\* svc CloseHandle, or the end of the process once its threads are gone: the handle
\* leaves the table and its reference is closed.
CloseHandle(c, s) ==
    /\ cpc[c] = "idle"
    /\ ~terminating[c] \/ \A d \in Clients : terminating[d] /\ cpc[d] = "idle"
    /\ handle[s]
    /\ handle' = [handle EXCEPT ![s] = FALSE]
    /\ CloseClient(c, s)
    /\ UNCHANGED <<portVars, sessionRefs, serverRefs, state, lock, requestVars, cresult, terminating,
                   waitVars>>

\* The destruction a client thread carried out is over.
ClientDone(c) ==
    /\ \/ cpc[c] = "closing" /\ end[csession[c]]["client"] = "closed"
       \/ cpc[c] = "undone" /\ end[csession[c]]["server"] = "closed"
    /\ cpc' = [cpc EXCEPT ![c] = "idle"]
    /\ csession' = [csession EXCEPT ![c] = None]
    /\ UNCHANGED <<portVars, refVars, endVars, requestVars, cresult, terminating, waitVars>>

\* KThread::RequestTerminate: the wait for a reply is cancelled.
RequestTerminate(c) ==
    /\ c \in Killable
    /\ ~terminating[c]
    /\ terminating' = [terminating EXCEPT ![c] = TRUE]
    /\ IF cpc[c] = "blocked"
       THEN /\ cpc' = [cpc EXCEPT ![c] = "return"]
            /\ cresult' = [cresult EXCEPT ![c] = "TerminationRequested"]
       ELSE UNCHANGED <<cpc, cresult>>
    /\ UNCHANGED <<portVars, refVars, endVars, requestVars, csession, waitVars>>

(***************************************************************************)
(* The destruction of the two ends.                                        *)
(***************************************************************************)

\* KSession::OnClientClosed and OnServerClosed first test the state ...
TestState(s, e) ==
    /\ end[s][e] = "destroy"
    /\ end' = [end EXCEPT ![s][e] =
           IF state[s] = "Normal" THEN "setState"
           ELSE IF e = "client" THEN "closeParent" ELSE "cleanup"]
    /\ UNCHANGED <<portVars, refVars, state, lock, requestVars, clientVars, waitVars>>

\* ... and then set it.
SetState(s, e) ==
    /\ end[s][e] = "setState"
    /\ state' = [state EXCEPT ![s] = IF e = "client" THEN "ClientClosed" ELSE "ServerClosed"]
    /\ end' = [end EXCEPT ![s][e] = IF e = "client" THEN "current" ELSE "cleanup"]
    /\ UNCHANGED <<portVars, refVars, lock, requestVars, clientVars, waitVars>>

\* KServerSession::OnClientClosed: m_lock is taken; a request that is being served is
\* left to the server, without its thread if that is terminating.
OnClientClosedCurrent(s) ==
    /\ end[s]["client"] = "current"
    /\ lock[s] = None
    /\ lock' = [lock EXCEPT ![s] = "client"]
    /\ requestThread' = [c \in Clients |->
           requestThread[c] /\ ~(c = current[s] /\ terminating[c])]
    /\ end' = [end EXCEPT ![s]["client"] = "sweep"]
    /\ UNCHANGED <<portVars, refVars, state, requestList, current, inHand, requestRefs, clientVars,
                   waitVars>>

\* A queued request is removed and closed.
OnClientClosedPop(s) ==
    /\ end[s]["client"] = "sweep"
    /\ requestList[s] # <<>>
    /\ requestList' = [requestList EXCEPT ![s] = Tail(@)]
    /\ requestRefs' = [requestRefs EXCEPT ![Head(requestList[s])] = @ - 1]
    /\ UNCHANGED <<portVars, refVars, endVars, current, inHand, requestThread, clientVars, waitVars>>

\* No request is left: who waits on the server session is told.
OnClientClosedNotify(s) ==
    /\ end[s]["client"] = "sweep"
    /\ requestList[s] = <<>>
    /\ Notify(s, "SessionClosed", TRUE)
    /\ lock' = [lock EXCEPT ![s] = None]
    /\ end' = [end EXCEPT ![s]["client"] = "closeParent"]
    /\ UNCHANGED <<portVars, refVars, state, requestVars, clientVars>>

\* Mutant: m_current_request is not cleared.
CleanupTakeKeepsCurrent(s) ==
    /\ end[s]["server"] = "cleanup"
    /\ lock[s] \in {None, "server"}
    /\ inHand[s] = None
    /\ current[s] # None \/ requestList[s] # <<>>
    /\ lock' = [lock EXCEPT ![s] = "server"]
    /\ IF current[s] # None
       THEN /\ inHand' = [inHand EXCEPT ![s] = current[s]]
            /\ UNCHANGED <<current, requestList>>
       ELSE /\ inHand' = [inHand EXCEPT ![s] = Head(requestList[s])]
            /\ requestList' = [requestList EXCEPT ![s] = Tail(@)]
            /\ UNCHANGED current
    /\ UNCHANGED <<portVars, refVars, state, end, requestRefs, requestThread, clientVars, waitVars>>

\* KServerSession::CleanupRequests: the request being served, or the first of the list.
CleanupTake(s) ==
    /\ end[s]["server"] = "cleanup"
    /\ lock[s] \in {None, "server"}
    /\ inHand[s] = None
    /\ current[s] # None \/ requestList[s] # <<>>
    /\ lock' = [lock EXCEPT ![s] = "server"]
    /\ IF current[s] # None
       THEN /\ inHand' = [inHand EXCEPT ![s] = current[s]]
            /\ current' = [current EXCEPT ![s] = None]
            /\ UNCHANGED requestList
       ELSE /\ inHand' = [inHand EXCEPT ![s] = Head(requestList[s])]
            /\ requestList' = [requestList EXCEPT ![s] = Tail(@)]
            /\ UNCHANGED current
    /\ UNCHANGED <<portVars, refVars, state, end, requestRefs, requestThread, clientVars, waitVars>>

\* Its thread is told that the session is closed, and it is closed.
CleanupEndWait(s) ==
    /\ end[s]["server"] = "cleanup"
    /\ lock[s] = "server"
    /\ inHand[s] # None
    /\ EndWait(inHand[s], "SessionClosed")
    /\ requestRefs' = [requestRefs EXCEPT ![inHand[s]] = @ - 1]
    /\ inHand' = [inHand EXCEPT ![s] = None]
    /\ UNCHANGED <<portVars, refVars, endVars, requestList, current, requestThread, csession,
                   terminating, waitVars>>

CleanupDone(s) ==
    /\ end[s]["server"] = "cleanup"
    /\ lock[s] \in {None, "server"}
    /\ inHand[s] = None
    /\ current[s] = None
    /\ requestList[s] = <<>>
    /\ lock' = [lock EXCEPT ![s] = None]
    /\ end' = [end EXCEPT ![s]["server"] = "closeParent"]
    /\ UNCHANGED <<portVars, refVars, state, requestVars, clientVars, waitVars>>

\* Mutant: the KSession is destroyed by each of its ends.
CloseParentTwice(s, e) ==
    /\ end[s][e] = "closeParent"
    /\ sessionRefs' = [sessionRefs EXCEPT ![s] = @ - 1]
    /\ end' = [end EXCEPT ![s][e] = "finalize"]
    /\ UNCHANGED <<portVars, clientRefs, serverRefs, handle, state, lock, requestVars, clientVars,
                   waitVars>>

\* The end closes its parent; who drops the last reference destroys the KSession.
CloseParent(s, e) ==
    /\ end[s][e] = "closeParent"
    /\ sessionRefs' = [sessionRefs EXCEPT ![s] = @ - 1]
    /\ end' = [end EXCEPT ![s][e] = IF sessionRefs[s] = 1 THEN "finalize" ELSE "closed"]
    /\ UNCHANGED <<portVars, clientRefs, serverRefs, handle, state, lock, requestVars, clientVars,
                   waitVars>>

\* KSession::Finalize, that is KClientPort::OnSessionFinalized, and KSession::PostDestroy.
Finalize(s, e) ==
    /\ end[s][e] = "finalize"
    /\ numSessions' = numSessions - 1
    /\ reserved' = reserved - 1
    /\ end' = [end EXCEPT ![s][e] = "closed"]
    /\ UNCHANGED <<portClosed, sessionList, refVars, state, lock, requestVars, clientVars, waitVars>>

Destruction(s) ==
    \/ \E e \in Ends : \/ TestState(s, e) \/ SetState(s, e)
                       \/ CloseParent(s, e) \/ Finalize(s, e)
    \/ OnClientClosedCurrent(s) \/ OnClientClosedPop(s) \/ OnClientClosedNotify(s)
    \/ CleanupTake(s) \/ CleanupEndWait(s) \/ CleanupDone(s)

(***************************************************************************)
(* What a server thread does with a session.                               *)
(***************************************************************************)

\* KServerPort::AcceptSession, with a session to accept.
AcceptSession(s) ==
    /\ sessionList # <<>>
    /\ s = Head(sessionList)
    /\ sessionList' = Tail(sessionList)
    /\ UNCHANGED <<portClosed, numSessions, reserved, refVars, endVars, requestVars, clientVars,
                   waitVars>>

\* ReceiveRequest takes m_lock; its first section finds the session closed ...
ReceiveClosed(s) ==
    /\ lock[s] = None
    /\ state[s] # "Normal"
    /\ UNCHANGED kernelVars

\* ... or takes the first request.  (Its thread is set: only a request that is being
\* served loses it.)
ReceiveRequest(v, s) ==
    /\ lock[s] = None
    /\ state[s] = "Normal"
    /\ current[s] = None
    /\ requestList[s] # <<>>
    /\ lock' = [lock EXCEPT ![s] = v]
    /\ inHand' = [inHand EXCEPT ![s] = Head(requestList[s])]
    /\ requestList' = [requestList EXCEPT ![s] = Tail(@)]
    /\ UNCHANGED <<portVars, refVars, state, end, current, requestRefs, requestThread, clientVars,
                   waitVars>>

\* m_current_request is set outside the section.
SetCurrent(v, s) ==
    /\ lock[s] = v
    /\ current' = [current EXCEPT ![s] = inHand[s]]
    /\ inHand' = [inHand EXCEPT ![s] = None]
    /\ lock' = [lock EXCEPT ![s] = None]
    /\ UNCHANGED <<portVars, refVars, state, end, requestList, requestRefs, requestThread,
                   clientVars, waitVars>>

\* SendReply takes m_lock and the request that is being served.
SendReply(v, s) ==
    /\ lock[s] = None
    /\ current[s] # None
    /\ lock' = [lock EXCEPT ![s] = v]
    /\ inHand' = [inHand EXCEPT ![s] = current[s]]
    /\ current' = [current EXCEPT ![s] = None]
    /\ Notify(s, "Success", requestList[s] # <<>>)
    /\ UNCHANGED <<portVars, refVars, state, end, requestList, requestRefs, requestThread,
                   clientVars>>

\* It ends the client's wait and closes the request.  (One step: the thread cannot tell
\* its own reference from this one.)  The result is a success, closed or not.
EndReply(v, s) ==
    /\ lock[s] = v
    /\ EndWait(inHand[s], IF state[s] = "Normal" THEN "Success" ELSE "SessionClosed")
    /\ requestRefs' = [requestRefs EXCEPT ![inHand[s]] = @ - 1]
    /\ inHand' = [inHand EXCEPT ![s] = None]
    /\ lock' = [lock EXCEPT ![s] = None]
    /\ UNCHANGED <<portVars, refVars, state, end, requestList, current, requestThread, csession,
                   terminating, waitVars>>

\* One reference less to each server session of S; who drops the last destroys it.
DropServerRefs(S) ==
    /\ serverRefs' = [s \in Sessions |-> IF s \in S THEN serverRefs[s] - 1 ELSE serverRefs[s]]
    /\ end' = [s \in Sessions |-> IF s \in S /\ serverRefs[s] = 1
                                  THEN [end[s] EXCEPT !["server"] = "destroy"] ELSE end[s]]

\* KAutoObject::Close of a server session, or of none.
DropServer(S) ==
    /\ DropServerRefs(S)
    /\ UNCHANGED <<portVars, sessionRefs, clientRefs, handle, state, lock, requestVars, clientVars,
                   waitVars>>

=============================================================================
