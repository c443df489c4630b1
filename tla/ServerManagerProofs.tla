-------------------------- MODULE ServerManagerProofs --------------------------
(***************************************************************************)
(* Proofs, for any number of clients, server threads and sessions: the     *)
(* request of a client thread that waits for a reply is never forgotten,   *)
(* requests are freed by the last who holds them, a server session has one *)
(* owner until it is closed, server threads miss nothing that is signaled  *)
(* and find what they were woken for, and sessions are counted until they  *)
(* are gone.                                                               *)
(*                                                                         *)
(* Each part has an invariant, which may rest on those before it, and the  *)
(* lemmas that show it to be one; a lemma that is used in one proof only   *)
(* is a step of that proof.  The theorems are at the end.                  *)
(***************************************************************************)
EXTENDS ServerManager, Integers, TLAPS

\* Leaves that name no prover are Zenon's.
USE Zenon

(***************************************************************************)
(* What the proofs use of finite sets, as hypotheses of the lemmas that    *)
(* need it: the library that shows it is only brought in at the end.       *)
(***************************************************************************)

EmptySetLaw ==
    /\ IsFiniteSet({})
    /\ Cardinality({}) = 0
    /\ \A S : IsFiniteSet(S) => (Cardinality(S) = 0 <=> S = {})

CardinalityLaw ==
    \A S : IsFiniteSet(S) => Cardinality(S) \in Nat

SubsetLaw ==
    \A S : IsFiniteSet(S) =>
        \A T \in SUBSET S : IsFiniteSet(T) /\ Cardinality(T) <= Cardinality(S)

AddElementLaw ==
    \A S, x : IsFiniteSet(S) =>
        /\ IsFiniteSet(S \cup {x})
        /\ Cardinality(S \cup {x}) = IF x \in S THEN Cardinality(S) ELSE Cardinality(S) + 1

RemoveElementLaw ==
    \A S, x : IsFiniteSet(S) =>
        /\ IsFiniteSet(S \ {x})
        /\ Cardinality(S \ {x}) = IF x \in S THEN Cardinality(S) - 1 ELSE Cardinality(S)

SingletonLaw ==
    \A x : IsFiniteSet({x}) /\ Cardinality({x}) = 1

FiniteSetLaws ==
    /\ EmptySetLaw /\ CardinalityLaw /\ SubsetLaw
    /\ AddElementLaw /\ RemoveElementLaw /\ SingletonLaw

\* Facts of arithmetic, sequences and functions that leaves of the proofs cite.
LEMMA IntFacts ==
    /\ 0 + 1 = 1
    /\ \A n \in Int : n + 1 \in Int /\ n - 1 \in Int /\ n + 0 = n /\ n + 0 \in Int
    /\ \A n \in Nat : 1 + n > 0
    /\ 1 > 0
  BY SMTT(30), Z3T(30)

LEMMA AppendFacts ==
    \A S : \A q \in Seq(S) : \A x \in S :
        /\ Append(q, x) # <<>>
        /\ q = <<>> => Len(Append(q, x)) = 1
  BY SMTT(30), Z3T(30)

LEMMA SmallSums ==
    /\ 0 + 0 = 0 /\ 0 + 1 = 1 /\ 1 + 0 = 1 /\ 1 + 1 = 2
    /\ 1 - 1 = 0 /\ 2 - 1 = 1 /\ 2 # 1 /\ 2 # 0 /\ 1 # 0
    /\ 0 \in Int /\ 1 \in Int /\ 2 \in Int /\ 0 \in Nat
    /\ ~(0 > 0) /\ 1 > 0 /\ 2 > 0 /\ 0 <= 1 /\ 1 <= 1
  BY SMTT(30), Z3T(30)

LEMMA NatFacts ==
    \A n \in Nat : 1 + n \in Nat /\ 0 + n = n /\ 0 <= n /\ (n # 0 => n > 0)
  BY SMTT(30), Z3T(30)

In(c, q) == \E j \in DOMAIN q : q[j] = c

Once(q) == \A i, j \in DOMAIN q : q[i] = q[j] => i = j

LEMMA NotInEmpty == Once(<<>>) /\ \A r : ~In(r, <<>>)
  BY SMTT(30), Z3T(30) DEF Once, In

LEMMA OnceAppend ==
    ASSUME NEW S, NEW q \in Seq(S), Once(q), NEW c \in S, ~In(c, q)
    PROVE  Once(Append(q, c)) /\ \A d : In(d, Append(q, c)) <=> d = c \/ In(d, q)
  BY SMTT(30), Z3T(30) DEF Once, In

\* The first of a list without repetitions is not among the others.
LEMMA OnceTail ==
    ASSUME NEW S, NEW q \in Seq(S), q # <<>>, Once(q)
    PROVE  /\ Once(Tail(q)) /\ ~In(Head(q), Tail(q)) /\ Head(q) \in S /\ In(Head(q), q)
           /\ \A c : In(c, q) <=> c = Head(q) \/ In(c, Tail(q))
<1> /\ Len(q) \in Nat /\ DOMAIN q = 1..Len(q) /\ 1 \in DOMAIN q /\ Head(q) = q[1] /\ q[1] \in S
    /\ DOMAIN Tail(q) = 1..(Len(q) - 1)
    /\ \A k \in DOMAIN Tail(q) : Tail(q)[k] = q[k + 1]
  BY SMTT(30), Z3T(30)
<1> \A k \in DOMAIN Tail(q) : k + 1 \in DOMAIN q /\ k + 1 # 1 /\ k \in Int
  BY SMTT(30), Z3T(30)
<1> Once(Tail(q))
  BY SMTT(30), Z3T(30) DEF Once
<1> ~In(Head(q), Tail(q))
  BY DEF In, Once
<1> ASSUME NEW c, In(c, Tail(q))
    PROVE  In(c, q)
  BY DEF In
<1> ASSUME NEW c, In(c, q)
    PROVE  c = Head(q) \/ In(c, Tail(q))
  <2> PICK j \in DOMAIN q : q[j] = c
    BY DEF In
  <2> CASE j = 1
    OBVIOUS
  <2> CASE j # 1
    <3> j - 1 \in DOMAIN Tail(q) /\ Tail(q)[j - 1] = q[j]
      BY SMTT(30), Z3T(30)
    <3> QED
      BY DEF In
  <2> QED
    OBVIOUS
<1> In(Head(q), q)
  BY DEF In
<1> QED
  OBVIOUS

\* The count of a server session after a user has come.
LEMMA OwnedJoin ==
    ASSUME NEW s, Cardinality(Users(s)) \in Nat,
           serverRefs[s] = 1 + Cardinality(Users(s)), serverRefs'[s] = serverRefs[s] + 1,
           Cardinality(Users(s)') = Cardinality(Users(s)) + 1
    PROVE  serverRefs'[s] = 1 + Cardinality(Users(s)') /\ serverRefs'[s] > 0 /\ serverRefs[s] > 0
  BY SMTT(30), Z3T(30)

\* The count after a user has gone, with an owner and without, and after the owner has.
LEMMA OwnedDrop ==
    ASSUME NEW s, Cardinality(Users(s)) \in Nat, Cardinality(Users(s)) > 0,
           serverRefs[s] = 1 + Cardinality(Users(s)), serverRefs'[s] = serverRefs[s] - 1,
           Cardinality(Users(s)') = Cardinality(Users(s)) - 1
    PROVE  /\ serverRefs'[s] = 1 + Cardinality(Users(s)') /\ serverRefs[s] > 0
           /\ serverRefs[s] # 1 /\ serverRefs'[s] > 0
  BY SMTT(30), Z3T(30)

LEMMA UnownedDrop ==
    ASSUME NEW s, Cardinality(Users(s)) \in Nat, Cardinality(Users(s)) > 0,
           serverRefs[s] = Cardinality(Users(s)), serverRefs'[s] = serverRefs[s] - 1,
           Cardinality(Users(s)') = Cardinality(Users(s)) - 1
    PROVE  /\ serverRefs'[s] = 0 + Cardinality(Users(s)') /\ serverRefs[s] > 0
           /\ serverRefs'[s] > 0 <=> serverRefs[s] # 1
  BY SMTT(30), Z3T(30)

LEMMA OwnerDrop ==
    ASSUME NEW s, Cardinality(Users(s)) \in Nat, Users(s)' = Users(s),
           serverRefs[s] = 1 + Cardinality(Users(s)), serverRefs'[s] = serverRefs[s] - 1
    PROVE  /\ serverRefs'[s] = 0 + Cardinality(Users(s)') /\ serverRefs[s] > 0
           /\ serverRefs'[s] > 0 <=> serverRefs[s] # 1
  BY SMTT(30), Z3T(30)

Counting == {c \in Clients : cpc[c] = "count"}

\* What is reserved when a creation begins or fails, when it makes a session, and when a
\* session ends.
LEMMA ReservedMore ==
    ASSUME numSessions \in Nat, Cardinality(Counting) \in Nat,
           reserved = numSessions + Cardinality(Counting), reserved' = reserved + 1,
           Cardinality(Counting') = Cardinality(Counting) + 1, numSessions' = numSessions
    PROVE  reserved' = numSessions' + Cardinality(Counting')
  BY SMTT(30), Z3T(30)

LEMMA ReservedLess ==
    ASSUME numSessions \in Nat, Cardinality(Counting) \in Nat,
           reserved = numSessions + Cardinality(Counting), reserved' = reserved - 1,
           Cardinality(Counting') = Cardinality(Counting) - 1, numSessions' = numSessions
    PROVE  reserved' = numSessions' + Cardinality(Counting')
  BY SMTT(30), Z3T(30)

LEMMA ReservedUsed ==
    ASSUME numSessions \in Nat, Cardinality(Counting) \in Nat, MaxSessions \in Nat,
           reserved = numSessions + Cardinality(Counting), reserved' = reserved,
           Cardinality(Counting') = Cardinality(Counting) - 1,
           numSessions < MaxSessions, numSessions' = numSessions + 1
    PROVE  reserved' = numSessions' + Cardinality(Counting') /\ numSessions' <= MaxSessions
  BY SMTT(30), Z3T(30)

LEMMA ReservedGone ==
    ASSUME numSessions \in Nat, Cardinality(Counting) \in Nat, MaxSessions \in Nat,
           reserved = numSessions + Cardinality(Counting), reserved' = reserved - 1,
           Counting' = Counting, numSessions <= MaxSessions, numSessions' = numSessions - 1
    PROVE  reserved' = numSessions' + Cardinality(Counting') /\ numSessions' <= MaxSessions
  BY SMTT(30), Z3T(30)


LEMMA EndPair ==
    \A e \in Ends : \E f \in Ends :
        /\ f # e /\ Ends = {e, f}
        /\ (e = "client" /\ f = "server") \/ (e = "server" /\ f = "client")
<1> "client" # "server" /\ "server" \in Ends /\ "client" \in Ends
  BY DEF Ends
<1> Ends = {"client", "server"} /\ Ends = {"server", "client"}
  BY DEF Ends
<1> \A e \in Ends : e = "client" \/ e = "server"
  BY DEF Ends
<1> QED
  OBVIOUS

LEMMA EndExcept ==
    ASSUME end \in [Sessions -> [Ends -> EndLabels]], NEW s, NEW e, NEW l,
           end' = [end EXCEPT ![s][e] = l]
    PROVE  \A r \in Sessions : \A d \in {"client", "server"} :
               end'[r][d] = end[r][d] \/ (d = e /\ end'[r][d] = l)
  BY SMTT(30), Z3T(30) DEF Ends

(***************************************************************************)
(* The client that waits for a reply. The invariant says who keeps the     *)
(* client session open and who keeps the request.                          *)
(***************************************************************************)

\* A thread that has a reference to the client session for its request.
InCall == {"send", "blocked", "return"}

Callers(s) == {c \in Clients : csession[c] = s /\ cpc[c] \in InCall}

\* The types of the variables the argument is about.
Typed ==
    /\ clientRefs \in [Sessions -> Nat]
    /\ handle \in [Sessions -> BOOLEAN]
    /\ end \in [Sessions -> [Ends -> EndLabels]]
    /\ state \in [Sessions -> States]
    /\ lock \in [Sessions -> Servers \cup Ends \cup {None}]
    /\ requestList \in [Sessions -> Seq(Clients)]
    /\ current \in [Sessions -> Clients \cup {None}]
    /\ inHand \in [Sessions -> Clients \cup {None}]
    /\ requestThread \in [Clients -> BOOLEAN]
    /\ terminating \in [Clients -> BOOLEAN]
    /\ cpc \in [Clients -> ClientLabels]
    /\ csession \in [Clients -> Sessions \cup {None}]
    /\ spc \in [Servers -> ServerLabels]
    /\ serving = [v \in Servers |-> serving[v]]

\* A client session has a reference for its handle and one for each call, and is open
\* while it has one; before its handle is made only its creator knows it.
ClientHeld ==
    /\ \A c \in Clients : cpc[c] \in InCall \cup {"enqueue"} => csession[c] \in Sessions
    /\ \A s \in Sessions :
           /\ Cardinality(Callers(s)) + (IF handle[s] THEN 1 ELSE 0) <= clientRefs[s]
           /\ clientRefs[s] > 0 => end[s]["client"] = "open"
           /\ end[s]["client"] = "none" => ~handle[s] /\ \A c \in Clients : csession[c] # s
    /\ \A c \in Clients : cpc[c] = "enqueue" =>
           /\ ~handle[csession[c]]
           /\ clientRefs[csession[c]] > 0
           /\ \A d \in Clients \ {c} : csession[d] # csession[c]

\* A terminating thread does not wait, and only its request loses its thread.
ThreadKept ==
    \A c \in Clients :
        /\ terminating[c] => cpc[c] # "blocked"
        /\ ~requestThread[c] => terminating[c]

\* A request is only in hand under m_lock, whose holder puts it where there is room.
LockHeld ==
    /\ \A s \in Sessions :
           /\ inHand[s] # None => lock[s] \in Servers \cup {"server"}
           /\ end[s]["client"] = "sweep" => lock[s] = "client"
    /\ \A v \in Servers : spc[v] = "received" /\ serving[v] \in Sessions =>
           lock[serving[v]] = v /\ current[serving[v]] = None

\* Requests are taken only before the server end cleans up.
StateTested ==
    \A s \in Sessions : state[s] = "Normal" => end[s]["server"] \in {"open", "destroy", "setState"}


\* The request of c is somewhere on the server's side of s.
Held(c, s) ==
    \/ current[s] = c
    \/ inHand[s] = c
    \/ \E j \in DOMAIN requestList[s] : requestList[s][j] = c

BlockedHeld ==
    \A c \in Clients : cpc[c] = "blocked" =>
        /\ Held(c, csession[c])
        /\ end[csession[c]]["server"] \in {"open", "destroy", "setState", "cleanup"}

ReplyInv == Typed /\ ClientHeld /\ ThreadKept /\ LockHeld /\ StateTested /\ BlockedHeld

\* A write to a session there is not.
LEMMA NoSession ==
    ASSUME Typed, NEW s, s \notin Sessions
    PROVE  \A x : /\ [lock EXCEPT ![s] = x] = lock
                  /\ [inHand EXCEPT ![s] = x] = inHand
                  /\ [current EXCEPT ![s] = x] = current
                  /\ [requestList EXCEPT ![s] = x] = requestList
  BY SMTT(30), Z3T(30) DEF Typed

\* The initial states have no session.
LEMMA ReplyInit ==
    ASSUME FiniteSetLaws PROVE Init => ReplyInv
<1> SUFFICES ASSUME Init PROVE ReplyInv
  OBVIOUS
<1> USE DEF Init, KernelInit
<1> Typed
  BY SMTT(30), Z3T(30) DEF EndLabels, Typed, Init, KernelInit, States, ClientLabels, ServerLabels
<1> \A s \in Sessions : end[s]["client"] = "none" /\ end[s]["server"] = "none"
  BY DEF Ends
<1> ClientHeld
  <2> \A s \in Sessions : Callers(s) = {}
    BY DEF Callers, InCall
  <2> \A c \in Clients : cpc[c] = "idle" /\ csession[c] \notin Sessions
    BY SessionAssumption
  <2> \A s \in Sessions : ~handle[s] /\ clientRefs[s] = 0
    OBVIOUS
  <2> HIDE DEF Init, KernelInit
  <2> QED
    BY SMTT(30), Z3T(30) DEF ClientHeld, InCall, FiniteSetLaws, EmptySetLaw
<1> LockHeld
  BY DEF LockHeld
<1> QED
  BY DEF ReplyInv, ThreadKept, StateTested, BlockedHeld

\* End e of session s goes to label l.
EndMoves(s, e, l) ==
    /\ end' \in [Sessions -> [Ends -> EndLabels]]
    /\ end'[s][e] = l
    /\ \A r \in Sessions, d \in Ends : r # s \/ d # e => end'[r][d] = end[r][d]


\* What a client thread does.
LEMMA ClientPreserves ==
    ASSUME FiniteSetLaws
    PROVE  /\ ReplyInv
           /\ \E c \in Clients : Kernel(ClientCall(c) \/ ClientStep(c) \/ RequestTerminate(c))
           => ReplyInv'
\* A step of a client thread that queues no request disturbs only what is said of the
\* clients.
<1>1. ASSUME ReplyInv, Typed', ClientHeld', ThreadKept',
             UNCHANGED <<lock, requestList, current, inHand, spc, serving>>,
             \A c \in Clients : cpc'[c] = "blocked" =>
                 cpc[c] = "blocked" /\ csession'[c] = csession[c],
             \A s \in Sessions :
                 /\ end'[s]["client"] = "sweep" => end[s]["client"] = "sweep"
                 /\ end'[s]["server"] \in {end[s]["server"], "open", "destroy"}
                 /\ state'[s] = "Normal" => state[s] = "Normal" \/ end'[s]["server"] = "open"
      PROVE  ReplyInv'
  BY <1>1, SMTT(30), Z3T(30) DEF ReplyInv, LockHeld, StateTested, BlockedHeld, ClientHeld, InCall, Held
\* Steps that leave the references and the calls as they are.
<1>2. ASSUME ReplyInv, UNCHANGED <<clientRefs, handle, csession>>,
             \A s \in Sessions : end'[s]["client"] = end[s]["client"],
             \A c \in Clients :
                 \/ cpc'[c] = cpc[c]
                 \/ cpc[c] \in InCall /\ cpc'[c] \in InCall
                 \/ cpc[c] \notin InCall \cup {"enqueue"} /\ cpc'[c] \notin InCall \cup {"enqueue"}
      PROVE  ClientHeld'
  BY <1>2 DEF Callers, InCall, ReplyInv, ClientHeld
\* CreateSession's reservation, its failure, a request that is refused, and a thread that
\* is terminated.
<1>3. ASSUME ReplyInv, NEW c \in Clients,
             \/ Kernel(CreateSession(c)) \/ Kernel(CreateFails(c))
             \/ Kernel(OnRequestFails(c)) \/ Kernel(RequestTerminate(c))
      PROVE  ReplyInv'
  <2> USE <1>3
  <2> USE DEF refVars, endVars, requestVars, clientVars, serverVars, Kernel
  <2> /\ UNCHANGED <<clientRefs, handle, state, end, lock, requestList, current, inHand,
                     requestThread, csession, spc, serving>>
      /\ terminating' \in [Clients -> BOOLEAN]
      /\ cpc' \in [Clients -> ClientLabels]
      /\ \A d \in Clients :
             \/ cpc'[d] = cpc[d]
             \/ cpc[d] \in InCall /\ cpc'[d] \in InCall
             \/ cpc[d] \notin InCall \cup {"enqueue"} /\ cpc'[d] \notin InCall \cup {"enqueue"}
      /\ \A d \in Clients : cpc'[d] = "blocked" => cpc[d] = "blocked"
    <3> CASE CreateSession(c)
      BY DEF ReplyInv, Typed, CreateSession, ClientLabels, InCall
    <3> CASE CreateFails(c)
      BY DEF ReplyInv, Typed, CreateFails, ClientLabels, InCall
    <3> CASE OnRequestFails(c)
      BY DEF ReplyInv, Typed, OnRequestFails, ClientLabels, InCall
    <3> CASE RequestTerminate(c)
      BY ZenonT(30) DEF ReplyInv, Typed, RequestTerminate, ClientLabels, InCall
    <3> QED
      OBVIOUS
  <2> ThreadKept'
    <3> CASE RequestTerminate(c)
      BY ZenonT(30) DEF ReplyInv, Typed, ThreadKept, RequestTerminate
    <3> CASE terminating' = terminating
      BY DEF ReplyInv, ThreadKept
    <3> QED
      BY DEF CreateSession, CreateFails, OnRequestFails
  <2> ClientHeld'
    BY <1>2
  <2> Typed'
    BY DEF ReplyInv, Typed
  <2> QED
    BY <1>1
\* OnRequest queues the request of a thread that then waits.
<1>4. ASSUME ReplyInv, NEW c \in Clients, Kernel(OnRequest(c))
      PROVE  ReplyInv'
  <2> USE <1>4
  <2> USE DEF refVars, endVars, requestVars, clientVars, serverVars, Kernel
  <2> PICK s \in Sessions : s = csession[c]
    BY DEF ReplyInv, ClientHeld, OnRequest, InCall
  <2> requestList[s] \in Seq(Clients)
    BY DEF ReplyInv, Typed
  <2> Append(requestList[s], c) \in Seq(Clients)
    BY SMTT(30), Z3T(30)
  <2> /\ requestList' = [requestList EXCEPT ![s] = Append(requestList[s], c)]
      /\ cpc' = [cpc EXCEPT ![c] = "blocked"]
      /\ cpc[c] = "send" /\ state[s] = "Normal" /\ ~terminating[c]
      /\ UNCHANGED <<clientRefs, handle, state, end, lock, current, inHand, requestThread,
                     csession, terminating, spc, serving>>
    BY DEF OnRequest
  <2> Typed'
    BY DEF ReplyInv, Typed, ClientLabels
  <2> ClientHeld'
    BY <1>2 DEF ReplyInv, Typed, InCall
  <2> ThreadKept'
    BY DEF ReplyInv, Typed, ThreadKept
  <2> LockHeld'
    BY DEF ReplyInv, LockHeld
  <2> StateTested'
    BY DEF ReplyInv, StateTested
  <2> BlockedHeld'
    <3> SUFFICES ASSUME NEW d \in Clients, cpc'[d] = "blocked"
                 PROVE  /\ Held(d, csession[d])'
                        /\ end[csession[d]]["server"] \in {"open", "destroy", "setState", "cleanup"}
      BY DEF BlockedHeld
    <3> CASE d = c
      <4> requestList'[s][Len(requestList[s]) + 1] = c
        BY SMTT(30), Z3T(30) DEF ReplyInv, Typed
      <4> Len(requestList[s]) + 1 \in DOMAIN requestList'[s]
        BY SMTT(30), Z3T(30) DEF ReplyInv, Typed
      <4> QED
        BY DEF ReplyInv, StateTested, Held
    <3> CASE d # c
      <4> cpc[d] = "blocked"
        BY DEF ReplyInv, Typed
      <4> Held(d, csession[d]) /\ csession[d] \in Sessions
        BY DEF ReplyInv, BlockedHeld, ClientHeld, InCall
      <4> \A r \in Sessions : \A j \in DOMAIN requestList[r] :
              j \in DOMAIN requestList'[r] /\ requestList'[r][j] = requestList[r][j]
        BY SMTT(30), Z3T(30) DEF ReplyInv, Typed
      <4> QED
        BY SMTT(30), Z3T(30) DEF ReplyInv, BlockedHeld, Held
    <3> QED
      OBVIOUS
  <2> QED
    BY DEF ReplyInv
\* The session that CreateSession initialises is not yet known to anybody.
<1>5. ASSUME ReplyInv, NEW c \in Clients, Kernel(CountSession(c))
      PROVE  ReplyInv'
  <2> USE <1>5
  <2> USE DEF refVars, endVars, requestVars, clientVars, serverVars, Kernel
  <2> PICK s \in Sessions :
          /\ end[s]["client"] = "none"
          /\ clientRefs' = [clientRefs EXCEPT ![s] = 1]
          /\ end' = [end EXCEPT ![s] = [e \in Ends |-> "open"]]
          /\ state' = [state EXCEPT ![s] = "Normal"]
          /\ csession' = [csession EXCEPT ![c] = s]
    BY DEF CountSession, Free
  <2> /\ cpc[c] = "count"
      /\ cpc' = [cpc EXCEPT ![c] = "enqueue"]
      /\ UNCHANGED <<handle, lock, requestList, current, inHand, requestThread, terminating, spc,
                     serving>>
    BY DEF CountSession
  <2> /\ end' \in [Sessions -> [Ends -> EndLabels]]
      /\ end'[s]["client"] = "open" /\ end'[s]["server"] = "open"
      /\ \A r \in Sessions \ {s} : end'[r] = end[r]
    BY DEF ReplyInv, Typed, Ends, EndLabels
  <2> Typed'
    BY DEF ReplyInv, Typed, ClientLabels, States
  <2> ~handle[s] /\ \A d \in Clients : csession[d] # s
    BY DEF ReplyInv, ClientHeld
  <2> ClientHeld'
    <3> \A r \in Sessions : Callers(r)' = Callers(r)
      BY DEF ReplyInv, Typed, Callers, InCall
    <3> Callers(s) = {}
      BY DEF Callers
    <3> \A d \in Clients : d # c => cpc'[d] = cpc[d] /\ csession'[d] = csession[d]
      BY ZenonT(30) DEF ReplyInv, Typed
    <3> cpc'[c] = "enqueue" /\ csession'[c] = s
      BY ZenonT(30) DEF ReplyInv, Typed
    <3> /\ clientRefs'[s] = 1
        /\ \A r \in Sessions \ {s} : clientRefs'[r] = clientRefs[r]
      BY DEF ReplyInv, Typed
    <3> \A d \in Clients : cpc'[d] \in InCall \cup {"enqueue"} => csession'[d] \in Sessions
      BY ZenonT(30) DEF ReplyInv, ClientHeld
    <3> \A r \in Sessions :
            /\ Cardinality(Callers(r)') + (IF handle[r] THEN 1 ELSE 0) <= clientRefs'[r]
            /\ clientRefs'[r] > 0 => end'[r]["client"] = "open"
            /\ end'[r]["client"] = "none" => ~handle[r] /\ \A d \in Clients : csession'[d] # r
      <4> SUFFICES ASSUME NEW r \in Sessions
                   PROVE  /\ Cardinality(Callers(r)') + (IF handle[r] THEN 1 ELSE 0) <= clientRefs'[r]
                          /\ clientRefs'[r] > 0 => end'[r]["client"] = "open"
                          /\ end'[r]["client"] = "none" =>
                                 ~handle[r] /\ \A d \in Clients : csession'[d] # r
        OBVIOUS
      <4> CASE r = s
        <5> Callers(r)' = {}
          OBVIOUS
        <5> Cardinality(Callers(r)') = 0
          BY DEF FiniteSetLaws, EmptySetLaw
        <5> QED
          BY SMTT(30), Z3T(30)
      <4> CASE r # s
        BY SMTT(30), Z3T(30) DEF ReplyInv, ClientHeld
      <4> QED
        OBVIOUS
    <3> \A d \in Clients : cpc'[d] = "enqueue" =>
            /\ ~handle[csession'[d]]
            /\ clientRefs'[csession'[d]] > 0
            /\ \A b \in Clients \ {d} : csession'[b] # csession'[d]
      BY SMTT(30), Z3T(30) DEF ReplyInv, ClientHeld
    <3> QED
      BY DEF ClientHeld
  <2> ThreadKept'
    BY DEF ReplyInv, Typed, ThreadKept
  <2> \A d \in Clients : cpc'[d] = "blocked" => cpc[d] = "blocked" /\ csession'[d] = csession[d]
    BY DEF ReplyInv, Typed
  <2> \A r \in Sessions :
          /\ end'[r]["client"] = "sweep" => end[r]["client"] = "sweep"
          /\ end'[r]["server"] \in {end[r]["server"], "open", "destroy"}
          /\ state'[r] = "Normal" => state[r] = "Normal" \/ end'[r]["server"] = "open"
    BY DEF ReplyInv, Typed
  <2> QED
    BY <1>1
\* A step of client c that concerns one session s, which no other thread is creating.
<1>6. ASSUME ReplyInv, NEW c \in Clients, NEW s \in Sessions,
             \A d \in Clients \ {c} : cpc'[d] = cpc[d] /\ csession'[d] = csession[d],
             cpc'[c] # "enqueue",
             csession'[c] \in {s, None},
             cpc[c] \in InCall => csession[c] = s,
             cpc'[c] \in InCall => csession'[c] = s,
             \A d \in Clients \ {c} : cpc[d] = "enqueue" => csession[d] # s,
             \A r \in Sessions \ {s} :
                 /\ clientRefs'[r] = clientRefs[r]
                 /\ handle'[r] = handle[r]
                 /\ end'[r]["client"] = end[r]["client"],
             Cardinality(Callers(s)') + (IF handle'[s] THEN 1 ELSE 0) <= clientRefs'[s],
             clientRefs'[s] > 0 => end'[s]["client"] = "open",
             end'[s]["client"] # "none"
      PROVE  ClientHeld'
  <2> USE <1>6
  <2> \A r \in Sessions \ {s} : Callers(r)' = Callers(r)
    BY SessionAssumption, SMTT(30), Z3T(30) DEF Callers, InCall
  <2> \A d \in Clients : cpc'[d] \in InCall \cup {"enqueue"} => csession'[d] \in Sessions
    BY ZenonT(30) DEF ReplyInv, ClientHeld
  <2> \A r \in Sessions :
          /\ Cardinality(Callers(r)') + (IF handle'[r] THEN 1 ELSE 0) <= clientRefs'[r]
          /\ clientRefs'[r] > 0 => end'[r]["client"] = "open"
          /\ end'[r]["client"] = "none" => ~handle'[r] /\ \A d \in Clients : csession'[d] # r
    BY SessionAssumption, SMTT(30), Z3T(30) DEF ReplyInv, ClientHeld
  <2> \A d \in Clients : cpc'[d] = "enqueue" =>
          /\ ~handle'[csession'[d]]
          /\ clientRefs'[csession'[d]] > 0
          /\ \A b \in Clients \ {d} : csession'[b] # csession'[d]
    BY SessionAssumption, SMTT(30), Z3T(30) DEF ReplyInv, ClientHeld
  <2> QED
    BY DEF ClientHeld
\* Callers are finite in number.
<1>7. ASSUME NEW s
      PROVE  IsFiniteSet(Callers(s)) /\ Cardinality(Callers(s)) \in Nat
  BY <1>7, SessionAssumption DEF Callers, FiniteSetLaws, SubsetLaw, CardinalityLaw
\* EnqueueSession makes the handle; it takes over the creator's reference.
<1>8. ASSUME ReplyInv, NEW c \in Clients, Kernel(EnqueueSession(c))
      PROVE  ReplyInv'
  <2> USE <1>8
  <2> cpc[c] = "enqueue"
    BY DEF EnqueueSession, Kernel
  <2> PICK s \in Sessions : s = csession[c]
    BY DEF ReplyInv, ClientHeld
  <2> /\ clientRefs[s] > 0
      /\ \A d \in Clients \ {c} : csession[d] # s
      /\ end[s]["client"] = "open"
    BY DEF ReplyInv, ClientHeld
  <2> /\ handle' = [handle EXCEPT ![s] = TRUE]
      /\ cpc' = [cpc EXCEPT ![c] = "idle"]
      /\ csession' = [csession EXCEPT ![c] = None]
      /\ UNCHANGED <<clientRefs, state, end, lock, requestList, current, inHand, requestThread,
                     terminating, spc, serving>>
    BY DEF EnqueueSession, Kernel, endVars, requestVars, serverVars
  <2> Typed'
    BY DEF ReplyInv, Typed, ClientLabels
  <2> /\ \A d \in Clients \ {c} : cpc'[d] = cpc[d] /\ csession'[d] = csession[d]
      /\ cpc'[c] = "idle"
      /\ csession'[c] = None
      /\ \A r \in Sessions \ {s} : handle'[r] = handle[r]
    BY DEF ReplyInv, Typed
  <2> Callers(s)' = {}
    BY DEF Callers, InCall
  <2> ClientHeld'
    <3> Cardinality(Callers(s)') = 0
      BY DEF FiniteSetLaws, EmptySetLaw
    <3> clientRefs[s] \in Nat
      BY DEF ReplyInv, Typed
    <3> Cardinality(Callers(s)') + (IF handle'[s] THEN 1 ELSE 0) <= clientRefs'[s]
      BY SMTT(30), Z3T(30)
    <3> QED
      BY <1>6, ZenonT(30) DEF InCall
  <2> ThreadKept'
    BY DEF ReplyInv, ThreadKept
  <2> QED
    BY <1>1
\* When the port is closed instead, the creator closes the client end.
<1>9. ASSUME ReplyInv, NEW c \in Clients, Kernel(EnqueueFails(c))
      PROVE  ReplyInv'
  <2> USE <1>9
  <2> cpc[c] = "enqueue"
    BY DEF EnqueueFails, Kernel
  <2> PICK s \in Sessions : s = csession[c]
    BY DEF ReplyInv, ClientHeld
  <2> /\ ~handle[s]
      /\ \A d \in Clients \ {c} : csession[d] # s
    BY DEF ReplyInv, ClientHeld
  <2> /\ clientRefs' = [clientRefs EXCEPT ![s] = 0]
      /\ end' = [end EXCEPT ![s]["client"] = "destroy"]
      /\ cpc' = [cpc EXCEPT ![c] = "undo"]
      /\ UNCHANGED <<handle, csession, state, lock, requestList, current, inHand, requestThread,
                     terminating, spc, serving>>
    BY DEF EnqueueFails, Kernel, requestVars, serverVars
  <2> EndMoves(s, "client", "destroy")
    <3> \A r \in Sessions : end[r] \in [Ends -> EndLabels]
      BY DEF ReplyInv, Typed
    <3> QED
      BY DEF ReplyInv, Typed, EndMoves, Ends, EndLabels
  <2> /\ \A d \in Clients \ {c} : cpc'[d] = cpc[d]
      /\ cpc'[c] = "undo"
      /\ clientRefs'[s] = 0
      /\ \A r \in Sessions \ {s} : clientRefs'[r] = clientRefs[r]
      /\ clientRefs' \in [Sessions -> Nat]
      /\ cpc' \in [Clients -> ClientLabels]
    BY DEF ReplyInv, Typed, ClientLabels
  <2>7. Typed'
    BY DEF ReplyInv, Typed, EndMoves
  <2> ClientHeld'
    BY <1>6, SMTT(30), Z3T(30) DEF Callers, InCall, EndMoves, Ends, FiniteSetLaws, EmptySetLaw
  <2> ThreadKept'
    BY DEF ReplyInv, ThreadKept
  <2> \A r \in Sessions :
         /\ end'[r]["client"] = "sweep" => end[r]["client"] = "sweep"
         /\ end'[r]["server"] = end[r]["server"]
    BY DEF EndMoves, Ends
  <2> QED
    BY <2>7, <1>1, ZenonT(30)
\* The creator closes the server end, and a destruction that a client carried out ends.
<1>10. ASSUME ReplyInv, NEW c \in Clients, Kernel(UndoServer(c))
       PROVE  ReplyInv'
  <2> USE <1>10
  <2> PICK s : s = csession[c]
    OBVIOUS
  <2> /\ cpc[c] = "undo"
      /\ end' = [end EXCEPT ![s]["server"] = "destroy"]
      /\ cpc' = [cpc EXCEPT ![c] = "undone"]
      /\ UNCHANGED <<clientRefs, handle, csession, state, lock, requestList, current, inHand,
                     requestThread, terminating, spc, serving>>
    BY DEF UndoServer, Kernel, requestVars, serverVars
  <2> /\ end' \in [Sessions -> [Ends -> EndLabels]]
      /\ \A r \in Sessions :
             /\ end'[r]["client"] = end[r]["client"]
             /\ end'[r]["server"] \in {end[r]["server"], "destroy"}
    <3> \A r \in Sessions : end[r] \in [Ends -> EndLabels]
      BY DEF ReplyInv, Typed
    <3> QED
      BY DEF ReplyInv, Typed, Ends, EndLabels
  <2> /\ \A d \in Clients \ {c} : cpc'[d] = cpc[d]
      /\ cpc'[c] = "undone"
      /\ cpc' \in [Clients -> ClientLabels]
    BY DEF ReplyInv, Typed, ClientLabels
  <2> Typed'
    BY DEF ReplyInv, Typed
  <2> ClientHeld'
    BY <1>2 DEF InCall
  <2> ThreadKept'
    BY DEF ReplyInv, ThreadKept
  <2> QED
    BY <1>1
<1>11. ASSUME ReplyInv, NEW c \in Clients, Kernel(ClientDone(c))
       PROVE  ReplyInv'
  <2> USE <1>11
  <2> /\ cpc[c] \in {"closing", "undone"}
      /\ cpc' = [cpc EXCEPT ![c] = "idle"]
      /\ csession' = [csession EXCEPT ![c] = None]
      /\ UNCHANGED <<clientRefs, handle, end, state, lock, requestList, current, inHand,
                     requestThread, terminating, spc, serving>>
    BY DEF ClientDone, Kernel, refVars, endVars, requestVars, serverVars
  <2> /\ \A d \in Clients \ {c} : cpc'[d] = cpc[d] /\ csession'[d] = csession[d]
      /\ cpc'[c] = "idle"
      /\ csession'[c] = None
      /\ cpc' \in [Clients -> ClientLabels]
      /\ csession' \in [Clients -> Sessions \cup {None}]
    BY DEF ReplyInv, Typed, ClientLabels
  <2> Typed'
    BY DEF ReplyInv, Typed
  <2> ClientHeld'
    <3> \A r \in Sessions : Callers(r)' = Callers(r)
      BY DEF Callers, InCall
    <3> \A d \in Clients : cpc'[d] \in InCall \cup {"enqueue"} =>
            d # c /\ cpc[d] \in InCall \cup {"enqueue"} /\ csession[d] \in Sessions
      BY DEF ReplyInv, ClientHeld, InCall
    <3> QED
      BY SessionAssumption, SMTT(30), Z3T(30) DEF ReplyInv, ClientHeld
  <2> ThreadKept'
    BY DEF ReplyInv, ThreadKept
  <2> QED
    BY <1>1
\* A call takes a reference to the client session, which its handle keeps open.
<1>12. ASSUME ReplyInv, NEW c \in Clients, NEW s \in Sessions, Kernel(SendSyncRequest(c, s))
       PROVE  ReplyInv'
  <2> USE <1>12
  <2>1. /\ cpc[c] = "idle" /\ ~terminating[c] /\ handle[s]
        /\ clientRefs' = [clientRefs EXCEPT ![s] = clientRefs[s] + 1]
        /\ requestThread' = [requestThread EXCEPT ![c] = TRUE]
        /\ cpc' = [cpc EXCEPT ![c] = "send"]
        /\ csession' = [csession EXCEPT ![c] = s]
        /\ UNCHANGED <<handle, end, state, lock, requestList, current, inHand, terminating, spc,
                       serving>>
    BY DEF SendSyncRequest, Kernel, endVars, serverVars
  <2>2. /\ \A d \in Clients \ {c} : cpc'[d] = cpc[d] /\ csession'[d] = csession[d]
        /\ cpc'[c] = "send"
        /\ csession'[c] = s
        /\ cpc' \in [Clients -> ClientLabels]
        /\ csession' \in [Clients -> Sessions \cup {None}]
    BY <2>1 DEF ReplyInv, Typed, ClientLabels
  <2>3. /\ clientRefs[s] \in Nat
        /\ clientRefs'[s] = clientRefs[s] + 1
        /\ \A r \in Sessions \ {s} : clientRefs'[r] = clientRefs[r]
        /\ clientRefs' \in [Sessions -> Nat]
    BY <2>1, SMTT(30), Z3T(30) DEF ReplyInv, Typed
  <2>4. /\ requestThread' \in [Clients -> BOOLEAN]
        /\ \A d \in Clients : ~requestThread'[d] => ~requestThread[d]
    BY <2>1 DEF ReplyInv, Typed
  <2>5. Typed'
    BY <2>1, <2>2, <2>3, <2>4 DEF ReplyInv, Typed
  <2> ClientHeld'
    <3> Callers(s)' = Callers(s) \cup {c} /\ c \notin Callers(s)
      BY <2>1, <2>2, ZenonT(30) DEF Callers, InCall
    <3> Cardinality(Callers(s)') = Cardinality(Callers(s)) + 1
      BY <1>7 DEF FiniteSetLaws, AddElementLaw
    <3> Cardinality(Callers(s)) + 1 <= clientRefs[s]
      BY <2>1 DEF ReplyInv, ClientHeld
    <3> Cardinality(Callers(s)') + (IF handle'[s] THEN 1 ELSE 0) <= clientRefs'[s]
      BY <2>1, <2>3, <1>7, SMTT(30), Z3T(30)
    <3> end[s]["client"] = "open"
      BY <2>3, <1>7, SMTT(30), Z3T(30) DEF ReplyInv, ClientHeld
    <3> \A d \in Clients \ {c} : cpc[d] = "enqueue" => csession[d] # s
      BY <2>1 DEF ReplyInv, ClientHeld
    <3> QED
      BY <2>1, <2>2, <2>3, <1>6 DEF InCall
  <2> ThreadKept'
    BY <2>1, <2>2, <2>4 DEF ReplyInv, ThreadKept
  <2> QED
    BY <2>1, <2>2, <2>5, <1>1
\* The arithmetic of giving up one of several references.
<1>13. ASSUME NEW n \in Nat, NEW refs \in Nat, NEW left, NEW b,
              n + (IF b THEN 1 ELSE 0) + 1 <= refs, left = refs - 1
       PROVE  /\ n + (IF b THEN 1 ELSE 0) <= left
              /\ refs > 0
              /\ left > 0 => refs # 1
  BY <1>13, SMTT(30), Z3T(30)
\* A call or the handle gives its reference up: the last one starts the destruction, and
\* then no other call has one.
<1>14. ASSUME ReplyInv, NEW c \in Clients, NEW s \in Sessions,
              CloseClient(c, s),
              UNCHANGED <<state, lock, requestList, current, inHand, requestThread, terminating, spc,
                          serving>>,
              cpc[c] \in {"idle", "return"},
              cpc[c] = "return" => csession[c] = s,
              handle' \in [Sessions -> BOOLEAN],
              \A r \in Sessions \ {s} : handle'[r] = handle[r],
              Cardinality(Callers(s) \ {c}) + (IF handle'[s] THEN 1 ELSE 0) + 1 <= clientRefs[s],
              \A d \in Clients \ {c} : cpc[d] = "enqueue" => csession[d] # s
       PROVE  ReplyInv'
  <2> USE <1>14
  <2>1. /\ clientRefs[s] \in Nat
        /\ IsFiniteSet(Callers(s) \ {c})
        /\ Cardinality(Callers(s) \ {c}) \in Nat
    BY <1>7 DEF ReplyInv, Typed, FiniteSetLaws, SubsetLaw, CardinalityLaw
  <2>2. /\ clientRefs'[s] = clientRefs[s] - 1
        /\ \A r \in Sessions \ {s} : clientRefs'[r] = clientRefs[r]
        /\ clientRefs' \in [Sessions -> Nat]
    BY <2>1, SMTT(30), Z3T(30) DEF ReplyInv, Typed, CloseClient
  <2> /\ \A d \in Clients \ {c} : cpc'[d] = cpc[d] /\ csession'[d] = csession[d]
      /\ cpc'[c] \in {"idle", "closing"}
      /\ csession'[c] \in {s, None}
      /\ cpc' \in [Clients -> ClientLabels]
      /\ csession' \in [Clients -> Sessions \cup {None}]
    BY ZenonT(30) DEF ReplyInv, Typed, CloseClient, ClientLabels
  <2> /\ end' \in [Sessions -> [Ends -> EndLabels]]
      /\ \A r \in Sessions : end'[r]["server"] = end[r]["server"]
      /\ \A r \in Sessions \ {s} : end'[r]["client"] = end[r]["client"]
      /\ end'[s]["client"] = IF clientRefs[s] = 1 THEN "destroy" ELSE end[s]["client"]
    <3> \A r \in Sessions : end[r] \in [Ends -> EndLabels]
      BY DEF ReplyInv, Typed
    <3> CASE clientRefs[s] = 1
      <4> end' = [end EXCEPT ![s]["client"] = "destroy"]
        BY DEF CloseClient
      <4> EndMoves(s, "client", "destroy")
        BY DEF ReplyInv, Typed, EndMoves, Ends, EndLabels
      <4> QED
        BY DEF EndMoves, Ends
    <3> CASE clientRefs[s] # 1
      BY DEF CloseClient, ReplyInv, Typed
    <3> QED
      OBVIOUS
  <2>5. Typed'
    BY <2>2 DEF ReplyInv, Typed
  <2> ClientHeld'
    <3>1. Callers(s)' = Callers(s) \ {c}
      BY DEF Callers, InCall
    <3> /\ Cardinality(Callers(s)') + (IF handle'[s] THEN 1 ELSE 0) <= clientRefs'[s]
        /\ clientRefs[s] > 0
        /\ clientRefs'[s] > 0 => clientRefs[s] # 1
      <4> DEFINE n == Cardinality(Callers(s) \ {c})
                 refs == clientRefs[s]
      <4> n \in Nat /\ refs \in Nat /\ n + (IF handle'[s] THEN 1 ELSE 0) + 1 <= refs
        BY <2>1
      <4> clientRefs'[s] = refs - 1
        BY <2>2
      <4> HIDE DEF n, refs
      <4> /\ n + (IF handle'[s] THEN 1 ELSE 0) <= clientRefs'[s]
          /\ refs > 0
          /\ clientRefs'[s] > 0 => refs # 1
        BY <1>13, ZenonT(30)
      <4> QED
        BY <3>1 DEF n, refs
    <3>3. end[s]["client"] = "open"
      BY DEF ReplyInv, ClientHeld
    <3> /\ clientRefs'[s] > 0 => end'[s]["client"] = "open"
        /\ end'[s]["client"] # "none"
      BY <3>3
    <3> QED
      BY <2>2, <1>6, SMTT(30), Z3T(30) DEF InCall
  <2> ThreadKept'
    BY ZenonT(30) DEF ReplyInv, ThreadKept
  <2> \A r \in Sessions : end'[r]["client"] = "sweep" => end[r]["client"] = "sweep"
    OBVIOUS
  <2> QED
    BY <2>5, <1>1, ZenonT(30)
<1>15. ASSUME ReplyInv, NEW c \in Clients, Kernel(ReturnRequest(c))
       PROVE  ReplyInv'
  <2> USE <1>15
  <2> /\ cpc[c] = "return"
      /\ CloseClient(c, csession[c])
      /\ UNCHANGED <<handle, state, lock, requestList, current, inHand, requestThread,
                     terminating, spc, serving>>
    BY DEF ReturnRequest, Kernel, serverVars
  <2> PICK s \in Sessions : s = csession[c]
    BY DEF ReplyInv, ClientHeld, InCall
  <2> c \in Callers(s)
    BY DEF Callers, InCall
  <2> Cardinality(Callers(s) \ {c}) = Cardinality(Callers(s)) - 1
    BY <1>7 DEF FiniteSetLaws, RemoveElementLaw
  <2> /\ Cardinality(Callers(s)) + (IF handle[s] THEN 1 ELSE 0) <= clientRefs[s]
      /\ clientRefs[s] \in Nat
    BY DEF ReplyInv, ClientHeld, Typed
  <2> Cardinality(Callers(s) \ {c}) + (IF handle'[s] THEN 1 ELSE 0) + 1 <= clientRefs[s]
    BY <1>7, SMTT(30), Z3T(30)
  <2> \A d \in Clients \ {c} : cpc[d] = "enqueue" => csession[d] # s
    BY DEF ReplyInv, ClientHeld
  <2> handle' \in [Sessions -> BOOLEAN]
    BY DEF ReplyInv, Typed
  <2> QED
    BY <1>14
<1>16. ASSUME ReplyInv, NEW c \in Clients, NEW s \in Sessions, Kernel(CloseHandle(c, s))
       PROVE  ReplyInv'
  <2> USE <1>16
  <2> /\ cpc[c] = "idle" /\ handle[s]
      /\ handle' = [handle EXCEPT ![s] = FALSE]
      /\ CloseClient(c, s)
      /\ UNCHANGED <<state, lock, requestList, current, inHand, requestThread, terminating, spc,
                     serving>>
    BY DEF CloseHandle, Kernel, requestVars, serverVars
  <2> /\ handle' \in [Sessions -> BOOLEAN]
      /\ \A r \in Sessions \ {s} : handle'[r] = handle[r]
      /\ ~handle'[s]
    BY DEF ReplyInv, Typed
  <2> Callers(s) \ {c} = Callers(s)
    BY DEF Callers, InCall
  <2> Cardinality(Callers(s) \ {c}) + (IF handle'[s] THEN 1 ELSE 0) + 1 <= clientRefs[s]
    <3> Cardinality(Callers(s)) + 1 <= clientRefs[s]
      BY DEF ReplyInv, ClientHeld
    <3>1. Cardinality(Callers(s) \ {c}) = Cardinality(Callers(s)) /\ Cardinality(Callers(s)) \in Nat
      BY <1>7
    <3>2. clientRefs[s] \in Nat
      BY DEF ReplyInv, Typed
    <3> QED
      BY <3>1, <3>2, SMTT(30), Z3T(30)
  <2> \A d \in Clients \ {c} : cpc[d] = "enqueue" => csession[d] # s
    BY SMTT(30), Z3T(30) DEF ReplyInv, ClientHeld
  <2> QED
    BY <1>14
<1> SUFFICES ASSUME ReplyInv, NEW c \in Clients,
                    Kernel(ClientCall(c) \/ ClientStep(c) \/ RequestTerminate(c))
             PROVE  ReplyInv'
  OBVIOUS
<1> QED
  BY <1>12, <1>16, <1>3, <1>5, <1>8, <1>9, <1>10,
     <1>4, <1>15, <1>11 DEF Kernel, ClientCall, ClientStep

\* Of the invariant, a step on a request leaves the counts of the client session alone,
\* and where every request is, except those of session s.
LEMMA RequestStep ==
    ASSUME ReplyInv,
           UNCHANGED <<clientRefs, handle, end, state, requestThread, csession, terminating>>,
           Typed', LockHeld',
           NEW s,
           \A c \in Clients : \/ cpc'[c] = cpc[c]
                              \/ cpc[c] = "blocked" /\ cpc'[c] = "return",
           \A c \in Clients : cpc[c] = "blocked" /\ csession[c] = s /\ Held(c, s) =>
               Held(c, s)' \/ cpc'[c] # "blocked",
           \A r \in Sessions \ {s} :
               /\ requestList'[r] = requestList[r]
               /\ current'[r] = current[r]
               /\ inHand'[r] = inHand[r]
    PROVE  ReplyInv'
<1> USE DEF ReplyInv
<1> ClientHeld'
  <2> \A r \in Sessions : Callers(r)' = Callers(r)
    BY DEF Callers, InCall
  <2> \A c \in Clients : /\ cpc'[c] \in InCall \cup {"enqueue"} => cpc[c] \in InCall \cup {"enqueue"}
                         /\ cpc'[c] = "enqueue" => cpc[c] = "enqueue"
    BY DEF InCall
  <2> QED
    BY ZenonT(30) DEF ClientHeld
<1> ThreadKept'
  BY DEF ThreadKept
<1> StateTested'
  BY DEF StateTested
<1> BlockedHeld'
  <2> SUFFICES ASSUME NEW c \in Clients, cpc'[c] = "blocked"
               PROVE  /\ Held(c, csession[c])'
                      /\ end[csession[c]]["server"] \in {"open", "destroy", "setState", "cleanup"}
    BY DEF BlockedHeld
  <2> cpc[c] = "blocked"
    OBVIOUS
  <2> csession[c] \in Sessions
    BY DEF ClientHeld, InCall
  <2> /\ Held(c, csession[c])
      /\ end[csession[c]]["server"] \in {"open", "destroy", "setState", "cleanup"}
    BY DEF BlockedHeld
  <2> CASE csession[c] = s
    OBVIOUS
  <2> CASE csession[c] # s
    BY DEF Held
  <2> QED
    OBVIOUS
<1> QED
  OBVIOUS

\* What is in a list is its first element or behind it.
LEMMA HeadOrTail ==
    ASSUME NEW q \in Seq(Clients), q # <<>>, NEW c, \E j \in DOMAIN q : q[j] = c
    PROVE  Head(q) = c \/ \E j \in DOMAIN Tail(q) : Tail(q)[j] = c
<1> PICK j \in DOMAIN q : q[j] = c
  OBVIOUS
<1> CASE j = 1
  BY SMTT(30), Z3T(30)
<1> CASE j # 1
  <2> j - 1 \in DOMAIN Tail(q) /\ Tail(q)[j - 1] = c
    BY SMTT(30), Z3T(30)
  <2> QED
    OBVIOUS
<1> QED
  OBVIOUS

\* EndWait ends the wait of the thread of a request, if it waits.
LEMMA EndWaitStep ==
    ASSUME ReplyInv, NEW c, NEW result, EndWait(c, result)
    PROVE  /\ cpc' \in [Clients -> ClientLabels]
           /\ \A d \in Clients : \/ cpc'[d] = cpc[d]
                                 \/ cpc[d] = "blocked" /\ cpc'[d] = "return"
           /\ c \in Clients => cpc'[c] # "blocked"
  BY ZenonT(30) DEF ReplyInv, Typed, ThreadKept, EndWait, ClientLabels

\* What a destruction does.
LEMMA DestructionPreserves ==
    ASSUME FiniteSetLaws PROVE ReplyInv /\ (\E s \in Sessions : Kernel(Destruction(s))) => ReplyInv'
\* CleanupRequests takes the current request or the first of the list.
<1>1. ASSUME ReplyInv, NEW s \in Sessions, Kernel(CleanupTake(s))
      PROVE  ReplyInv'
  <2> USE <1>1
  <2> USE DEF portVars, refVars, requestVars, clientVars, serverVars, Kernel
  <2> Typed'
    <3>1. lock' \in [Sessions -> Servers \cup Ends \cup {None}]
      BY DEF ReplyInv, Typed, CleanupTake, Ends
    <3>2. CASE current[s] # None
      <4> /\ inHand' \in [Sessions -> Clients \cup {None}]
          /\ current' \in [Sessions -> Clients \cup {None}]
          /\ requestList' \in [Sessions -> Seq(Clients)]
        BY <3>2, ZenonT(30) DEF ReplyInv, Typed, CleanupTake
      <4> QED
        BY <3>1 DEF ReplyInv, Typed, CleanupTake
    <3> CASE current[s] = None
      <4>1. requestList[s] \in Seq(Clients) /\ requestList[s] # <<>>
        BY DEF ReplyInv, Typed, CleanupTake
      <4> Head(requestList[s]) \in Clients /\ Tail(requestList[s]) \in Seq(Clients)
        BY <4>1, SMTT(30), Z3T(30)
      <4> /\ inHand' \in [Sessions -> Clients \cup {None}]
          /\ current' \in [Sessions -> Clients \cup {None}]
          /\ requestList' \in [Sessions -> Seq(Clients)]
        BY DEF ReplyInv, Typed, CleanupTake
      <4> QED
        BY <3>1 DEF ReplyInv, Typed, CleanupTake
    <3> QED
      BY <3>2
  <2> LockHeld'
    BY SessionAssumption, SMTT(30), Z3T(30) DEF ReplyInv, Typed, LockHeld, CleanupTake, None
  <2> \A c \in Clients : Held(c, s) => Held(c, s)'
    <3> SUFFICES ASSUME NEW c \in Clients, Held(c, s)
                 PROVE  Held(c, s)'
      OBVIOUS
    <3> inHand[s] = None /\ requestList[s] \in Seq(Clients)
      BY DEF ReplyInv, Typed, CleanupTake
    <3> CASE current[s] # None
      BY SessionAssumption, ZenonT(30) DEF ReplyInv, Typed, Held, CleanupTake
    <3> CASE current[s] = None
      <4> /\ requestList[s] # <<>>
          /\ requestList'[s] = Tail(requestList[s])
          /\ inHand'[s] = Head(requestList[s])
        BY DEF ReplyInv, Typed, CleanupTake
      <4> \E j \in DOMAIN requestList[s] : requestList[s][j] = c
        BY SessionAssumption DEF Held
      <4> QED
        BY HeadOrTail DEF Held
    <3> QED
      OBVIOUS
  <2> \A r \in Sessions \ {s} :
          /\ requestList'[r] = requestList[r]
          /\ current'[r] = current[r]
          /\ inHand'[r] = inHand[r]
    BY ZenonT(30) DEF ReplyInv, Typed, CleanupTake
  <2> UNCHANGED <<clientRefs, handle, end, state, requestThread, cpc, csession, terminating>>
    BY DEF CleanupTake
  <2> QED
    BY RequestStep
\* It ends the wait of the request's thread.
<1>2. ASSUME ReplyInv, NEW s \in Sessions, Kernel(CleanupEndWait(s))
      PROVE  ReplyInv'
  <2> USE <1>2
  <2> USE DEF portVars, refVars, endVars, requestVars, clientVars, serverVars, Kernel
  <2> EndWait(inHand[s], "SessionClosed")
    BY DEF CleanupEndWait
  <2> Typed'
    BY EndWaitStep DEF ReplyInv, Typed, CleanupEndWait
  <2> LockHeld'
    BY DEF ReplyInv, Typed, LockHeld, CleanupEndWait
  <2> \A c \in Clients : Held(c, s) => Held(c, s)' \/ cpc'[c] # "blocked"
    BY EndWaitStep, SMTT(30), Z3T(30) DEF ReplyInv, Typed, Held, CleanupEndWait
  <2> \A r \in Sessions \ {s} :
          /\ requestList'[r] = requestList[r]
          /\ current'[r] = current[r]
          /\ inHand'[r] = inHand[r]
    BY DEF ReplyInv, Typed, CleanupEndWait
  <2> UNCHANGED <<clientRefs, handle, end, state, requestThread, csession, terminating>>
    BY DEF CleanupEndWait
  <2> QED
    BY EndWaitStep, RequestStep, ZenonT(30)
\* A session whose client end is not open is in no call.
<1>3. ASSUME ReplyInv, NEW s \in Sessions, end[s]["client"] # "open"
      PROVE  /\ ~handle[s]
             /\ \A c \in Clients : cpc[c] \in InCall => csession[c] # s
  <2> USE <1>3
  <2> IsFiniteSet(Callers(s))
    BY SessionAssumption DEF Callers, FiniteSetLaws, SubsetLaw
  <2> Cardinality(Callers(s)) \in Nat
    BY DEF FiniteSetLaws, CardinalityLaw
  <2> clientRefs[s] = 0
    BY SMTT(30), Z3T(30) DEF ReplyInv, Typed, ClientHeld
  <2> Cardinality(Callers(s)) = 0 /\ ~handle[s]
    BY SMTT(30), Z3T(30) DEF ReplyInv, ClientHeld
  <2> Callers(s) = {}
    BY DEF FiniteSetLaws, EmptySetLaw
  <2> QED
    BY DEF Callers
\* A step of a destruction that moves end e of session s on.
<1>4. ASSUME ReplyInv, NEW s \in Sessions, NEW e \in Ends, NEW l,
             EndMoves(s, e, l),
             UNCHANGED <<clientRefs, handle, requestList, current, inHand, cpc, csession, terminating,
                         spc, serving>>,
             end[s][e] \notin {"none", "open"}, l # "none",
             state' \in [Sessions -> States],
             requestThread' \in [Clients -> BOOLEAN],
             lock' \in [Sessions -> Servers \cup Ends \cup {None}],
             ThreadKept', LockHeld', StateTested',
             \/ e = "client"
             \/ l \in {"destroy", "setState", "cleanup"}
             \/ \A c \in Clients : cpc[c] = "blocked" => csession[c] # s
      PROVE  ReplyInv'
  <2> USE <1>4
  <2> USE DEF ReplyInv, EndMoves
  <2> Typed'
    BY DEF Typed
  <2> ClientHeld'
    <3> \A r \in Sessions : Callers(r)' = Callers(r)
      BY DEF Callers
    <3> \A r \in Sessions :
            /\ clientRefs[r] > 0 => end'[r]["client"] = "open"
            /\ end'[r]["client"] = "none" => end[r]["client"] = "none"
      BY DEF ClientHeld, Ends
    <3> QED
      BY ZenonT(30) DEF ClientHeld
  <2> BlockedHeld'
    <3> SUFFICES ASSUME NEW c \in Clients, cpc[c] = "blocked"
                 PROVE  /\ Held(c, csession[c])'
                        /\ end'[csession[c]]["server"] \in {"open", "destroy", "setState", "cleanup"}
      BY DEF BlockedHeld
    <3> csession[c] \in Sessions
      BY DEF ClientHeld, InCall
    <3> /\ Held(c, csession[c])'
        /\ end[csession[c]]["server"] \in {"open", "destroy", "setState", "cleanup"}
      BY ZenonT(30) DEF BlockedHeld, Held
    <3> QED
      BY DEF Ends
  <2> QED
    OBVIOUS
\* OnClientClosed and OnServerClosed test the state and set it.
<1>5. ASSUME ReplyInv, NEW s \in Sessions, NEW e \in Ends,
             Kernel(TestState(s, e)) \/ Kernel(SetState(s, e))
      PROVE  ReplyInv'
  <2> USE <1>5
  <2> USE DEF refVars, requestVars, clientVars, serverVars, Kernel
  <2> \A r \in Sessions : end[r] \in [Ends -> EndLabels]
    BY DEF ReplyInv, Typed
  <2>1. CASE Kernel(TestState(s, e))
    <3> USE <2>1
    <3> PICK l : l = IF state[s] = "Normal" THEN "setState"
                     ELSE IF e = "client" THEN "closeParent" ELSE "cleanup"
      OBVIOUS
    <3> EndMoves(s, e, l)
      BY DEF ReplyInv, Typed, TestState, EndMoves, EndLabels
    <3> ThreadKept'
      BY DEF ReplyInv, ThreadKept, TestState
    <3> LockHeld'
      BY SMTT(30), Z3T(30) DEF ReplyInv, LockHeld, TestState, EndMoves, Ends
    <3> StateTested'
      BY DEF ReplyInv, StateTested, TestState, EndMoves, Ends
    <3> e = "client" \/ l \in {"destroy", "setState", "cleanup"}
      BY DEF Ends
    <3> l # "none" /\ end[s][e] \notin {"none", "open"}
      BY DEF TestState
    <3> QED
      BY <1>4 DEF ReplyInv, Typed, TestState
  <2> CASE Kernel(SetState(s, e))
    <3> PICK l : l = IF e = "client" THEN "current" ELSE "cleanup"
      OBVIOUS
    <3> EndMoves(s, e, l)
      BY ZenonT(30) DEF ReplyInv, Typed, SetState, EndMoves, EndLabels
    <3> ThreadKept'
      BY DEF ReplyInv, ThreadKept, SetState
    <3> LockHeld'
      BY SMTT(30), Z3T(30) DEF ReplyInv, LockHeld, SetState, EndMoves, Ends
    <3> StateTested'
      BY DEF ReplyInv, Typed, StateTested, SetState, EndMoves, Ends
    <3> e = "client" \/ l \in {"destroy", "setState", "cleanup"}
      BY DEF Ends
    <3> l # "none" /\ end[s][e] \notin {"none", "open"}
      BY DEF SetState
    <3> state' \in [Sessions -> States]
      BY DEF ReplyInv, Typed, SetState, States
    <3> QED
      BY <1>4 DEF ReplyInv, Typed, SetState
  <2> QED
    BY <2>1
\* KServerSession::OnClientClosed takes m_lock ...
<1>6. ASSUME ReplyInv, NEW s \in Sessions, Kernel(OnClientClosedCurrent(s))
      PROVE  ReplyInv'
  <2> USE <1>6
  <2> USE DEF refVars, requestVars, clientVars, serverVars, Kernel
  <2> \A r \in Sessions : end[r] \in [Ends -> EndLabels]
    BY DEF ReplyInv, Typed
  <2> EndMoves(s, "client", "sweep")
    BY DEF ReplyInv, Typed, OnClientClosedCurrent, EndMoves, EndLabels, Ends
  <2> /\ requestThread' \in [Clients -> BOOLEAN]
      /\ lock' \in [Sessions -> Servers \cup Ends \cup {None}]
    BY DEF ReplyInv, Typed, OnClientClosedCurrent, Ends
  <2> ThreadKept'
    BY DEF ReplyInv, Typed, ThreadKept, OnClientClosedCurrent
  <2> LockHeld'
    BY SessionAssumption, SMTT(30), Z3T(30) DEF ReplyInv, Typed, LockHeld, OnClientClosedCurrent, EndMoves,
       Ends,
       None
  <2> StateTested'
    BY DEF ReplyInv, StateTested, OnClientClosedCurrent, EndMoves, Ends
  <2> end[s]["client"] \notin {"none", "open"} /\ "client" \in Ends
    BY DEF OnClientClosedCurrent, Ends
  <2> QED
    BY <1>4, ZenonT(30) DEF ReplyInv, Typed, OnClientClosedCurrent
\* ... drops the queued requests, of which no thread waits for the reply ...
<1>7. ASSUME ReplyInv, NEW s \in Sessions, Kernel(OnClientClosedPop(s))
      PROVE  ReplyInv'
  <2> USE <1>7
  <2> USE DEF refVars, endVars, requestVars, clientVars, serverVars, Kernel
  <2> requestList[s] \in Seq(Clients) /\ requestList[s] # <<>>
    BY DEF ReplyInv, Typed, OnClientClosedPop
  <2> Tail(requestList[s]) \in Seq(Clients)
    BY SMTT(30), Z3T(30)
  <2> Typed'
    BY DEF ReplyInv, Typed, OnClientClosedPop
  <2> LockHeld'
    BY DEF ReplyInv, LockHeld, OnClientClosedPop
  <2> \A c \in Clients : cpc[c] = "blocked" => csession[c] # s
    BY <1>3 DEF OnClientClosedPop, InCall
  <2> \A r \in Sessions \ {s} :
          /\ requestList'[r] = requestList[r]
          /\ current'[r] = current[r]
          /\ inHand'[r] = inHand[r]
    BY DEF ReplyInv, Typed, OnClientClosedPop
  <2> UNCHANGED <<clientRefs, handle, end, state, requestThread, cpc, csession, terminating>>
    BY DEF OnClientClosedPop
  <2> QED
    BY RequestStep
\* ... and releases m_lock.
<1>8. ASSUME ReplyInv, NEW s \in Sessions, Kernel(OnClientClosedNotify(s))
      PROVE  ReplyInv'
  <2> USE <1>8
  <2> USE DEF refVars, requestVars, clientVars, serverVars, Kernel
  <2> \A r \in Sessions : end[r] \in [Ends -> EndLabels]
    BY DEF ReplyInv, Typed
  <2> EndMoves(s, "client", "closeParent")
    BY DEF ReplyInv, Typed, OnClientClosedNotify, EndMoves, EndLabels, Ends
  <2> lock' \in [Sessions -> Servers \cup Ends \cup {None}]
    BY DEF ReplyInv, Typed, OnClientClosedNotify
  <2> ThreadKept'
    BY DEF ReplyInv, ThreadKept, OnClientClosedNotify
  <2> LockHeld'
    BY SessionAssumption, SMTT(30), Z3T(30) DEF ReplyInv, Typed, LockHeld, OnClientClosedNotify, EndMoves,
       Ends,
       None
  <2> StateTested'
    BY DEF ReplyInv, StateTested, OnClientClosedNotify, EndMoves, Ends
  <2> end[s]["client"] \notin {"none", "open"} /\ "client" \in Ends
    BY DEF OnClientClosedNotify, Ends
  <2> QED
    BY <1>4, ZenonT(30) DEF ReplyInv, Typed, OnClientClosedNotify
\* CleanupRequests is over when no request is left, so nobody waits.
<1>9. ASSUME ReplyInv, NEW s \in Sessions, Kernel(CleanupDone(s))
      PROVE  ReplyInv'
  <2> USE <1>9
  <2> USE DEF refVars, requestVars, clientVars, serverVars, Kernel
  <2> \A r \in Sessions : end[r] \in [Ends -> EndLabels]
    BY DEF ReplyInv, Typed
  <2> EndMoves(s, "server", "closeParent")
    BY DEF ReplyInv, Typed, CleanupDone, EndMoves, EndLabels, Ends
  <2> lock' \in [Sessions -> Servers \cup Ends \cup {None}]
    BY DEF ReplyInv, Typed, CleanupDone
  <2> ThreadKept'
    BY DEF ReplyInv, ThreadKept, CleanupDone
  <2> LockHeld'
    BY SessionAssumption, SMTT(30), Z3T(30) DEF ReplyInv, Typed, LockHeld, CleanupDone, EndMoves, Ends, None
  <2> StateTested'
    BY DEF ReplyInv, StateTested, CleanupDone, EndMoves, Ends
  <2> end[s]["server"] \notin {"none", "open"} /\ "server" \in Ends
    BY DEF CleanupDone, Ends
  <2> \A c \in Clients : cpc[c] = "blocked" => csession[c] # s
    BY SessionAssumption, SMTT(30), Z3T(30) DEF ReplyInv, BlockedHeld, Held, CleanupDone
  <2> QED
    BY <1>4, ZenonT(30) DEF ReplyInv, Typed, CleanupDone
\* The ends close their parent, when nobody waits any more.
<1>10. ASSUME ReplyInv, NEW s \in Sessions, NEW e \in Ends,
              Kernel(CloseParent(s, e)) \/ Kernel(Finalize(s, e))
       PROVE  ReplyInv'
  <2> USE <1>10
  <2> USE DEF refVars, requestVars, clientVars, serverVars, Kernel
  <2> \A r \in Sessions : end[r] \in [Ends -> EndLabels]
    BY DEF ReplyInv, Typed
  <2> PICK l \in {"finalize", "closed"} : end' = [end EXCEPT ![s][e] = l]
    BY DEF CloseParent, Finalize
  <2> EndMoves(s, e, l)
    BY DEF ReplyInv, Typed, EndMoves, EndLabels
  <2> end[s][e] \in {"closeParent", "finalize"}
    BY DEF CloseParent, Finalize
  <2> UNCHANGED <<clientRefs, handle, state, lock, requestList, current, inHand, requestThread, cpc,
                  csession, terminating, spc, serving>>
    BY DEF CloseParent, Finalize
  <2> ThreadKept'
    BY DEF ReplyInv, ThreadKept
  <2> LockHeld'
    BY SMTT(30), Z3T(30) DEF ReplyInv, LockHeld, EndMoves, Ends
  <2> StateTested'
    BY DEF ReplyInv, StateTested, EndMoves, Ends
  <2> e = "client" \/ \A c \in Clients : cpc[c] = "blocked" => csession[c] # s
    BY DEF ReplyInv, BlockedHeld, Ends
  <2> QED
    BY <1>4, ZenonT(30) DEF ReplyInv, Typed
<1> SUFFICES ASSUME ReplyInv, NEW s \in Sessions,
                    Kernel(Destruction(s))
             PROVE  ReplyInv'
  OBVIOUS
<1> QED
  BY <1>5, <1>10, <1>6, <1>7, <1>8, <1>1,
     <1>2, <1>9 DEF Kernel, Destruction


\* The variables of the invariant that only clients and destructions change.
clientSide == <<clientRefs, handle, state, lock, requestList, current, inHand, requestThread,
                cpc, csession, terminating>>

\* A step that leaves all this alone, and in which no thread is through the first section
\* of ReceiveRequest; server sessions may begin to be destroyed.
Quiet ==
    /\ UNCHANGED clientSide
    /\ end' \in [Sessions -> [Ends -> EndLabels]]
    /\ \A s \in Sessions :
           /\ end'[s]["client"] = end[s]["client"]
           /\ end'[s]["server"] \in {end[s]["server"], "destroy"}
    /\ spc' \in [Servers -> ServerLabels]
    /\ serving' = [v \in Servers |-> serving'[v]]
    /\ \A v \in Servers : spc'[v] = "received" /\ serving'[v] \in Sessions =>
           spc[v] = "received" /\ serving'[v] = serving[v]

\* Such a step preserves the invariant.
LEMMA QuietStep ==
    ASSUME ReplyInv, Quiet
    PROVE  ReplyInv'
<1> USE DEF ReplyInv, Quiet, clientSide
<1> Typed'
  BY DEF Typed
<1> ClientHeld'
  <2> \A s \in Sessions : Callers(s)' = Callers(s)
    BY DEF Callers
  <2> QED
    BY ZenonT(30) DEF ClientHeld
<1> ThreadKept'
  BY DEF ThreadKept
<1> LockHeld'
  BY SMTT(30), Z3T(30) DEF LockHeld
<1> StateTested'
  BY DEF StateTested
<1> BlockedHeld'
  <2> \A c \in Clients : cpc[c] = "blocked" => csession[c] \in Sessions
    BY DEF ClientHeld, InCall
  <2> \A c \in Clients, s \in Sessions : Held(c, s)' = Held(c, s)
    BY DEF Held
  <2> QED
    BY DEF BlockedHeld
<1> QED
  OBVIOUS

\* Closing references to server sessions changes at most their server ends.
LEMMA DropEnds ==
    ASSUME Typed, NEW S, DropServerRefs(S)
    PROVE  /\ end' \in [Sessions -> [Ends -> EndLabels]]
           /\ \A s \in Sessions :
                  /\ end'[s]["client"] = end[s]["client"]
                  /\ end'[s]["server"] \in {end[s]["server"], "destroy"}
<1> DEFINE destroyed(s) == [end[s] EXCEPT !["server"] = "destroy"]
<1> \A s \in Sessions : end'[s] = end[s] \/ end'[s] = destroyed(s)
  BY DEF DropServerRefs
<1> \A s \in Sessions : end[s] \in [Ends -> EndLabels]
  BY DEF Typed
<1> \A s \in Sessions :
        /\ destroyed(s) \in [Ends -> EndLabels]
        /\ destroyed(s)["client"] = end[s]["client"]
        /\ destroyed(s)["server"] = "destroy"
  BY DEF Ends, EndLabels
<1> end' = [s \in Sessions |-> end'[s]]
  BY DEF DropServerRefs
<1> HIDE DEF destroyed
<1> end' \in [Sessions -> [Ends -> EndLabels]]
  OBVIOUS
<1> QED
  OBVIOUS

\* What a server thread does.
LEMMA ServerPreserves ==
    ReplyInv /\ (\E v \in Servers : ServerStep(v)) => ReplyInv'
\* A thread that goes on from somewhere else than ReceiveRequest, to somewhere else.
<1>1. ASSUME Typed, NEW v \in Servers, NEW l \in ServerLabels \ {"received"}, Goto(v, l),
             \/ UNCHANGED serving
             \/ \E x : serving' = [serving EXCEPT ![v] = x]
      PROVE  /\ spc' \in [Servers -> ServerLabels]
             /\ serving' = [w \in Servers |-> serving'[w]]
             /\ \A w \in Servers : spc'[w] = "received" =>
                    spc[w] = "received" /\ serving'[w] = serving[w]
  BY <1>1 DEF Typed, Goto
\* The steps of WaitAndProcessImpl and of the destructor other than those on a request.
<1>2. ASSUME ReplyInv, NEW v \in Servers,
             \/ LoopEnds(v) \/ LockServe(v) \/ ReturnStopped(v) \/ Gather(v)
             \/ WaitImmediate(v) \/ WaitBlock(v) \/ WaitFailed(v)
             \/ TakePort(v) \/ TakeSession(v) \/ ClearDeferral(v) \/ DrainDeferrals(v) \/ TakeEvent(v)
      PROVE  Quiet
  <2> USE <1>2
  <2> USE DEF ReplyInv, kernelVars, portVars, refVars, endVars, requestVars, clientVars, waitVars,
              clientSide, ServerLabels
  <2> end \in [Sessions -> [Ends -> EndLabels]]
    BY DEF Typed
  <2> CASE LoopEnds(v)
    BY <1>1 DEF LoopEnds, Quiet
  <2> CASE LockServe(v)
    BY <1>1 DEF LockServe, Quiet
  <2> CASE ReturnStopped(v)
    BY <1>1 DEF ReturnStopped, Quiet
  <2> CASE Gather(v)
    BY <1>1 DEF Gather, Quiet
  <2> CASE WaitImmediate(v)
    BY <1>1 DEF WaitImmediate, Quiet
  <2> CASE WaitBlock(v)
    BY <1>1 DEF WaitBlock, Quiet
  <2> CASE WaitFailed(v)
    BY <1>1, DropEnds DEF WaitFailed, CloseWaitObjs, Quiet
  <2> CASE TakePort(v)
    BY <1>1, DropEnds DEF TakePort, Woken, CloseWaitObjs, Quiet
  <2> CASE TakeSession(v)
    BY <1>1, DropEnds DEF TakeSession, Woken, CloseWaitObjs, Quiet
  <2> CASE ClearDeferral(v)
    BY <1>1, DropEnds DEF ClearDeferral, Woken, CloseWaitObjs, Quiet
  <2> CASE DrainDeferrals(v)
    BY <1>1 DEF DrainDeferrals, Quiet
  <2> CASE TakeEvent(v)
    BY <1>1, DropEnds DEF TakeEvent, Woken, CloseWaitObjs, Quiet
  <2> QED
    BY ZenonT(30)
\* The steps of OnPortEvent, OnSessionEvent and OnDeferralEvent that touch no request.
<1>3. ASSUME ReplyInv, NEW v \in Servers,
             \/ Accept(v) \/ TrackPort(v) \/ SignalEvent(v) \/ Defer(v) \/ Reinsert(v)
             \/ CloseSession(v) \/ CloseDone(v) \/ NextDeferral(v) \/ Leave(v) \/ LeaveDone(v)
      PROVE  Quiet
  <2> USE <1>3
  <2> USE DEF ReplyInv, kernelVars, portVars, refVars, endVars, requestVars, clientVars, waitVars,
              clientSide, ServerLabels
  <2> end \in [Sessions -> [Ends -> EndLabels]]
    BY DEF Typed
  <2> CASE Accept(v)
    BY <1>1 DEF Accept, AcceptSession, Quiet
  <2> CASE TrackPort(v)
    BY <1>1 DEF TrackPort, Quiet
  <2> CASE SignalEvent(v)
    BY <1>1 DEF SignalEvent, AfterSession, Quiet
  <2> CASE Defer(v)
    BY <1>1 DEF Defer, AfterSession, Quiet
  <2> CASE Reinsert(v)
    BY <1>1 DEF Reinsert, Quiet
  <2> CASE CloseSession(v)
    BY <1>1, DropEnds DEF CloseSession, DropServer, AfterSession, Quiet
  <2> CASE CloseDone(v)
    BY <1>1 DEF CloseDone, AfterSession, Quiet
  <2> CASE NextDeferral(v)
    BY <1>1 DEF NextDeferral, Quiet
  <2> CASE Leave(v)
    BY <1>1, DropEnds DEF Leave, DropServer, Quiet
  <2> CASE LeaveDone(v)
    BY <1>1 DEF LeaveDone, Quiet
  <2> QED
    OBVIOUS
\* ReceiveRequest's first section: the first request goes from the list into the hand of
\* the thread, which is empty since nobody has m_lock.
<1>4. ASSUME ReplyInv, NEW v \in Servers, Receive(v)
      PROVE  ReplyInv'
  <2> USE <1>4
  <2> USE DEF kernelVars, portVars, refVars, endVars, requestVars, clientVars
  <2>0. PICK s : s = serving[v]
    OBVIOUS
  <2>1. CASE ReceiveClosed(s) /\ Goto(v, "close")
    BY <2>0, <2>1, <1>1, QuietStep DEF ReplyInv, Typed, Receive, ReceiveClosed, Quiet,
       clientSide, ServerLabels
  <2>2. CASE ReceiveRequest(v, s) /\ Goto(v, "received") /\ s \in Sessions
    <3>1. Typed'
      BY <2>0, <2>2, SMTT(30), Z3T(30) DEF ReplyInv, Typed, Receive, ReceiveRequest, Goto, ServerLabels
    <3>2. inHand[s] = None
      BY <2>0, <2>2, SessionAssumption, ZenonT(30) DEF ReplyInv, LockHeld, ReceiveRequest, None
    <3>3. LockHeld'
      BY <2>0, <2>2, SessionAssumption, SMTT(30), Z3T(30) DEF ReplyInv, Typed, LockHeld, Receive,
         ReceiveRequest,
         Goto, None
    <3> \A c \in Clients : Held(c, s) => Held(c, s)'
      <4> SUFFICES ASSUME NEW c \in Clients, Held(c, s)
                   PROVE  Held(c, s)'
        OBVIOUS
      <4> /\ requestList[s] \in Seq(Clients)
          /\ requestList[s] # <<>>
          /\ requestList'[s] = Tail(requestList[s])
          /\ inHand'[s] = Head(requestList[s])
          /\ current'[s] = current[s]
        BY <2>2 DEF ReplyInv, Typed, ReceiveRequest
      <4>2. CASE current[s] = c
        BY <4>2 DEF Held
      <4> CASE \E j \in DOMAIN requestList[s] : requestList[s][j] = c
        BY HeadOrTail, ZenonT(30) DEF Held
      <4> QED
        BY <3>2, <4>2, SessionAssumption DEF Held
    <3> \A r \in Sessions \ {s} :
            /\ requestList'[r] = requestList[r]
            /\ current'[r] = current[r]
            /\ inHand'[r] = inHand[r]
      BY <2>0, <2>2 DEF ReplyInv, Typed, ReceiveRequest
    <3> UNCHANGED <<clientRefs, handle, end, state, requestThread, cpc, csession, terminating>>
      BY <2>0, <2>2 DEF ReceiveRequest
    <3> QED
      BY <2>0, <2>2, <3>1, <3>3, RequestStep, ZenonT(30)
  <2> CASE ReceiveRequest(v, s) /\ Goto(v, "received") /\ s \notin Sessions
    <3> lock' = lock /\ inHand' = inHand /\ requestList' = requestList
      BY NoSession DEF ReplyInv, ReceiveRequest
    <3> UNCHANGED clientSide /\ UNCHANGED <<end, serving>>
      BY DEF Receive, ReceiveRequest, clientSide
    <3> Quiet
      BY <2>0 DEF ReplyInv, Typed, Quiet, Goto, ServerLabels
    <3> QED
      BY QuietStep
  <2> QED
    BY <2>0, <2>1, <2>2 DEF Receive
\* Its end: the request becomes the current one, of which there is none.
<1>5. ASSUME ReplyInv, NEW v \in Servers, Received(v)
      PROVE  ReplyInv'
  <2> USE <1>5
  <2> USE DEF portVars, refVars, requestVars, clientVars
  <2> PICK s : s = serving[v]
    OBVIOUS
  <2> CASE s \in Sessions
    <3> Typed'
      BY DEF ReplyInv, Typed, Received, SetCurrent, Goto, ServerLabels
    <3> current[s] = None
      BY DEF ReplyInv, LockHeld, Received
    <3> LockHeld'
      BY SessionAssumption, SMTT(30), Z3T(30) DEF ReplyInv, Typed, LockHeld, Received, SetCurrent, Goto, None
    <3> \A c \in Clients : Held(c, s) => Held(c, s)'
      BY SessionAssumption DEF ReplyInv, Typed, Held, Received, SetCurrent
    <3> \A r \in Sessions \ {s} :
            /\ requestList'[r] = requestList[r]
            /\ current'[r] = current[r]
            /\ inHand'[r] = inHand[r]
      BY DEF ReplyInv, Typed, Received, SetCurrent
    <3> UNCHANGED <<clientRefs, handle, end, state, requestThread, cpc, csession, terminating>>
      BY DEF Received, SetCurrent
    <3> QED
      BY RequestStep, ZenonT(30)
  <2> CASE s \notin Sessions
    <3> lock' = lock /\ inHand' = inHand /\ current' = current
      BY NoSession DEF ReplyInv, Received, SetCurrent
    <3> UNCHANGED clientSide /\ UNCHANGED <<end, serving>>
      BY DEF Received, SetCurrent, clientSide
    <3> Quiet
      BY DEF ReplyInv, Typed, Received, Quiet, Goto, ServerLabels
    <3> QED
      BY QuietStep
  <2> QED
    OBVIOUS
\* SendReply's first section takes the current request; the hand is empty.
<1>6. ASSUME ReplyInv, NEW v \in Servers, Reply(v)
      PROVE  ReplyInv'
  <2> USE <1>6
  <2> USE DEF portVars, refVars, requestVars, clientVars
  <2> PICK s : s = serving[v]
    OBVIOUS
  <2> CASE s \in Sessions
    <3> Typed'
      BY DEF ReplyInv, Typed, Reply, SendReply, Goto, ServerLabels
    <3> inHand[s] = None
      BY SessionAssumption DEF ReplyInv, LockHeld, Reply, SendReply, None
    <3> LockHeld'
      BY SessionAssumption, SMTT(30), Z3T(30) DEF ReplyInv, Typed, LockHeld, Reply, SendReply, Goto, None
    <3> \A c \in Clients : Held(c, s) => Held(c, s)'
      BY SessionAssumption DEF ReplyInv, Typed, Held, Reply, SendReply
    <3> \A r \in Sessions \ {s} :
            /\ requestList'[r] = requestList[r]
            /\ current'[r] = current[r]
            /\ inHand'[r] = inHand[r]
      BY DEF ReplyInv, Typed, Reply, SendReply
    <3> UNCHANGED <<clientRefs, handle, end, state, requestThread, cpc, csession, terminating>>
      BY DEF Reply, SendReply
    <3> QED
      BY RequestStep
  <2> CASE s \notin Sessions
    <3> /\ lock' = [lock EXCEPT ![s] = v] /\ inHand' = [inHand EXCEPT ![s] = current[s]]
        /\ current' = [current EXCEPT ![s] = None]
      BY DEF Reply, SendReply
    <3> lock' = lock /\ inHand' = inHand /\ current' = current
      BY NoSession DEF ReplyInv
    <3> UNCHANGED clientSide /\ UNCHANGED <<end, serving>>
      BY DEF Reply, SendReply, clientSide
    <3> Quiet
      BY DEF ReplyInv, Typed, Reply, Quiet, Goto, ServerLabels
    <3> QED
      BY QuietStep
  <2> QED
    OBVIOUS
\* SendReply's end: the request in hand is closed, and its thread no longer waits.
<1>7. ASSUME ReplyInv, NEW v \in Servers, Replied(v)
      PROVE  ReplyInv'
  <2> USE <1>7
  <2> USE DEF portVars, refVars, requestVars, clientVars
  <2> PICK s : s = serving[v]
    OBVIOUS
  <2> EndWait(inHand[s], IF state[s] = "Normal" THEN "Success" ELSE "SessionClosed")
    BY DEF Replied, EndReply
  <2>2. Typed'
    BY EndWaitStep DEF ReplyInv, Typed, Replied, EndReply, Goto, ServerLabels
  <2>3. LockHeld'
    BY SessionAssumption, SMTT(30), Z3T(30) DEF ReplyInv, Typed, LockHeld, Replied, EndReply, Goto, None
  <2> \A c \in Clients : Held(c, s) => Held(c, s)' \/ cpc'[c] # "blocked"
    BY EndWaitStep, ZenonT(30) DEF ReplyInv, Typed, Held, Replied, EndReply
  <2> \A r \in Sessions \ {s} :
          /\ requestList'[r] = requestList[r]
          /\ current'[r] = current[r]
          /\ inHand'[r] = inHand[r]
    BY DEF ReplyInv, Typed, Replied, EndReply
  <2> UNCHANGED <<clientRefs, handle, end, state, requestThread, csession, terminating>>
    BY DEF Replied, EndReply
  <2> \A c \in Clients : cpc'[c] = cpc[c] \/ (cpc[c] = "blocked" /\ cpc'[c] = "return")
    BY EndWaitStep
  <2> QED
    BY <2>2, <2>3, RequestStep, ZenonT(30)
<1> SUFFICES ASSUME ReplyInv, NEW v \in Servers,
                    ServerStep(v)
             PROVE  ReplyInv'
  OBVIOUS
<1> QED
  BY <1>2, QuietStep, <1>3, <1>4, <1>5, <1>6, <1>7
     DEF ServerStep

LEMMA ReplyNext ==
    ASSUME FiniteSetLaws PROVE ReplyInv /\ [Next]_vars => ReplyInv'
\* The steps of the destructor and of the service manager, and stuttering.
<1>1. ASSUME ReplyInv, SignalDeferral \/ RequestStop \/ Destructor \/ UNCHANGED vars
      PROVE  Quiet
  <2> USE <1>1
  <2> USE DEF ReplyInv, kernelVars, portVars, refVars, endVars, requestVars, clientVars, waitVars,
              clientSide, serverVars
  <2> /\ end \in [Sessions -> [Ends -> EndLabels]]
      /\ spc \in [Servers -> ServerLabels]
      /\ serving = [v \in Servers |-> serving[v]]
    BY DEF Typed
  <2> CASE SignalDeferral
    BY DEF SignalDeferral, Quiet
  <2> CASE RequestStop
    BY DEF RequestStop, Quiet
  <2> CASE UNCHANGED vars
    BY DEF vars, Quiet
  <2> CASE StopSignal
    BY DEF StopSignal, Quiet
  <2> CASE ClosePort
    BY DEF ClosePort, Quiet
  <2> CASE CleanupSession
    <3> PICK s : end' = [end EXCEPT ![s]["server"] = IF serverRefs[s] = 1 THEN "destroy" ELSE @]
      BY DEF CleanupSession
    <3> \A r \in Sessions : end[r] \in [Ends -> EndLabels]
      OBVIOUS
    <3> /\ end' \in [Sessions -> [Ends -> EndLabels]]
        /\ \A r \in Sessions :
               /\ end'[r]["client"] = end[r]["client"]
               /\ end'[r]["server"] \in {end[r]["server"], "destroy"}
      BY DEF Ends, EndLabels
    <3> QED
      BY DEF CleanupSession, Quiet
  <2> CASE CleanupSessionsDone
    BY DEF CleanupSessionsDone, Quiet
  <2> CASE CloseTracked
    BY DropEnds DEF CloseTracked, DropServer, Quiet
  <2> CASE CloseDeferred
    BY DropEnds DEF CloseDeferred, DropServer, Quiet
  <2> CASE DestructorDone
    BY DEF DestructorDone, Quiet
  <2> QED
    BY ZenonT(30) DEF Destructor
<1> QED
  BY ClientPreserves, DestructionPreserves, ServerPreserves, <1>1, QuietStep DEF Next

\* A request that is held has a place.
LEMMA HeldPlace ==
    ASSUME NEW c, NEW s, Held(c, s)
    PROVE  Places(c, s) # {}
  BY DEF Places, Held

LEMMA BlockedFollows ==
    ReplyInv => BlockedRequestIsHeld
  BY HeldPlace DEF ReplyInv, BlockedHeld, BlockedRequestIsHeld

(***************************************************************************)
(* What a server thread works on.                                          *)
(***************************************************************************)

\* The labels of a thread that works on a session.
AtSession == {"track", "receive", "received", "complete", "endReply", "reinsert", "close", "closing"}

ServerTyped ==
    /\ sessionList \in Seq(Sessions)
    /\ deferrals \in Seq(Sessions)
    /\ drained \in [Servers -> Seq(Sessions)]
    /\ serving \in [Servers -> Sessions \cup {None}]
    /\ \A v \in Servers : spc[v] \in AtSession => serving[v] \in Sessions

\* A thread between the two sections of ReceiveRequest or of SendReply has a request.
Handed ==
    \A v \in Servers : spc[v] \in {"received", "endReply"} =>
        lock[serving[v]] = v /\ inHand[serving[v]] # None

ServerInv == ServerTyped /\ Handed

\* The lists of sessions.
LEMMA SessionSeqs ==
    /\ <<>> \in Seq(Sessions)
    /\ \A q \in Seq(Sessions) :
           /\ \A s \in Sessions : Append(q, s) \in Seq(Sessions)
           /\ q # <<>> => Head(q) \in Sessions /\ Tail(q) \in Seq(Sessions)
  BY SMTT(30), Z3T(30)

LEMMA ServerInvInit == Init => ServerInv
<1> SUFFICES ASSUME Init PROVE ServerInv
  OBVIOUS
<1> <<>> \in Seq(Sessions)
  BY SessionSeqs
<1> QED
  BY DEF Init, KernelInit, ServerInv, ServerTyped, Handed, AtSession

LEMMA ServerInvNext == ReplyInv /\ ServerInv /\ [Next]_vars => ServerInv'
\* A thread that goes on without m_lock.
<1>1. ASSUME ServerInv, Typed, NEW v \in Servers, NEW l \in ServerLabels \ {"received", "endReply"},
             Goto(v, l),
             UNCHANGED <<lock, inHand>>,
             \/ UNCHANGED serving
             \/ \E x \in Sessions \cup {None} : serving' = [serving EXCEPT ![v] = x],
             l \in AtSession => serving'[v] \in Sessions,
             sessionList' \in Seq(Sessions), deferrals' \in Seq(Sessions),
             drained' \in [Servers -> Seq(Sessions)]
      PROVE  ServerInv'
  <2> USE <1>1
  <2> /\ spc' = [spc EXCEPT ![v] = l] /\ spc \in [Servers -> ServerLabels]
      /\ serving \in [Servers -> Sessions \cup {None}]
    BY DEF Goto, Typed, ServerInv, ServerTyped
  <2> serving' \in [Servers -> Sessions \cup {None}]
    OBVIOUS
  <2> \A w \in Servers \ {v} : spc'[w] = spc[w] /\ serving'[w] = serving[w]
    OBVIOUS
  <2> spc'[v] = l
    OBVIOUS
  <2> \A w \in Servers : spc'[w] \in AtSession => serving'[w] \in Sessions
    BY DEF ServerInv, ServerTyped
  <2> Handed'
    <3> SUFFICES ASSUME NEW w \in Servers, spc'[w] \in {"received", "endReply"}
                 PROVE  lock[serving'[w]] = w /\ inHand[serving'[w]] # None
      BY DEF Handed
    <3> w # v
      OBVIOUS
    <3> QED
      BY DEF ServerInv, Handed
  <2> QED
    BY DEF ServerInv, ServerTyped
\* A step that leaves the server threads and what they hold alone.
<1>2. ASSUME ServerInv, UNCHANGED <<spc, serving, deferrals, drained>>, sessionList' \in Seq(Sessions),
             \A v \in Servers : spc[v] \in {"received", "endReply"} =>
                 lock'[serving[v]] = lock[serving[v]] /\ inHand'[serving[v]] = inHand[serving[v]]
      PROVE  ServerInv'
  BY <1>2 DEF ServerInv, ServerTyped, Handed
\* The steps of WaitAndProcessImpl.
<1>3. ASSUME ServerInv, Typed, NEW v \in Servers,
             \/ LoopEnds(v) \/ LockServe(v) \/ ReturnStopped(v) \/ Gather(v)
             \/ WaitImmediate(v) \/ WaitBlock(v) \/ WaitFailed(v)
             \/ TakePort(v) \/ TakeSession(v) \/ ClearDeferral(v) \/ DrainDeferrals(v) \/ TakeEvent(v)
      PROVE  ServerInv'
  <2> USE <1>3
  <2> USE DEF kernelVars, portVars, refVars, endVars, requestVars, managerVars
  <2> /\ sessionList \in Seq(Sessions) /\ deferrals \in Seq(Sessions)
      /\ drained \in [Servers -> Seq(Sessions)] /\ serving \in [Servers -> Sessions \cup {None}]
    BY DEF ServerInv, ServerTyped
  <2> /\ {"exited", "gather", "loop", "wait", "blocked", "accept", "drain", "leave", "deferred"}
              \subseteq (ServerLabels \ {"received", "endReply"}) \ AtSession
      /\ "receive" \in ServerLabels \ {"received", "endReply"}
    BY DEF ServerLabels, AtSession
  <2> CASE LoopEnds(v)
    BY <1>1 DEF LoopEnds
  <2> CASE LockServe(v)
    BY <1>1 DEF LockServe
  <2> CASE ReturnStopped(v)
    BY <1>1 DEF ReturnStopped
  <2> CASE Gather(v)
    BY <1>1 DEF Gather
  <2> CASE WaitImmediate(v)
    BY <1>1 DEF WaitImmediate
  <2> CASE WaitBlock(v)
    BY <1>1 DEF WaitBlock
  <2> CASE WaitFailed(v)
    BY <1>1 DEF WaitFailed, CloseWaitObjs
  <2> CASE TakePort(v)
    BY <1>1 DEF TakePort, Woken, CloseWaitObjs
  <2> CASE TakeSession(v)
    <3> PICK s \in Sessions : Woken(v, s) /\ serving' = [serving EXCEPT ![v] = s]
      BY DEF TakeSession
    <3> serving'[v] = s
      OBVIOUS
    <3> QED
      BY <1>1 DEF TakeSession, Woken, CloseWaitObjs
  <2> CASE ClearDeferral(v)
    BY <1>1 DEF ClearDeferral, Woken, CloseWaitObjs
  <2> CASE DrainDeferrals(v)
    BY SessionSeqs, <1>1 DEF DrainDeferrals
  <2> CASE TakeEvent(v)
    BY <1>1 DEF TakeEvent, Woken, CloseWaitObjs
  <2> QED
    BY ZenonT(30)
\* The steps of OnPortEvent, OnSessionEvent and OnDeferralEvent without m_lock.
<1>4. ASSUME ServerInv, Typed, NEW v \in Servers,
             \/ Accept(v) \/ TrackPort(v) \/ SignalEvent(v) \/ Defer(v) \/ Reinsert(v)
             \/ CloseSession(v) \/ CloseDone(v) \/ NextDeferral(v) \/ Leave(v) \/ LeaveDone(v)
      PROVE  ServerInv'
  <2> USE <1>4
  <2> USE DEF kernelVars, portVars, refVars, endVars, requestVars, managerVars
  <2> /\ sessionList \in Seq(Sessions) /\ deferrals \in Seq(Sessions)
      /\ drained \in [Servers -> Seq(Sessions)] /\ serving \in [Servers -> Sessions \cup {None}]
      /\ spc[v] \in AtSession => serving[v] \in Sessions
    BY DEF ServerInv, ServerTyped
  <2> /\ {"loop", "leave", "deferred", "signal", "leaving"}
              \subseteq (ServerLabels \ {"received", "endReply"}) \ AtSession
      /\ {"track", "closing", "complete"} \subseteq ServerLabels \ {"received", "endReply"}
      /\ {"close", "track", "complete"} \subseteq AtSession
      /\ AfterSession(v) \in {"deferred", "leave"}
    BY DEF ServerLabels, AtSession, AfterSession
  <2> CASE Accept(v)
    <3> PICK s \in Sessions : AcceptSession(s) /\ serving' = [serving EXCEPT ![v] = s]
      BY DEF Accept
    <3> serving'[v] = s
      OBVIOUS
    <3> QED
      BY SessionSeqs, <1>1 DEF Accept, AcceptSession
  <2> CASE TrackPort(v)
    BY <1>1 DEF TrackPort
  <2> CASE SignalEvent(v)
    BY <1>1 DEF SignalEvent
  <2> CASE Defer(v)
    BY SessionSeqs, <1>1 DEF Defer
  <2> CASE Reinsert(v)
    BY <1>1 DEF Reinsert
  <2> CASE CloseSession(v)
    BY <1>1 DEF CloseSession, DropServer
  <2> CASE CloseDone(v)
    BY <1>1 DEF CloseDone
  <2> CASE NextDeferral(v)
    <3> CASE drained[v] = <<>>
      BY <1>1 DEF NextDeferral
    <3> CASE drained[v] # <<>>
      <4> Head(drained[v]) \in Sessions /\ Tail(drained[v]) \in Seq(Sessions)
        BY SessionSeqs
      <4> /\ serving' = [serving EXCEPT ![v] = Head(drained[v])]
          /\ drained' = [drained EXCEPT ![v] = Tail(@)]
        BY DEF NextDeferral
      <4> serving'[v] \in Sessions /\ drained' \in [Servers -> Seq(Sessions)]
        OBVIOUS
      <4> QED
        BY <1>1 DEF NextDeferral
    <3> QED
      OBVIOUS
  <2> CASE Leave(v)
    BY <1>1 DEF Leave, DropServer
  <2> CASE LeaveDone(v)
    BY <1>1 DEF LeaveDone
  <2> QED
    OBVIOUS
\* The steps with m_lock: whoever else has it is in another session.
<1>5. ASSUME ServerInv, ReplyInv, NEW v \in Servers,
             Receive(v) \/ Received(v) \/ Reply(v) \/ Replied(v)
      PROVE  ServerInv'
  <2> USE <1>5
  <2> USE DEF kernelVars, portVars, refVars, endVars, requestVars, managerVars
  <2> /\ sessionList \in Seq(Sessions) /\ deferrals \in Seq(Sessions)
      /\ drained \in [Servers -> Seq(Sessions)] /\ serving \in [Servers -> Sessions \cup {None}]
      /\ \A w \in Servers : spc[w] \in AtSession => serving[w] \in Sessions
    BY DEF ServerInv, ServerTyped
  <2> PICK s : s = serving[v]
    OBVIOUS
  <2> /\ UNCHANGED <<sessionList, deferrals, drained, serving>>
      /\ spc[v] \in {"receive", "received", "complete", "endReply"}
    BY DEF Receive, ReceiveClosed, ReceiveRequest, Received, SetCurrent, Reply, SendReply, Replied,
       EndReply
  <2> s \in Sessions
    BY DEF AtSession
  <2> /\ spc \in [Servers -> ServerLabels] /\ lock \in [Sessions -> Servers \cup Ends \cup {None}]
      /\ inHand \in [Sessions -> Clients \cup {None}] /\ current[s] \in Clients \cup {None}
      /\ requestList[s] \in Seq(Clients)
    BY DEF ReplyInv, Typed
  <2> \A w \in Servers \ {v} : spc'[w] = spc[w]
    BY DEF Receive, Received, Reply, Replied, Goto
  <2> \A r \in Sessions \ {s} : lock'[r] = lock[r] /\ inHand'[r] = inHand[r]
    BY DEF Receive, ReceiveClosed, ReceiveRequest, Received, SetCurrent, Reply, SendReply, Replied,
       EndReply
  <2> lock[s] \in {None, v} \/ (lock'[s] = lock[s] /\ inHand'[s] = inHand[s])
    BY DEF Receive, ReceiveClosed, ReceiveRequest, Received, SetCurrent, Reply, SendReply, Replied,
       EndReply
  <2> ASSUME NEW w \in Servers \ {v}, spc'[w] \in {"received", "endReply"}
      PROVE  lock'[serving[w]] = w /\ inHand'[serving[w]] # None
    <3> lock[serving[w]] = w /\ inHand[serving[w]] # None /\ serving[w] \in Sessions
      BY DEF ServerInv, Handed, AtSession
    <3> w # None
      BY SessionAssumption
    <3> QED
      OBVIOUS
  <2> spc'[v] \in {"received", "endReply"} => lock'[s] = v /\ inHand'[s] # None
    BY SessionAssumption, SMTT(30), Z3T(30) DEF Receive, ReceiveClosed, ReceiveRequest, Goto, Received,
       Reply,
       SendReply, Replied
  <2> Handed'
    BY DEF Handed
  <2> \A w \in Servers : spc'[w] \in AtSession => serving'[w] \in Sessions
    OBVIOUS
  <2> QED
    BY DEF ServerInv, ServerTyped
\* The steps of clients and of the destructions; m_lock of a server thread is its own.
<1>6. ASSUME ServerInv, ReplyInv,
             \/ \E c \in Clients : Kernel(ClientCall(c) \/ ClientStep(c) \/ RequestTerminate(c))
             \/ \E s \in Sessions : Kernel(Destruction(s))
      PROVE  ServerInv'
  <2> USE <1>6
  <2> USE DEF portVars, refVars, endVars, requestVars
  <2> UNCHANGED <<spc, serving, deferrals, drained>>
    BY DEF Kernel, managerVars, serverVars
  <2> sessionList \in Seq(Sessions)
    BY DEF ServerInv, ServerTyped
  <2> ASSUME NEW c \in Clients, ClientCall(c) \/ ClientStep(c) \/ RequestTerminate(c)
      PROVE  ServerInv'
    <3> UNCHANGED <<lock, inHand>>
      BY DEF ClientCall, ClientStep, CreateSession, SendSyncRequest, CloseHandle, CountSession,
         CreateFails, EnqueueSession, EnqueueFails, UndoServer, OnRequestFails, OnRequest,
         ReturnRequest, ClientDone, RequestTerminate
    <3> UNCHANGED sessionList \/ EnqueueSession(c)
      BY DEF ClientCall, ClientStep, CreateSession, SendSyncRequest, CloseHandle, CountSession,
         CreateFails, EnqueueFails, UndoServer, OnRequestFails, OnRequest, ReturnRequest, ClientDone,
         RequestTerminate
    <3> EnqueueSession(c) => sessionList' = Append(sessionList, csession[c]) /\ csession[c] \in Sessions
      BY DEF EnqueueSession, ReplyInv, ClientHeld
    <3> QED
      BY SessionSeqs, <1>2
  <2> ASSUME NEW s \in Sessions, Destruction(s)
      PROVE  ServerInv'
    <3> UNCHANGED sessionList
      BY ZenonT(30) DEF Destruction, TestState, SetState, CloseParent, Finalize,
         OnClientClosedCurrent, OnClientClosedPop, OnClientClosedNotify, CleanupTake, CleanupEndWait,
         CleanupDone
    <3> /\ lock \in [Sessions -> Servers \cup Ends \cup {None}]
        /\ inHand \in [Sessions -> Clients \cup {None}]
        /\ end[s]["client"] = "sweep" => lock[s] = "client"
      BY DEF ReplyInv, Typed, LockHeld
    <3> \A r \in Sessions \ {s} : lock'[r] = lock[r] /\ inHand'[r] = inHand[r]
      BY ZenonT(30) DEF Destruction, TestState, SetState, CloseParent, Finalize,
         OnClientClosedCurrent, OnClientClosedPop, OnClientClosedNotify, CleanupTake, CleanupEndWait,
         CleanupDone
    <3> lock[s] \in {None, "client", "server"} \/ (lock'[s] = lock[s] /\ inHand'[s] = inHand[s])
      BY ZenonT(30) DEF Destruction, TestState, SetState, CloseParent, Finalize,
         OnClientClosedCurrent, OnClientClosedPop, OnClientClosedNotify, CleanupTake, CleanupEndWait,
         CleanupDone
    <3> ASSUME NEW v \in Servers, spc[v] \in {"received", "endReply"}
        PROVE  lock'[serving[v]] = lock[serving[v]] /\ inHand'[serving[v]] = inHand[serving[v]]
      <4> lock[serving[v]] = v /\ serving[v] \in Sessions
        BY DEF ServerInv, ServerTyped, Handed, AtSession
      <4> v \notin {None, "client", "server"}
        BY SessionAssumption
      <4> QED
        OBVIOUS
    <3> QED
      BY <1>2
  <2> QED
    BY DEF Kernel
\* The steps of the destructor and of the service manager, and stuttering.
<1>7. ASSUME ServerInv, SignalDeferral \/ RequestStop \/ Destructor \/ UNCHANGED vars
      PROVE  ServerInv'
  BY <1>7, SessionSeqs DEF kernelVars, portVars, refVars, endVars, requestVars, managerVars,
     serverVars, SignalDeferral, RequestStop, Destructor, vars, StopSignal, ClosePort,
     CleanupSession, CleanupSessionsDone, CloseTracked, CloseDeferred, DestructorDone, DropServer,
     ServerInv, ServerTyped, Handed
<1> QED
  BY <1>3, <1>4, <1>5, <1>6, <1>7
     DEF ReplyInv, ServerStep, Next

(***************************************************************************)
(* The reference counts of requests. A request has at most one place on    *)
(* the server's side, so the number of its places is 1 or 0 and no set has *)
(* to be counted until the end.                                            *)
(***************************************************************************)


Placed(c) == \E s \in Sessions : Held(c, s)

\* Within a session, a request is in one place once.
OnceIn(s) ==
    /\ Once(requestList[s])
    /\ current[s] # None => current[s] # inHand[s] /\ ~In(current[s], requestList[s])
    /\ inHand[s] # None => ~In(inHand[s], requestList[s])

\* A request with a place belongs to a thread that waits for it, or has been told to end;
\* so a thread that may send another one has none.
PlaceInv ==
    /\ requestRefs \in [Clients -> Int]
    /\ \A s \in Sessions : OnceIn(s)
    /\ \A c \in Clients, s, r \in Sessions : Held(c, s) /\ Held(c, r) => s = r
    /\ \A c \in Clients : Placed(c) => cpc[c] = "blocked" \/ terminating[c]
    /\ \A c \in Clients : requestRefs[c] =
           (IF Placed(c) THEN 1 ELSE 0) + (IF cpc[c] \in InCall THEN 1 ELSE 0)

\* What the places of session s are, for given contents of its variables.
LEMMA HeldIs ==
    \A c, s : /\ Held(c, s) <=> current[s] = c \/ inHand[s] = c \/ In(c, requestList[s])
              /\ Held(c, s)' <=> current'[s] = c \/ inHand'[s] = c \/ In(c, requestList'[s])
  BY DEF Held, In

LEMMA PlaceInit == Init => PlaceInv
<1> SUFFICES ASSUME Init PROVE PlaceInv
  OBVIOUS
<1> /\ requestList = [s \in Sessions |-> <<>>] /\ current = [s \in Sessions |-> None]
    /\ inHand = [s \in Sessions |-> None] /\ requestRefs = [c \in Clients |-> 0]
    /\ cpc = [c \in Clients |-> "idle"]
  BY DEF Init, KernelInit
<1> None \notin Clients
  BY SessionAssumption
<1> \A c \in Clients, s \in Sessions : ~Held(c, s)
  BY HeldIs, NotInEmpty
<1> \A c \in Clients : ~Placed(c) /\ cpc[c] \notin InCall
  BY DEF Placed, InCall
<1> \A s \in Sessions : OnceIn(s)
  BY NotInEmpty DEF OnceIn
<1> requestRefs \in [Clients -> Int]
  BY SmallSums
<1> \A c \in Clients : requestRefs[c] =
        (IF Placed(c) THEN 1 ELSE 0) + (IF cpc[c] \in InCall THEN 1 ELSE 0)
  BY SmallSums
<1> QED
  BY DEF PlaceInv

\* The count of a request that loses its place, or whose call ends.
LEMMA PlaceLost ==
    ASSUME NEW c, requestRefs[c] = 1 + (IF cpc[c] \in InCall THEN 1 ELSE 0),
           requestRefs'[c] = requestRefs[c] - 1
    PROVE  requestRefs'[c] = 0 + (IF cpc[c] \in InCall THEN 1 ELSE 0)
  BY SMTT(30), Z3T(30)

LEMMA CallEnds ==
    ASSUME NEW c, NEW n, requestRefs[c] = (IF Placed(c) THEN 1 ELSE 0) + 1, n = requestRefs[c] - 1
    PROVE  n = (IF Placed(c) THEN 1 ELSE 0) + 0
  BY SMTT(30), Z3T(30)

\* A step that leaves the places of requests alone, and their holders.
LEMMA PlaceStill ==
    ASSUME PlaceInv, UNCHANGED <<requestList, current, inHand, requestRefs>>,
           \A c \in Clients :
               /\ cpc'[c] \in InCall <=> cpc[c] \in InCall
               /\ cpc[c] = "blocked" \/ terminating[c] => cpc'[c] = "blocked" \/ terminating'[c]
    PROVE  PlaceInv'
<1> \A c, s : Held(c, s)' = Held(c, s)
  BY DEF Held
<1> \A c : Placed(c)' = Placed(c)
  BY DEF Placed
<1> \A s : OnceIn(s)' = OnceIn(s)
  BY DEF OnceIn
<1> \A c \in Clients : requestRefs'[c] =
        (IF Placed(c)' THEN 1 ELSE 0) + (IF cpc'[c] \in InCall THEN 1 ELSE 0)
  BY DEF PlaceInv
<1> QED
  BY DEF PlaceInv

\* In a step on session s, the other sessions keep their requests.
SameElsewhere(s) ==
    \A r \in Sessions \ {s} :
        /\ requestList'[r] = requestList[r]
        /\ current'[r] = current[r]
        /\ inHand'[r] = inHand[r]

LEMMA HeldSame ==
    ASSUME NEW s, SameElsewhere(s)
    PROVE  \A d : \A r \in Sessions \ {s} : Held(d, r)' <=> Held(d, r)
  BY DEF SameElsewhere, Held

LEMMA OnceInSame ==
    ASSUME NEW s, SameElsewhere(s), NEW r \in Sessions \ {s}, OnceIn(r)
    PROVE  OnceIn(r)'
  BY DEF SameElsewhere, OnceIn

\* What a client thread does.
LEMMA PlaceClient ==
    /\ PlaceInv /\ ReplyInv
    /\ \E c \in Clients : ClientCall(c) \/ ClientStep(c) \/ RequestTerminate(c)
    => PlaceInv'
\* A client thread that does not wait moves, and the places of requests stay.
<1>1. ASSUME PlaceInv, ReplyInv, NEW c \in Clients, NEW label, NEW n \in Int,
             UNCHANGED <<requestList, current, inHand, terminating>>, cpc[c] # "blocked",
             cpc' = [cpc EXCEPT ![c] = label], requestRefs' = [requestRefs EXCEPT ![c] = n],
             n = (IF Placed(c) THEN 1 ELSE 0) + (IF label \in InCall THEN 1 ELSE 0)
      PROVE  PlaceInv'
  <2> USE <1>1
  <2> \A d, s : Held(d, s)' = Held(d, s)
    BY DEF Held
  <2> \A d : Placed(d)' = Placed(d)
    BY DEF Placed
  <2> \A s : OnceIn(s)' = OnceIn(s)
    BY DEF OnceIn
  <2> cpc \in [Clients -> ClientLabels] /\ requestRefs \in [Clients -> Int]
    BY DEF ReplyInv, Typed, PlaceInv
  <2> requestRefs' \in [Clients -> Int]
    OBVIOUS
  <2> \A d \in Clients : requestRefs'[d] =
          (IF Placed(d)' THEN 1 ELSE 0) + (IF cpc'[d] \in InCall THEN 1 ELSE 0)
    BY DEF PlaceInv
  <2> \A d \in Clients : Placed(d)' => cpc'[d] = "blocked" \/ terminating'[d]
    BY DEF PlaceInv
  <2> QED
    BY DEF PlaceInv
\* CloseClient leaves the thread outside its call.
<1>2. ASSUME NEW c, NEW s, CloseClient(c, s)
      PROVE  \E label \in {"idle", "closing"} : cpc' = [cpc EXCEPT ![c] = label]
  BY <1>2 DEF CloseClient
\* A thread that is in its call, or is not, as it moves.
<1>3. ASSUME PlaceInv, ReplyInv, NEW c \in Clients, NEW label,
             UNCHANGED <<requestList, current, inHand, terminating, requestRefs>>,
             cpc[c] # "blocked", cpc[c] \in InCall <=> label \in InCall,
             cpc' = [cpc EXCEPT ![c] = label]
      PROVE  PlaceInv'
  BY <1>3, PlaceStill DEF ReplyInv, Typed
\* OnRequest: the list of the session has the request, which had no place.
<1>4. ASSUME PlaceInv, ReplyInv, NEW c \in Clients, OnRequest(c)
      PROVE  PlaceInv'
  <2> USE <1>4
  <2> PICK s : s = csession[c]
    OBVIOUS
  <2> DEFINE q == requestList[s]
  <2> /\ cpc[c] = "send" /\ ~terminating[c]
      /\ requestRefs' = [requestRefs EXCEPT ![c] = @ + 1]
      /\ requestList' = [requestList EXCEPT ![s] = Append(@, c)]
      /\ cpc' = [cpc EXCEPT ![c] = "blocked"]
      /\ UNCHANGED <<current, inHand, terminating>>
    BY DEF OnRequest
  <2> s \in Sessions
    BY DEF ReplyInv, ClientHeld, InCall
  <2> /\ cpc \in [Clients -> ClientLabels] /\ requestRefs \in [Clients -> Int]
      /\ requestList \in [Sessions -> Seq(Clients)] /\ OnceIn(s) /\ q \in Seq(Clients)
    BY DEF ReplyInv, Typed, PlaceInv
  <2> ~Placed(c)
    BY DEF PlaceInv
  <2> \A r \in Sessions : ~Held(c, r)
    BY DEF Placed
  <2> Once(q) /\ ~In(c, q)
    BY HeldIs DEF OnceIn
  <2> Once(Append(q, c)) /\ \A d : In(d, Append(q, c)) <=> d = c \/ In(d, q)
    BY OnceAppend
  <2> SameElsewhere(s) /\ requestList'[s] = Append(q, c)
    BY DEF SameElsewhere
  <2> HIDE DEF q
  <2> current[s] # c /\ inHand[s] # c
    BY HeldIs
  <2> OnceIn(s)'
    BY DEF OnceIn, q
  <2> \A d : Held(d, s)' <=> Held(d, s) \/ d = c
    BY HeldIs DEF q
  <2> \A d : \A r \in Sessions \ {s} : Held(d, r)' <=> Held(d, r)
    BY HeldSame
  <2> \A d \in Clients : Placed(d)' <=> Placed(d) \/ d = c
    BY DEF Placed
  <2> \A r \in Sessions : OnceIn(r)'
    <3> \A r \in Sessions \ {s} : OnceIn(r) => OnceIn(r)'
      BY OnceInSame
    <3> QED
      BY DEF PlaceInv
  <2> \A d \in Clients, r, t \in Sessions : Held(d, r)' /\ Held(d, t)' => r = t
    <3> \A d \in Clients \ {c}, r \in Sessions : Held(d, r)' <=> Held(d, r)
      OBVIOUS
    <3> \A r \in Sessions : Held(c, r)' => r = s
      OBVIOUS
    <3> QED
      BY DEF PlaceInv
  <2> cpc'[c] = "blocked" /\ \A d \in Clients \ {c} : cpc'[d] = cpc[d]
    OBVIOUS
  <2> \A d \in Clients : Placed(d)' => cpc'[d] = "blocked" \/ terminating'[d]
    BY DEF PlaceInv
  <2> requestRefs[c] = 0 + 1
    BY DEF PlaceInv, InCall
  <2> requestRefs'[c] = 1 + 1 /\ \A d \in Clients \ {c} : requestRefs'[d] = requestRefs[d]
    BY IntFacts
  <2> requestRefs' \in [Clients -> Int]
    BY IntFacts
  <2> \A d \in Clients : requestRefs'[d] =
         (IF Placed(d)' THEN 1 ELSE 0) + (IF cpc'[d] \in InCall THEN 1 ELSE 0)
    <3> \A d \in Clients \ {c} : requestRefs'[d] =
          (IF Placed(d)' THEN 1 ELSE 0) + (IF cpc'[d] \in InCall THEN 1 ELSE 0)
      BY DEF PlaceInv
    <3> Placed(c)' /\ cpc'[c] \in InCall
      BY DEF InCall
    <3> QED
      OBVIOUS
  <2> QED
    BY DEF PlaceInv
<1> SUFFICES ASSUME PlaceInv, ReplyInv, NEW c \in Clients,
                    ClientCall(c) \/ ClientStep(c) \/ RequestTerminate(c)
             PROVE  PlaceInv'
  OBVIOUS
<1> USE DEF requestVars
<1> cpc \in [Clients -> ClientLabels] /\ requestRefs \in [Clients -> Int]
    /\ requestRefs[c] = (IF Placed(c) THEN 1 ELSE 0) + (IF cpc[c] \in InCall THEN 1 ELSE 0)
  BY DEF ReplyInv, Typed, PlaceInv
<1> CASE \/ CreateSession(c) \/ CountSession(c) \/ CreateFails(c) \/ EnqueueSession(c)
         \/ EnqueueFails(c) \/ UndoServer(c) \/ ClientDone(c)
  BY <1>3 DEF CreateSession, CountSession, CreateFails, EnqueueSession, EnqueueFails,
     UndoServer, ClientDone, InCall
<1> CASE \E s \in Sessions : CloseHandle(c, s)
  <2> PICK s \in Sessions : CloseHandle(c, s)
    OBVIOUS
  <2> /\ UNCHANGED <<requestList, current, inHand, terminating, requestRefs>>
      /\ cpc[c] = "idle" /\ CloseClient(c, s)
    BY DEF CloseHandle
  <2> PICK label \in {"idle", "closing"} : cpc' = [cpc EXCEPT ![c] = label]
    BY <1>2
  <2> cpc[c] # "blocked" /\ cpc[c] \notin InCall /\ label \notin InCall
    BY DEF InCall
  <2> QED
    BY <1>3
<1> CASE OnRequestFails(c)
  BY <1>3 DEF OnRequestFails, InCall
<1> CASE \E s \in Sessions : SendSyncRequest(c, s)
  <2> /\ UNCHANGED <<requestList, current, inHand, terminating>>
      /\ cpc[c] = "idle" /\ cpc' = [cpc EXCEPT ![c] = "send"] /\ ~terminating[c]
      /\ requestRefs' = [requestRefs EXCEPT ![c] = 1]
    BY DEF SendSyncRequest
  <2> cpc[c] # "blocked" /\ "send" \in InCall
    BY DEF InCall
  <2> ~Placed(c)
    BY DEF PlaceInv
  <2> 1 = (IF Placed(c) THEN 1 ELSE 0) + (IF "send" \in InCall THEN 1 ELSE 0) /\ 1 \in Int
    BY SmallSums
  <2> QED
    BY <1>1
<1> CASE ReturnRequest(c)
  <2> /\ UNCHANGED <<requestList, current, inHand, terminating>>
      /\ cpc[c] = "return" /\ CloseClient(c, csession[c])
      /\ requestRefs' = [requestRefs EXCEPT ![c] = @ - 1]
    BY DEF ReturnRequest
  <2> PICK label \in {"idle", "closing"} : cpc' = [cpc EXCEPT ![c] = label]
    BY <1>2
  <2> cpc[c] # "blocked" /\ cpc[c] \in InCall /\ label \notin InCall
    BY DEF InCall
  <2> PICK n \in Int : n = requestRefs[c] - 1
    BY IntFacts
  <2> requestRefs' = [requestRefs EXCEPT ![c] = n]
    OBVIOUS
  <2> n = (IF Placed(c) THEN 1 ELSE 0) + (IF label \in InCall THEN 1 ELSE 0)
    <3> requestRefs[c] = (IF Placed(c) THEN 1 ELSE 0) + 1
      BY DEF PlaceInv
    <3> n = (IF Placed(c) THEN 1 ELSE 0) + 0
      BY CallEnds
    <3> QED
      OBVIOUS
  <2> QED
    BY <1>1
<1> CASE RequestTerminate(c)
  BY PlaceStill DEF RequestTerminate, ReplyInv, Typed, InCall
<1> QED
  BY <1>4 DEF ClientCall, ClientStep

LEMMA PlaceNext == ReplyInv /\ ServerInv /\ PlaceInv /\ [Next]_vars => PlaceInv'
\* A request goes from one place of session s to another.
<1>1. ASSUME PlaceInv, NEW s \in Sessions, SameElsewhere(s), UNCHANGED <<requestRefs, cpc, terminating>>,
             OnceIn(s)', \A c \in Clients : Held(c, s)' <=> Held(c, s)
      PROVE  PlaceInv'
  <2> USE <1>1
  <2> \A c \in Clients, r \in Sessions : Held(c, r)' <=> Held(c, r)
    <3> \A c \in Clients, r \in Sessions \ {s} : Held(c, r)' <=> Held(c, r)
      BY DEF Held, SameElsewhere
    <3> QED
      OBVIOUS
  <2> \A c \in Clients : Placed(c)' <=> Placed(c)
    BY DEF Placed
  <2> \A r \in Sessions : OnceIn(r)'
    BY OnceInSame DEF PlaceInv
  <2> \A c \in Clients : requestRefs'[c] =
          (IF Placed(c)' THEN 1 ELSE 0) + (IF cpc'[c] \in InCall THEN 1 ELSE 0)
    BY DEF PlaceInv
  <2> QED
    BY DEF PlaceInv
\* The request of d leaves session s, and d may be told.
<1>2. ASSUME PlaceInv, NEW s \in Sessions, SameElsewhere(s), UNCHANGED terminating, NEW d \in Clients,
             Held(d, s), OnceIn(s)', \A c \in Clients : Held(c, s)' <=> Held(c, s) /\ c # d,
             requestRefs' = [requestRefs EXCEPT ![d] = @ - 1],
             \A c \in Clients : \/ cpc'[c] = cpc[c]
                                \/ c = d /\ cpc[c] = "blocked" /\ cpc'[c] = "return"
      PROVE  PlaceInv'
  <2> USE <1>2
  <2> \A c \in Clients, r \in Sessions : Held(c, r)' <=> Held(c, r) /\ c # d
    <3> \A r \in Sessions \ {s} : ~Held(d, r)
      BY DEF PlaceInv
    <3> \A c \in Clients, r \in Sessions \ {s} : Held(c, r)' <=> Held(c, r)
      BY DEF Held, SameElsewhere
    <3> QED
      OBVIOUS
  <2> \A c \in Clients : Placed(c)' <=> Placed(c) /\ c # d
    BY DEF Placed
  <2> \A r \in Sessions : OnceIn(r)'
    <3> \A r \in Sessions \ {s} : OnceIn(r) => OnceIn(r)'
      BY OnceInSame
    <3> QED
      BY DEF PlaceInv
  <2> \A c \in Clients : cpc'[c] \in InCall <=> cpc[c] \in InCall
    BY DEF InCall
  <2> Placed(d) /\ requestRefs \in [Clients -> Int]
    BY DEF Placed, PlaceInv
  <2> requestRefs' \in [Clients -> Int]
    BY IntFacts
  <2> ASSUME NEW c \in Clients
      PROVE  requestRefs'[c] = (IF Placed(c)' THEN 1 ELSE 0) + (IF cpc'[c] \in InCall THEN 1 ELSE 0)
    <3> requestRefs[c] = (IF Placed(c) THEN 1 ELSE 0) + (IF cpc[c] \in InCall THEN 1 ELSE 0)
      BY DEF PlaceInv
    <3> CASE c # d
      OBVIOUS
    <3> CASE c = d
      <4> /\ requestRefs[c] = 1 + (IF cpc[c] \in InCall THEN 1 ELSE 0)
          /\ requestRefs'[c] = requestRefs[c] - 1 /\ ~Placed(c)'
        OBVIOUS
      <4> requestRefs'[c] = 0 + (IF cpc[c] \in InCall THEN 1 ELSE 0)
        BY PlaceLost
      <4> QED
        OBVIOUS
    <3> QED
      OBVIOUS
  <2> \A c \in Clients : Placed(c)' => cpc'[c] = "blocked" \/ terminating'[c]
    BY DEF PlaceInv
  <2> QED
    BY DEF PlaceInv
\* The first of the list goes to the hand, which is empty.
<1>3. ASSUME NEW s \in Sessions, OnceIn(s), requestList[s] \in Seq(Clients), requestList[s] # <<>>,
             inHand[s] = None, current[s] = None,
             inHand'[s] = Head(requestList[s]), requestList'[s] = Tail(requestList[s]),
             current'[s] = current[s]
      PROVE  OnceIn(s)' /\ \A c \in Clients : Held(c, s)' <=> Held(c, s)
  <2> USE <1>3
  <2> DEFINE q == requestList[s]
  <2> /\ Once(Tail(q)) /\ ~In(Head(q), Tail(q)) /\ Head(q) \in Clients
      /\ \A c : In(c, q) <=> c = Head(q) \/ In(c, Tail(q))
    BY OnceTail DEF OnceIn
  <2> None \notin Clients
    BY SessionAssumption
  <2> OnceIn(s)'
    BY DEF OnceIn
  <2> QED
    BY HeldIs
\* The current request goes to the hand.
<1>4. ASSUME NEW s \in Sessions, OnceIn(s), inHand[s] = None, current[s] \in Clients,
             inHand'[s] = current[s], current'[s] = None, requestList'[s] = requestList[s]
      PROVE  OnceIn(s)' /\ \A c \in Clients : Held(c, s)' <=> Held(c, s)
  BY <1>4, SessionAssumption, HeldIs DEF OnceIn
\* The hand becomes empty.
<1>5. ASSUME NEW s \in Sessions, OnceIn(s), inHand[s] \in Clients,
             inHand'[s] = None, current'[s] = current[s], requestList'[s] = requestList[s]
      PROVE  OnceIn(s)' /\ \A c \in Clients : Held(c, s)' <=> Held(c, s) /\ c # inHand[s]
  BY <1>5, SessionAssumption, HeldIs DEF OnceIn
\* EndWait moves no other thread.
<1>6. ASSUME ReplyInv, NEW d \in Clients, NEW result, EndWait(d, result)
      PROVE  \A c \in Clients : \/ cpc'[c] = cpc[c]
                                \/ c = d /\ cpc[c] = "blocked" /\ cpc'[c] = "return"
  BY <1>6 DEF ReplyInv, Typed, EndWait
\* ReceiveRequest and SendReply.
<1>7. ASSUME PlaceInv, ServerInv, ReplyInv, NEW v \in Servers,
             Receive(v) \/ Received(v) \/ Reply(v) \/ Replied(v)
      PROVE  PlaceInv'
  <2> USE <1>7
  <2> USE DEF kernelVars, portVars, refVars, endVars, requestVars, clientVars
  <2>1. PICK s : s = serving[v]
    OBVIOUS
  <2> s \in Sessions
    BY <2>1 DEF ServerInv, ServerTyped, AtSession, Receive, Received, Reply, Replied
  <2>3. /\ lock \in [Sessions -> Servers \cup Ends \cup {None}]
        /\ inHand \in [Sessions -> Clients \cup {None}] /\ current \in [Sessions -> Clients \cup {None}]
        /\ requestList \in [Sessions -> Seq(Clients)] /\ OnceIn(s)
        /\ inHand[s] # None => lock[s] \in Servers \cup {"server"}
    BY DEF ReplyInv, Typed, LockHeld, PlaceInv
  <2>4. lock[s] = None => inHand[s] = None
    BY <2>3, SessionAssumption DEF None
  <2>5. CASE Receive(v)
    BY <2>5, PlaceStill, <2>3, <2>4, <1>3, <1>1, <2>1 DEF ReceiveClosed, ReceiveRequest,
       SameElsewhere, Receive
  <2>6. CASE Received(v)
    <3> USE <2>6
    <3> /\ current' = [current EXCEPT ![s] = inHand[s]]
        /\ inHand' = [inHand EXCEPT ![s] = None]
        /\ UNCHANGED <<requestList, requestRefs, cpc, terminating>>
      BY <2>1 DEF Received, SetCurrent
    <3> current[s] = None
      BY <2>1 DEF ReplyInv, LockHeld, Received
    <3> SameElsewhere(s) /\ current'[s] = inHand[s] /\ inHand'[s] = None
      BY <2>3 DEF SameElsewhere
    <3> None \notin Clients
      BY SessionAssumption
    <3> OnceIn(s)' /\ \A c \in Clients : Held(c, s)' <=> Held(c, s)
      BY <2>3, HeldIs DEF OnceIn
    <3> QED
      BY <1>1
  <2>7. CASE Reply(v)
    BY <2>1, <2>7, <2>3, <2>4, <1>4, <1>1 DEF Reply, SendReply, SameElsewhere
  <2>8. CASE Replied(v)
    <3> /\ EndWait(inHand[s], IF state[s] = "Normal" THEN "Success" ELSE "SessionClosed")
        /\ requestRefs' = [requestRefs EXCEPT ![inHand[s]] = @ - 1]
        /\ inHand' = [inHand EXCEPT ![s] = None]
        /\ UNCHANGED <<requestList, current, terminating>>
      BY <2>1, <2>8 DEF Replied, EndReply
    <3> inHand[s] \in Clients
      BY <2>1, <2>3, <2>8 DEF ServerInv, Handed, Replied
    <3> SameElsewhere(s) /\ inHand'[s] = None
      BY <2>3 DEF SameElsewhere
    <3> OnceIn(s)' /\ \A c \in Clients : Held(c, s)' <=> Held(c, s) /\ c # inHand[s]
      BY <2>3, <1>5
    <3> \A c \in Clients : \/ cpc'[c] = cpc[c]
                           \/ c = inHand[s] /\ cpc[c] = "blocked" /\ cpc'[c] = "return"
      BY <1>6
    <3> Held(inHand[s], s)
      BY HeldIs
    <3> QED
      BY <1>2
  <2> QED
    BY <2>5, <2>6, <2>7, <2>8
\* The destruction of an end.
<1>8. ASSUME PlaceInv, ReplyInv, NEW s \in Sessions, Destruction(s)
      PROVE  PlaceInv'
  <2> USE <1>8
  <2> USE DEF requestVars, clientVars
  <2> /\ inHand \in [Sessions -> Clients \cup {None}] /\ current \in [Sessions -> Clients \cup {None}]
      /\ requestList \in [Sessions -> Seq(Clients)] /\ OnceIn(s)
    BY DEF ReplyInv, Typed, PlaceInv
  <2> CASE \/ \E e \in Ends : \/ TestState(s, e) \/ SetState(s, e)
                              \/ CloseParent(s, e) \/ Finalize(s, e)
           \/ OnClientClosedCurrent(s) \/ OnClientClosedNotify(s) \/ CleanupDone(s)
    BY PlaceStill DEF TestState, SetState, CloseParent, Finalize, OnClientClosedCurrent,
       OnClientClosedNotify, CleanupDone
  <2> CASE OnClientClosedPop(s)
    <3> DEFINE q == requestList[s]
               d == Head(q)
    <3> /\ q # <<>>
        /\ requestList' = [requestList EXCEPT ![s] = Tail(@)]
        /\ requestRefs' = [requestRefs EXCEPT ![d] = @ - 1]
        /\ UNCHANGED <<current, inHand, cpc, terminating>>
      BY DEF OnClientClosedPop
    <3> /\ Once(Tail(q)) /\ ~In(d, Tail(q)) /\ d \in Clients
        /\ \A c : In(c, q) <=> c = d \/ In(c, Tail(q))
      BY OnceTail DEF OnceIn
    <3> SameElsewhere(s) /\ requestList'[s] = Tail(q)
      BY DEF SameElsewhere
    <3> None \notin Clients
      BY SessionAssumption
    <3> OnceIn(s)' /\ \A c \in Clients : Held(c, s)' <=> Held(c, s) /\ c # d
      <4> OnceIn(s)'
        BY DEF OnceIn
      <4> current[s] # d /\ inHand[s] # d
        BY DEF OnceIn
      <4> HIDE DEF q, d
      <4> QED
        BY HeldIs DEF q
    <3> Held(d, s)
      BY HeldIs
    <3> HIDE DEF d
    <3> QED
      BY <1>2
  <2> CASE CleanupTake(s)
    BY <1>4, <1>1, <1>3 DEF CleanupTake, SameElsewhere
  <2> CASE CleanupEndWait(s)
    <3> /\ inHand[s] # None
        /\ EndWait(inHand[s], "SessionClosed")
        /\ requestRefs' = [requestRefs EXCEPT ![inHand[s]] = @ - 1]
        /\ inHand' = [inHand EXCEPT ![s] = None]
        /\ UNCHANGED <<requestList, current, terminating>>
      BY DEF CleanupEndWait
    <3> inHand[s] \in Clients
      OBVIOUS
    <3> SameElsewhere(s) /\ inHand'[s] = None
      BY DEF SameElsewhere
    <3> OnceIn(s)' /\ \A c \in Clients : Held(c, s)' <=> Held(c, s) /\ c # inHand[s]
      BY <1>5
    <3> \A c \in Clients : \/ cpc'[c] = cpc[c]
                           \/ c = inHand[s] /\ cpc[c] = "blocked" /\ cpc'[c] = "return"
      BY <1>6
    <3> Held(inHand[s], s)
      BY HeldIs
    <3> QED
      BY <1>2
  <2> QED
    BY DEF Destruction
\* The other steps leave the places alone.
<1>9. ASSUME PlaceInv,
             \/ \E v \in Servers :
                    \/ LoopEnds(v) \/ LockServe(v) \/ ReturnStopped(v) \/ Gather(v)
                    \/ WaitImmediate(v) \/ WaitBlock(v) \/ WaitFailed(v)
                    \/ TakePort(v) \/ TakeSession(v) \/ ClearDeferral(v) \/ DrainDeferrals(v)
                    \/ TakeEvent(v)
                    \/ Accept(v) \/ TrackPort(v) \/ SignalEvent(v) \/ Defer(v) \/ Reinsert(v)
                    \/ CloseSession(v) \/ CloseDone(v) \/ NextDeferral(v) \/ Leave(v) \/ LeaveDone(v)
             \/ SignalDeferral \/ RequestStop \/ Destructor \/ UNCHANGED vars
      PROVE  PlaceInv'
  <2> USE <1>9
  <2> USE DEF kernelVars, requestVars, clientVars
  <2> DEFINE still == UNCHANGED <<requestList, current, inHand, requestRefs, cpc, terminating>>
  <2> ASSUME NEW v \in Servers,
             \/ LoopEnds(v) \/ LockServe(v) \/ ReturnStopped(v) \/ Gather(v)
             \/ WaitImmediate(v) \/ WaitBlock(v) \/ WaitFailed(v)
             \/ TakePort(v) \/ TakeSession(v) \/ ClearDeferral(v) \/ DrainDeferrals(v) \/ TakeEvent(v)
      PROVE  still
    BY DEF LoopEnds, LockServe, ReturnStopped, Gather, WaitImmediate, WaitBlock, WaitFailed,
       TakePort,
       TakeSession, ClearDeferral, DrainDeferrals, TakeEvent, Woken, CloseWaitObjs
  <2> ASSUME NEW v \in Servers,
             \/ Accept(v) \/ TrackPort(v) \/ SignalEvent(v) \/ Defer(v) \/ Reinsert(v)
             \/ CloseSession(v) \/ CloseDone(v) \/ NextDeferral(v) \/ Leave(v) \/ LeaveDone(v)
      PROVE  still
    BY DEF Accept, AcceptSession, TrackPort, SignalEvent, Defer, Reinsert, CloseSession, DropServer,
       CloseDone, NextDeferral, Leave, LeaveDone
  <2> ASSUME SignalDeferral \/ RequestStop \/ Destructor \/ UNCHANGED vars
      PROVE  still
    BY DEF SignalDeferral, RequestStop, Destructor, StopSignal, ClosePort, CleanupSession,
       CleanupSessionsDone, CloseTracked, CloseDeferred, DestructorDone, DropServer, vars
  <2> still
    OBVIOUS
  <2> QED
    BY PlaceStill
<1> QED
  BY PlaceClient, <1>8, <1>9, <1>7 DEF Kernel, ServerStep, Next

\* The places of a request in a session that does not hold it, and in one that does.
LEMMA PlacesOf ==
    ASSUME NEW c \in Clients, NEW s, OnceIn(s)
    PROVE  /\ ~Held(c, s) => Places(c, s) = {}
           /\ Held(c, s) => \E p : Places(c, s) = {p}
<1> None \notin Clients
  BY SessionAssumption
<1> \A p : p \in Places(c, s) <=>
        \/ \E j \in DOMAIN requestList[s] : requestList[s][j] = c /\ p = <<"list", s, j>>
        \/ current[s] = c /\ p = <<"current", s, 0>>
        \/ inHand[s] = c /\ p = <<"inHand", s, 0>>
  BY DEF Places
<1> ASSUME ~Held(c, s)
    PROVE  Places(c, s) = {}
  BY DEF Held
<1> CASE current[s] = c
  <2> inHand[s] # c /\ ~In(c, requestList[s])
    BY DEF OnceIn
  <2> \A p : p \in Places(c, s) <=> p = <<"current", s, 0>>
    BY DEF In
  <2> Places(c, s) = {<<"current", s, 0>>}
    OBVIOUS
  <2> QED
    OBVIOUS
<1> CASE inHand[s] = c
  <2> current[s] # c /\ ~In(c, requestList[s])
    BY DEF OnceIn
  <2> \A p : p \in Places(c, s) <=> p = <<"inHand", s, 0>>
    BY DEF In
  <2> Places(c, s) = {<<"inHand", s, 0>>}
    OBVIOUS
  <2> QED
    OBVIOUS
<1> CASE In(c, requestList[s])
  <2> current[s] # c /\ inHand[s] # c
    BY DEF OnceIn
  <2> PICK j \in DOMAIN requestList[s] : requestList[s][j] = c
    BY DEF In
  <2> \A i \in DOMAIN requestList[s] : requestList[s][i] = c => i = j
    BY DEF OnceIn, Once
  <2> \A p : p \in Places(c, s) <=> p = <<"list", s, j>>
    OBVIOUS
  <2> Places(c, s) = {<<"list", s, j>>}
    OBVIOUS
  <2> QED
    OBVIOUS
<1> QED
  BY HeldIs

LEMMA RequestsFollow ==
    ASSUME FiniteSetLaws, PlaceInv
    PROVE  RequestsCounted
<1>1. ASSUME NEW c \in Clients
      PROVE  LET places == UNION {Places(c, s) : s \in Sessions} IN
             /\ requestRefs[c] = Cardinality(places)
                    + (IF cpc[c] \in {"send", "blocked", "return"} THEN 1 ELSE 0)
             /\ Cardinality(places) <= 1
  <2> DEFINE places == UNION {Places(c, s) : s \in Sessions}
  <2> requestRefs[c] = (IF Placed(c) THEN 1 ELSE 0) + (IF cpc[c] \in InCall THEN 1 ELSE 0)
    BY DEF PlaceInv
  <2> \A s \in Sessions : OnceIn(s)
    BY DEF PlaceInv
  <2>3. CASE ~Placed(c)
    <3> USE <2>3
    <3>1. \A s \in Sessions : Places(c, s) = {}
      BY PlacesOf DEF Placed
    <3>2. places = {}
      BY <3>1
    <3>3. Cardinality(places) = 0
      BY <3>2 DEF FiniteSetLaws, EmptySetLaw
    <3> HIDE DEF places
    <3> Cardinality(places) <= 1
      BY <3>3, SmallSums
    <3> requestRefs[c] = Cardinality(places) + (IF cpc[c] \in InCall THEN 1 ELSE 0)
      BY <3>3
    <3> QED
      BY DEF places, InCall
  <2>4. CASE Placed(c)
    <3> USE <2>4
    <3> PICK s \in Sessions : Held(c, s)
      BY DEF Placed
    <3> PICK p : Places(c, s) = {p}
      BY PlacesOf
    <3>3. \A r \in Sessions : r # s => Places(c, r) = {}
      BY PlacesOf DEF PlaceInv
    <3>4. \A r \in Sessions : \A x \in Places(c, r) : x = p
      BY <3>3
    <3>5. places = {p}
      BY <3>4
    <3>6. Cardinality(places) = 1
      BY <3>5 DEF FiniteSetLaws, SingletonLaw
    <3> HIDE DEF places
    <3> Cardinality(places) <= 1
      BY <3>6, SmallSums
    <3> requestRefs[c] = Cardinality(places) + (IF cpc[c] \in InCall THEN 1 ELSE 0)
      BY <3>6
    <3> QED
      BY DEF places, InCall
  <2> QED
    BY <2>3, <2>4
<1> QED
  BY <1>1 DEF RequestsCounted

(***************************************************************************)
(* A thread of the server manager goes through its loop with the mutex,    *)
(* with a wait object, or with a session.                                  *)
(***************************************************************************)


\* What a server thread has where it is.
ThreadHas(v) ==
    /\ serving[v] # None => spc[v] \in AtSession
    /\ gathered[v] # {} => spc[v] \in {"wait", "blocked"}
    /\ waitObj[v] # None => spc[v] \notin {"loop", "gather", "wait", "blocked", "exited"}
    /\ drained[v] # <<>> =>
           waitObj[v] = "deferral" /\ spc[v] \in AtSession \cup {"signal", "deferred"}
    /\ spc[v] = "drain" => waitObj[v] = "deferral"
    /\ spc[v] \in {"gather", "wait", "blocked", "drain"} => serveMutex = v

\* What it waits on is in the list it built, and tracked: a session leaves m_sessions
\* under the mutex, or when the threads are gone.
WaitHas(v) ==
    /\ gathered[v] \cap Sessions \subseteq tracked
    /\ waitSet[v] \subseteq gathered[v]
    /\ wokenBy[v] # None => wokenBy[v] \in gathered[v]

ThreadTyped ==
    /\ tracked \in SUBSET Sessions
    /\ gathered \in [Servers -> SUBSET Objects]
    /\ waitObj \in [Servers -> Objects \cup {None}]
    /\ waitSet \in [Servers -> SUBSET Objects]
    /\ wokenBy \in [Servers -> Objects \cup {None}]

ThreadInv ==
    /\ ThreadTyped
    /\ \A v \in Servers : ThreadHas(v) /\ WaitHas(v)
    /\ dpc \in {"cleanupPort", "sessions", "done"} => \A v \in Servers : spc[v] = "exited"

LEMMA ThreadInit == Init => ThreadInv
<1> SUFFICES ASSUME Init
             PROVE  ThreadInv
  OBVIOUS
<1> ThreadTyped
  BY DEF Init, KernelInit, ThreadTyped
<1> \A v \in Servers : ThreadHas(v) /\ WaitHas(v)
  BY DEF Init, KernelInit, ThreadHas, WaitHas
<1> dpc \notin {"cleanupPort", "sessions", "done"}
  BY DEF Init
<1> QED
  BY DEF ThreadInv

\* What a thread waits on stays as it was, or a wait on it ends.
WaitKept(w) ==
    /\ gathered'[w] = gathered[w]
    /\ waitSet'[w] \subseteq waitSet[w]
    /\ wokenBy'[w] = wokenBy[w] \/ wokenBy'[w] \in waitSet[w]

ThreadKeeps(w) ==
    /\ spc'[w] = spc[w] /\ serving'[w] = serving[w] /\ waitObj'[w] = waitObj[w]
    /\ drained'[w] = drained[w]

LEMMA ThreadNext == ReplyInv /\ ServerInv /\ ThreadInv /\ [Next]_vars => ThreadInv'
\* NotifyAvailable ends waits on the object.
<1>1. ASSUME ThreadInv, NEW o, NEW result, NEW signaled, Notify(o, result, signaled)
      PROVE  /\ waitSet' \in [Servers -> SUBSET Objects]
             /\ wokenBy' \in [Servers -> Objects \cup {None}]
             /\ \A w \in Servers : /\ waitSet'[w] \subseteq waitSet[w]
                                   /\ wokenBy'[w] = wokenBy[w] \/ wokenBy'[w] \in waitSet[w]
  BY <1>1 DEF Notify, ThreadInv, ThreadTyped
\* A thread that takes no step keeps what it has, while another has the mutex or nobody
\* gives up or takes what belongs to the mutex.
<1>2. ASSUME ThreadInv, NEW w \in Servers, ThreadKeeps(w), WaitKept(w),
             serveMutex # w \/ (serveMutex' = serveMutex /\ tracked \subseteq tracked')
      PROVE  ThreadHas(w)' /\ WaitHas(w)'
  BY <1>2 DEF ThreadInv, ThreadHas, ThreadKeeps, WaitKept, WaitHas
\* A step of thread v.
<1>3. ASSUME ThreadInv, NEW v \in Servers, spc[v] # "exited", UNCHANGED dpc, ThreadTyped',
             \A w \in Servers \ {v} : ThreadKeeps(w) /\ WaitKept(w),
             \/ serveMutex \in {None, v}
             \/ serveMutex' = serveMutex /\ tracked \subseteq tracked',
             ThreadHas(v)', WaitHas(v)'
      PROVE  ThreadInv'
  BY <1>3, SessionAssumption, <1>2 DEF ThreadInv
\* A step of thread v that keeps the list of its wait.
<1>4. ASSUME ThreadInv, NEW v \in Servers, spc[v] # "exited", UNCHANGED <<dpc, gathered>>,
             UNCHANGED <<waitSet, wokenBy>> \/ \E o, result, signaled : Notify(o, result, signaled),
             tracked \subseteq tracked', tracked' \subseteq Sessions,
             waitObj' \in [Servers -> Objects \cup {None}],
             \A w \in Servers \ {v} : ThreadKeeps(w),
             serveMutex \in {None, v} \/ serveMutex' = serveMutex,
             ThreadHas(v)'
      PROVE  ThreadInv'
  BY <1>4, <1>1, <1>3 DEF ThreadInv, ThreadTyped, WaitKept, WaitHas
\* The loop, outside the wait.
<1>5. ASSUME ThreadInv, ServerInv, ReplyInv, NEW v \in Servers,
             \/ LoopEnds(v) \/ LockServe(v) \/ ReturnStopped(v) \/ DrainDeferrals(v)
             \/ NextDeferral(v) \/ Leave(v) \/ LeaveDone(v)
      PROVE  ThreadInv'
  <2> USE <1>5
  <2> USE DEF managerVars, serverVars, destructorVars, kernelVars, waitVars
  <2> /\ spc \in [Servers -> ServerLabels] /\ serving \in [Servers -> Sessions \cup {None}]
      /\ drained \in [Servers -> Seq(Sessions)] /\ waitObj \in [Servers -> Objects \cup {None}]
      /\ tracked \subseteq Sessions /\ ThreadHas(v)
    BY DEF ReplyInv, Typed, ServerInv, ServerTyped, ThreadInv, ThreadTyped
  <2> CASE LoopEnds(v)
    BY <1>4 DEF LoopEnds, Goto, ThreadKeeps, ThreadHas, AtSession
  <2> CASE LockServe(v)
    BY <1>4 DEF LockServe, Goto, ThreadKeeps, ThreadHas, AtSession
  <2> CASE ReturnStopped(v)
    BY <1>4 DEF ReturnStopped, Goto, ThreadKeeps, ThreadHas, AtSession
  <2> CASE DrainDeferrals(v)
    BY <1>4 DEF DrainDeferrals, Goto, ThreadKeeps, ThreadHas, AtSession
  <2> CASE NextDeferral(v)
    BY <1>4 DEF NextDeferral, Goto, ThreadKeeps, ThreadHas, AtSession
  <2> CASE Leave(v) \/ LeaveDone(v)
    BY <1>4 DEF Leave, LeaveDone, DropServer, Goto, ThreadKeeps, ThreadHas, AtSession
  <2> QED
    OBVIOUS
\* The work on a session.
<1>6. ASSUME ThreadInv, ServerInv, ReplyInv, NEW v \in Servers,
             \/ Accept(v) \/ TrackPort(v) \/ SignalEvent(v) \/ Receive(v) \/ Received(v) \/ Defer(v)
             \/ Reply(v) \/ Replied(v) \/ Reinsert(v) \/ CloseSession(v) \/ CloseDone(v)
      PROVE  ThreadInv'
  <2> USE <1>6
  <2> USE DEF managerVars, serverVars, destructorVars, kernelVars, waitVars
  <2> /\ spc \in [Servers -> ServerLabels] /\ serving \in [Servers -> Sessions \cup {None}]
      /\ drained \in [Servers -> Seq(Sessions)] /\ waitObj \in [Servers -> Objects \cup {None}]
      /\ tracked \subseteq Sessions /\ ThreadHas(v)
      /\ spc[v] \in AtSession => serving[v] \in Sessions
    BY DEF ReplyInv, Typed, ServerInv, ServerTyped, ThreadInv, ThreadTyped
  <2> /\ spc[v] \in AtSession \cup {"accept", "signal"}
      /\ UNCHANGED <<dpc, gathered, waitObj, drained, serveMutex>>
      /\ UNCHANGED <<waitSet, wokenBy>> \/ \E o, result, signaled : Notify(o, result, signaled)
    BY DEF Accept, AcceptSession, TrackPort, SignalEvent, Receive, ReceiveClosed, ReceiveRequest,
       Received, SetCurrent, Defer, Reply, SendReply, Replied, EndReply, Reinsert, CloseSession,
       DropServer, CloseDone, AtSession
  <2> tracked' \in {tracked, tracked \cup {serving[v]}} /\ (tracked' # tracked => spc[v] \in AtSession)
    BY DEF Accept, TrackPort, SignalEvent, Receive, Received, Defer, Reply, Replied, Reinsert,
       CloseSession, CloseDone, AtSession
  <2> tracked \subseteq tracked' /\ tracked' \subseteq Sessions
    OBVIOUS
  <2> /\ spc' = [spc EXCEPT ![v] = spc'[v]] /\ serving' = [serving EXCEPT ![v] = serving'[v]]
      /\ \/ spc'[v] \in AtSession \cup {"signal"}
         \/ spc'[v] = AfterSession(v) /\ serving'[v] = None
      /\ spc'[v] = "signal" => serving'[v] = None
    <3> CASE Accept(v) \/ TrackPort(v) \/ SignalEvent(v) \/ Defer(v) \/ Reinsert(v)
      BY DEF ThreadHas, AtSession, Accept, TrackPort, SignalEvent, Defer, Reinsert, Goto
    <3> CASE Receive(v) \/ Received(v) \/ Reply(v) \/ Replied(v)
      BY DEF Receive, Received, Reply, Replied, Goto, AtSession
    <3> CASE CloseSession(v) \/ CloseDone(v)
      BY DEF CloseSession, CloseDone, Goto, AtSession
    <3> QED
      OBVIOUS
  <2> \A w \in Servers \ {v} : ThreadKeeps(w)
    BY DEF ThreadKeeps
  <2> ThreadHas(v)'
    BY DEF ThreadHas, AtSession, AfterSession
  <2> spc[v] # "exited" /\ waitObj' \in [Servers -> Objects \cup {None}]
    BY DEF AtSession
  <2> QED
    BY <1>4
\* What ends a wait at once is in the list.
<1>7. ASSUME NEW v
      PROVE  FirstSignaled(v) \subseteq gathered[v]
  BY <1>7 DEF FirstSignaled
\* The wait.
<1>8. ASSUME ThreadInv, ServerInv, ReplyInv, NEW v \in Servers,
             Gather(v) \/ WaitImmediate(v) \/ WaitBlock(v)
      PROVE  ThreadInv'
  <2> USE <1>8
  <2> USE DEF managerVars, serverVars, destructorVars, kernelVars, waitVars
  <2> /\ spc \in [Servers -> ServerLabels] /\ ThreadTyped /\ ThreadHas(v) /\ WaitHas(v)
    BY DEF ReplyInv, Typed, ThreadInv
  <2> /\ spc[v] \in {"gather", "wait"}
      /\ UNCHANGED <<dpc, waitObj, drained, serving, serveMutex, tracked>>
    BY DEF Gather, WaitImmediate, WaitBlock
  <2> serveMutex = v /\ serving[v] = None /\ drained[v] = <<>> /\ waitObj[v] = None
    BY DEF ThreadHas, AtSession
  <2> CASE Gather(v)
    <3> DEFINE G == tracked \cup (IF portTracked THEN {"port"} ELSE {}) \cup {"deferral", "event"}
    <3> spc[v] = "gather" /\ gathered' = [gathered EXCEPT ![v] = G] /\ Goto(v, "wait") /\ UNCHANGED <<waitSet, wokenBy>>
      BY DEF Gather
    <3> G \in SUBSET Objects /\ G \cap Sessions \subseteq tracked
      BY SessionAssumption DEF ThreadTyped, Objects
    <3> gathered[v] = {} /\ waitSet[v] = {} /\ wokenBy[v] = None
      BY DEF ThreadHas, WaitHas
    <3> HIDE DEF G
    <3> /\ ThreadTyped' /\ gathered'[v] = G /\ spc'[v] = "wait"
        /\ \A w \in Servers \ {v} : ThreadKeeps(w) /\ WaitKept(w)
      BY DEF ThreadTyped, Goto, ThreadKeeps, WaitKept
    <3> ThreadHas(v)'
      BY DEF ThreadHas
    <3> WaitHas(v)'
      BY DEF WaitHas
    <3> QED
      BY <1>3
  <2> CASE WaitImmediate(v) \/ WaitBlock(v)
    <3> /\ spc[v] = "wait" /\ UNCHANGED gathered /\ Goto(v, "blocked")
        /\ \/ UNCHANGED waitSet /\ \E o \in FirstSignaled(v) : wokenBy' = [wokenBy EXCEPT ![v] = o]
           \/ UNCHANGED wokenBy /\ waitSet' = [waitSet EXCEPT ![v] = gathered[v]]
      BY DEF WaitImmediate, WaitBlock
    <3> /\ gathered[v] \subseteq Objects /\ FirstSignaled(v) \subseteq gathered[v]
      BY <1>7 DEF ThreadTyped
    <3> /\ ThreadTyped' /\ spc'[v] = "blocked"
        /\ \A w \in Servers \ {v} : ThreadKeeps(w) /\ WaitKept(w)
      BY DEF ThreadTyped, Goto, ThreadKeeps, WaitKept
    <3> ThreadHas(v)'
      BY DEF ThreadHas
    <3> waitSet'[v] \in {waitSet[v], gathered[v]} /\ wokenBy'[v] \in {wokenBy[v]} \cup gathered[v]
      BY DEF ThreadTyped
    <3> WaitHas(v)'
      BY DEF WaitHas
    <3> QED
      BY <1>3
  <2> QED
    OBVIOUS
<1>9. ASSUME ThreadInv, ServerInv, ReplyInv, NEW v \in Servers,
             WaitFailed(v) \/ TakePort(v) \/ TakeSession(v) \/ ClearDeferral(v) \/ TakeEvent(v)
      PROVE  ThreadInv'
  <2> USE <1>9
  <2> USE DEF managerVars, serverVars, destructorVars, kernelVars, waitVars
  <2> /\ spc \in [Servers -> ServerLabels] /\ ThreadTyped /\ ThreadHas(v) /\ WaitHas(v)
      /\ serving \in [Servers -> Sessions \cup {None}]
    BY DEF ReplyInv, Typed, ThreadInv, ServerInv, ServerTyped
  <2> /\ spc[v] = "blocked" /\ waitSet[v] = {} /\ UNCHANGED <<dpc, drained, waitSet>>
      /\ gathered' = [gathered EXCEPT ![v] = {}] /\ wokenBy' = [wokenBy EXCEPT ![v] = None]
      /\ tracked' \subseteq tracked
    BY DEF WaitFailed, TakePort, TakeSession, ClearDeferral, TakeEvent, Woken, CloseWaitObjs
  <2> serveMutex = v /\ serving[v] = None /\ drained[v] = <<>> /\ waitObj[v] = None
    BY DEF ThreadHas, AtSession
  <2> \/ /\ Goto(v, "exited") /\ UNCHANGED <<waitObj, serving>>
      \/ /\ \E o \in {"port", "event"} : waitObj' = [waitObj EXCEPT ![v] = o]
         /\ \E label \in {"accept", "leave"} : Goto(v, label)
         /\ UNCHANGED serving
      \/ /\ waitObj' = [waitObj EXCEPT ![v] = "deferral"]
         /\ Goto(v, "drain") /\ UNCHANGED <<serving, serveMutex>>
      \/ \E s \in Sessions : /\ waitObj' = [waitObj EXCEPT ![v] = s]
                             /\ Goto(v, "receive")
                             /\ serving' = [serving EXCEPT ![v] = s]
    BY DEF WaitFailed, TakePort, TakeSession, ClearDeferral, TakeEvent, Woken
  <2> /\ "port" \in Objects /\ "event" \in Objects /\ "deferral" \in Objects
      /\ Sessions \subseteq Objects
    BY DEF Objects
  <2> /\ gathered'[v] = {} /\ wokenBy'[v] = None /\ waitSet'[v] = {}
      /\ \A w \in Servers \ {v} : WaitKept(w)
    BY DEF ThreadTyped, WaitKept
  <2> WaitHas(v)'
    BY DEF WaitHas
  <2> \A w \in Servers \ {v} : ThreadKeeps(w)
    BY DEF ThreadTyped, ThreadKeeps, Goto
  <2> waitObj' \in [Servers -> Objects \cup {None}]
    BY ZenonT(30) DEF ThreadTyped
  <2> ThreadTyped'
    BY DEF ThreadTyped
  <2> \/ spc'[v] = "exited" /\ waitObj'[v] = None /\ serving'[v] = None
      \/ spc'[v] \in {"accept", "leave"} /\ serving'[v] = None
      \/ spc'[v] = "drain" /\ waitObj'[v] = "deferral" /\ serving'[v] = None /\ serveMutex' = v
      \/ spc'[v] = "receive"
    BY DEF ThreadTyped, Goto
  <2> ThreadHas(v)'
    BY DEF ThreadHas, AtSession
  <2> QED
    BY <1>3
\* No thread takes a step.
<1>10. ASSUME ThreadInv, UNCHANGED <<spc, serving, gathered, waitObj, drained, serveMutex>>,
              UNCHANGED <<waitSet, wokenBy>> \/ \E o, result, signaled : Notify(o, result, signaled),
              tracked' \subseteq tracked,
              tracked' # tracked => \A v \in Servers : spc[v] = "exited",
              dpc' \in {"cleanupPort", "sessions", "done"} =>
                  \/ dpc \in {"cleanupPort", "sessions", "done"}
                  \/ \A v \in Servers : spc[v] = "exited"
       PROVE  ThreadInv'
  <2> USE <1>10
  <2> /\ waitSet' \in [Servers -> SUBSET Objects]
      /\ wokenBy' \in [Servers -> Objects \cup {None}]
      /\ \A w \in Servers : WaitKept(w) /\ ThreadKeeps(w)
    BY <1>1 DEF ThreadInv, ThreadTyped, WaitKept, ThreadKeeps
  <2> ThreadTyped'
    BY DEF ThreadInv, ThreadTyped
  <2> ASSUME NEW w \in Servers
      PROVE  ThreadHas(w)' /\ WaitHas(w)'
    BY DEF ThreadInv, ThreadHas, WaitHas, WaitKept
  <2> QED
    BY DEF ThreadInv
<1>11. ASSUME ThreadInv,
              \/ \E c \in Clients : Kernel(ClientCall(c) \/ ClientStep(c) \/ RequestTerminate(c))
              \/ \E s \in Sessions : Kernel(Destruction(s))
       PROVE  ThreadInv'
  <2> USE <1>11
  <2> UNCHANGED <<spc, serving, gathered, waitObj, drained, serveMutex, tracked, dpc>>
    BY DEF Kernel, managerVars, serverVars, destructorVars
  <2> UNCHANGED <<waitSet, wokenBy>> \/ \E o, result, signaled : Notify(o, result, signaled)
    <3> USE DEF waitVars
    <3> ASSUME NEW c \in Clients, ClientCall(c) \/ ClientStep(c) \/ RequestTerminate(c)
        PROVE  UNCHANGED <<waitSet, wokenBy>> \/ \E o, result, signaled : Notify(o, result, signaled)
      BY DEF EnqueueSession, OnRequest, ClientCall, RequestTerminate, CreateSession,
         SendSyncRequest,
         CloseHandle, CountSession, CreateFails, EnqueueFails, UndoServer, OnRequestFails,
         ReturnRequest, ClientDone, ClientStep
    <3> ASSUME NEW s \in Sessions, Destruction(s)
        PROVE  UNCHANGED <<waitSet, wokenBy>> \/ \E o, result, signaled : Notify(o, result, signaled)
      BY DEF OnClientClosedNotify, Destruction, TestState, SetState, CloseParent, Finalize,
         OnClientClosedCurrent, OnClientClosedPop, CleanupTake, CleanupEndWait, CleanupDone
    <3> QED
      BY DEF Kernel
  <2> QED
    BY <1>10
<1>12. ASSUME ThreadInv, SignalDeferral \/ RequestStop \/ Destructor \/ UNCHANGED vars
       PROVE  ThreadInv'
  BY <1>12, <1>10 DEF kernelVars, waitVars, managerVars, serverVars, destructorVars,
     SignalDeferral, RequestStop, Destructor, StopSignal, ClosePort, CleanupSession,
     CleanupSessionsDone, CloseTracked, CloseDeferred, DestructorDone, DropServer, vars, ThreadInv
<1> QED
  BY <1>5, <1>6, <1>8, <1>9, <1>11, <1>12
     DEF ServerStep, Next

(***************************************************************************)
(* The owners of server sessions: what a step does to the owner and the    *)
(* users of one.                                                           *)
(***************************************************************************)

\* The owners of server session s, by their kind.
Has(s, k, w) ==
    \/ k = "creator" /\ w \in Clients /\ csession[w] = s /\ cpc[w] \in {"enqueue", "undo"}
    \/ k = "port" /\ w = None /\ In(s, sessionList)
    \/ k = "tracked" /\ w = None /\ s \in tracked
    \/ k = "deferred" /\ w = None /\ In(s, deferrals)
    \/ k = "drained" /\ w \in Servers /\ In(s, drained[w])
    \/ k = "serving" /\ w \in Servers /\ serving[w] = s /\ spc[w] # "closing"

Owned(s) == \E k, w : Has(s, k, w)

\* One owner, and a reference for it and for each thread.
SessionOwned(s) ==
    /\ \A k, l, w, x : Has(s, k, w) /\ Has(s, l, x) => k = l /\ w = x
    /\ IsFiniteSet(Users(s))
    /\ serverRefs[s] = (IF Owned(s) THEN 1 ELSE 0) + Cardinality(Users(s))
    /\ end[s]["server"] = "open" <=> serverRefs[s] > 0
    /\ \A w : Has(s, "creator", w) => serverRefs[s] = 1
    /\ end[s]["client"] = "none" => end[s]["server"] = "none"

OwnerInv ==
    /\ serverRefs \in [Sessions -> Int]
    /\ Once(sessionList) /\ Once(deferrals)
    /\ \A v \in Servers : Once(drained[v])
    /\ \A s \in Sessions : SessionOwned(s)

LEMMA OwnerInit ==
    ASSUME FiniteSetLaws PROVE Init => OwnerInv
<1>1. SUFFICES ASSUME Init PROVE OwnerInv
  OBVIOUS
<1> /\ serverRefs = [s \in Sessions |-> 0] /\ end = [s \in Sessions |-> [e \in Ends |-> "none"]]
    /\ sessionList = <<>> /\ cpc = [c \in Clients |-> "idle"]
  BY <1>1 DEF Init, KernelInit
<1> /\ tracked = {} /\ deferrals = <<>> /\ drained = [v \in Servers |-> <<>>]
    /\ serving = [v \in Servers |-> None] /\ gathered = [v \in Servers |-> {}]
    /\ waitObj = [v \in Servers |-> None]
  BY <1>1 DEF Init
<1> Once(<<>>) /\ \A r : ~In(r, <<>>)
  BY NotInEmpty
<1> serverRefs \in [Sessions -> Int]
  BY SmallSums
<1> ASSUME NEW s \in Sessions
    PROVE  SessionOwned(s)
  <2> None \notin Sessions
    BY SessionAssumption
  <2> \A k, w : ~Has(s, k, w)
    BY DEF Has
  <2> Users(s) = {}
    BY DEF Users
  <2> IsFiniteSet(Users(s)) /\ Cardinality(Users(s)) = 0
    BY DEF FiniteSetLaws, EmptySetLaw
  <2> ~Owned(s)
    BY DEF Owned
  <2> serverRefs[s] = 0 /\ end[s]["server"] = "none"
    BY DEF Ends
  <2> 0 = 0 + 0 /\ ~(0 > 0)
    BY SmallSums
  <2> serverRefs[s] = (IF Owned(s) THEN 1 ELSE 0) + Cardinality(Users(s))
    OBVIOUS
  <2> end[s]["server"] = "open" <=> serverRefs[s] > 0
    OBVIOUS
  <2> QED
    BY DEF SessionOwned
<1> QED
  BY DEF OwnerInv

OwnerBecomes(s, k1, w1) == \A k, w : Has(s, k, w)' <=> k = k1 /\ w = w1

EndKept(s) ==
    /\ end'[s]["server"] = "open" <=> end[s]["server"] = "open"
    /\ end'[s]["client"] = "none" => end[s]["client"] = "none"
    /\ end[s]["server"] = "none" => end'[s]["server"] = "none"

\* Who drops the last reference destroys the session.
EndDropped(s) ==
    end'[s] = IF serverRefs[s] = 1 THEN [end[s] EXCEPT !["server"] = "destroy"] ELSE end[s]

RefsKept(s) == Users(s)' = Users(s) /\ serverRefs'[s] = serverRefs[s] /\ EndKept(s)


OwnerKept(s) == \A k, w : Has(s, k, w)' <=> Has(s, k, w)

Kept(s) == OwnerKept(s) /\ RefsKept(s)

Made(s) ==
    /\ Free(s)
    /\ \E c : OwnerBecomes(s, "creator", c)
    /\ Users(s)' = Users(s)
    /\ serverRefs'[s] = 1
    /\ end'[s] = [e \in Ends |-> "open"]

\* The numbers behind SessionOwned.
LEMMA OwnedNumbers ==
    ASSUME FiniteSetLaws, NEW s, SessionOwned(s)
    PROVE  /\ Cardinality(Users(s)) \in Nat
           /\ serverRefs[s] \in Nat
           /\ Owned(s) => serverRefs[s] = 1 + Cardinality(Users(s))
           /\ ~Owned(s) => serverRefs[s] = Cardinality(Users(s))
           /\ \A v \in Users(s) : Cardinality(Users(s)) > 0
<1> /\ IsFiniteSet(Users(s))
    /\ serverRefs[s] = (IF Owned(s) THEN 1 ELSE 0) + Cardinality(Users(s))
  BY DEF SessionOwned
<1> Cardinality(Users(s)) \in Nat
  BY DEF FiniteSetLaws, CardinalityLaw
<1> Owned(s) => serverRefs[s] = 1 + Cardinality(Users(s))
  OBVIOUS
<1> ~Owned(s) => serverRefs[s] = Cardinality(Users(s))
  <2> 0 + Cardinality(Users(s)) = Cardinality(Users(s))
    BY NatFacts
  <2> QED
    OBVIOUS
<1> 1 + Cardinality(Users(s)) \in Nat
  BY NatFacts
<1> \A v \in Users(s) : Cardinality(Users(s)) > 0
  <2> Users(s) # {} => Cardinality(Users(s)) # 0
    BY DEF FiniteSetLaws, EmptySetLaw
  <2> Cardinality(Users(s)) # 0 => Cardinality(Users(s)) > 0
    BY NatFacts
  <2> QED
    OBVIOUS
<1> QED
  OBVIOUS

\* Nobody has a session that is not in use.
LEMMA FreeUnowned ==
    ASSUME FiniteSetLaws, NEW s, SessionOwned(s), Free(s)
    PROVE  ~Owned(s) /\ Cardinality(Users(s)) = 0
<1> ~(serverRefs[s] > 0)
  BY DEF SessionOwned, Free
<1> Cardinality(Users(s)) \in Nat /\ serverRefs[s] \in Nat
  BY OwnedNumbers
<1> ~Owned(s)
  <2> SUFFICES ASSUME Owned(s) PROVE FALSE
    OBVIOUS
  <2> serverRefs[s] = 1 + Cardinality(Users(s))
    BY OwnedNumbers
  <2> 1 + Cardinality(Users(s)) > 0
    BY IntFacts
  <2> QED
    OBVIOUS
<1> serverRefs[s] = Cardinality(Users(s))
  BY OwnedNumbers
<1> QED
  BY NatFacts

Passed(s) ==
    /\ Owned(s)
    /\ \E k1, w1 : k1 # "creator" /\ OwnerBecomes(s, k1, w1)
    /\ RefsKept(s)

Joined(s, v) ==
    /\ OwnerKept(s)
    /\ \A w : ~Has(s, "creator", w)
    /\ Owned(s)
    /\ v \notin Users(s) /\ Users(s)' = Users(s) \cup {v}
    /\ serverRefs'[s] = serverRefs[s] + 1
    /\ EndKept(s)

Dropped(s, v) ==
    /\ OwnerKept(s)
    /\ v \in Users(s) /\ Users(s)' = Users(s) \ {v}
    /\ serverRefs'[s] = serverRefs[s] - 1
    /\ EndDropped(s)

GivenUp(s) ==
    /\ Owned(s) /\ ~Owned(s)'
    /\ Users(s)' = Users(s)
    /\ serverRefs'[s] = serverRefs[s] - 1
    /\ EndDropped(s)

LEMMA KeptStep ==
    ASSUME NEW s, SessionOwned(s), Kept(s)
    PROVE  SessionOwned(s)'
<1> Owned(s)' <=> Owned(s)
  BY DEF Kept, OwnerKept, Owned
<1> \A k, l, w, x : Has(s, k, w)' /\ Has(s, l, x)' => k = l /\ w = x
  BY DEF Kept, OwnerKept, SessionOwned
<1> \A w : Has(s, "creator", w)' => serverRefs'[s] = 1
  BY DEF Kept, OwnerKept, RefsKept, SessionOwned
<1> serverRefs'[s] = (IF Owned(s)' THEN 1 ELSE 0) + Cardinality(Users(s)')
  BY DEF Kept, RefsKept, SessionOwned
<1> QED
  BY DEF Kept, RefsKept, EndKept, SessionOwned

LEMMA PassedStep ==
    ASSUME NEW s, SessionOwned(s), Passed(s)
    PROVE  SessionOwned(s)'
<1> PICK k1, w1 : k1 # "creator" /\ OwnerBecomes(s, k1, w1)
  BY DEF Passed
<1> \A k, w : Has(s, k, w)' <=> k = k1 /\ w = w1
  BY DEF OwnerBecomes
<1> Owned(s)' /\ Owned(s)
  BY DEF Owned, Passed
<1> ASSUME NEW k, NEW l, NEW w, NEW x, Has(s, k, w)', Has(s, l, x)'
    PROVE  k = l /\ w = x
  <2> k = k1 /\ w = w1
    OBVIOUS
  <2> l = k1 /\ x = w1
    OBVIOUS
  <2> QED
    OBVIOUS
<1> \A w : ~Has(s, "creator", w)'
  OBVIOUS
<1> serverRefs'[s] = (IF Owned(s)' THEN 1 ELSE 0) + Cardinality(Users(s)')
  BY DEF Passed, RefsKept, SessionOwned
<1> QED
  BY DEF Passed, RefsKept, EndKept, SessionOwned

LEMMA JoinedStep ==
    ASSUME FiniteSetLaws, NEW s, SessionOwned(s), NEW v, Joined(s, v)
    PROVE  SessionOwned(s)'
<1> Owned(s)' /\ Owned(s)
  BY DEF Joined, OwnerKept, Owned
<1> \A k, l, w, x : Has(s, k, w)' /\ Has(s, l, x)' => k = l /\ w = x
  BY DEF Joined, OwnerKept, SessionOwned
<1> \A w : ~Has(s, "creator", w)'
  BY DEF Joined, OwnerKept
<1> IsFiniteSet(Users(s)') /\ Cardinality(Users(s)') = Cardinality(Users(s)) + 1
  <2> IsFiniteSet(Users(s)) /\ v \notin Users(s) /\ Users(s)' = Users(s) \cup {v}
    BY DEF Joined, SessionOwned
  <2> QED
    BY DEF FiniteSetLaws, AddElementLaw
<1> /\ Cardinality(Users(s)) \in Nat /\ serverRefs[s] = 1 + Cardinality(Users(s))
  BY OwnedNumbers
<1> serverRefs'[s] = serverRefs[s] + 1
  BY DEF Joined
<1> serverRefs'[s] = 1 + Cardinality(Users(s)') /\ serverRefs'[s] > 0 /\ serverRefs[s] > 0
  BY OwnedJoin
<1> serverRefs'[s] = (IF Owned(s)' THEN 1 ELSE 0) + Cardinality(Users(s)')
  OBVIOUS
<1> QED
  BY DEF Joined, EndKept, SessionOwned

\* The end of a session that loses a reference.
LEMMA EndDroppedOpen ==
    ASSUME NEW s \in Sessions, end[s] \in [Ends -> EndLabels], SessionOwned(s), EndDropped(s), serverRefs[s] > 0
    PROVE  /\ end'[s]["server"] = "open" <=> serverRefs[s] # 1
           /\ end'[s]["client"] = "none" => end'[s]["server"] = "none"
  BY DEF SessionOwned, EndDropped, Ends

LEMMA DroppedStep ==
    ASSUME FiniteSetLaws, NEW s \in Sessions, end[s] \in [Ends -> EndLabels], SessionOwned(s), NEW v, Dropped(s, v)
    PROVE  SessionOwned(s)'
<1> Owned(s)' <=> Owned(s)
  BY DEF Dropped, OwnerKept, Owned
<1> \A k, l, w, x : Has(s, k, w)' /\ Has(s, l, x)' => k = l /\ w = x
  BY DEF Dropped, OwnerKept, SessionOwned
<1> IsFiniteSet(Users(s)') /\ Cardinality(Users(s)') = Cardinality(Users(s)) - 1
  BY DEF Dropped, SessionOwned, FiniteSetLaws, RemoveElementLaw
<1> /\ Cardinality(Users(s)) \in Nat /\ Cardinality(Users(s)) > 0
    /\ Owned(s) => serverRefs[s] = 1 + Cardinality(Users(s))
    /\ ~Owned(s) => serverRefs[s] = Cardinality(Users(s))
  BY OwnedNumbers DEF Dropped
<1> serverRefs'[s] = serverRefs[s] - 1
  BY DEF Dropped
<1> /\ Owned(s) => serverRefs'[s] = 1 + Cardinality(Users(s)')
    /\ ~Owned(s) => serverRefs'[s] = 0 + Cardinality(Users(s)')
    /\ serverRefs[s] > 0 /\ (serverRefs'[s] > 0 <=> serverRefs[s] # 1)
    /\ Owned(s) => serverRefs[s] # 1
  <2> CASE Owned(s)
    <3> serverRefs[s] = 1 + Cardinality(Users(s))
      OBVIOUS
    <3> /\ serverRefs'[s] = 1 + Cardinality(Users(s)') /\ serverRefs[s] > 0
        /\ serverRefs[s] # 1 /\ serverRefs'[s] > 0
      BY OwnedDrop
    <3> QED
      OBVIOUS
  <2> CASE ~Owned(s)
    BY UnownedDrop
  <2> QED
    OBVIOUS
<1> serverRefs'[s] = (IF Owned(s)' THEN 1 ELSE 0) + Cardinality(Users(s)')
  OBVIOUS
<1> \A w : ~Has(s, "creator", w)'
  BY DEF Dropped, OwnerKept, SessionOwned, Owned
<1> /\ end'[s]["server"] = "open" <=> serverRefs'[s] > 0
    /\ end'[s]["client"] = "none" => end'[s]["server"] = "none"
  BY EndDroppedOpen DEF Dropped
<1> QED
  BY DEF SessionOwned

LEMMA GivenUpStep ==
    ASSUME FiniteSetLaws, NEW s \in Sessions, end[s] \in [Ends -> EndLabels], SessionOwned(s), GivenUp(s)
    PROVE  SessionOwned(s)'
<1> ~Owned(s)' /\ Owned(s) /\ Users(s)' = Users(s) /\ serverRefs'[s] = serverRefs[s] - 1
  BY DEF GivenUp
<1> \A k, w : ~Has(s, k, w)'
  BY DEF Owned
<1> Cardinality(Users(s)) \in Nat /\ serverRefs[s] = 1 + Cardinality(Users(s))
  BY OwnedNumbers
<1> /\ serverRefs'[s] = 0 + Cardinality(Users(s)')
    /\ serverRefs[s] > 0 /\ (serverRefs'[s] > 0 <=> serverRefs[s] # 1)
  BY OwnerDrop
<1> serverRefs'[s] = (IF Owned(s)' THEN 1 ELSE 0) + Cardinality(Users(s)')
  OBVIOUS
<1> /\ end'[s]["server"] = "open" <=> serverRefs'[s] > 0
    /\ end'[s]["client"] = "none" => end'[s]["server"] = "none"
  BY EndDroppedOpen DEF GivenUp
<1> QED
  BY DEF SessionOwned

LEMMA MadeStep ==
    ASSUME FiniteSetLaws, NEW s, SessionOwned(s), Made(s)
    PROVE  SessionOwned(s)'
<1> PICK c : OwnerBecomes(s, "creator", c)
  BY DEF Made
<1> \A k, w : Has(s, k, w)' <=> k = "creator" /\ w = c
  BY DEF OwnerBecomes
<1> Owned(s)'
  BY DEF Owned
<1> ASSUME NEW k, NEW l, NEW w, NEW x, Has(s, k, w)', Has(s, l, x)'
    PROVE  k = l /\ w = x
  <2> k = "creator" /\ w = c
    OBVIOUS
  <2> l = "creator" /\ x = c
    OBVIOUS
  <2> QED
    OBVIOUS
<1> Users(s)' = Users(s) /\ serverRefs'[s] = 1 /\ IsFiniteSet(Users(s))
  BY DEF Made, SessionOwned
<1> Cardinality(Users(s)) = 0
  BY FreeUnowned DEF Made
<1> serverRefs'[s] = (IF Owned(s)' THEN 1 ELSE 0) + Cardinality(Users(s)')
  BY SmallSums
<1> end'[s]["server"] = "open" /\ end'[s]["client"] = "open"
  BY DEF Made, Ends
<1> 1 > 0
  BY SmallSums
<1> QED
  BY DEF SessionOwned

LEMMA OwnerStep ==
    ASSUME FiniteSetLaws, OwnerInv, ReplyInv, serverRefs' \in [Sessions -> Int],
           Once(sessionList'), Once(deferrals'), \A v \in Servers : Once(drained'[v]),
           \A s \in Sessions : \/ Kept(s) \/ Passed(s) \/ GivenUp(s) \/ Made(s)
                               \/ \E v \in Servers : Joined(s, v) \/ Dropped(s, v)
    PROVE  OwnerInv'
  BY KeptStep, PassedStep, GivenUpStep, MadeStep, JoinedStep, DroppedStep DEF OwnerInv, ReplyInv,
     Typed

\* The parts of Has and of Users, and what keeps them.
CreatorKept(s) ==
    \A c \in Clients : csession'[c] = s /\ cpc'[c] \in {"enqueue", "undo"}
                       <=> csession[c] = s /\ cpc[c] \in {"enqueue", "undo"}

ListsKept(s) ==
    /\ In(s, sessionList') <=> In(s, sessionList)
    /\ s \in tracked' <=> s \in tracked
    /\ In(s, deferrals') <=> In(s, deferrals)
    /\ \A v \in Servers : In(s, drained'[v]) <=> In(s, drained[v])

ServingKept(s) ==
    \A v \in Servers : serving'[v] = s /\ spc'[v] # "closing" <=> serving[v] = s /\ spc[v] # "closing"

UsesKept(s) ==
    \A v \in Servers : /\ s \in gathered'[v] <=> s \in gathered[v]
                       /\ waitObj'[v] = s /\ spc'[v] # "leaving" <=> waitObj[v] = s /\ spc[v] # "leaving"

LEMMA OwnerParts ==
    ASSUME NEW s, CreatorKept(s), ListsKept(s), ServingKept(s)
    PROVE  OwnerKept(s)
<1> ASSUME NEW k, NEW w
    PROVE  Has(s, k, w)' <=> Has(s, k, w)
  BY DEF Has, CreatorKept, ListsKept, ServingKept
<1> QED
  BY DEF OwnerKept

LEMMA UsersParts ==
    ASSUME NEW s, UsesKept(s)
    PROVE  Users(s)' = Users(s)
  BY DEF UsesKept, Users

\* A step that leaves all that alone.
LEMMA OwnersStill ==
    ASSUME FiniteSetLaws, OwnerInv, ReplyInv, UNCHANGED <<sessionList, tracked, deferrals, drained, serverRefs>>,
           \A s \in Sessions : EndKept(s) /\ CreatorKept(s) /\ ServingKept(s) /\ UsesKept(s)
    PROVE  OwnerInv'
  BY OwnerParts, UsersParts, OwnerStep DEF OwnerInv, ListsKept, Kept, RefsKept

\* Who has a session gives it to another.
LEMMA HandOver ==
    ASSUME NEW s, SessionOwned(s), NEW k0, NEW w0, NEW k1, NEW w1,
           Has(s, k0, w0), ~Has(s, k0, w0)', Has(s, k1, w1)',
           \A k, w : Has(s, k, w)' => Has(s, k, w) \/ (k = k1 /\ w = w1)
    PROVE  OwnerBecomes(s, k1, w1) /\ Owned(s)
<1> Owned(s)
  BY DEF Owned
<1> \A k, w : Has(s, k, w) => k = k0 /\ w = w0
  BY DEF SessionOwned
<1> ASSUME NEW k, NEW w, Has(s, k, w)'
    PROVE  k = k1 /\ w = w1
  <2> Has(s, k, w) \/ (k = k1 /\ w = w1)
    OBVIOUS
  <2> CASE Has(s, k, w)
    <3> k = k0 /\ w = w0
      OBVIOUS
    <3> Has(s, k0, w0)'
      OBVIOUS
    <3> QED
      OBVIOUS
  <2> QED
    OBVIOUS
<1> QED
  BY DEF OwnerBecomes

\* One session passes from an owner to another, and no reference is opened or closed.
LEMMA PassOne ==
    ASSUME FiniteSetLaws, OwnerInv, ReplyInv, NEW s \in Sessions, UNCHANGED <<serverRefs, end>>,
           Once(sessionList'), Once(deferrals'), \A v \in Servers : Once(drained'[v]),
           \A r \in Sessions : UsesKept(r),
           \A r \in Sessions \ {s} : CreatorKept(r) /\ ListsKept(r) /\ ServingKept(r),
           NEW k0, NEW w0, NEW k1, NEW w1, k1 # "creator",
           Has(s, k0, w0), ~Has(s, k0, w0)', Has(s, k1, w1)',
           \A k, w : Has(s, k, w)' => Has(s, k, w) \/ (k = k1 /\ w = w1)
    PROVE  OwnerInv'
<1> serverRefs' \in [Sessions -> Int] /\ \A r \in Sessions : SessionOwned(r)
  BY DEF OwnerInv
<1> \A r \in Sessions : RefsKept(r)
  BY UsersParts DEF RefsKept, EndKept
<1> \A r \in Sessions \ {s} : Kept(r)
  BY OwnerParts DEF Kept
<1> OwnerBecomes(s, k1, w1) /\ Owned(s)
  BY HandOver
<1> Passed(s)
  BY DEF Passed
<1> QED
  BY OwnerStep

\* Who has a session gives it up.
LEMMA LetGo ==
    ASSUME NEW s, SessionOwned(s), NEW k0, NEW w0,
           Has(s, k0, w0), ~Has(s, k0, w0)', \A k, w : Has(s, k, w)' => Has(s, k, w)
    PROVE  Owned(s) /\ ~Owned(s)'
  BY DEF SessionOwned, Owned

\* Its owner closes a session.
LEMMA CloseOne ==
    ASSUME FiniteSetLaws, OwnerInv, ReplyInv, NEW s \in Sessions,
           serverRefs' \in [Sessions -> Int],
           serverRefs'[s] = serverRefs[s] - 1, EndDropped(s),
           \A r \in Sessions \ {s} : serverRefs'[r] = serverRefs[r] /\ EndKept(r),
           Once(sessionList'), Once(deferrals'), \A v \in Servers : Once(drained'[v]),
           \A r \in Sessions : UsesKept(r),
           \A r \in Sessions \ {s} : CreatorKept(r) /\ ListsKept(r) /\ ServingKept(r),
           NEW k0, NEW w0, Has(s, k0, w0), ~Has(s, k0, w0)',
           \A k, w : Has(s, k, w)' => Has(s, k, w)
    PROVE  OwnerInv'
  BY OwnerParts, UsersParts, LetGo, OwnerStep DEF OwnerInv, Kept, RefsKept, GivenUp

LEMMA OwnersClients ==
    ASSUME FiniteSetLaws
    PROVE  /\ OwnerInv /\ ReplyInv /\ ServerInv /\ ThreadInv
           /\ \E c \in Clients : Kernel(ClientCall(c) \/ ClientStep(c) \/ RequestTerminate(c))
           => OwnerInv'
\* KSession::Initialize makes a session for its creator.
<1>1. ASSUME OwnerInv, ReplyInv, ServerInv, ThreadInv, NEW c \in Clients, Kernel(CountSession(c))
      PROVE  OwnerInv'
  <2> USE <1>1
  <2> USE DEF managerVars, serverVars, destructorVars, portVars, clientVars
  <2> /\ csession \in [Clients -> Sessions \cup {None}] /\ cpc \in [Clients -> ClientLabels]
      /\ Once(sessionList) /\ Once(deferrals) /\ \A w \in Servers : Once(drained[w])
      /\ serverRefs \in [Sessions -> Int] /\ end \in [Sessions -> [Ends -> EndLabels]]
      /\ \A r \in Sessions : SessionOwned(r)
    BY DEF ReplyInv, Typed, OwnerInv
  <2> PICK s \in Sessions : /\ Free(s) /\ serverRefs' = [serverRefs EXCEPT ![s] = 1]
                            /\ end' = [end EXCEPT ![s] = [e \in Ends |-> "open"]]
                            /\ csession' = [csession EXCEPT ![c] = s]
    BY DEF Kernel, CountSession
  <2> /\ cpc[c] = "count" /\ cpc' = [cpc EXCEPT ![c] = "enqueue"]
      /\ UNCHANGED <<sessionList, tracked, deferrals, drained, serving, spc, gathered, waitObj>>
    BY DEF Kernel, CountSession
  <2> /\ cpc'[c] = "enqueue" /\ csession'[c] = s
      /\ \A d \in Clients \ {c} : cpc'[d] = cpc[d] /\ csession'[d] = csession[d]
    OBVIOUS
  <2> \A r \in Sessions : UsesKept(r) /\ ListsKept(r) /\ ServingKept(r)
    BY DEF UsesKept, ListsKept, ServingKept
  <2> ASSUME NEW r \in Sessions, r # s
      PROVE  Kept(r)
    BY OwnerParts, UsersParts DEF CreatorKept, EndKept, Kept, RefsKept
  <2> ~Owned(s)
    BY FreeUnowned
  <2> \A d \in Clients : csession[d] # s
    BY DEF Free, ReplyInv, ClientHeld
  <2> ASSUME NEW k, NEW w
      PROVE  Has(s, k, w)' <=> k = "creator" /\ w = c
    BY DEF Has, Owned
  <2> OwnerBecomes(s, "creator", c)
    BY DEF OwnerBecomes
  <2> serverRefs'[s] = 1 /\ end'[s] = [e \in Ends |-> "open"] /\ serverRefs' \in [Sessions -> Int]
    BY SmallSums
  <2> Made(s)
    BY UsersParts DEF Made
  <2> Once(sessionList') /\ Once(deferrals') /\ \A w \in Servers : Once(drained'[w])
    OBVIOUS
  <2> QED
    BY OwnerStep
\* EnqueueSession passes it to the port.
<1>2. ASSUME OwnerInv, ReplyInv, ServerInv, ThreadInv, NEW c \in Clients, Kernel(EnqueueSession(c))
      PROVE  OwnerInv'
  <2> USE <1>2
  <2> USE DEF managerVars, serverVars, destructorVars, portVars, clientVars
  <2> /\ csession \in [Clients -> Sessions \cup {None}] /\ cpc \in [Clients -> ClientLabels]
      /\ Once(sessionList) /\ Once(deferrals) /\ \A w \in Servers : Once(drained[w])
      /\ sessionList \in Seq(Sessions) /\ \A r \in Sessions : SessionOwned(r)
    BY DEF ReplyInv, Typed, OwnerInv, ServerInv, ServerTyped
  <2> PICK s : s = csession[c]
    OBVIOUS
  <2> /\ cpc[c] = "enqueue" /\ sessionList' = Append(sessionList, s)
      /\ cpc' = [cpc EXCEPT ![c] = "idle"] /\ csession' = [csession EXCEPT ![c] = None]
      /\ UNCHANGED <<tracked, deferrals, drained, serving, spc, gathered, waitObj, serverRefs, end>>
    BY DEF Kernel, EnqueueSession, endVars
  <2> s \in Sessions /\ None \notin Sessions
    BY SessionAssumption DEF ReplyInv, ClientHeld
  <2> /\ cpc'[c] = "idle" /\ csession'[c] = None
      /\ \A d \in Clients \ {c} : cpc'[d] = cpc[d] /\ csession'[d] = csession[d]
    OBVIOUS
  <2> Has(s, "creator", c)
    BY DEF Has
  <2> ~Has(s, "creator", c)'
    BY DEF Has
  <2> ~In(s, sessionList)
    BY DEF Has, SessionOwned
  <2> Once(sessionList') /\ \A r : In(r, sessionList') <=> r = s \/ In(r, sessionList)
    BY OnceAppend
  <2> Has(s, "port", None)'
    BY DEF Has
  <2> ASSUME NEW k, NEW w, Has(s, k, w)'
      PROVE  Has(s, k, w) \/ (k = "port" /\ w = None)
    BY DEF Has
  <2> \A r \in Sessions : UsesKept(r) /\ ServingKept(r)
    BY DEF UsesKept, ServingKept
  <2> \A r \in Sessions \ {s} : CreatorKept(r)
    BY DEF CreatorKept
  <2> \A r \in Sessions \ {s} : ListsKept(r)
    BY DEF ListsKept
  <2> Once(deferrals') /\ \A w \in Servers : Once(drained'[w])
    OBVIOUS
  <2> "port" # "creator"
    OBVIOUS
  <2> QED
    BY PassOne
\* The creator closes the session it could not give to the port.
<1>3. ASSUME OwnerInv, ReplyInv, ServerInv, ThreadInv, NEW c \in Clients, Kernel(UndoServer(c))
      PROVE  OwnerInv'
  <2> USE <1>3
  <2> USE DEF managerVars, serverVars, destructorVars, portVars, clientVars
  <2> /\ csession \in [Clients -> Sessions \cup {None}] /\ cpc \in [Clients -> ClientLabels]
      /\ Once(sessionList) /\ Once(deferrals) /\ \A w \in Servers : Once(drained[w])
      /\ serverRefs \in [Sessions -> Int] /\ end \in [Sessions -> [Ends -> EndLabels]]
      /\ \A r \in Sessions : SessionOwned(r)
    BY DEF ReplyInv, Typed, OwnerInv
  <2> PICK s : s = csession[c]
    OBVIOUS
  <2> /\ cpc[c] = "undo" /\ cpc' = [cpc EXCEPT ![c] = "undone"]
      /\ serverRefs' = [serverRefs EXCEPT ![s] = 0]
      /\ end' = [end EXCEPT ![s]["server"] = "destroy"]
      /\ UNCHANGED <<csession, sessionList, tracked, deferrals, drained, serving, spc, gathered, waitObj>>
    BY DEF Kernel, UndoServer
  <2> cpc'[c] = "undone" /\ \A d \in Clients \ {c} : cpc'[d] = cpc[d]
    OBVIOUS
  <2> \A r \in Sessions : UsesKept(r) /\ ListsKept(r) /\ ServingKept(r)
    BY DEF UsesKept, ListsKept, ServingKept
  <2> \A r \in Sessions \ {s} : CreatorKept(r)
    BY DEF CreatorKept
  <2> \A r \in Sessions \ {s} : serverRefs'[r] = serverRefs[r] /\ EndKept(r)
    BY DEF EndKept
  <2> Once(sessionList') /\ Once(deferrals') /\ \A w \in Servers : Once(drained'[w])
    OBVIOUS
  <2> serverRefs' \in [Sessions -> Int]
    <3> 0 \in Int
      BY SmallSums
    <3> QED
      OBVIOUS
  <2> CASE s \notin Sessions
    BY OwnerParts, UsersParts, OwnerStep DEF Kept, RefsKept
  <2> CASE s \in Sessions
    <3> Has(s, "creator", c)
      BY DEF Has
    <3> ~Has(s, "creator", c)'
      BY DEF Has
    <3> ASSUME NEW k, NEW w, Has(s, k, w)'
        PROVE  Has(s, k, w)
      BY DEF Has
    <3> serverRefs[s] = 1
      BY DEF SessionOwned
    <3> serverRefs'[s] = serverRefs[s] - 1
      BY SmallSums
    <3> EndDropped(s)
      BY DEF EndDropped
    <3> QED
      BY CloseOne
  <2> QED
    OBVIOUS
\* The other steps of a client's thread.
<1>4. ASSUME OwnerInv, ReplyInv, NEW c \in Clients,
             UNCHANGED <<sessionList, tracked, deferrals, drained, serverRefs, serving, spc, gathered, waitObj>>,
             \A d \in Clients \ {c} : cpc'[d] = cpc[d] /\ csession'[d] = csession[d],
             \/ cpc[c] = "enqueue" /\ cpc'[c] = "undo" /\ csession'[c] = csession[c]
             \/ cpc'[c] = cpc[c] /\ csession'[c] = csession[c]
             \/ cpc[c] \notin {"enqueue", "undo"} /\ cpc'[c] \notin {"enqueue", "undo"},
             \A s \in Sessions : /\ end'[s]["server"] = end[s]["server"]
                                 /\ end'[s]["client"] \in {end[s]["client"], "destroy"}
      PROVE  OwnerInv'
  BY <1>4, OwnersStill DEF EndKept, CreatorKept, ServingKept, UsesKept
<1> SUFFICES ASSUME OwnerInv, ReplyInv, ServerInv, ThreadInv, NEW c \in Clients,
                    Kernel(ClientCall(c) \/ ClientStep(c) \/ RequestTerminate(c))
             PROVE  OwnerInv'
  OBVIOUS
<1> USE DEF managerVars, serverVars, destructorVars, portVars, refVars, endVars
<1> /\ csession \in [Clients -> Sessions \cup {None}] /\ cpc \in [Clients -> ClientLabels]
    /\ end \in [Sessions -> [Ends -> EndLabels]] /\ "client" # "server"
  BY DEF ReplyInv, Typed
<1> UNCHANGED <<tracked, deferrals, drained, serving, spc, gathered, waitObj>>
  BY DEF Kernel
<1> CASE CountSession(c) \/ EnqueueSession(c) \/ UndoServer(c)
  BY <1>1, <1>2, <1>3 DEF Kernel
<1> CASE EnqueueFails(c)
  BY <1>4 DEF EnqueueFails, Ends
<1> CASE \/ CreateSession(c) \/ CreateFails(c) \/ OnRequestFails(c) \/ OnRequest(c)
         \/ ClientDone(c) \/ RequestTerminate(c) \/ \E s \in Sessions : SendSyncRequest(c, s)
  <2> UNCHANGED <<end, sessionList, serverRefs>>
    BY DEF CreateSession, CreateFails, OnRequestFails, OnRequest, ClientDone, RequestTerminate,
       SendSyncRequest
  <2> /\ \/ csession' = csession
         \/ \E s \in Sessions \cup {None} : csession' = [csession EXCEPT ![c] = s]
      /\ \/ cpc' = cpc /\ csession' = csession
         \/ /\ cpc[c] \in {"idle", "count", "send", "closing", "undone", "blocked"}
            /\ \E l \in {"count", "idle", "return", "blocked", "send"} : cpc' = [cpc EXCEPT ![c] = l]
    BY DEF CreateSession, CreateFails, OnRequestFails, OnRequest, ClientDone, RequestTerminate,
       SendSyncRequest
  <2> /\ \A d \in Clients \ {c} : cpc'[d] = cpc[d] /\ csession'[d] = csession[d]
      /\ \/ cpc'[c] = cpc[c] /\ csession'[c] = csession[c]
         \/ cpc[c] \notin {"enqueue", "undo"} /\ cpc'[c] \notin {"enqueue", "undo"}
    OBVIOUS
  <2> \A r \in Sessions : /\ end'[r]["server"] = end[r]["server"]
                          /\ end'[r]["client"] \in {end[r]["client"], "destroy"}
    OBVIOUS
  <2> QED
    BY <1>4
<1> CASE ReturnRequest(c) \/ \E s \in Sessions : CloseHandle(c, s)
  <2> PICK s : CloseClient(c, s)
    BY DEF ReturnRequest, CloseHandle
  <2> cpc[c] \in {"return", "idle"} /\ UNCHANGED <<sessionList, serverRefs>>
    BY DEF ReturnRequest, CloseHandle
  <2> /\ \E r : csession' = [csession EXCEPT ![c] = r]
      /\ \E l \in {"closing", "idle"} : cpc' = [cpc EXCEPT ![c] = l]
      /\ end' = end \/ end' = [end EXCEPT ![s]["client"] = "destroy"]
    BY DEF CloseClient
  <2> /\ \A d \in Clients \ {c} : cpc'[d] = cpc[d] /\ csession'[d] = csession[d]
      /\ cpc[c] \notin {"enqueue", "undo"} /\ cpc'[c] \notin {"enqueue", "undo"}
    OBVIOUS
  <2> \A r \in Sessions : /\ end'[r]["server"] = end[r]["server"]
                          /\ end'[r]["client"] \in {end[r]["client"], "destroy"}
    <3> CASE end' = end
      OBVIOUS
    <3> CASE end' = [end EXCEPT ![s]["client"] = "destroy"]
      BY ZenonT(30) DEF Ends
    <3> QED
      OBVIOUS
  <2> QED
    BY <1>4
<1> QED
  BY DEF Kernel, ClientCall, ClientStep

LEMMA OwnerNext ==
    ASSUME FiniteSetLaws PROVE ReplyInv /\ ServerInv /\ ThreadInv /\ OwnerInv /\ [Next]_vars => OwnerInv'
\* A thread of the server manager goes on, with the same session and wait object.
<1>1. ASSUME OwnerInv, ReplyInv, ServerInv, NEW v \in Servers,
             UNCHANGED <<sessionList, tracked, deferrals, drained, serverRefs, gathered, end, csession>>,
             \A c \in Clients : cpc'[c] = cpc[c] \/ (cpc[c] = "blocked" /\ cpc'[c] = "return"),
             \A w \in Servers \ {v} : spc'[w] = spc[w] /\ serving'[w] = serving[w] /\ waitObj'[w] = waitObj[w],
             \/ serving'[v] = serving[v] /\ spc[v] # "closing" /\ spc'[v] # "closing"
             \/ serving'[v] = None /\ spc[v] = "closing",
             \/ waitObj'[v] = waitObj[v] /\ spc[v] # "leaving" /\ spc'[v] # "leaving"
             \/ waitObj'[v] = None /\ spc[v] = "leaving"
      PROVE  OwnerInv'
  <2> USE <1>1
  <2> ASSUME NEW s \in Sessions
      PROVE  EndKept(s) /\ CreatorKept(s) /\ ServingKept(s) /\ UsesKept(s)
    <3> s # None
      BY SessionAssumption
    <3> EndKept(s)
      BY DEF EndKept
    <3> CreatorKept(s)
      BY DEF CreatorKept
    <3> ServingKept(s)
      BY DEF ServingKept
    <3> UsesKept(s)
      BY DEF UsesKept
    <3> QED
      OBVIOUS
  <2> QED
    BY OwnersStill
<1>2. ASSUME OwnerInv, ReplyInv, ServerInv, ThreadInv, NEW v \in Servers,
             \/ LoopEnds(v) \/ LockServe(v) \/ ReturnStopped(v) \/ WaitImmediate(v) \/ WaitBlock(v)
             \/ SignalEvent(v) \/ Receive(v) \/ Received(v) \/ Reply(v) \/ Replied(v) \/ CloseDone(v)
             \/ LeaveDone(v)
      PROVE  OwnerInv'
  <2> USE <1>2
  <2> USE DEF managerVars, serverVars, destructorVars, kernelVars, portVars, refVars, endVars,
     clientVars
  <2> /\ spc \in [Servers -> ServerLabels] /\ serving \in [Servers -> Sessions \cup {None}]
      /\ waitObj \in [Servers -> Objects \cup {None}]
      /\ cpc \in [Clients -> ClientLabels]
    BY DEF ReplyInv, Typed, ServerInv, ServerTyped, ThreadInv, ThreadTyped
  <2> UNCHANGED <<sessionList, tracked, deferrals, drained, serverRefs, gathered, end, csession>>
    BY DEF LoopEnds, LockServe, ReturnStopped, WaitImmediate, WaitBlock, SignalEvent, Receive,
       ReceiveClosed, ReceiveRequest, Received, SetCurrent, Reply, SendReply, Replied, EndReply,
       CloseDone, LeaveDone
  <2> \A c \in Clients : cpc'[c] = cpc[c] \/ (cpc[c] = "blocked" /\ cpc'[c] = "return")
    BY EndWaitStep DEF Replied, EndReply, LoopEnds, LockServe, ReturnStopped, WaitImmediate,
       WaitBlock, SignalEvent, Receive, ReceiveClosed, ReceiveRequest, Received, SetCurrent, Reply,
       SendReply, CloseDone, LeaveDone
  <2> /\ spc' = [spc EXCEPT ![v] = spc'[v]]
      /\ serving' = [serving EXCEPT ![v] = serving'[v]]
      /\ waitObj' = [waitObj EXCEPT ![v] = waitObj'[v]]
      /\ \/ serving'[v] = serving[v] /\ spc[v] # "closing" /\ spc'[v] # "closing"
         \/ serving'[v] = None /\ spc[v] = "closing"
      /\ \/ waitObj'[v] = waitObj[v] /\ spc[v] # "leaving" /\ spc'[v] # "leaving"
         \/ waitObj'[v] = None /\ spc[v] = "leaving"
    BY DEF LoopEnds, LockServe, ReturnStopped, WaitImmediate, WaitBlock, Goto, SignalEvent, Receive,
       Received, Reply, Replied, AfterSession, CloseDone, LeaveDone
  <2> \A w \in Servers \ {v} : spc'[w] = spc[w] /\ serving'[w] = serving[w] /\ waitObj'[w] = waitObj[w]
    OBVIOUS
  <2> QED
    BY <1>1
<1>3. ASSUME OwnerInv, ReplyInv, ServerInv, ThreadInv, NEW v \in Servers, Accept(v)
      PROVE  OwnerInv'
  <2> USE <1>3
  <2> USE DEF managerVars, serverVars, destructorVars, refVars, endVars, clientVars
  <2> /\ spc \in [Servers -> ServerLabels] /\ serving \in [Servers -> Sessions \cup {None}]
      /\ sessionList \in Seq(Sessions) /\ Once(sessionList)
      /\ Once(deferrals) /\ \A w \in Servers : Once(drained[w])
    BY DEF ReplyInv, Typed, ServerInv, ServerTyped, OwnerInv
  <2> PICK s \in Sessions : AcceptSession(s) /\ serving' = [serving EXCEPT ![v] = s]
    BY DEF Accept
  <2> /\ spc[v] = "accept" /\ sessionList # <<>> /\ s = Head(sessionList) /\ sessionList' = Tail(sessionList)
      /\ UNCHANGED <<serverRefs, end, csession, cpc, tracked, deferrals, drained, gathered, waitObj>>
      /\ Goto(v, "track")
    BY DEF Accept, AcceptSession
  <2> /\ Once(sessionList') /\ ~In(s, sessionList') /\ In(s, sessionList)
      /\ \A r : In(r, sessionList) <=> r = s \/ In(r, sessionList')
    BY OnceTail
  <2> /\ spc'[v] = "track" /\ serving'[v] = s
      /\ \A w \in Servers \ {v} : spc'[w] = spc[w] /\ serving'[w] = serving[w]
    BY DEF Goto
  <2> serving[v] = None /\ None \notin Sessions
    BY SessionAssumption DEF ThreadInv, ThreadHas, AtSession
  <2> \A r \in Sessions : UsesKept(r)
    BY DEF UsesKept
  <2> \A r \in Sessions \ {s} : CreatorKept(r) /\ ListsKept(r) /\ ServingKept(r)
    BY DEF CreatorKept, ListsKept, ServingKept
  <2> Has(s, "port", None) /\ ~Has(s, "port", None)'
    BY DEF Has
  <2> Has(s, "serving", v)'
    BY DEF Has
  <2> ASSUME NEW k, NEW w, Has(s, k, w)'
      PROVE  Has(s, k, w) \/ (k = "serving" /\ w = v)
    BY DEF Has
  <2> Once(deferrals') /\ \A w \in Servers : Once(drained'[w])
    OBVIOUS
  <2> QED
    BY PassOne
\* A thread puts the session it works on back among the tracked ones, or defers it.
<1>4. ASSUME OwnerInv, ReplyInv, ServerInv, ThreadInv, NEW v \in Servers,
             TrackPort(v) \/ Reinsert(v) \/ Defer(v)
      PROVE  OwnerInv'
  <2> USE <1>4
  <2> USE DEF managerVars, serverVars, destructorVars, kernelVars, portVars, refVars, endVars,
     clientVars
  <2> PICK s : s = serving[v]
    OBVIOUS
  <2> /\ spc \in [Servers -> ServerLabels] /\ serving \in [Servers -> Sessions \cup {None}]
      /\ deferrals \in Seq(Sessions) /\ Once(sessionList)
      /\ Once(deferrals) /\ \A w \in Servers : Once(drained[w])
    BY DEF ReplyInv, Typed, ServerInv, ServerTyped, OwnerInv
  <2> /\ spc[v] \in {"track", "reinsert", "complete"}
      /\ serving' = [serving EXCEPT ![v] = None]
      /\ spc' = [spc EXCEPT ![v] = spc'[v]]
      /\ spc'[v] \in {"signal", "deferred", "leave"}
      /\ UNCHANGED <<serverRefs, end, csession, cpc, sessionList, drained, gathered, waitObj>>
      /\ \/ tracked' = tracked \cup {s} /\ UNCHANGED deferrals
         \/ deferrals' = Append(deferrals, s) /\ UNCHANGED tracked
    BY DEF TrackPort, Reinsert, Defer, Goto, AfterSession
  <2> s \in Sessions /\ s # None
    BY SessionAssumption DEF ServerInv, ServerTyped, AtSession
  <2> /\ serving'[v] = None
      /\ \A w \in Servers \ {v} : spc'[w] = spc[w] /\ serving'[w] = serving[w]
    OBVIOUS
  <2> Has(s, "serving", v) /\ ~Has(s, "serving", v)'
    BY DEF Has
  <2> ~Has(s, "tracked", None) /\ ~Has(s, "deferred", None)
    BY DEF OwnerInv, SessionOwned
  <2> s \notin tracked /\ ~In(s, deferrals)
    BY DEF Has
  <2> \A r \in Sessions : UsesKept(r)
    BY DEF UsesKept
  <2> None \notin Sessions
    BY SessionAssumption
  <2> \A r \in Sessions \ {s} : CreatorKept(r) /\ ServingKept(r)
    BY DEF CreatorKept, ServingKept
  <2> CASE tracked' = tracked \cup {s} /\ UNCHANGED deferrals
    <3> \A r \in Sessions \ {s} : ListsKept(r)
      BY DEF ListsKept
    <3> Has(s, "tracked", None)'
      BY DEF Has
    <3> ASSUME NEW k, NEW w, Has(s, k, w)'
        PROVE  Has(s, k, w) \/ (k = "tracked" /\ w = None)
      BY DEF Has
    <3> Once(sessionList') /\ Once(deferrals') /\ \A w \in Servers : Once(drained'[w])
      OBVIOUS
    <3> QED
      BY PassOne
  <2> CASE deferrals' = Append(deferrals, s) /\ UNCHANGED tracked
    <3> Once(deferrals') /\ \A r : In(r, deferrals') <=> r = s \/ In(r, deferrals)
      BY OnceAppend
    <3> \A r \in Sessions \ {s} : ListsKept(r)
      BY DEF ListsKept
    <3> Has(s, "deferred", None)'
      BY DEF Has
    <3> ASSUME NEW k, NEW w, Has(s, k, w)'
        PROVE  Has(s, k, w) \/ (k = "deferred" /\ w = None)
      BY DEF Has
    <3> Once(sessionList') /\ Once(deferrals') /\ \A w \in Servers : Once(drained'[w])
      OBVIOUS
    <3> QED
      BY PassOne
  <2> QED
    OBVIOUS
\* OnDeferralEvent takes the next deferred request, if there is one.
<1>5. ASSUME OwnerInv, ReplyInv, ServerInv, ThreadInv, NEW v \in Servers, NextDeferral(v)
      PROVE  OwnerInv'
  <2> USE <1>5
  <2> USE DEF managerVars, serverVars, destructorVars, kernelVars, portVars, refVars, endVars,
     clientVars
  <2> /\ spc \in [Servers -> ServerLabels] /\ serving \in [Servers -> Sessions \cup {None}]
      /\ drained \in [Servers -> Seq(Sessions)] /\ Once(sessionList)
      /\ Once(deferrals) /\ \A w \in Servers : Once(drained[w])
    BY DEF ReplyInv, Typed, ServerInv, ServerTyped, OwnerInv
  <2> /\ spc[v] = "deferred"
      /\ UNCHANGED <<serverRefs, end, csession, cpc, sessionList, tracked, deferrals, gathered, waitObj>>
    BY DEF NextDeferral
  <2> CASE drained[v] = <<>>
    BY <1>1 DEF NextDeferral, Goto
  <2> CASE drained[v] # <<>>
    <3> DEFINE q == drained[v]
    <3> PICK s : s = Head(q)
      OBVIOUS
    <3> /\ serving' = [serving EXCEPT ![v] = s] /\ drained' = [drained EXCEPT ![v] = Tail(q)]
        /\ Goto(v, "complete")
      BY DEF NextDeferral
    <3> /\ serving'[v] = s /\ spc'[v] = "complete" /\ drained'[v] = Tail(q)
        /\ \A w \in Servers \ {v} : /\ spc'[w] = spc[w] /\ serving'[w] = serving[w]
                                    /\ drained'[w] = drained[w]
      BY DEF Goto
    <3> /\ Once(Tail(q)) /\ ~In(s, Tail(q)) /\ In(s, q) /\ s \in Sessions
        /\ \A r : In(r, q) <=> r = s \/ In(r, Tail(q))
      BY OnceTail
    <3> serving[v] = None /\ None \notin Sessions
      BY SessionAssumption DEF ThreadInv, ThreadHas, AtSession
    <3> \A r \in Sessions : UsesKept(r)
      BY DEF UsesKept
    <3> \A r \in Sessions \ {s} : CreatorKept(r)
      BY DEF CreatorKept
    <3> \A r \in Sessions \ {s} : ListsKept(r)
      BY DEF ListsKept
    <3> \A r \in Sessions \ {s} : ServingKept(r)
      BY DEF ServingKept
    <3> Has(s, "drained", v) /\ ~Has(s, "drained", v)' /\ Has(s, "serving", v)'
      BY DEF Has
    <3> ASSUME NEW k, NEW w, Has(s, k, w)'
        PROVE  Has(s, k, w) \/ (k = "serving" /\ w = v)
      BY DEF Has
    <3> Once(sessionList') /\ Once(deferrals') /\ \A w \in Servers : Once(drained'[w])
      OBVIOUS
    <3> QED
      BY PassOne
  <2> QED
    OBVIOUS
\* OnDeferralEvent moves all deferred requests to its own list.
<1>6. ASSUME OwnerInv, ReplyInv, ServerInv, ThreadInv, NEW v \in Servers, DrainDeferrals(v)
      PROVE  OwnerInv'
  <2> USE <1>6
  <2> USE DEF managerVars, serverVars, destructorVars, kernelVars, portVars, refVars, endVars,
     clientVars
  <2> /\ spc \in [Servers -> ServerLabels] /\ drained \in [Servers -> Seq(Sessions)]
      /\ Once(sessionList) /\ Once(deferrals) /\ \A w \in Servers : Once(drained[w])
      /\ serverRefs \in [Sessions -> Int] /\ \A s \in Sessions : SessionOwned(s)
    BY DEF ReplyInv, Typed, ServerInv, ServerTyped, OwnerInv
  <2> /\ spc[v] = "drain" /\ Goto(v, "deferred") /\ deferrals' = <<>>
      /\ drained' = [drained EXCEPT ![v] = deferrals]
      /\ UNCHANGED <<serverRefs, end, csession, cpc, sessionList, tracked, serving, gathered, waitObj>>
    BY DEF DrainDeferrals
  <2> /\ spc'[v] = "deferred" /\ drained'[v] = deferrals
      /\ \A w \in Servers \ {v} : spc'[w] = spc[w] /\ drained'[w] = drained[w]
    BY DEF Goto
  <2> drained[v] = <<>>
    BY DEF ThreadInv, ThreadHas, AtSession
  <2> Once(<<>>) /\ \A r : ~In(r, <<>>)
    BY NotInEmpty
  <2> \A r \in Sessions : UsesKept(r) /\ CreatorKept(r) /\ ServingKept(r)
    BY DEF UsesKept, CreatorKept, ServingKept
  <2> \A r \in Sessions : RefsKept(r)
    BY UsersParts DEF RefsKept, EndKept
  <2> ASSUME NEW s \in Sessions, ~In(s, deferrals)
      PROVE  Kept(s)
    BY OwnerParts DEF ListsKept, Kept
  <2> ASSUME NEW s \in Sessions, In(s, deferrals)
      PROVE  Passed(s)
    <3> Has(s, "deferred", None) /\ ~Has(s, "deferred", None)'
      BY DEF Has
    <3> Has(s, "drained", v)'
      BY DEF Has
    <3> ASSUME NEW k, NEW w, Has(s, k, w)'
        PROVE  Has(s, k, w) \/ (k = "drained" /\ w = v)
      BY DEF ServingKept, Has
    <3> OwnerBecomes(s, "drained", v) /\ Owned(s)
      BY HandOver
    <3> "drained" # "creator"
      OBVIOUS
    <3> QED
      BY DEF Passed
  <2> Once(sessionList') /\ Once(deferrals') /\ \A w \in Servers : Once(drained'[w])
    OBVIOUS
  <2> serverRefs' \in [Sessions -> Int]
    OBVIOUS
  <2> QED
    BY OwnerStep
\* The list of a wait opens the tracked sessions.
<1>7. ASSUME OwnerInv, ReplyInv, ServerInv, ThreadInv, NEW v \in Servers, Gather(v)
      PROVE  OwnerInv'
  <2> USE <1>7
  <2> USE DEF managerVars, serverVars, destructorVars, portVars, endVars, clientVars
  <2> DEFINE G == tracked \cup (IF portTracked THEN {"port"} ELSE {}) \cup {"deferral", "event"}
  <2> /\ spc \in [Servers -> ServerLabels] /\ gathered \in [Servers -> SUBSET Objects]
      /\ Once(sessionList) /\ Once(deferrals) /\ \A w \in Servers : Once(drained[w])
      /\ serverRefs \in [Sessions -> Int] /\ \A s \in Sessions : SessionOwned(s)
    BY DEF ReplyInv, Typed, OwnerInv, ThreadInv, ThreadTyped
  <2> /\ spc[v] = "gather" /\ Goto(v, "wait") /\ gathered' = [gathered EXCEPT ![v] = G]
      /\ serverRefs' = [s \in Sessions |-> serverRefs[s] + (IF s \in tracked THEN 1 ELSE 0)]
      /\ UNCHANGED <<end, csession, cpc, sessionList, tracked, deferrals, drained, serving, waitObj>>
    BY DEF Gather
  <2> gathered[v] = {} /\ waitObj[v] = None /\ None \notin Sessions
    BY SessionAssumption DEF ThreadInv, ThreadHas
  <2> \A s \in Sessions : s \in G <=> s \in tracked
    BY SessionAssumption
  <2> HIDE DEF G
  <2> /\ spc'[v] = "wait" /\ gathered'[v] = G
      /\ \A w \in Servers \ {v} : spc'[w] = spc[w] /\ gathered'[w] = gathered[w]
    BY DEF Goto
  <2> \A r \in Sessions : OwnerKept(r) /\ EndKept(r)
    BY OwnerParts DEF CreatorKept, EndKept, ServingKept, ListsKept
  <2> ASSUME NEW s \in Sessions, s \notin tracked
      PROVE  Kept(s)
    <3> UsesKept(s)
      BY DEF UsesKept
    <3> serverRefs'[s] = serverRefs[s]
      BY IntFacts
    <3> QED
      BY UsersParts DEF Kept, RefsKept
  <2> ASSUME NEW s \in Sessions, s \in tracked
      PROVE  Joined(s, v)
    <3> v \notin Users(s)
      BY DEF Users
    <3> Users(s)' = Users(s) \cup {v}
      BY DEF Users
    <3> Has(s, "tracked", None) /\ SessionOwned(s)
      BY DEF Has
    <3> Owned(s)
      BY DEF Owned
    <3> \A w : ~Has(s, "creator", w)
      BY DEF SessionOwned
    <3> serverRefs'[s] = serverRefs[s] + 1
      OBVIOUS
    <3> QED
      BY DEF Joined
  <2> Once(sessionList') /\ Once(deferrals') /\ \A w \in Servers : Once(drained'[w])
    OBVIOUS
  <2> serverRefs' \in [Sessions -> Int]
    <3> ASSUME NEW s \in Sessions
        PROVE  serverRefs[s] + (IF s \in tracked THEN 1 ELSE 0) \in Int
      <4> CASE s \in tracked
        BY IntFacts
      <4> CASE s \notin tracked
        BY IntFacts
      <4> QED
        OBVIOUS
    <3> QED
      OBVIOUS
  <2> QED
    BY OwnerStep
\* Close, for the sessions in S and for the others.
<1>8. ASSUME NEW S, DropServerRefs(S), serverRefs \in [Sessions -> Int]
      PROVE  /\ serverRefs' \in [Sessions -> Int]
             /\ \A s \in Sessions \cap S : serverRefs'[s] = serverRefs[s] - 1 /\ EndDropped(s)
             /\ \A s \in Sessions \ S : serverRefs'[s] = serverRefs[s] /\ EndKept(s)
  <2> USE <1>8
  <2> serverRefs' \in [Sessions -> Int]
    BY IntFacts DEF DropServerRefs
  <2> ASSUME NEW s \in Sessions \cap S
      PROVE  serverRefs'[s] = serverRefs[s] - 1 /\ EndDropped(s)
    BY DEF DropServerRefs, EndDropped
  <2> ASSUME NEW s \in Sessions \ S
      PROVE  serverRefs'[s] = serverRefs[s] /\ EndKept(s)
    BY DEF DropServerRefs, EndKept
  <2> QED
    OBVIOUS
\* A thread is no user any more of a session it gathered.
<1>9. ASSUME ThreadInv, ReplyInv, NEW v \in Servers, NEW s \in Sessions, spc[v] = "blocked",
             s \in gathered[v], s \notin gathered'[v], waitObj'[v] # s,
             \A w \in Servers \ {v} : /\ gathered'[w] = gathered[w] /\ waitObj'[w] = waitObj[w]
                                      /\ spc'[w] = spc[w]
      PROVE  v \in Users(s) /\ Users(s)' = Users(s) \ {v}
  BY <1>9 DEF Users
\* The wait ends without a session: the references of the list are closed.
<1>10. ASSUME OwnerInv, ReplyInv, ServerInv, ThreadInv, NEW v \in Servers,
              WaitFailed(v) \/ TakePort(v) \/ ClearDeferral(v) \/ TakeEvent(v)
       PROVE  OwnerInv'
  <2> USE <1>10
  <2> USE DEF managerVars, serverVars, destructorVars, portVars, clientVars
  <2> DEFINE G == gathered[v] \cap Sessions
  <2>1. /\ spc \in [Servers -> ServerLabels] /\ gathered \in [Servers -> SUBSET Objects]
        /\ waitObj \in [Servers -> Objects \cup {None}]
        /\ Once(sessionList) /\ Once(deferrals) /\ \A w \in Servers : Once(drained[w])
        /\ serverRefs \in [Sessions -> Int] /\ \A s \in Sessions : SessionOwned(s)
    BY DEF ReplyInv, Typed, OwnerInv, ThreadInv, ThreadTyped
  <2> /\ spc[v] = "blocked" /\ gathered' = [gathered EXCEPT ![v] = {}]
      /\ waitObj' = waitObj \/ \E o \in {"port", "event", "deferral"} : waitObj' = [waitObj EXCEPT ![v] = o]
      /\ \E label \in {"exited", "accept", "leave", "drain"} : Goto(v, label)
      /\ UNCHANGED <<csession, cpc, sessionList, tracked, deferrals, drained, serving>>
    BY DEF WaitFailed, TakePort, ClearDeferral, TakeEvent, Woken, CloseWaitObjs
  <2> waitObj[v] = None /\ serving[v] = None
    BY DEF ThreadInv, ThreadHas, AtSession
  <2> /\ None \notin Sessions /\ "port" \notin Sessions /\ "event" \notin Sessions
      /\ "deferral" \notin Sessions
    BY SessionAssumption
  <2> /\ spc'[v] \in {"exited", "accept", "leave", "drain"} /\ gathered'[v] = {}
      /\ waitObj'[v] \notin Sessions
      /\ \A w \in Servers \ {v} : /\ gathered'[w] = gathered[w] /\ waitObj'[w] = waitObj[w]
                                  /\ spc'[w] = spc[w]
    BY <2>1 DEF Goto
  <2> DropServerRefs(G)
    <3> CASE WaitFailed(v)
      BY G \ {} = G DEF WaitFailed, CloseWaitObjs
    <3> CASE ~WaitFailed(v)
      <4> PICK o \in {"port", "event", "deferral"} : DropServerRefs(G \ {o})
        BY DEF TakePort, ClearDeferral, TakeEvent, Woken, CloseWaitObjs
      <4> G \ {o} = G
        OBVIOUS
      <4> QED
        OBVIOUS
    <3> QED
      OBVIOUS
  <2> /\ serverRefs' \in [Sessions -> Int]
      /\ \A s \in Sessions \cap G : serverRefs'[s] = serverRefs[s] - 1 /\ EndDropped(s)
      /\ \A s \in Sessions \ G : serverRefs'[s] = serverRefs[s] /\ EndKept(s)
    BY <2>1, <1>8
  <2> \A s \in Sessions : OwnerKept(s)
    BY OwnerParts DEF CreatorKept, ListsKept, ServingKept
  <2> ASSUME NEW s \in Sessions, s \in gathered[v]
      PROVE  Dropped(s, v)
    BY <1>9 DEF Dropped
  <2> ASSUME NEW s \in Sessions, s \notin gathered[v]
      PROVE  Kept(s)
    <3> UsesKept(s)
      BY DEF UsesKept
    <3> QED
      BY UsersParts DEF Kept, RefsKept
  <2> Once(sessionList') /\ Once(deferrals') /\ \A w \in Servers : Once(drained'[w])
    BY <2>1
  <2> QED
    BY OwnerStep
\* The wait ends with a session: it leaves m_sessions for the thread, and the other
\* references of the list are closed.
<1>11. ASSUME OwnerInv, ReplyInv, ServerInv, ThreadInv, NEW v \in Servers, TakeSession(v)
       PROVE  OwnerInv'
  <2> USE <1>11
  <2> USE DEF managerVars, serverVars, destructorVars, portVars, clientVars
  <2>1. /\ spc \in [Servers -> ServerLabels] /\ gathered \in [Servers -> SUBSET Objects]
        /\ waitObj \in [Servers -> Objects \cup {None}] /\ serving \in [Servers -> Sessions \cup {None}]
        /\ Once(sessionList) /\ Once(deferrals) /\ \A w \in Servers : Once(drained[w])
        /\ serverRefs \in [Sessions -> Int] /\ \A s \in Sessions : SessionOwned(s)
    BY DEF ReplyInv, Typed, OwnerInv, ServerInv, ServerTyped, ThreadInv, ThreadTyped
  <2> PICK o \in Sessions : Woken(v, o) /\ tracked' = tracked \ {o} /\ serving' = [serving EXCEPT ![v] = o]
    BY DEF TakeSession
  <2> DEFINE G == (gathered[v] \cap Sessions) \ {o}
  <2> /\ spc[v] = "blocked" /\ gathered' = [gathered EXCEPT ![v] = {}]
      /\ waitObj' = [waitObj EXCEPT ![v] = o] /\ Goto(v, "receive") /\ wokenBy[v] = o
      /\ UNCHANGED <<csession, cpc, sessionList, deferrals, drained>>
      /\ DropServerRefs(G)
    BY DEF TakeSession, Woken, CloseWaitObjs
  <2> waitObj[v] = None /\ serving[v] = None /\ None \notin Sessions
    BY SessionAssumption DEF ThreadInv, ThreadHas, AtSession
  <2> o \in gathered[v] /\ o \in tracked
    BY DEF ThreadInv, WaitHas
  <2> /\ spc'[v] = "receive" /\ gathered'[v] = {} /\ waitObj'[v] = o /\ serving'[v] = o
      /\ \A w \in Servers \ {v} : /\ gathered'[w] = gathered[w] /\ waitObj'[w] = waitObj[w]
                                  /\ spc'[w] = spc[w] /\ serving'[w] = serving[w]
    BY <2>1 DEF Goto
  <2> /\ serverRefs' \in [Sessions -> Int]
      /\ \A s \in Sessions \cap G : serverRefs'[s] = serverRefs[s] - 1 /\ EndDropped(s)
      /\ \A s \in Sessions \ G : serverRefs'[s] = serverRefs[s] /\ EndKept(s)
    BY <2>1, <1>8
  <2> \A s \in Sessions \ {o} : OwnerKept(s)
    <3> ASSUME NEW s \in Sessions \ {o}
        PROVE  OwnerKept(s)
      <4> CreatorKept(s) /\ ListsKept(s)
        BY DEF CreatorKept, ListsKept
      <4> serving'[v] # s /\ serving[v] # s
        OBVIOUS
      <4> ServingKept(s)
        BY DEF ServingKept
      <4> QED
        BY OwnerParts
    <3> QED
      OBVIOUS
  <2> ASSUME NEW s \in Sessions, s \in gathered[v], s # o
      PROVE  Dropped(s, v)
    BY <1>9 DEF Dropped
  <2> ASSUME NEW s \in Sessions, s \notin gathered[v], s # o
      PROVE  Kept(s)
    <3> s \notin gathered'[v] /\ waitObj'[v] # s /\ waitObj[v] # s
      OBVIOUS
    <3> UsesKept(s)
      BY DEF UsesKept
    <3> QED
      BY UsersParts DEF Kept, RefsKept
  <2> Passed(o)
    <3> Users(o)' = Users(o)
      BY DEF Users
    <3> RefsKept(o)
      BY DEF RefsKept
    <3> Has(o, "tracked", None) /\ ~Has(o, "tracked", None)'
      BY DEF Has
    <3> Has(o, "serving", v)'
      BY DEF Has
    <3> ASSUME NEW k, NEW w, Has(o, k, w)'
        PROVE  Has(o, k, w) \/ (k = "serving" /\ w = v)
      BY DEF Has
    <3> OwnerBecomes(o, "serving", v) /\ Owned(o)
      BY <2>1, HandOver
    <3> "serving" # "creator"
      OBVIOUS
    <3> QED
      BY DEF Passed
  <2> Once(sessionList') /\ Once(deferrals') /\ \A w \in Servers : Once(drained'[w])
    BY <2>1
  <2> QED
    BY OwnerStep
\* A thread closes the session it works on.
<1>12. ASSUME OwnerInv, ReplyInv, ServerInv, ThreadInv, NEW v \in Servers, CloseSession(v)
       PROVE  OwnerInv'
  <2> USE <1>12
  <2> USE DEF managerVars, serverVars, destructorVars, portVars, clientVars
  <2> /\ spc \in [Servers -> ServerLabels] /\ serving \in [Servers -> Sessions \cup {None}]
      /\ Once(sessionList) /\ Once(deferrals) /\ \A w \in Servers : Once(drained[w])
      /\ serverRefs \in [Sessions -> Int]
    BY DEF ReplyInv, Typed, OwnerInv, ServerInv, ServerTyped
  <2> PICK s : s = serving[v]
    OBVIOUS
  <2> spc[v] = "close" /\ s \in Sessions /\ None \notin Sessions
    BY SessionAssumption DEF CloseSession, ServerInv, ServerTyped, AtSession
  <2> /\ DropServerRefs({s})
      /\ UNCHANGED <<csession, cpc, sessionList, tracked, deferrals, drained, gathered, waitObj>>
      /\ \/ Goto(v, "closing") /\ UNCHANGED serving
         \/ Goto(v, AfterSession(v)) /\ serving' = [serving EXCEPT ![v] = None]
    BY DEF CloseSession, DropServer
  <2> /\ spc'[v] # "leaving"
      /\ \/ spc'[v] = "closing" /\ serving'[v] = s
         \/ serving'[v] = None
      /\ \A w \in Servers \ {v} : spc'[w] = spc[w] /\ serving'[w] = serving[w]
    BY DEF Goto, AfterSession
  <2> \A r \in Sessions : UsesKept(r)
    BY DEF UsesKept
  <2> \A r \in Sessions \ {s} : CreatorKept(r) /\ ListsKept(r) /\ ServingKept(r)
    BY DEF CreatorKept, ListsKept, ServingKept
  <2> Has(s, "serving", v)
    BY DEF Has
  <2> ~Has(s, "serving", v)'
    BY DEF Has
  <2> ASSUME NEW k, NEW w, Has(s, k, w)'
      PROVE  Has(s, k, w)
    BY DEF Has
  <2> Once(sessionList') /\ Once(deferrals') /\ \A w \in Servers : Once(drained'[w])
    OBVIOUS
  <2> /\ serverRefs' \in [Sessions -> Int]
      /\ serverRefs'[s] = serverRefs[s] - 1 /\ EndDropped(s)
      /\ \A r \in Sessions \ {s} : serverRefs'[r] = serverRefs[r] /\ EndKept(r)
    BY <1>8
  <2> QED
    BY CloseOne
\* The wait object is closed at the end of the loop's body.
<1>13. ASSUME OwnerInv, ReplyInv, ServerInv, ThreadInv, NEW v \in Servers, Leave(v)
       PROVE  OwnerInv'
  <2> USE <1>13
  <2> USE DEF managerVars, serverVars, destructorVars, portVars, clientVars
  <2> /\ spc \in [Servers -> ServerLabels] /\ waitObj \in [Servers -> Objects \cup {None}]
      /\ Once(sessionList) /\ Once(deferrals) /\ \A w \in Servers : Once(drained[w])
      /\ serverRefs \in [Sessions -> Int]
    BY DEF ReplyInv, Typed, OwnerInv, ThreadInv, ThreadTyped
  <2> PICK o : o = waitObj[v]
    OBVIOUS
  <2> /\ spc[v] = "leave" /\ DropServerRefs({o} \cap Sessions)
      /\ UNCHANGED <<csession, cpc, sessionList, tracked, deferrals, drained, gathered, serving>>
      /\ \/ Goto(v, "leaving") /\ UNCHANGED waitObj
         \/ Goto(v, "loop") /\ waitObj' = [waitObj EXCEPT ![v] = None]
    BY DEF Leave, DropServer
  <2> gathered[v] = {} /\ serving[v] = None /\ None \notin Sessions
    BY SessionAssumption DEF ThreadInv, ThreadHas, AtSession
  <2> /\ spc'[v] = "leaving" \/ waitObj'[v] = None
      /\ \A w \in Servers \ {v} : spc'[w] = spc[w] /\ waitObj'[w] = waitObj[w]
    BY DEF Goto
  <2> \A s \in Sessions : OwnerKept(s)
    BY OwnerParts DEF CreatorKept, ListsKept, ServingKept
  <2> /\ serverRefs' \in [Sessions -> Int]
      /\ \A s \in Sessions : s = o => serverRefs'[s] = serverRefs[s] - 1 /\ EndDropped(s)
      /\ \A s \in Sessions : s # o => serverRefs'[s] = serverRefs[s] /\ EndKept(s)
    <3> /\ serverRefs' \in [Sessions -> Int]
        /\ \A s \in Sessions \cap ({o} \cap Sessions) : serverRefs'[s] = serverRefs[s] - 1 /\ EndDropped(s)
        /\ \A s \in Sessions \ ({o} \cap Sessions) : serverRefs'[s] = serverRefs[s] /\ EndKept(s)
      BY <1>8
    <3> QED
      OBVIOUS
  <2> ASSUME NEW s \in Sessions, s = o
      PROVE  Dropped(s, v)
    <3> v \in Users(s)
      BY DEF Users
    <3> ASSUME NEW w
        PROVE  w \in Users(s)' <=> w \in Users(s) /\ w # v
      BY DEF Users
    <3> Users(s)' = Users(s) \ {v}
      OBVIOUS
    <3> QED
      BY DEF Dropped
  <2> ASSUME NEW s \in Sessions, s # o
      PROVE  Kept(s)
    BY UsersParts DEF UsesKept, Kept, RefsKept
  <2> Once(sessionList') /\ Once(deferrals') /\ \A w \in Servers : Once(drained'[w])
    OBVIOUS
  <2> QED
    BY OwnerStep
\* The destructor closes the sessions nobody works on.
<1>14. ASSUME OwnerInv, ReplyInv, ServerInv, ThreadInv,
              CleanupSession \/ CloseTracked \/ CloseDeferred
       PROVE  OwnerInv'
  <2> USE <1>14
  <2> USE DEF managerVars, serverVars, destructorVars, portVars, clientVars
  <2> /\ sessionList \in Seq(Sessions) /\ deferrals \in Seq(Sessions)
      /\ Once(sessionList) /\ Once(deferrals) /\ \A w \in Servers : Once(drained[w])
      /\ serverRefs \in [Sessions -> Int] /\ end \in [Sessions -> [Ends -> EndLabels]]
      /\ tracked \subseteq Sessions
    BY DEF ReplyInv, Typed, OwnerInv, ServerInv, ServerTyped, ThreadInv, ThreadTyped
  <2> UNCHANGED <<csession, cpc, serving, spc, gathered, waitObj, drained>>
    BY DEF CleanupSession, CloseTracked, CloseDeferred, DropServer
  <2> \A r \in Sessions : UsesKept(r) /\ CreatorKept(r) /\ ServingKept(r)
    BY DEF UsesKept, CreatorKept, ServingKept
  <2> CASE CleanupSession
    <3> PICK s : s = Head(sessionList)
      OBVIOUS
    <3> /\ sessionList # <<>> /\ sessionList' = Tail(sessionList) /\ UNCHANGED <<tracked, deferrals>>
        /\ serverRefs' = [serverRefs EXCEPT ![s] = @ - 1]
        /\ end' = [end EXCEPT ![s]["server"] = IF serverRefs[s] = 1 THEN "destroy" ELSE @]
      BY DEF CleanupSession
    <3> /\ s \in Sessions /\ Once(sessionList') /\ In(s, sessionList) /\ ~In(s, sessionList')
        /\ \A r : In(r, sessionList) <=> r = s \/ In(r, sessionList')
      BY OnceTail
    <3> \A r \in Sessions \ {s} : ListsKept(r)
      BY DEF ListsKept
    <3> Has(s, "port", None) /\ ~Has(s, "port", None)'
      BY DEF Has
    <3> ASSUME NEW k, NEW w, Has(s, k, w)'
        PROVE  Has(s, k, w)
      BY DEF Has
    <3> serverRefs' \in [Sessions -> Int] /\ serverRefs'[s] = serverRefs[s] - 1
      BY IntFacts
    <3> EndDropped(s)
      BY DEF EndDropped, Ends
    <3> \A r \in Sessions \ {s} : serverRefs'[r] = serverRefs[r] /\ end'[r] = end[r]
      OBVIOUS
    <3> \A r \in Sessions \ {s} : serverRefs'[r] = serverRefs[r] /\ EndKept(r)
      BY DEF EndKept
    <3> Once(deferrals') /\ \A w \in Servers : Once(drained'[w])
      OBVIOUS
    <3> QED
      BY CloseOne
  <2> CASE CloseTracked
    <3> PICK s \in tracked : DropServerRefs({s}) /\ tracked' = tracked \ {s}
      BY DEF CloseTracked, DropServer
    <3> UNCHANGED <<sessionList, deferrals>>
      BY DEF CloseTracked, DropServer
    <3> s \in Sessions
      OBVIOUS
    <3> \A r \in Sessions \ {s} : ListsKept(r)
      BY DEF ListsKept
    <3> Has(s, "tracked", None) /\ ~Has(s, "tracked", None)'
      BY DEF Has
    <3> ASSUME NEW k, NEW w, Has(s, k, w)'
        PROVE  Has(s, k, w)
      BY DEF Has
    <3> /\ serverRefs' \in [Sessions -> Int]
        /\ serverRefs'[s] = serverRefs[s] - 1 /\ EndDropped(s)
        /\ \A r \in Sessions \ {s} : serverRefs'[r] = serverRefs[r] /\ EndKept(r)
      BY <1>8
    <3> Once(sessionList') /\ Once(deferrals') /\ \A w \in Servers : Once(drained'[w])
      OBVIOUS
    <3> QED
      BY CloseOne
  <2> CASE CloseDeferred
    <3> PICK s : s = Head(deferrals)
      OBVIOUS
    <3> /\ deferrals # <<>> /\ deferrals' = Tail(deferrals) /\ UNCHANGED <<tracked, sessionList>>
        /\ DropServerRefs({s})
      BY DEF CloseDeferred, DropServer
    <3> /\ s \in Sessions /\ Once(deferrals') /\ In(s, deferrals) /\ ~In(s, deferrals')
        /\ \A r : In(r, deferrals) <=> r = s \/ In(r, deferrals')
      BY OnceTail
    <3> \A r \in Sessions \ {s} : ListsKept(r)
      BY DEF ListsKept
    <3> Has(s, "deferred", None) /\ ~Has(s, "deferred", None)'
      BY DEF Has
    <3> ASSUME NEW k, NEW w, Has(s, k, w)'
        PROVE  Has(s, k, w)
      BY DEF Has
    <3> /\ serverRefs' \in [Sessions -> Int]
        /\ serverRefs'[s] = serverRefs[s] - 1 /\ EndDropped(s)
        /\ \A r \in Sessions \ {s} : serverRefs'[r] = serverRefs[r] /\ EndKept(r)
      BY <1>8
    <3> Once(sessionList') /\ \A w \in Servers : Once(drained'[w])
      OBVIOUS
    <3> QED
      BY CloseOne
  <2> QED
    OBVIOUS
\* The destruction of an end begins when it is not open any more.
<1>15. ASSUME OwnerInv, ReplyInv, NEW s \in Sessions, Kernel(Destruction(s))
       PROVE  OwnerInv'
  <2> USE <1>15
  <2> USE DEF managerVars, serverVars, destructorVars, portVars, refVars
  <2> cpc \in [Clients -> ClientLabels] /\ end \in [Sessions -> [Ends -> EndLabels]]
    BY DEF ReplyInv, Typed
  <2> UNCHANGED <<tracked, deferrals, drained, serving, spc, gathered, waitObj>>
    BY DEF Kernel
  <2> UNCHANGED <<csession, sessionList, serverRefs>>
    BY DEF Kernel, Destruction, TestState, SetState, CloseParent, Finalize, OnClientClosedCurrent,
       OnClientClosedPop, OnClientClosedNotify, CleanupTake, CleanupEndWait, CleanupDone, clientVars
  <2> \A c \in Clients : cpc'[c] = cpc[c] \/ (cpc[c] = "blocked" /\ cpc'[c] = "return")
    BY DEF Kernel, Destruction, TestState, SetState, CloseParent, Finalize, OnClientClosedCurrent,
       OnClientClosedPop, OnClientClosedNotify, CleanupTake, CleanupEndWait, CleanupDone, clientVars,
       EndWait
  <2> \/ end' = end
      \/ \E e \in Ends, l \in {"setState", "closeParent", "cleanup", "current", "sweep", "finalize", "closed"} :
             end[s][e] \notin {"none", "open"} /\ end' = [end EXCEPT ![s][e] = l]
    BY DEF TestState, SetState, CloseParent, Finalize, OnClientClosedCurrent, OnClientClosedPop,
       OnClientClosedNotify, endVars, Ends, CleanupTake, CleanupEndWait, CleanupDone, Kernel,
       Destruction
  <2> \A r \in Sessions : EndKept(r)
    <3> CASE end' = end
      BY DEF EndKept
    <3> ASSUME NEW e \in Ends, NEW l, l \notin {"none", "open"}, end[s][e] \notin {"none", "open"},
               end' = [end EXCEPT ![s][e] = l], NEW r \in Sessions
        PROVE  EndKept(r)
      <4> CASE r # s
        BY DEF EndKept
      <4> CASE r = s
        <5> \A f \in Ends : end'[s][f] = IF f = e THEN l ELSE end[s][f]
          OBVIOUS
        <5> "server" \in Ends /\ "client" \in Ends
          BY DEF Ends
        <5> QED
          BY DEF EndKept
      <4> QED
        OBVIOUS
    <3> \A l \in {"setState", "closeParent", "cleanup", "current", "sweep", "finalize", "closed"} :
            l \notin {"none", "open"}
      OBVIOUS
    <3> QED
      OBVIOUS
  <2> \A r \in Sessions : CreatorKept(r)
    BY DEF CreatorKept
  <2> \A r \in Sessions : ServingKept(r) /\ UsesKept(r)
    BY DEF ServingKept, UsesKept
  <2> QED
    BY OwnersStill
<1> SUFFICES ASSUME ReplyInv, ServerInv, ThreadInv, OwnerInv, [Next]_vars
             PROVE  OwnerInv'
  OBVIOUS
<1> ASSUME NEW v \in Servers, ServerStep(v)
    PROVE  OwnerInv'
  BY <1>2, <1>10, <1>4, <1>7, <1>11, <1>6, <1>3,
     <1>12, <1>5, <1>13 DEF ServerStep
<1> CASE \/ SignalDeferral \/ RequestStop \/ StopSignal \/ ClosePort \/ CleanupSessionsDone
         \/ DestructorDone \/ UNCHANGED vars
  BY OwnersStill DEF SignalDeferral, RequestStop, StopSignal, ClosePort, CleanupSessionsDone,
     DestructorDone, vars, kernelVars, managerVars, serverVars, portVars, refVars, endVars,
     clientVars, EndKept, CreatorKept, ServingKept, UsesKept
<1> QED
  BY OwnersClients, <1>15, <1>14 DEF Next, Destructor

\* The kinds of owner, one by one.
LEMMA HasKinds ==
    ASSUME NEW s
    PROVE  /\ \A w : Has(s, "creator", w) <=>
                  w \in Clients /\ csession[w] = s /\ cpc[w] \in {"enqueue", "undo"}
           /\ \A w : Has(s, "port", w) <=> w = None /\ In(s, sessionList)
           /\ \A w : Has(s, "tracked", w) <=> w = None /\ s \in tracked
           /\ \A w : Has(s, "deferred", w) <=> w = None /\ In(s, deferrals)
           /\ \A w : Has(s, "drained", w) <=> w \in Servers /\ In(s, drained[w])
           /\ \A w : Has(s, "serving", w) <=> w \in Servers /\ serving[w] = s /\ spc[w] # "closing"
  BY DEF Has

\* The set that ServerSessionOwned counts.
LEMMA OwnersOf ==
    ASSUME OwnerInv, NEW s \in Sessions
    PROVE  /\ ~Owned(s) => Owners(s) = {}
           /\ Owned(s) => \E p : Owners(s) = {p}
<1> DEFINE At(q) == {j \in DOMAIN q : q[j] = s}
           C == {<<"creator", c, 0>> : c \in {d \in Clients : csession[d] = s /\ cpc[d] \in {"enqueue", "undo"}}}
           P == {<<"port", None, i>> : i \in At(sessionList)}
           T == {<<"tracked", None, 0>> : x \in tracked \cap {s}}
           D == {<<"deferred", None, i>> : i \in At(deferrals)}
           R == UNION {{<<"drained", v, i>> : i \in At(drained[v])} : v \in Servers}
           V == {<<"serving", v, 0>> : v \in {w \in Servers : serving[w] = s /\ spc[w] # "closing"}}
<1>1. Owners(s) = C \cup P \cup T \cup D \cup R \cup V
  BY DEF Owners
<1> /\ \A p \in C : \E w : Has(s, "creator", w) /\ p = <<"creator", w, 0>>
    /\ \A w : Has(s, "creator", w) => <<"creator", w, 0>> \in C
  BY DEF Has
<1> /\ \A p \in P : Has(s, "port", None) /\ \E i \in At(sessionList) : p = <<"port", None, i>>
    /\ \A i \in At(sessionList) : <<"port", None, i>> \in P
  BY DEF Has, In
<1> /\ \A p \in T : Has(s, "tracked", None) /\ p = <<"tracked", None, 0>>
    /\ \A w : Has(s, "tracked", w) => w = None /\ <<"tracked", None, 0>> \in T
  BY DEF Has
<1> /\ \A p \in D : Has(s, "deferred", None) /\ \E i \in At(deferrals) : p = <<"deferred", None, i>>
    /\ \A i \in At(deferrals) : <<"deferred", None, i>> \in D
  BY DEF Has, In
<1> /\ \A p \in R : \E v \in Servers : Has(s, "drained", v) /\ \E i \in At(drained[v]) : p = <<"drained", v, i>>
    /\ \A v \in Servers : \A i \in At(drained[v]) : <<"drained", v, i>> \in R
  <2> ASSUME NEW p \in R
      PROVE  \E v \in Servers : Has(s, "drained", v) /\ \E i \in At(drained[v]) : p = <<"drained", v, i>>
    <3> PICK v \in Servers : p \in {<<"drained", v, i>> : i \in At(drained[v])}
      OBVIOUS
    <3> QED
      BY DEF Has, In
  <2> ASSUME NEW v \in Servers, NEW i \in At(drained[v])
      PROVE  <<"drained", v, i>> \in R
    <3> DEFINE Of(w) == {<<"drained", w, j>> : j \in At(drained[w])}
    <3> R = UNION {Of(w) : w \in Servers} /\ <<"drained", v, i>> \in Of(v)
      OBVIOUS
    <3> HIDE DEF Of, R
    <3> QED
      OBVIOUS
  <2> QED
    OBVIOUS
<1> /\ \A p \in V : \E w : Has(s, "serving", w) /\ p = <<"serving", w, 0>>
    /\ \A w : Has(s, "serving", w) => <<"serving", w, 0>> \in V
  BY DEF Has
<1> ASSUME NEW q, Once(q), In(s, q)
    PROVE  \E j \in At(q) : \A i \in At(q) : i = j
  BY DEF Once, In
<1> \A k, l, w, x : Has(s, k, w) /\ Has(s, l, x) => k = l /\ w = x
  BY DEF OwnerInv, SessionOwned
<1> /\ Once(sessionList) /\ Once(deferrals) /\ \A v \in Servers : Once(drained[v])
  BY DEF OwnerInv
<1> /\ \A w : Has(s, "port", w) => In(s, sessionList)
    /\ \A w : Has(s, "deferred", w) => In(s, deferrals)
    /\ \A w : Has(s, "drained", w) => w \in Servers /\ In(s, drained[w])
  BY HasKinds
<1> HIDE DEF At, C, P, T, D, R, V
<1> CASE ~Owned(s)
  BY <1>1 DEF Owned
<1> ASSUME NEW w, Has(s, "creator", w)
    PROVE  \E p : Owners(s) = {p}
  <2> \A k, x : Has(s, k, x) => k = "creator" /\ x = w
    OBVIOUS
  <2> P = {} /\ T = {} /\ D = {} /\ R = {} /\ V = {}
    BY ZenonT(30)
  <2> \A p : p \in C <=> p = <<"creator", w, 0>>
    OBVIOUS
  <2> \A p : p \in Owners(s) <=> p = <<"creator", w, 0>>
    BY <1>1
  <2> Owners(s) = {<<"creator", w, 0>>}
    OBVIOUS
  <2> QED
    OBVIOUS
<1> ASSUME NEW w, Has(s, "port", w)
    PROVE  \E p : Owners(s) = {p}
  <2> \A k, x : Has(s, k, x) => k = "port" /\ x = w
    OBVIOUS
  <2> C = {} /\ T = {} /\ D = {} /\ R = {} /\ V = {}
    BY ZenonT(30)
  <2> PICK j \in At(sessionList) : \A i \in At(sessionList) : i = j
    OBVIOUS
  <2> \A p : p \in P <=> p = <<"port", None, j>>
    OBVIOUS
  <2> \A p : p \in Owners(s) <=> p = <<"port", None, j>>
    BY <1>1
  <2> Owners(s) = {<<"port", None, j>>}
    OBVIOUS
  <2> QED
    OBVIOUS
<1> ASSUME NEW w, Has(s, "tracked", w)
    PROVE  \E p : Owners(s) = {p}
  <2> \A k, x : Has(s, k, x) => k = "tracked" /\ x = w
    OBVIOUS
  <2> C = {} /\ P = {} /\ D = {} /\ R = {} /\ V = {}
    OBVIOUS
  <2> \A p : p \in Owners(s) <=> p = <<"tracked", None, 0>>
    BY <1>1, ZenonT(30)
  <2> Owners(s) = {<<"tracked", None, 0>>}
    OBVIOUS
  <2> QED
    OBVIOUS
<1> ASSUME NEW w, Has(s, "deferred", w)
    PROVE  \E p : Owners(s) = {p}
  <2> \A k, x : Has(s, k, x) => k = "deferred" /\ x = w
    OBVIOUS
  <2> C = {} /\ P = {} /\ T = {} /\ R = {} /\ V = {}
    OBVIOUS
  <2> PICK j \in At(deferrals) : \A i \in At(deferrals) : i = j
    OBVIOUS
  <2> \A p : p \in D <=> p = <<"deferred", None, j>>
    OBVIOUS
  <2> \A p : p \in Owners(s) <=> p = <<"deferred", None, j>>
    BY <1>1
  <2> Owners(s) = {<<"deferred", None, j>>}
    OBVIOUS
  <2> QED
    OBVIOUS
<1> ASSUME NEW w, Has(s, "drained", w)
    PROVE  \E p : Owners(s) = {p}
  <2> \A k, x : Has(s, k, x) => k = "drained" /\ x = w
    OBVIOUS
  <2> C = {} /\ P = {} /\ T = {} /\ D = {} /\ V = {}
    OBVIOUS
  <2> w \in Servers /\ \E j \in At(drained[w]) : \A i \in At(drained[w]) : i = j
    OBVIOUS
  <2> PICK j \in At(drained[w]) : \A i \in At(drained[w]) : i = j
    OBVIOUS
  <2> ASSUME NEW p \in R
      PROVE  p = <<"drained", w, j>>
    <3> PICK v \in Servers : Has(s, "drained", v) /\ \E i \in At(drained[v]) : p = <<"drained", v, i>>
      OBVIOUS
    <3> v = w
      OBVIOUS
    <3> PICK i \in At(drained[w]) : p = <<"drained", w, i>>
      OBVIOUS
    <3> i = j
      OBVIOUS
    <3> QED
      OBVIOUS
  <2> <<"drained", w, j>> \in R
    OBVIOUS
  <2> \A p : p \in R <=> p = <<"drained", w, j>>
    OBVIOUS
  <2> \A p : p \in Owners(s) <=> p = <<"drained", w, j>>
    BY <1>1
  <2> Owners(s) = {<<"drained", w, j>>}
    OBVIOUS
  <2> QED
    OBVIOUS
<1> ASSUME NEW w, Has(s, "serving", w)
    PROVE  \E p : Owners(s) = {p}
  <2> \A k, x : Has(s, k, x) => k = "serving" /\ x = w
    OBVIOUS
  <2> C = {} /\ P = {} /\ T = {} /\ D = {} /\ R = {}
    OBVIOUS
  <2> \A p : p \in Owners(s) <=> p = <<"serving", w, 0>>
    BY <1>1, ZenonT(30)
  <2> Owners(s) = {<<"serving", w, 0>>}
    OBVIOUS
  <2> QED
    OBVIOUS
<1> CASE Owned(s)
  BY DEF Owned, Has
<1> QED
  OBVIOUS

LEMMA OwnersFollow ==
    ASSUME FiniteSetLaws, OwnerInv
    PROVE  ServerSessionOwned
<1>1. ASSUME NEW s \in Sessions
      PROVE  /\ serverRefs[s] = Cardinality(Owners(s)) + Cardinality(Users(s))
             /\ Cardinality(Owners(s)) <= 1
             /\ end[s]["server"] = "open" <=> serverRefs[s] > 0
  <2> SessionOwned(s)
    BY DEF OwnerInv
  <2> Owned(s) => Cardinality(Owners(s)) = 1
    BY OwnersOf DEF FiniteSetLaws, SingletonLaw
  <2> ~Owned(s) => Cardinality(Owners(s)) = 0
    BY OwnersOf DEF FiniteSetLaws, EmptySetLaw
  <2>4. serverRefs[s] = Cardinality(Owners(s)) + Cardinality(Users(s))
    BY DEF SessionOwned
  <2>5. Cardinality(Owners(s)) <= 1
    BY SmallSums
  <2> QED
    BY <2>4, <2>5 DEF SessionOwned
<1> QED
  BY <1>1 DEF ServerSessionOwned

(***************************************************************************)
(* The port has one owner, as the sessions do.                             *)
(***************************************************************************)

\* The labels of the thread that has the port.
AtPort == {"accept", "track"}

\* The port has one owner, as the sessions do.
PortInv ==
    /\ portTracked \in BOOLEAN
    /\ \A v \in Servers :
           /\ "port" \in gathered[v] => portTracked
           /\ spc[v] \in AtPort => ~portTracked
           /\ wokenBy[v] = "port" \/ spc[v] = "accept" => sessionList # <<>>
    /\ \A v, w \in Servers : spc[v] \in AtPort /\ spc[w] \in AtPort => v = w

LEMMA PortInit == Init => PortInv
  BY SessionAssumption DEF Init, KernelInit, None, PortInv, AtPort


\* NotifyAvailable ends waits with its object, when that is signaled.
LEMMA NotifyWakes ==
    ASSUME NEW o, NEW result, NEW signaled, Notify(o, result, signaled),
           waitSet \in [Servers -> SUBSET Objects]
    PROVE  \A w \in Servers :
               \/ waitSet'[w] = {} /\ wokenBy'[w] = o /\ o \in waitSet[w] /\ signaled
               \/ waitSet'[w] = waitSet[w] /\ wokenBy'[w] = wokenBy[w] /\ (o \in waitSet[w] => ~signaled)
  BY DEF Notify

\* A thread that holds m_serve_mutex waits alone.
LEMMA WaitsAlone ==
    ASSUME ThreadInv, NEW v \in Servers, serveMutex = v, NEW w \in Servers, w # v
    PROVE  gathered[w] = {} /\ waitSet[w] = {} /\ wokenBy[w] = None
  BY DEF ThreadInv, ThreadHas, WaitHas

\* A thread that holds no list of objects.
LEMMA WaitsNot ==
    ASSUME ThreadInv, NEW w \in Servers, spc[w] \notin {"wait", "blocked"}
    PROVE  gathered[w] = {} /\ waitSet[w] = {} /\ wokenBy[w] = None
  BY DEF ThreadInv, ThreadHas, WaitHas

LEMMA FirstIsSignaled ==
    ASSUME NEW v
    PROVE  /\ \A o \in FirstSignaled(v) : o \in gathered[v] /\ IsSignaled(o)
           /\ FirstSignaled(v) = {} => \A o \in gathered[v] : IsSignaled(o) => o \in Sessions \/ o = "deferral"
  BY DEF FirstSignaled

\* The steps of the kernel that end waits.
LEMMA KernelWakes ==
    ASSUME \/ \E c \in Clients : Kernel(ClientCall(c) \/ ClientStep(c) \/ RequestTerminate(c))
           \/ \E s \in Sessions : Kernel(Destruction(s))
    PROVE  \/ UNCHANGED <<waitSet, wokenBy, sessionList>>
           \/ \E c \in Clients : EnqueueSession(c)
           \/ \E c \in Clients : OnRequest(c) /\ UNCHANGED sessionList
           \/ \E s \in Sessions : OnClientClosedNotify(s) /\ UNCHANGED sessionList
<1> USE DEF waitVars, portVars
<1> ASSUME NEW c \in Clients, ClientCall(c) \/ ClientStep(c) \/ RequestTerminate(c)
    PROVE  \/ UNCHANGED <<waitSet, wokenBy, sessionList>> \/ EnqueueSession(c)
           \/ OnRequest(c) /\ UNCHANGED sessionList
  <2> CASE EnqueueSession(c)
    OBVIOUS
  <2> CASE OnRequest(c)
    BY DEF OnRequest
  <2> CASE \/ ClientCall(c) \/ CountSession(c) \/ CreateFails(c) \/ RequestTerminate(c)
           \/ EnqueueFails(c) \/ UndoServer(c)
           \/ OnRequestFails(c) \/ ReturnRequest(c) \/ ClientDone(c)
    BY DEF ClientCall, RequestTerminate, CreateSession, SendSyncRequest, CloseHandle, CountSession,
       CreateFails, EnqueueFails, UndoServer, OnRequestFails, ReturnRequest, ClientDone
  <2> QED
    BY DEF ClientStep
<1> ASSUME NEW s \in Sessions, Destruction(s)
    PROVE  \/ UNCHANGED <<waitSet, wokenBy, sessionList>>
           \/ OnClientClosedNotify(s) /\ UNCHANGED sessionList
  <2> CASE OnClientClosedNotify(s)
    BY DEF OnClientClosedNotify
  <2> CASE ~OnClientClosedNotify(s)
    BY DEF Destruction, TestState, SetState, CloseParent, Finalize, OnClientClosedCurrent,
       OnClientClosedPop, CleanupTake, CleanupEndWait, CleanupDone
  <2> QED
    OBVIOUS
<1> QED
  BY DEF Kernel

LEMMA PortNext == ReplyInv /\ ServerInv /\ ThreadInv /\ PortInv /\ [Next]_vars => PortInv'
\* A step that takes the port from nobody.
<1>1. ASSUME PortInv, UNCHANGED portTracked, sessionList # <<>> => sessionList' # <<>>,
             \A w \in Servers :
                 /\ "port" \in gathered'[w] => "port" \in gathered[w] \/ portTracked
                 /\ spc'[w] \in AtPort => spc'[w] = spc[w]
                 /\ wokenBy'[w] = "port" => wokenBy[w] = "port" \/ sessionList' # <<>>
      PROVE  PortInv'
  BY <1>1 DEF PortInv, AtPort
\* The port is taken, accepted from, and put back.
<1>2. ASSUME PortInv, ThreadInv, ReplyInv, NEW v \in Servers, TakePort(v) \/ Accept(v) \/ TrackPort(v)
      PROVE  PortInv'
  <2> USE <1>2
  <2> USE DEF managerVars, serverVars, kernelVars, waitVars, portVars
  <2> /\ spc \in [Servers -> ServerLabels] /\ gathered \in [Servers -> SUBSET Objects]
      /\ wokenBy \in [Servers -> Objects \cup {None}]
    BY DEF ReplyInv, Typed, ThreadInv, ThreadTyped
  <2> CASE TakePort(v)
    <3> /\ spc[v] = "blocked" /\ wokenBy[v] = "port" /\ portTracked' = FALSE /\ Goto(v, "accept")
        /\ gathered' = [gathered EXCEPT ![v] = {}] /\ wokenBy' = [wokenBy EXCEPT ![v] = None]
        /\ UNCHANGED sessionList
      BY DEF TakePort, Woken, CloseWaitObjs
    <3> serveMutex = v /\ "port" \in gathered[v] /\ "port" # None
      BY SessionAssumption DEF ThreadInv, ThreadHas, WaitHas, None
    <3> /\ sessionList' # <<>> /\ portTracked
      BY DEF PortInv
    <3> /\ spc'[v] = "accept" /\ gathered'[v] = {} /\ wokenBy'[v] = None
        /\ \A w \in Servers \ {v} : spc'[w] = spc[w] /\ gathered'[w] = {} /\ wokenBy'[w] = None
      BY WaitsAlone DEF Goto
    <3> \A w \in Servers : spc'[w] \in AtPort => w = v
      BY DEF PortInv
    <3> ~portTracked' /\ portTracked' \in BOOLEAN
      OBVIOUS
    <3> \A w \in Servers : "port" \notin gathered'[w]
      OBVIOUS
    <3> QED
      BY DEF PortInv
  <2> CASE Accept(v)
    <3> spc[v] = "accept" /\ Goto(v, "track") /\ UNCHANGED <<portTracked, gathered, wokenBy>>
      BY DEF Accept, AcceptSession
    <3> spc[v] \in AtPort /\ ~portTracked
      BY DEF AtPort, PortInv
    <3> \A w \in Servers : wokenBy[w] # "port" /\ "port" \notin gathered[w]
      BY SessionAssumption DEF PortInv, ThreadInv, WaitHas, None
    <3> spc'[v] = "track" /\ \A w \in Servers \ {v} : spc'[w] = spc[w]
      BY DEF Goto
    <3> \A w \in Servers : spc'[w] \in AtPort => w = v
      BY DEF PortInv
    <3> \A w \in Servers : spc'[w] # "accept"
      BY DEF AtPort
    <3> \A w \in Servers : wokenBy'[w] # "port" /\ "port" \notin gathered'[w]
      OBVIOUS
    <3> portTracked' \in BOOLEAN /\ ~portTracked'
      BY DEF PortInv
    <3> QED
      BY DEF PortInv
  <2> CASE TrackPort(v)
    BY DEF TrackPort, AtPort, Goto, PortInv
  <2> QED
    OBVIOUS
\* The other steps of a thread.
<1>3. ASSUME PortInv, ThreadInv, ServerInv, ReplyInv, NEW v \in Servers, ServerStep(v),
             ~(TakePort(v) \/ Accept(v) \/ TrackPort(v))
      PROVE  PortInv'
  <2> USE <1>3
  <2> USE DEF managerVars, serverVars, kernelVars, waitVars, portVars
  <2> /\ spc \in [Servers -> ServerLabels] /\ gathered \in [Servers -> SUBSET Objects]
      /\ wokenBy \in [Servers -> Objects \cup {None}] /\ waitSet \in [Servers -> SUBSET Objects]
    BY DEF ReplyInv, Typed, ThreadInv, ThreadTyped
  <2> UNCHANGED <<portTracked, sessionList>>
    BY ZenonT(30) DEF ServerStep, LoopEnds, LockServe, ReturnStopped, Gather, WaitImmediate,
       WaitBlock, WaitFailed, CloseWaitObjs, TakeSession, Woken, ClearDeferral, DrainDeferrals,
       TakeEvent, SignalEvent, Receive, ReceiveClosed, ReceiveRequest, Received, SetCurrent, Defer,
       Reply, SendReply, Replied, EndReply, Reinsert, CloseSession, DropServer, CloseDone,
       NextDeferral, Leave, LeaveDone
  <2> \E label \in ServerLabels \ AtPort : Goto(v, label)
    BY DEF LoopEnds, LockServe, ReturnStopped, Gather, WaitImmediate, WaitBlock, AtPort,
       ServerLabels,
       WaitFailed, TakeSession, ClearDeferral, DrainDeferrals, TakeEvent, SignalEvent, Receive,
       Received, Defer, Reply, AfterSession, Replied, Reinsert, CloseSession, CloseDone, NextDeferral,
       Leave, LeaveDone, ServerStep
  <2> \A w \in Servers : spc'[w] \in AtPort => spc'[w] = spc[w]
    BY DEF Goto
  <2> \A w \in Servers : "port" \in gathered'[w] => "port" \in gathered[w] \/ portTracked
    <3> CASE Gather(v)
      BY SessionAssumption DEF Gather, ThreadInv, ThreadTyped
    <3> CASE WaitFailed(v) \/ TakeSession(v) \/ ClearDeferral(v) \/ TakeEvent(v)
      BY DEF WaitFailed, TakeSession, ClearDeferral, TakeEvent, Woken, CloseWaitObjs
    <3> CASE ~Gather(v) /\ ~(WaitFailed(v) \/ TakeSession(v) \/ ClearDeferral(v) \/ TakeEvent(v))
      BY DEF ServerStep, LoopEnds, LockServe, ReturnStopped, WaitImmediate, WaitBlock,
         DrainDeferrals,
         SignalEvent, Receive, Received, Defer, Reply, Replied, Reinsert, CloseSession, CloseDone,
         NextDeferral, Leave, LeaveDone
    <3> QED
      OBVIOUS
  <2> \A w \in Servers : wokenBy'[w] = "port" => wokenBy[w] = "port" \/ sessionList' # <<>>
    <3> CASE WaitImmediate(v)
      <4> PICK o \in FirstSignaled(v) : wokenBy' = [wokenBy EXCEPT ![v] = o]
        BY DEF WaitImmediate
      <4> o = "port" => sessionList # <<>>
        BY FirstIsSignaled, SessionAssumption DEF IsSignaled
      <4> QED
        OBVIOUS
    <3> CASE WaitFailed(v) \/ TakeSession(v) \/ ClearDeferral(v) \/ TakeEvent(v)
      BY SessionAssumption DEF WaitFailed, TakeSession, ClearDeferral, TakeEvent, Woken,
         CloseWaitObjs, None
    <3> CASE SignalEvent(v)
      <4> \A w \in Servers : wokenBy'[w] = wokenBy[w] \/ wokenBy'[w] = "event"
        BY NotifyWakes DEF SignalEvent
      <4> QED
        OBVIOUS
    <3> CASE Reply(v)
      <4> \A w \in Servers : wokenBy'[w] = wokenBy[w] \/ wokenBy'[w] = serving[v]
        BY NotifyWakes, ZenonT(30) DEF Reply, SendReply
      <4> ASSUME NEW w \in Servers, wokenBy'[w] # wokenBy[w]
          PROVE  wokenBy'[w] # "port"
        BY SessionAssumption DEF Reply, ServerInv, ServerTyped, AtSession
      <4> QED
        OBVIOUS
    <3> CASE ~(WaitImmediate(v) \/ WaitFailed(v) \/ TakeSession(v) \/ ClearDeferral(v) \/ TakeEvent(v)
               \/ SignalEvent(v) \/ Reply(v))
      BY DEF ServerStep, LoopEnds, LockServe, ReturnStopped, Gather, WaitBlock, DrainDeferrals,
         Receive, ReceiveClosed, ReceiveRequest, Received, SetCurrent, Defer, Replied, EndReply,
         Reinsert, CloseSession, DropServer, CloseDone, NextDeferral, Leave, LeaveDone
    <3> QED
      OBVIOUS
  <2> QED
    BY <1>1
\* The steps of the kernel make sessions for the port, and take none.
<1>4. ASSUME PortInv, ThreadInv, ServerInv, ReplyInv,
             \/ \E c \in Clients : Kernel(ClientCall(c) \/ ClientStep(c) \/ RequestTerminate(c))
             \/ \E s \in Sessions : Kernel(Destruction(s))
      PROVE  PortInv'
  <2> USE <1>4
  <2> UNCHANGED <<spc, gathered, portTracked>> /\ waitSet \in [Servers -> SUBSET Objects]
    BY DEF Kernel, managerVars, serverVars, ThreadInv, ThreadTyped
  <2>2. CASE UNCHANGED <<waitSet, wokenBy, sessionList>>
    BY <2>2, <1>1
  <2>3. ASSUME NEW c \in Clients, EnqueueSession(c)
        PROVE  PortInv'
    <3> USE <2>3
    <3> csession[c] \in Sessions /\ sessionList \in Seq(Sessions)
      BY DEF EnqueueSession, ReplyInv, ClientHeld, ServerInv, ServerTyped
    <3> sessionList' # <<>>
      BY AppendFacts DEF EnqueueSession
    <3> QED
      BY <1>1
  <2> ASSUME NEW o \in Sessions, UNCHANGED sessionList,
             \A w \in Servers : wokenBy'[w] = wokenBy[w] \/ wokenBy'[w] = o
      PROVE  PortInv'
    BY SessionAssumption, <1>1
  <2> ASSUME NEW c \in Clients, OnRequest(c), UNCHANGED sessionList
      PROVE  PortInv'
    <3> csession[c] \in Sessions
      BY DEF OnRequest, ReplyInv, ClientHeld, InCall
    <3> PICK o, result, signaled : o = csession[c] /\ Notify(o, result, signaled)
      BY DEF OnRequest
    <3> \A w \in Servers : wokenBy'[w] = wokenBy[w] \/ wokenBy'[w] = o
      BY NotifyWakes
    <3> QED
      OBVIOUS
  <2> ASSUME NEW s \in Sessions, OnClientClosedNotify(s), UNCHANGED sessionList
      PROVE  PortInv'
    <3> \A w \in Servers : wokenBy'[w] = wokenBy[w] \/ wokenBy'[w] = s
      BY NotifyWakes DEF OnClientClosedNotify
    <3> QED
      OBVIOUS
  <2> QED
    BY <2>2, <2>3, KernelWakes
\* The destructor empties the port when the threads are gone.
<1>5. ASSUME PortInv, ThreadInv, SignalDeferral \/ RequestStop \/ Destructor \/ UNCHANGED vars
      PROVE  PortInv'
  <2> USE <1>5
  <2> USE DEF kernelVars, waitVars, managerVars, serverVars, portVars
  <2> UNCHANGED <<spc, gathered, portTracked>> /\ waitSet \in [Servers -> SUBSET Objects]
    BY DEF SignalDeferral, RequestStop, Destructor, StopSignal, ClosePort, CleanupSession,
       CleanupSessionsDone, CloseTracked, CloseDeferred, DestructorDone, DropServer, vars, ThreadInv,
       ThreadTyped
  <2> CASE CleanupSession
    BY WaitsNot, SessionAssumption DEF CleanupSession, ThreadInv, AtPort, None, PortInv
  <2> CASE SignalDeferral \/ StopSignal
    <3> UNCHANGED sessionList
      BY DEF SignalDeferral, StopSignal
    <3> \A w \in Servers : wokenBy'[w] \in {wokenBy[w], "deferral", "event"}
      BY NotifyWakes DEF SignalDeferral, StopSignal
    <3> \A w \in Servers : wokenBy'[w] = "port" => wokenBy[w] = "port"
      OBVIOUS
    <3> QED
      BY <1>1
  <2> CASE \/ RequestStop \/ ClosePort \/ CleanupSessionsDone \/ CloseTracked \/ CloseDeferred
           \/ DestructorDone \/ UNCHANGED vars
    BY <1>1 DEF RequestStop, ClosePort, CleanupSessionsDone, CloseTracked, CloseDeferred,
       DestructorDone, DropServer, vars
  <2> QED
    BY DEF Destructor
<1> QED
  BY <1>2, <1>3, <1>4, <1>5, ZenonT(30) DEF Next

(***************************************************************************)
(* The session that ended a wait, and the requests being served.           *)
(***************************************************************************)


Signaled(s) == SessionSignaled(state[s], requestList[s], current[s])

\* A session is signaled while nobody has come to receive from it, and the one that is
\* replied to has a request.
Found(s, v) ==
    /\ wokenBy[v] = s => Signaled(s)
    /\ spc[v] = "receive" /\ serving[v] = s => Signaled(s)
    /\ spc[v] = "complete" /\ serving[v] = s => current[s] # None
    /\ In(s, drained[v]) => current[s] # None

FoundInv ==
    \A s \in Sessions :
        /\ \A v \in Servers : Found(s, v)
        /\ In(s, deferrals) => current[s] # None
        /\ end[s]["client"] \in {"current", "sweep"} => state[s] # "Normal"

LEMMA FoundInit == Init => FoundInv
<1> SUFFICES ASSUME Init PROVE FoundInv
  OBVIOUS
<1> ASSUME NEW s \in Sessions
    PROVE  end[s]["client"] = "none" /\ ~In(s, deferrals)
  BY NotInEmpty DEF Init, KernelInit, Ends
<1> ASSUME NEW s \in Sessions, NEW v \in Servers
    PROVE  Found(s, v)
  BY SessionAssumption, NotInEmpty DEF Init, KernelInit, Found
<1> QED
  BY DEF FoundInv


\* A session that a thread serves is nowhere else.
LEMMA ServedAlone ==
    ASSUME OwnerInv, ThreadInv, NEW s \in Sessions, NEW v \in Servers, serving[v] = s, spc[v] # "closing"
    PROVE  /\ s \notin tracked /\ ~In(s, deferrals)
           /\ \A w \in Servers : wokenBy[w] # s /\ ~In(s, drained[w]) /\ s \notin gathered[w]
           /\ \A w \in Servers : serving[w] = s /\ spc[w] # "closing" => w = v
<1> Has(s, "serving", v)
  BY HasKinds
<1> \A k, l, w, x : Has(s, k, w) /\ Has(s, l, x) => k = l /\ w = x
  BY DEF OwnerInv, SessionOwned
<1> /\ ~Has(s, "tracked", None) /\ ~Has(s, "deferred", None) /\ \A w : ~Has(s, "drained", w)
    /\ \A w : Has(s, "serving", w) => w = v
  OBVIOUS
<1> /\ s \notin tracked /\ ~In(s, deferrals) /\ \A w \in Servers : ~In(s, drained[w])
    /\ \A w \in Servers : serving[w] = s /\ spc[w] # "closing" => w = v
  BY HasKinds
<1> \A w \in Servers : s \notin gathered[w] /\ wokenBy[w] # s
  BY SessionAssumption DEF ThreadInv, WaitHas
<1> QED
  OBVIOUS

\* A session somebody has.
LEMMA OwnedIs ==
    ASSUME FiniteSetLaws, OwnerInv, ThreadInv, NEW s \in Sessions,
           \/ s \in tracked \/ In(s, deferrals)
           \/ \E v \in Servers : \/ wokenBy[v] = s \/ s \in gathered[v] \/ In(s, drained[v])
                                 \/ serving[v] = s /\ spc[v] # "closing"
    PROVE  Owned(s) /\ end[s]["server"] = "open"
<1> \A v \in Servers : wokenBy[v] = s \/ s \in gathered[v] => s \in tracked
  BY SessionAssumption DEF ThreadInv, WaitHas
<1> \/ Has(s, "tracked", None) \/ Has(s, "deferred", None)
    \/ \E v : Has(s, "drained", v) \/ Has(s, "serving", v)
  BY HasKinds
<1> Owned(s) /\ SessionOwned(s)
  BY DEF Owned, OwnerInv
<1> Cardinality(Users(s)) \in Nat /\ serverRefs[s] = 1 + Cardinality(Users(s))
  BY OwnedNumbers
<1> serverRefs[s] > 0
  BY IntFacts
<1> QED
  BY DEF SessionOwned

\* What is found in a session that keeps its current request and stays signaled.
LEMMA FoundStays ==
    ASSUME FoundInv, NEW v \in Servers, NEW s \in Sessions, Signaled(s) => Signaled(s)',
           current'[s] = current[s]
    PROVE  /\ In(s, deferrals) => current'[s] # None
           /\ \A w \in Servers : In(s, drained[w]) => current'[s] # None
           /\ \A w \in Servers : wokenBy[w] = s => Signaled(s)'
           /\ \A w \in Servers \ {v} : /\ spc[w] = "receive" /\ serving[w] = s => Signaled(s)'
                                       /\ spc[w] = "complete" /\ serving[w] = s => current'[s] # None
  BY DEF FoundInv, Found

\* Nobody but the thread that serves a session looks for anything in it.
LEMMA FoundAlone ==
    ASSUME ThreadInv, OwnerInv, NEW v \in Servers, NEW s \in Sessions, serving[v] = s,
           spc[v] # "closing"
    PROVE  /\ In(s, deferrals) => current'[s] # None
           /\ \A w \in Servers : In(s, drained[w]) => current'[s] # None
           /\ \A w \in Servers : wokenBy[w] = s => Signaled(s)'
           /\ \A w \in Servers \ {v} : /\ spc[w] = "receive" /\ serving[w] = s => Signaled(s)'
                                       /\ spc[w] = "complete" /\ serving[w] = s => current'[s] # None
<1>1. /\ ~In(s, deferrals)
      /\ \A w \in Servers : wokenBy[w] # s /\ ~In(s, drained[w])
      /\ \A w \in Servers : serving[w] = s /\ spc[w] # "closing" => w = v
  BY ServedAlone
<1>2. \A w \in Servers \ {v} : serving[w] = s => spc[w] = "closing"
  BY <1>1
<1> QED
  BY <1>1, <1>2

\* A step of the thread v, which may serve the session x: what it leaves of the others.
FoundStep(v, x) ==
    /\ x \in Sessions => serving[v] = x /\ spc[v] # "closing"
    /\ \A s \in Sessions : end'[s]["client"] = end[s]["client"] /\ state'[s] = state[s]
    /\ \A s \in Sessions : s # x => requestList'[s] = requestList[s] /\ current'[s] = current[s]
    /\ \A w \in Servers \ {v} : /\ spc'[w] = spc[w] /\ serving'[w] = serving[w]
                               /\ drained'[w] = drained[w]
    /\ \A s \in Sessions :
           /\ \A w \in Servers : wokenBy'[w] = s => wokenBy[w] = s \/ Signaled(s)'
           /\ spc'[v] = "receive" /\ serving'[v] = s => Signaled(s)'
           /\ spc'[v] = "complete" /\ serving'[v] = s => current'[s] # None
           /\ In(s, drained'[v]) => In(s, drained[v]) \/ In(s, deferrals)
           /\ In(s, deferrals') => In(s, deferrals) \/ current'[s] # None

\* A step in which v leaves the session x it serves for a place where it looks for nothing.
LeaveStep(v, x, label) ==
    /\ label # "receive" /\ Goto(v, label)
    /\ x = serving[v] /\ x \in Sessions /\ spc[v] # "closing"
    /\ UNCHANGED <<state, end, serving, drained, deferrals>>
    /\ \A s \in Sessions : s # x => requestList'[s] = requestList[s] /\ current'[s] = current[s]
    /\ \A s \in Sessions : \A w \in Servers : wokenBy'[w] = s => wokenBy[w] = s \/ Signaled(s)'
    /\ \A s \in Sessions : spc'[v] = "complete" /\ serving'[v] = s => current'[s] # None

\* What is found signaled or with a request stays so until the thread gets to it.
LEMMA FoundNext ==
    ASSUME FiniteSetLaws
    PROVE  ReplyInv /\ ServerInv /\ ThreadInv /\ OwnerInv /\ FoundInv /\ [Next]_vars => FoundInv'
\* A thread takes a step, with the session s0 it serves or without one.
<1>1. ASSUME FoundInv, ThreadInv, OwnerInv, NEW v \in Servers, NEW s0, FoundStep(v, s0)
      PROVE  FoundInv'
  <2>1. FoundInv /\ ThreadInv /\ OwnerInv
    BY <1>1
  <2>2. ASSUME NEW s \in Sessions
        PROVE  /\ In(s, deferrals) => current'[s] # None
               /\ \A w \in Servers : In(s, drained[w]) => current'[s] # None
               /\ \A w \in Servers : wokenBy[w] = s => Signaled(s)'
               /\ \A w \in Servers \ {v} : /\ spc[w] = "receive" /\ serving[w] = s => Signaled(s)'
                                           /\ spc[w] = "complete" /\ serving[w] = s => current'[s] # None
    <3>1. CASE s # s0
      <4>1. Signaled(s) => Signaled(s)'
        BY <1>1, <3>1 DEF FoundStep, Signaled
      <4>2. current'[s] = current[s]
        BY <1>1, <3>1 DEF FoundStep
      <4> QED
        BY <2>1, <4>1, <4>2, FoundStays
    <3>2. CASE s = s0
      <4>1. serving[v] = s /\ spc[v] # "closing"
        BY <1>1, <3>2 DEF FoundStep
      <4> QED
        BY <2>1, <4>1, FoundAlone
    <3> QED
      BY <3>1, <3>2
  <2>3. ASSUME NEW s \in Sessions
        PROVE  Found(s, v)'
    <3>1. /\ wokenBy'[v] = s => Signaled(s)'
          /\ In(s, drained'[v]) => current'[s] # None
      BY <1>1, <2>2 DEF FoundStep
    <3>2. /\ spc'[v] = "receive" /\ serving'[v] = s => Signaled(s)'
          /\ spc'[v] = "complete" /\ serving'[v] = s => current'[s] # None
      BY <1>1 DEF FoundStep
    <3> QED
      BY <3>1, <3>2 DEF Found
  <2>4. ASSUME NEW s \in Sessions, NEW w \in Servers \ {v}
        PROVE  Found(s, w)'
    <3>1. spc'[w] = spc[w] /\ serving'[w] = serving[w] /\ drained'[w] = drained[w]
      BY <1>1 DEF FoundStep
    <3>2. wokenBy'[w] = s => wokenBy[w] = s \/ Signaled(s)'
      BY <1>1 DEF FoundStep
    <3>3. /\ wokenBy'[w] = s => Signaled(s)'
          /\ In(s, drained'[w]) => current'[s] # None
      BY <2>2, <3>1, <3>2
    <3>4. /\ spc'[w] = "receive" /\ serving'[w] = s => Signaled(s)'
          /\ spc'[w] = "complete" /\ serving'[w] = s => current'[s] # None
      BY <2>2, <3>1
    <3> QED
      BY <3>3, <3>4 DEF Found
  <2>5. ASSUME NEW s \in Sessions, NEW w \in Servers
        PROVE  Found(s, w)'
    BY <2>3, <2>4
  <2>6. ASSUME NEW s \in Sessions
        PROVE  In(s, deferrals') => current'[s] # None
    BY <1>1, <2>2 DEF FoundStep
  <2>7. ASSUME NEW s \in Sessions
        PROVE  end'[s]["client"] \in {"current", "sweep"} => state'[s] # "Normal"
    <3>1. end'[s]["client"] = end[s]["client"] /\ state'[s] = state[s]
      BY <1>1 DEF FoundStep
    <3>2. end[s]["client"] \in {"current", "sweep"} => state[s] # "Normal"
      BY <2>1 DEF FoundInv
    <3> QED
      BY <3>1, <3>2
  <2> QED
    BY <2>5, <2>6, <2>7 DEF FoundInv
\* A step that leaves requests, and what threads work on, alone.
<1>2. ASSUME FoundInv, ThreadInv, OwnerInv, ServerInv, ReplyInv, NEW v \in Servers,
             \/ LoopEnds(v) \/ LockServe(v) \/ ReturnStopped(v) \/ Gather(v) \/ WaitBlock(v) \/ WaitFailed(v)
             \/ TakePort(v) \/ ClearDeferral(v) \/ TakeEvent(v) \/ Accept(v) \/ TrackPort(v) \/ SignalEvent(v)
             \/ Replied(v) \/ Reinsert(v) \/ CloseSession(v) \/ CloseDone(v) \/ Leave(v) \/ LeaveDone(v)
      PROVE  FoundInv'
  <2> USE <1>2
  <2> USE DEF managerVars, serverVars, kernelVars, waitVars, portVars, requestVars, endVars
  <2> /\ spc \in [Servers -> ServerLabels] /\ wokenBy \in [Servers -> Objects \cup {None}]
      /\ waitSet \in [Servers -> SUBSET Objects] /\ serving \in [Servers -> Sessions \cup {None}]
      /\ None \notin Sessions /\ "event" \notin Sessions
    BY SessionAssumption DEF ReplyInv, Typed, ThreadInv, ThreadTyped, ServerInv, ServerTyped
  <2> UNCHANGED <<state, requestList, current, drained, deferrals>>
    BY DEF LoopEnds, LockServe, ReturnStopped, Gather, WaitBlock, WaitFailed, TakePort, Woken,
       CloseWaitObjs, ClearDeferral, TakeEvent, Accept, AcceptSession, TrackPort, SignalEvent,
       Replied, EndReply, Reinsert, CloseSession, DropServer, CloseDone, Leave, LeaveDone
  <2> \A s \in Sessions : end'[s]["client"] = end[s]["client"]
    BY DropEnds DEF LoopEnds, LockServe, ReturnStopped, Gather, WaitBlock, WaitFailed, TakePort,
       Woken, CloseWaitObjs, ClearDeferral, TakeEvent, Accept, AcceptSession, TrackPort, SignalEvent,
       Replied, EndReply, Reinsert, CloseSession, DropServer, CloseDone, Leave, LeaveDone, ReplyInv
  <2> \E label \in ServerLabels \ {"receive", "complete"} : Goto(v, label)
    BY DEF LoopEnds, LockServe, ReturnStopped, Gather, WaitBlock, WaitFailed, TakePort, Woken,
       CloseWaitObjs, ClearDeferral, TakeEvent, ServerLabels, Accept, TrackPort, SignalEvent, Replied,
       Reinsert, AfterSession, CloseSession, CloseDone, Leave, LeaveDone
  <2> \A w \in Servers \ {v} : serving'[w] = serving[w]
    BY DEF LoopEnds, LockServe, ReturnStopped, Gather, WaitBlock, WaitFailed, TakePort,
       ClearDeferral,
       TakeEvent, Accept, TrackPort, SignalEvent, Replied, Reinsert, CloseSession, CloseDone, Leave,
       LeaveDone
  <2> \A w \in Servers : wokenBy'[w] = wokenBy[w] \/ wokenBy'[w] \notin Sessions
    <3> CASE SignalEvent(v)
      <4> \A w \in Servers : wokenBy'[w] = wokenBy[w] \/ wokenBy'[w] = "event"
        BY NotifyWakes DEF SignalEvent
      <4> QED
        OBVIOUS
    <3> CASE ~SignalEvent(v)
      BY DEF LoopEnds, LockServe, ReturnStopped, Gather, WaitBlock, WaitFailed, TakePort, Woken,
         CloseWaitObjs, ClearDeferral, TakeEvent, Accept, AcceptSession, TrackPort, Replied, EndReply,
         Reinsert, CloseSession, DropServer, CloseDone, Leave, LeaveDone
    <3> QED
      OBVIOUS
  <2> spc'[v] \notin {"receive", "complete"} /\ \A w \in Servers \ {v} : spc'[w] = spc[w]
    BY DEF Goto
  <2> \A s \in Sessions : \A w \in Servers : wokenBy'[w] = s => wokenBy[w] = s
    OBVIOUS
  <2> PICK s0 : s0 \notin Sessions
    OBVIOUS
  <2> \A s \in Sessions : end'[s]["client"] = end[s]["client"] /\ state'[s] = state[s]
    OBVIOUS
  <2> \A s \in Sessions : s # s0 => requestList'[s] = requestList[s] /\ current'[s] = current[s]
    OBVIOUS
  <2> \A w \in Servers \ {v} : /\ spc'[w] = spc[w] /\ serving'[w] = serving[w]
                                /\ drained'[w] = drained[w]
    OBVIOUS
  <2> \A s \in Sessions :
          /\ \A w \in Servers : wokenBy'[w] = s => wokenBy[w] = s \/ Signaled(s)'
          /\ spc'[v] = "receive" /\ serving'[v] = s => Signaled(s)'
          /\ spc'[v] = "complete" /\ serving'[v] = s => current'[s] # None
          /\ In(s, drained'[v]) => In(s, drained[v]) \/ In(s, deferrals)
          /\ In(s, deferrals') => In(s, deferrals) \/ current'[s] # None
    OBVIOUS
  <2> QED
    BY <1>1 DEF FoundStep
\* A thread finds an object signaled, is woken by a session, defers a request or comes
\* back to one.
<1>3. ASSUME FoundInv, ThreadInv, OwnerInv, ServerInv, ReplyInv, NEW v \in Servers,
             WaitImmediate(v) \/ TakeSession(v) \/ DrainDeferrals(v) \/ Defer(v) \/ NextDeferral(v)
      PROVE  FoundInv'
  <2> USE <1>3
  <2> USE DEF managerVars, serverVars, kernelVars, waitVars, portVars, requestVars, endVars
  <2> /\ spc \in [Servers -> ServerLabels] /\ wokenBy \in [Servers -> Objects \cup {None}]
      /\ serving \in [Servers -> Sessions \cup {None}] /\ drained \in [Servers -> Seq(Sessions)]
      /\ deferrals \in Seq(Sessions) /\ None \notin Sessions
      /\ Once(deferrals) /\ Once(drained[v])
    BY SessionAssumption DEF ReplyInv, Typed, ThreadInv, ThreadTyped, ServerInv, ServerTyped,
       OwnerInv
  <2> UNCHANGED <<state, requestList, current>>
    BY DEF WaitImmediate, TakeSession, Woken, CloseWaitObjs, DrainDeferrals, Defer, NextDeferral
  <2> \A s \in Sessions : (Signaled(s)' <=> Signaled(s)) /\ current'[s] = current[s]
    BY DEF Signaled
  <2> \A s \in Sessions : end'[s]["client"] = end[s]["client"] /\ state'[s] = state[s]
    BY DropEnds DEF WaitImmediate, TakeSession, Woken, CloseWaitObjs, DrainDeferrals, Defer,
       NextDeferral, ReplyInv
  <2> PICK s0 : s0 \notin Sessions
    OBVIOUS
  <2> \A s \in Sessions : s # s0 => requestList'[s] = requestList[s] /\ current'[s] = current[s]
    OBVIOUS
  <2> DEFINE Others == \A w \in Servers \ {v} : /\ spc'[w] = spc[w] /\ serving'[w] = serving[w]
                                                 /\ drained'[w] = drained[w]
             Mine == \A s \in Sessions :
                         /\ \A w \in Servers : wokenBy'[w] = s => wokenBy[w] = s \/ Signaled(s)'
                         /\ spc'[v] = "receive" /\ serving'[v] = s => Signaled(s)'
                         /\ spc'[v] = "complete" /\ serving'[v] = s => current'[s] # None
                         /\ In(s, drained'[v]) => In(s, drained[v]) \/ In(s, deferrals)
                         /\ In(s, deferrals') => In(s, deferrals) \/ current'[s] # None
  <2> Others /\ Mine => FoundInv'
    BY <1>1 DEF FoundStep
  <2> CASE WaitImmediate(v)
    <3> /\ Goto(v, "blocked") /\ UNCHANGED <<serving, drained, deferrals>>
        /\ \E o \in FirstSignaled(v) : wokenBy' = [wokenBy EXCEPT ![v] = o]
      BY DEF WaitImmediate
    <3> spc'[v] = "blocked" /\ \A w \in Servers \ {v} : spc'[w] = spc[w]
      BY DEF Goto
    <3> PICK o \in FirstSignaled(v) : wokenBy'[v] = o /\ \A w \in Servers \ {v} : wokenBy'[w] = wokenBy[w]
      OBVIOUS
    <3> \A s \in Sessions : s = o => Signaled(s)'
      <4> ASSUME NEW s \in Sessions, s = o
          PROVE  Signaled(s)
        <5> IsSignaled(s)
          BY FirstIsSignaled
        <5> QED
          BY SessionAssumption DEF IsSignaled, Signaled
      <4> QED
        OBVIOUS
    <3> Others
      OBVIOUS
    <3> \A s \in Sessions : \A w \in Servers : wokenBy'[w] = s => wokenBy[w] = s \/ Signaled(s)'
      OBVIOUS
    <3> Mine
      OBVIOUS
    <3> QED
      OBVIOUS
  <2> CASE TakeSession(v)
    <3> PICK o \in Sessions : wokenBy[v] = o /\ serving' = [serving EXCEPT ![v] = o]
      BY DEF TakeSession, Woken
    <3> Goto(v, "receive") /\ wokenBy' = [wokenBy EXCEPT ![v] = None] /\ UNCHANGED <<drained, deferrals>>
      BY DEF TakeSession, Woken, CloseWaitObjs
    <3> /\ spc'[v] = "receive" /\ serving'[v] = o /\ wokenBy'[v] = None
        /\ \A w \in Servers \ {v} : spc'[w] = spc[w] /\ serving'[w] = serving[w] /\ wokenBy'[w] = wokenBy[w]
      BY DEF Goto
    <3> Signaled(o)'
      BY DEF FoundInv, Found
    <3> \A s \in Sessions : serving'[v] = s => Signaled(s)'
      OBVIOUS
    <3> \A s \in Sessions : \A w \in Servers : wokenBy'[w] = s => wokenBy[w] = s
      OBVIOUS
    <3> Others
      OBVIOUS
    <3> Mine
      OBVIOUS
    <3> QED
      OBVIOUS
  <2> CASE DrainDeferrals(v)
    <3> \A r : ~In(r, <<>>)
      BY NotInEmpty
    <3> /\ deferrals' = <<>> /\ drained' = [drained EXCEPT ![v] = deferrals]
        /\ UNCHANGED <<wokenBy, serving>> /\ Goto(v, "deferred")
      BY DEF DrainDeferrals
    <3> QED
      BY DEF Goto
  <2> CASE Defer(v)
    <3> PICK s : s = serving[v]
      OBVIOUS
    <3> /\ spc[v] = "complete" /\ deferrals' = Append(deferrals, s) /\ Goto(v, AfterSession(v))
        /\ serving' = [serving EXCEPT ![v] = None] /\ UNCHANGED <<wokenBy, drained>>
      BY DEF Defer
    <3> s \in Sessions /\ current[s] # None
      BY DEF ServerInv, ServerTyped, AtSession, FoundInv, Found
    <3> ~In(s, deferrals)
      BY ServedAlone
    <3> \A r : In(r, deferrals') <=> r = s \/ In(r, deferrals)
      BY OnceAppend
    <3> spc'[v] \in {"deferred", "leave"} /\ \A w \in Servers \ {v} : spc'[w] = spc[w]
      BY DEF Goto, AfterSession
    <3> Others
      OBVIOUS
    <3> \A r \in Sessions : In(r, deferrals') => In(r, deferrals) \/ current'[r] # None
      OBVIOUS
    <3> Mine
      OBVIOUS
    <3> QED
      OBVIOUS
  <2> CASE NextDeferral(v)
    <3> UNCHANGED <<wokenBy, deferrals>>
      BY DEF NextDeferral
    <3> CASE drained[v] = <<>>
      BY DEF NextDeferral, Goto
    <3> CASE drained[v] # <<>>
      <4> PICK q : q = drained[v]
        OBVIOUS
      <4> /\ Goto(v, "complete") /\ serving' = [serving EXCEPT ![v] = Head(q)]
          /\ drained' = [drained EXCEPT ![v] = Tail(q)]
        BY DEF NextDeferral
      <4> /\ spc'[v] = "complete" /\ serving'[v] = Head(q) /\ drained'[v] = Tail(q)
          /\ \A w \in Servers \ {v} : /\ spc'[w] = spc[w] /\ serving'[w] = serving[w]
                                      /\ drained'[w] = drained[w]
        BY DEF Goto
      <4> q \in Seq(Sessions) /\ q # <<>> /\ Once(q)
        OBVIOUS
      <4> In(Head(q), q) /\ Head(q) \in Sessions /\ \A r : In(r, Tail(q)) => In(r, q)
        BY OnceTail
      <4> \A s \in Sessions : In(s, q) => current'[s] # None
        BY DEF FoundInv, Found
      <4> \A s \in Sessions : serving'[v] = s => current'[s] # None
        OBVIOUS
      <4> \A s \in Sessions : In(s, drained'[v]) => In(s, drained[v])
        OBVIOUS
      <4> Others
        OBVIOUS
      <4> Mine
        OBVIOUS
      <4> QED
        OBVIOUS
    <3> QED
      OBVIOUS
  <2> QED
    OBVIOUS
\* A thread leaves the session x it serves for a place where it looks for nothing.
<1>14. ASSUME FoundInv, ThreadInv, OwnerInv, ReplyInv, NEW v \in Servers, NEW x, NEW label,
              LeaveStep(v, x, label)
       PROVE  FoundInv'
  <2>1. spc' = [spc EXCEPT ![v] = label] /\ spc \in [Servers -> ServerLabels]
    BY <1>14 DEF LeaveStep, Goto, ReplyInv, Typed, ThreadInv, ThreadTyped
  <2>2. spc'[v] = label /\ \A w \in Servers \ {v} : spc'[w] = spc[w]
    BY <2>1
  <2>3. \A s \in Sessions : end'[s]["client"] = end[s]["client"] /\ state'[s] = state[s]
    BY <1>14 DEF LeaveStep
  <2>4. \A w \in Servers \ {v} : /\ spc'[w] = spc[w] /\ serving'[w] = serving[w]
                                 /\ drained'[w] = drained[w]
    BY <1>14, <2>2 DEF LeaveStep
  <2>5. \A s \in Sessions :
            /\ \A w \in Servers : wokenBy'[w] = s => wokenBy[w] = s \/ Signaled(s)'
            /\ spc'[v] = "receive" /\ serving'[v] = s => Signaled(s)'
            /\ spc'[v] = "complete" /\ serving'[v] = s => current'[s] # None
            /\ In(s, drained'[v]) => In(s, drained[v]) \/ In(s, deferrals)
            /\ In(s, deferrals') => In(s, deferrals) \/ current'[s] # None
    BY <1>14, <2>2 DEF LeaveStep
  <2>6. x \in Sessions => serving[v] = x /\ spc[v] # "closing"
    BY <1>14 DEF LeaveStep
  <2>7. \A s \in Sessions : s # x => requestList'[s] = requestList[s] /\ current'[s] = current[s]
    BY <1>14 DEF LeaveStep
  <2>8. FoundInv /\ ThreadInv /\ OwnerInv
    BY <1>14
  <2>9. FoundStep(v, x)
    BY <2>3, <2>4, <2>5, <2>6, <2>7 DEF FoundStep
  <2> QED
    BY <1>1, <2>8, <2>9
\* ReceiveRequest and SendReply, on the session the thread serves.
<1>4. ASSUME FoundInv, ThreadInv, OwnerInv, ServerInv, ReplyInv, NEW v \in Servers,
             Receive(v) \/ Received(v) \/ Reply(v)
      PROVE  FoundInv'
  <2> USE <1>4
  <2> USE DEF managerVars, serverVars, kernelVars, waitVars, portVars, requestVars, endVars
  <2> /\ spc \in [Servers -> ServerLabels] /\ waitSet \in [Servers -> SUBSET Objects]
      /\ requestList \in [Sessions -> Seq(Clients)] /\ current \in [Sessions -> Clients \cup {None}]
    BY DEF ReplyInv, Typed, ThreadInv, ThreadTyped
  <2> PICK s0 : s0 = serving[v]
    OBVIOUS
  <2> spc[v] \in {"receive", "received", "complete"} /\ UNCHANGED <<state, end, serving, drained, deferrals>>
    BY DEF Receive, ReceiveClosed, ReceiveRequest, Received, SetCurrent, Reply, SendReply
  <2> s0 \in Sessions /\ serving[v] = s0 /\ spc[v] # "closing"
    BY DEF ServerInv, ServerTyped, AtSession
  <2> DEFINE Rest == \A s \in Sessions : s # s0 => requestList'[s] = requestList[s] /\ current'[s] = current[s]
             Woke == \A s \in Sessions : \A w \in Servers : wokenBy'[w] = s => wokenBy[w] = s \/ Signaled(s)'
             Completes == \A s \in Sessions : spc'[v] = "complete" /\ serving'[v] = s => current'[s] # None
  <2> ASSUME NEW label, label # "receive", Goto(v, label), Rest, Woke, Completes
      PROVE  FoundInv'
    <3>1. LeaveStep(v, s0, label)
      BY DEF LeaveStep
    <3>2. FoundInv /\ ThreadInv /\ OwnerInv /\ ReplyInv
      BY <1>4
    <3> QED
      BY <1>14, <3>1, <3>2
  <2> CASE Receive(v)
    BY DEF Receive, ReceiveClosed, ReceiveRequest, Goto
  <2> CASE Received(v)
    BY DEF Received, SetCurrent, ServerInv, Handed
  <2> CASE Reply(v)
    <3> SendReply(v, s0) /\ Goto(v, "endReply")
      BY DEF Reply
    <3> PICK result, signaled : signaled = (requestList[s0] # <<>>) /\ Notify(s0, result, signaled)
      BY DEF SendReply
    <3> current' = [current EXCEPT ![s0] = None] /\ UNCHANGED requestList
      BY DEF SendReply
    <3> \A w \in Servers : wokenBy'[w] = wokenBy[w] \/ (wokenBy'[w] = s0 /\ signaled)
      BY NotifyWakes
    <3> current'[s0] = None /\ requestList'[s0] = requestList[s0]
      OBVIOUS
    <3> signaled => Signaled(s0)'
      BY DEF Signaled, SessionSignaled
    <3> Woke
      OBVIOUS
    <3> Rest
      OBVIOUS
    <3> spc'[v] = "endReply"
      BY DEF Goto
    <3> Completes
      OBVIOUS
    <3> QED
      OBVIOUS
  <2> QED
    OBVIOUS
\* A step of the kernel objects: what matters of a server session that is open.
<1>5. ASSUME FoundInv, ThreadInv, OwnerInv, UNCHANGED <<spc, serving, drained, deferrals>>,
             \A s \in Sessions : end[s]["server"] = "open" =>
                 (Signaled(s) => Signaled(s)') /\ (current[s] # None => current'[s] # None),
             \A s \in Sessions : \A w \in Servers : wokenBy'[w] = s => wokenBy[w] = s \/ Signaled(s)',
             \A s \in Sessions : end'[s]["client"] \in {"current", "sweep"} => state'[s] # "Normal"
      PROVE  FoundInv'
  BY <1>5, OwnedIs DEF FoundInv, Found
\* A step that leaves the requests and the states of the sessions alone.
<1>6. ASSUME FoundInv, ThreadInv, OwnerInv,
             UNCHANGED <<spc, serving, drained, deferrals, requestList, current, state>>,
             \A s \in Sessions : \A w \in Servers : wokenBy'[w] = s => wokenBy[w] = s \/ Signaled(s)',
             \A s \in Sessions : end'[s]["client"] \in {"current", "sweep"} =>
                 end[s]["client"] \in {"current", "sweep"}
      PROVE  FoundInv'
  BY <1>6, <1>5 DEF Signaled, FoundInv
\* The client threads.
<1>7. ASSUME FoundInv, ThreadInv, OwnerInv, ServerInv, ReplyInv, NEW c \in Clients,
             Kernel(ClientCall(c) \/ ClientStep(c) \/ RequestTerminate(c)),
             ~CountSession(c), ~OnRequest(c)
      PROVE  FoundInv'
  <2> USE <1>7
  <2> USE DEF managerVars, serverVars, destructorVars, portVars, clientVars, refVars, endVars,
     requestVars, waitVars
  <2> /\ end \in [Sessions -> [Ends -> EndLabels]] /\ waitSet \in [Servers -> SUBSET Objects]
      /\ "port" \notin Sessions
    BY SessionAssumption DEF ReplyInv, Typed, ThreadInv, ThreadTyped
  <2> UNCHANGED <<spc, serving, drained, deferrals, requestList, current, state>>
    BY DEF Kernel, ClientCall, CreateSession, SendSyncRequest, CloseHandle, ClientStep, CreateFails,
       EnqueueSession, EnqueueFails, UndoServer, OnRequestFails, ReturnRequest, ClientDone,
       RequestTerminate
  <2> \A w \in Servers : wokenBy'[w] = wokenBy[w] \/ wokenBy'[w] = "port"
    <3> CASE EnqueueSession(c)
      BY NotifyWakes DEF EnqueueSession
    <3> CASE ~EnqueueSession(c)
      BY DEF Kernel, ClientCall, CreateSession, SendSyncRequest, CloseHandle, ClientStep,
         CreateFails,
         EnqueueFails, UndoServer, OnRequestFails, ReturnRequest, ClientDone, RequestTerminate
    <3> QED
      OBVIOUS
  <2> \/ end' = end
      \/ \E s : \/ end' = [end EXCEPT ![s]["client"] = "destroy"]
                \/ end' = [end EXCEPT ![s]["server"] = "destroy"]
    BY DEF Kernel, ClientCall, CreateSession, SendSyncRequest, CloseHandle, CloseClient, ClientStep,
       CreateFails, EnqueueSession, EnqueueFails, UndoServer, OnRequestFails, ReturnRequest,
       ClientDone, RequestTerminate
  <2> ASSUME NEW r \in Sessions
      PROVE  end'[r]["client"] \in {"current", "sweep"} => end[r]["client"] \in {"current", "sweep"}
    <3> ASSUME NEW s, end' = [end EXCEPT ![s]["client"] = "destroy"]
        PROVE  end'[r]["client"] \in {end[r]["client"], "destroy"}
      BY EndExcept
    <3> ASSUME NEW s, end' = [end EXCEPT ![s]["server"] = "destroy"]
        PROVE  end'[r]["client"] = end[r]["client"]
      BY EndExcept
    <3> QED
      OBVIOUS
  <2> \A s \in Sessions : \A w \in Servers : wokenBy'[w] = s => wokenBy[w] = s \/ Signaled(s)'
    OBVIOUS
  <2> QED
    BY <1>6
\* A session is made, or gets a request.
<1>8. ASSUME FoundInv, ThreadInv, OwnerInv, ServerInv, ReplyInv, NEW c \in Clients,
             Kernel(CountSession(c)) \/ Kernel(OnRequest(c))
      PROVE  FoundInv'
  <2> USE <1>8
  <2> USE DEF managerVars, serverVars, destructorVars, portVars, clientVars, refVars, endVars,
     requestVars, waitVars
  <2>1. /\ end \in [Sessions -> [Ends -> EndLabels]] /\ waitSet \in [Servers -> SUBSET Objects]
        /\ state \in [Sessions -> States] /\ requestList \in [Sessions -> Seq(Clients)]
    BY DEF ReplyInv, Typed, ThreadInv, ThreadTyped
  <2>2. UNCHANGED <<spc, serving, drained, deferrals, current>>
    BY DEF Kernel, CountSession, OnRequest
  <2>3. CASE CountSession(c)
    <3> USE <2>3
    <3> PICK s \in Sessions : /\ Free(s) /\ end' = [end EXCEPT ![s] = [e \in Ends |-> "open"]]
                              /\ state' = [state EXCEPT ![s] = "Normal"]
      BY DEF CountSession
    <3> UNCHANGED <<requestList, current, wokenBy>>
      BY DEF CountSession
    <3> end[s]["server"] # "open"
      BY DEF Free, OwnerInv, SessionOwned
    <3> \A r \in Sessions : r # s => state'[r] = state[r] /\ end'[r] = end[r]
      BY <2>1
    <3> end'[s]["client"] = "open"
      BY <2>1 DEF Ends
    <3> \A r \in Sessions : end[r]["server"] = "open" =>
            (Signaled(r) => Signaled(r)') /\ (current[r] # None => current'[r] # None)
      BY <2>2 DEF Signaled
    <3> \A r \in Sessions : end'[r]["client"] \in {"current", "sweep"} => state'[r] # "Normal"
      BY DEF FoundInv
    <3> \A r \in Sessions : \A w \in Servers : wokenBy'[w] = r => wokenBy[w] = r \/ Signaled(r)'
      OBVIOUS
    <3> QED
      BY <2>2, <1>5
  <2>4. CASE OnRequest(c)
    <3>1. PICK s, signaled : /\ s = csession[c] /\ signaled = (requestList[s] = <<>> /\ current[s] = None)
                             /\ requestList' = [requestList EXCEPT ![s] = Append(requestList[s], c)]
                             /\ Notify(s, "Success", signaled)
      BY <2>4 DEF OnRequest
    <3>2. s \in Sessions /\ UNCHANGED <<state, end>>
      BY <2>4, <3>1 DEF OnRequest, ReplyInv, ClientHeld, InCall
    <3>3. requestList'[s] = Append(requestList[s], c) /\ \A r \in Sessions : r # s => requestList'[r] = requestList[r]
      BY <2>1, <3>1, <3>2
    <3> requestList'[s] # <<>>
      <4>1. PICK q \in Seq(Clients) : q = requestList[s]
        BY <2>1, <3>2
      <4> Append(q, c) # <<>>
        BY AppendFacts
      <4> QED
        BY <3>3, <4>1
    <3> (Signaled(s) => Signaled(s)') /\ (signaled => Signaled(s)')
      BY <2>2, <3>1, <3>2 DEF Signaled, SessionSignaled
    <3> \A r \in Sessions : end[r]["server"] = "open" =>
            (Signaled(r) => Signaled(r)') /\ (current[r] # None => current'[r] # None)
      BY <2>2, <3>2, <3>3 DEF Signaled
    <3> \A r \in Sessions : end'[r]["client"] \in {"current", "sweep"} => state'[r] # "Normal"
      BY <3>2 DEF FoundInv
    <3> \A w \in Servers : wokenBy'[w] = wokenBy[w] \/ (wokenBy'[w] = s /\ signaled)
      <4>1. Notify(s, "Success", signaled) /\ waitSet \in [Servers -> SUBSET Objects]
        BY <2>1, <3>1
      <4> \A w \in Servers : wokenBy'[w] = IF signaled /\ s \in waitSet[w] THEN s ELSE wokenBy[w]
        BY <4>1 DEF Notify
      <4> QED
        OBVIOUS
    <3> \A r \in Sessions : \A w \in Servers : wokenBy'[w] = r => wokenBy[w] = r \/ Signaled(r)'
      OBVIOUS
    <3> QED
      BY <2>2, <1>5
  <2> QED
    BY <2>3, <2>4 DEF Kernel
\* The destruction of the two ends.
<1>9. ASSUME FoundInv, ThreadInv, OwnerInv, ServerInv, ReplyInv, NEW s \in Sessions, Kernel(Destruction(s))
      PROVE  FoundInv'
  <2> USE <1>9
  <2> USE DEF managerVars, serverVars, destructorVars, portVars, clientVars, refVars, endVars,
     requestVars, waitVars
  <2> /\ end \in [Sessions -> [Ends -> EndLabels]] /\ waitSet \in [Servers -> SUBSET Objects]
      /\ state \in [Sessions -> States] /\ requestList \in [Sessions -> Seq(Clients)]
      /\ current \in [Sessions -> Clients \cup {None}]
    BY DEF ReplyInv, Typed, ThreadInv, ThreadTyped
  <2> UNCHANGED <<spc, serving, drained, deferrals>> /\ Destruction(s)
    BY DEF Kernel
  <2>3. ASSUME NEW e \in Ends, NEW l, end' = [end EXCEPT ![s][e] = l]
        PROVE  /\ \A r \in Sessions : r # s => end'[r] = end[r]
               /\ e = "client" => end'[s]["client"] = l
               /\ e = "server" => end'[s]["client"] = end[s]["client"]
    BY <2>3 DEF Ends
  <2>4. CASE \/ \E e \in Ends : TestState(s, e) \/ CloseParent(s, e) \/ Finalize(s, e)
             \/ CleanupEndWait(s) \/ CleanupDone(s) \/ OnClientClosedCurrent(s)
    <3> USE <2>4
    <3> UNCHANGED <<requestList, current, state, wokenBy>>
      BY DEF TestState, CloseParent, Finalize, CleanupEndWait, CleanupDone, OnClientClosedCurrent
    <3> \/ end' = end
        \/ \E e \in Ends : \E l : /\ end' = [end EXCEPT ![s][e] = l]
                                  /\ l \in {"current", "sweep"} => end[s]["client"] \in {"current", "sweep"}
      <4> ASSUME NEW e \in Ends, TestState(s, e) \/ CloseParent(s, e) \/ Finalize(s, e)
          PROVE  \E l : end' = [end EXCEPT ![s][e] = l] /\ l \notin {"current", "sweep"}
        <5> CASE TestState(s, e)
          <6> PICK l : /\ l = IF state[s] = "Normal" THEN "setState"
                              ELSE IF e = "client" THEN "closeParent" ELSE "cleanup"
                       /\ end' = [end EXCEPT ![s][e] = l]
            BY DEF TestState
          <6> l \notin {"current", "sweep"}
            OBVIOUS
          <6> QED
            OBVIOUS
        <5> CASE CloseParent(s, e)
          <6> PICK l : /\ l = IF sessionRefs[s] = 1 THEN "finalize" ELSE "closed"
                       /\ end' = [end EXCEPT ![s][e] = l]
            BY DEF CloseParent
          <6> l \notin {"current", "sweep"}
            OBVIOUS
          <6> QED
            OBVIOUS
        <5> CASE Finalize(s, e)
          <6> PICK l : l = "closed" /\ end' = [end EXCEPT ![s][e] = l]
            BY DEF Finalize
          <6> l \notin {"current", "sweep"}
            OBVIOUS
          <6> QED
            OBVIOUS
        <5> QED
          OBVIOUS
      <4> CASE \E e \in Ends : TestState(s, e) \/ CloseParent(s, e) \/ Finalize(s, e)
        OBVIOUS
      <4> CASE CleanupEndWait(s)
        BY DEF CleanupEndWait
      <4> CASE CleanupDone(s)
        <5> PICK l : l = "closeParent" /\ end' = [end EXCEPT ![s]["server"] = l]
          BY DEF CleanupDone
        <5> "server" \in Ends /\ l \notin {"current", "sweep"}
          BY DEF Ends
        <5> QED
          OBVIOUS
      <4> CASE OnClientClosedCurrent(s)
        BY DEF OnClientClosedCurrent, Ends
      <4> QED
        OBVIOUS
    <3> \A r \in Sessions : end'[r]["client"] \in {"current", "sweep"} => end[r]["client"] \in {"current", "sweep"}
      BY <2>3 DEF Ends
    <3> \A r \in Sessions : \A w \in Servers : wokenBy'[w] = r => wokenBy[w] = r \/ Signaled(r)'
      OBVIOUS
    <3> QED
      BY <1>6
  <2>5. CASE OnClientClosedNotify(s)
    <3> /\ UNCHANGED <<requestList, current, state>> /\ end[s]["client"] = "sweep"
        /\ Notify(s, "SessionClosed", TRUE) /\ end' = [end EXCEPT ![s]["client"] = "closeParent"]
      BY <2>5 DEF OnClientClosedNotify
    <3>2. Signaled(s)'
      BY DEF FoundInv, Signaled, SessionSignaled
    <3> \A w \in Servers : wokenBy'[w] = wokenBy[w] \/ wokenBy'[w] = s
      BY NotifyWakes
    <3> \A r \in Sessions : \A w \in Servers : wokenBy'[w] = r => wokenBy[w] = r \/ Signaled(r)'
      BY <3>2
    <3> \A r \in Sessions : end'[r]["client"] \in {"current", "sweep"} => end[r]["client"] \in {"current", "sweep"}
      BY DEF Ends
    <3> QED
      BY <1>6
  <2> ASSUME NEW e \in Ends, SetState(s, e)
      PROVE  FoundInv'
    <3> /\ UNCHANGED <<requestList, current, wokenBy>>
        /\ state' = [state EXCEPT ![s] = IF e = "client" THEN "ClientClosed" ELSE "ServerClosed"]
        /\ end' = [end EXCEPT ![s][e] = IF e = "client" THEN "current" ELSE "cleanup"]
      BY DEF SetState
    <3> state'[s] # "Normal" /\ \A r \in Sessions : r # s => state'[r] = state[r] /\ end'[r] = end[r]
      BY <2>3
    <3> \A r \in Sessions : end[r]["server"] = "open" =>
            (Signaled(r) => Signaled(r)') /\ (current[r] # None => current'[r] # None)
      BY DEF Signaled, SessionSignaled
    <3> \A r \in Sessions : end'[r]["client"] \in {"current", "sweep"} => state'[r] # "Normal"
      BY DEF FoundInv
    <3> \A r \in Sessions : \A w \in Servers : wokenBy'[w] = r => wokenBy[w] = r \/ Signaled(r)'
      OBVIOUS
    <3> QED
      BY <1>5
  <2> CASE OnClientClosedPop(s) \/ CleanupTake(s)
    BY <1>5 DEF OnClientClosedPop, CleanupTake, FoundInv, Signaled, SessionSignaled
  <2> QED
    BY <2>4, <2>5 DEF Destruction
\* The destructor, and the events.
<1>10. ASSUME FoundInv, ThreadInv, OwnerInv, ServerInv, ReplyInv,
              SignalDeferral \/ RequestStop \/ Destructor \/ UNCHANGED vars
       PROVE  FoundInv'
  <2> USE <1>10
  <2> USE DEF managerVars, serverVars, kernelVars, destructorVars, portVars, clientVars, refVars,
     endVars, requestVars,
              waitVars, vars
  <2> /\ end \in [Sessions -> [Ends -> EndLabels]] /\ waitSet \in [Servers -> SUBSET Objects]
      /\ "event" \notin Sessions /\ "deferral" \notin Sessions
      /\ deferrals \in Seq(Sessions) /\ Once(deferrals) /\ sessionList \in Seq(Sessions)
    BY SessionAssumption DEF ReplyInv, Typed, ThreadInv, ThreadTyped, ServerInv, ServerTyped,
       OwnerInv
  <2> UNCHANGED <<spc, serving, drained, requestList, current, state>>
    BY DEF SignalDeferral, RequestStop, Destructor, StopSignal, ClosePort, CleanupSession,
       CleanupSessionsDone, CloseTracked, CloseDeferred, DestructorDone, DropServer
  <2> \A w \in Servers : wokenBy'[w] = wokenBy[w] \/ wokenBy'[w] \in {"event", "deferral"}
    BY NotifyWakes DEF SignalDeferral, StopSignal, RequestStop, Destructor, ClosePort,
       CleanupSession,
       CleanupSessionsDone, CloseTracked, CloseDeferred, DestructorDone, DropServer
  <2> \A r \in Sessions : end'[r]["client"] = end[r]["client"]
    <3> CASE CleanupSession
      <4> PICK s, l : end' = [end EXCEPT ![s]["server"] = l]
        BY DEF CleanupSession
      <4> "client" # "server" /\ "client" \in Ends
        BY DEF Ends
      <4> QED
        OBVIOUS
    <3> CASE ~CleanupSession
      BY DropEnds DEF SignalDeferral, RequestStop, Destructor, StopSignal, ClosePort,
         CleanupSessionsDone, CloseTracked, CloseDeferred, DestructorDone, DropServer, ReplyInv
    <3> QED
      OBVIOUS
  <2> \A r : In(r, deferrals') => In(r, deferrals)
    BY OnceTail DEF CloseDeferred, SignalDeferral, RequestStop, Destructor, StopSignal, ClosePort,
       CleanupSession, CleanupSessionsDone, CloseTracked, DestructorDone
  <2> ASSUME NEW s \in Sessions, NEW w \in Servers
      PROVE  Found(s, w)'
    BY DEF FoundInv, Signaled, Found
  <2> \A s \in Sessions : (In(s, deferrals') => current'[s] # None)
    BY DEF FoundInv
  <2> \A s \in Sessions : (end'[s]["client"] \in {"current", "sweep"} => state'[s] # "Normal")
    BY DEF FoundInv
  <2> HIDE DEF vars
  <2> QED
    BY DEF FoundInv
<1> QED
  BY <1>8, <1>7, <1>2, <1>3, <1>4, <1>9, <1>10
     DEF Kernel, ServerStep, Next

LEMMA AssertionsFollow ==
    ReplyInv /\ ServerInv /\ ThreadInv /\ PortInv /\ FoundInv => AssertionsHold
<1>1. ASSUME ReplyInv, ServerInv, ThreadInv, PortInv, FoundInv, NEW v \in Servers
      PROVE  /\ wokenBy[v] = "port" => portTracked
             /\ wokenBy[v] \in Sessions => wokenBy[v] \in tracked
             /\ spc[v] = "accept" => sessionList # <<>>
             /\ spc[v] = "receive" =>
                    LET s == serving[v] IN
                    state[s] # "Normal" \/ (current[s] = None /\ requestList[s] # <<>>)
             /\ spc[v] = "complete" => current[serving[v]] # None
  <2> USE <1>1
  <2> WaitHas(v) /\ None \notin Sessions /\ None # "port"
    BY SessionAssumption DEF ThreadInv, None
  <2>2. wokenBy[v] = "port" => portTracked
    BY DEF WaitHas, PortInv
  <2>3. wokenBy[v] \in Sessions => wokenBy[v] \in tracked
    BY DEF WaitHas
  <2>4. spc[v] = "accept" => sessionList # <<>>
    BY DEF PortInv
  <2> spc[v] \in {"receive", "complete"} => serving[v] \in Sessions
    BY DEF ServerInv, ServerTyped, AtSession
  <2>6. spc[v] = "receive" => Signaled(serving[v])
    BY DEF FoundInv, Found
  <2>7. spc[v] = "complete" => current[serving[v]] # None
    BY DEF FoundInv, Found
  <2> QED
    BY <2>2, <2>3, <2>4, <2>6, <2>7 DEF Signaled, SessionSignaled
<1> QED
  BY <1>1 DEF AssertionsHold

(***************************************************************************)
(* The list a thread waits on.                                             *)
(***************************************************************************)

\* A thread waits on the whole list it built, which has m_event.
Waits(v) ==
    /\ waitSet[v] # {} => spc[v] = "blocked" /\ waitSet[v] = gathered[v]
    /\ gathered[v] # {} => "event" \in gathered[v]

\* Its list is that of the manager, or m_event is signaled or about to be.
Sees(v) ==
    gathered[v] # {} =>
        \/ tracked \subseteq gathered[v] /\ (portTracked => "port" \in gathered[v])
        \/ \E w \in Servers : spc[w] = "signal"
        \/ event

AwakeInv == \A v \in Servers : Waits(v) /\ Sees(v)

LEMMA AwakeInit == Init => AwakeInv
<1> ASSUME Init, NEW v \in Servers
    PROVE  Waits(v) /\ Sees(v)
  BY DEF Init, KernelInit, Waits, Sees
<1> QED
  BY DEF AwakeInv

LEMMA AwakeNext == ReplyInv /\ ThreadInv /\ AwakeInv /\ [Next]_vars => AwakeInv'
\* A step outside the threads of the manager.
<1>1. ASSUME AwakeInv, UNCHANGED <<spc, gathered, portTracked>>, tracked' \subseteq tracked, event => event',
             \A w \in Servers : waitSet'[w] \in {waitSet[w], {}}
      PROVE  AwakeInv'
  BY <1>1 DEF AwakeInv, Waits, Sees
\* A step of thread v: who tracks something is then to signal m_event, and m_event is
\* only cleared by the thread that waits.
<1>2. ASSUME AwakeInv, spc \in [Servers -> ServerLabels], NEW v \in Servers, NEW label, Goto(v, label),
             \A w \in Servers \ {v} : gathered'[w] = gathered[w] /\ waitSet'[w] \in {waitSet[w], {}},
             Waits(v)', Sees(v)',
             label = "signal" \/ (tracked' \subseteq tracked /\ (portTracked' => portTracked)),
             spc[v] = "signal" => event',
             \A w \in Servers \ {v} : gathered[w] # {} /\ event => event'
      PROVE  AwakeInv'
  BY <1>2 DEF Goto, AwakeInv, Waits, Sees
\* A thread that waits on nothing.
<1>3. ASSUME NEW v \in Servers, gathered'[v] = {}, waitSet'[v] = {}
      PROVE  Waits(v)' /\ Sees(v)'
  BY <1>3 DEF Waits, Sees
\* A thread that does not wait, and has nothing to do with m_event.
<1>4. ASSUME AwakeInv, ThreadInv, ReplyInv, NEW v \in Servers,
             \/ LoopEnds(v) \/ LockServe(v) \/ ReturnStopped(v) \/ DrainDeferrals(v) \/ Accept(v) \/ Receive(v)
             \/ Received(v) \/ Defer(v) \/ Reply(v) \/ Replied(v) \/ CloseSession(v) \/ CloseDone(v)
             \/ NextDeferral(v) \/ Leave(v) \/ LeaveDone(v) \/ TrackPort(v) \/ Reinsert(v) \/ SignalEvent(v)
      PROVE  AwakeInv'
  <2> USE <1>4
  <2> USE DEF managerVars, serverVars, kernelVars, waitVars
  <2> spc \in [Servers -> ServerLabels] /\ waitSet \in [Servers -> SUBSET Objects]
    BY DEF ReplyInv, Typed, ThreadInv, ThreadTyped
  <2> spc[v] \notin {"wait", "blocked"}
    BY DEF LoopEnds, LockServe, ReturnStopped, DrainDeferrals, Accept, Receive, Received, Defer,
       Reply, Replied, CloseSession, CloseDone, NextDeferral, Leave, LeaveDone, TrackPort, Reinsert,
       SignalEvent
  <2> gathered[v] = {} /\ waitSet[v] = {}
    BY WaitsNot
  <2> UNCHANGED gathered
    BY DEF LoopEnds, LockServe, ReturnStopped, DrainDeferrals, Accept, Receive, Received, Defer,
       Reply, Replied, CloseSession, CloseDone, NextDeferral, Leave, LeaveDone, TrackPort, Reinsert,
       SignalEvent
  <2> \A w \in Servers : waitSet'[w] \in {waitSet[w], {}}
    BY NotifyWakes DEF Reply, SendReply, SignalEvent, LoopEnds, LockServe, ReturnStopped,
       DrainDeferrals, Accept, AcceptSession, Receive, ReceiveClosed, ReceiveRequest, Received,
       SetCurrent, Defer, Replied, EndReply, CloseSession, DropServer, CloseDone, NextDeferral, Leave,
       LeaveDone, TrackPort, Reinsert
  <2> Waits(v)' /\ Sees(v)'
    BY <1>3
  <2> \A w \in Servers \ {v} : gathered'[w] = gathered[w] /\ waitSet'[w] \in {waitSet[w], {}}
    OBVIOUS
  <2> CASE TrackPort(v) \/ Reinsert(v)
    <3> Goto(v, "signal") /\ spc[v] # "signal" /\ UNCHANGED event
      BY DEF TrackPort, Reinsert
    <3> QED
      BY <1>2
  <2> CASE SignalEvent(v)
    BY <1>2 DEF SignalEvent
  <2> CASE ~(TrackPort(v) \/ Reinsert(v) \/ SignalEvent(v))
    <3> spc[v] # "signal" /\ UNCHANGED <<event, tracked, portTracked>>
      BY DEF LoopEnds, LockServe, ReturnStopped, DrainDeferrals, Accept, Receive, Received, Defer,
         Reply, Replied, CloseSession, CloseDone, NextDeferral, Leave, LeaveDone
    <3> PICK label : Goto(v, label)
      BY DEF LoopEnds, LockServe, ReturnStopped, DrainDeferrals, Accept, Receive, Received, Defer,
         Reply, Replied, CloseSession, CloseDone, NextDeferral, Leave, LeaveDone
    <3> QED
      BY <1>2
  <2> QED
    OBVIOUS
\* A thread builds its list, waits, and is woken.
<1>5. ASSUME AwakeInv, ThreadInv, ReplyInv, NEW v \in Servers,
             \/ Gather(v) \/ WaitImmediate(v) \/ WaitBlock(v) \/ WaitFailed(v) \/ TakePort(v) \/ TakeSession(v)
             \/ ClearDeferral(v) \/ TakeEvent(v)
      PROVE  AwakeInv'
  <2> USE <1>5
  <2> USE DEF managerVars, serverVars, kernelVars, waitVars
  <2> /\ spc \in [Servers -> ServerLabels] /\ gathered \in [Servers -> SUBSET Objects]
      /\ waitSet \in [Servers -> SUBSET Objects]
    BY DEF ReplyInv, Typed, ThreadInv, ThreadTyped
  <2> spc[v] \in {"gather", "wait", "blocked"}
    BY DEF Gather, WaitImmediate, WaitBlock, WaitFailed, TakePort, TakeSession, ClearDeferral,
       TakeEvent, Woken
  <2> serveMutex = v
    BY DEF ThreadInv, ThreadHas
  <2> \A w \in Servers \ {v} : gathered[w] = {} /\ waitSet[w] = {}
    BY WaitsAlone
  <2> spc[v] # "signal" /\ \A w \in Servers \ {v} : gathered[w] # {} /\ event => event'
    OBVIOUS
  <2> /\ tracked' = tracked \/ \E s : tracked' = tracked \ {s}
      /\ portTracked' = portTracked \/ portTracked' = FALSE
    BY DEF Gather, WaitImmediate, WaitBlock, WaitFailed, TakePort, TakeSession, ClearDeferral,
       TakeEvent
  <2> portTracked' => portTracked
    OBVIOUS
  <2> tracked' \subseteq tracked
    OBVIOUS
  <2> CASE Gather(v)
    BY WaitsNot, <1>2 DEF Gather, Waits, Sees
  <2> CASE WaitImmediate(v) \/ WaitBlock(v)
    <3> /\ spc[v] = "wait" /\ Goto(v, "blocked") /\ UNCHANGED <<gathered, tracked, portTracked, event>>
        /\ waitSet' = waitSet \/ waitSet' = [waitSet EXCEPT ![v] = gathered[v]]
      BY DEF WaitImmediate, WaitBlock
    <3> spc'[v] = "blocked" /\ \A w \in Servers \ {v} : spc'[w] = spc[w]
      BY DEF Goto
    <3> Waits(v) /\ Sees(v)
      BY DEF AwakeInv
    <3> waitSet[v] = {}
      BY DEF Waits
    <3> waitSet'[v] \in {{}, gathered[v]} /\ \A w \in Servers \ {v} : waitSet'[w] = waitSet[w]
      OBVIOUS
    <3> Waits(v)'
      BY DEF Waits
    <3> \A w \in Servers : spc[w] = "signal" => spc'[w] = "signal"
      OBVIOUS
    <3> Sees(v)'
      BY DEF Sees
    <3> \A w \in Servers \ {v} : gathered'[w] = gathered[w] /\ waitSet'[w] \in {waitSet[w], {}}
      OBVIOUS
    <3> QED
      BY <1>2
  <2> CASE WaitFailed(v) \/ TakePort(v) \/ TakeSession(v) \/ ClearDeferral(v) \/ TakeEvent(v)
    BY <1>3, <1>2 DEF WaitFailed, TakePort, TakeSession, ClearDeferral, TakeEvent, Woken,
       CloseWaitObjs
  <2> QED
    OBVIOUS
<1> SUFFICES ASSUME ReplyInv, ThreadInv, AwakeInv, [Next]_vars
             PROVE  AwakeInv'
  OBVIOUS
<1> USE DEF managerVars, serverVars, kernelVars, destructorVars, waitVars
<1> waitSet \in [Servers -> SUBSET Objects]
  BY DEF ThreadInv, ThreadTyped
<1> ASSUME \/ \E c \in Clients : Kernel(ClientCall(c) \/ ClientStep(c) \/ RequestTerminate(c))
           \/ \E s \in Sessions : Kernel(Destruction(s))
    PROVE  AwakeInv'
  <2> UNCHANGED waitSet \/ \E o, result, signaled : Notify(o, result, signaled)
    BY KernelWakes DEF EnqueueSession, OnRequest, OnClientClosedNotify
  <2> \A w \in Servers : waitSet'[w] \in {waitSet[w], {}}
    BY NotifyWakes
  <2> UNCHANGED <<spc, gathered, portTracked, tracked, event>>
    BY DEF Kernel
  <2> QED
    BY <1>1
<1> ASSUME NEW v \in Servers, ServerStep(v)
    PROVE  AwakeInv'
  BY <1>4, <1>5, ZenonT(30) DEF ServerStep
<1> CASE SignalDeferral \/ RequestStop \/ Destructor
  <2> UNCHANGED waitSet \/ \E o, result, signaled : Notify(o, result, signaled)
    BY DEF SignalDeferral, RequestStop, Destructor, StopSignal, ClosePort, CleanupSession,
       CleanupSessionsDone, CloseTracked, CloseDeferred, DestructorDone, DropServer
  <2> \A w \in Servers : waitSet'[w] \in {waitSet[w], {}}
    BY NotifyWakes
  <2> UNCHANGED <<spc, gathered, portTracked>> /\ tracked' \subseteq tracked /\ (event => event')
    <3> UNCHANGED <<spc, gathered, portTracked>>
      BY DEF SignalDeferral, RequestStop, Destructor, StopSignal, ClosePort, CleanupSession,
         CleanupSessionsDone, CloseTracked, CloseDeferred, DestructorDone
    <3> tracked' = tracked \/ \E s : tracked' = tracked \ {s}
      BY DEF SignalDeferral, RequestStop, Destructor, StopSignal, ClosePort, CleanupSession,
         CleanupSessionsDone, CloseTracked, CloseDeferred, DestructorDone
    <3> event' = event \/ event' = TRUE
      BY DEF SignalDeferral, RequestStop, Destructor, StopSignal, ClosePort, CleanupSession,
         CleanupSessionsDone, CloseTracked, CloseDeferred, DestructorDone
    <3> tracked' \subseteq tracked
      OBVIOUS
    <3> event => event'
      OBVIOUS
    <3> QED
      OBVIOUS
  <2> QED
    BY <1>1
<1> CASE UNCHANGED vars
  BY <1>1 DEF vars
<1> QED
  BY DEF Next

(***************************************************************************)
(* What ends a wait: who makes an object signaled notifies it.             *)
(***************************************************************************)

\* It is told of what is signaled.
Told(o) == IsSignaled(o) => o \in Sessions /\ end[o]["client"] \in {"current", "sweep"}

ToldInv == \A v \in Servers : \A o \in waitSet[v] : Told(o)

LEMMA ToldInit == Init => ToldInv
  BY DEF Init, KernelInit, ToldInv

LEMMA SignaledIs ==
    /\ IsSignaled("port") => sessionList # <<>>
    /\ IsSignaled("deferral") => deferralEvent
    /\ IsSignaled("event") => event
    /\ \A s \in Sessions : IsSignaled(s) => Signaled(s)
    /\ sessionList # <<>> => IsSignaled("port")
    /\ deferralEvent => IsSignaled("deferral")
    /\ event => IsSignaled("event")
    /\ \A s \in Sessions : Signaled(s) => IsSignaled(s)
  BY SessionAssumption DEF IsSignaled, Signaled

\* A step of the kernel objects, for a server session that is open.
StillTold(s, w) ==
    s \in waitSet'[w] =>
        /\ Signaled(s)' => Signaled(s) \/ end'[s]["client"] \in {"current", "sweep"}
        /\ Signaled(s)' /\ end[s]["client"] \in {"current", "sweep"} =>
               end'[s]["client"] \in {"current", "sweep"}

LEMMA ToldNext ==
    ASSUME FiniteSetLaws
    PROVE  ReplyInv /\ ServerInv /\ ThreadInv /\ OwnerInv /\ ToldInv /\ [Next]_vars => ToldInv'
<1>1. /\ IsSignaled("port")' => sessionList' # <<>>
      /\ IsSignaled("deferral")' => deferralEvent'
      /\ IsSignaled("event")' => event'
      /\ \A s \in Sessions : IsSignaled(s)' => Signaled(s)'
  BY SessionAssumption DEF IsSignaled, Signaled
\* A session that somebody waits on is open, and nobody works on it.
<1>2. ASSUME OwnerInv, ThreadInv, NEW s \in Sessions, NEW w \in Servers, s \in waitSet[w]
      PROVE  end[s]["server"] = "open" /\ \A v \in Servers : serving[v] = s => spc[v] = "closing"
  BY <1>2, OwnedIs, ServedAlone DEF ThreadInv, WaitHas
\* Nothing that somebody waits on gets signaled without its being told, but for the
\* session a client is closing.
<1>3. ASSUME ToldInv, waitSet \in [Servers -> SUBSET Objects],
             \A w \in Servers : waitSet'[w] \in {waitSet[w], {}},
             \A w \in Servers :
                 /\ "port" \in waitSet'[w] /\ sessionList' # <<>> => sessionList # <<>>
                 /\ "deferral" \in waitSet'[w] /\ deferralEvent' => deferralEvent
                 /\ "event" \in waitSet'[w] /\ event' => event
                 /\ \A s \in Sessions : s \in waitSet'[w] =>
                        /\ Signaled(s)' => Signaled(s) \/ end'[s]["client"] \in {"current", "sweep"}
                        /\ Signaled(s)' /\ end[s]["client"] \in {"current", "sweep"} =>
                               end'[s]["client"] \in {"current", "sweep"}
      PROVE  ToldInv'
  <2> USE <1>3
  <2> ASSUME NEW w \in Servers, NEW o \in waitSet'[w]
      PROVE  Told(o)'
    <3> o \in waitSet[w] /\ o \in Objects /\ Told(o)
      BY DEF ToldInv
    <3> CASE o \in Sessions
      BY SignaledIs, <1>1 DEF Told
    <3> CASE o \notin Sessions
      BY SignaledIs, <1>1 DEF Objects, Told
    <3> QED
      OBVIOUS
  <2> QED
    BY DEF ToldInv
\* A thread that tells nobody has nothing to tell.
<1>4. ASSUME ToldInv, ThreadInv, ReplyInv, NEW v \in Servers,
             \/ LoopEnds(v) \/ LockServe(v) \/ ReturnStopped(v) \/ Gather(v) \/ WaitImmediate(v) \/ WaitFailed(v)
             \/ TakePort(v) \/ TakeSession(v) \/ ClearDeferral(v) \/ DrainDeferrals(v) \/ TakeEvent(v)
             \/ Accept(v) \/ TrackPort(v) \/ Defer(v) \/ Replied(v) \/ Reinsert(v)
             \/ CloseSession(v) \/ CloseDone(v) \/ NextDeferral(v) \/ Leave(v) \/ LeaveDone(v)
      PROVE  ToldInv'
  <2> USE <1>4
  <2> USE DEF managerVars, serverVars, kernelVars, waitVars, portVars, requestVars, endVars
  <2> waitSet \in [Servers -> SUBSET Objects]
    BY DEF ThreadInv, ThreadTyped
  <2> UNCHANGED <<state, requestList, current, waitSet>>
    BY DEF LoopEnds, LockServe, ReturnStopped, Gather, WaitImmediate, WaitFailed, TakePort,
       TakeSession, ClearDeferral, DrainDeferrals, TakeEvent, Woken, CloseWaitObjs, Accept,
       AcceptSession, TrackPort, Defer, Replied, EndReply, Reinsert, CloseSession, DropServer,
       CloseDone, NextDeferral, Leave, LeaveDone
  <2> sessionList' = sessionList \/ sessionList # <<>>
    BY DEF Accept, AcceptSession, LoopEnds, LockServe, ReturnStopped, Gather, WaitImmediate,
       WaitFailed, TakePort, TakeSession, ClearDeferral, DrainDeferrals, TakeEvent, Woken,
       CloseWaitObjs, TrackPort, Defer, Replied, EndReply, Reinsert, CloseSession, DropServer,
       CloseDone, NextDeferral, Leave, LeaveDone
  <2> (event' = event \/ event' = FALSE) /\ (deferralEvent' = deferralEvent \/ deferralEvent' = FALSE)
    BY DEF LoopEnds, LockServe, ReturnStopped, Gather, WaitImmediate, WaitFailed, TakePort,
       TakeSession, ClearDeferral, DrainDeferrals, TakeEvent, Accept, TrackPort, Defer, Replied,
       Reinsert, CloseSession, CloseDone, NextDeferral, Leave, LeaveDone
  <2> \A s \in Sessions : end'[s]["client"] = end[s]["client"]
    BY DropEnds DEF LoopEnds, LockServe, ReturnStopped, Gather, WaitImmediate, WaitFailed, TakePort,
       TakeSession, ClearDeferral, DrainDeferrals, TakeEvent, Woken, CloseWaitObjs, Accept,
       AcceptSession, TrackPort, Defer, Replied, EndReply, Reinsert, CloseSession, DropServer,
       CloseDone, NextDeferral, Leave, LeaveDone, ReplyInv
  <2> \A s \in Sessions : Signaled(s)' => Signaled(s)
    BY DEF Signaled
  <2> event' => event
    OBVIOUS
  <2> deferralEvent' => deferralEvent
    OBVIOUS
  <2> sessionList' # <<>> => sessionList # <<>>
    OBVIOUS
  <2> \A w \in Servers : waitSet'[w] \in {waitSet[w], {}}
    OBVIOUS
  <2> \A w \in Servers :
          /\ "port" \in waitSet'[w] /\ sessionList' # <<>> => sessionList # <<>>
          /\ "deferral" \in waitSet'[w] /\ deferralEvent' => deferralEvent
          /\ "event" \in waitSet'[w] /\ event' => event
          /\ \A s \in Sessions : s \in waitSet'[w] =>
                 /\ Signaled(s)' => Signaled(s) \/ end'[s]["client"] \in {"current", "sweep"}
                 /\ Signaled(s)' /\ end[s]["client"] \in {"current", "sweep"} =>
                        end'[s]["client"] \in {"current", "sweep"}
    OBVIOUS
  <2> QED
    BY <1>3
\* A thread blocks only when nothing of its list is signaled.
<1>5. ASSUME ToldInv, ThreadInv, ReplyInv, NEW v \in Servers, WaitBlock(v)
      PROVE  ToldInv'
  <2> USE <1>5
  <2> USE DEF managerVars, serverVars, kernelVars, waitVars, portVars, requestVars, endVars
  <2> waitSet \in [Servers -> SUBSET Objects]
    BY DEF ThreadInv, ThreadTyped
  <2> /\ waitSet' = [waitSet EXCEPT ![v] = gathered[v]] /\ FirstSignaled(v) = {} /\ spc[v] = "wait"
      /\ UNCHANGED <<sessionList, event, deferralEvent, state, requestList, current, end>>
    BY DEF WaitBlock
  <2> \A o \in gathered[v] : ~IsSignaled(o)
    BY DEF FirstSignaled
  <2> \A o : IsSignaled(o)' => IsSignaled(o)
    BY DEF IsSignaled
  <2> serveMutex = v
    BY DEF ThreadInv, ThreadHas
  <2> \A w \in Servers \ {v} : waitSet'[w] = {}
    BY WaitsAlone
  <2> waitSet'[v] = gathered[v]
    OBVIOUS
  <2> ASSUME NEW w \in Servers, NEW o \in waitSet'[w]
      PROVE  Told(o)'
    BY DEF Told
  <2> QED
    BY DEF ToldInv
\* A session in the hands of a thread, and m_event.
<1>6. ASSUME ToldInv, ThreadInv, OwnerInv, ServerInv, ReplyInv, NEW v \in Servers,
             Receive(v) \/ Received(v) \/ Reply(v) \/ SignalEvent(v)
      PROVE  ToldInv'
  <2> USE <1>6
  <2> USE DEF managerVars, serverVars, kernelVars, waitVars, portVars, requestVars, endVars
  <2> /\ waitSet \in [Servers -> SUBSET Objects] /\ requestList \in [Sessions -> Seq(Clients)]
      /\ current \in [Sessions -> Clients \cup {None}]
    BY DEF ThreadInv, ThreadTyped, ReplyInv, Typed
  <2> UNCHANGED <<state, end, sessionList, deferralEvent>>
    BY DEF Receive, ReceiveClosed, ReceiveRequest, Received, SetCurrent, Reply, SendReply,
       SignalEvent
  <2> \A w \in Servers : waitSet'[w] \in {waitSet[w], {}}
    BY NotifyWakes DEF Receive, ReceiveClosed, ReceiveRequest, Received, SetCurrent, Reply,
       SendReply,
       SignalEvent
  <2> \A w \in Servers : "event" \in waitSet'[w] /\ event' => event
    BY NotifyWakes DEF SignalEvent, Receive, Received, Reply
  <2> PICK s0 : s0 = serving[v]
    OBVIOUS
  <2> \A s \in Sessions : s # s0 => requestList'[s] = requestList[s] /\ current'[s] = current[s]
    BY DEF SignalEvent, Receive, Received, Reply, ReceiveClosed, ReceiveRequest, SetCurrent,
       SendReply
  <2> spc[v] # "closing"
    BY DEF Receive, Received, Reply, SignalEvent
  <2> \A s \in Sessions : \A w \in Servers : s \in waitSet'[w] => s # s0
    BY <1>2
  <2> \A s \in Sessions : s # s0 => (Signaled(s)' => Signaled(s))
    BY DEF Signaled
  <2> \A w \in Servers :
         /\ "port" \in waitSet'[w] /\ sessionList' # <<>> => sessionList # <<>>
         /\ "deferral" \in waitSet'[w] /\ deferralEvent' => deferralEvent
         /\ "event" \in waitSet'[w] /\ event' => event
         /\ \A s \in Sessions : s \in waitSet'[w] =>
                /\ Signaled(s)' => Signaled(s) \/ end'[s]["client"] \in {"current", "sweep"}
                /\ Signaled(s)' /\ end[s]["client"] \in {"current", "sweep"} =>
                       end'[s]["client"] \in {"current", "sweep"}
    OBVIOUS
  <2> QED
    BY <1>3
\* The events are signaled, and the destructor closes sessions.
<1>7. ASSUME ToldInv, ThreadInv, ReplyInv, SignalDeferral \/ RequestStop \/ Destructor
      PROVE  ToldInv'
  <2> USE <1>7
  <2> USE DEF managerVars, serverVars, kernelVars, destructorVars, waitVars, portVars, requestVars,
     endVars
  <2> waitSet \in [Servers -> SUBSET Objects] /\ end \in [Sessions -> [Ends -> EndLabels]]
    BY DEF ThreadInv, ThreadTyped, ReplyInv, Typed
  <2> UNCHANGED <<state, requestList, current>>
    BY DEF SignalDeferral, RequestStop, Destructor, StopSignal, ClosePort, CleanupSession,
       CleanupSessionsDone, CloseTracked, CloseDeferred, DestructorDone, DropServer
  <2> UNCHANGED waitSet \/ \E o, result, signaled : Notify(o, result, signaled)
    BY DEF SignalDeferral, RequestStop, Destructor, StopSignal, ClosePort, CleanupSession,
       CleanupSessionsDone, CloseTracked, CloseDeferred, DestructorDone, DropServer
  <2> \A w \in Servers : waitSet'[w] \in {waitSet[w], {}}
    BY NotifyWakes
  <2> \A w \in Servers : /\ "deferral" \in waitSet'[w] /\ deferralEvent' => deferralEvent
                         /\ "event" \in waitSet'[w] /\ event' => event
    BY NotifyWakes DEF SignalDeferral, StopSignal, RequestStop, Destructor, ClosePort,
       CleanupSession,
       CleanupSessionsDone, CloseTracked, CloseDeferred, DestructorDone
  <2> sessionList' = sessionList \/ sessionList # <<>>
    BY DEF SignalDeferral, RequestStop, Destructor, StopSignal, ClosePort, CleanupSession,
       CleanupSessionsDone, CloseTracked, CloseDeferred, DestructorDone, DropServer
  <2> \A r \in Sessions : end'[r]["client"] = end[r]["client"]
    <3> CASE CleanupSession
      BY DEF CleanupSession, Ends
    <3> CASE ~CleanupSession
      BY DropEnds DEF SignalDeferral, RequestStop, Destructor, StopSignal, ClosePort,
         CleanupSessionsDone, CloseTracked, CloseDeferred, DestructorDone, DropServer, ReplyInv
    <3> QED
      OBVIOUS
  <2> \A s \in Sessions : Signaled(s)' => Signaled(s)
    BY DEF Signaled
  <2> sessionList' # <<>> => sessionList # <<>>
    OBVIOUS
  <2> \A w \in Servers :
         /\ "port" \in waitSet'[w] /\ sessionList' # <<>> => sessionList # <<>>
         /\ "deferral" \in waitSet'[w] /\ deferralEvent' => deferralEvent
         /\ "event" \in waitSet'[w] /\ event' => event
         /\ \A s \in Sessions : s \in waitSet'[w] =>
                /\ Signaled(s)' => Signaled(s) \/ end'[s]["client"] \in {"current", "sweep"}
                /\ Signaled(s)' /\ end[s]["client"] \in {"current", "sweep"} =>
                       end'[s]["client"] \in {"current", "sweep"}
    OBVIOUS
  <2> QED
    BY <1>3
<1>8. ASSUME ToldInv, ThreadInv, OwnerInv, UNCHANGED <<event, deferralEvent>>,
             \A w \in Servers : waitSet'[w] \in {waitSet[w], {}},
             \A w \in Servers : "port" \in waitSet'[w] /\ sessionList' # <<>> => sessionList # <<>>,
             \A s \in Sessions : end[s]["server"] = "open" => \A w \in Servers : StillTold(s, w)
      PROVE  ToldInv'
  BY <1>8, <1>2, <1>3 DEF ThreadInv, ThreadTyped, StillTold
\* A step that leaves the requests and the states of the sessions alone.
<1>9. ASSUME ToldInv, ThreadInv, OwnerInv, UNCHANGED <<event, deferralEvent, requestList, current, state>>,
             \A w \in Servers : waitSet'[w] \in {waitSet[w], {}},
             \A w \in Servers : "port" \in waitSet'[w] /\ sessionList' # <<>> => sessionList # <<>>,
             \A s \in Sessions : end[s]["client"] \in {"current", "sweep"} =>
                 \/ end'[s]["client"] \in {"current", "sweep"}
                 \/ \A w \in Servers : s \notin waitSet'[w]
      PROVE  ToldInv'
  BY <1>9, <1>8 DEF Signaled, StillTold
<1>10. ASSUME ToldInv, ThreadInv, OwnerInv, ReplyInv, ServerInv, NEW c \in Clients,
              Kernel(ClientCall(c) \/ ClientStep(c) \/ RequestTerminate(c)),
              ~CountSession(c), ~OnRequest(c)
       PROVE  ToldInv'
  <2> USE <1>10
  <2> USE DEF managerVars, serverVars, destructorVars, portVars, clientVars, refVars, endVars,
     requestVars, waitVars
  <2> /\ end \in [Sessions -> [Ends -> EndLabels]] /\ waitSet \in [Servers -> SUBSET Objects]
      /\ sessionList \in Seq(Sessions)
    BY DEF ReplyInv, Typed, ThreadInv, ThreadTyped, ServerInv, ServerTyped
  <2> UNCHANGED <<event, deferralEvent, requestList, current, state>>
    BY DEF Kernel, ClientCall, CreateSession, SendSyncRequest, CloseHandle, ClientStep, CreateFails,
       EnqueueSession, EnqueueFails, UndoServer, OnRequestFails, ReturnRequest, ClientDone,
       RequestTerminate
  <2> /\ \A w \in Servers : waitSet'[w] \in {waitSet[w], {}}
      /\ \A w \in Servers : "port" \in waitSet'[w] /\ sessionList' # <<>> => sessionList # <<>>
    <3> CASE EnqueueSession(c)
      <4> PICK signaled : /\ signaled = (Len(sessionList') = 1) /\ Notify("port", "Success", signaled)
                          /\ sessionList' = Append(sessionList, csession[c])
        BY DEF EnqueueSession
      <4>2. csession[c] \in Sessions
        BY DEF EnqueueSession, ReplyInv, ClientHeld
      <4> sessionList = <<>> => signaled
        <5> ASSUME sessionList = <<>>
            PROVE  Len(sessionList') = 1
          BY <4>2, AppendFacts
        <5> QED
          OBVIOUS
      <4> \A w \in Servers : waitSet'[w] \in {waitSet[w], {}} /\ ("port" \in waitSet'[w] => ~signaled)
        BY NotifyWakes
      <4> QED
        OBVIOUS
    <3> CASE ~EnqueueSession(c)
      BY DEF Kernel, ClientCall, CreateSession, SendSyncRequest, CloseHandle, ClientStep,
         CreateFails,
         EnqueueFails, UndoServer, OnRequestFails, ReturnRequest, ClientDone, RequestTerminate
    <3> QED
      OBVIOUS
  <2> \/ end' = end
      \/ \E s \in Sessions : end' = [end EXCEPT ![s]["client"] = "destroy"] /\ end[s]["client"] = "open"
      \/ \E s : end' = [end EXCEPT ![s]["server"] = "destroy"]
    <3> \A s \in Sessions : clientRefs[s] > 0 => end[s]["client"] = "open"
      BY DEF ReplyInv, ClientHeld
    <3> CASE EnqueueFails(c)
      BY DEF EnqueueFails, ReplyInv, ClientHeld
    <3> ASSUME NEW s \in Sessions, CloseClient(c, s)
        PROVE  end' = end \/ (end' = [end EXCEPT ![s]["client"] = "destroy"] /\ end[s]["client"] = "open")
      <4> clientRefs[s] = 1 => clientRefs[s] > 0
        BY IntFacts
      <4> QED
        BY DEF CloseClient
    <3> CASE ReturnRequest(c)
      BY DEF ReturnRequest, ReplyInv, ClientHeld, InCall
    <3> CASE \E s \in Sessions : CloseHandle(c, s)
      BY DEF CloseHandle
    <3> CASE ~EnqueueFails(c) /\ ~ReturnRequest(c) /\ ~\E s \in Sessions : CloseHandle(c, s)
      BY DEF Kernel, ClientCall, CreateSession, SendSyncRequest, ClientStep, CreateFails,
         EnqueueSession, UndoServer, OnRequestFails, ClientDone, RequestTerminate
    <3> QED
      OBVIOUS
  <2> ASSUME NEW r \in Sessions, end[r]["client"] \in {"current", "sweep"}
      PROVE  end'[r]["client"] = end[r]["client"]
    <3> ASSUME NEW s \in Sessions, end' = [end EXCEPT ![s]["client"] = "destroy"], end[s]["client"] = "open"
        PROVE  end'[r]["client"] = end[r]["client"]
      OBVIOUS
    <3> ASSUME NEW s, end' = [end EXCEPT ![s]["server"] = "destroy"]
        PROVE  end'[r]["client"] = end[r]["client"]
      BY EndExcept
    <3> QED
      OBVIOUS
  <2> \A s \in Sessions : end[s]["client"] \in {"current", "sweep"} =>
          \/ end'[s]["client"] \in {"current", "sweep"}
          \/ \A w \in Servers : s \notin waitSet'[w]
    OBVIOUS
  <2> QED
    BY <1>9
<1>11. ASSUME ToldInv, ThreadInv, OwnerInv, ServerInv, ReplyInv, NEW c \in Clients,
              Kernel(CountSession(c)) \/ Kernel(OnRequest(c))
       PROVE  ToldInv'
  <2> USE <1>11
  <2> USE DEF managerVars, serverVars, destructorVars, portVars, clientVars, refVars, endVars,
     requestVars, waitVars
  <2> /\ end \in [Sessions -> [Ends -> EndLabels]] /\ waitSet \in [Servers -> SUBSET Objects]
      /\ state \in [Sessions -> States] /\ requestList \in [Sessions -> Seq(Clients)]
    BY DEF ReplyInv, Typed, ThreadInv, ThreadTyped
  <2> UNCHANGED <<event, deferralEvent, sessionList, current>>
    BY DEF Kernel, CountSession, OnRequest
  <2> \A w \in Servers : "port" \in waitSet'[w] /\ sessionList' # <<>> => sessionList # <<>>
    OBVIOUS
  <2> CASE CountSession(c)
    BY <1>8 DEF CountSession, Free, OwnerInv, SessionOwned, Signaled, StillTold
  <2> CASE OnRequest(c)
    <3> PICK s, signaled : /\ s = csession[c] /\ signaled = (requestList[s] = <<>> /\ current[s] = None)
                           /\ requestList' = [requestList EXCEPT ![s] = Append(requestList[s], c)]
                           /\ Notify(s, "Success", signaled)
      BY DEF OnRequest
    <3> s \in Sessions /\ UNCHANGED <<state, end>>
      BY DEF OnRequest, ReplyInv, ClientHeld, InCall
    <3> \A r \in Sessions : r # s => requestList'[r] = requestList[r]
      OBVIOUS
    <3> \A w \in Servers : waitSet'[w] \in {waitSet[w], {}} /\ (s \in waitSet'[w] => ~signaled)
      BY NotifyWakes
    <3> ~signaled /\ Signaled(s)' => Signaled(s)
      BY DEF Signaled, SessionSignaled
    <3> \A r \in Sessions : r # s => (Signaled(r)' => Signaled(r))
      BY DEF Signaled
    <3> \A r \in Sessions : \A w \in Servers : r \in waitSet'[w] /\ Signaled(r)' => Signaled(r)
      OBVIOUS
    <3> \A r \in Sessions : \A w \in Servers : StillTold(r, w)
      BY DEF StillTold
    <3> \A w \in Servers : waitSet'[w] \in {waitSet[w], {}}
      OBVIOUS
    <3> QED
      BY <1>8
  <2> QED
    BY DEF Kernel
\* OnClientClosed tells who waits on the session, once no request is left.
<1>12. ASSUME ToldInv, ThreadInv, OwnerInv, ServerInv, ReplyInv, NEW s \in Sessions, Kernel(Destruction(s))
       PROVE  ToldInv'
  <2> USE <1>12
  <2> USE DEF managerVars, serverVars, destructorVars, portVars, clientVars, refVars, endVars,
     requestVars, waitVars
  <2> /\ end \in [Sessions -> [Ends -> EndLabels]] /\ waitSet \in [Servers -> SUBSET Objects]
      /\ state \in [Sessions -> States] /\ requestList \in [Sessions -> Seq(Clients)]
      /\ current \in [Sessions -> Clients \cup {None}]
    BY DEF ReplyInv, Typed, ThreadInv, ThreadTyped
  <2> UNCHANGED <<event, deferralEvent, sessionList>> /\ Destruction(s)
    BY DEF Kernel, Destruction, TestState, SetState, CloseParent, Finalize, OnClientClosedCurrent,
       OnClientClosedPop, OnClientClosedNotify, CleanupTake, CleanupEndWait, CleanupDone
  <2> \A w \in Servers : "port" \in waitSet'[w] /\ sessionList' # <<>> => sessionList # <<>>
    OBVIOUS
  <2> ASSUME NEW e \in Ends, NEW l, end' = [end EXCEPT ![s][e] = l]
      PROVE  /\ \A r \in Sessions : r # s => end'[r] = end[r]
             /\ e = "client" => end'[s]["client"] = l
             /\ e = "server" => end'[s]["client"] = end[s]["client"]
    BY DEF Ends
  <2> CASE \/ \E e \in Ends : TestState(s, e) \/ CloseParent(s, e) \/ Finalize(s, e)
           \/ CleanupEndWait(s) \/ CleanupDone(s) \/ OnClientClosedCurrent(s)
    <3> UNCHANGED <<requestList, current, state, waitSet>>
      BY DEF TestState, CloseParent, Finalize, CleanupEndWait, CleanupDone, OnClientClosedCurrent
    <3> \/ end' = end
        \/ \E e \in Ends : \E l : /\ end' = [end EXCEPT ![s][e] = l]
                                  /\ end[s][e] \in {"current", "sweep"} => l \in {"current", "sweep"}
      <4> ASSUME NEW e \in Ends, TestState(s, e) \/ CloseParent(s, e) \/ Finalize(s, e)
          PROVE  \E l : end' = [end EXCEPT ![s][e] = l] /\ end[s][e] \notin {"current", "sweep"}
        BY DEF TestState, CloseParent, Finalize
      <4> CASE \E e \in Ends : TestState(s, e) \/ CloseParent(s, e) \/ Finalize(s, e)
        OBVIOUS
      <4> CASE CleanupEndWait(s)
        BY DEF CleanupEndWait
      <4> CASE CleanupDone(s)
        BY DEF CleanupDone, Ends
      <4> CASE OnClientClosedCurrent(s)
        BY DEF OnClientClosedCurrent, Ends
      <4> QED
        OBVIOUS
    <3> ASSUME NEW r \in Sessions, end[r]["client"] \in {"current", "sweep"}
        PROVE  end'[r]["client"] \in {"current", "sweep"}
      BY DEF Ends
    <3> \A r \in Sessions : end[r]["client"] \in {"current", "sweep"} =>
            \/ end'[r]["client"] \in {"current", "sweep"}
            \/ \A w \in Servers : r \notin waitSet'[w]
      OBVIOUS
    <3> \A w \in Servers : waitSet'[w] \in {waitSet[w], {}}
      OBVIOUS
    <3> QED
      BY <1>9
  <2> CASE OnClientClosedNotify(s)
    <3> /\ UNCHANGED <<requestList, current, state>>
        /\ Notify(s, "SessionClosed", TRUE) /\ end' = [end EXCEPT ![s]["client"] = "closeParent"]
      BY DEF OnClientClosedNotify
    <3> \A w \in Servers : waitSet'[w] \in {waitSet[w], {}} /\ s \notin waitSet'[w]
      BY NotifyWakes
    <3> \A r \in Sessions : r # s => end'[r] = end[r]
      OBVIOUS
    <3> \A r \in Sessions : end[r]["client"] \in {"current", "sweep"} =>
            \/ end'[r]["client"] \in {"current", "sweep"}
            \/ \A w \in Servers : r \notin waitSet'[w]
      OBVIOUS
    <3> \A w \in Servers : waitSet'[w] \in {waitSet[w], {}}
      OBVIOUS
    <3> QED
      BY <1>9
  <2> CASE (\E e \in Ends : SetState(s, e)) \/ OnClientClosedPop(s) \/ CleanupTake(s)
    <3> UNCHANGED waitSet
      BY DEF SetState, OnClientClosedPop, CleanupTake
    <3> \A r \in Sessions : r # s => requestList'[r] = requestList[r] /\ current'[r] = current[r]
      BY DEF SetState, OnClientClosedPop, CleanupTake
    <3> \A r \in Sessions : r # s => state'[r] = state[r] /\ end'[r] = end[r]
      <4> CASE \E e \in Ends : SetState(s, e)
        BY DEF SetState
      <4> CASE OnClientClosedPop(s) \/ CleanupTake(s)
        BY DEF OnClientClosedPop, CleanupTake
      <4> QED
        OBVIOUS
    <3> \A r \in Sessions : r # s => (Signaled(r)' => Signaled(r))
      BY DEF Signaled
    <3> end[s]["server"] = "open" => end'[s]["client"] \in {"current", "sweep"}
      <4> ASSUME SetState(s, "client")
          PROVE  end'[s]["client"] = "current"
        BY DEF SetState, Ends
      <4> SetState(s, "server") \/ CleanupTake(s) => end[s]["server"] # "open"
        BY DEF SetState, CleanupTake
      <4> OnClientClosedPop(s) => end'[s]["client"] = "sweep"
        BY DEF OnClientClosedPop
      <4> QED
        BY DEF Ends
    <3> \A r \in Sessions : r # s => \A w \in Servers : StillTold(r, w)
      BY DEF StillTold
    <3> end[s]["server"] = "open" => \A w \in Servers : StillTold(s, w)
      BY DEF StillTold
    <3> \A r \in Sessions : end[r]["server"] = "open" => \A w \in Servers : StillTold(r, w)
      OBVIOUS
    <3> \A w \in Servers : waitSet'[w] \in {waitSet[w], {}}
      OBVIOUS
    <3> QED
      BY <1>8
  <2> QED
    BY DEF Destruction
<1> QED
  BY <1>11, <1>10, <1>4, <1>5, <1>6, <1>12, <1>7
     DEF Kernel, ServerStep, vars, kernelVars, managerVars, waitVars, portVars, endVars,
     requestVars, Told, IsSignaled, ToldInv, Next

LEMMA MissedFollows ==
    AwakeInv /\ ToldInv => NothingMissed
<1>1. ASSUME AwakeInv, ToldInv, NEW v \in Servers, waitSet[v] # {}
      PROVE  /\ \A o \in waitSet[v] : IsSignaled(o) =>
                    o \in Sessions /\ end[o]["client"] \in {"current", "sweep"}
             /\ \/ tracked \subseteq waitSet[v] /\ (portTracked => "port" \in waitSet[v])
                \/ \E w \in Servers : spc[w] = "signal"
  <2> USE <1>1
  <2> waitSet[v] = gathered[v] /\ "event" \in waitSet[v] /\ Sees(v)
    BY DEF AwakeInv, Waits
  <2> \A o \in waitSet[v] : Told(o)
    BY DEF ToldInv
  <2>3. ~IsSignaled("event")
    BY SessionAssumption DEF Told
  <2>4. ~event
    BY <2>3, SignaledIs
  <2> QED
    BY <2>4 DEF Told, Sees
<1> QED
  BY <1>1 DEF NothingMissed

(***************************************************************************)
(* The sessions of the port.                                               *)
(***************************************************************************)


\* The labels of an end that still has its reference to the KSession.
Busy == {"open", "destroy", "setState", "current", "sweep", "cleanup", "closeParent"}

Refs(s) ==
    (IF end[s]["client"] \in Busy THEN 1 ELSE 0) + (IF end[s]["server"] \in Busy THEN 1 ELSE 0)

\* The ends are made together, and one of them finalizes the session.
Counted(s) ==
    /\ sessionRefs[s] = Refs(s)
    /\ \A e \in Ends : end[s][e] = "finalize" => sessionRefs[s] = 0
    /\ ~(end[s]["client"] = "finalize" /\ end[s]["server"] = "finalize")
    /\ end[s]["client"] = "none" <=> end[s]["server"] = "none"

Living == {s \in Sessions : Alive(s)}

CountInv ==
    /\ sessionRefs \in [Sessions -> Int]
    /\ \A s \in Sessions : Counted(s)
    /\ IsFiniteSet(Living) /\ IsFiniteSet(Counting)
    /\ numSessions = Cardinality(Living)
    /\ numSessions <= MaxSessions
    /\ reserved = numSessions + Cardinality(Counting)

LEMMA CountInit ==
    ASSUME FiniteSetLaws PROVE Init => CountInv
<1> SUFFICES ASSUME Init PROVE CountInv
  OBVIOUS
<1> /\ sessionRefs = [s \in Sessions |-> 0] /\ end = [s \in Sessions |-> [e \in Ends |-> "none"]]
    /\ cpc = [c \in Clients |-> "idle"] /\ numSessions = 0 /\ reserved = 0
  BY DEF Init, KernelInit
<1> ASSUME NEW s \in Sessions
    PROVE  Counted(s) /\ ~Alive(s)
  <2> sessionRefs[s] = 0 /\ \A e \in Ends : end[s][e] = "none"
    OBVIOUS
  <2> "client" \in Ends /\ "server" \in Ends /\ "none" \notin Busy
    BY DEF Ends, Busy
  <2> Refs(s) = 0
    BY SmallSums DEF Refs
  <2> ~(sessionRefs[s] > 0)
    BY SmallSums
  <2> QED
    BY DEF Counted, Alive
<1> Living = {} /\ Counting = {}
  BY DEF Living, Counting
<1> sessionRefs \in [Sessions -> Int]
  BY SmallSums
<1> /\ IsFiniteSet(Living) /\ IsFiniteSet(Counting) /\ Cardinality(Living) = 0
    /\ Cardinality(Counting) = 0
  BY DEF FiniteSetLaws, EmptySetLaw
<1> numSessions <= MaxSessions /\ reserved = numSessions + Cardinality(Counting)
  BY SessionAssumption, SmallSums, NatFacts
<1> QED
  BY DEF CountInv

\* An end goes on with its destruction, and keeps its reference.
GoesOn(s) ==
    \A e \in Ends : end'[s][e] = end[s][e] \/ (end[s][e] \in Busy /\ end'[s][e] \in Busy)

LEMMA CountNext ==
    ASSUME FiniteSetLaws PROVE ReplyInv /\ ServerInv /\ OwnerInv /\ CountInv /\ [Next]_vars => CountInv'
<1>1. ASSUME NEW s \in Sessions, Counted(s), GoesOn(s), sessionRefs'[s] = sessionRefs[s]
      PROVE  Counted(s)' /\ (Alive(s)' <=> Alive(s))
  BY <1>1 DEF GoesOn, Busy, Refs, Ends, Counted, Alive
<1>2. ASSUME CountInv, UNCHANGED <<sessionRefs, numSessions, reserved>>, \A s \in Sessions : GoesOn(s),
             \A c \in Clients : cpc'[c] = "count" <=> cpc[c] = "count"
      PROVE  CountInv'
  BY <1>2, <1>1 DEF CountInv, Living, Counting
\* Who drops the last reference to a server session finds it open.
<1>3. ASSUME ReplyInv, OwnerInv, NEW S, DropServerRefs(S)
      PROVE  \A s \in Sessions : GoesOn(s)
  <2> USE <1>3
  <2> ASSUME NEW s \in Sessions, end'[s]["server"] # end[s]["server"]
      PROVE  end'[s]["server"] \in Busy /\ end[s]["server"] \in Busy
    BY IntFacts DEF DropServerRefs, ReplyInv, Typed, OwnerInv, SessionOwned, Busy, Ends
  <2> QED
    BY DropEnds DEF GoesOn, Ends, ReplyInv
\* One end of session s takes a step.
<1>4. ASSUME Typed, NEW s, NEW e \in Ends, NEW l, end' = [end EXCEPT ![s][e] = l],
             s \in Sessions => end[s][e] \in Busy /\ l \in Busy
      PROVE  \A r \in Sessions : GoesOn(r)
  <2> USE <1>4
  <2> end \in [Sessions -> [Ends -> EndLabels]]
    BY DEF Typed
  <2> ASSUME NEW r \in Sessions, r # s
      PROVE  GoesOn(r)
    BY DEF GoesOn
  <2> ASSUME s \in Sessions
      PROVE  GoesOn(s)
    BY DEF GoesOn
  <2> \A r \in Sessions : r = s => GoesOn(r)
    OBVIOUS
  <2> QED
    OBVIOUS
\* The threads of the manager and the destructor.
<1>5. ASSUME CountInv, ReplyInv, OwnerInv, ServerInv,
             (\E v \in Servers : ServerStep(v)) \/ SignalDeferral \/ RequestStop \/ Destructor \/ UNCHANGED vars
      PROVE  CountInv'
  <2> USE <1>5
  <2> USE DEF managerVars, serverVars, kernelVars, destructorVars, portVars, clientVars, refVars,
     endVars, requestVars,
              waitVars
  <2>1. cpc \in [Clients -> ClientLabels] /\ sessionList \in Seq(Sessions)
    BY DEF ReplyInv, Typed, ServerInv, ServerTyped
  <2>2. ASSUME NEW v \in Servers, ServerStep(v)
        PROVE  /\ UNCHANGED <<sessionRefs, numSessions, reserved>>
               /\ end' = end \/ \E S : DropServerRefs(S)
               /\ UNCHANGED cpc \/ \E c, result : EndWait(c, result)
    BY <2>2 DEF LoopEnds, LockServe, ReturnStopped, Gather, WaitImmediate, WaitBlock,
       DrainDeferrals,
       Accept, AcceptSession, TrackPort, SignalEvent, WaitFailed, TakePort, TakeSession,
       ClearDeferral, TakeEvent, Woken, CloseWaitObjs, Receive, ReceiveClosed, ReceiveRequest,
       Received, SetCurrent, Defer, Reply, SendReply, Replied, EndReply, Reinsert, CloseSession,
       DropServer, CloseDone, NextDeferral, Leave, LeaveDone, ServerStep
  <2>3. ASSUME SignalDeferral \/ RequestStop \/ Destructor \/ UNCHANGED vars
        PROVE  /\ UNCHANGED <<sessionRefs, numSessions, reserved, cpc>>
               /\ end' = end \/ CleanupSession \/ \E S : DropServerRefs(S)
    BY <2>3 DEF vars, SignalDeferral, RequestStop, Destructor, StopSignal, ClosePort,
       CleanupSession,
       CleanupSessionsDone, CloseTracked, CloseDeferred, DestructorDone, DropServer
  <2>4. UNCHANGED <<sessionRefs, numSessions, reserved>>
    BY <2>2, <2>3
  <2>5. \A c \in Clients : cpc'[c] = "count" <=> cpc[c] = "count"
    BY <2>1, <2>2, <2>3 DEF EndWait
  <2> \A s \in Sessions : GoesOn(s)
    <3>1. CASE end' = end
      BY <3>1 DEF GoesOn
    <3>2. CASE \E S : DropServerRefs(S)
      BY <3>2, <1>3
    <3>3. CASE CleanupSession
      <4>1. PICK s : s = Head(sessionList)
        OBVIOUS
      <4>2. /\ sessionList # <<>> /\ end' = [end EXCEPT ![s]["server"] =
                                          IF serverRefs[s] = 1 THEN "destroy" ELSE end[s]["server"]]
        BY <3>3, <4>1 DEF CleanupSession
      <4>3. s \in Sessions
        BY <2>1, <4>1, <4>2, SessionSeqs
      <4>4. serverRefs[s] = 1 => end[s]["server"] = "open"
        BY <4>3, SmallSums DEF OwnerInv, SessionOwned
      <4>5. CASE serverRefs[s] = 1
        BY <4>2, <4>4, <4>5, <1>4 DEF Busy, Ends, ReplyInv
      <4> CASE serverRefs[s] # 1
        BY <4>2 DEF ReplyInv, Typed, GoesOn
      <4> QED
        BY <4>5
    <3> QED
      BY <2>2, <2>3, <3>1, <3>2, <3>3
  <2> QED
    BY <2>4, <2>5, <1>2
\* The calls of clients that neither make a session nor fail to.
<1>6. ASSUME CountInv, ReplyInv, OwnerInv, NEW c \in Clients,
             Kernel(ClientCall(c) \/ ClientStep(c) \/ RequestTerminate(c)),
             ~CreateSession(c), ~CountSession(c), ~CreateFails(c)
      PROVE  CountInv'
  <2> USE <1>6
  <2> USE DEF portVars, clientVars, refVars, endVars, requestVars, waitVars
  <2> Typed /\ cpc \in [Clients -> ClientLabels] /\ "client" \in Ends /\ "server" \in Ends
    BY DEF ReplyInv, Typed, Ends
  <2> UNCHANGED <<sessionRefs, numSessions, reserved>>
    BY DEF Kernel, ClientCall, SendSyncRequest, CloseHandle, ClientStep, EnqueueSession,
       EnqueueFails,
       UndoServer, OnRequestFails, OnRequest, ReturnRequest, ClientDone, RequestTerminate
  <2> \/ UNCHANGED cpc
      \/ \E l \in ClientLabels \ {"count"} : cpc' = [cpc EXCEPT ![c] = l] /\ cpc[c] # "count"
    BY DEF EnqueueSession, EnqueueFails, UndoServer, OnRequestFails, OnRequest, ClientDone,
       ClientLabels, RequestTerminate, ReturnRequest, SendSyncRequest, CloseHandle, CloseClient,
       Kernel, ClientCall, ClientStep
  <2> \A d \in Clients : cpc'[d] = "count" <=> cpc[d] = "count"
    OBVIOUS
  <2> \A s \in Sessions : clientRefs[s] > 0 => end[s]["client"] \in Busy
    BY DEF ReplyInv, ClientHeld, Busy
  <2> "destroy" \in Busy
    BY DEF Busy
  <2> ASSUME NEW s \in Sessions, CloseClient(c, s)
      PROVE  \A r \in Sessions : GoesOn(r)
    <3> clientRefs[s] = 1 => clientRefs[s] > 0
      BY SmallSums
    <3> CASE clientRefs[s] = 1
      <4> end' = [end EXCEPT ![s]["client"] = "destroy"] /\ end[s]["client"] \in Busy
        BY DEF CloseClient
      <4> QED
        BY <1>4
    <3> CASE clientRefs[s] # 1
      <4> end' = end
        BY DEF CloseClient
      <4> QED
        BY DEF GoesOn
    <3> QED
      OBVIOUS
  <2> \A s \in Sessions : GoesOn(s)
    <3> CASE EnqueueFails(c)
      BY <1>4 DEF EnqueueFails, ReplyInv, ClientHeld
    <3> CASE UndoServer(c)
      <4> PICK s : s = csession[c]
        OBVIOUS
      <4> cpc[c] = "undo" /\ end' = [end EXCEPT ![s]["server"] = "destroy"]
        BY DEF UndoServer
      <4> ASSUME s \in Sessions
          PROVE  end[s]["server"] \in Busy
        <5> Has(s, "creator", c) /\ SessionOwned(s)
          BY DEF Has, OwnerInv
        <5> serverRefs[s] = 1
          BY DEF SessionOwned
        <5> end[s]["server"] = "open"
          BY SmallSums DEF SessionOwned
        <5> QED
          BY DEF Busy
      <4> QED
        BY <1>4
    <3> CASE ReturnRequest(c)
      BY DEF ReturnRequest, ReplyInv, ClientHeld, InCall
    <3> CASE \E s \in Sessions : CloseHandle(c, s)
      BY DEF CloseHandle
    <3> CASE ~EnqueueFails(c) /\ ~UndoServer(c) /\ ~ReturnRequest(c) /\ ~\E s \in Sessions : CloseHandle(c, s)
      BY DEF Kernel, ClientCall, SendSyncRequest, ClientStep, EnqueueSession, OnRequestFails,
         OnRequest, ClientDone, RequestTerminate, GoesOn
    <3> QED
      OBVIOUS
  <2> QED
    BY <1>2
\* A session is reserved for a creation under way, or the reservation is given back.
<1>7. ASSUME CountInv, ReplyInv, NEW c \in Clients, CreateSession(c) \/ CreateFails(c)
      PROVE  CountInv'
  <2> USE <1>7
  <2> USE DEF portVars, refVars, endVars
  <2> cpc \in [Clients -> ClientLabels]
    BY DEF ReplyInv, Typed
  <2> UNCHANGED <<sessionRefs, numSessions, end>>
    BY DEF CreateSession, CreateFails
  <2> (\A s \in Sessions : Counted(s)') /\ Living' = Living
    BY DEF CountInv, Counted, Refs, Living, Alive
  <2> /\ IsFiniteSet(Counting) /\ Cardinality(Counting) \in Nat
      /\ IsFiniteSet(Living) /\ Cardinality(Living) \in Nat
    BY DEF CountInv, FiniteSetLaws, CardinalityLaw
  <2> /\ numSessions \in Nat /\ numSessions <= MaxSessions /\ numSessions = Cardinality(Living)
      /\ reserved = numSessions + Cardinality(Counting)
    BY DEF CountInv
  <2> CASE CreateSession(c)
    <3> reserved' = reserved + 1 /\ cpc[c] = "idle" /\ cpc' = [cpc EXCEPT ![c] = "count"]
      BY DEF CreateSession
    <3> Counting' = Counting \cup {c} /\ c \notin Counting
      BY DEF Counting
    <3> IsFiniteSet(Counting') /\ Cardinality(Counting') = Cardinality(Counting) + 1
      BY DEF FiniteSetLaws, AddElementLaw
    <3> numSessions' = numSessions
      OBVIOUS
    <3> reserved' = numSessions' + Cardinality(Counting')
      BY ReservedMore
    <3> QED
      BY DEF CountInv
  <2> CASE CreateFails(c)
    <3> reserved' = reserved - 1 /\ cpc[c] = "count" /\ cpc' = [cpc EXCEPT ![c] = "idle"]
      BY DEF CreateFails
    <3> Counting' = Counting \ {c} /\ c \in Counting
      BY DEF Counting
    <3> IsFiniteSet(Counting') /\ Cardinality(Counting') = Cardinality(Counting) - 1
      BY DEF FiniteSetLaws, RemoveElementLaw
    <3> numSessions' = numSessions
      OBVIOUS
    <3> reserved' = numSessions' + Cardinality(Counting')
      BY ReservedLess
    <3> QED
      BY DEF CountInv
  <2> QED
    OBVIOUS
\* The creation makes a session: what was reserved for it is now the session's.
<1>8. ASSUME CountInv, ReplyInv, NEW c \in Clients, CountSession(c)
      PROVE  CountInv'
  <2> USE <1>8
  <2> /\ cpc \in [Clients -> ClientLabels] /\ end \in [Sessions -> [Ends -> EndLabels]]
      /\ sessionRefs \in [Sessions -> Int]
    BY DEF ReplyInv, Typed, CountInv
  <2> /\ IsFiniteSet(Counting) /\ Cardinality(Counting) \in Nat
      /\ IsFiniteSet(Living) /\ Cardinality(Living) \in Nat
    BY DEF CountInv, FiniteSetLaws, CardinalityLaw
  <2> /\ numSessions \in Nat /\ numSessions <= MaxSessions /\ numSessions = Cardinality(Living)
      /\ reserved = numSessions + Cardinality(Counting)
    BY DEF CountInv
  <2> /\ cpc[c] = "count" /\ cpc' = [cpc EXCEPT ![c] = "enqueue"]
      /\ numSessions < MaxSessions /\ numSessions' = numSessions + 1 /\ reserved' = reserved
    BY DEF CountSession
  <2> PICK s \in Sessions : /\ Free(s) /\ sessionRefs' = [sessionRefs EXCEPT ![s] = 2]
                            /\ end' = [end EXCEPT ![s] = [e \in Ends |-> "open"]]
    BY DEF CountSession
  <2> Counting' = Counting \ {c} /\ c \in Counting
    BY DEF Counting
  <2> IsFiniteSet(Counting') /\ Cardinality(Counting') = Cardinality(Counting) - 1
    BY DEF FiniteSetLaws, RemoveElementLaw
  <2> ~Alive(s)
    <3> sessionRefs[s] = 0 /\ end[s]["client"] = "none" /\ Counted(s)
      BY DEF Free, CountInv
    <3> \A e \in Ends : end[s][e] = "none"
      BY DEF Counted, Ends
    <3> QED
      BY SmallSums DEF Alive
  <2> sessionRefs'[s] = 2 /\ end'[s]["client"] = "open" /\ end'[s]["server"] = "open"
    BY DEF Ends
  <2> \A r \in Sessions : r # s => sessionRefs'[r] = sessionRefs[r] /\ end'[r] = end[r]
    OBVIOUS
  <2> Counted(s)' /\ Alive(s)'
    <3> "open" \in Busy /\ \A e \in Ends : end'[s][e] = "open"
      BY DEF Busy, Ends
    <3> Refs(s)' = 2
      BY SmallSums DEF Refs, Busy
    <3> sessionRefs'[s] > 0
      BY SmallSums
    <3> QED
      BY DEF Counted, Alive
  <2> \A r \in Sessions : r # s => (Counted(r)' <=> Counted(r)) /\ (Alive(r)' <=> Alive(r))
    BY DEF Counted, Refs, Alive
  <2> \A r \in Sessions : r = s => Counted(r)' /\ Alive(r)' /\ ~Alive(r)
    OBVIOUS
  <2> \A r \in Sessions : Counted(r)'
    BY DEF CountInv
  <2> Living' = Living \cup {s} /\ s \notin Living
    BY DEF Living
  <2> IsFiniteSet(Living') /\ Cardinality(Living') = Cardinality(Living) + 1
    BY DEF FiniteSetLaws, AddElementLaw
  <2> numSessions' = Cardinality(Living')
    OBVIOUS
  <2> MaxSessions \in Nat
    BY SessionAssumption
  <2> reserved' = numSessions' + Cardinality(Counting') /\ numSessions' <= MaxSessions
    BY ReservedUsed
  <2> sessionRefs' \in [Sessions -> Int]
    BY SmallSums
  <2> QED
    BY DEF CountInv
\* An end drops its reference to the KSession, and destroys it if it was the last.
<1>9. ASSUME CountInv, ReplyInv, NEW s \in Sessions, NEW e \in Ends, CloseParent(s, e)
      PROVE  CountInv'
  <2> USE <1>9
  <2> USE DEF portVars, clientVars
  <2> /\ end \in [Sessions -> [Ends -> EndLabels]] /\ sessionRefs \in [Sessions -> Int]
      /\ \A r \in Sessions : Counted(r)
    BY DEF ReplyInv, Typed, CountInv
  <2> UNCHANGED <<numSessions, reserved, cpc>>
    BY DEF CloseParent
  <2> PICK l : /\ l = IF sessionRefs[s] = 1 THEN "finalize" ELSE "closed"
               /\ end' = [end EXCEPT ![s][e] = l]
               /\ end[s][e] = "closeParent" /\ sessionRefs' = [sessionRefs EXCEPT ![s] = @ - 1]
    BY DEF CloseParent
  <2> \A r \in Sessions : r # s => sessionRefs'[r] = sessionRefs[r] /\ end'[r] = end[r]
    OBVIOUS
  <2> \A r \in Sessions : r # s => (Counted(r)' <=> Counted(r)) /\ (Alive(r)' <=> Alive(r))
    BY DEF Counted, Refs, Alive
  <2> sessionRefs'[s] = sessionRefs[s] - 1 /\ sessionRefs[s] \in Int
    OBVIOUS
  <2> PICK f \in Ends : /\ f # e /\ Ends = {e, f}
                        /\ (e = "client" /\ f = "server") \/ (e = "server" /\ f = "client")
    BY EndPair
  <2> end'[s][e] = l /\ end'[s][f] = end[s][f]
    OBVIOUS
  <2> /\ sessionRefs[s] = 1 + (IF end[s][f] \in Busy THEN 1 ELSE 0)
      /\ end[s][f] # "finalize" /\ end[s][f] # "none"
    <3> "closeParent" \in Busy /\ "closeParent" # "none" /\ "closeParent" # "finalize"
      BY DEF Busy
    <3> sessionRefs[s] = Refs(s)
      BY DEF Counted
    <3> sessionRefs[s] = 1 + (IF end[s][f] \in Busy THEN 1 ELSE 0)
      <4> CASE e = "client" /\ f = "server"
        BY DEF Refs
      <4> CASE e = "server" /\ f = "client"
        <5> Refs(s) = (IF end[s][f] \in Busy THEN 1 ELSE 0) + 1
          BY DEF Refs
        <5> QED
          BY SmallSums
      <4> QED
        OBVIOUS
    <3> sessionRefs[s] # 0
      BY SmallSums
    <3> QED
      BY DEF Counted, Ends
  <2> Refs(s)' = IF end[s][f] \in Busy THEN 1 ELSE 0
    <3> l \notin Busy
      BY DEF Busy
    <3> QED
      BY SmallSums DEF Refs, Busy
  <2> sessionRefs'[s] = Refs(s)'
    BY SmallSums
  <2> \A d \in Ends : end'[s][d] = "finalize" => d = e /\ sessionRefs'[s] = 0
    BY SmallSums
  <2> \A d \in Ends : end'[s][d] # "none"
    OBVIOUS
  <2> Counted(s)'
    BY DEF Ends, Counted
  <2> Alive(s) /\ Alive(s)'
    <3> sessionRefs[s] > 0
      BY SmallSums
    <3> sessionRefs[s] = 1 \/ sessionRefs'[s] > 0
      BY SmallSums
    <3> sessionRefs[s] = 1 => end'[s][e] = "finalize"
      OBVIOUS
    <3> QED
      BY DEF Alive
  <2> \A r \in Sessions : r = s => Counted(r)' /\ Alive(r) /\ Alive(r)'
    OBVIOUS
  <2> \A r \in Sessions : Counted(r)'
    OBVIOUS
  <2> Living' = Living /\ Counting' = Counting
    BY DEF Living, Counting
  <2> sessionRefs' \in [Sessions -> Int]
    <3> sessionRefs[s] - 1 \in Int
      BY IntFacts
    <3> QED
      OBVIOUS
  <2> QED
    BY DEF CountInv
\* The session is finalized: the port and the resource limit count it no longer.
<1>10. ASSUME CountInv, ReplyInv, NEW s \in Sessions, NEW e \in Ends, Finalize(s, e)
       PROVE  CountInv'
  <2> USE <1>10
  <2> USE DEF refVars, clientVars
  <2>1. /\ end \in [Sessions -> [Ends -> EndLabels]] /\ sessionRefs \in [Sessions -> Int]
        /\ \A r \in Sessions : Counted(r)
    BY DEF ReplyInv, Typed, CountInv
  <2> /\ IsFiniteSet(Counting) /\ Cardinality(Counting) \in Nat
      /\ IsFiniteSet(Living) /\ Cardinality(Living) \in Nat
    BY DEF CountInv, FiniteSetLaws, CardinalityLaw
  <2> /\ numSessions \in Nat /\ numSessions <= MaxSessions /\ numSessions = Cardinality(Living)
      /\ reserved = numSessions + Cardinality(Counting)
    BY DEF CountInv
  <2> /\ end[s][e] = "finalize" /\ end' = [end EXCEPT ![s][e] = "closed"]
      /\ numSessions' = numSessions - 1 /\ reserved' = reserved - 1 /\ UNCHANGED <<sessionRefs, cpc>>
    BY DEF Finalize
  <2>4. \A r \in Sessions : r # s => end'[r] = end[r]
    BY <2>1
  <2>5. \A r \in Sessions : r # s => (Counted(r)' <=> Counted(r)) /\ (Alive(r)' <=> Alive(r))
    BY <2>4 DEF Counted, Refs, Alive
  <2>6. PICK f \in Ends : f # e /\ Ends = {e, f}
    BY DEF Ends
  <2>7. end'[s][e] = "closed" /\ end'[s][f] = end[s][f]
    BY <2>1, <2>6
  <2>8. Counted(s) /\ sessionRefs[s] = 0
    BY <2>1 DEF Counted
  <2>9. end[s][f] # "finalize" /\ end[s][f] # "none"
    BY <2>6, <2>8 DEF Counted, Ends
  <2>10. Refs(s)' = Refs(s)
    BY <2>7, <2>6 DEF Busy, Refs, Ends
  <2>11. \A d \in Ends : end'[s][d] # "finalize" /\ end'[s][d] # "none"
    BY <2>6, <2>7, <2>9
  <2>12. Counted(s)'
    BY <2>8, <2>10, <2>11 DEF Ends, Counted
  <2>13. Alive(s) /\ ~Alive(s)'
    BY <2>8, <2>11, SmallSums DEF Alive
  <2>14. \A r \in Sessions : r = s => Counted(r)' /\ Alive(r) /\ ~Alive(r)'
    BY <2>12, <2>13
  <2>15. \A r \in Sessions : Counted(r)'
    BY <2>1, <2>5, <2>14
  <2> Living' = Living \ {s} /\ s \in Living /\ Counting' = Counting
    BY <2>5, <2>13, <2>14 DEF Living, Counting
  <2> IsFiniteSet(Living') /\ Cardinality(Living') = Cardinality(Living) - 1
    BY DEF FiniteSetLaws, RemoveElementLaw
  <2> numSessions' = Cardinality(Living')
    OBVIOUS
  <2> MaxSessions \in Nat
    BY SessionAssumption
  <2> reserved' = numSessions' + Cardinality(Counting') /\ numSessions' <= MaxSessions
    BY ReservedGone
  <2> QED
    BY <2>1, <2>15 DEF CountInv
\* The other steps of the destruction of an end.
<1>11. ASSUME CountInv, ReplyInv, NEW s \in Sessions, Destruction(s),
              \A e \in Ends : ~CloseParent(s, e) /\ ~Finalize(s, e)
       PROVE  CountInv'
  <2> USE <1>11
  <2> USE DEF portVars, refVars, endVars, clientVars
  <2> Typed /\ cpc \in [Clients -> ClientLabels] /\ "client" \in Ends /\ "server" \in Ends
    BY DEF ReplyInv, Typed, Ends
  <2> UNCHANGED <<sessionRefs, numSessions, reserved>>
    BY DEF Destruction, TestState, SetState, OnClientClosedCurrent, OnClientClosedPop,
       OnClientClosedNotify, CleanupTake, CleanupEndWait, CleanupDone
  <2> UNCHANGED cpc \/ \E c : cpc' = [cpc EXCEPT ![c] = "return"] /\ cpc[c] = "blocked"
    BY DEF Destruction, TestState, SetState, OnClientClosedCurrent, OnClientClosedPop,
       OnClientClosedNotify, CleanupTake, CleanupEndWait, CleanupDone, EndWait
  <2> \A c \in Clients : cpc'[c] = "count" <=> cpc[c] = "count"
    OBVIOUS
  <2> \/ end' = end
      \/ \E e \in Ends, l \in Busy : end' = [end EXCEPT ![s][e] = l] /\ end[s][e] \in Busy
    BY DEF TestState, SetState, Busy, OnClientClosedCurrent, OnClientClosedNotify, CleanupDone,
       OnClientClosedPop, CleanupTake, CleanupEndWait, Destruction
  <2> \A r \in Sessions : GoesOn(r)
    <3> CASE end' = end
      BY DEF GoesOn
    <3> ASSUME NEW e \in Ends, NEW l \in Busy, end' = [end EXCEPT ![s][e] = l], end[s][e] \in Busy
        PROVE  \A r \in Sessions : GoesOn(r)
      BY <1>4
    <3> QED
      OBVIOUS
  <2> QED
    BY <1>2
<1> QED
  BY <1>7, <1>8, <1>6, <1>9, <1>10, <1>11,
     <1>5 DEF Kernel, Next

LEMMA SessionsFollow ==
    CountInv => SessionsCounted
  BY DEF CountInv, SessionsCounted, Living, Counting

(***************************************************************************)
(* The theorems.                                                           *)
(***************************************************************************)

INSTANCE FiniteSetTheorems

LEMMA FiniteSetLawsHold == FiniteSetLaws
<1>1. EmptySetLaw
  BY FS_EmptySet DEF EmptySetLaw
<1>2. CardinalityLaw
  BY FS_CardinalityType DEF CardinalityLaw
<1>3. SubsetLaw
  BY FS_Subset DEF SubsetLaw
<1>4. AddElementLaw
  BY FS_AddElement DEF AddElementLaw
<1>5. RemoveElementLaw
  BY FS_RemoveElement DEF RemoveElementLaw
<1>6. SingletonLaw
  BY FS_Singleton DEF SingletonLaw
<1> QED
  BY <1>1, <1>2, <1>3, <1>4, <1>5, <1>6 DEF FiniteSetLaws

\* A client thread that waits for a reply is not forgotten, whatever the number of
\* clients, server threads and sessions: its request is queued, current or in hand in its
\* session (k_server_session.cpp:168, 314, 196, 357), and CleanupRequests is still to come.
THEOREM ReplyCorrect == Spec => []BlockedRequestIsHeld
BY BlockedFollows, ReplyInit, ReplyNext, FiniteSetLawsHold, PTL DEF Spec

\* The reference count of a request is the number of its holders, whatever the number of
\* clients, server threads and sessions: the call that made it, and the one place of one
\* session where the server's side keeps it (k_server_session.cpp:99, 167, 207, 372).
THEOREM RequestsCountedAlways == Spec => []RequestsCounted
BY RequestsFollow, ReplyInit, ReplyNext, ServerInvInit, ServerInvNext, PlaceInit, PlaceNext,
   FiniteSetLawsHold, PTL DEF Spec

\* A server session has one owner at most and a reference for it and for each thread that
\* gathered it or was woken by it, and is open while it has one, whatever the numbers of
\* clients, server threads and sessions: it is never closed under a thread that uses it and
\* never forgotten (handed on at server_manager.cpp:294, 345, 397 and 421, closed at 366,
\* 409 and in the destructor).
THEOREM ServerSessionOwnedAlways == Spec => []ServerSessionOwned
BY OwnersFollow, ReplyInit, ReplyNext, ServerInvInit, ServerInvNext, ThreadInit, ThreadNext,
   OwnerInit,
   OwnerNext, FiniteSetLawsHold, PTL DEF Spec

\* The ASSERTs of ServerManager (server_manager.cpp:273, 292, 335, 371, 415) hold for any
\* number of threads, clients and sessions.  What ended the wait of a thread is still
\* tracked and still signaled when the thread gets to it, because it leaves the lists
\* under m_serve_mutex; and a session that is not tracked is in the hands of one thread,
\* so that the request received from it is the one replied to.
THEOREM AssertionsHoldAlways == Spec => []AssertionsHold
BY AssertionsFollow, ReplyInit, ReplyNext, ServerInvInit, ServerInvNext, ThreadInit, ThreadNext,
   OwnerInit,
   OwnerNext, PortInit, PortNext, FoundInit, FoundNext, FiniteSetLawsHold, PTL DEF Spec

\* A server thread that is blocked in Wait (server_manager.cpp:252) misses nothing, for
\* any number of threads, clients and sessions: it builds its list under m_serve_mutex,
\* who tracks the port or a session afterwards is to signal m_event, m_event is in the
\* list and only cleared by the thread that holds the mutex, and every step that makes an
\* object of the list signaled notifies it, but for OnClientClosed, which notifies at its
\* end (k_server_session.cpp:134).
THEOREM NothingMissedAlways == Spec => []NothingMissed
BY MissedFollows, ReplyInit, ReplyNext, ServerInvInit, ServerInvNext, ThreadInit, ThreadNext,
   OwnerInit,
   OwnerNext, AwakeInit, AwakeNext, ToldInit, ToldNext, FiniteSetLawsHold, PTL DEF Spec

\* m_num_sessions is the number of sessions of the port that live and stays within
\* m_max_sessions (k_client_port.cpp:83), and the resource limit counts these and the
\* creations under way, however the ends of a session are destroyed: each end has a
\* reference to the KSession, and who drops the last one finalizes it, once
\* (k_session.cpp:50).
THEOREM SessionsCountedAlways == Spec => []SessionsCounted
BY SessionsFollow, ReplyInit, ReplyNext, ServerInvInit, ServerInvNext, ThreadInit, ThreadNext,
   OwnerInit,
   OwnerNext, CountInit, CountNext, FiniteSetLawsHold, PTL DEF Spec

=============================================================================
