----------------------------- MODULE HandlersProofs -----------------------------
(* Proofs about what a master acknowledges, for any hosts, requests and faults. *)
EXTENDS Handlers, MasterElectionProofs

\* The controller has run, and its result has not been replaced by a refusal.
HasRun(r) ==
    \/ request[r].pc = "recheckMaster"
    \/ request[r].pc = "recheckConnection" /\ request[r].result # "notMaster"
    \/ request[r].pc = "answered" /\ request[r].status \in {"OK", "NOT_FOUND"}

\* A request was accepted by a session that its node has or has had.  While the request
\* of a master waits for its controller, that session owns /master for as long as it
\* lives; so it did when the controller ran, if it is still the node's; and the flag is
\* found set again only by an owner of /master, or by a node that is cut off.
RequestIsSound(r) ==
    LET q == request[r]
    IN  request[r] # NotSet =>
        /\ q.accepted.node = q.node /\ q.accepted.number \leq number[q.node]
        /\ OnlyMaster(r) =>
            /\ q.pc = "handle" => (q.accepted \in alive => master = q.accepted)
            /\ HasRun(r) => (q.accepted = SessionOf(q.node) /\ q.accepted \in alive => q.owned)
            /\ HasRun(r) => q.pc = "recheckMaster" \/ q.confirmed

HandlersInv ==
    /\ ElectionInv
    /\ request \in [Requests -> Request \cup {NotSet}]
    /\ \A r \in Requests : RequestIsSound(r)

-----------------------------------------------------------------------------
(* What the election may do to a session *)

\* A session that is over does not come back, one that a node no longer has is not given
\* to it again, and the owner of /master remains so for as long as it lives.
SessionsPass ==
    /\ \A n \in Nodes : number'[n] \in Nat /\ number[n] \leq number'[n]
    /\ \A s \in Session :
          s.number \leq number[s.node] /\ s \in alive' =>
              s \in alive /\ (master = s => master' = s)

LEMMA QuietSessionsPass ==
    ASSUME TypeOK, UNCHANGED number, alive' \subseteq alive,
           UNCHANGED master \/ master = NoSession \/ master \notin alive'
    PROVE  SessionsPass
BY ElectionAssumption DEF TypeOK, SessionsPass

LEMMA ElectionPassesSessions ==
    ASSUME ElectionInv, Next
    PROVE  SessionsPass
<1> USE DEF ElectionInv
<1>1. CASE \E s \in alive : Expire(s)
    BY <1>1, QuietSessionsPass DEF Expire
<1>2. CASE Quiet
    BY <1>2, QuietSessionsPass DEF Quiet, vars, service
<1>3. ASSUME NEW n \in Nodes, NodeStep(n) \/ Start(n) \/ Crash(n) \/ Disconnect(n)
      PROVE  SessionsPass
    <2>1. CASE Serve(n)
        <3>1. UNCHANGED <<number, alive>>
            BY <2>1 DEF Serve, ServeBootstrap, ServeCreate, ServeGet, ServeRegister,
                        ServeChildren, Answer
        <3>2. UNCHANGED master \/ master = NoSession
            BY <2>1 DEF Serve, ServeBootstrap, ServeCreate, ServeGet, ServeRegister,
                        ServeChildren
        <3> QED BY <3>1, <3>2, QuietSessionsPass
    <2>2. CASE Connect(n)
        <3>1. /\ number' = [number EXCEPT ![n] = @ + 1]
              /\ alive' = alive \cup {[node |-> n, number |-> number[n] + 1]}
              /\ UNCHANGED master
            BY <2>2 DEF Connect
        <3>2. \A m \in Nodes : number'[m] \in Nat /\ number[m] \leq number'[m]
            BY <3>1 DEF TypeOK
        <3>3. ASSUME NEW s \in Session, s.number \leq number[s.node], s \in alive'
              PROVE  s \in alive
            <4>1. s # [node |-> n, number |-> number[n] + 1]
                BY <3>3 DEF TypeOK
            <4> QED BY <3>1, <3>3, <4>1
        <3> QED BY <3>1, <3>2, <3>3 DEF SessionsPass
    <2>3. CASE AssignHandle(n) \/ Reconnect(n) \/ LearnExpired(n) \/ Start(n) \/ Crash(n)
               \/ Disconnect(n)
        BY <2>3, QuietSessionsPass
           DEF AssignHandle, Reconnect, LearnExpired, Start, Crash, Disconnect, service
    <2>4. CASE Callback(n)
        <3>1. UNCHANGED <<service, number>>
            BY <2>4
               DEF Callback, Connected, Disconnected, SessionExpired, Closed,
                   CheckMasterCompletion, CheckMasterWatch, TryBecomeMasterCompletion,
                   BootstrapServiceDiscoveryCompletion, RegisterNodeCompletion,
                   DiscoverNodesCompletion, DiscoverNodesWatch, Handle
        <3> QED BY <3>1, QuietSessionsPass DEF service
    <2> QED BY <1>3, <2>1, <2>2, <2>3, <2>4 DEF NodeStep
<1> QED BY <1>1, <1>2, <1>3 DEF Next

\* So what holds of a request goes on to hold while it waits.
LEMMA WaitingStaysSound ==
    ASSUME TypeOK, SessionsPass, NEW r \in Requests,
           request[r] \in Request \cup {NotSet}, RequestIsSound(r),
           request'[r] = request[r]
    PROVE  RequestIsSound(r)'
<1> SUFFICES ASSUME request[r] # NotSet PROVE RequestIsSound(r)'
    BY DEF RequestIsSound
<1> DEFINE q == request[r]
           s == request[r].accepted
<1>1. q \in Request /\ s \in Session /\ q.node \in Nodes
    BY DEF Request
<1>2. s.node = q.node /\ s.number \leq number[s.node] /\ s.number \in Nat
    BY <1>1 DEF RequestIsSound, Session
<1>3. s.number \leq number'[s.node] /\ number[s.node] \in Nat
    BY <1>1, <1>2 DEF SessionsPass, TypeOK
<1>4. s \in alive' => s \in alive /\ (master = s => master' = s)
    BY <1>1, <1>2 DEF SessionsPass
<1>5. s = SessionOf(q.node)' => s = SessionOf(q.node)
    <2> SUFFICES ASSUME s = SessionOf(q.node)' PROVE s = SessionOf(q.node)
        OBVIOUS
    <2>1. s.number = number'[q.node] /\ number[q.node] \leq number'[q.node]
        BY <1>1 DEF SessionOf, SessionsPass
    <2>2. s.number = number[q.node]
        BY <1>1, <1>2, <1>3, <2>1 DEF SessionsPass
    <2> QED BY <2>1, <2>2 DEF SessionOf
<1>6. (OnlyMaster(r)' <=> OnlyMaster(r)) /\ (HasRun(r)' <=> HasRun(r))
    BY DEF OnlyMaster, HasRun
<1> HIDE DEF q, s
<1> QED BY <1>2, <1>3, <1>4, <1>5, <1>6 DEF RequestIsSound, q, s

-----------------------------------------------------------------------------
(* The steps of a request *)

\* What is left to show of a step of one request.
LEMMA OneRequestKeeps ==
    ASSUME HandlersInv, UNCHANGED vars, NEW r \in Requests, NEW q \in Request \cup {NotSet},
           request' = [request EXCEPT ![r] = q], RequestIsSound(r)'
    PROVE  HandlersInv'
<1>1. ElectionInv' /\ SessionsPass
    BY StepKeeps, QuietSessionsPass DEF HandlersInv, ElectionInv, vars, service
<1>2. request' \in [Requests -> Request \cup {NotSet}]
    BY DEF HandlersInv
<1>3. ASSUME NEW o \in Requests \ {r} PROVE RequestIsSound(o)'
    <2>1. request'[o] = request[o] /\ request[o] \in Request \cup {NotSet}
        BY DEF HandlersInv
    <2> QED BY <1>1, <2>1, WaitingStaysSound DEF HandlersInv, ElectionInv
<1> QED BY <1>1, <1>2, <1>3 DEF HandlersInv

LEMMA ArriveKeeps ==
    ASSUME HandlersInv, UNCHANGED vars, NEW r \in Requests, NEW n \in Nodes, Arrive(r, n)
    PROVE  HandlersInv'
<1>1. PICK input \in Inputs :
          request' = [request EXCEPT ![r] =
                         [pc |-> "arrived", node |-> n, input |-> input,
                          result |-> "ok", status |-> "OK",
                          accepted |-> SessionOf(n), owned |-> FALSE, confirmed |-> FALSE]]
    BY DEF Arrive
<1> DEFINE q == [pc |-> "arrived", node |-> n, input |-> input,
                 result |-> "ok", status |-> "OK",
                 accepted |-> SessionOf(n), owned |-> FALSE, confirmed |-> FALSE]
<1>2. SessionOf(n) \in Session /\ number[n] \in Nat
    BY SessionOfIsSession DEF HandlersInv, ElectionInv, TypeOK
<1>3. q \in Request
    BY <1>2 DEF Request, Results, Statuses
<1>4. request'[r] = q
    BY <1>1 DEF HandlersInv
<1>5. number' = number
    BY DEF vars
<1>6. RequestIsSound(r)'
    BY <1>2, <1>4, <1>5 DEF RequestIsSound, HasRun, SessionOf
<1> QED BY <1>1, <1>3, <1>6, OneRequestKeeps

LEMMA FinishKeeps ==
    ASSUME HandlersInv, UNCHANGED vars, NEW r \in Requests, request[r] # NotSet,
           NEW result \in Results, Finish(r, result),
           result \in {"ok", "notFound"} =>
               request[r].pc = "recheckConnection" /\ request[r].result = result
    PROVE  HandlersInv'
<1> DEFINE q == [request[r] EXCEPT !.pc = "answered", !.result = result,
                                   !.status = StatusOf(result)]
<1>1. request[r] \in Request
    BY DEF HandlersInv
<1>2. request' = [request EXCEPT ![r] = q]
    BY <1>1 DEF Finish, HandlersInv
<1>3. StatusOf(result) \in Statuses
      /\ (StatusOf(result) \in {"OK", "NOT_FOUND"} => result \in {"ok", "notFound"})
    BY DEF StatusOf, Results, Statuses
<1>4. q \in Request
    BY <1>1, <1>3 DEF Request
<1>5. request'[r] = q
    BY <1>2 DEF HandlersInv
<1>6. UNCHANGED <<number, master, alive>>
    BY DEF vars, service
<1>7. HasRun(r)' => HasRun(r) /\ request[r].pc = "recheckConnection"
    BY <1>1, <1>3, <1>5 DEF HasRun, Request
<1>8. q.accepted = request[r].accepted /\ q.node = request[r].node /\ q.owned = request[r].owned
      /\ q.confirmed = request[r].confirmed /\ q.pc = "answered" /\ q.input = request[r].input
    BY <1>1 DEF Request
<1>9. (OnlyMaster(r)' <=> OnlyMaster(r)) /\ \A n \in Nodes : SessionOf(n)' = SessionOf(n)
    BY <1>5, <1>6, <1>8 DEF OnlyMaster, SessionOf
<1>10. RequestIsSound(r)'
    <2>1. RequestIsSound(r) /\ request[r].node \in Nodes
        BY <1>1 DEF HandlersInv, Request
    <2> HIDE DEF q
    <2> QED BY <1>5, <1>6, <1>7, <1>8, <1>9, <2>1 DEF RequestIsSound
<1> QED BY <1>2, <1>4, <1>10, OneRequestKeeps

LEMMA CheckConnectionKeeps ==
    ASSUME HandlersInv, UNCHANGED vars, NEW r \in Requests, CheckConnection(r)
    PROVE  HandlersInv'
<1>1. request[r] # NotSet /\ request[r].pc = "arrived" /\ request[r] \in Request
    BY DEF CheckConnection, At, HandlersInv
<1>2. CASE kExpired[Node(r)]
    <2>1. Finish(r, "notConnected") /\ "notConnected" \in Results
        BY <1>2 DEF CheckConnection, Results
    <2> QED BY <1>1, <2>1, FinishKeeps
<1>3. CASE ~kExpired[Node(r)]
    <2>1. PICK pc \in {"checkMaster", "handle"} :
              GoOn(r, pc, "ok") /\ (pc = "handle" => ~OnlyMaster(r))
        BY <1>3 DEF CheckConnection
    <2> DEFINE q == [request[r] EXCEPT !.pc = pc, !.result = "ok"]
    <2>2. request' = [request EXCEPT ![r] = q] /\ q \in Request
        BY <1>1, <2>1 DEF GoOn, HandlersInv, Request, Results
    <2>3. request'[r] = q
        BY <2>2 DEF HandlersInv
    <2>4. /\ q.pc = pc /\ q.accepted = request[r].accepted /\ q.node = request[r].node
          /\ q.input = request[r].input /\ UNCHANGED number
        BY <1>1 DEF Request, vars
    <2>5. RequestIsSound(r)'
        <3>1. RequestIsSound(r)
            BY DEF HandlersInv
        <3>2. (OnlyMaster(r)' <=> OnlyMaster(r)) /\ ~HasRun(r)'
            BY <2>1, <2>3, <2>4 DEF OnlyMaster, HasRun
        <3> HIDE DEF q
        <3> QED BY <1>1, <2>1, <2>3, <2>4, <3>1, <3>2 DEF RequestIsSound
    <2> QED BY <2>2, <2>5, OneRequestKeeps
<1> QED BY <1>2, <1>3

\* Who is accepted has the flag, so that its session owns /master if it is alive.
LEMMA CheckMasterKeeps ==
    ASSUME HandlersInv, UNCHANGED vars, NEW r \in Requests, CheckMaster(r)
    PROVE  HandlersInv'
<1>1. /\ request[r] # NotSet /\ request[r].pc = "checkMaster" /\ request[r] \in Request
      /\ request[r].node \in Nodes /\ RequestIsSound(r)
    BY DEF CheckMaster, At, HandlersInv, Request
<1>2. UNCHANGED <<number, alive, master>>
    BY DEF vars, service
<1>3. CASE kIsMaster[Node(r)]
    <2> DEFINE q == [request[r] EXCEPT !.pc = "handle", !.accepted = SessionOf(Node(r))]
    <2>1. SessionOf(Node(r)) \in Session /\ number[Node(r)] \in Nat
        BY <1>1, SessionOfIsSession DEF HandlersInv, ElectionInv, TypeOK, Node
    <2>2. request' = [request EXCEPT ![r] = q] /\ q \in Request
        BY <1>1, <1>3, <2>1 DEF CheckMaster, Accept, HandlersInv, Request
    <2>3. request'[r] = q
        BY <2>2 DEF HandlersInv
    <2>4. q.pc = "handle" /\ q.accepted = SessionOf(Node(r)) /\ q.node = Node(r)
        BY <1>1 DEF Request, Node
    <2>5. SessionOf(Node(r)) \in alive => master = SessionOf(Node(r))
        BY <1>1, <1>3 DEF HandlersInv, ElectionInv, OneLiveMaster, Node
    <2>6. RequestIsSound(r)'
        <3>1. ~HasRun(r)'
            BY <2>3, <2>4 DEF HasRun
        <3> HIDE DEF q
        <3> QED BY <1>2, <2>1, <2>3, <2>4, <2>5, <3>1 DEF RequestIsSound, SessionOf
    <2> QED BY <2>2, <2>6, OneRequestKeeps
<1>4. CASE ~kIsMaster[Node(r)]
    <2> DEFINE q == [request[r] EXCEPT !.pc = "recheckConnection", !.result = "notMaster"]
    <2>1. request' = [request EXCEPT ![r] = q] /\ q \in Request
        BY <1>1, <1>4 DEF CheckMaster, GoOn, HandlersInv, Request, Results
    <2>2. request'[r] = q
        BY <2>1 DEF HandlersInv
    <2>3. /\ q.pc = "recheckConnection" /\ q.result = "notMaster"
          /\ q.accepted = request[r].accepted /\ q.node = request[r].node
        BY <1>1 DEF Request
    <2>4. RequestIsSound(r)'
        <3>1. ~HasRun(r)'
            BY <2>2, <2>3 DEF HasRun
        <3> HIDE DEF q
        <3> QED BY <1>1, <1>2, <2>2, <2>3, <3>1 DEF RequestIsSound
    <2> QED BY <2>1, <2>4, OneRequestKeeps
<1> QED BY <1>3, <1>4

\* The session that was accepted, if it lives and is still the node's, owns /master now.
LEMMA ControllerKeeps ==
    ASSUME HandlersInv, UNCHANGED vars, NEW r \in Requests, Controller(r)
    PROVE  HandlersInv'
<1>1. /\ request[r] # NotSet /\ request[r].pc = "handle" /\ request[r] \in Request
      /\ request[r].node \in Nodes /\ RequestIsSound(r)
    BY DEF Controller, At, HandlersInv, Request
<1>2. PICK result \in {"ok", "notFound", "failed"}, pc \in {"recheckMaster", "recheckConnection"} :
          /\ OnlyMaster(r) => pc = "recheckMaster"
          /\ request' = [request EXCEPT ![r].pc = pc, ![r].result = result,
                                        ![r].owned = OwnsMaster(Node(r))]
    BY DEF Controller
<1> DEFINE q == [request[r] EXCEPT !.pc = pc, !.result = result, !.owned = OwnsMaster(Node(r))]
<1>3. OwnsMaster(Node(r)) \in BOOLEAN
    BY DEF OwnsMaster
<1>4. request' = [request EXCEPT ![r] = q] /\ q \in Request
    BY <1>1, <1>2, <1>3 DEF HandlersInv, Request, Results
<1>5. request'[r] = q
    BY <1>4 DEF HandlersInv
<1>6. /\ q.pc = pc /\ q.accepted = request[r].accepted /\ q.node = Node(r)
      /\ q.input = request[r].input /\ q.owned = OwnsMaster(Node(r))
    BY <1>1 DEF Request, Node
<1>7. UNCHANGED <<number, alive, master>>
    BY DEF vars, service
<1>8. RequestIsSound(r)'
    <2>1. OnlyMaster(r)' <=> OnlyMaster(r)
        BY <1>5, <1>6 DEF OnlyMaster
    <2>2. SessionOf(Node(r))' = SessionOf(Node(r))
        <3>1. Node(r)' = Node(r)
            BY <1>5, <1>6 DEF Node
        <3> QED BY <1>7, <3>1 DEF SessionOf
    <2> HIDE DEF q
    <2>3. OnlyMaster(r) => (q.accepted = SessionOf(Node(r)) /\ q.accepted \in alive => q.owned)
        BY <1>1, <1>6 DEF RequestIsSound, OwnsMaster
    <2>4. q.accepted.node = q.node /\ q.accepted.number \leq number[q.node]
        BY <1>1, <1>6 DEF RequestIsSound, Node
    <2>5. OnlyMaster(r) => q.pc = "recheckMaster"
        BY <1>2, <1>6
    <2>6. Node(r)' = Node(r)
        BY <1>5, <1>6 DEF Node
    <2> QED BY <1>5, <1>6, <1>7, <2>1, <2>2, <2>3, <2>4, <2>5, <2>6 DEF RequestIsSound, SessionOf
<1> QED BY <1>4, <1>8, OneRequestKeeps

\* Who still has the flag is cut off, or owns /master.
LEMMA RecheckMasterKeeps ==
    ASSUME HandlersInv, UNCHANGED vars, NEW r \in Requests, RecheckMaster(r)
    PROVE  HandlersInv'
<1>1. /\ request[r] # NotSet /\ request[r].pc = "recheckMaster" /\ request[r] \in Request
      /\ request[r].node \in Nodes /\ RequestIsSound(r)
    BY DEF RecheckMaster, At, HandlersInv, Request
<1>2. UNCHANGED <<number, alive, master>>
    BY DEF vars, service
<1>3. CASE kIsMaster[Node(r)]
    <2> DEFINE q == [request[r] EXCEPT !.pc = "recheckConnection",
                                       !.confirmed = OwnsMaster(Node(r)) \/ CutOff(Node(r))]
    <2>1. (OwnsMaster(Node(r)) \/ CutOff(Node(r))) = TRUE
        <3>1. Node(r) \in Nodes /\ link[Node(r)] \in {"none", "up", "down", "expired"}
            BY <1>1 DEF HandlersInv, ElectionInv, TypeOK, Node
        <3> QED BY <1>3, <3>1
            DEF HandlersInv, ElectionInv, OneLiveMaster, ConnectedIsAlive, MasterHasHandle,
                OwnsMaster, CutOff
    <2>2. request' = [request EXCEPT ![r] = q] /\ q \in Request
        BY <1>1, <1>3, <2>1 DEF RecheckMaster, Confirm, HandlersInv, Request
    <2>3. request'[r] = q
        BY <2>2 DEF HandlersInv
    <2>4. /\ q.pc = "recheckConnection" /\ q.accepted = request[r].accepted
          /\ q.node = request[r].node /\ q.input = request[r].input
          /\ q.owned = request[r].owned /\ q.confirmed
        BY <1>1, <2>1 DEF Request
    <2>5. RequestIsSound(r)'
        <3>1. (OnlyMaster(r)' <=> OnlyMaster(r)) /\ HasRun(r)
            BY <1>1, <2>3, <2>4 DEF OnlyMaster, HasRun
        <3>2. SessionOf(request[r].node)' = SessionOf(request[r].node)
            BY <1>2, <2>3, <2>4 DEF SessionOf
        <3> HIDE DEF q
        <3> QED BY <1>1, <1>2, <2>3, <2>4, <3>1, <3>2 DEF RequestIsSound, SessionOf
    <2> QED BY <2>2, <2>5, OneRequestKeeps
<1>4. CASE ~kIsMaster[Node(r)]
    <2> DEFINE q == [request[r] EXCEPT !.pc = "recheckConnection", !.result = "notMaster"]
    <2>1. request' = [request EXCEPT ![r] = q] /\ q \in Request
        BY <1>1, <1>4 DEF RecheckMaster, GoOn, HandlersInv, Request, Results
    <2>2. request'[r] = q
        BY <2>1 DEF HandlersInv
    <2>3. /\ q.pc = "recheckConnection" /\ q.result = "notMaster"
          /\ q.accepted = request[r].accepted /\ q.node = request[r].node
        BY <1>1 DEF Request
    <2>4. RequestIsSound(r)'
        <3>1. ~HasRun(r)'
            BY <2>2, <2>3 DEF HasRun
        <3> HIDE DEF q
        <3> QED BY <1>1, <1>2, <2>2, <2>3, <3>1 DEF RequestIsSound
    <2> QED BY <2>1, <2>4, OneRequestKeeps
<1> QED BY <1>3, <1>4

LEMMA RecheckConnectionKeeps ==
    ASSUME HandlersInv, UNCHANGED vars, NEW r \in Requests, RecheckConnection(r)
    PROVE  HandlersInv'
<1>1. /\ request[r] # NotSet /\ request[r].pc = "recheckConnection" /\ request[r] \in Request
    BY DEF RecheckConnection, At, HandlersInv
<1>2. request[r].result \in Results /\ "notConnected" \in Results
    BY <1>1 DEF Request, Results
<1>3. CASE kExpired[Node(r)]
    BY <1>1, <1>2, <1>3, FinishKeeps DEF RecheckConnection
<1>4. CASE ~kExpired[Node(r)]
    <2>1. Finish(r, request[r].result)
        BY <1>4 DEF RecheckConnection
    <2> QED BY <1>1, <1>2, <2>1, FinishKeeps
<1> QED BY <1>3, <1>4

LEMMA RequestStepKeeps ==
    ASSUME HandlersInv, RequestStep
    PROVE  HandlersInv'
<1>1. UNCHANGED vars
    BY DEF RequestStep
<1>2. PICK r \in Requests :
          \/ CheckConnection(r) \/ CheckMaster(r) \/ Controller(r)
          \/ RecheckMaster(r) \/ RecheckConnection(r) \/ Return(r)
          \/ \E n \in Nodes : Arrive(r, n)
    BY DEF RequestStep
<1>3. CASE Return(r)
    <2>1. request' = [request EXCEPT ![r] = NotSet]
        BY <1>3 DEF Return
    <2>2. request'[r] = NotSet
        BY <2>1 DEF HandlersInv
    <2>3. RequestIsSound(r)'
        BY <2>2 DEF RequestIsSound
    <2> QED BY <1>1, <2>1, <2>3, OneRequestKeeps
<1> QED BY <1>1, <1>2, <1>3, CheckConnectionKeeps, CheckMasterKeeps, ControllerKeeps,
           RecheckMasterKeeps, RecheckConnectionKeeps, ArriveKeeps

-----------------------------------------------------------------------------
(* The specification *)

LEMMA HandlersInitHolds == HInit => HandlersInv
<1> SUFFICES ASSUME HInit PROVE HandlersInv
    OBVIOUS
<1>1. ElectionInv
    BY InitHolds DEF HInit
<1>2. request \in [Requests -> Request \cup {NotSet}] /\ \A r \in Requests : RequestIsSound(r)
    BY DEF HInit, RequestIsSound
<1> QED BY <1>1, <1>2 DEF HandlersInv

\* The election goes on, and the requests of a node that dies go with it.
LEMMA ElectionKeeps ==
    ASSUME HandlersInv, Next, request' \in [Requests -> Request \cup {NotSet}],
           \A r \in Requests : request'[r] \in {request[r], NotSet}
    PROVE  HandlersInv'
<1>1. ElectionInv' /\ SessionsPass
    BY StepKeeps, ElectionPassesSessions DEF HandlersInv
<1>2. ASSUME NEW r \in Requests PROVE RequestIsSound(r)'
    <2>1. CASE request'[r] = NotSet
        BY <2>1 DEF RequestIsSound
    <2>2. CASE request'[r] = request[r]
        <3>1. TypeOK /\ request[r] \in Request \cup {NotSet} /\ RequestIsSound(r)
            BY DEF HandlersInv, ElectionInv
        <3> QED BY <1>1, <2>2, <3>1, WaitingStaysSound
    <2> QED BY <2>1, <2>2
<1> QED BY <1>1, <1>2 DEF HandlersInv

LEMMA HandlersStepKeeps == HandlersInv /\ [HNext]_hvars => HandlersInv'
<1> SUFFICES ASSUME HandlersInv, [HNext]_hvars PROVE HandlersInv'
    OBVIOUS
<1>1. CASE RequestStep
    BY <1>1, RequestStepKeeps
<1>2. CASE ElectionStep
    <2>1. Next /\ UNCHANGED request
        BY <1>2 DEF ElectionStep, Next
    <2> QED BY <2>1, ElectionKeeps DEF HandlersInv
<1>3. ASSUME NEW n \in Nodes, CrashWithRequests(n) PROVE HandlersInv'
    <2>1. Next
        BY <1>3 DEF CrashWithRequests, Next
    <2>2. request' = [r \in Requests |->
                          IF request[r] # NotSet /\ request[r].node = n
                          THEN NotSet ELSE request[r]]
        BY <1>3 DEF CrashWithRequests
    <2>3. /\ request' \in [Requests -> Request \cup {NotSet}]
          /\ \A r \in Requests : request'[r] \in {request[r], NotSet}
        BY <2>2 DEF HandlersInv
    <2> QED BY <2>1, <2>3, ElectionKeeps
<1>4. CASE UNCHANGED hvars
    <2>1. ElectionInv' /\ SessionsPass
        BY <1>4, StepKeeps, QuietSessionsPass
           DEF HandlersInv, ElectionInv, hvars, vars, service
    <2>2. ASSUME NEW r \in Requests PROVE RequestIsSound(r)'
        <3>1. request'[r] = request[r] /\ request[r] \in Request \cup {NotSet}
            BY <1>4 DEF HandlersInv, hvars
        <3> QED BY <2>1, <3>1, WaitingStaysSound DEF HandlersInv, ElectionInv
    <2> QED BY <1>4, <2>1, <2>2 DEF HandlersInv, hvars
<1> QED BY <1>1, <1>2, <1>3, <1>4 DEF HNext

\* Everything above holds in every state, with any number of hosts, requests, broken
\* connections and crashes.
THEOREM HandlersAreSound == HSpec => []HandlersInv
<1> QED BY HandlersInitHolds, HandlersStepKeeps, PTL DEF HSpec

\* The requests keep to their stages and results (views/).
THEOREM HandlersTypeCorrect == HSpec => []HandlersTypeOK
<1>1. HandlersInv => HandlersTypeOK
    BY DEF HandlersInv, ElectionInv, HandlersTypeOK
<1> QED BY <1>1, HandlersAreSound, PTL

\* What a client is acknowledged by a session that is alive and has been the node's
\* since the request was accepted, the node did while that session owned /master
\* (is_master_middleware.hpp:25-34, is_master_middleware.cpp:12-20).
THEOREM AcknowledgedIsDoneByOwner == HSpec => []DoneByOwner
<1>1. HandlersInv => DoneByOwner
    <2> SUFFICES ASSUME HandlersInv, NEW r \in Requests, IsAcknowledged(r),
                        request[r].accepted = SessionOf(Node(r)), request[r].accepted \in alive
                 PROVE  request[r].owned
        BY DEF DoneByOwner
    <2> QED BY DEF HandlersInv, RequestIsSound, HasRun, IsAcknowledged, At, Node
<1> QED BY <1>1, HandlersAreSound, PTL

\* A node that acknowledges what only a master may do owned /master after it, or could
\* not yet know that it did not (is_master_middleware.hpp:30-33, zookeeper.cpp:62-72).
THEOREM AcknowledgedIsConfirmed == HSpec => []ConfirmedByOwner
<1>1. HandlersInv => ConfirmedByOwner
    <2> SUFFICES ASSUME HandlersInv, NEW r \in Requests, IsAcknowledged(r)
                 PROVE  request[r].confirmed
        BY DEF ConfirmedByOwner
    <2> QED BY DEF HandlersInv, RequestIsSound, HasRun, IsAcknowledged, At
<1> QED BY <1>1, HandlersAreSound, PTL

\* The election goes on beneath the requests as it does without them: no handler writes
\* what the callbacks and the service keep (views/, is_master_middleware.hpp:25-34), and
\* the requests of a node that dies only go with it.
THEOREM HandlersKeepElection == HSpec => Spec
<1>1. HInit => Init
    BY DEF HInit
<1>2. [HNext]_hvars => [Next]_vars
    <2> SUFFICES ASSUME [HNext]_hvars PROVE [Next]_vars
        OBVIOUS
    <2>1. CASE RequestStep
        BY <2>1 DEF RequestStep
    <2>2. CASE ElectionStep \/ \E n \in Nodes : CrashWithRequests(n)
        BY <2>2 DEF ElectionStep, CrashWithRequests, Next
    <2>3. CASE UNCHANGED hvars
        BY <2>3 DEF hvars
    <2> QED BY <2>1, <2>2, <2>3 DEF HNext
<1> QED BY <1>1, <1>2, PTL DEF HSpec, Spec

\* So two nodes with live sessions never both take themselves for the master while they
\* serve requests, either (zookeeper.cpp:47-76, 124-143).
THEOREM OneLiveMasterServes == HSpec => []OneLiveMaster
BY HandlersKeepElection, AtMostOneLiveMaster, PTL

\* No step of the service, of a callback or of a crash brings back a session that is
\* over, gives a node an earlier session again, or takes /master from a session that
\* lives: a client that has expired begins a new one (zookeeper.cpp:62-71, 124-143, 269).
THEOREM SessionsOnlyPass == Spec => [][SessionsPass]_vars
<1>1. ElectionInv /\ [Next]_vars => [SessionsPass]_vars
    BY ElectionPassesSessions
<1> QED BY <1>1, ElectionIsSound, PTL DEF Spec
=============================================================================
