------------------------------- MODULE Handlers -------------------------------
(***************************************************************************)
(* The requests of the nodes between their middlewares (views/): whether the   *)
(* node is connected and, for what only a master may do, whether it is the      *)
(* master, is checked before and after the controller, while the callbacks of    *)
(* MasterElection change the answers at any moment.  Each check is a load of its  *)
(* own.  What the controllers do is the matter of StorageEngine and ReplicaReads.  *)
(***************************************************************************)
EXTENDS MasterElection

CONSTANTS
    Requests,       \* the coroutines that serve requests
    Inputs          \* the kinds of requests: Insert and Remove, or Get; of a client or a
                    \* node; addressed to the master or to any node

Input == [kind : {"write", "get"}, source : {"client", "node"}, isMaster : BOOLEAN]

\* Only a Get has is_master.
ASSUME HandlersAssumption ==
    /\ Inputs \subseteq Input
    /\ \A input \in Inputs : input.kind = "write" => ~input.isMaster

VARIABLE request    \* the request that a coroutine serves, or NotSet

hvars == <<vars, request>>

Results == {"ok", "notFound", "notMaster", "notConnected", "failed"}
Statuses == {"OK", "NOT_FOUND", "FAILED_PRECONDITION", "UNAVAILABLE", "UNKNOWN"}

\* A request, where it is, its result so far and its status; and, as history, the
\* session that its node had when it was accepted, and whether the session that the
\* node had when the controller ran, or when the flag was read again, owned /master.
Request ==
    [pc : {"arrived", "checkMaster", "handle", "recheckMaster",
           "recheckConnection", "answered"},
     node : Nodes, input : Inputs, result : Results, status : Statuses,
     accepted : Session, owned : BOOLEAN, confirmed : BOOLEAN]

HandlersTypeOK == TypeOK /\ request \in [Requests -> Request \cup {NotSet}]

HInit == Init /\ request = [r \in Requests |-> NotSet]

At(r, pc) == request[r] # NotSet /\ request[r].pc = pc
Node(r) == request[r].node
OwnsMaster(n) == master = SessionOf(n)

-----------------------------------------------------------------------------
\* A node that has started takes requests, whether or not it is connected.
Arrive(r, n) ==
    /\ request[r] = NotSet /\ up[n]
    /\ \E input \in Inputs :
          request' = [request EXCEPT ![r] =
                         [pc |-> "arrived", node |-> n, input |-> input,
                          result |-> "ok", status |-> "OK",
                          accepted |-> SessionOf(n), owned |-> FALSE, confirmed |-> FALSE]]

\* WithIsMasterMiddleware, and its specialization for Get.
OnlyMaster(r) ==
    LET input == request[r].input
    IN  input.source = "client" /\ (input.kind = "write" \/ input.isMaster)

\* WithErrorHandlingMiddleware.
StatusOf(result) ==
    CASE result = "ok" -> "OK"
      [] result = "notFound" -> "NOT_FOUND"
      [] result = "notMaster" -> "FAILED_PRECONDITION"
      [] result = "notConnected" -> "UNAVAILABLE"
      [] result = "failed" -> "UNKNOWN"

GoOn(r, pc, result) ==
    request' = [request EXCEPT ![r].pc = pc, ![r].result = result]

Finish(r, result) ==
    request' = [request EXCEPT ![r].pc = "answered", ![r].result = result,
                               ![r].status = StatusOf(result)]

CheckConnection(r) ==
    /\ At(r, "arrived")
    /\ IF kExpired[Node(r)] THEN Finish(r, "notConnected")
       ELSE GoOn(r, IF OnlyMaster(r) THEN "checkMaster" ELSE "handle", "ok")

Accept(r) ==
    request' = [request EXCEPT ![r].pc = "handle", ![r].accepted = SessionOf(Node(r))]

\* Mutant: the flag is read only after the controller.
AcceptAlways(r) == At(r, "checkMaster") /\ Accept(r)

\* Whoever is refused here is asked for the connection again.
CheckMaster(r) ==
    /\ At(r, "checkMaster")
    /\ IF kIsMaster[Node(r)] THEN Accept(r) ELSE GoOn(r, "recheckConnection", "notMaster")

\* The controller, with any result.
Controller(r) ==
    /\ At(r, "handle")
    /\ \E result \in {"ok", "notFound", "failed"} :
          /\ request[r].input.kind = "write" => result # "notFound"
          /\ request' = [request EXCEPT
                ![r].pc = IF OnlyMaster(r) THEN "recheckMaster" ELSE "recheckConnection",
                ![r].result = result, ![r].owned = OwnsMaster(Node(r))]

\* The node is cut off from the service and has not been told that its session has
\* expired.
CutOff(n) == link[n] \in {"down", "expired"}

Confirm(r) ==
    request' = [request EXCEPT ![r].pc = "recheckConnection",
                               ![r].confirmed = OwnsMaster(Node(r)) \/ CutOff(Node(r))]

\* Mutant: the flag is not read again.
ConfirmAlways(r) == At(r, "recheckMaster") /\ Confirm(r)

RecheckMaster(r) ==
    /\ At(r, "recheckMaster")
    /\ IF kIsMaster[Node(r)] THEN Confirm(r) ELSE GoOn(r, "recheckConnection", "notMaster")

RecheckConnection(r) ==
    /\ At(r, "recheckConnection")
    /\ Finish(r, IF kExpired[Node(r)] THEN "notConnected" ELSE request[r].result)

Return(r) == At(r, "answered") /\ request' = [request EXCEPT ![r] = NotSet]

RequestStep ==
    /\ \E r \in Requests :
          \/ CheckConnection(r) \/ CheckMaster(r) \/ Controller(r)
          \/ RecheckMaster(r) \/ RecheckConnection(r) \/ Return(r)
          \/ \E n \in Nodes : Arrive(r, n)
    /\ UNCHANGED vars

\* The requests of a node end with it.
CrashWithRequests(n) ==
    /\ Crash(n)
    /\ request' = [r \in Requests |->
                      IF request[r] # NotSet /\ request[r].node = n THEN NotSet ELSE request[r]]

ElectionStep ==
    /\ \/ \E n \in Nodes : NodeStep(n) \/ Start(n) \/ Disconnect(n)
       \/ \E s \in alive : Expire(s)
    /\ UNCHANGED request

HNext == RequestStep \/ ElectionStep \/ \E n \in Nodes : CrashWithRequests(n)

HSpec == HInit /\ [][HNext]_hvars

-----------------------------------------------------------------------------
(* Properties *)

IsAcknowledged(r) ==
    At(r, "answered") /\ OnlyMaster(r) /\ request[r].status \in {"OK", "NOT_FOUND"}

\* What a client is acknowledged by a session that is alive and has been the node's
\* since the request was accepted, the node did while that session owned /master: a
\* flag that was set after the request came is not enough
\* (is_master_middleware.hpp:25-34, is_master_middleware.cpp:12-20).
DoneByOwner ==
    \A r \in Requests :
        LET s == request[r].accepted
        IN  IsAcknowledged(r) /\ s = SessionOf(Node(r)) /\ s \in alive => request[r].owned

\* The node owned /master after what it acknowledges, or could not yet know that it
\* did not: one that has been back in the cluster under another session since the
\* request was accepted does not acknowledge it as the master that it was
\* (is_master_middleware.hpp:30-33, zookeeper.cpp:62-72).
ConfirmedByOwner == \A r \in Requests : IsAcknowledged(r) => request[r].confirmed
=============================================================================
