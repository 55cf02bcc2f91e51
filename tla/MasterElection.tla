---------------------------- MODULE MasterElection ----------------------------
(***************************************************************************)
(* How the nodes of a cluster agree on a master and on the list of nodes     *)
(* (coordination/zookeeper.cpp): every node tries to create the ephemeral     *)
(* /master, watches it if another one was faster, registers itself below      *)
(* /nodes and watches the list.  All of it is callbacks: completions of        *)
(* requests, watches and session events, which one thread per handle runs in   *)
(* the order in which they arrive.                                             *)
(*                                                                           *)
(* The service is not part of the repository.  It is modelled from how the     *)
(* code uses it: a session lives on while its client is disconnected and may   *)
(* expire only then; the ephemeral nodes of a session go with it; the requests  *)
(* of a session are served in order; one whose answer has not arrived when the *)
(* connection breaks is answered with ZCONNECTIONLOSS, served or not; a watch   *)
(* fires once, and a client that reconnects is told what its watches missed.   *)
(***************************************************************************)
EXTENDS Naturals, Sequences, FiniteSets

CONSTANTS
    Nodes,              \* the hosts of the cluster, kDbHost of each process
    NoSession,          \* no session owns the node; no watch is set
    NotSet,             \* kMasterNode or kNodes before the first answer
    MaxDisconnects,     \* bound: connections that break in a behaviour
    MaxCrashes,         \* bound: processes that die in a behaviour
    MaxRaces            \* bound: handles that connect before kZh is assigned

Session == [node : Nodes, number : Nat]

ASSUME ElectionAssumption ==
    /\ NoSession \notin Session
    /\ NotSet \notin Nodes /\ \A S \in SUBSET Nodes : S # NotSet

VARIABLES
    alive,          \* service: the sessions that have not expired
    master,         \* service: the session that owns /master, or NoSession
    registered,     \* service: for each host, the session that owns /nodes/<host>
    nodesDir,       \* service: /nodes exists
    armed,          \* service: the owner of /master that the client of a node watches
    childArmed,     \* service: the client of a node watches the children of /nodes
    up,             \* the process runs
    number,         \* the number of its latest session
    link,           \* "none" (never connected), "up", "down", or "expired"
    sent,           \* requests the service has not served
    inbox,          \* answers and events the callbacks have not handled
    watcher, childWatcher,  \* the watches as the client library knows them
    kZh,            \* the handle has been assigned
    kExpired, kIsMaster, kMasterNode, kNodes,
    disconnects, crashes, races     \* counters for the bounds

service == <<alive, master, registered, nodesDir>>
arms == <<armed, childArmed>>
watches == <<watcher, childWatcher>>
flags == <<kZh, kExpired, kIsMaster, kMasterNode, kNodes>>
bounds == <<disconnects, crashes, races>>
vars == <<service, arms, up, number, link, sent, inbox, watches, flags, bounds>>

Ops == {"bootstrap", "create", "get", "register", "children"}
Events == {"connected", "connecting", "expired", "deleted", "changed", "child"}
Codes == {"ok", "exists", "nonode", "loss"}

\* An answer to a request, or an event: the code of the answer, the owner of
\* /master for "get", and the children of /nodes for "children".
Message ==
    [op : Ops \cup Events, rc : Codes, owner : Session \cup {NoSession}, list : SUBSET Nodes]

Reply(op, rc, owner, list) == [op |-> op, rc |-> rc, owner |-> owner, list |-> list]
Event(type) == Reply(type, "ok", NoSession, {})

TypeOK ==
    /\ alive \subseteq Session
    /\ master \in alive \cup {NoSession}
    /\ registered \in [Nodes -> alive \cup {NoSession}]
    /\ nodesDir \in BOOLEAN
    /\ armed \in [Nodes -> Session \cup {NoSession}]
    /\ childArmed \in [Nodes -> BOOLEAN]
    /\ up \in [Nodes -> BOOLEAN]
    /\ number \in [Nodes -> Nat]
    /\ link \in [Nodes -> {"none", "up", "down", "expired"}]
    /\ sent \in [Nodes -> Seq(Ops)]
    /\ inbox \in [Nodes -> Seq(Message)]
    /\ watcher \in [Nodes -> Session \cup {NoSession}]
    /\ childWatcher \in [Nodes -> BOOLEAN]
    /\ kZh \in [Nodes -> BOOLEAN]
    /\ kExpired \in [Nodes -> BOOLEAN]
    /\ kIsMaster \in [Nodes -> BOOLEAN]
    /\ kMasterNode \in [Nodes -> Nodes \cup {NotSet}]
    /\ kNodes \in [Nodes -> {NotSet} \cup SUBSET Nodes]
    /\ disconnects \in Nat /\ crashes \in Nat /\ races \in Nat

SessionOf(n) == [node |-> n, number |-> number[n]]
Listed == {n \in Nodes : registered[n] # NoSession}

Init ==
    /\ alive = {} /\ master = NoSession
    /\ registered = [n \in Nodes |-> NoSession]
    /\ nodesDir \in BOOLEAN
    /\ armed = [n \in Nodes |-> NoSession]
    /\ childArmed = [n \in Nodes |-> FALSE]
    /\ up = [n \in Nodes |-> FALSE]
    /\ number = [n \in Nodes |-> 0]
    /\ link = [n \in Nodes |-> "none"]
    /\ sent = [n \in Nodes |-> <<>>]
    /\ inbox = [n \in Nodes |-> <<>>]
    /\ watcher = [n \in Nodes |-> NoSession]
    /\ childWatcher = [n \in Nodes |-> FALSE]
    /\ kZh = [n \in Nodes |-> FALSE]
    /\ kExpired = [n \in Nodes |-> FALSE]
    /\ kIsMaster = [n \in Nodes |-> FALSE]
    /\ kMasterNode = [n \in Nodes |-> NotSet]
    /\ kNodes = [n \in Nodes |-> NotSet]
    /\ disconnects = 0 /\ crashes = 0 /\ races = 0

-----------------------------------------------------------------------------
(* The service *)

\* The event for a watch that has fired joins the inbox of its client.
Notify(fired, type) == [n \in Nodes |-> IF n \in fired THEN <<Event(type)>> ELSE <<>>]

\* The head of the queue of n is served and answered; clients that watch the list
\* are told when it has changed.
Answer(n, op, rc, listChanged) ==
    LET fired == {m \in Nodes : listChanged /\ childArmed[m]}
        told == Notify(fired, "child")
    IN  /\ link[n] = "up" /\ sent[n] # <<>> /\ Head(sent[n]) = op
        /\ sent' = [sent EXCEPT ![n] = Tail(@)]
        /\ inbox' = [m \in Nodes |->
                        inbox[m] \o (IF m = n THEN <<Reply(op, rc, master, Listed)>> ELSE <<>>)
                                 \o told[m]]
        /\ childArmed' = [m \in Nodes |->
                             \/ childArmed[m] /\ m \notin fired
                             \/ m = n /\ op = "children" /\ rc = "ok"]
        /\ UNCHANGED <<alive, up, number, link, watches, flags, bounds>>

ServeBootstrap(n) ==
    /\ Answer(n, "bootstrap", IF nodesDir THEN "exists" ELSE "ok", FALSE)
    /\ nodesDir' = TRUE
    /\ UNCHANGED <<master, registered, armed>>

ServeCreate(n) ==
    /\ \/ /\ master = NoSession
          /\ Answer(n, "create", "ok", FALSE)
          /\ master' = SessionOf(n)
       \/ /\ master # NoSession
          /\ Answer(n, "create", "exists", FALSE)
          /\ UNCHANGED master
    /\ UNCHANGED <<registered, nodesDir, armed>>

\* A watch on /master is set only if there is one.
ServeGet(n) ==
    /\ \/ /\ master = NoSession
          /\ Answer(n, "get", "nonode", FALSE)
          /\ UNCHANGED armed
       \/ /\ master # NoSession
          /\ Answer(n, "get", "ok", FALSE)
          /\ armed' = [armed EXCEPT ![n] = master]
    /\ UNCHANGED <<master, registered, nodesDir>>

ServeRegister(n) ==
    /\ \/ /\ ~nodesDir
          /\ Answer(n, "register", "nonode", FALSE)
          /\ UNCHANGED registered
       \/ /\ nodesDir /\ registered[n] # NoSession
          /\ Answer(n, "register", "exists", FALSE)
          /\ UNCHANGED registered
       \/ /\ nodesDir /\ registered[n] = NoSession
          /\ Answer(n, "register", "ok", TRUE)
          /\ registered' = [registered EXCEPT ![n] = SessionOf(n)]
    /\ UNCHANGED <<master, nodesDir, armed>>

ServeChildren(n) ==
    /\ Answer(n, "children", IF nodesDir THEN "ok" ELSE "nonode", FALSE)
    /\ UNCHANGED <<master, registered, nodesDir, armed>>

Serve(n) ==
    ServeBootstrap(n) \/ ServeCreate(n) \/ ServeGet(n) \/ ServeRegister(n) \/ ServeChildren(n)

\* The service has not heard of a client for the time of a session: its session
\* expires, and the nodes it owns are deleted.
Expire(s) ==
    /\ s \in alive
    /\ s = SessionOf(s.node) => link[s.node] # "up"
    /\ alive' = alive \ {s}
    /\ master' = IF master = s THEN NoSession ELSE master
    /\ registered' = [n \in Nodes |-> IF registered[n] = s THEN NoSession ELSE registered[n]]
    /\ LET gone == {n \in Nodes : master = s /\ armed[n] # NoSession}
           fired == {n \in Nodes : registered' # registered /\ childArmed[n]}
       IN  /\ armed' = [n \in Nodes |-> IF n \in gone THEN NoSession ELSE armed[n]]
           /\ childArmed' = [n \in Nodes |-> childArmed[n] /\ n \notin fired]
           /\ inbox' = [n \in Nodes |->
                           inbox[n] \o Notify(gone, "deleted")[n] \o Notify(fired, "child")[n]]
    /\ UNCHANGED <<nodesDir, up, number, link, sent, watches, flags, bounds>>

-----------------------------------------------------------------------------
(* Connections and processes *)

\* A new handle gets a new session.  It may do so on its own thread before the
\* code that has asked for it assigns the handle.
Connect(n) ==
    /\ up[n] /\ link[n] = "none"
    /\ \/ kZh[n] /\ UNCHANGED races
       \/ ~kZh[n] /\ races < MaxRaces /\ races' = races + 1
    /\ number' = [number EXCEPT ![n] = @ + 1]
    /\ alive' = alive \cup {[node |-> n, number |-> number[n] + 1]}
    /\ link' = [link EXCEPT ![n] = "up"]
    /\ inbox' = [inbox EXCEPT ![n] = Append(@, Event("connected"))]
    /\ UNCHANGED <<master, registered, nodesDir, arms, up, sent, watches, flags,
                   disconnects, crashes>>

AssignHandle(n) ==
    /\ up[n] /\ ~kZh[n]
    /\ kZh' = [kZh EXCEPT ![n] = TRUE]
    /\ UNCHANGED <<service, arms, up, number, link, sent, inbox, watches, kExpired, kIsMaster,
                   kMasterNode, kNodes, bounds>>

\* What the client library has itself put into the inbox survives a broken
\* connection; answers and events that were on their way do not.
IsLocal(message) ==
    message.op \in {"connected", "connecting", "expired"} \/ message.rc = "loss"
IsAnswer(message) == message.op \in Ops /\ ~IsLocal(message)
Loss(op) == Reply(op, "loss", NoSession, {})

\* The one way to go through a set of positions in order.
InOrder(S) ==
    {f \in [1..Cardinality(S) -> S] : \A i, j \in 1..Cardinality(S) : i < j => f[i] < f[j]}

\* The connection breaks.
Disconnect(n) ==
    /\ up[n] /\ link[n] = "up"
    /\ disconnects < MaxDisconnects /\ disconnects' = disconnects + 1
    /\ link' = [link EXCEPT ![n] = "down"]
    /\ sent' = [sent EXCEPT ![n] = <<>>]
    /\ \E kept \in InOrder({i \in DOMAIN inbox[n] : IsLocal(inbox[n][i])}),
          unanswered \in InOrder({i \in DOMAIN inbox[n] : IsAnswer(inbox[n][i])}) :
          LET local == [i \in DOMAIN kept |-> inbox[n][kept[i]]]
              lost == [i \in DOMAIN unanswered |-> Loss(inbox[n][unanswered[i]].op)]
              unserved == [i \in DOMAIN sent[n] |-> Loss(sent[n][i])]
          IN  inbox' = [inbox EXCEPT ![n] =
                           Append(local, Event("connecting")) \o lost \o unserved]
    /\ armed' = [armed EXCEPT ![n] = NoSession]
    /\ childArmed' = [childArmed EXCEPT ![n] = FALSE]
    /\ UNCHANGED <<service, up, number, watches, flags, crashes, races>>

\* The library reconnects and sets its watches again.  /master was deleted, or it
\* was deleted and created by another session, which looks like a change, or it
\* is watched as before; for the list alike.
Reconnect(n) ==
    /\ up[n] /\ link[n] = "down" /\ SessionOf(n) \in alive
    /\ link' = [link EXCEPT ![n] = "up"]
    /\ LET deleted == watcher[n] # NoSession /\ master = NoSession
           changed == watcher[n] # NoSession /\ master \notin {NoSession, watcher[n]}
           child == childWatcher[n] /\ kNodes[n] # Listed
           told == (IF deleted THEN <<Event("deleted")>> ELSE <<>>)
                   \o (IF changed THEN <<Event("changed")>> ELSE <<>>)
                   \o (IF child THEN <<Event("child")>> ELSE <<>>)
       IN  /\ inbox' = [inbox EXCEPT ![n] = Append(@, Event("connected")) \o told]
           /\ armed' = [armed EXCEPT ![n] =
                           IF deleted \/ changed THEN NoSession ELSE watcher[n]]
           /\ childArmed' = [childArmed EXCEPT ![n] = childWatcher[n] /\ ~child]
    /\ UNCHANGED <<service, up, number, sent, watches, flags, bounds>>

\* The service refuses a session that has expired.
LearnExpired(n) ==
    /\ up[n] /\ link[n] = "down" /\ SessionOf(n) \notin alive
    /\ link' = [link EXCEPT ![n] = "expired"]
    /\ inbox' = [inbox EXCEPT ![n] = Append(@, Event("expired"))]
    /\ UNCHANGED <<service, arms, up, number, sent, watches, flags, bounds>>

\* InitZookeeper.
Start(n) ==
    /\ ~up[n]
    /\ up' = [up EXCEPT ![n] = TRUE]
    /\ kZh' = [kZh EXCEPT ![n] = TRUE]
    /\ sent' = [sent EXCEPT ![n] = <<"bootstrap", "create">>]
    /\ UNCHANGED <<service, arms, number, link, inbox, watches, kExpired, kIsMaster,
                   kMasterNode, kNodes, bounds>>

Crash(n) ==
    /\ up[n] /\ crashes < MaxCrashes /\ crashes' = crashes + 1
    /\ up' = [up EXCEPT ![n] = FALSE]
    /\ armed' = [armed EXCEPT ![n] = NoSession]
    /\ childArmed' = [childArmed EXCEPT ![n] = FALSE]
    /\ link' = [link EXCEPT ![n] = "none"]
    /\ sent' = [sent EXCEPT ![n] = <<>>]
    /\ inbox' = [inbox EXCEPT ![n] = <<>>]
    /\ watcher' = [watcher EXCEPT ![n] = NoSession]
    /\ childWatcher' = [childWatcher EXCEPT ![n] = FALSE]
    /\ kZh' = [kZh EXCEPT ![n] = FALSE]
    /\ kExpired' = [kExpired EXCEPT ![n] = FALSE]
    /\ kIsMaster' = [kIsMaster EXCEPT ![n] = FALSE]
    /\ kMasterNode' = [kMasterNode EXCEPT ![n] = NotSet]
    /\ kNodes' = [kNodes EXCEPT ![n] = NotSet]
    /\ UNCHANGED <<service, number, disconnects, races>>

-----------------------------------------------------------------------------
(* The callbacks *)

\* The thread of the handle takes the next message.
Handle(n, op) ==
    /\ up[n] /\ inbox[n] # <<>> /\ Head(inbox[n]).op = op
    /\ inbox' = [inbox EXCEPT ![n] = Tail(@)]
    /\ UNCHANGED <<service, arms, up, number, bounds>>

Code(n) == Head(inbox[n]).rc
Owner(n) == Head(inbox[n]).owner

\* Requests that a callback makes; without a handle they fail, which is logged.
Ask(n, ops) == sent' = [sent EXCEPT ![n] = @ \o (IF kZh[n] THEN ops ELSE <<>>)]

\* Mutant: the value is kept only if there was none.
KeepFirst(n, host) ==
    kMasterNode' = [kMasterNode EXCEPT ![n] = IF @ = NotSet THEN host ELSE @]

SetMasterNode(n, host) == kMasterNode' = [kMasterNode EXCEPT ![n] = host]

\* SessionWatcher.
Connected(n) ==
    /\ Handle(n, "connected")
    /\ kExpired' = [kExpired EXCEPT ![n] = FALSE]
    /\ Ask(n, IF kExpired[n] THEN <<"create", "register">> ELSE <<>>)
    /\ UNCHANGED <<link, watches, kZh, kIsMaster, kMasterNode, kNodes>>

Disconnected(n) ==
    /\ Handle(n, "connecting")
    /\ UNCHANGED <<link, sent, watches, flags>>

\* The callbacks that are still due are made with ZCLOSING, which they log.
Closed(n) ==
    /\ up[n] /\ inbox[n] # <<>> /\ Head(inbox[n]).op = "expired"
    /\ inbox' = [inbox EXCEPT ![n] = <<>>]
    /\ sent' = [sent EXCEPT ![n] = <<>>]
    /\ link' = [link EXCEPT ![n] = "none"]
    /\ watcher' = [watcher EXCEPT ![n] = NoSession]
    /\ childWatcher' = [childWatcher EXCEPT ![n] = FALSE]
    /\ kZh' = [kZh EXCEPT ![n] = FALSE]
    /\ kExpired' = [kExpired EXCEPT ![n] = TRUE]
    /\ UNCHANGED <<service, arms, up, number, kMasterNode, kNodes, bounds>>

\* Mutant: a node whose session has expired goes on as master.
StaysMaster(n) == Closed(n) /\ UNCHANGED kIsMaster

SessionExpired(n) == Closed(n) /\ kIsMaster' = [kIsMaster EXCEPT ![n] = FALSE]

\* Mutant: the answer itself is kept, and not the host it names.
KeepAnswer(n) ==
    /\ Handle(n, "get") /\ Code(n) = "ok"
    /\ SetMasterNode(n, Owner(n))
    /\ UNCHANGED <<link, sent, watches, kZh, kExpired, kIsMaster, kNodes>>

CheckMasterCompletion(n) ==
    /\ Handle(n, "get")
    /\ \/ /\ Code(n) = "loss"
          /\ Ask(n, <<"get">>) /\ UNCHANGED <<watcher, kMasterNode>>
       \/ /\ Code(n) = "nonode"
          /\ Ask(n, <<"create">>) /\ UNCHANGED <<watcher, kMasterNode>>
       \/ /\ Code(n) = "ok"
          /\ watcher' = [watcher EXCEPT ![n] = Owner(n)]
          /\ SetMasterNode(n, Owner(n).node)
          /\ UNCHANGED sent
    /\ UNCHANGED <<link, childWatcher, kZh, kExpired, kIsMaster, kNodes>>

\* Only a deletion makes the node try again; the watch is gone either way.
CheckMasterWatch(n) ==
    /\ \/ Handle(n, "deleted") /\ Ask(n, <<"create">>)
       \/ Handle(n, "changed") /\ UNCHANGED sent
    /\ watcher' = [watcher EXCEPT ![n] = NoSession]
    /\ UNCHANGED <<link, childWatcher, flags>>

\* Mutant: a node that was not the first leaves it at that.
LoserGivesUp(n) ==
    /\ Handle(n, "create")
    /\ \/ /\ Code(n) = "loss"
          /\ Ask(n, <<"get">>) /\ UNCHANGED <<kIsMaster, kMasterNode>>
       \/ Code(n) = "exists" /\ UNCHANGED <<sent, kIsMaster, kMasterNode>>
       \/ /\ Code(n) = "ok"
          /\ kIsMaster' = [kIsMaster EXCEPT ![n] = TRUE]
          /\ SetMasterNode(n, n)
          /\ UNCHANGED sent
    /\ UNCHANGED <<link, watches, kZh, kExpired, kNodes>>

TryBecomeMasterCompletion(n) ==
    /\ Handle(n, "create")
    /\ \/ /\ Code(n) \in {"loss", "exists"}
          /\ Ask(n, <<"get">>) /\ UNCHANGED <<kIsMaster, kMasterNode>>
       \/ /\ Code(n) = "ok"
          /\ kIsMaster' = [kIsMaster EXCEPT ![n] = TRUE]
          /\ SetMasterNode(n, n)
          /\ UNCHANGED sent
    /\ UNCHANGED <<link, watches, kZh, kExpired, kNodes>>

BootstrapServiceDiscoveryCompletion(n) ==
    /\ Handle(n, "bootstrap")
    /\ Ask(n, IF Code(n) = "loss" THEN <<"bootstrap">> ELSE <<"register">>)
    /\ UNCHANGED <<link, watches, flags>>

RegisterNodeCompletion(n) ==
    /\ Handle(n, "register")
    /\ Ask(n, CASE Code(n) = "loss" -> <<"register">>
                [] Code(n) \in {"ok", "exists"} -> <<"children">>
                [] OTHER -> <<>>)
    /\ UNCHANGED <<link, watches, flags>>

DiscoverNodesCompletion(n) ==
    /\ Handle(n, "children")
    /\ \/ /\ Code(n) = "loss"
          /\ Ask(n, <<"children">>) /\ UNCHANGED <<childWatcher, kNodes>>
       \/ Code(n) = "nonode" /\ UNCHANGED <<sent, childWatcher, kNodes>>
       \/ /\ Code(n) = "ok"
          /\ childWatcher' = [childWatcher EXCEPT ![n] = TRUE]
          /\ kNodes' = [kNodes EXCEPT ![n] = Head(inbox[n]).list]
          /\ UNCHANGED sent
    /\ UNCHANGED <<link, watcher, kZh, kExpired, kIsMaster, kMasterNode>>

\* Mutant: the list is not read again.
IgnoreChange(n) ==
    /\ Handle(n, "child")
    /\ childWatcher' = [childWatcher EXCEPT ![n] = FALSE]
    /\ UNCHANGED <<sent, link, watcher, flags>>

DiscoverNodesWatch(n) ==
    /\ Handle(n, "child")
    /\ childWatcher' = [childWatcher EXCEPT ![n] = FALSE]
    /\ Ask(n, <<"children">>)
    /\ UNCHANGED <<link, watcher, flags>>

Callback(n) ==
    \/ Connected(n) \/ Disconnected(n) \/ SessionExpired(n)
    \/ CheckMasterCompletion(n) \/ CheckMasterWatch(n) \/ TryBecomeMasterCompletion(n)
    \/ BootstrapServiceDiscoveryCompletion(n) \/ RegisterNodeCompletion(n)
    \/ DiscoverNodesCompletion(n) \/ DiscoverNodesWatch(n)

-----------------------------------------------------------------------------
NodeStep(n) ==
    Serve(n) \/ Connect(n) \/ AssignHandle(n) \/ Reconnect(n) \/ LearnExpired(n) \/ Callback(n)

\* Nothing is on its way, and nobody is left to crash or to start.
Quiet ==
    /\ \A n \in Nodes : up[n] /\ kZh[n] /\ link[n] = "up" /\ sent[n] = <<>> /\ inbox[n] = <<>>
    /\ UNCHANGED vars

Next ==
    \/ \E n \in Nodes : NodeStep(n) \/ Start(n) \/ Crash(n) \/ Disconnect(n)
    \/ \E s \in alive : Expire(s)
    \/ Quiet

Spec == Init /\ [][Next]_vars

-----------------------------------------------------------------------------
(* Properties *)

\* The middlewares answer requests of clients (is_master_middleware.hpp:25-34,
\* is_expired_middleware.hpp:21-32).
Serving(n) == up[n] /\ kIsMaster[n] /\ ~kExpired[n]

\* Two nodes may take themselves for the master at one time, but never two whose
\* sessions the service has not given up: the flag of the older one is cleared
\* with its session, and the answer to a create never outlives it
\* (zookeeper.cpp:47-76, 124-143).
OneLiveMaster ==
    \A n \in Nodes : kIsMaster[n] /\ SessionOf(n) \in alive => master = SessionOf(n)

Awaits(n, ops) ==
    \/ \E i \in DOMAIN sent[n] : sent[n][i] \in ops
    \/ \E i \in DOMAIN inbox[n] : inbox[n][i].op \in ops

\* "current master is gone, trying to become master" (zookeeper.cpp:109): every
\* connected node is the master, watches it, or is about to find out who it is, when
\* processes die and start at any step and connections do not break.
TakesPart ==
    \A n \in Nodes :
        link[n] = "up" =>
            \/ master = SessionOf(n)
            \/ armed[n] # NoSession
            \/ Awaits(n, {"create", "get", "deleted"})
            \/ kExpired[n] /\ Awaits(n, {"connected"})

\* "master is: <host>" (zookeeper.cpp:94): a node that has been told that it is the
\* master itself, by its own session, and waits for no more answers serves as one.
\* Violated when the answer to the create is lost: the retry finds the node there
\* and does not set the flag, and the cluster is left with a master that refuses
\* every request.
MasterKnowsItself ==
    \A n \in Nodes :
        master = SessionOf(n) /\ kMasterNode[n] = n /\ ~Awaits(n, Ops) => kIsMaster[n]

\* The library and the service serve every request, reconnect, and expire the
\* sessions of processes that are gone; the callbacks of a handle run on a thread
\* of their own.
Abandoned(s) == s = SessionOf(s.node) => ~up[s.node]

FairSpec ==
    /\ Spec
    /\ \A n \in Nodes : WF_vars(NodeStep(n))
    /\ WF_vars(\E s \in alive : Abandoned(s) /\ Expire(s))

\* While nodes only crash and start, one of those that are up becomes the master,
\* also when the last master crashes while they are still finding out about it.
MasterAppears ==
    (\E n \in Nodes : up[n]) ~> ((\E n \in Nodes : Serving(n)) \/ \A n \in Nodes : ~up[n])

\* The nodes that are up end up agreeing on who it is: what CheckMaster and the
\* watch have told a node is never out of date for good (zookeeper.cpp:80-114).
MasterKnown ==
    <>[](\A n \in Nodes : up[n] => master # NoSession /\ kMasterNode[n] = master.node)

\* Every node ends up with the list of the nodes that are registered, whatever
\* answers and notifications are lost on the way, if /nodes exists.  A handle that
\* connects before it is assigned (zookeeper.cpp:70) leaves its node without the list.
NodesConverge ==
    nodesDir => <>[](races > 0 \/ \A n \in Nodes : up[n] => kNodes[n] = Listed)
=============================================================================
