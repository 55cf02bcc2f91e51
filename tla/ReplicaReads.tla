---------------------------- MODULE ReplicaReads ----------------------------
(***************************************************************************)
(* A Get of a cluster (controllers/get.cpp): the node asks every listed host *)
(* for its newest entry, itself included, and each of them, which runs the    *)
(* same handler, asks every host again.  Requests have a deadline and are      *)
(* repeated; while the node waits it holds the lock of a group of the map of   *)
(* clients, on which other requests spin, each on a thread of the pool.  An     *)
(* answer newer than the node's own entry is stored there (read repair).        *)
(*                                                                           *)
(* The storage of a node is the map of KVStore with its two places, since an    *)
(* entry in memory is reported with version 0; its operations are one step      *)
(* each.  The map of clients (boost::concurrent_flat_map) and gRPC are modelled  *)
(* from how the code uses them.  A request that finds no free member of          *)
(* Requests is one that no thread takes up before its deadline.                  *)
(***************************************************************************)
EXTENDS Entries, FiniteSets, Sequences, Functions

CONSTANTS
    Nodes,          \* the hosts
    NodeLists,      \* what kNodes may be; <<>> stands for the list that is not set
    FirstFiles,     \* what the files of a node may hold when it starts
    Groups,         \* the groups of slots of the map of clients
    GroupOf,        \* the group a host hashes to
    Nobody,         \* the lock is free; a task is on no node, or calls nobody
    Threads,        \* the threads of the pool of a node
    Attempts,       \* how often a request is made: 5 in the code
    MaxCalls,       \* bound: Gets of clients
    MaxWrites       \* bound: writes of clients

ASSUME ReplicaAssumption ==
    /\ NodeLists \subseteq Seq(Nodes)
    /\ FirstFiles \subseteq Table
    /\ GroupOf \in [Nodes -> Groups]
    /\ Nobody \notin Nodes \cup Requests
    /\ NotFound \notin DTO
    /\ Threads \in Nat \ {0} /\ Attempts \in Nat \ {0}
    /\ 0 \in Versions
    /\ MaxCalls \in Nat /\ MaxWrites \in Nat

VARIABLES
    kNodes,         \* the list of hosts a node has, as coordination keeps it
    memory, files,  \* the entries of a node in its memory tables and in its files
    lock,           \* the task that is visiting a group of host_to_client_ of a node
    task,           \* the Gets under way, of clients and of other nodes
    seen,           \* history: what the nodes reported for the key since a client's call
    held,           \* history: the lowest rank a node reported since then
    calls, writes   \* counters for the bounds

storage == <<memory, files, seen, held, writes>>
vars == <<kNodes, storage, lock, task, calls>>

\* A result of a Get, in the order in which it is preferred to another: none, then
\* by the version.
Rank(result) == IF result = NotFound THEN 0 ELSE result.version + 1

\* A coroutine of GetHandler; listed says whether its node has been in its own list
\* since the call.  It runs on a thread at "enter" and "local", and is
\* suspended at "wait", "repair" and "answered".  It has ended at "expired", when its
\* caller has still to find out that the deadline has passed.
Task == [pc : {"idle", "enter", "wait", "local", "repair", "answered",
               "expired"},
         node : Nodes \cup {Nobody}, key : Keys \cup {None}, client : BOOLEAN,
         todo : Seq(Nodes), attempt : 0..Attempts,
         callee : Requests \cup {Nobody}, heard : SUBSET Nodes,
         listed : BOOLEAN, late : BOOLEAN,
         newest : DTO \cup {NotFound}]

Idle == [pc |-> "idle", node |-> Nobody, key |-> None, client |-> FALSE,
         todo |-> <<>>, attempt |-> 0, callee |-> Nobody, heard |-> {},
         listed |-> FALSE, late |-> FALSE, newest |-> NotFound]

TypeOK ==
    /\ kNodes \in [Nodes -> NodeLists]
    /\ memory \in [Nodes -> Table] /\ files \in [Nodes -> Table]
    /\ lock \in [Nodes -> [Groups -> Requests \cup {Nobody}]]
    /\ task \in [Requests -> Task]
    /\ seen \in [Requests -> SUBSET (DTO \cup {NotFound})]
    /\ held \in [Requests -> [Nodes -> Nat]]
    /\ calls \in 0..MaxCalls /\ writes \in 0..MaxWrites

-----------------------------------------------------------------------------
(* The storage of a node *)

\* StorageSystem::Get.
ReportedBy(inMemory, inFiles) ==
    CASE IsLive(inMemory) -> [value |-> inMemory.value, version |-> 0]
      [] inMemory = None /\ IsLive(inFiles) -> inFiles
      [] OTHER -> NotFound
Reported(n, k) == ReportedBy(memory[n][k], files[n][k])

\* What the calls of clients see of the nodes, in the state after a change.
Observe ==
    LET now(n, k) == ReportedBy(memory'[n][k], files'[n][k])
        asked == {t \in Requests : task[t].client}
        lower(t, n) == Rank(now(n, task[t].key)) < held[t][n]
    IN  /\ seen' = [t \in Requests |->
                       seen[t] \cup {now(n, task[t].key) : n \in {m \in Nodes : t \in asked}}]
        /\ held' = [t \in Requests |-> [n \in Nodes |->
                       IF t \in asked /\ lower(t, n) THEN Rank(now(n, task[t].key))
                       ELSE held[t][n]]]

\* StorageSystem::Insert and Remove: an entry older than the reported one is omitted.
Store(n, k, entry) ==
    /\ memory' = IF Rank(Reported(n, k)) > entry.version + 1 THEN memory
                 ELSE [memory EXCEPT ![n][k] = entry]
    /\ UNCHANGED files
    /\ Observe

Written(n) == {k \in Keys : memory[n][k] # None}

\* SwapToPersistentStorage.
Swap(n) ==
    /\ Written(n) # {}
    /\ files' = [files EXCEPT ![n] =
                    [k \in Keys |-> IF k \in Written(n) THEN memory[n][k] ELSE files[n][k]]]
    /\ memory' = [memory EXCEPT ![n] = EmptyTable]
    /\ Observe
    /\ UNCHANGED <<kNodes, writes, lock, task, calls>>

-----------------------------------------------------------------------------
(* Threads and locks *)

\* The host that a task asks, and the lock it needs for it.
Host(t) == Head(task[t].todo)
LockOf(t) == lock[task[t].node][GroupOf[Host(t)]]
SetLock(t, holder) == lock' = [lock EXCEPT ![task[t].node][GroupOf[Host(t)]] = holder]

Runs(t) == task[t].pc \in {"enter", "local"}
Spins(t) == task[t].pc = "enter" /\ LockOf(t) # Nobody
On(n) == {t \in Requests : task[t].node = n}
ThreadFree(n) == Cardinality({t \in On(n) : Runs(t)}) < Threads

\* A coroutine that is suspended goes on when a thread takes it from the queue.
Resumes(t, pc) == task[t].pc = pc /\ ThreadFree(task[t].node)

-----------------------------------------------------------------------------
(* Requests *)

Init ==
    /\ kNodes \in [Nodes -> NodeLists]
    /\ memory = [n \in Nodes |-> EmptyTable]
    /\ files \in [Nodes -> FirstFiles]
    /\ lock = [n \in Nodes |-> [g \in Groups |-> Nobody]]
    /\ task = [t \in Requests |-> Idle]
    /\ seen = [t \in Requests |-> {}]
    /\ held = [t \in Requests |-> [n \in Nodes |-> 0]]
    /\ calls = 0 /\ writes = 0

\* An Insert or a Remove of a client.  No write is sent to other nodes.
Write(n) ==
    /\ writes < MaxWrites /\ writes' = writes + 1
    /\ ThreadFree(n)
    /\ \E k \in Keys, entry \in Entry : Store(n, k, entry)
    /\ UNCHANGED <<kNodes, lock, task, calls>>

\* On to the next host of the list, or to the node's own entry.
Next1(todo) == IF todo = <<>> THEN "local" ELSE "enter"

Started(n, k, client, list) ==
    [Idle EXCEPT !.pc = Next1(list), !.node = n, !.key = k, !.client = client,
                 !.todo = list, !.listed = n \in Range(list)]

\* SetNodes: the list is read, or read again.
Discover(n) ==
    /\ \E list \in NodeLists \ {<<>>, kNodes[n]} :
          /\ kNodes' = [kNodes EXCEPT ![n] = list]
          /\ task' = [t \in Requests |->
                         IF task[t].node = n
                         THEN [task[t] EXCEPT !.listed = @ /\ n \in Range(list)] ELSE task[t]]
    /\ UNCHANGED <<storage, lock, calls>>

\* Controller::Get for a client.
Get(t, n, k) ==
    /\ calls < MaxCalls /\ calls' = calls + 1
    /\ task[t] = Idle /\ ThreadFree(n)
    /\ task' = [task EXCEPT ![t] = Started(n, k, TRUE, kNodes[n])]
    /\ seen' = [seen EXCEPT ![t] = {Reported(h, k) : h \in Nodes}]
    /\ held' = [held EXCEPT ![t] = [h \in Nodes |-> Rank(Reported(h, k))]]
    /\ UNCHANGED <<kNodes, memory, files, writes, lock>>

\* The request of t reaches its host, which runs the same handler.
Serve(t, s) ==
    /\ task[t].pc = "wait" /\ task[t].callee = Nobody
    /\ task[s] = Idle /\ ThreadFree(Host(t))
    /\ task' = [task EXCEPT ![t].callee = s,
                            ![s] = Started(Host(t), task[t].key, FALSE, kNodes[Host(t)])]
    /\ UNCHANGED <<kNodes, storage, lock, calls>>

\* emplace_or_visit and visit: the client of a host is made when it is not there, and
\* used, under the lock of its group; the request is sent.
Visit(t) ==
    /\ task[t].pc = "enter" /\ LockOf(t) = Nobody
    /\ SetLock(t, t)
    /\ task' = [task EXCEPT ![t].pc = "wait", ![t].attempt = 1]
    /\ UNCHANGED <<kNodes, storage, calls>>

\* Mutant: the version of an answer is not taken over.
WithoutVersion(result, got) ==
    IF Rank(result) < 1 THEN [got EXCEPT !.version = 0] ELSE result

\* Mutant: the last answer is taken, however old.
LastAnswer(result, got) == got

\* Of two results, the first unless the second is newer.
Newest(result, got) == IF Rank(result) < Rank(got) THEN got ELSE result

\* The task after a visit, with what it has been answered.
Left(visitor, newest, heard) ==
    [visitor EXCEPT !.pc = Next1(Tail(visitor.todo)), !.todo = Tail(@), !.attempt = 0,
                    !.callee = Nobody, !.newest = newest, !.heard = heard]

\* Mutant: the deadline is longer than what the host waits for itself.
InTime(visitor) == Left(visitor, visitor.newest, visitor.heard)

GivenUp(visitor) == [Left(visitor, visitor.newest, visitor.heard) EXCEPT !.late = TRUE]

\* The answer arrives in time.
Succeed(t) ==
    /\ Resumes(t, "wait") /\ task[t].callee # Nobody
    /\ LET s == task[t].callee
           got == task[s].newest
           heard == task[t].heard \cup {Host(t)}
       IN  /\ task[s].pc = "answered" /\ got # NotFound
           /\ SetLock(t, Nobody)
           /\ task' = [task EXCEPT ![s] = Idle,
                                   ![t] = Left(@, Newest(@.newest, got), heard)]
    /\ UNCHANGED <<kNodes, storage, calls>>

\* An answer for which nobody waits is gone.
IsGone(s) == s # Nobody /\ task[s].pc \in {"answered", "expired"}

\* Mutant: once too often.
OneMore(t) == task[t].attempt <= Attempts

MoreAttempts(t) == task[t].attempt < Attempts

\* An attempt ends without a value.  After a delay that grows the request is made
\* again; after the last attempt it is given up.
EndAttempt(t) ==
    /\ Resumes(t, "wait")
    /\ LET s == task[t].callee
           after == IF MoreAttempts(t)
                    THEN [task[t] EXCEPT !.attempt = @ + 1, !.callee = Nobody]
                    ELSE GivenUp(task[t])
       IN  task' = [r \in Requests |-> CASE r = t -> after
                                         [] r = s /\ IsGone(s) -> Idle
                                         [] OTHER -> task[r]]
    /\ IF MoreAttempts(t) THEN UNCHANGED lock ELSE SetLock(t, Nobody)
    /\ UNCHANGED <<kNodes, storage, calls>>

\* Mutant: an attempt has no deadline.
UntilAnswered(t) ==
    /\ EndAttempt(t)
    /\ IsGone(task[t].callee)

\* The deadline passes, the host cannot be reached, its middleware refuses, or it
\* answers with an error, NOT_FOUND included.  The handler of the host goes on.
AttemptFails(t) == EndAttempt(t)

\* The answer goes to the client, or to the node that waits for it, if one still does:
\* who has given up a host has waited for 31 seconds between the attempts, and its
\* caller not more than five for all of them.
Awaited(t) == \E s \in Requests : task[s].callee = t

Answer(t, result) ==
    task' = [task EXCEPT ![t] =
                CASE @.client \/ (Awaited(t) /\ ~@.late) ->
                         [@ EXCEPT !.pc = "answered", !.newest = result]
                  [] ~@.client /\ Awaited(t) /\ @.late -> [Idle EXCEPT !.pc = "expired"]
                  [] OTHER -> Idle]

IsOlder(local, newest) == Rank(local) < Rank(newest)

\* The node's own entry is read after all others, and answers unless it is older.
ReadLocal(t) ==
    /\ task[t].pc = "local"
    /\ LET local == Reported(task[t].node, task[t].key)
       IN  IF IsOlder(local, task[t].newest)
           THEN task' = [task EXCEPT ![t].pc = "repair"]
           ELSE Answer(t, local)
    /\ UNCHANGED <<kNodes, storage, lock, calls>>

\* The newest answer is stored here, with the version it was reported with.  It is
\* returned whether or not that succeeds.
Repair(t) ==
    /\ Resumes(t, "repair")
    /\ \/ Store(task[t].node, task[t].key, task[t].newest)
       \/ UNCHANGED <<memory, files, seen, held>>
    /\ Answer(t, task[t].newest)
    /\ UNCHANGED <<kNodes, writes, lock, calls>>

Return(t) ==
    /\ task[t].pc = "answered" /\ task[t].client
    /\ task' = [task EXCEPT ![t] = Idle]
    /\ seen' = [seen EXCEPT ![t] = {}]
    /\ held' = [held EXCEPT ![t] = [n \in Nodes |-> 0]]
    /\ UNCHANGED <<kNodes, memory, files, writes, lock, calls>>

-----------------------------------------------------------------------------
\* Every thread of the node spins on a lock: nothing that the node waits for can
\* be taken from the queue, not even a deadline.
Frozen(n) == Cardinality({t \in On(n) : Spins(t)}) = Threads

\* No more calls are made, and what is left of them hangs.
Stopped ==
    /\ \/ calls = MaxCalls
       \/ \A n \in Nodes : Frozen(n)
       \/ \A t \in Requests : task[t] # Idle
    /\ \A n \in Nodes : Frozen(n) \/ On(n) = {}
    /\ UNCHANGED vars

Runnable(t) == Visit(t) \/ ReadLocal(t)
Queued(t) == Succeed(t) \/ AttemptFails(t) \/ Repair(t) \/ Return(t)

Next ==
    \/ \E t \in Requests : Runnable(t) \/ Queued(t)
    \/ \E t \in Requests, n \in Nodes, k \in Keys : Get(t, n, k)
    \/ \E t, s \in Requests : Serve(t, s)
    \/ \E n \in Nodes : Write(n) \/ Swap(n) \/ Discover(n)
    \/ Stopped

Spec == Init /\ [][Next]_vars

-----------------------------------------------------------------------------
(* Properties *)

Answered(t) == task[t].client /\ task[t].pc = "answered"

\* What a client is answered, a node has reported since its call: no answer is made up
\* by a request that was given up, and none is left over from an earlier one
\* (replication.cpp:73-86).
AnswerWasReported ==
    \A t \in Requests : Answered(t) => task[t].newest \in seen[t]

\* A client is never answered with less than any node that has answered it has
\* held throughout, nor than its own node has, whatever requests fail, are repeated,
\* or repair the nodes in between (replication.cpp:209-217, controllers/get.cpp:8-21).
AnswerIsNewest ==
    \A t \in Requests :
        Answered(t) => \A n \in task[t].heard \cup {task[t].node} :
                           Rank(task[t].newest) >= held[t][n]

\* A node that is in its own list asks itself before it answers, and the call in
\* which it does has to ask as well: one of them gives up, and is late.  What another
\* node is answered comes from a node that is not in its own list, or was not at some
\* moment of the call (replication.cpp:50, 73-86, 197-221).
NoAnswerFromListedNodes ==
    \A t \in Requests : task[t].pc = "answered" /\ ~task[t].client => ~task[t].listed

\* The queue is served in order; a thread that spins gets the lock or not.
FairSpec ==
    /\ Spec
    /\ \A t \in Requests : WF_vars(Runnable(t)) /\ SF_vars(Queued(t))

\* Whoever visits a group leaves it, after five attempts at the latest, unless every
\* thread of its node spins (replication.cpp:69-86).
LockIsGivenBack ==
    \A n \in Nodes, g \in Groups :
        lock[n][g] # Nobody ~> lock[n][g] = Nobody \/ Frozen(n)

\* "omitting insert of key={} with version={} older than current={}"
\* (storage_system.cpp:19).  Violated by the repair of a removed key: a tombstone is
\* reported as no entry, and the older entry of another node takes its place.
Held(n, k) == IF memory[n][k] # None THEN memory[n][k] ELSE files[n][k]
OlderIsOmitted ==
    [][\A t \in Requests :
          Repair(t) => \A n \in Nodes, k \in Keys :
                           Held(n, k) = None \/ Held(n, k)'.version >= Held(n, k).version]_vars
=============================================================================
