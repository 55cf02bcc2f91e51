--------------------------- MODULE ReplicaReadsProofs ---------------------------
(* Proofs about the reads of all nodes, for any nodes, lists, groups and requests. *)
EXTENDS ReplicaReads, SequenceTheorems, TLAPS

Active == {"enter", "wait", "local", "repair", "answered"}
IsActive(t) == task[t].pc \in Active

\* What the program counter says of the rest of a task.
TaskIsSound(t) ==
    /\ IsActive(t) => task[t].node \in Nodes /\ task[t].key \in Keys
    /\ ~IsActive(t) => task[t] = [Idle EXCEPT !.pc = task[t].pc]
    /\ task[t].pc \in {"enter", "wait"} <=> task[t].todo # <<>>
    /\ task[t].pc = "repair" => task[t].newest # NotFound
    /\ task[t].callee # Nobody => task[t].pc = "wait"

\* A task that another one waits for is at the host which that one asks, for the same
\* key, until it has ended; nobody else waits for it.  It has begun later, so that its node
\* is in its own list if it has been since the other one began.
LinkIsSound(t, s) ==
    task[t].callee = s =>
        /\ task[s].pc # "idle" /\ ~task[s].client
        /\ IsActive(s) =>
            /\ task[s].node = Host(t) /\ task[s].key = task[t].key
            /\ task[t].listed /\ task[t].node = Host(t) => task[s].listed
CalleesDiffer ==
    \A t, u \in Requests : task[t].callee = task[u].callee /\ t # u => task[t].callee = Nobody
LinksAreSound == CalleesDiffer /\ \A t, s \in Requests : LinkIsSound(t, s)

\* A node that is in its own list has still to ask itself, or has given that up.
ListIsSound(t) ==
    task[t].listed =>
        /\ task[t].node \in Range(kNodes[task[t].node])
        /\ task[t].late \/ task[t].node \in Range(task[t].todo)

\* What a client has seen of a node includes what the node holds.
SeenIsSound(c) ==
    task[c].client =>
        \A n \in Nodes : /\ Reported(n, task[c].key) \in seen[c]
                         /\ held[c][n] \leq Rank(Reported(n, task[c].key))

\* origin[t] is the client for whom t asks, which has seen what t has heard; what t is
\* going to answer is not older than what each node it has heard of, or its own, has held.
Knows(t, c) ==
    /\ task[c].client
    /\ IsActive(t) => task[t].key = task[c].key
    /\ task[t].newest \in seen[c] \cup {NotFound}
    /\ task[t].pc = "answered" => task[t].newest \in seen[c]
    /\ \A n \in task[t].heard : Rank(task[t].newest) >= held[c][n]
    /\ task[t].pc \in {"repair", "answered"} =>
           Rank(task[t].newest) >= held[c][task[t].node]
IsOrigin(origin) ==
    /\ \A t \in Requests : task[t].client => origin[t] = t
    /\ \A t, s \in Requests : task[t].callee = s => origin[s] = origin[t]
    /\ \A t, c \in Requests : origin[t] = c => Knows(t, c)
OriginsExist == \E origin \in [Requests -> Requests \cup {Nobody}] : IsOrigin(origin)

ReadsInv ==
    /\ TypeOK
    /\ \A t \in Requests : TaskIsSound(t) /\ ListIsSound(t) /\ SeenIsSound(t)
    /\ LinksAreSound /\ OriginsExist /\ NoAnswerFromListedNodes

-----------------------------------------------------------------------------
(* Results and tasks *)

Result == DTO \cup {NotFound}

LEMMA RankIsNat == \A result \in Result : Rank(result) \in Nat
<1> SUFFICES ASSUME NEW result \in Result PROVE Rank(result) \in Nat
    OBVIOUS
<1>1. CASE result = NotFound
    BY <1>1 DEF Rank
<1>2. CASE result # NotFound
    <2>1. result.version \in Nat
        <3>1. result \in [value : Values, version : Versions \cup {0}]
            BY <1>2 DEF Result, DTO
        <3>2. result.version \in Versions \cup {0}
            BY <3>1
        <3>3. Versions \cup {0} \subseteq Nat
            BY VersionsAssumption
        <3> QED BY <3>2, <3>3
    <2> QED BY <1>2, <2>1 DEF Rank
<1> QED BY <1>1, <1>2

LEMMA ReportedIsResult ==
    ASSUME NEW inMemory \in Entry \cup {None}, NEW inFiles \in Entry \cup {None}
    PROVE  ReportedBy(inMemory, inFiles) \in Result
BY ConstantsAssumption DEF ReportedBy, IsLive, Entry, DTO, Result

LEMMA NodesReport ==
    ASSUME TypeOK
    PROVE  \A n \in Nodes, k \in Keys : Reported(n, k) \in Result
BY ReportedIsResult DEF TypeOK, Table, Reported

LEMMA IdleIsTask == Idle \in Task
<1>1. <<>> \in Seq(Nodes) /\ 0 \in 0..Attempts
    BY ReplicaAssumption
<1> QED BY <1>1 DEF Idle, Task

LEMMA StartedTask ==
    ASSUME NEW n \in Nodes, NEW k \in Keys, NEW client \in BOOLEAN, NEW list \in Seq(Nodes)
    PROVE  Started(n, k, client, list) \in Task
<1>1. 0 \in 0..Attempts
    BY ReplicaAssumption
<1>2. Idle \in Task
    BY IdleIsTask
<1>3. Next1(list) \in {"enter", "local"}
    BY DEF Next1
<1>4. ASSUME NEW listed \in BOOLEAN
      PROVE  [Idle EXCEPT !.pc = Next1(list), !.node = n, !.key = k, !.client = client,
                          !.todo = list, !.listed = listed] \in Task
    BY <1>2, <1>3 DEF Task
<1>5. (n \in Range(list)) \in BOOLEAN
    OBVIOUS
<1> QED BY <1>4, <1>5, Zenon DEF Started

LEMMA LeftTask ==
    ASSUME NEW x \in Task, x.todo # <<>>, NEW newest \in Result, NEW heard \in SUBSET Nodes
    PROVE  LET y == Left(x, newest, heard)
           IN  /\ y \in Task
               /\ y.pc = Next1(Tail(x.todo)) /\ y.todo = Tail(x.todo)
               /\ y.callee = Nobody /\ y.newest = newest /\ y.heard = heard
               /\ y.node = x.node /\ y.key = x.key /\ y.client = x.client
               /\ y.listed = x.listed /\ y.late = x.late
<1>1. 0 \in 0..Attempts
    BY ReplicaAssumption
<1>2. x.todo \in Seq(Nodes)
    BY DEF Task
<1>3. Tail(x.todo) \in Seq(Nodes)
    BY <1>2
<1> QED BY <1>1, <1>3 DEF Left, Next1, Task, Result

LEMMA RangeOfTail ==
    ASSUME NEW todo \in Seq(Nodes), todo # <<>>, NEW n \in Range(todo)
    PROVE  n = Head(todo) \/ n \in Range(Tail(todo))
<1>1. PICK i \in DOMAIN todo : todo[i] = n
    BY DEF Range
<1>2. CASE i = 1
    BY <1>1, <1>2
<1>3. CASE i # 1
    <2>1. i - 1 \in 1..Len(Tail(todo)) /\ Tail(todo)[i - 1] = n
        BY <1>1, <1>3
    <2>2. DOMAIN Tail(todo) = 1..Len(Tail(todo))
        OBVIOUS
    <2> QED BY <2>1, <2>2 DEF Range
<1> QED BY <1>2, <1>3

LEMMA HostIsNode ==
    ASSUME TypeOK, NEW t \in Requests, task[t].todo # <<>>
    PROVE  Host(t) \in Nodes
<1>1. task[t].todo \in Seq(Nodes)
    BY DEF TypeOK, Task
<1> QED BY <1>1 DEF Host

-----------------------------------------------------------------------------
(* What tasks do to each other *)

\* What a client has seen only grows, and what it holds a node to only sinks.
Grows(c) == /\ seen[c] \subseteq seen'[c]
            /\ \A n \in Nodes : held'[c][n] \leq held[c][n]

LEMMA KnowsMore ==
    ASSUME TypeOK, TypeOK', NEW t \in Requests, NEW c \in Requests, Knows(t, c), Grows(c),
           task'[c].client, task'[c].key = task[c].key,
           task'[t].pc = task[t].pc, task'[t].node = task[t].node,
           task'[t].key = task[t].key, task'[t].newest = task[t].newest,
           task'[t].heard = task[t].heard, TaskIsSound(t)
    PROVE  Knows(t, c)'
<1>1. /\ Rank(task[t].newest) \in Nat /\ task[t].heard \subseteq Nodes
      /\ \A n \in Nodes : held[c][n] \in Nat /\ held'[c][n] \in Nat
    BY RankIsNat DEF TypeOK, Task, Result
<1>2. task[t].pc \in {"repair", "answered"} => task[t].node \in Nodes
    BY DEF TaskIsSound, IsActive, Active
<1>3. IsActive(t)' = IsActive(t)
    BY DEF IsActive
<1> HIDE DEF TypeOK, TaskIsSound
<1>4. \A n \in task'[t].heard : Rank(task'[t].newest) >= held'[c][n]
    BY <1>1 DEF Knows, Grows
<1>5. task'[t].pc \in {"repair", "answered"} =>
           Rank(task'[t].newest) >= held'[c][task'[t].node]
    BY <1>1, <1>2 DEF Knows, Grows
<1> QED BY <1>3, <1>4, <1>5 DEF Knows, Grows

\* A task that goes on without asking anybody: it stays where it is, for the same key
\* and client, and does not become idle while it is waited for.
Moves(m) ==
    /\ IsActive(m)' =>
        /\ IsActive(m) /\ task'[m].node = task[m].node /\ task'[m].key = task[m].key
        /\ task'[m].listed = task[m].listed
    /\ task'[m].client = task[m].client
    /\ task'[m].callee = Nobody
    /\ task'[m].pc = "idle" => \A u \in Requests : task'[u].callee # m

LEMMA ClientIsActive ==
    ASSUME NEW t \in Requests, TaskIsSound(t), task[t].client
    PROVE  IsActive(t)
BY DEF TaskIsSound, Idle

LEMMA MovesKeepLinks ==
    ASSUME ReadsInv, NEW M \in SUBSET Requests,
           \A u \in Requests \ M : task'[u] = task[u],
           \A m \in M : Moves(m)
    PROVE  LinksAreSound'
<1>1. Nobody \notin Requests
    BY ReplicaAssumption
<1>2. \A u \in Requests : task'[u].callee \in {Nobody, task[u].callee}
    BY DEF Moves
<1>3. CalleesDiffer'
    BY <1>2 DEF ReadsInv, LinksAreSound, CalleesDiffer
<1>4. ASSUME NEW t \in Requests, NEW s \in Requests, task'[t].callee = s
      PROVE  /\ task'[s].pc # "idle" /\ ~task'[s].client
             /\ IsActive(s)' =>
                 /\ task'[s].node = Host(t)' /\ task'[s].key = task'[t].key
                 /\ task'[t].listed /\ task'[t].node = Host(t)' => task'[s].listed
    <2>1. t \notin M /\ task'[t] = task[t]
        BY <1>1, <1>4 DEF Moves
    <2>2. Host(t)' = Host(t)
        BY <2>1 DEF Host
    <2>3. LinkIsSound(t, s) /\ task[t].callee = s
        BY <1>4, <2>1 DEF ReadsInv, LinksAreSound
    <2>4. CASE s \in M
        BY <1>4, <2>1, <2>2, <2>3, <2>4 DEF LinkIsSound, Moves
    <2>5. CASE s \notin M
        <3>1. task'[s] = task[s] /\ IsActive(s)' = IsActive(s)
            BY <2>5 DEF IsActive
        <3> QED BY <2>1, <2>2, <2>3, <3>1 DEF LinkIsSound
    <2> QED BY <2>4, <2>5
<1>5. \A t \in Requests, s \in Requests : LinkIsSound(t, s)'
    BY <1>4 DEF LinkIsSound
<1> QED BY <1>3, <1>5 DEF LinksAreSound

LEMMA MovesKeepOrigins ==
    ASSUME ReadsInv, TypeOK', NEW M \in SUBSET Requests,
           \A u \in Requests \ M : task'[u] = task[u],
           \A m \in M : Moves(m) /\ TaskIsSound(m)',
           \A c \in Requests : Grows(c),
           NEW origin \in [Requests -> Requests \cup {Nobody}], IsOrigin(origin),
           \A m \in M : origin[m] # Nobody => Knows(m, origin[m])'
    PROVE  IsOrigin(origin)'
<1>1. Nobody \notin Requests
    BY ReplicaAssumption
<1>2. \A u \in Requests : task'[u].client = task[u].client
    BY DEF Moves
<1>3. \A u \in Requests : task'[u].callee \in {Nobody, task[u].callee}
    BY DEF Moves
<1>4. ASSUME NEW c \in Requests, task[c].client
      PROVE  task'[c].client /\ task'[c].key = task[c].key
    <2>1. CASE c \in M
        <3>1. task'[c].client /\ TaskIsSound(c)' /\ Moves(c)
            BY <1>2, <1>4, <2>1
        <3>2. IsActive(c)'
            BY <3>1 DEF TaskIsSound, Idle
        <3> QED BY <3>1, <3>2 DEF Moves
    <2> QED BY <1>2, <1>4, <2>1
<1>5. ASSUME NEW t \in Requests, NEW c \in Requests, origin[t] = c
      PROVE  Knows(t, c)'
    <2>1. CASE t \in M
        BY <1>1, <1>5, <2>1
    <2>2. CASE t \notin M
        <3>1. Knows(t, c) /\ TaskIsSound(t) /\ Grows(c) /\ TypeOK
            BY <1>5 DEF IsOrigin, ReadsInv
        <3>2. task'[c].client /\ task'[c].key = task[c].key
            BY <1>4, <3>1 DEF Knows
        <3>3. task'[t] = task[t]
            BY <2>2
        <3> QED BY <3>1, <3>2, <3>3, KnowsMore
    <2> QED BY <2>1, <2>2
<1>6. \A t \in Requests : task'[t].client => origin[t] = t
    BY <1>2 DEF IsOrigin
<1>7. \A t \in Requests, s \in Requests : task'[t].callee = s => origin[s] = origin[t]
    BY <1>1, <1>3 DEF IsOrigin
<1> QED BY <1>5, <1>6, <1>7 DEF IsOrigin

LEMMA MovesKeep ==
    ASSUME ReadsInv, TypeOK', UNCHANGED kNodes, NEW M \in SUBSET Requests,
           \A u \in Requests \ M : task'[u] = task[u],
           \A m \in M : Moves(m) /\ TaskIsSound(m)' /\ ListIsSound(m)',
           \A m \in M : task'[m].pc = "answered" /\ ~task'[m].client => ~task'[m].listed,
           \A c \in Requests : Grows(c) /\ SeenIsSound(c)',
           \A origin \in [Requests -> Requests \cup {Nobody}] :
               IsOrigin(origin) =>
                   \A m \in M : origin[m] # Nobody => Knows(m, origin[m])'
    PROVE  ReadsInv'
<1>1. LinksAreSound'
    BY MovesKeepLinks
<1>2. OriginsExist'
    <2>1. PICK origin \in [Requests -> Requests \cup {Nobody}] : IsOrigin(origin)
        BY DEF ReadsInv, OriginsExist
    <2>2. IsOrigin(origin)'
        BY <2>1, MovesKeepOrigins
    <2> QED BY <2>2 DEF OriginsExist
<1>3. ASSUME NEW t \in Requests PROVE TaskIsSound(t)' /\ ListIsSound(t)'
    <2>1. CASE t \in M
        BY <2>1
    <2>2. CASE t \notin M
        BY <2>2 DEF ReadsInv, TaskIsSound, ListIsSound, IsActive
    <2> QED BY <2>1, <2>2
<1>4. NoAnswerFromListedNodes'
    BY DEF ReadsInv, NoAnswerFromListedNodes
<1> QED BY <1>1, <1>2, <1>3, <1>4 DEF ReadsInv

LEMMA OneMoveKeeps ==
    ASSUME ReadsInv, TypeOK', UNCHANGED kNodes, NEW t \in Requests,
           \A u \in Requests \ {t} : task'[u] = task[u],
           Moves(t), TaskIsSound(t)', ListIsSound(t)',
           task'[t].pc = "answered" /\ ~task'[t].client => ~task'[t].listed,
           \A c \in Requests : Grows(c) /\ SeenIsSound(c)',
           \A origin \in [Requests -> Requests \cup {Nobody}] :
               IsOrigin(origin) /\ origin[t] # Nobody => Knows(t, origin[t])'
    PROVE  ReadsInv'
<1> DEFINE M == {t}
<1>1. M \in SUBSET Requests /\ \A m \in M : m = t
    OBVIOUS
<1>2. \A u \in Requests \ M : task'[u] = task[u]
    OBVIOUS
<1>3. \A m \in M : Moves(m) /\ TaskIsSound(m)' /\ ListIsSound(m)'
    OBVIOUS
<1>4. \A m \in M : task'[m].pc = "answered" /\ ~task'[m].client => ~task'[m].listed
    OBVIOUS
<1>5. \A origin \in [Requests -> Requests \cup {Nobody}] :
          IsOrigin(origin) => \A m \in M : origin[m] # Nobody => Knows(m, origin[m])'
    OBVIOUS
<1> HIDE DEF M
<1> QED BY <1>1, <1>2, <1>3, <1>4, <1>5, MovesKeep

-----------------------------------------------------------------------------
(* The steps of a request *)

LEMMA StorageStays ==
    ASSUME ReadsInv, UNCHANGED storage,
           \A c \in Requests : task'[c].client => task[c].client /\ task'[c].key = task[c].key
    PROVE  \A c \in Requests : Grows(c) /\ SeenIsSound(c)'
<1>1. ASSUME NEW c \in Requests PROVE Grows(c)
    <2>1. \A n \in Nodes : held[c][n] \in Nat
        BY DEF ReadsInv, TypeOK
    <2> QED BY <2>1 DEF Grows, storage
<1>2. ASSUME NEW c \in Requests PROVE SeenIsSound(c)'
    <2>1. SeenIsSound(c)
        BY DEF ReadsInv
    <2>2. \A n \in Nodes, k \in Keys \cup {None} : Reported(n, k)' = Reported(n, k)
        BY DEF storage, Reported
    <2>3. task[c].key \in Keys \cup {None}
        BY DEF ReadsInv, TypeOK, Task
    <2>4. UNCHANGED <<seen, held>>
        BY DEF storage
    <2> QED BY <2>1, <2>2, <2>3, <2>4 DEF SeenIsSound
<1> QED BY <1>1, <1>2

LEMMA VisitKeeps ==
    ASSUME ReadsInv, NEW t \in Requests, Visit(t)
    PROVE  ReadsInv'
<1> DEFINE after == [task[t] EXCEPT !.pc = "wait", !.attempt = 1]
<1>1. TypeOK /\ TaskIsSound(t) /\ ListIsSound(t)
    BY DEF ReadsInv
<1>2. task[t] \in Task /\ task[t].pc = "enter" /\ task[t].todo # <<>> /\ task[t].callee = Nobody
    BY <1>1 DEF Visit, TypeOK, TaskIsSound
<1>3. after \in Task
    <2>1. 1 \in 0..Attempts
        BY ReplicaAssumption
    <2> QED BY <1>2, <2>1 DEF Task
<1>4. /\ after.pc = "wait" /\ after.node = task[t].node /\ after.key = task[t].key
      /\ after.client = task[t].client /\ after.todo = task[t].todo
      /\ after.callee = Nobody /\ after.heard = task[t].heard
      /\ after.listed = task[t].listed /\ after.late = task[t].late
      /\ after.newest = task[t].newest
    BY <1>2 DEF Task
<1>5. task' = [task EXCEPT ![t] = after]
    BY DEF Visit
<1> HIDE DEF after
<1>6. task' \in [Requests -> Task] /\ task'[t] = after
      /\ \A u \in Requests \ {t} : task'[u] = task[u]
    BY <1>1, <1>3, <1>5 DEF TypeOK
<1>7. TypeOK'
    <2>1. task[t].node \in Nodes /\ GroupOf[Host(t)] \in Groups
        BY <1>1, <1>2, HostIsNode, ReplicaAssumption DEF TaskIsSound, IsActive, Active
    <2>2. lock' \in [Nodes -> [Groups -> Requests \cup {Nobody}]]
        BY <1>1, <2>1 DEF Visit, SetLock, TypeOK
    <2> QED BY <1>1, <1>6, <2>2 DEF Visit, storage, TypeOK
<1>8. IsActive(t) /\ IsActive(t)' /\ UNCHANGED <<kNodes, storage>>
    BY <1>2, <1>4, <1>6 DEF IsActive, Active, Visit
<1>9. Moves(t)
    BY <1>4, <1>6, <1>8 DEF Moves
<1>10. TaskIsSound(t)' /\ ListIsSound(t)'
    BY <1>1, <1>2, <1>4, <1>6, <1>8 DEF TaskIsSound, ListIsSound
<1>11. \A c \in Requests : Grows(c) /\ SeenIsSound(c)'
    BY <1>4, <1>6, <1>8, StorageStays
<1>12. ASSUME NEW origin \in [Requests -> Requests \cup {Nobody}], IsOrigin(origin),
              origin[t] # Nobody
       PROVE  Knows(t, origin[t])'
    <2>1. Knows(t, origin[t]) /\ origin[t] \in Requests
        BY <1>12 DEF IsOrigin
    <2>2. task'[origin[t]].client = task[origin[t]].client
          /\ task'[origin[t]].key = task[origin[t]].key
        BY <1>4, <1>6, <2>1
    <2>3. UNCHANGED <<seen, held>>
        BY <1>8 DEF storage
    <2> QED BY <1>4, <1>6, <1>8, <2>1, <2>2, <2>3 DEF Knows
<1>13. task'[t].pc # "answered" /\ UNCHANGED kNodes
    BY <1>4, <1>6, <1>8
<1> QED BY <1>6, <1>7, <1>9, <1>10, <1>11, <1>12, <1>13, OneMoveKeeps

\* A task whose answer has been taken becomes idle again, and nobody waits for it.
LEMMA IdleIsSound ==
    ASSUME TypeOK, NEW s \in Requests, task'[s] = Idle, ~task[s].client,
           \A u \in Requests : task'[u].callee # s
    PROVE  /\ Moves(s) /\ TaskIsSound(s)' /\ ListIsSound(s)'
           /\ task'[s].pc # "answered" /\ task'[s].newest = NotFound
           /\ task'[s].heard = {} /\ ~IsActive(s)'
<1>1. /\ Idle.pc = "idle" /\ ~Idle.client /\ Idle.callee = Nobody /\ ~Idle.listed
      /\ Idle.todo = <<>> /\ Idle.newest = NotFound /\ Idle.heard = {}
      /\ [Idle EXCEPT !.pc = Idle.pc] = Idle
    BY DEF Idle
<1>2. ~IsActive(s)'
    BY <1>1 DEF IsActive, Active
<1>3. task[s].client = task'[s].client
    <2>1. task[s].client \in BOOLEAN
        BY DEF TypeOK, Task
    <2>2. task[s].client = FALSE /\ Idle.client = FALSE
        BY <1>1, <2>1 DEF Idle
    <2> QED BY <2>2
<1> HIDE DEF Idle
<1> QED BY <1>1, <1>2, <1>3 DEF Moves, TaskIsSound, ListIsSound

LEMMA TwoMovesKeep ==
    ASSUME ReadsInv, TypeOK', UNCHANGED kNodes, NEW t \in Requests, NEW s \in Requests,
           \A u \in Requests \ {t, s} : task'[u] = task[u],
           Moves(t), TaskIsSound(t)', ListIsSound(t)', task'[t].pc # "answered",
           task'[s] = Idle, ~task[s].client, \A u \in Requests : task'[u].callee # s,
           \A c \in Requests : Grows(c) /\ SeenIsSound(c)',
           \A origin \in [Requests -> Requests \cup {Nobody}] :
               IsOrigin(origin) /\ origin[t] # Nobody => Knows(t, origin[t])'
    PROVE  ReadsInv'
<1> DEFINE M == {t, s}
<1>1. M \in SUBSET Requests /\ \A m \in M : m = t \/ m = s
    OBVIOUS
<1>2. \A u \in Requests \ M : task'[u] = task[u]
    OBVIOUS
<1>3. /\ Moves(s) /\ TaskIsSound(s)' /\ ListIsSound(s)'
      /\ task'[s].pc # "answered" /\ task'[s].newest = NotFound
      /\ task'[s].heard = {} /\ ~IsActive(s)'
    BY IdleIsSound DEF ReadsInv
<1>4. \A m \in M : Moves(m) /\ TaskIsSound(m)' /\ ListIsSound(m)'
    BY <1>3
<1>5. \A m \in M : task'[m].pc = "answered" /\ ~task'[m].client => ~task'[m].listed
    BY <1>3
<1> HIDE DEF M
<1>6. ASSUME NEW origin \in [Requests -> Requests \cup {Nobody}], IsOrigin(origin),
             origin[s] # Nobody
      PROVE  Knows(s, origin[s])'
    <2>1. Knows(s, origin[s]) /\ origin[s] \in Requests
        BY <1>6 DEF IsOrigin
    <2>2. task'[origin[s]].client
        BY <1>1, <1>2, <1>4, <2>1 DEF Knows, Moves
    <2>3. task'[s].pc \notin {"repair", "answered"}
        BY <1>3 DEF IsActive, Active
    <2> QED BY <1>3, <2>2, <2>3 DEF Knows
<1>7. \A origin \in [Requests -> Requests \cup {Nobody}] :
          IsOrigin(origin) => \A m \in M : origin[m] # Nobody => Knows(m, origin[m])'
    BY <1>1, <1>6
<1> QED BY <1>1, <1>2, <1>4, <1>5, <1>7, MovesKeep

LEMMA SucceedKeeps ==
    ASSUME ReadsInv, NEW t \in Requests, Succeed(t)
    PROVE  ReadsInv'
<1> DEFINE s == task[t].callee
           got == task[s].newest
           heard == task[t].heard \cup {Host(t)}
           best == Newest(task[t].newest, got)
           after == Left(task[t], best, heard)
<1>1. TypeOK /\ TaskIsSound(t) /\ ListIsSound(t)
    BY DEF ReadsInv
<1>2. /\ task[t].pc = "wait" /\ s \in Requests /\ task[s].pc = "answered" /\ got # NotFound
      /\ task' = [task EXCEPT ![s] = Idle, ![t] = after]
    BY <1>1 DEF Succeed, Resumes, TypeOK, Task
<1>3. s # t /\ task[t] \in Task /\ task[t].todo # <<>> /\ IsActive(t) /\ IsActive(s)
    BY <1>1, <1>2 DEF TypeOK, TaskIsSound, IsActive, Active
<1>4. ~task[s].client /\ task[s].node = Host(t)
      /\ (task[t].listed /\ task[t].node = Host(t) => task[s].listed)
    BY <1>2, <1>3 DEF ReadsInv, LinksAreSound, LinkIsSound
<1>5. Host(t) \in Nodes /\ best \in Result /\ heard \subseteq Nodes
    BY <1>1, <1>2, <1>3, HostIsNode DEF TypeOK, Task, Newest, Result
<1>6. /\ after \in Task
      /\ after.pc = Next1(Tail(task[t].todo)) /\ after.todo = Tail(task[t].todo)
      /\ after.callee = Nobody /\ after.newest = best /\ after.heard = heard
      /\ after.node = task[t].node /\ after.key = task[t].key
      /\ after.client = task[t].client /\ after.listed = task[t].listed
      /\ after.late = task[t].late
    BY <1>3, <1>5, LeftTask
<1> HIDE DEF s, after
<1>7. /\ task' \in [Requests -> Task] /\ task'[t] = after /\ task'[s] = Idle
      /\ \A u \in Requests \ {t, s} : task'[u] = task[u]
    BY <1>1, <1>2, <1>3, <1>6, IdleIsTask DEF TypeOK
<1>8. TypeOK'
    <2>1. task[t].node \in Nodes /\ GroupOf[Host(t)] \in Groups
        BY <1>1, <1>3, <1>5, ReplicaAssumption DEF TaskIsSound
    <2>2. lock' \in [Nodes -> [Groups -> Requests \cup {Nobody}]]
        BY <1>1, <2>1 DEF Succeed, SetLock, TypeOK
    <2> QED BY <1>1, <1>7, <2>2 DEF Succeed, storage, TypeOK
<1>9. after.pc \in {"enter", "local"} /\ (after.pc = "enter" <=> after.todo # <<>>)
    BY <1>6 DEF Next1
<1>10. IsActive(t)' /\ UNCHANGED kNodes /\ UNCHANGED storage
    BY <1>7, <1>9 DEF IsActive, Active, Succeed
<1>11. Moves(t)
    BY <1>3, <1>6, <1>7, <1>9, <1>10 DEF Moves
<1>12. TaskIsSound(t)'
    BY <1>1, <1>3, <1>6, <1>7, <1>9, <1>10 DEF TaskIsSound
<1>13. ListIsSound(t)'
    <2>1. task[t].listed => task[t].node # Host(t)
        BY <1>2, <1>4 DEF ReadsInv, NoAnswerFromListedNodes
    <2>2. task[t].todo \in Seq(Nodes)
        BY <1>3 DEF Task
    <2>3. task[t].listed /\ ~task[t].late => task[t].node \in Range(Tail(task[t].todo))
        BY <1>1, <1>3, <2>1, <2>2, RangeOfTail DEF ListIsSound, Host
    <2> QED BY <1>1, <1>6, <1>7, <1>10, <2>3 DEF ListIsSound
<1>14. \A u \in Requests : task'[u].callee # s
    <2>1. Idle.callee = Nobody /\ Nobody \notin Requests
        BY ReplicaAssumption DEF Idle
    <2>2. \A u \in Requests \ {t} : task[u].callee # s
        BY <1>2, <2>1 DEF ReadsInv, LinksAreSound, CalleesDiffer, s
    <2> QED BY <1>2, <1>6, <1>7, <2>1, <2>2
<1>15. \A c \in Requests : Grows(c) /\ SeenIsSound(c)'
    <2>1. ~Idle.client
        BY DEF Idle
    <2> QED BY <1>6, <1>7, <1>10, <2>1, StorageStays
<1>16. ASSUME NEW origin \in [Requests -> Requests \cup {Nobody}], IsOrigin(origin),
              origin[t] # Nobody
       PROVE  Knows(t, origin[t])'
    <2> DEFINE c == origin[t]
    <2>1. c \in Requests /\ Knows(t, c) /\ Knows(s, c)
        BY <1>2, <1>16 DEF IsOrigin, s
    <2>2. c # s /\ task'[c].client = task[c].client /\ task'[c].key = task[c].key
        BY <1>4, <1>6, <1>7, <2>1 DEF Knows
    <2>3. UNCHANGED <<seen, held>>
        BY <1>10 DEF storage
    <2>4. /\ Rank(got) \in Nat /\ Rank(task[t].newest) \in Nat
          /\ \A n \in Nodes : held[c][n] \in Nat
          /\ task[t].heard \subseteq Nodes
        BY <1>1, <1>2, <1>3, <2>1, RankIsNat DEF TypeOK, Task, Result
    <2>5. Rank(best) >= Rank(got) /\ Rank(best) >= Rank(task[t].newest) /\ Rank(best) \in Nat
        BY <2>4 DEF Newest
    <2>6. \A n \in heard : Rank(best) >= held[c][n]
        <3> SUFFICES ASSUME NEW n \in heard PROVE Rank(best) >= held[c][n]
            OBVIOUS
        <3>1. CASE n = Host(t)
            <4>1. Rank(got) >= held[c][n]
                BY <1>2, <1>4, <2>1, <3>1 DEF Knows
            <4> QED BY <1>5, <2>4, <2>5, <3>1, <4>1
        <3>2. CASE n \in task[t].heard
            <4>1. Rank(task[t].newest) >= held[c][n]
                BY <2>1, <3>2 DEF Knows
            <4> QED BY <2>4, <2>5, <3>2, <4>1
        <3> QED BY <3>1, <3>2
    <2>7. best \in seen[c] \cup {NotFound}
        BY <1>2, <2>1 DEF Knows, Newest
    <2>8. task'[t].key = task'[c].key
        BY <1>3, <1>6, <1>7, <2>1, <2>2 DEF Knows
    <2> QED BY <1>6, <1>7, <1>9, <2>1, <2>2, <2>3, <2>6, <2>7, <2>8 DEF Knows
<1>17. task'[t].pc # "answered"
    BY <1>7, <1>9
<1> QED BY <1>2, <1>4, <1>7, <1>8, <1>10, <1>11, <1>12, <1>13, <1>14, <1>15, <1>16, <1>17,
           TwoMovesKeep

\* An attempt that ends leaves what has been heard; a host that is given up makes the
\* task late.
AfterAttempt(t) ==
    IF MoreAttempts(t) THEN [task[t] EXCEPT !.attempt = @ + 1, !.callee = Nobody]
    ELSE GivenUp(task[t])

LEMMA AttemptEnds ==
    ASSUME TypeOK, NEW t \in Requests, task[t].pc = "wait", task[t].todo # <<>>
    PROVE  LET y == AfterAttempt(t)
           IN  /\ y \in Task
               /\ y.pc \in {"enter", "wait", "local"}
               /\ y.pc \in {"enter", "wait"} <=> y.todo # <<>>
               /\ y.callee = Nobody /\ y.newest = task[t].newest /\ y.heard = task[t].heard
               /\ y.node = task[t].node /\ y.key = task[t].key
               /\ y.client = task[t].client /\ y.listed = task[t].listed
               /\ y.late \/ (y.todo = task[t].todo /\ y.late = task[t].late)
<1>1. task[t] \in Task
    BY DEF TypeOK
<1>2. CASE MoreAttempts(t)
    <2> DEFINE y == [task[t] EXCEPT !.attempt = @ + 1, !.callee = Nobody]
    <2>1. task[t].attempt + 1 \in 0..Attempts
        <3>1. task[t].attempt \in 0..Attempts /\ task[t].attempt < Attempts
            BY <1>1, <1>2 DEF Task, MoreAttempts
        <3> QED BY <3>1, ReplicaAssumption
    <2>2. y \in Task
        BY <1>1, <2>1 DEF Task
    <2>3. /\ y.pc = "wait" /\ y.todo = task[t].todo /\ y.callee = Nobody
          /\ y.newest = task[t].newest /\ y.heard = task[t].heard
          /\ y.node = task[t].node /\ y.key = task[t].key
          /\ y.client = task[t].client /\ y.listed = task[t].listed
          /\ y.late = task[t].late
        BY <1>1 DEF Task
    <2>4. AfterAttempt(t) = y
        BY <1>2 DEF AfterAttempt
    <2> HIDE DEF y
    <2> QED BY <2>2, <2>3, <2>4
<1>3. CASE ~MoreAttempts(t)
    <2> DEFINE x == task[t]
               y == Left(x, x.newest, x.heard)
               z == [y EXCEPT !.late = TRUE]
    <2>1. x.newest \in Result /\ x.heard \in SUBSET Nodes
        BY <1>1 DEF Task, Result
    <2>2. /\ y \in Task
          /\ y.pc = Next1(Tail(x.todo)) /\ y.todo = Tail(x.todo)
          /\ y.callee = Nobody /\ y.newest = x.newest /\ y.heard = x.heard
          /\ y.node = x.node /\ y.key = x.key /\ y.client = x.client
          /\ y.listed = x.listed /\ y.late = x.late
        BY <1>1, <2>1, LeftTask
    <2> HIDE DEF y
    <2>3. /\ z \in Task /\ z.late
          /\ z.pc = y.pc /\ z.todo = y.todo /\ z.callee = y.callee /\ z.newest = y.newest
          /\ z.heard = y.heard /\ z.node = y.node /\ z.key = y.key
          /\ z.client = y.client /\ z.listed = y.listed
        BY <2>2 DEF Task
    <2>4. AfterAttempt(t) = z
        BY <1>3 DEF AfterAttempt, GivenUp, y
    <2>5. y.pc \in {"enter", "local"} /\ (y.pc = "enter" <=> y.todo # <<>>)
        BY <2>2 DEF Next1
    <2> HIDE DEF z
    <2> QED BY <2>2, <2>3, <2>4, <2>5
<1> QED BY <1>2, <1>3

LEMMA EndAttemptKeeps ==
    ASSUME ReadsInv, NEW t \in Requests, EndAttempt(t)
    PROVE  ReadsInv'
<1> DEFINE s == task[t].callee
           after == AfterAttempt(t)
<1>1. TypeOK /\ TaskIsSound(t) /\ ListIsSound(t)
    BY DEF ReadsInv
<1>2. task[t].pc = "wait" /\ task[t].todo # <<>> /\ IsActive(t)
    BY <1>1 DEF EndAttempt, Resumes, TaskIsSound, IsActive, Active
<1>3. task' = [r \in Requests |-> CASE r = t -> after
                                    [] r = s /\ IsGone(s) -> Idle
                                    [] OTHER -> task[r]]
    BY DEF EndAttempt, AfterAttempt
<1>4. /\ after \in Task
      /\ after.pc \in {"enter", "wait", "local"}
      /\ after.pc \in {"enter", "wait"} <=> after.todo # <<>>
      /\ after.callee = Nobody /\ after.newest = task[t].newest
      /\ after.heard = task[t].heard
      /\ after.node = task[t].node /\ after.key = task[t].key
      /\ after.client = task[t].client /\ after.listed = task[t].listed
      /\ after.late \/ (after.todo = task[t].todo /\ after.late = task[t].late)
    BY <1>1, <1>2, AttemptEnds
<1> HIDE DEF after
<1>5. task'[t] = after
    <2>1. ~(t = s /\ IsGone(s))
        BY <1>2 DEF IsGone
    <2> QED BY <1>3, <2>1
<1>6. IsGone(s) => s \in Requests /\ s # t /\ task'[s] = Idle /\ ~task[s].client
    <2>1. s \in Requests \cup {Nobody}
        BY <1>1 DEF TypeOK, Task
    <2>2. IsGone(s) => s \in Requests /\ s # t
        BY <1>2, <2>1 DEF IsGone
    <2>3. IsGone(s) => task'[s] = Idle
        BY <1>3, <2>2
    <2>4. IsGone(s) => ~task[s].client
        BY <2>2 DEF ReadsInv, LinksAreSound, LinkIsSound
    <2> QED BY <2>2, <2>3, <2>4
<1>7. \A u \in Requests \ {t, s} : task'[u] = task[u]
    BY <1>3
<1>8. ~IsGone(s) => \A u \in Requests \ {t} : task'[u] = task[u]
    BY <1>3
<1>9. TypeOK'
    <2>1. \A u \in Requests : task[u] \in Task
        BY <1>1 DEF TypeOK
    <2>2. \A u \in Requests : task'[u] \in Task
        BY <1>4, <1>5, <1>6, <1>7, <1>8, <2>1, IdleIsTask
    <2>3. task' \in [Requests -> Task]
        BY <1>3, <2>2
    <2>4. task[t].node \in Nodes /\ GroupOf[Host(t)] \in Groups
        BY <1>1, <1>2, HostIsNode, ReplicaAssumption DEF TaskIsSound
    <2>5. lock' = lock \/ SetLock(t, Nobody)
        BY DEF EndAttempt
    <2>6. lock' \in [Nodes -> [Groups -> Requests \cup {Nobody}]]
        <3>1. CASE lock' = lock
            BY <1>1, <3>1 DEF TypeOK
        <3>2. CASE SetLock(t, Nobody)
            BY <1>1, <2>4, <3>2 DEF SetLock, TypeOK
        <3> QED BY <2>5, <3>1, <3>2
    <2> QED BY <1>1, <2>3, <2>6 DEF EndAttempt, storage, TypeOK
<1>10. IsActive(t)' /\ UNCHANGED kNodes /\ UNCHANGED storage
    BY <1>4, <1>5 DEF IsActive, Active, EndAttempt
<1>11. Moves(t)
    BY <1>2, <1>4, <1>5, <1>10 DEF Moves
<1>12. TaskIsSound(t)'
    BY <1>1, <1>2, <1>4, <1>5, <1>10 DEF TaskIsSound
<1>13. ListIsSound(t)'
    BY <1>1, <1>4, <1>5, <1>10 DEF ListIsSound
<1>14. \A c \in Requests : Grows(c) /\ SeenIsSound(c)'
    <2>1. ~Idle.client
        BY DEF Idle
    <2>2. \A c \in Requests : task'[c].client => task[c].client /\ task'[c].key = task[c].key
        BY <1>4, <1>5, <1>6, <1>7, <1>8, <2>1
    <2> QED BY <1>10, <2>2, StorageStays
<1>15. ASSUME NEW origin \in [Requests -> Requests \cup {Nobody}], IsOrigin(origin),
              origin[t] # Nobody
       PROVE  Knows(t, origin[t])'
    <2>1. Knows(t, origin[t]) /\ origin[t] \in Requests
        BY <1>15 DEF IsOrigin
    <2>2. task'[origin[t]].client = task[origin[t]].client
          /\ task'[origin[t]].key = task[origin[t]].key
        BY <1>4, <1>5, <1>6, <1>7, <1>8, <2>1 DEF Knows
    <2>3. UNCHANGED <<seen, held>>
        BY <1>10 DEF storage
    <2> QED BY <1>2, <1>4, <1>5, <2>1, <2>2, <2>3 DEF Knows
<1>16. task'[t].pc # "answered"
    BY <1>4, <1>5
<1>17. CASE IsGone(s)
    <2>1. \A u \in Requests : task'[u].callee # s
        <3>1. Idle.callee = Nobody /\ Nobody \notin Requests
            BY ReplicaAssumption DEF Idle
        <3>2. \A u \in Requests \ {t} : task[u].callee # s
            BY <1>6, <1>17, <3>1 DEF ReadsInv, LinksAreSound, CalleesDiffer
        <3> QED BY <1>4, <1>5, <1>6, <1>7, <1>17, <3>1, <3>2
    <2> QED BY <1>6, <1>7, <1>9, <1>10, <1>11, <1>12, <1>13, <1>14, <1>15, <1>16, <1>17,
               <2>1, TwoMovesKeep
<1>18. CASE ~IsGone(s)
    BY <1>8, <1>9, <1>10, <1>11, <1>12, <1>13, <1>14, <1>15, <1>16, <1>18, OneMoveKeeps
<1> QED BY <1>17, <1>18

\* The answer of a task that knows enough: more than it has heard of, and than its node
\* has held.
AnswerKnown(t, c, result) ==
    /\ result \in seen'[c]
    /\ \A n \in task[t].heard \cup {task[t].node} : Rank(result) >= held'[c][n]

LEMMA AnswerTask ==
    ASSUME ReadsInv, NEW t \in Requests, task[t].pc \in {"local", "repair"},
           NEW result \in Result, Answer(t, result)
    PROVE  /\ task' \in [Requests -> Task] /\ \A u \in Requests \ {t} : task'[u] = task[u]
           /\ task'[t].callee = Nobody /\ task'[t].client = task[t].client
           /\ \/ /\ task[t].client \/ ~task[t].late
                 /\ task'[t].pc = "answered" /\ task'[t].node = task[t].node
                 /\ task'[t].key = task[t].key /\ task'[t].todo = <<>>
                 /\ task'[t].heard = task[t].heard /\ task'[t].listed = task[t].listed
                 /\ task'[t].late = task[t].late /\ task'[t].newest = result
              \/ /\ task'[t] = Idle
                 /\ \A u \in Requests : task'[u].callee # t
              \/ task'[t] = [Idle EXCEPT !.pc = "expired"]
<1>1. /\ task[t] \in Task /\ task[t].todo = <<>> /\ task[t].callee = Nobody
      /\ task[t].client \in BOOLEAN /\ TypeOK
    <2>1. TypeOK /\ TaskIsSound(t)
        BY DEF ReadsInv
    <2>2. task[t] \in Task
        BY <2>1 DEF TypeOK
    <2> QED BY <2>1, <2>2 DEF Task, TaskIsSound
<1> DEFINE given == [task[t] EXCEPT !.pc = "answered", !.newest = result]
           gone == [Idle EXCEPT !.pc = "expired"]
<1>2. /\ given \in Task
      /\ given.pc = "answered" /\ given.node = task[t].node /\ given.key = task[t].key
      /\ given.todo = <<>> /\ given.heard = task[t].heard /\ given.listed = task[t].listed
      /\ given.late = task[t].late /\ given.newest = result /\ given.callee = Nobody
      /\ given.client = task[t].client
    BY <1>1 DEF Task, Result
<1>3. Idle \in Task /\ gone \in Task
    BY IdleIsTask DEF Task
<1>4. Idle.callee = Nobody /\ gone.callee = Nobody /\ Idle.client = FALSE /\ gone.client = FALSE
    BY DEF Idle
<1> DEFINE waits == Awaited(t)
           answers == task[t].client \/ (waits /\ ~task[t].late)
           expires == ~task[t].client /\ waits /\ task[t].late
<1>5. task' = [task EXCEPT ![t] = CASE answers -> given [] expires -> gone [] OTHER -> Idle]
    BY DEF Answer
<1>6. ~waits => \A u \in Requests : task[u].callee # t
    BY DEF Awaited
<1> HIDE DEF given, gone, waits
<1>7. CASE answers
    <2>1. task' = [task EXCEPT ![t] = given]
        BY <1>5, <1>7
    <2> QED BY <1>1, <1>2, <1>7, <2>1 DEF TypeOK
<1>8. CASE expires
    <2>1. task' = [task EXCEPT ![t] = gone]
        BY <1>5, <1>8
    <2>2. task[t].client = FALSE
        BY <1>1, <1>8
    <2> QED BY <1>1, <1>3, <1>4, <2>1, <2>2 DEF TypeOK, gone
<1>9. CASE ~answers /\ ~expires
    <2>1. task' = [task EXCEPT ![t] = Idle]
        BY <1>5, <1>9
    <2>2. task[t].client = FALSE /\ ~waits
        BY <1>1, <1>9
    <2>3. Nobody \notin Requests
        BY ReplicaAssumption
    <2> HIDE DEF Idle
    <2>4. /\ task' \in [Requests -> Task] /\ task'[t] = Idle
          /\ \A u \in Requests \ {t} : task'[u] = task[u]
        BY <1>1, <1>3, <2>1 DEF TypeOK
    <2>5. \A u \in Requests : task'[u].callee # t
        BY <1>4, <1>6, <2>2, <2>3, <2>4
    <2> QED BY <1>4, <2>2, <2>4, <2>5
<1> QED BY <1>7, <1>8, <1>9

LEMMA AnswerKeeps ==
    ASSUME ReadsInv, TypeOK', UNCHANGED kNodes, NEW t \in Requests,
           task[t].pc \in {"local", "repair"}, NEW result \in Result, Answer(t, result),
           \A c \in Requests : Grows(c) /\ SeenIsSound(c)',
           \A c \in Requests : Knows(t, c) => AnswerKnown(t, c, result)
    PROVE  ReadsInv'
<1> DEFINE gone == [Idle EXCEPT !.pc = "expired"]
<1>1. TaskIsSound(t) /\ ListIsSound(t) /\ IsActive(t)
    BY DEF ReadsInv, IsActive, Active
<1>2. task[t].listed => task[t].late
    <2>1. task[t].todo = <<>>
        BY <1>1 DEF TaskIsSound
    <2>2. task[t].node \notin Range(task[t].todo)
        BY <2>1 DEF Range
    <2> QED BY <1>1, <2>2 DEF ListIsSound
<1>3. /\ \A u \in Requests \ {t} : task'[u] = task[u]
      /\ task'[t].callee = Nobody /\ task'[t].client = task[t].client
      /\ \/ /\ task[t].client \/ ~task[t].late
            /\ task'[t].pc = "answered" /\ task'[t].node = task[t].node
            /\ task'[t].key = task[t].key /\ task'[t].todo = <<>>
            /\ task'[t].heard = task[t].heard /\ task'[t].listed = task[t].listed
            /\ task'[t].late = task[t].late /\ task'[t].newest = result
         \/ /\ task'[t] = Idle
            /\ \A u \in Requests : task'[u].callee # t
         \/ task'[t] = gone
    BY AnswerTask
<1>4. CASE task'[t].pc = "answered"
    <2>1. /\ task[t].client \/ ~task[t].late
          /\ task'[t].node = task[t].node
          /\ task'[t].key = task[t].key /\ task'[t].todo = <<>>
          /\ task'[t].heard = task[t].heard /\ task'[t].listed = task[t].listed
          /\ task'[t].late = task[t].late /\ task'[t].newest = result
        BY <1>3, <1>4 DEF Idle
    <2>2. IsActive(t)'
        BY <1>4 DEF IsActive, Active
    <2>3. Moves(t)
        BY <1>1, <1>3, <1>4, <2>1, <2>2 DEF Moves
    <2>4. TaskIsSound(t)' /\ ListIsSound(t)'
        BY <1>1, <1>2, <1>3, <1>4, <2>1, <2>2 DEF TaskIsSound, ListIsSound
    <2>5. ~task'[t].client => ~task'[t].listed
        BY <1>2, <1>3, <2>1
    <2>6. ASSUME NEW origin \in [Requests -> Requests \cup {Nobody}], IsOrigin(origin),
                 origin[t] # Nobody
          PROVE  Knows(t, origin[t])'
        <3>1. Knows(t, origin[t]) /\ origin[t] \in Requests
            BY <2>6 DEF IsOrigin
        <3>2. AnswerKnown(t, origin[t], result)
            BY <3>1
        <3>3. task'[origin[t]].client /\ task'[origin[t]].key = task[origin[t]].key
            BY <1>3, <2>1, <3>1 DEF Knows
        <3> QED BY <1>1, <2>1, <3>1, <3>2, <3>3 DEF Knows, AnswerKnown
    <2> QED BY <1>3, <2>3, <2>4, <2>5, <2>6, OneMoveKeeps
<1>5. CASE task'[t] \in {Idle, gone}
    <2> DEFINE x == task'[t]
    <2>1. /\ x.pc \in {"idle", "expired"} /\ ~x.client /\ x.callee = Nobody /\ ~x.listed
          /\ x.todo = <<>> /\ x.newest = NotFound /\ x.heard = {}
          /\ x = [Idle EXCEPT !.pc = x.pc]
        <3>1. CASE x = Idle
            <4>1. /\ Idle.pc = "idle" /\ ~Idle.client /\ Idle.callee = Nobody
                  /\ ~Idle.listed /\ Idle.todo = <<>> /\ Idle.newest = NotFound
                  /\ Idle.heard = {} /\ [Idle EXCEPT !.pc = Idle.pc] = Idle
                BY DEF Idle
            <4> HIDE DEF x, Idle
            <4> QED BY <3>1, <4>1
        <3>2. CASE x = gone
            BY <3>2 DEF Idle
        <3> QED BY <1>5, <3>1, <3>2
    <2>2. ~IsActive(t)'
        BY <2>1 DEF IsActive, Active
    <2>3. task'[t].pc = "idle" => \A u \in Requests : task'[u].callee # t
        BY <1>3, <1>5 DEF Idle
    <2>4. Moves(t)
        BY <1>3, <2>2, <2>3 DEF Moves
    <2>5. TaskIsSound(t)' /\ ListIsSound(t)'
        BY <2>1, <2>2 DEF TaskIsSound, ListIsSound
    <2>6. ASSUME NEW origin \in [Requests -> Requests \cup {Nobody}], IsOrigin(origin),
                 origin[t] # Nobody
          PROVE  Knows(t, origin[t])'
        <3>1. Knows(t, origin[t]) /\ origin[t] \in Requests
            BY <2>6 DEF IsOrigin
        <3>2. task'[origin[t]].client
            BY <1>3, <3>1 DEF Knows
        <3> QED BY <2>1, <2>2, <3>2 DEF Knows
    <2> QED BY <1>3, <2>1, <2>4, <2>5, <2>6, OneMoveKeeps
<1> QED BY <1>3, <1>4, <1>5

LEMMA ObserveKeeps ==
    ASSUME ReadsInv, Observe, memory' \in [Nodes -> Table], files' \in [Nodes -> Table],
           \A c \in Requests : task'[c].client => task[c].client /\ task'[c].key = task[c].key
    PROVE  /\ seen' \in [Requests -> SUBSET Result]
           /\ held' \in [Requests -> [Nodes -> Nat]]
           /\ \A c \in Requests : Grows(c) /\ SeenIsSound(c)'
<1> DEFINE Now(n, k) == ReportedBy(memory'[n][k], files'[n][k])
<1>1. \A n \in Nodes, k \in Keys : Now(n, k) \in Result /\ Rank(Now(n, k)) \in Nat
    BY ReportedIsResult, RankIsNat DEF Table
<1>2. /\ seen \in [Requests -> SUBSET Result] /\ held \in [Requests -> [Nodes -> Nat]]
      /\ \A c \in Requests : task[c].client => task[c].key \in Keys
    BY ClientIsActive DEF ReadsInv, TypeOK, Result, TaskIsSound
<1>3. /\ seen' = [t \in Requests |->
                     seen[t] \cup {Now(n, task[t].key) : n \in {m \in Nodes :
                                       t \in {s \in Requests : task[s].client}}}]
      /\ held' = [t \in Requests |-> [n \in Nodes |->
                     IF /\ t \in {s \in Requests : task[s].client}
                        /\ Rank(Now(n, task[t].key)) < held[t][n]
                     THEN Rank(Now(n, task[t].key)) ELSE held[t][n]]]
    BY DEF Observe
<1>4. \A n \in Nodes, k \in Keys : Reported(n, k)' = Now(n, k)
    BY DEF Reported
<1> HIDE DEF Now
<1>5. ASSUME NEW c \in Requests
      PROVE  /\ seen[c] \subseteq seen'[c] /\ seen'[c] \subseteq Result
             /\ task[c].client => \A n \in Nodes : Now(n, task[c].key) \in seen'[c]
    <2>1. seen'[c] = seen[c] \cup {Now(n, task[c].key) : n \in {m \in Nodes :
                                       c \in {s \in Requests : task[s].client}}}
        BY <1>3
    <2> QED BY <1>1, <1>2, <2>1
<1>6. ASSUME NEW c \in Requests, NEW n \in Nodes
      PROVE  /\ held'[c][n] \in Nat /\ held'[c][n] \leq held[c][n]
             /\ task[c].client => held'[c][n] \leq Rank(Now(n, task[c].key))
    <2>1. held'[c][n] = IF /\ c \in {s \in Requests : task[s].client}
                           /\ Rank(Now(n, task[c].key)) < held[c][n]
                        THEN Rank(Now(n, task[c].key)) ELSE held[c][n]
        BY <1>3
    <2>2. held[c][n] \in Nat
        BY <1>2
    <2>3. task[c].client => Rank(Now(n, task[c].key)) \in Nat
        BY <1>1, <1>2
    <2> QED BY <2>1, <2>2, <2>3
<1>7. seen' \in [Requests -> SUBSET Result]
    BY <1>3, <1>5
<1>8. held' \in [Requests -> [Nodes -> Nat]]
    <2>1. \A c \in Requests : held'[c] \in [Nodes -> Nat]
        BY <1>3, <1>6
    <2> QED BY <1>3, <2>1
<1>9. \A c \in Requests : Grows(c)
    BY <1>5, <1>6 DEF Grows
<1>10. \A c \in Requests : SeenIsSound(c)'
    BY <1>2, <1>4, <1>5, <1>6 DEF SeenIsSound
<1> QED BY <1>7, <1>8, <1>9, <1>10

LEMMA StoreObserves ==
    ASSUME ReadsInv, NEW n \in Nodes, NEW k \in Keys, NEW entry \in Entry, Store(n, k, entry)
    PROVE  Observe /\ memory' \in [Nodes -> Table] /\ files' \in [Nodes -> Table]
<1>1. memory \in [Nodes -> Table] /\ files \in [Nodes -> Table]
    BY DEF ReadsInv, TypeOK
<1>2. CASE memory' = memory
    BY <1>1, <1>2 DEF Store
<1>3. CASE memory' = [memory EXCEPT ![n][k] = entry]
    BY <1>1, <1>3 DEF Store, Table
<1> QED BY <1>2, <1>3 DEF Store

LEMMA ReadLocalKeeps ==
    ASSUME ReadsInv, NEW t \in Requests, ReadLocal(t)
    PROVE  ReadsInv'
<1> DEFINE local == Reported(task[t].node, task[t].key)
           newest == task[t].newest
<1>1. /\ TypeOK /\ TaskIsSound(t) /\ ListIsSound(t) /\ task[t].pc = "local"
      /\ UNCHANGED <<kNodes, storage, lock, calls>>
    BY DEF ReadsInv, ReadLocal
<1>2. task[t].node \in Nodes /\ task[t].key \in Keys /\ IsActive(t)
    BY <1>1 DEF TaskIsSound, IsActive, Active
<1>3. /\ local \in Result /\ newest \in Result /\ task[t] \in Task
      /\ Rank(local) \in Nat /\ Rank(newest) \in Nat /\ task[t].heard \subseteq Nodes
    BY <1>1, <1>2, NodesReport, RankIsNat DEF TypeOK, Task, Result
<1>4. ASSUME NEW c \in Requests, Knows(t, c)
      PROVE  /\ local \in seen[c] /\ held[c][task[t].node] \leq Rank(local)
             /\ \A n \in Nodes : held[c][n] \in Nat
    <2>1. SeenIsSound(c) /\ task[c].client /\ task[t].key = task[c].key
        BY <1>2, <1>4 DEF ReadsInv, Knows
    <2> QED BY <1>1, <1>2, <2>1 DEF SeenIsSound, TypeOK
<1> HIDE DEF local
<1>5. CASE IsOlder(local, newest)
    <2> DEFINE after == [task[t] EXCEPT !.pc = "repair"]
    <2>1. /\ after \in Task
          /\ after.pc = "repair" /\ after.node = task[t].node /\ after.key = task[t].key
          /\ after.client = task[t].client /\ after.todo = task[t].todo
          /\ after.callee = task[t].callee /\ after.heard = task[t].heard
          /\ after.listed = task[t].listed /\ after.late = task[t].late
          /\ after.newest = newest
        BY <1>3 DEF Task
    <2>2. task' = [task EXCEPT ![t] = after]
        BY <1>5 DEF ReadLocal, local
    <2> HIDE DEF after
    <2>3. /\ task' \in [Requests -> Task] /\ task'[t] = after
          /\ \A u \in Requests \ {t} : task'[u] = task[u]
        BY <1>1, <2>1, <2>2 DEF TypeOK
    <2>4. TypeOK'
        BY <1>1, <2>3 DEF storage, TypeOK
    <2>5. IsActive(t)' /\ task[t].callee = Nobody /\ newest # NotFound
        <3>1. newest # NotFound
            BY <1>3, <1>5 DEF IsOlder, Rank
        <3> QED BY <1>1, <2>1, <2>3, <3>1 DEF IsActive, Active, TaskIsSound
    <2>6. Moves(t)
        BY <1>2, <2>1, <2>3, <2>5 DEF Moves
    <2>7. TaskIsSound(t)' /\ ListIsSound(t)'
        BY <1>1, <1>2, <2>1, <2>3, <2>5 DEF TaskIsSound, ListIsSound
    <2>8. \A c \in Requests : Grows(c) /\ SeenIsSound(c)'
        BY <1>1, <2>1, <2>3, StorageStays
    <2>9. ASSUME NEW origin \in [Requests -> Requests \cup {Nobody}], IsOrigin(origin),
                 origin[t] # Nobody
          PROVE  Knows(t, origin[t])'
        <3> DEFINE c == origin[t]
        <3>1. Knows(t, c) /\ c \in Requests
            BY <2>9 DEF IsOrigin
        <3>2. task'[c].client /\ task'[c].key = task[c].key
            BY <2>1, <2>3, <3>1 DEF Knows
        <3>3. UNCHANGED <<seen, held>>
            BY <1>1 DEF storage
        <3>4. Rank(newest) >= held[c][task[t].node]
            <4>1. Rank(local) < Rank(newest)
                BY <1>5 DEF IsOlder
            <4> QED BY <1>2, <1>3, <1>4, <3>1, <4>1
        <3> HIDE DEF c
        <3>5. Knows(t, c)'
            BY <1>2, <2>1, <2>3, <3>1, <3>2, <3>3, <3>4 DEF Knows
        <3> QED BY <3>5 DEF c
    <2>10. task'[t].pc # "answered" /\ UNCHANGED kNodes
        BY <1>1, <2>1, <2>3
    <2> QED BY <2>3, <2>4, <2>6, <2>7, <2>8, <2>9, <2>10, OneMoveKeeps
<1>6. CASE ~IsOlder(local, newest)
    <2>1. Answer(t, local)
        BY <1>6 DEF ReadLocal, local
    <2>2. /\ task' \in [Requests -> Task]
          /\ \A u \in Requests \ {t} : task'[u] = task[u]
          /\ task'[t].client => task[t].client /\ task'[t].key = task[t].key
        BY <1>1, <1>3, <2>1, AnswerTask DEF Idle
    <2>3. TypeOK' /\ UNCHANGED kNodes
        BY <1>1, <2>2 DEF storage, TypeOK
    <2>4. \A c \in Requests : Grows(c) /\ SeenIsSound(c)'
        BY <1>1, <2>2, StorageStays
    <2>5. ASSUME NEW c \in Requests, Knows(t, c)
          PROVE  AnswerKnown(t, c, local)
        <3>1. UNCHANGED <<seen, held>>
            BY <1>1 DEF storage
        <3>2. \A n \in task[t].heard : Rank(newest) >= held[c][n]
            BY <2>5 DEF Knows
        <3>3. Rank(local) >= Rank(newest)
            BY <1>3, <1>6 DEF IsOlder
        <3>4. \A n \in task[t].heard \cup {task[t].node} : Rank(local) >= held[c][n]
            BY <1>2, <1>3, <1>4, <2>5, <3>2, <3>3
        <3> QED BY <1>4, <2>5, <3>1, <3>4 DEF AnswerKnown
    <2> QED BY <1>1, <1>3, <2>1, <2>3, <2>4, <2>5, AnswerKeeps
<1> QED BY <1>5, <1>6

LEMMA RepairKeeps ==
    ASSUME ReadsInv, NEW t \in Requests, Repair(t)
    PROVE  ReadsInv'
<1> DEFINE newest == task[t].newest
<1>1. /\ TypeOK /\ TaskIsSound(t) /\ task[t].pc = "repair"
      /\ UNCHANGED <<kNodes, writes, lock, calls>> /\ Answer(t, newest)
    BY DEF ReadsInv, Repair, Resumes
<1>2. task[t].node \in Nodes /\ task[t].key \in Keys /\ newest # NotFound
    BY <1>1 DEF TaskIsSound, IsActive, Active
<1>3. newest \in Result /\ newest \in Entry /\ task[t].heard \subseteq Nodes
    <2>1. newest \in DTO
        BY <1>1, <1>2 DEF TypeOK, Task
    <2>2. newest \in Entry
        BY <2>1, ReplicaAssumption DEF DTO, Entry
    <2> QED BY <1>1, <2>1, <2>2 DEF Result, TypeOK, Task
<1>4. /\ task' \in [Requests -> Task]
      /\ \A u \in Requests \ {t} : task'[u] = task[u]
      /\ task'[t].client => task[t].client /\ task'[t].key = task[t].key
    BY <1>1, <1>3, AnswerTask DEF Idle
<1>5. /\ memory' \in [Nodes -> Table] /\ files' \in [Nodes -> Table]
      /\ seen' \in [Requests -> SUBSET Result] /\ held' \in [Requests -> [Nodes -> Nat]]
      /\ \A c \in Requests : Grows(c) /\ SeenIsSound(c)'
    <2>1. CASE Store(task[t].node, task[t].key, newest)
        <3>1. Observe /\ memory' \in [Nodes -> Table] /\ files' \in [Nodes -> Table]
            BY <1>2, <1>3, <2>1, StoreObserves
        <3> QED BY <1>4, <3>1, ObserveKeeps
    <2>2. CASE UNCHANGED <<memory, files, seen, held>>
        <3>1. UNCHANGED storage
            BY <1>1, <2>2 DEF storage
        <3>2. \A c \in Requests : Grows(c) /\ SeenIsSound(c)'
            BY <1>4, <3>1, StorageStays
        <3> QED BY <1>1, <2>2, <3>2 DEF TypeOK, Result
    <2> QED BY <2>1, <2>2 DEF Repair
<1>6. TypeOK'
    BY <1>1, <1>4, <1>5 DEF TypeOK, Result
<1>7. ASSUME NEW c \in Requests, Knows(t, c)
      PROVE  AnswerKnown(t, c, newest)
    <2>1. newest \in seen'[c]
        BY <1>2, <1>5, <1>7 DEF Knows, Grows
    <2>2. \A n \in task[t].heard \cup {task[t].node} : Rank(newest) >= held[c][n]
        BY <1>1, <1>7 DEF Knows
    <2>3. \A n \in Nodes : held[c][n] \in Nat /\ held'[c][n] \in Nat /\ held'[c][n] \leq held[c][n]
        BY <1>1, <1>5 DEF TypeOK, Grows
    <2>4. Rank(newest) \in Nat
        BY <1>3, RankIsNat
    <2>5. \A n \in task[t].heard \cup {task[t].node} : Rank(newest) >= held'[c][n]
        BY <1>2, <1>3, <2>2, <2>3, <2>4
    <2> QED BY <2>1, <2>5 DEF AnswerKnown
<1>8. task[t].pc \in {"local", "repair"} /\ UNCHANGED kNodes
    BY <1>1
<1> QED BY <1>1, <1>3, <1>5, <1>6, <1>7, <1>8, AnswerKeeps

-----------------------------------------------------------------------------
(* The steps of the nodes and of clients *)

LEMMA NobodyMoves ==
    ASSUME ReadsInv, TypeOK', UNCHANGED <<kNodes, task>>,
           \A c \in Requests : Grows(c) /\ SeenIsSound(c)'
    PROVE  ReadsInv'
<1> DEFINE M == {}
<1>1. /\ M \in SUBSET Requests /\ \A m \in M : FALSE
      /\ \A u \in Requests \ M : task'[u] = task[u]
    OBVIOUS
<1> HIDE DEF M
<1> QED BY <1>1, MovesKeep

LEMMA WriteKeeps ==
    ASSUME ReadsInv, NEW n \in Nodes, Write(n)
    PROVE  ReadsInv'
<1>1. PICK k \in Keys, entry \in Entry : Store(n, k, entry)
    BY DEF Write
<1>2. Observe /\ memory' \in [Nodes -> Table] /\ files' \in [Nodes -> Table]
    BY <1>1, StoreObserves
<1>3. UNCHANGED <<kNodes, lock, task, calls>>
    BY DEF Write
<1>4. /\ seen' \in [Requests -> SUBSET Result] /\ held' \in [Requests -> [Nodes -> Nat]]
      /\ \A c \in Requests : Grows(c) /\ SeenIsSound(c)'
    BY <1>2, <1>3, ObserveKeeps
<1>5. writes' \in 0..MaxWrites
    <2>1. writes \in 0..MaxWrites /\ writes < MaxWrites /\ writes' = writes + 1
        BY DEF Write, ReadsInv, TypeOK
    <2> QED BY <2>1, ReplicaAssumption
<1>6. TypeOK'
    BY <1>2, <1>3, <1>4, <1>5 DEF ReadsInv, TypeOK, Result
<1> QED BY <1>3, <1>4, <1>6, NobodyMoves

LEMMA SwapKeeps ==
    ASSUME ReadsInv, NEW n \in Nodes, Swap(n)
    PROVE  ReadsInv'
<1>1. Observe /\ UNCHANGED <<kNodes, writes, lock, task, calls>>
    BY DEF Swap
<1>2. memory' \in [Nodes -> Table] /\ files' \in [Nodes -> Table]
    BY DEF Swap, Table, EmptyTable, ReadsInv, TypeOK
<1>3. /\ seen' \in [Requests -> SUBSET Result] /\ held' \in [Requests -> [Nodes -> Nat]]
      /\ \A c \in Requests : Grows(c) /\ SeenIsSound(c)'
    BY <1>1, <1>2, ObserveKeeps
<1>4. TypeOK'
    BY <1>1, <1>2, <1>3 DEF ReadsInv, TypeOK, Result
<1> QED BY <1>1, <1>3, <1>4, NobodyMoves

LEMMA DiscoverKeeps ==
    ASSUME ReadsInv, NEW n \in Nodes, Discover(n)
    PROVE  ReadsInv'
<1>1. PICK list \in NodeLists :
          /\ kNodes' = [kNodes EXCEPT ![n] = list]
          /\ task' = [t \in Requests |->
                         IF task[t].node = n
                         THEN [task[t] EXCEPT !.listed = @ /\ n \in Range(list)] ELSE task[t]]
    BY DEF Discover
<1>2. TypeOK /\ UNCHANGED <<storage, lock, calls>>
    BY DEF ReadsInv, Discover
<1>3. ASSUME NEW t \in Requests
      PROVE  /\ task'[t] \in Task
             /\ task'[t].pc = task[t].pc /\ task'[t].node = task[t].node
             /\ task'[t].key = task[t].key /\ task'[t].client = task[t].client
             /\ task'[t].todo = task[t].todo /\ task'[t].callee = task[t].callee
             /\ task'[t].heard = task[t].heard /\ task'[t].late = task[t].late
             /\ task'[t].newest = task[t].newest
             /\ task'[t].listed <=>
                    task[t].listed /\ (task[t].node = n => n \in Range(list))
             /\ task[t].node # n => task'[t] = task[t]
    <2>1. task[t] \in Task
        BY <1>2 DEF TypeOK
    <2>2. CASE task[t].node = n
        <3> DEFINE listed == task[t].listed /\ n \in Range(list)
        <3>1. task'[t] = [task[t] EXCEPT !.listed = listed]
            BY <1>1, <2>2
        <3>2. listed \in BOOLEAN
            OBVIOUS
        <3> HIDE DEF listed
        <3>3. task'[t] \in Task
            BY <2>1, <3>1, <3>2 DEF Task
        <3>4. task'[t].listed = listed
            BY <2>1, <3>1 DEF Task
        <3>5. task'[t].listed <=> task[t].listed /\ n \in Range(list)
            BY <3>4, Zenon DEF listed
        <3> QED BY <2>1, <2>2, <3>1, <3>3, <3>5 DEF Task
    <2>3. CASE task[t].node # n
        <3>1. task'[t] = task[t]
            BY <1>1, <2>3
        <3> QED BY <2>1, <2>3, <3>1
    <2> QED BY <2>2, <2>3
<1>4. TypeOK'
    <2>1. task' \in [Requests -> Task]
        BY <1>1, <1>3
    <2>2. kNodes' \in [Nodes -> NodeLists]
        BY <1>1, <1>2 DEF TypeOK
    <2> QED BY <1>2, <2>1, <2>2 DEF storage, TypeOK
<1>5. ASSUME NEW t \in Requests PROVE TaskIsSound(t)' /\ ListIsSound(t)'
    <2>1. TaskIsSound(t) /\ ListIsSound(t)
        BY DEF ReadsInv
    <2>2. IsActive(t)' = IsActive(t)
        BY <1>3 DEF IsActive
    <2>3. ~IsActive(t) => task'[t] = task[t]
        <3>1. ~IsActive(t) => task[t].node = Nobody
            BY <2>1 DEF TaskIsSound, Idle
        <3>2. Nobody # n
            BY ReplicaAssumption
        <3> QED BY <1>3, <3>1, <3>2
    <2>4. TaskIsSound(t)'
        BY <1>3, <2>1, <2>2, <2>3 DEF TaskIsSound
    <2>5. kNodes'[n] = list /\ \A m \in Nodes \ {n} : kNodes'[m] = kNodes[m]
        BY <1>1, <1>2 DEF TypeOK
    <2>6. task[t].node \in Nodes \cup {Nobody}
        BY <1>2 DEF TypeOK, Task
    <2>7. task[t].listed => task[t].node \in Nodes
        BY <2>1, <2>6 DEF TaskIsSound, Idle
    <2>8. ListIsSound(t)'
        BY <1>3, <2>1, <2>5, <2>7 DEF ListIsSound
    <2> QED BY <2>4, <2>8
<1>6. LinksAreSound'
    <2>1. CalleesDiffer'
        BY <1>3 DEF ReadsInv, LinksAreSound, CalleesDiffer
    <2>2. ASSUME NEW t \in Requests, NEW s \in Requests
          PROVE  LinkIsSound(t, s)'
        <3>1. LinkIsSound(t, s)
            BY DEF ReadsInv, LinksAreSound
        <3>2. Host(t)' = Host(t) /\ IsActive(s)' = IsActive(s)
            BY <1>3 DEF Host, IsActive
        <3> QED BY <1>3, <3>1, <3>2 DEF LinkIsSound
    <2> QED BY <2>1, <2>2 DEF LinksAreSound
<1>7. \A c \in Requests : Grows(c) /\ SeenIsSound(c)'
    BY <1>2, <1>3, StorageStays
<1>8. OriginsExist'
    <2>1. PICK origin \in [Requests -> Requests \cup {Nobody}] : IsOrigin(origin)
        BY DEF ReadsInv, OriginsExist
    <2>2. ASSUME NEW t \in Requests, NEW c \in Requests, origin[t] = c
          PROVE  Knows(t, c)'
        <3>1. Knows(t, c) /\ TaskIsSound(t) /\ Grows(c) /\ task[c].client
            BY <1>7, <2>1, <2>2 DEF IsOrigin, ReadsInv, Knows
        <3>2. task'[c].client /\ task'[c].key = task[c].key
            BY <1>3, <3>1
        <3> QED BY <1>2, <1>3, <1>4, <3>1, <3>2, KnowsMore
    <2>3. IsOrigin(origin)'
        BY <1>3, <2>1, <2>2 DEF IsOrigin
    <2> QED BY <2>3 DEF OriginsExist
<1>9. NoAnswerFromListedNodes'
    BY <1>3 DEF ReadsInv, NoAnswerFromListedNodes
<1> QED BY <1>4, <1>5, <1>6, <1>7, <1>8, <1>9 DEF ReadsInv

LEMMA GetKeeps ==
    ASSUME ReadsInv, NEW t \in Requests, NEW n \in Nodes, NEW k \in Keys, Get(t, n, k)
    PROVE  ReadsInv'
<1> DEFINE after == Started(n, k, TRUE, kNodes[n])
<1>1. /\ TypeOK /\ task[t] = Idle
      /\ UNCHANGED <<kNodes, memory, files, writes, lock>>
      /\ task' = [task EXCEPT ![t] = after]
      /\ seen' = [seen EXCEPT ![t] = {Reported(h, k) : h \in Nodes}]
      /\ held' = [held EXCEPT ![t] = [h \in Nodes |-> Rank(Reported(h, k))]]
    BY DEF ReadsInv, Get
<1>2. /\ Idle.pc = "idle" /\ ~Idle.client
      /\ Nobody \notin Requests /\ kNodes[n] \in Seq(Nodes)
    BY <1>1, ReplicaAssumption DEF Idle, TypeOK
<1>3. /\ after \in Task
      /\ after.pc = Next1(kNodes[n]) /\ after.node = n /\ after.key = k /\ after.client
      /\ after.todo = kNodes[n] /\ after.callee = Nobody /\ after.heard = {} /\ ~after.late
      /\ (after.listed <=> n \in Range(kNodes[n])) /\ after.newest = NotFound
    <2>1. after \in Task
        BY <1>2, StartedTask
    <2>2. after.pc = Next1(kNodes[n]) /\ after.todo = kNodes[n]
        BY DEF Started, Idle
    <2>3. /\ after.node = n /\ after.key = k /\ after.client
          /\ (after.listed <=> n \in Range(kNodes[n]))
        BY DEF Started, Idle
    <2>4. after.callee = Nobody /\ after.heard = {} /\ ~after.late /\ after.newest = NotFound
        BY DEF Started, Idle
    <2> QED BY <2>1, <2>2, <2>3, <2>4
<1>4. after.pc \in {"enter", "local"} /\ (after.pc = "enter" <=> after.todo # <<>>)
    BY <1>3 DEF Next1
<1> HIDE DEF after, Idle
<1>5. /\ task' \in [Requests -> Task] /\ task'[t] = after
      /\ \A u \in Requests \ {t} : task'[u] = task[u]
    BY <1>1, <1>3 DEF TypeOK
<1>6. /\ \A h \in Nodes : Reported(h, k) \in Result /\ Rank(Reported(h, k)) \in Nat
      /\ \A h \in Nodes : Reported(h, k)' = Reported(h, k)
    BY <1>1, NodesReport, RankIsNat DEF Reported
<1>7. /\ seen'[t] = {Reported(h, k) : h \in Nodes}
      /\ \A u \in Requests \ {t} : seen'[u] = seen[u]
      /\ seen' \in [Requests -> SUBSET Result]
    BY <1>1, <1>6 DEF TypeOK, Result
<1>8. /\ held'[t] = [h \in Nodes |-> Rank(Reported(h, k))]
      /\ \A u \in Requests \ {t} : held'[u] = held[u]
      /\ held' \in [Requests -> [Nodes -> Nat]]
    BY <1>1, <1>6 DEF TypeOK
<1>9. calls' \in 0..MaxCalls
    <2>1. calls \in 0..MaxCalls /\ calls < MaxCalls /\ calls' = calls + 1
        BY <1>1 DEF Get, TypeOK
    <2> QED BY <2>1, ReplicaAssumption
<1>10. TypeOK'
    BY <1>1, <1>5, <1>7, <1>8, <1>9 DEF TypeOK, Result
<1>11. IsActive(t)'
    BY <1>4, <1>5 DEF IsActive, Active
<1>12. ASSUME NEW u \in Requests PROVE TaskIsSound(u)' /\ ListIsSound(u)' /\ SeenIsSound(u)'
    <2>1. CASE u = t
        <3>1. TaskIsSound(t)'
            BY <1>3, <1>4, <1>5, <1>11 DEF TaskIsSound
        <3>2. ListIsSound(t)'
            BY <1>1, <1>3, <1>5 DEF ListIsSound
        <3>3. \A h \in Nodes : Rank(Reported(h, k)) \leq Rank(Reported(h, k))
            BY <1>6
        <3>4. SeenIsSound(t)'
            BY <1>3, <1>5, <1>6, <1>7, <1>8, <3>3 DEF SeenIsSound
        <3> QED BY <2>1, <3>1, <3>2, <3>4
    <2>2. CASE u # t
        <3>1. /\ TaskIsSound(u) /\ ListIsSound(u) /\ SeenIsSound(u)
              /\ task'[u] = task[u] /\ seen'[u] = seen[u] /\ held'[u] = held[u]
            BY <1>5, <1>7, <1>8, <2>2 DEF ReadsInv
        <3>2. TaskIsSound(u)' /\ ListIsSound(u)'
            BY <1>1, <3>1 DEF TaskIsSound, ListIsSound, IsActive
        <3>3. \A h \in Nodes : Reported(h, task[u].key)' = Reported(h, task'[u].key)
            BY <1>1, <3>1 DEF Reported
        <3>4. SeenIsSound(u)'
            BY <1>1, <3>1, <3>3 DEF SeenIsSound, Reported
        <3> QED BY <3>2, <3>4
    <2> QED BY <2>1, <2>2
<1>13. \A u \in Requests : task'[u].callee # t /\ task[u].callee # t
    BY <1>1, <1>2, <1>3, <1>5 DEF ReadsInv, LinksAreSound, LinkIsSound
<1>14. LinksAreSound'
    <2>1. CalleesDiffer'
        BY <1>3, <1>5 DEF ReadsInv, LinksAreSound, CalleesDiffer
    <2>2. ASSUME NEW u \in Requests, NEW s \in Requests, task'[u].callee = s
          PROVE  LinkIsSound(u, s)'
        <3>1. u # t /\ s # t /\ task'[u] = task[u] /\ task'[s] = task[s]
            BY <1>2, <1>3, <1>5, <1>13, <2>2
        <3>2. LinkIsSound(u, s) /\ Host(u)' = Host(u) /\ IsActive(s)' = IsActive(s)
            BY <3>1 DEF ReadsInv, LinksAreSound, Host, IsActive
        <3> QED BY <3>1, <3>2 DEF LinkIsSound
    <2>3. \A u \in Requests, s \in Requests : LinkIsSound(u, s)'
        BY <2>2 DEF LinkIsSound
    <2> QED BY <2>1, <2>3 DEF LinksAreSound
<1>15. OriginsExist'
    <2>1. PICK origin \in [Requests -> Requests \cup {Nobody}] : IsOrigin(origin)
        BY DEF ReadsInv, OriginsExist
    <2> DEFINE other == [origin EXCEPT ![t] = t]
    <2>2. /\ other \in [Requests -> Requests \cup {Nobody}] /\ other[t] = t
          /\ \A u \in Requests \ {t} : other[u] = origin[u]
        BY <2>1
    <2> HIDE DEF other
    <2>3. ASSUME NEW u \in Requests, NEW c \in Requests, other[u] = c
          PROVE  Knows(u, c)'
        <3>1. CASE u = t
            BY <1>3, <1>4, <1>5, <2>2, <2>3, <3>1 DEF Knows
        <3>2. CASE u # t
            <4>1. Knows(u, c)
                BY <2>1, <2>2, <2>3, <3>2 DEF IsOrigin
            <4>2. c # t
                BY <1>1, <1>2, <4>1 DEF Knows
            <4>3. /\ task'[u] = task[u] /\ task'[c] = task[c]
                  /\ seen'[c] = seen[c] /\ held'[c] = held[c]
                BY <1>5, <1>7, <1>8, <3>2, <4>2
            <4>4. IsActive(u)' = IsActive(u)
                BY <4>3 DEF IsActive
            <4> QED BY <4>1, <4>3, <4>4 DEF Knows
        <3> QED BY <3>1, <3>2
    <2>4. \A u \in Requests : task'[u].client => other[u] = u
        BY <1>5, <2>1, <2>2 DEF IsOrigin
    <2>5. \A u \in Requests, s \in Requests : task'[u].callee = s => other[s] = other[u]
        BY <1>2, <1>3, <1>5, <1>13, <2>1, <2>2 DEF IsOrigin
    <2>6. IsOrigin(other)'
        BY <2>3, <2>4, <2>5 DEF IsOrigin
    <2> QED BY <2>2, <2>6 DEF OriginsExist
<1>16. NoAnswerFromListedNodes'
    BY <1>3, <1>5 DEF ReadsInv, NoAnswerFromListedNodes
<1> QED BY <1>10, <1>12, <1>14, <1>15, <1>16 DEF ReadsInv

LEMMA ServeKeeps ==
    ASSUME ReadsInv, NEW t \in Requests, NEW s \in Requests, Serve(t, s)
    PROVE  ReadsInv'
<1> DEFINE n == Host(t)
           k == task[t].key
           begun == Started(n, k, FALSE, kNodes[n])
           asking == [task[t] EXCEPT !.callee = s]
<1>1. /\ TypeOK /\ TaskIsSound(t) /\ ListIsSound(t)
      /\ task[t].pc = "wait" /\ task[t].callee = Nobody /\ task[s] = Idle
      /\ UNCHANGED <<kNodes, storage, lock, calls>>
    BY DEF ReadsInv, Serve
<1>2. Idle.pc = "idle" /\ ~Idle.client /\ Idle.callee = Nobody /\ Nobody \notin Requests
    BY ReplicaAssumption DEF Idle
<1>3. /\ s # t /\ task[t] \in Task /\ task[t].todo # <<>> /\ IsActive(t)
      /\ n \in Nodes /\ k \in Keys /\ task[t].node \in Nodes
    <2>1. s # t /\ task[t] \in Task /\ task[t].todo # <<>> /\ IsActive(t)
        BY <1>1, <1>2 DEF TypeOK, TaskIsSound, IsActive, Active
    <2> QED BY <1>1, <2>1, HostIsNode DEF TaskIsSound
<1>4. kNodes[n] \in Seq(Nodes)
    BY <1>1, <1>3, ReplicaAssumption DEF TypeOK
<1>5. task' = [task EXCEPT ![t] = asking, ![s] = begun]
    BY DEF Serve
<1> HIDE DEF n, k
<1>6. /\ begun \in Task
      /\ begun.pc = Next1(kNodes[n]) /\ begun.node = n /\ begun.key = k /\ ~begun.client
      /\ begun.todo = kNodes[n] /\ begun.callee = Nobody /\ begun.heard = {} /\ ~begun.late
      /\ (begun.listed <=> n \in Range(kNodes[n])) /\ begun.newest = NotFound
    <2>1. begun \in Task
        BY <1>3, <1>4, StartedTask
    <2>2. begun.pc = Next1(kNodes[n]) /\ begun.todo = kNodes[n]
        BY DEF Started, Idle
    <2>3. /\ begun.node = n /\ begun.key = k /\ ~begun.client
          /\ (begun.listed <=> n \in Range(kNodes[n]))
        BY DEF Started, Idle
    <2>4. begun.callee = Nobody /\ begun.heard = {} /\ ~begun.late /\ begun.newest = NotFound
        BY DEF Started, Idle
    <2> QED BY <2>1, <2>2, <2>3, <2>4
<1>7. /\ asking \in Task
      /\ asking.pc = "wait" /\ asking.node = task[t].node /\ asking.key = k
      /\ asking.client = task[t].client /\ asking.todo = task[t].todo
      /\ asking.callee = s /\ asking.heard = task[t].heard
      /\ asking.listed = task[t].listed /\ asking.late = task[t].late
      /\ asking.newest = task[t].newest
    BY <1>1, <1>3 DEF Task, k
<1>8. begun.pc \in {"enter", "local"} /\ (begun.pc = "enter" <=> begun.todo # <<>>)
    BY <1>6 DEF Next1
<1> HIDE DEF begun, asking, Idle
<1>9. /\ task' \in [Requests -> Task] /\ task'[t] = asking /\ task'[s] = begun
      /\ \A u \in Requests \ {t, s} : task'[u] = task[u]
    BY <1>1, <1>3, <1>5, <1>6, <1>7 DEF TypeOK
<1>10. TypeOK'
    BY <1>1, <1>9 DEF storage, TypeOK
<1>11. IsActive(t)' /\ IsActive(s)'
    BY <1>7, <1>8, <1>9 DEF IsActive, Active
<1>12. \A c \in Requests : Grows(c) /\ SeenIsSound(c)'
    BY <1>1, <1>6, <1>7, <1>9, StorageStays DEF k
<1>13. ASSUME NEW u \in Requests PROVE TaskIsSound(u)' /\ ListIsSound(u)'
    <2>1. CASE u = t
        <3>1. TaskIsSound(t)'
            BY <1>1, <1>3, <1>7, <1>9, <1>11 DEF TaskIsSound
        <3>2. ListIsSound(t)'
            BY <1>1, <1>7, <1>9 DEF ListIsSound
        <3> QED BY <2>1, <3>1, <3>2
    <2>2. CASE u = s
        <3>1. TaskIsSound(s)'
            BY <1>3, <1>6, <1>8, <1>9, <1>11 DEF TaskIsSound
        <3>2. ListIsSound(s)'
            BY <1>1, <1>6, <1>9 DEF ListIsSound
        <3> QED BY <2>2, <3>1, <3>2
    <2>3. CASE u \notin {t, s}
        <3>1. TaskIsSound(u) /\ ListIsSound(u) /\ task'[u] = task[u]
            BY <1>9, <2>3 DEF ReadsInv
        <3> QED BY <1>1, <3>1 DEF TaskIsSound, ListIsSound, IsActive
    <2> QED BY <2>1, <2>2, <2>3
<1>14. \A u \in Requests : task[u].callee # s
    BY <1>1, <1>2 DEF ReadsInv, LinksAreSound, LinkIsSound
<1>15. LinksAreSound'
    <2>1. CalleesDiffer'
        BY <1>6, <1>7, <1>9, <1>14 DEF ReadsInv, LinksAreSound, CalleesDiffer
    <2>2. ASSUME NEW u \in Requests, NEW r \in Requests, task'[u].callee = r
          PROVE  LinkIsSound(u, r)'
        <3>1. CASE u = t
            <4>1. r = s /\ Host(t)' = n
                BY <1>7, <1>9, <2>2, <3>1 DEF Host, n
            <4>2. task[t].listed /\ task[t].node = n => n \in Range(kNodes[n])
                BY <1>1 DEF ListIsSound
            <4> QED BY <1>6, <1>7, <1>8, <1>9, <3>1, <4>1, <4>2 DEF LinkIsSound
        <3>2. CASE u # t
            <4>1. u # s /\ task'[u] = task[u] /\ task[u].callee = r /\ r # s
                BY <1>2, <1>6, <1>9, <1>14, <2>2, <3>2
            <4>2. LinkIsSound(u, r) /\ Host(u)' = Host(u)
                BY <4>1 DEF ReadsInv, LinksAreSound, Host
            <4>3. CASE r = t
                <5>1. LinkIsSound(u, t) /\ task[u].callee = t
                    BY <4>1, <4>2, <4>3
                <5>2. /\ ~task[t].client /\ task[t].node = Host(u) /\ k = task[u].key
                      /\ task[u].listed /\ task[u].node = Host(u) => task[t].listed
                    BY <1>3, <5>1 DEF LinkIsSound, k
                <5> QED BY <1>7, <1>9, <4>1, <4>2, <4>3, <5>2 DEF LinkIsSound
            <4>4. CASE r # t
                <5>1. task'[r] = task[r] /\ IsActive(r)' = IsActive(r)
                    BY <1>9, <4>1, <4>4 DEF IsActive
                <5> QED BY <4>1, <4>2, <5>1 DEF LinkIsSound
            <4> QED BY <4>3, <4>4
        <3> QED BY <3>1, <3>2
    <2>3. \A u \in Requests, r \in Requests : LinkIsSound(u, r)'
        BY <2>2 DEF LinkIsSound
    <2> QED BY <2>1, <2>3 DEF LinksAreSound
<1>16. OriginsExist'
    <2>1. PICK origin \in [Requests -> Requests \cup {Nobody}] : IsOrigin(origin)
        BY DEF ReadsInv, OriginsExist
    <2> DEFINE other == [origin EXCEPT ![s] = origin[t]]
    <2>2. /\ other \in [Requests -> Requests \cup {Nobody}]
          /\ other[s] = origin[t] /\ other[t] = origin[t]
          /\ \A u \in Requests \ {s} : other[u] = origin[u]
        BY <1>3, <2>1
    <2> HIDE DEF other
    <2>3. ASSUME NEW u \in Requests, NEW c \in Requests, other[u] = c
          PROVE  Knows(u, c)'
        <3>1. c # s /\ task[c].client
            <4>1. \E r \in Requests : origin[r] = c
                BY <2>2, <2>3
            <4> QED BY <1>1, <1>2, <2>1, <4>1 DEF IsOrigin, Knows
        <3>2. /\ task'[c].client /\ task'[c].key = task[c].key
              /\ seen'[c] = seen[c] /\ held'[c] = held[c]
            BY <1>1, <1>7, <1>9, <3>1 DEF storage, k
        <3>3. CASE u = s
            <4>1. Knows(t, c)
                BY <2>1, <2>2, <2>3, <3>3 DEF IsOrigin
            <4>2. k = task[c].key
                BY <1>3, <4>1 DEF Knows, k
            <4> QED BY <1>6, <1>8, <1>9, <3>2, <3>3, <4>2 DEF Knows
        <3>4. CASE u = t
            <4>1. Knows(t, c)
                BY <2>1, <2>2, <2>3, <3>4 DEF IsOrigin
            <4>2. k = task[c].key
                BY <1>3, <4>1 DEF Knows, k
            <4> QED BY <1>7, <1>9, <3>2, <3>4, <4>1, <4>2 DEF Knows
        <3>5. CASE u \notin {s, t}
            <4>1. Knows(u, c) /\ task'[u] = task[u]
                BY <1>9, <2>1, <2>2, <2>3, <3>5 DEF IsOrigin
            <4>2. IsActive(u)' = IsActive(u)
                BY <4>1 DEF IsActive
            <4> QED BY <3>2, <4>1, <4>2 DEF Knows
        <3> QED BY <3>3, <3>4, <3>5
    <2>4. \A u \in Requests : task'[u].client => other[u] = u
        BY <1>6, <1>7, <1>9, <2>1, <2>2 DEF IsOrigin
    <2>5. ASSUME NEW u \in Requests, NEW r \in Requests, task'[u].callee = r
          PROVE  other[r] = other[u]
        <3>1. CASE u = t
            BY <1>7, <1>9, <2>2, <2>5, <3>1
        <3>2. CASE u # t
            BY <1>2, <1>6, <1>9, <1>14, <2>1, <2>2, <2>5, <3>2 DEF IsOrigin
        <3> QED BY <3>1, <3>2
    <2>6. IsOrigin(other)'
        BY <2>3, <2>4, <2>5 DEF IsOrigin
    <2> QED BY <2>2, <2>6 DEF OriginsExist
<1>17. NoAnswerFromListedNodes'
    BY <1>7, <1>8, <1>9 DEF ReadsInv, NoAnswerFromListedNodes
<1> QED BY <1>10, <1>12, <1>13, <1>15, <1>16, <1>17 DEF ReadsInv

LEMMA ReturnKeeps ==
    ASSUME ReadsInv, NEW t \in Requests, Return(t)
    PROVE  ReadsInv'
<1>1. /\ TypeOK /\ TaskIsSound(t) /\ task[t].pc = "answered" /\ task[t].client
      /\ UNCHANGED <<kNodes, memory, files, writes, lock, calls>>
      /\ task' = [task EXCEPT ![t] = Idle]
      /\ seen' = [seen EXCEPT ![t] = {}]
      /\ held' = [held EXCEPT ![t] = [n \in Nodes |-> 0]]
    BY DEF ReadsInv, Return
<1>2. /\ Idle.pc = "idle" /\ ~Idle.client /\ Idle.callee = Nobody /\ ~Idle.listed
      /\ Idle.todo = <<>> /\ Idle.newest = NotFound
      /\ [Idle EXCEPT !.pc = Idle.pc] = Idle /\ Nobody \notin Requests
    BY ReplicaAssumption DEF Idle
<1> HIDE DEF Idle
<1>3. /\ task' \in [Requests -> Task] /\ task'[t] = Idle
      /\ \A u \in Requests \ {t} : task'[u] = task[u]
    BY <1>1, IdleIsTask DEF TypeOK
<1>4. /\ seen' \in [Requests -> SUBSET Result] /\ held' \in [Requests -> [Nodes -> Nat]]
      /\ \A u \in Requests \ {t} : seen'[u] = seen[u] /\ held'[u] = held[u]
    BY <1>1 DEF TypeOK, Result
<1>5. TypeOK'
    BY <1>1, <1>3, <1>4 DEF TypeOK, Result
<1>6. ~IsActive(t)'
    BY <1>2, <1>3 DEF IsActive, Active
<1>7. ASSUME NEW u \in Requests PROVE TaskIsSound(u)' /\ ListIsSound(u)' /\ SeenIsSound(u)'
    <2>1. CASE u = t
        BY <1>2, <1>3, <1>6, <2>1 DEF TaskIsSound, ListIsSound, SeenIsSound
    <2>2. CASE u # t
        <3>1. /\ TaskIsSound(u) /\ ListIsSound(u) /\ SeenIsSound(u)
              /\ task'[u] = task[u] /\ seen'[u] = seen[u] /\ held'[u] = held[u]
            BY <1>3, <1>4, <2>2 DEF ReadsInv
        <3>2. TaskIsSound(u)' /\ ListIsSound(u)'
            BY <1>1, <3>1 DEF TaskIsSound, ListIsSound, IsActive
        <3>3. SeenIsSound(u)'
            BY <1>1, <3>1 DEF SeenIsSound, Reported
        <3> QED BY <3>2, <3>3
    <2> QED BY <2>1, <2>2
<1>8. \A u \in Requests : task[u].callee # t /\ task'[u].callee # t
                          /\ task'[u].callee = task[u].callee
    <2>1. task[t].callee = Nobody
        BY <1>1 DEF TaskIsSound
    <2>2. \A u \in Requests : task[u].callee # t
        BY <1>1 DEF ReadsInv, LinksAreSound, LinkIsSound
    <2> QED BY <1>2, <1>3, <2>1, <2>2
<1>9. LinksAreSound'
    <2>1. CalleesDiffer'
        BY <1>8 DEF ReadsInv, LinksAreSound, CalleesDiffer
    <2>2. ASSUME NEW u \in Requests, NEW s \in Requests, task'[u].callee = s
          PROVE  LinkIsSound(u, s)'
        <3>1. u # t /\ s # t /\ task'[u] = task[u] /\ task'[s] = task[s]
            BY <1>2, <1>3, <1>8, <2>2
        <3>2. LinkIsSound(u, s) /\ Host(u)' = Host(u) /\ IsActive(s)' = IsActive(s)
            BY <3>1 DEF ReadsInv, LinksAreSound, Host, IsActive
        <3> QED BY <3>1, <3>2 DEF LinkIsSound
    <2>3. \A u \in Requests, s \in Requests : LinkIsSound(u, s)'
        BY <2>2 DEF LinkIsSound
    <2> QED BY <2>1, <2>3 DEF LinksAreSound
<1>10. OriginsExist'
    <2>1. PICK origin \in [Requests -> Requests \cup {Nobody}] : IsOrigin(origin)
        BY DEF ReadsInv, OriginsExist
    <2> DEFINE other == [u \in Requests |-> IF origin[u] = t THEN Nobody ELSE origin[u]]
    <2>2. /\ other \in [Requests -> Requests \cup {Nobody}]
          /\ \A u \in Requests : other[u] = IF origin[u] = t THEN Nobody ELSE origin[u]
        BY <2>1
    <2> HIDE DEF other
    <2>3. ASSUME NEW u \in Requests, NEW c \in Requests, other[u] = c
          PROVE  Knows(u, c)'
        <3>1. origin[u] = c /\ c # t
            BY <1>2, <2>2, <2>3
        <3>2. Knows(u, c)
            BY <2>1, <3>1 DEF IsOrigin
        <3>3. origin[t] = t
            BY <1>1, <2>1 DEF IsOrigin
        <3>4. u # t
            BY <3>1, <3>3
        <3>5. /\ task'[u] = task[u] /\ task'[c] = task[c]
              /\ seen'[c] = seen[c] /\ held'[c] = held[c]
            BY <1>3, <1>4, <3>1, <3>4
        <3>6. IsActive(u)' = IsActive(u)
            BY <3>5 DEF IsActive
        <3> QED BY <3>2, <3>5, <3>6 DEF Knows
    <2>4. \A u \in Requests : task'[u].client => other[u] = u
        BY <1>2, <1>3, <2>1, <2>2 DEF IsOrigin
    <2>5. \A u \in Requests, s \in Requests : task'[u].callee = s => other[s] = other[u]
        BY <1>8, <2>1, <2>2 DEF IsOrigin
    <2>6. IsOrigin(other)'
        BY <2>3, <2>4, <2>5 DEF IsOrigin
    <2> QED BY <2>2, <2>6 DEF OriginsExist
<1>11. NoAnswerFromListedNodes'
    BY <1>2, <1>3 DEF ReadsInv, NoAnswerFromListedNodes
<1> QED BY <1>5, <1>7, <1>9, <1>10, <1>11 DEF ReadsInv

-----------------------------------------------------------------------------
(* The invariant *)

LEMMA InitHolds == Init => ReadsInv
<1> SUFFICES ASSUME Init PROVE ReadsInv
    OBVIOUS
<1>1. /\ Idle.pc = "idle" /\ ~Idle.client /\ Idle.callee = Nobody /\ ~Idle.listed
      /\ Idle.todo = <<>> /\ Idle.newest = NotFound
      /\ [Idle EXCEPT !.pc = Idle.pc] = Idle /\ Idle \in Task /\ Nobody \notin Requests
    BY IdleIsTask, ReplicaAssumption DEF Idle
<1>2. \A t \in Requests : task[t] = Idle
    BY DEF Init
<1> HIDE DEF Idle
<1>3. TypeOK
    <2>1. kNodes \in [Nodes -> NodeLists]
        BY DEF Init
    <2>2. memory \in [Nodes -> Table] /\ files \in [Nodes -> Table]
        BY ReplicaAssumption DEF Init, Table, EmptyTable
    <2>3. lock \in [Nodes -> [Groups -> Requests \cup {Nobody}]] /\ task \in [Requests -> Task]
        BY <1>1 DEF Init
    <2>4. /\ seen \in [Requests -> SUBSET (DTO \cup {NotFound})]
          /\ held \in [Requests -> [Nodes -> Nat]]
        BY DEF Init
    <2>5. calls \in 0..MaxCalls /\ writes \in 0..MaxWrites
        BY ReplicaAssumption DEF Init
    <2> QED BY <2>1, <2>2, <2>3, <2>4, <2>5 DEF TypeOK
<1>4. ASSUME NEW t \in Requests PROVE TaskIsSound(t) /\ ListIsSound(t) /\ SeenIsSound(t)
    <2>1. ~IsActive(t)
        BY <1>1, <1>2 DEF IsActive, Active
    <2> QED BY <1>1, <1>2, <2>1 DEF TaskIsSound, ListIsSound, SeenIsSound
<1>5. LinksAreSound
    BY <1>1, <1>2 DEF LinksAreSound, CalleesDiffer, LinkIsSound
<1>6. OriginsExist
    <2> DEFINE origin == [t \in Requests |-> Nobody]
    <2>1. /\ origin \in [Requests -> Requests \cup {Nobody}]
          /\ \A t \in Requests : origin[t] = Nobody
        OBVIOUS
    <2> HIDE DEF origin
    <2>2. IsOrigin(origin)
        BY <1>1, <1>2, <2>1 DEF IsOrigin
    <2> QED BY <2>1, <2>2 DEF OriginsExist
<1>7. NoAnswerFromListedNodes
    BY <1>1, <1>2 DEF NoAnswerFromListedNodes
<1> QED BY <1>3, <1>4, <1>5, <1>6, <1>7 DEF ReadsInv

LEMMA StutterKeeps == ASSUME ReadsInv, UNCHANGED vars PROVE ReadsInv'
<1>1. UNCHANGED storage /\ UNCHANGED <<kNodes, task, lock, calls>>
    BY DEF vars
<1>2. \A c \in Requests : Grows(c) /\ SeenIsSound(c)'
    BY <1>1, StorageStays
<1>3. TypeOK'
    BY <1>1 DEF ReadsInv, TypeOK, storage
<1> QED BY <1>1, <1>2, <1>3, NobodyMoves

LEMMA StepKeeps == ReadsInv /\ [Next]_vars => ReadsInv'
<1> SUFFICES ASSUME ReadsInv, [Next]_vars PROVE ReadsInv'
    OBVIOUS
<1>1. ASSUME NEW t \in Requests, Runnable(t) \/ Queued(t) PROVE ReadsInv'
    BY <1>1, VisitKeeps, ReadLocalKeeps, SucceedKeeps, EndAttemptKeeps, RepairKeeps, ReturnKeeps
       DEF Runnable, Queued, AttemptFails
<1>2. ASSUME NEW t \in Requests, NEW n \in Nodes, NEW k \in Keys, Get(t, n, k) PROVE ReadsInv'
    BY <1>2, GetKeeps
<1>3. ASSUME NEW t \in Requests, NEW s \in Requests, Serve(t, s) PROVE ReadsInv'
    BY <1>3, ServeKeeps
<1>4. ASSUME NEW n \in Nodes, Write(n) \/ Swap(n) \/ Discover(n) PROVE ReadsInv'
    BY <1>4, WriteKeeps, SwapKeeps, DiscoverKeeps
<1>5. CASE Stopped \/ UNCHANGED vars
    BY <1>5, StutterKeeps DEF Stopped
<1> QED BY <1>1, <1>2, <1>3, <1>4, <1>5 DEF Next

\* Whatever requests fail, are repeated or given up, each task knows no more than its
\* client has seen, and no less than the nodes it has heard of have held; a node that is
\* in its own list answers nobody but clients (replication.cpp:44-90, 197-221,
\* controllers/get.cpp:8-21).
THEOREM ReadsAreSound == Spec => []ReadsInv
BY InitHolds, StepKeeps, PTL DEF Spec

\* A request is made at most Attempts times, and what is stored and answered is an entry.
THEOREM ReplicaTypeCorrect == Spec => []TypeOK
BY ReadsAreSound, PTL DEF ReadsInv

LEMMA KnowsEnough == ReadsInv => AnswerWasReported /\ AnswerIsNewest
<1> SUFFICES ASSUME ReadsInv, NEW t \in Requests, Answered(t)
             PROVE  /\ task[t].newest \in seen[t]
                    /\ \A n \in task[t].heard \cup {task[t].node} :
                           Rank(task[t].newest) >= held[t][n]
    BY DEF AnswerWasReported, AnswerIsNewest
<1>1. PICK origin \in [Requests -> Requests \cup {Nobody}] : IsOrigin(origin)
    BY DEF ReadsInv, OriginsExist
<1>2. Knows(t, t)
    BY <1>1 DEF IsOrigin, Answered
<1> QED BY <1>2 DEF Knows, Answered

\* What a client is answered, a node has reported since its call.
THEOREM AnswersWereReported == Spec => []AnswerWasReported
BY ReadsAreSound, KnowsEnough, PTL

\* A client is not answered with less than any node has held that has answered, nor than
\* its own node has.
THEOREM AnswersAreNewest == Spec => []AnswerIsNewest
BY ReadsAreSound, KnowsEnough, PTL

\* A node that is in its own list gives no answer to another one.
THEOREM ListedNodesAreSilent == Spec => []NoAnswerFromListedNodes
BY ReadsAreSound, PTL DEF ReadsInv
=============================================================================
