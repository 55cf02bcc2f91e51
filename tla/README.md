# iu9-distributed-db: specification and proofs

TLA+ modules for the storage engine of a node, its recovery after a crash, its
version numbers, the way the nodes of a cluster elect a master, the checks around
a request, and the reads of all nodes; the TLC configurations that check them on
small instances; and theorems about the engine (that it implements a key-value store, among
others), its memory tables, the search and the merge of its files, the version
numbers, the election, the checks around a request and the reads of all nodes, which TLAPS proves
for every value of the constants. `PROJECT.json` lists the runs, the mutants, the
lines each definition stands for, the hazards and the findings.

    tlc -workers 2 -config MCStorageEngine.cfg MCStorageEngine
    tlapm StorageEngineProofs.tla

Paths below are relative to `src/src/stewkk/db/logic/` unless they say otherwise.

## 1. The system

A node serves `Insert`, `Remove` and `Get` over gRPC. Its process runs coroutines
on a pool of threads; strands put the accesses to the log and to the open files
in an order, atomics do so for the memory tables.

| component | state | operations | talks to |
|---|---|---|---|
| views and middlewares (`../views`) | none | one handler per call; refuse a request when the node is not the master or its session has expired, checked before and after | controllers, coordination |
| controllers (`controllers`) | the job guard | `Insert`, `Remove`, `Get`, `TriggerSwapToPersistentStorage`, `SwapToPersistentStorage` | everything below |
| storage system (`storage/storage_system.cpp`) | none | read the old version, write the log, write the memory table; read memory, then files | log, memory tables, collection |
| memory tables (`swappable_memory_storage.cpp`, `inmemory.cpp`) | two maps behind three atomic pointers | `Get`, `Insert`, `Remove`, `Size`, `Collect`, `RemoveCollected` | reference counters |
| reference counters (`synchronization/operations_guard.hpp`) | a counter per pointer | `Add`, `Remove`, spin until zero, delete | memory tables |
| write-ahead log (`recovery/wal_writer.cpp`, `swappable_wal_writer.cpp`) | the open log | `WriteEntry` on a strand, `Swap`, removal of the old log | disk |
| recovery (`recovery/wal_reader.cpp`) | none | `InitializeStorages` | logs, collection |
| persistent tables (`storage/persistent.cpp`) | index, file descriptor and its position | create, load, `Get` (binary search), `ReadEntryAt`, iteration | disk |
| collection and compaction (`persistent_storage_collection.cpp`, `compaction.cpp`) | the open tables, `persistent.metadata` | `Add`, `Get` on a strand, `SwapWith`, `RunCompaction` | persistent tables |
| coordination (`coordination/zookeeper.cpp`) | the handle, four flags and two cached answers | callbacks of requests, watches and sessions | ZooKeeper |
| version numbers (`coordination/global_versioning.cpp`) | an atomic counter | `Generate`, `UpdateMaxVersion` | controllers |
| replication (`replication/replication.cpp`) | a map of clients | send writes, ask all nodes for the newest entry, with retries | other nodes |

What is hard:

* **Interleaving.** A request reads three places (first table, second table,
  files) one after the other while the job moves entries between them; it checks a
  version, logs and stores in three steps with hops between threads; the job frees
  what requests may hold; the merge and the searches share file positions.
* **Crashes.** The swap writes a table, rewrites the metadata in place and removes
  the log; the compaction renames, replaces and removes; the start itself does
  the same again. The process may die between any two of these.
* **Partial failure.** Few results of disk operations are checked, and those that
  are abandon the job in the middle.
* **Order.** Newer tables must be searched first, kept first by the merge and
  listed last; the log and the memory must see the writes in one order.
* **Messages.** Answers and one-shot watches of ZooKeeper arrive late, or not at
  all when a connection breaks; sessions outlive processes and expire under them.
* **Requests between nodes.** A `Get` asks all nodes, each of which asks all nodes; it
  holds the lock of a map while it waits, up to 56 seconds per host; answers are
  late, repeated, or of a version that has changed since.
* **Flags.** The middlewares read flags that the callbacks change at any time, one by
  one, before and after the controller.
* **Boundaries.** Empty logs and empty tables are dereferenced; the thresholds of
  the swap (5, `controllers/controller.cpp:11`), of the compaction (5,
  `compaction.cpp:13`) and of the recovery (5000, `wal_reader.hpp:41`) differ.

What makes the parts correct: a `Get` returns what its key held during the call;
an acknowledged write is found by later reads, and after a restart; what is dropped or
removed has a copy that is already served, resp. already listed; the disk and the
open tables agree; the job never touches what a request uses, gives its guard back
and ends; no node takes itself for the master by a session that is not; a cluster with a node
that is up gets a master, and its nodes learn who it is and who there is; what is
acknowledged as a master's was done by the master; a `Get` is answered with the newest
entry of those it has heard of, and gives back the locks it takes; the version
counter is never behind what it has covered, and returns no number twice.

## 2. Modules

| module | models | state and actions |
|---|---|---|
| `Entries` | keys, values, versions, tombstones, requests | no state; shared by `KVStore`, the engine and `ReplicaReads` |
| `KVStore` | what `StorageSystem` promises: a map on which each write takes effect at one moment and each read returns what the key held during the call | `Invoke`, `Write`, `WriteOvertaken`, `OmitWrite`, `FailWrite`, `Read`, `Return` |
| `StorageEngine` | requests, memory tables, log, files, metadata and the job of a running node | one variable per pointer, file set and program counter; one action per step, named after the operation of the code |
| `CrashRecovery` | `StorageEngine` with a death at any step and `InitializeStorages` | adds the steps of the start, `Die`, `DieBooting` |
| `SwappableStorage` | the memory tables with every load, count, read and spin a step of its own | threads `Get` and `Put`, the job `Collect` and `RemoveCollected` |
| `PersistentTables` | the search and the merge, read by read, through the shared file positions | `SeekFront`, `ReadFront`, `SeekTop`, `ReadTop`; `Call`, `SeekProbe`, `ReadProbe`, `Return` |
| `Versions` | the version counter of a node: `Generate`, the loop of `UpdateMaxVersion`, the write that follows, and what a start takes up | one action per atomic operation; `Write`, `Swap`, `Restart` |
| `ReplicaReads` | a `Get` of a cluster: the handlers of several nodes, their requests to each other with attempts and deadlines, the lock of a group of `host_to_client_`, the threads, and the read repair | one record per coroutine; `Get`, `Visit`, `Serve`, `Succeed`, `AttemptFails`, `ReadLocal`, `Repair`, `Return`; `Write`, `Swap`, `Discover` of the nodes |
| `MasterElection` | the callbacks of `zookeeper.cpp`, with the service and its client library around them | one action per callback and per request served; sessions, watches and messages as the service's state |
| `Handlers` | the middlewares: the checks of the connection and of the master before and after a controller, composed with `MasterElection` | one action per check: `CheckConnection`, `CheckMaster`, `Controller`, `RecheckMaster`, `RecheckConnection` |
| `StorageEngineProofs`, `CrashRecoveryProofs`, `SwappableStorageProofs`, `PersistentTablesProofs`, `VersionsProofs`, `MasterElectionProofs`, `HandlersProofs`, `ReplicaReadsProofs` | lemmas and theorems about the module each is named after | |
| `MC...` | instances for TLC | |

`CrashRecovery` extends `StorageEngine`; `StorageEngine` instantiates `KVStore` with
a refinement mapping (`KV`); `SwappableStorage` and `PersistentTables` take apart
steps that `StorageEngine` has as one; `Handlers` extends `MasterElection` with the
requests, whose controllers are one step there; `ReplicaReads` has the storage of each
node as what `KVStore` promises, with the two places that its results tell apart.

### How the steps are cut

In `StorageEngine` a step ends at each access to shared memory, at each hop to a
strand and at each effect on the disk. Three simplifications are taken back
elsewhere:

* Loading the pointer of a memory table and counting oneself in is one step
  (`TakeFirst`, `TakeSecond`, `TakeWriter`). `SwappableStorage` has two, and shows
  what is lost by that: a use after free, and nothing else as long as none happens.
* A search in the files and a merge are one step each. `PersistentTables` has a
  step per system call, and shows what is lost: they disturb each other.
* `CheckSize` reads both sizes at once. Failures of the job (`GiveUp`) are possible wherever
  the code returns an error.

`CrashRecovery` only has writes (a `Get` leaves nothing behind) and no failing disk
operations besides the deaths. A crash is that of the process: what was flushed
stays. Values are opaque, keys are those of one node, and a request brings its
version, which the views always set (`../views/insert.cpp:10`). A `Get` is the local
one; the peers that `controllers/get.cpp:8` asks first are in `ReplicaReads`.

A log in which a write fails keeps failing (`broken`): the request is refused if the entry
could not be serialized, and acknowledged if only the flush lost it (`recovery/wal_writer.cpp:20-25`). A
metadata list whose flush fails is empty, and one that cannot be read is taken for empty.

**Lost entries.** Of a table the process keeps only the offsets in memory; every search and every
merge reads the entries from the `.data` file (`storage/persistent.cpp:85-100, 148-165`), and
whether they got there is not checked (67, 69). So `WriteFile` may leave any of the
entries out of the file (`lost`), and, independently, the index out of the `.index`, which only the next start
reads. The job goes on in both cases: the table is pushed, the copy in memory is dropped. A Get that
reaches such an entry, its own or another one on the way of the binary search, throws (`persistent.cpp:89, 94`); the
handler rethrows it (`views/rethrow.hpp:10`) and the process dies (`ThrowInGet`). A merge that
reaches one is given up (`compaction.cpp:58`, `CannotMerge`). Which entries a search passes, and
which of them are the end of the file, depends on the order of the keys, which the engine leaves
open: it throws for sure when the entry of the key is gone or all are, may throw when others are
(`Throws`, `MayThrow`). A read that fails although the entry is there is one more fault of `ThrowInGet`.

`FoundInMemory` reports version 0, as `storage_system.cpp:60` does.

`MasterElection` treats the service as external, modelled from how the code uses it:
requests of a session are served in order; a session may expire when its
client is not connected, and its ephemeral nodes go with it; watches fire once; a client
that reconnects is told what its watches missed, as one event; requests whose
answer has not arrived when the connection breaks are answered `ZCONNECTIONLOSS`,
served or not. A handle may connect on its own thread before the code has assigned it
(`MaxRaces`). `kConnected` is only logged and left out.

`ReplicaReads` takes `boost::concurrent_flat_map` from how it is used: `emplace_or_visit` and
`visit` run the request under the lock of the host's group, on which others spin; a
suspended coroutine keeps the lock. The threads are those of `../main.cpp:51-54, 74`: a
coroutine that waits needs none, one that spins keeps one, and what a node waits for is
handled only when a thread is free. Time is not modelled but for what it rules out: who has
given up a host has slept 1 + 2 + 4 + 8 + 16 seconds, and whoever asked it has waited five, so that its
answer is for nobody (`late`, `expired`). Any attempt may fail at any time, which stands
for deadlines, nodes that are down, and refusals of the middlewares. Requests that find no
free coroutine of the model are attempts that fail.

`Versions` has a request as a version, or as none, for which the controllers would call
`Generate`: the views never do. The storage may write the version to the log or not (an entry that is too
old is omitted). Spurious failures of `compare_exchange_weak` are an action of their own.
`Limit` stands for 2^64.

## 3. Runs

Runs that pass, and what they show:

| run | bounds | shows |
|---|---|---|
| `engine` | 1 key, 2 versions, 2 requests at a time, 3 calls, swap at 1 entry, merge at 2 tables | types, the inductive invariant of the proofs, `ReadsCurrent`, `DiskMatchesOpenTables`, and the refinement `ImplementsKVStore` |
| `engineFaults` | 1 key, 2 calls, 2 failing disk operations, fairness | whatever fails, a node answers as `KVStore` allows or dies: an entry that a flush has lost is never answered with an older one or with "not found" (`ImplementsKVStore`); every call returns and the guard is released, unless the process dies |
| `recovery` | 2 keys, 3 calls, swap at 2 entries, logs of more than 1 become tables, 2 deaths, fairness of the start | acknowledged writes are found again outside of the four windows below, also when the start dies; a start ends unless a log is empty |
| `swappable` | 1 reader, 2 writers, 1 key, unbounded swaps, fairness | what is collected is final, no write is lost, no read misses what was in memory; the spin loops end |
| `tables` | all triples of tables over 2 keys with at most 4 entries, fairness | search and merge find the newest entries, and read nothing beyond an end, unless they disturb each other; they end, disturbed or not |
| `election` | 2 nodes, 1 broken connection, 1 early handle, fairness | at most one node takes itself for the master by a living session; the list of the nodes converges |
| `electionCrash` | 2 nodes, 1 death, restarts, fairness | a connected node is the master, watches it, or is about to ask; a master appears; everybody knows it; the list converges |
| `handlers` | 2 nodes, 1 request at a time, a write of a client, 1 broken connection or 1 death | what is acknowledged as a master's was done, and confirmed, by the owner of `/master` (see below) |
| `versions` | 2 writes, numbers 0 to 3, unbounded swaps and restarts, fairness | the counter covers the logs, generates no number twice, and no update loops for ever, until the counter wraps around |
| `replicaReads` | 3 nodes whose list is not set or full, 2 requests, 2 attempts, 1 call, 1 write, 2 versions | what a client is answered was reported by a node during the call, and is not older than what those nodes held that answered it, or its own node |
| `replicaLocks` | 2 nodes, 3 requests, 2 attempts, 2 threads, 1 call, fairness | a node that is in its own list answers no other node; a group of the map is given back, unless every thread of the node spins |

The run that TLC finds violated, a disagreement of the code with one of its tests
(details under `findings`): `recoveryStraddle`, in which an insert that is logged before and stored
after the swap is in neither log nor table after a crash.

Five more properties are stated where they belong and hold in no run; TLC refutes each when it is
added to the run named here, within seconds:

| property | run | what happens |
|---|---|---|
| `RestartServes` | `recovery` | a log without entries kills every start |
| `NoUseAfterFree` | `swappable` | a thread between its load and its count uses a deleted counter |
| `MergeKeepsNewestAlways` | `tables` | a merge whose file position a search has moved writes a table that lacks an entry |
| `MasterKnowsItself` | `election` | the answer to the create is lost: the owner of `/master` refuses every request |
| `OlderIsOmitted` | `replicaReads` | a key that was removed here comes back with the older entry of another node, by the read repair |

**What the passing runs leave out, and why.** Their properties say where they
hold, and the exceptions are what the code does, too:

* `RecoveredOutsideWindows` excludes four windows, which `Die` and `ApplyWrite` of
  `CrashRecovery` record. After each of them an acknowledged write may be gone, which
  TLC shows when the invariant is `RecoveredDespite({w})` for one of them (`logs` when a swap starts at one
  entry, `torn` when moreover any log with an entry becomes a table):
  `straddle` (the finding above), an entry that reaches a table which does not go to disk with the log it is
  in; `reorder`, two writes of a key that reach the log and the
  memory in different orders (`storage/storage_system.cpp:25, 29`); `torn`, a death between
  the truncation of the metadata and the write, which loses all tables
  (`persistent_storage_collection.cpp:42`); `logs`, two small logs, of which a start
  keeps one (`recovery/wal_reader.cpp:151`).
* `engineFaults` says what a node answers while it lives, not that it goes on living: an entry
  lost by a flush is gone from the disk as well, and the first Get that needs it, or an Insert or Remove, which
  begin with a Get, kills the process. `EveryCallReturns` and `GuardIsReleased` end there, as they do at an empty
  table and at a failed rename. A read that fails once only while the merge orders its queue is left out: the
  comparison is taken as false (`compaction.cpp:34-42`), which may put the tables in a wrong order.
* `MergeKeepsNewest`, `GetFindsNewest` and `NothingFails` are about merges and searches that
  have not moved each other's file position. A search that was disturbed misses an
  entry, answers with an older one, or throws. `MergeEnds` and `GetEnds` hold of disturbed
  reads, too, and say nothing of what they yield.
* `RestartEnds` excepts starts that find an empty log, which kills them (`RestartServes`).
* `TakesPart`, `MasterAppears` and `MasterKnown` hold while processes die, not when
  connections break. A node that was disconnected while `/master` changed hands ignores the
  change and watches nothing any more (`coordination/zookeeper.cpp:111`); an answer to
  a create that is lost leaves a master that serves nothing (`MasterKnowsItself`). `OneLiveMaster`
  holds in that case, as it does when a handle connects early: it says that there is no second master, not that
  the one there is knows of it, nor that the requests of a null handle (70) are repeated.
* `NodesConverge` leaves out handles that connect before `kZh` is assigned (70), whose requests
  fail and are not repeated. It is about the list as it is registered: a node that restarts
  before its session has expired takes the old registration for its own (164) and
  drops out of the list with it.
* `DoneByOwner` is about requests during which the session of the node stays the same and
  alive; `ConfirmedByOwner` about the moment at which the flag is read again. A node that is cut off
  goes on acknowledging as a master until it is told that its session has expired, while
  another one may have been elected and acknowledge, too; nothing is sent from one to the
  other. And a whole change of sessions fits between the second check of the master
  (`is_master_middleware.hpp:30`) and that of the connection (`is_expired_middleware.hpp:27`), or between the
  two checks of the flag if the node is elected again: such a write is acknowledged.
  A write that is refused by the second check has been done all the same.
* `NoAnswerFromListedNodes` is what the recursion comes to: a `Get` at a node that is in its own
  list asks that node itself, which asks itself again. The innermost call waits for a lock that the
  one around it holds, or for an answer that nobody gives; it is given up after 31 seconds of delays
  at least, when its caller has long stopped waiting. So what a node contributes to the
  `Get` of another is heard only while its list is not set, or lacks it; in a cluster that has settled, each
  `Get` of a client takes more than half a minute per node and is answered from the node's own entry.
* `LockIsGivenBack` excepts nodes on which every thread spins. TLC reaches one with a single call
  and two threads; each call that holds a group causes up to five nested ones, none of which ends with the deadline
  of its caller, so that more threads only take more time. Such a node handles nothing any more,
  deadlines included.
* `AnswerIsNewest` compares versions as they are reported: 0 for an entry in memory, and a removed key as no entry at
  all. `Repair` stores the newest answer by the same comparison, so that an older entry may replace a tombstone
  or a newer entry in memory (`OlderIsOmitted`), and does not raise the version counter.
* `CounterCoversLogs` and `GeneratesOnce` hold until the counter wraps around, which one write with the
  largest version and one `Generate`, or a restart, bring about. `UpdateMaxVersion` stores the version and not its successor: what `Generate` returns
  may be in use by a write that brought it along. A restart looks at the logs only
  (`recovery/wal_reader.cpp:126, 135`): versions that swaps have moved to tables may be generated again.
* `KVStore` follows the code in that a write on a key that is in memory is never too
  old: its entry is reported with version 0 (`storage/storage_system.cpp:60`), and one with a
  smaller version takes its place.

**Why the bounds are enough.** The interesting cases of the engine need a request
overtaken by a whole swap, and by a merge of two tables: with thresholds of one
three calls give two swaps and a merge while a request is under way; the bounds on
names (`WalIds`, `Paths`) are above what these can use. Faults need one that leaves the
job in the middle and one in what follows: two. A start needs a death
during a swap, and one during the start: two deaths. Reads through three pointers
are covered by unbounded swaps in `SwappableStorage`, whose state is finite without
a bound; keys are independent of each other there, since all that is done to a map is done
to the whole of it, and two writers of one key are what the wait is for. The binary
search takes all of its branches on two entries (the middle is the last one; what is
found is the first, the second or the end), and a queue in which ties can be
ordered wrongly in two ways has three tables.
An election needs one loser and one winner and the loss of either at each step; a request
between its checks meets one change of sessions at a time. The counter needs two
writes, one of which changes what the other has loaded, and four numbers, so that a version
may be below, equal to or beyond the counter and the last number still be reached. Of
three nodes two can answer the third, which has to choose; two attempts have a first
answer that is late for the second; the third level of requests is the first that finds
both threads of a node spinning. All hosts are in one group of the map, as they are in a small
table (15 slots per group, a map of at most 28 entries has two groups).
Symmetry is used for the requests of `engine` and `replicaReads` and for the nodes of `handlers`, whose
properties are safety properties and the refinement, never for liveness properties.
`OneFault` constrains `handlers` to one fault of the two.

`CHECK_DEADLOCK` is on everywhere: where a behaviour is over, an action that says
so (`Halted`, `Done`, `Stopped`, `Died`, `Quiet`) stutters.

**Fairness.** The pool takes every coroutine that is ready from its queue
(`../main.cpp:51-54, 74`), so each request and the job are weakly fair (`FairSpec`); the
threads of `SwappableStorage` are scheduled by the system and none sleeps while it
is counted in. Restarts are fair in `FairRSpec`, as under a supervisor; deaths
never are. In `MasterElection` the library and the service deliver, reconnect and
expire the sessions of dead processes; disconnections, deaths and starts are not
fair, and starts need not happen. In `ReplicaReads` what waits for a thread is strongly fair
(`Queued`: the queue of `grpc_context` is served in order, and a thread that is free now and then
gets to it), a step on a thread weakly. In `Versions` threads run, and the exchange does not fail
spuriously for ever; contention is not assumed away.

**Mutants.** Every property of a passing run is broken by a mutant of a definition
it depends on (`PROJECT.json`, `mutants`; defined beside the original under a
comment `Mutant:`): not waiting for the old writer, passing over a table that cannot be read, collecting the first table,
listing the new table first, searching the oldest table first, keeping the guard
after a failure, clearing nothing when a session expires, reading a flag on one side of the controller only,
storing a version without comparing, taking the last answer for the newest, and so on.

## 4. Proofs

For any sets of keys, values, versions, requests, addresses and names, any thresholds,
any number of calls and of failing disk operations, from `VersionsAssumption`,
`ConstantsAssumption`, `ThresholdsAssumption`, `ResourcesAssumption` and
`NoFileAssumption` (each evaluated by TLC in the runs):

* `TypeCorrect == Spec => []TypeOK` (`StorageEngineProofs`);
* `EngineIsSound == Spec => []EngineInv`, `ReadsAreCurrent == Spec => []ReadsCurrent` (same module): a Get that is answered is
  answered with what its key held during the call, whichever operations fail;
* `EngineImplementsKVStore == Spec => ImplementsKVStore`, the refinement of `KVStore`; an entry lost on the disk ends
  the process, and never changes an answer (same module);
* `JobNeverShows == Spec => [][JobIsHidden]_vars` (same module): after a step of a swap or a compaction, also one that gives
  up, an undisturbed read finds for each key the entry it held before, or throws at a lost entry. As long as no flush has lost entries
  (`NothingLost`), what it may find or throw (`Outcomes`) is the same before and after;
* `DiskIsAsServed == Spec => []DiskMatchesOpenTables` (`CrashRecoveryProofs`);
* `RecoveryTypeCorrect == RSpec => []RecoveryTypeOK` (same module), for any number of deaths and any
  threshold, from `RecoveryAssumption` as well;
* `NothingOwedIsLost == RSpec => [](faults = 0 => RecoveredOutsideWindows)` (same module): deaths in
  any number, until the first disk operation that fails; an unchecked flush loses what it
  acknowledges, and the property is false then. `NothingIsLostWithoutFaults`, its corollary, is
  the property as it stands under `MaxFaults = 0`, the bound of the run `recovery`;
* `RestartedNodesAreSound == RSpec => [](faults = 0 /\ status = "up" => EngineInv)` and
  `RestartedNodesServe == RSpec => [][ServesAsStore]_allVars` (same module): a node that has started again,
  also after a death within a window, keeps to the engine's invariant, and each step it takes while it runs is
  one of `KVStore` or a stutter. What a window loses is lost by the start; nothing is lost later on;

and for any number of writes and any width of the numbers, from `LimitAssumption`
(`VersionsProofs`):

* `VersionsInvariant == Spec => []VersionsInv`, `VersionsTypeCorrect == Spec => []TypeOK`;
* `CounterIsAhead == Spec => []CounterCoversLogs`;
* `GeneratedAreDistinct == Spec => []GeneratesOnce`;
* `CounterOnlyGrows == Spec => [][CounterGrows]_vars`: while the node runs the counter never goes back, except from
  its last number to 0;

for any number of threads, calls and swaps, from `ThreadsAssumption`, `KeysAssumption` and
`AddressesAssumption` (`SwappableStorageProofs`):

* `CountersAreSound == Spec => []SwappableInv`, `SwappableTypeCorrect == Spec => []TypeOK`;
* `CollectedStaysFinal`, `WritesAreKept`, `GetsMissNothing`: `Spec` implies
  `[]CollectedIsFinal`, `[]NoWriteLost`, `[]GetMissesNothing`;

for any number of tables, keys and entries, from `KeysAssumption` and `MarksAssumption`
(`PersistentTablesProofs`):

* `TablesAreSound == Spec => []TablesInv`, `TablesTypeCorrect == Spec => []TypeOK`;
* `SearchesFindNewest`, `MergesKeepNewest`, `ReadsStayInFile`: `Spec` implies
  `[]GetFindsNewest`, `[]MergeKeepsNewest`, `[]NothingFails`;

for any nodes, numbers of sessions, of disconnections and of deaths, from `ElectionAssumption`
(`MasterElectionProofs`), and with the requests from `HandlersAssumption` as well (`HandlersProofs`):

* `ElectionIsSound == Spec => []ElectionInv`, `ElectionTypeCorrect == Spec => []TypeOK`;
* `AtMostOneLiveMaster == Spec => []OneLiveMaster`;
* `ConnectedTakePart == Spec => [](disconnects = 0 => TakesPart)`: until a connection breaks, while nodes
  die and start; with disconnections the property is false of the code. `AllTakePartWhileConnected`, its
  corollary, is the property as it stands under `MaxDisconnects = 0`, the bound of the run `electionCrash`;
* `SessionsOnlyPass == Spec => [][SessionsPass]_vars` (`HandlersProofs`): sessions end for good, and `/master`
  is not taken from one that lives;
* `HandlersKeepElection == HSpec => Spec` and `OneLiveMasterServes == HSpec => []OneLiveMaster`: with the requests
  the election is the same, so its theorems hold there too;
* `HandlersAreSound == HSpec => []HandlersInv`, `HandlersTypeCorrect == HSpec => []HandlersTypeOK`;
* `AcknowledgedIsDoneByOwner`, `AcknowledgedIsConfirmed`: `HSpec` implies `[]DoneByOwner`,
  `[]ConfirmedByOwner`;

for any nodes, lists of them, groups, threads and attempts, from `ReplicaAssumption` with
`VersionsAssumption` and `ConstantsAssumption` (`ReplicaReadsProofs`):

* `ReadsAreSound == Spec => []ReadsInv`, `ReplicaTypeCorrect == Spec => []TypeOK`;
* `AnswersWereReported`, `AnswersAreNewest`, `ListedNodesAreSilent`: `Spec` implies
  `[]AnswerWasReported`, `[]AnswerIsNewest`, `[]NoAnswerFromListedNodes`.

*Why an invariant is needed.* `ReadsCurrent` speaks of answers; whether an answer
will be right is decided while the request is between two of its reads and the job
moves what it has not read yet. `Ahead(r)` states for each program counter what
the places still to be read hold: an entry the key has had since the call (`seen`),
or nothing, and then the next place does. That is kept by the job because
(`TablesInOrder`) the first table is empty while the second is written, and is never
older than it; (`TargetsInUse`) nobody writes the table that is being moved;
(`MovedIsKept`) what is dropped is among the open tables by then, and what replaces
the tables is their merge; (`LogInUse`, `JobHoldsGuard`) there is one job at a time.
The write of a request that was overtaken may be hidden by a table in front of it; then
its entry was never what the key holds for anyone else, which is what `FirstIsNewer`
is for, and what `KVStore` allows as `WriteOvertaken`.

*How it is laid out.* Lemmas on the operators first (`NewestInAppend`,
`NewestInSingle`, `NewMapIsNew`), then one lemma per action or group of actions: steps that
only a request notices (`RequestMoves`), those that change a table
(`WriteMem...`), and one for each step of the job that changes what is read
(`SwitchWriterInv` to `ReplaceCollectionInv`); all others leave the tables alone
(`QuietJobInv`). `NextInv` puts them together, `Invariant` is the temporal step.

*The refinement.* The store of `KVStore` is what `Lookup` finds for each key (`Store`), the stage of a
request follows from its program counter (`Stages`). A step of a request is `Invoke`, `Read`, `OmitWrite`,
`FailWrite`, `Write`, `WriteOvertaken` or `Return` there, or changes neither. The case that
needs the invariant is `WriteMem`: a write is hidden exactly if the table in front holds its key, and then
`FirstIsNewer` says that it has been overtaken, which `WriteOvertaken` demands. `ReadMaps` and
`ReadPersistentMaps` need `Ahead`: what is found is among the entries the key has held. The steps of the job
must leave the store alone; four of them change what `Lookup` reads (`PushTableKeepsStore`,
`DropCollectedKeepsStore`, `RefillFirstKeepsStore`, `ReplaceCollectionKeepsStore`), by `MovedIsKept` and
`TablesInOrder`. None of this depends on `lost`: `Lookup` is what the key holds, and a search finds that or
throws (`OutcomeIsLookup`), so `Read` is matched by the searches that return. For `JobNeverShows` it is also
needed that no search throws while nothing is lost (`IntactTablesDoNotThrow`, `JobKeepsTablesIntact`).

*The disk.* `Loaded` numbers the listed files that are there; `LoadedFindsHeld` turns what it holds for a key into
a statement about the list alone (`Holds`), so that no step has to count. `DiskInv` says that the list on the disk, or
the one about to be written (`List`), holds what the open tables do, with the table between
listing and pushing on top (`Expected`). A new name is not listed (`NewFileKept`), a file at
the end of the list answers for its own keys only (`MoreHolds`), and files are removed when the last
one has all that they hold (`LessHolds`), which is where the order of `SwapWith` matters.

*The start.* Types need one fact that is none: a node that serves, or is about to, has a log to write. `KeptLog` follows
the log that a start keeps: it is there, and is not among those still to be replayed, which may become
tables and be removed.

*What a node owes.* `CrashInv` is about two nodes, one that runs and one that starts. While a node runs, `UpState` adds to the invariants
of the engine where each entry is: what is in the memory table that stays is in the log that stays, what is in the one being
moved is in one of the two logs (`TablesAreLogged`); a request that is about to store has left an entry for its key in
a log, unless that log is gone (`PendingAreLogged`); and what the logs, the newer one first, and then the list of
files hold for a key (`LogOf`) is the entry that the key holds or one that is about to be stored (`LogsHoldOwed`). The job keeps
that because `LogOf` does not change, step by step: an empty log is put in front; the old one goes when `MovedIsKept`
and `DiskInv` have its entries in the files. A request keeps it unless its entry reaches a table that does not go with
its log (`straddle`), or the logs end with another entry (`reorder`): `ApplyWriteKeepsLogs` is where these two windows
are needed, and the only place. When the node dies outside of the other two there is one log, or a large one and
a small one (`FewLogs`), so the order in which they are replayed does not matter, and `Finds` says what a start will take for each key:
from the small log, else from the large one, else from the list. Every step of the start keeps that
(`DeadState`), and a death on the way leaves it to the next start: a large log is listed last while it is
still there (`BootTruncateKeepsFound`), and removed when the list has its entries
(`BootRemoveKeepsFound`). In the end the only log is the memory table (`LogsReplayed`), `Lookup` finds what `Finds`
promises, and the node is in an `UpState` again (`StartsInUpState`). All of it is stated for as long as
no disk operation has failed (`faults = 0`): the count only grows and is raised by failures alone (`FaultsAreCounted`), so each
step may take the invariant from the state before. The windows matter for what the logs hold only; `Inv` and `DiskInv`
hold in an `UpState` whatever windows were met, which gives `RestartedNodesAreSound`, and with `NextMaps` of the
engine's refinement `RestartedNodesServe`.

*The search and the merge.* `SearchInv` is the invariant of `std::lower_bound` as the code has it: left of the
range the keys are smaller, right of it not, in a newer table the key is nowhere. `MergeInv` is that of the
queue: what the cursors have passed is in the result, with the newest entry of each key, in the order of the keys
(`DataIsNewest`); whatever is left has larger keys, or that of the last entry (`PassedFirst`). A step takes
the top of the queue, which is the newest entry of the smallest key that is left (`TopIsNewest`). Types and
bounds (`TypeInv`) hold also when the two disturb each other, as long as neither has failed. That the initial
tables are sorted is no induction: `RankExists` counts the entries before each one.

*The version counter.* That it covers the logs depends on what the writes under way have loaded: an
exchange sets the counter to the version of its write, which must not be below the counter. It is
not, since the exchange succeeds only if the counter is what was loaded, and that was not beyond
the version when it was compared (`LoadedIsLower`). Versions that are still to be logged
(`PendingAreCovered`) and those generated (`GeneratedAreLower`) are below a counter that only increases
while it does not wrap around. One lemma per action shows that each keeps the four.

*The memory tables.* Waiting for a counter only helps if it counts the right threads. `SwappableInv` has
that each counter is the number of the threads inside it (`Counted`), which counters are in use and which share
a map at each step of the job (`Layout`), and that nobody writes by another one than the writer but those the job
waits for (`WritersKnown`). Then what is about to be dropped has been collected or overwritten
(`DroppedIsKept`). `OwedIsFound` follows a `Get` that has to find its key through its three reads.
A thread may have loaded a counter that the job deletes before it counts itself in (`NoUseAfterFree`, section 3);
the model stops at such a state, so the theorems say what holds until a thread has got there.

*The election.* That a node's flag says the truth depends on answers that are still under way: an answer
"created" in an inbox becomes a flag when it is delivered. `ElectionInv` therefore speaks of the inboxes:
such an answer is there only for the session that owns `/master`; a node that is connected has a session
that lives, and a node with the flag has a handle. For `TakesPart` it is the other way round:
`TakesPartInv` adds that for every node that is connected there is something that
goes on (`InPlay`): the node owns `/master`, or watches it, or asks for it, or a message that makes
it ask is under way; each callback and each request served hands that on. An answer that settles the
matter need not be waited for.

*The checks around a request.* Between its checks a request relies on what it has read before.
What stays of that is `SessionsPass`, which each step of the election satisfies: a session that is over does
not come back, and the owner of `/master` remains so while it lives. `HandlersInv` follows from it: the session by which a
request was accepted owns `/master` as long as it lives, until the controller has run; and the flag is
found set again only by an owner, or by a node that is cut off.

*The reads of all nodes.* The properties speak of a client's answer, which has come through requests of
requests. `ReadsInv` says of each task for which client it asks (`origin`, a function that exists;
it follows the links from caller to callee, and a task that was given up may keep it) and that it knows nothing that client has not
seen, and not less than the nodes it has heard of have held (`Knows`). A link is sound as long as the
caller waits: the callee is at the host asked, for the same key, and nobody else waits for it
(`LinkIsSound`); so what it answers is about that host. That a node in its own list gives no answer is an
induction over time: the call to itself begins later, so if it were answered, that answer would have come from a
listed node before (`ListIsSound`).

*Only model-checked:* what must eventually happen in `StorageEngine`, `CrashRecovery`, `SwappableStorage`,
`PersistentTables`, `MasterElection`, `ReplicaReads` and `Versions`. Liveness under fairness and `ENABLED` are
out of the prover's reach and stay with TLC. Every safety property of a passing run is stated by a theorem.

## 5. Not modelled, and why

* The branch that replicates writes (`controllers/insert.cpp:11-20`, `remove.cpp:12-21`,
  `SendInsertToReplicas`, `SendRemoveToReplicas`): no request reaches it, since the views always set a
  version (`../views/insert.cpp:10`, `remove.cpp:11`). It would run on the frame of a handler that may have returned.
* `GetMasterNode`, which `../api.proto` declares and nothing implements.
* A change of the lists of the nodes in `ReplicaReads` other than being set, and nodes that
  die there: an attempt fails at any time anyway, and the storage of one is the matter of `CrashRecovery`.
* Encoding of records, logs and messages, entries that a crash cuts off, paths,
  gRPC, flags, logging, the client, build files: data or input and output that no
  property here is about.
* A power failure, which also loses what was flushed but not synced.

## 6. Plan

1. Logs cut off by a crash (`wal_reader.cpp`) as a refinement of `CrashRecovery`'s.
2. What of `RecoveredOutsideWindows` stays after a disk operation has failed, with the failures that lose an
   entry as windows of their own.
