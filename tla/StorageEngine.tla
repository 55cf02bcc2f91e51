---------------------------- MODULE StorageEngine ----------------------------
(***************************************************************************)
(* The storage engine of one node while its process runs: the client        *)
(* requests that go through StorageSystem, the two memory tables of          *)
(* SwappableMemoryStorage, the write-ahead log of SwappableWalWriter, the    *)
(* .data files and the metadata of PersistentStorageCollection, and the      *)
(* background job of Controller that moves a full memory table to disk and   *)
(* then merges the files.                                                    *)
(*                                                                           *)
(* Requests and the job run on a pool of threads, so the steps of all of     *)
(* them interleave.  A step ends where the code may be overtaken: at each    *)
(* access to shared memory, at each hop to a strand, and at each effect on   *)
(* the disk that a crash may separate from the next one.  A request takes a  *)
(* memory table in one step (it loads the pointer and counts itself in) and  *)
(* uses it in a later one; the job waits for the requests it has to wait     *)
(* for.  SwappableStorage takes the first of these steps apart.              *)
(***************************************************************************)
EXTENDS Entries, Sequences, FiniteSets

CONSTANTS
    MemIds,                 \* addresses of MapStorage objects
    WalIds,                 \* names of .wal files
    Paths,                  \* names of .data files
    NoFile,                 \* the contents of a file that does not exist
    kThreshold,             \* memory entries that trigger a swap (controller.cpp:11)
    kCompactionThreshold,   \* files above which they are merged (compaction.cpp:13)
    MaxCalls,               \* bound: requests made in a behaviour
    MaxFaults               \* bound: disk operations that fail in a behaviour

ASSUME ThresholdsAssumption ==
    kThreshold \in Nat \ {0} /\ kCompactionThreshold \in Nat \ {0}

\* Names and addresses there must be for a node to start.
ASSUME ResourcesAssumption ==
    /\ \A used \in MemIds : \E m \in MemIds : m # used
    /\ MemIds # {} /\ WalIds # {} /\ Paths # {}
ASSUME NoFileAssumption == NoFile \notin Table

VARIABLES
    maps,           \* the contents of every MapStorage; an unused one is empty
    readerFirst,    \* the table reads try first
    readerSecond,   \* the table reads try second
    writer,         \* the table writes go to
    wals,           \* the table that replaying each log leaves, or NoFile
    walWriter,      \* the log being written
    broken,         \* the log's stream has failed; it never recovers
    files,          \* the table the .index of each .data file refers to, or NoFile
    lost,           \* the entries of each .data file that never reached it
    metadata,       \* the .data files listed in persistent.metadata
    collection,     \* collection_: the open tables, oldest first; only their offsets
                    \* are in memory, the entries are read from the file each time
    jobPc,          \* the next step of the swap job
    guard,          \* swap_job_guard_ is held
    job,            \* local variables of the job
    pc,             \* the next step of each request
    target,         \* the memory table the request has taken
    call,           \* the request being served
    reply,          \* its answer
    seen,           \* history: the entries its key has held since the call
    overtaken,      \* history: another write to its key took effect since the call
    status,         \* "up", or "dead" when the process has been killed
    calls, faults   \* counters for the two bounds

mem == <<maps, readerFirst, readerSecond, writer>>
wal == <<wals, walWriter, broken>>
disk == <<files, metadata, lost>>
jobVars == <<jobPc, guard, job>>
clients == <<pc, target, call, reply, seen, overtaken>>
bounds == <<calls, faults>>
vars == <<mem, wal, disk, collection, jobVars, clients, status, bounds>>

OpenTable == [path : Paths, table : Table]

\* oldWal: the log to remove; newWal: the log to write next; data: the table
\* being moved to disk; path: its file; meta: the metadata to be written;
\* doomed: the merged files still to be removed.
Job == [oldWal : WalIds, newWal : WalIds, data : Table, path : Paths,
        meta : Seq(Paths), doomed : SUBSET Paths]

JobPcs == {"off", "newwal", "swapwal", "switch", "copy", "table", "truncate",
           "append", "push", "drop", "refill", "rmwal", "compact", "rename", "replace",
           "rmfiles", "release"}
RequestPcs == {"idle", "first", "readfirst", "second", "readsecond", "persistent",
               "wal", "mem", "store", "size", "acquire", "return"}

TypeOK ==
    /\ maps \in [MemIds -> Table]
    /\ readerFirst \in MemIds /\ readerSecond \in MemIds /\ writer \in MemIds
    /\ wals \in [WalIds -> Table \cup {NoFile}]
    /\ walWriter \in WalIds
    /\ broken \in BOOLEAN
    /\ files \in [Paths -> Table \cup {NoFile}]
    /\ lost \in [Paths -> SUBSET Keys]
    /\ metadata \in Seq(Paths)
    /\ collection \in Seq(OpenTable)
    /\ jobPc \in JobPcs
    /\ guard \in BOOLEAN
    /\ job \in Job
    /\ pc \in [Requests -> RequestPcs]
    /\ target \in [Requests -> MemIds]
    /\ call \in [Requests -> Call \cup {NoCall}]
    /\ reply \in [Requests -> DTO \cup {NotFound, Ok, Failed, NoReply}]
    /\ seen \in [Requests -> SUBSET (Entry \cup {None})]
    /\ overtaken \in [Requests -> BOOLEAN]
    /\ status \in {"up", "dead"}
    /\ calls \in Nat /\ faults \in Nat

-----------------------------------------------------------------------------
(* What the tables hold *)

\* Mutant: the tables are searched from the oldest on.
IsOldest(tables, k, i) ==
    /\ i \in DOMAIN tables
    /\ tables[i].table[k] # None
    /\ \A j \in DOMAIN tables : j < i => tables[j].table[k] = None

\* PersistentStorageCollection::Get: the newest open table that has the key wins.
IsNewest(tables, k, i) ==
    /\ i \in DOMAIN tables
    /\ tables[i].table[k] # None
    /\ \A j \in DOMAIN tables : j > i => tables[j].table[k] = None

HasNewest(tables, k) == \E i \in DOMAIN tables : IsNewest(tables, k, i)
NewestIndex(tables, k) == CHOOSE i \in DOMAIN tables : IsNewest(tables, k, i)

NewestIn(tables, k) ==
    IF HasNewest(tables, k) THEN tables[NewestIndex(tables, k)].table[k] ELSE None

PersistentGet(k) == NewestIn(collection, k)

\* The table that merging the open tables gives (MergeData): per key, the
\* entry of the newest table that has one.
Merged(tables) == [k \in Keys |-> NewestIn(tables, k)]

\* The entry a key holds: what an undisturbed StorageSystem::Get finds, unless it
\* meets an entry that its file has lost.
Lookup(k) ==
    IF maps[readerFirst][k] # None THEN maps[readerFirst][k]
    ELSE IF maps[readerSecond][k] # None THEN maps[readerSecond][k]
    ELSE PersistentGet(k)

Listed == {metadata[i] : i \in DOMAIN metadata}
Opened == {collection[i].path : i \in DOMAIN collection}

\* Names made from a new uuid (filesystem::GetPath) and addresses from new.
HasNewWal == \E w \in WalIds : wals[w] = NoFile
NewWal == CHOOSE w \in WalIds : wals[w] = NoFile
IsNewPath(p) == files[p] = NoFile /\ p \notin Listed \cup Opened
HasNewPath == \E p \in Paths : IsNewPath(p)
NewPath == CHOOSE p \in Paths : IsNewPath(p)
NewMap(used) == CHOOSE m \in MemIds : m \notin used

Key(r) == call[r].key
Active(r) == pc[r] # "idle"
-----------------------------------------------------------------------------
(* Start: InitializeStorages on an empty data directory *)

Init ==
    /\ maps = [m \in MemIds |-> EmptyTable]
    /\ readerSecond = CHOOSE m \in MemIds : TRUE
    /\ readerFirst = CHOOSE m \in MemIds : m # readerSecond
    /\ writer = readerSecond
    /\ walWriter = CHOOSE w \in WalIds : TRUE
    /\ wals = [w \in WalIds |-> IF w = walWriter THEN EmptyTable ELSE NoFile]
    /\ broken = FALSE
    /\ files = [p \in Paths |-> NoFile]
    /\ lost = [p \in Paths |-> {}]
    /\ metadata = <<>>
    /\ collection = <<>>
    /\ jobPc = "off" /\ guard = FALSE
    /\ job = [oldWal |-> walWriter, newWal |-> walWriter, data |-> EmptyTable,
              path |-> CHOOSE p \in Paths : TRUE, meta |-> <<>>, doomed |-> {}]
    /\ pc = [r \in Requests |-> "idle"]
    /\ target = [r \in Requests |-> writer]
    /\ call = [r \in Requests |-> NoCall]
    /\ reply = [r \in Requests |-> NoReply]
    /\ seen = [r \in Requests |-> {}]
    /\ overtaken = [r \in Requests |-> FALSE]
    /\ status = "up"
    /\ calls = 0 /\ faults = 0

\* A disk operation goes wrong.
Fault == faults < MaxFaults /\ faults' = faults + 1

\* NewPersistentStorage.  Whether the entries and the offsets reached the disk is
\* not checked: the .data file may lack entries, and of the .index nothing or an
\* unreadable part may be left.  What is lacking is the end of the file; which
\* entries those are is up to the order of the keys, and left open here.
WriteFile(p, table) ==
    \/ /\ files' = [files EXCEPT ![p] = table]
       /\ lost' = [lost EXCEPT ![p] = {}]
       /\ UNCHANGED faults
    \/ /\ Fault
       /\ \E left \in {table, EmptyTable, NoFile} : files' = [files EXCEPT ![p] = left]
       /\ \E gone \in SUBSET EntriesOf(table) : lost' = [lost EXCEPT ![p] = gone]

-----------------------------------------------------------------------------
(* Searching the open tables *)

\* The entries that cannot be read.
Gone(t) == EntriesOf(t.table) \cap lost[t.path]

\* The open tables a Get searches: from the newest on, until one has the key.
Searched(k) ==
    {collection[i] : i \in {j \in DOMAIN collection :
        \A h \in DOMAIN collection : h > j => collection[h].table[k] = None}}

\* A binary search throws when it reads an entry that is gone.  It reads the entry
\* of its key, if there is one, and others on its way: which of them is up to the
\* order of the keys, and left open here.
MayThrow(k) == \E t \in Searched(k) : Gone(t) # {}
Throws(k) ==
    \E t \in Searched(k) : k \in Gone(t) \/ (Gone(t) # {} /\ Gone(t) = EntriesOf(t.table))

\* Mutant: a table with entries that cannot be read is passed over.
PassOver(k) ==
    {NewestIn([i \in DOMAIN collection |->
                  IF Gone(collection[i]) = {} THEN collection[i]
                  ELSE [collection[i] EXCEPT !.table = EmptyTable]], k)}

\* What a search for the key may find, if it does not throw.
SearchResults(k) == IF Throws(k) THEN {} ELSE {PersistentGet(k)}

-----------------------------------------------------------------------------
(* Requests: Controller::Insert, Remove and Get on a node without peers *)

At(r, at) == status = "up" /\ pc[r] = at
Goto(r, at) == pc' = [pc EXCEPT ![r] = at]
Finish(r, result) == Goto(r, "return") /\ reply' = [reply EXCEPT ![r] = result]

Invoke(r) ==
    /\ At(r, "idle")
    /\ calls < MaxCalls /\ calls' = calls + 1
    /\ \E c \in Call :
          /\ call' = [call EXCEPT ![r] = c]
          /\ seen' = [seen EXCEPT ![r] = {Lookup(c.key)}]
    /\ Goto(r, "first")
    /\ UNCHANGED <<mem, wal, disk, collection, jobVars, target, reply, overtaken, status,
                   faults>>

\* Mutant: the tombstone is taken for a value.
FoundTombstone(r, entry) ==
    IF ~IsGet(call[r]) THEN Goto(r, "wal") /\ UNCHANGED reply
    ELSE Finish(r, [value |-> entry.value, version |-> 0])

\* StorageSystem::Get found an entry in memory.  It is reported with version 0,
\* which no write is older than.
FoundInMemory(r, entry) ==
    IF ~IsGet(call[r]) THEN Goto(r, "wal") /\ UNCHANGED reply
    ELSE IF IsLive(entry) THEN Finish(r, [value |-> entry.value, version |-> 0])
    ELSE Finish(r, NotFound)

\* The request counts itself in at a table, which is not freed until it is done.
Take(r, table, next) ==
    /\ target' = [target EXCEPT ![r] = table]
    /\ Goto(r, next)
    /\ UNCHANGED <<mem, wal, disk, collection, jobVars, call, reply, seen, overtaken,
                   status, bounds>>

Read(r, next) ==
    /\ LET entry == maps[target[r]][Key(r)] IN
          \/ entry # None /\ FoundInMemory(r, entry)
          \/ entry = None /\ Goto(r, next) /\ UNCHANGED reply
    /\ UNCHANGED <<mem, wal, disk, collection, jobVars, target, call, seen, overtaken,
                   status, bounds>>

TakeFirst(r) == At(r, "first") /\ Take(r, readerFirst, "readfirst")
ReadFirst(r) == At(r, "readfirst") /\ Read(r, "second")
TakeSecond(r) == At(r, "second") /\ Take(r, readerSecond, "readsecond")
ReadSecond(r) == At(r, "readsecond") /\ Read(r, "persistent")

\* A write has been answered with Ok: an Insert, also one that was omitted, goes on
\* to TriggerSwapToPersistentStorage.
FinishWrite(r) ==
    /\ Goto(r, IF IsInsert(call[r]) THEN "size" ELSE "return")
    /\ reply' = [reply EXCEPT ![r] = Ok]

\* A live entry found on the disk has its version, and a write with a smaller one
\* is omitted.
FoundOnDisk(r, entry) ==
    \/ /\ IsGet(call[r]) /\ IsLive(entry)
       /\ Finish(r, [value |-> entry.value, version |-> entry.version])
    \/ IsGet(call[r]) /\ ~IsLive(entry) /\ Finish(r, NotFound)
    \/ /\ ~IsGet(call[r])
       /\ IsLive(entry) /\ call[r].entry.version < entry.version
       /\ FinishWrite(r)
    \/ /\ ~IsGet(call[r])
       /\ ~(IsLive(entry) /\ call[r].entry.version < entry.version)
       /\ Goto(r, "wal") /\ UNCHANGED reply

\* On the strand of the collection.
ReadPersistent(r) ==
    /\ At(r, "persistent")
    /\ \E entry \in SearchResults(Key(r)) : FoundOnDisk(r, entry)
    /\ UNCHANGED <<mem, wal, disk, collection, jobVars, target, call, seen, overtaken,
                   status, bounds>>

\* An entry cannot be read, because it is gone or because the read fails: the handler
\* rethrows the exception, and the process is killed.
ThrowInGet(r) ==
    /\ At(r, "persistent")
    /\ \/ MayThrow(Key(r)) /\ UNCHANGED faults
       \/ (\E t \in Searched(Key(r)) : EntriesOf(t.table) # {}) /\ Fault
    /\ status' = "dead"
    /\ UNCHANGED <<mem, wal, disk, collection, jobVars, clients, calls>>

\* WALWriterImpl::WriteEntry, on the strand of the log.  The entry is written
\* into the stream's buffer and the buffer flushed; only the first is checked,
\* so that an entry the flush loses is acknowledged.
WriteWal(r) ==
    /\ At(r, "wal") /\ ~broken
    /\ \/ /\ wals' = [wals EXCEPT ![walWriter][Key(r)] = call[r].entry]
          /\ UNCHANGED <<broken, faults>>
       \/ Fault /\ broken' = TRUE /\ UNCHANGED wals
    /\ Goto(r, "mem")
    /\ UNCHANGED <<mem, walWriter, disk, collection, jobVars, target, call, reply, seen,
                   overtaken, status, calls>>

\* Mutant: the request waits for the stream to recover.
WaitForWal(r) ==
    /\ At(r, "wal") /\ broken
    /\ UNCHANGED vars

\* The entry cannot be written into the stream, and the stream has failed for good:
\* from then on it refuses every entry.
FailWal(r) ==
    /\ At(r, "wal")
    /\ \/ broken /\ UNCHANGED <<broken, faults>>
       \/ ~broken /\ Fault /\ broken' = TRUE
    /\ Finish(r, Failed)
    /\ UNCHANGED <<mem, wals, walWriter, disk, collection, jobVars, target, call, seen,
                   overtaken, status, calls>>

\* SwappableMemoryStorage::Insert or Remove: the writer's table is taken ...
TakeWriter(r) == At(r, "mem") /\ Take(r, writer, "store")

\* ... and written.  The job may have redirected writes in between; then the
\* entry is hidden if a newer request has written the key in the table that is
\* read first.
WriteMem(r) ==
    /\ At(r, "store")
    /\ maps' = [maps EXCEPT ![target[r]][Key(r)] = call[r].entry]
    /\ LET hidden == target[r] # readerFirst /\ maps[readerFirst][Key(r)] # None
           concerned == {s \in Requests : Active(s) /\ Key(s) = Key(r)}
       IN  /\ seen' = [s \in Requests |->
                          IF s \in concerned /\ (hidden => overtaken[s])
                          THEN seen[s] \cup {call[r].entry} ELSE seen[s]]
           /\ overtaken' = [s \in Requests |->
                               overtaken[s] \/ (s \in concerned \ {r} /\ ~hidden)]
    /\ FinishWrite(r)
    /\ UNCHANGED <<readerFirst, readerSecond, writer, wal, disk, collection, jobVars,
                   target, call, status, bounds>>

CheckSize(r) ==
    /\ At(r, "size")
    /\ Goto(r, IF Cardinality(EntriesOf(maps[writer])) < kThreshold THEN "return" ELSE "acquire")
    /\ UNCHANGED <<mem, wal, disk, collection, jobVars, target, call, reply, seen, overtaken,
                   status, bounds>>

\* JobGuard::TryAcquire; whoever gets it spawns the job.
TryAcquire(r) ==
    /\ At(r, "acquire")
    /\ \/ guard /\ UNCHANGED <<guard, jobPc>>
       \/ ~guard /\ guard' = TRUE /\ jobPc' = "newwal"
    /\ Goto(r, "return")
    /\ UNCHANGED <<mem, wal, disk, collection, job, target, call, reply, seen, overtaken,
                   status, bounds>>

Return(r) ==
    /\ At(r, "return")
    /\ Goto(r, "idle")
    /\ call' = [call EXCEPT ![r] = NoCall]
    /\ reply' = [reply EXCEPT ![r] = NoReply]
    /\ seen' = [seen EXCEPT ![r] = {}]
    /\ overtaken' = [overtaken EXCEPT ![r] = FALSE]
    /\ UNCHANGED <<mem, wal, disk, collection, jobVars, target, status, bounds>>

-----------------------------------------------------------------------------
(* The job: Controller::SwapToPersistentStorage, then Release *)

JobAt(at) == status = "up" /\ jobPc = at
JobGoto(at) == jobPc' = at /\ UNCHANGED guard

\* Mutant: the job returns without Release.
GiveUpHolding == Fault /\ jobPc' = "off" /\ UNCHANGED <<guard, job>>

\* An operation of the job fails: it logs the error and returns.
GiveUp == Fault /\ JobGoto("release") /\ UNCHANGED job

\* SwappableWalWriterImpl::Swap: NewWALWriter ...
CreateWal ==
    /\ JobAt("newwal")
    /\ \/ /\ HasNewWal
          /\ wals' = [wals EXCEPT ![NewWal] = EmptyTable]
          /\ job' = [job EXCEPT !.oldWal = walWriter, !.newWal = NewWal]
          /\ JobGoto("swapwal") /\ UNCHANGED faults
       \/ GiveUp /\ UNCHANGED wals
    /\ UNCHANGED <<mem, walWriter, broken, disk, collection, clients, status, calls>>

\* ... and, on the strand of the log, the new writer takes over.
SwapWal ==
    /\ JobAt("swapwal")
    /\ walWriter' = job.newWal /\ broken' = FALSE
    /\ JobGoto("switch")
    /\ UNCHANGED <<mem, wals, disk, collection, job, clients, status, bounds>>

\* Mutant: the table that is still being written is copied.
CollectedFirst == maps[readerFirst]

\* The table Collect copies.
Collected == maps[readerSecond]

\* SwappableMemoryStorage::Collect: writes are sent to the first table, ...
SwitchWriter ==
    /\ JobAt("switch")
    /\ writer' = readerFirst
    /\ JobGoto("copy")
    /\ UNCHANGED <<maps, readerFirst, readerSecond, wal, disk, collection, job, clients,
                   status, bounds>>

\* Mutant: the job does not wait for the old writer's requests.
DoNotWait == TRUE

\* Every request that took the old writer's table has written it.
OldWriterUnused == \A r \in Requests : pc[r] = "store" => target[r] = writer

\* ... and, once the requests on the old writer are done, the second table is
\* copied.
CopySecond ==
    /\ JobAt("copy") /\ OldWriterUnused
    /\ job' = [job EXCEPT !.data = Collected]
    /\ JobGoto("table")
    /\ UNCHANGED <<mem, wal, disk, collection, clients, status, bounds>>

\* The copy becomes a table on the disk.
WriteTable ==
    /\ JobAt("table")
    /\ \/ /\ HasNewPath
          /\ job' = [job EXCEPT !.path = NewPath]
          /\ WriteFile(NewPath, job.data)
          /\ JobGoto("truncate")
       \/ GiveUp /\ UNCHANGED <<files, lost>>
    /\ UNCHANGED <<mem, wal, metadata, collection, clients, status, calls>>

\* Mutant: the new table is listed first.
ListedFirst(list, path) == <<path>> \o list

\* The metadata with one more table, the newest.
WithTable(list, path) == Append(list, path)

\* AppendMetadata: the metadata is read, and taken for empty when it cannot be;
\* opening it for writing truncates it.
TruncateMetadata ==
    /\ JobAt("truncate")
    /\ \/ /\ \/ job' = [job EXCEPT !.meta = WithTable(metadata, job.path)] /\ UNCHANGED faults
             \/ Fault /\ job' = [job EXCEPT !.meta = <<job.path>>]
          /\ metadata' = <<>>
          /\ JobGoto("append")
       \/ GiveUp /\ UNCHANGED metadata
    /\ UNCHANGED <<mem, wal, files, lost, collection, clients, status, calls>>

\* The new list is written; whether the flush succeeded is not checked, so that
\* the list may be lost unnoticed.
AppendMetadata ==
    /\ JobAt("append")
    /\ \/ metadata' = job.meta /\ JobGoto("push") /\ UNCHANGED faults
       \/ Fault /\ JobGoto("push") /\ UNCHANGED metadata
       \/ Fault /\ JobGoto("release") /\ UNCHANGED metadata
    /\ UNCHANGED <<mem, wal, files, lost, collection, job, clients, status, calls>>

\* PersistentStorageCollection::Add, on its strand.
PushTable ==
    /\ JobAt("push")
    /\ collection' = Append(collection, [path |-> job.path, table |-> job.data])
    /\ JobGoto("drop")
    /\ UNCHANGED <<mem, wal, disk, job, clients, status, bounds>>

\* SwappableMemoryStorage::RemoveCollected: the first table becomes the second
\* one, too ...
DropCollected ==
    /\ JobAt("drop")
    /\ readerSecond' = readerFirst
    /\ JobGoto("refill")
    /\ UNCHANGED <<maps, readerFirst, writer, wal, disk, collection, job, clients, status,
                   bounds>>

\* The requests that are reading have all taken the table that stays.
OldReaderUnused ==
    \A r \in Requests : pc[r] \in {"readfirst", "readsecond"} => target[r] = readerSecond

\* ... and, once the requests on the old second table are done, it is freed and an
\* empty table becomes the first.
RefillFirst ==
    /\ JobAt("refill") /\ OldReaderUnused
    /\ readerFirst' = NewMap({readerSecond})
    /\ maps' = [maps EXCEPT ![NewMap({readerSecond})] = EmptyTable]
    /\ JobGoto("rmwal")
    /\ UNCHANGED <<readerSecond, writer, wal, disk, collection, job, clients, status, bounds>>

\* The callback that Swap returned.
RemoveWal ==
    /\ JobAt("rmwal")
    /\ wals' = [wals EXCEPT ![job.oldWal] = NoFile]
    /\ JobGoto("compact")
    /\ UNCHANGED <<mem, walWriter, broken, disk, collection, job, clients, status, bounds>>

HasEmptyTable == \E i \in DOMAIN collection : EntriesOf(collection[i].table) = {}

\* A merge reads every entry of every table, and is given up at one that it cannot
\* read.  A read that fails once only, while the queue is ordered, is left out.
CannotMerge == \E i \in DOMAIN collection : Gone(collection[i]) # {}

\* RunCompaction: MergeData writes one table with the newest entry of each key ...
Compact ==
    /\ JobAt("compact")
    /\ \/ /\ Len(collection) <= kCompactionThreshold \/ (~HasEmptyTable /\ CannotMerge)
          /\ JobGoto("release") /\ UNCHANGED <<job, files, lost, faults>>
       \/ /\ Len(collection) > kCompactionThreshold /\ ~HasEmptyTable /\ ~CannotMerge
          /\ \/ /\ HasNewPath
                /\ job' = [job EXCEPT !.data = Merged(collection), !.path = NewPath]
                /\ WriteFile(NewPath, Merged(collection))
                /\ JobGoto("rename")
             \/ GiveUp /\ UNCHANGED <<files, lost>>
    /\ UNCHANGED <<mem, wal, metadata, collection, clients, status, calls>>

\* ... unless a table has no entries: the iterators of an empty table are
\* dereferenced to order the queue, and the process is killed.
CompactEmptyTable ==
    /\ JobAt("compact")
    /\ Len(collection) > kCompactionThreshold /\ HasEmptyTable
    /\ status' = "dead"
    /\ UNCHANGED <<mem, wal, disk, collection, jobVars, clients, bounds>>

\* SwapWith: a new metadata file, which lists the merged table after the old
\* ones, is renamed over the old file; a failed flush renames an empty one.
RenameMetadata ==
    /\ JobAt("rename")
    /\ \/ /\ \/ metadata' = WithTable(metadata, job.path) /\ UNCHANGED faults
             \/ Fault /\ metadata' \in {<<job.path>>, <<>>}
          /\ job' = [job EXCEPT !.doomed = Opened]
          /\ JobGoto("replace")
       \/ GiveUp /\ UNCHANGED metadata
    /\ UNCHANGED <<mem, wal, files, lost, collection, clients, status, calls>>

\* The merged table replaces the old ones, on the strand of the collection.
ReplaceCollection ==
    /\ JobAt("replace")
    /\ collection' = <<[path |-> job.path, table |-> job.data]>>
    /\ JobGoto("rmfiles")
    /\ UNCHANGED <<mem, wal, disk, job, clients, status, bounds>>

RemoveFiles ==
    /\ JobAt("rmfiles")
    /\ \/ \E p \in job.doomed :
             /\ files' = [files EXCEPT ![p] = NoFile]
             /\ job' = [job EXCEPT !.doomed = @ \ {p}]
             /\ JobGoto("rmfiles")
       \/ job.doomed = {} /\ JobGoto("release") /\ UNCHANGED <<files, job>>
    /\ UNCHANGED <<mem, wal, metadata, lost, collection, clients, status, bounds>>

\* A rename or a removal that fails throws: nobody catches it, and the process is
\* killed.
ThrowInSwapWith ==
    /\ JobAt("rename") \/ (JobAt("rmfiles") /\ job.doomed # {})
    /\ Fault /\ status' = "dead"
    /\ UNCHANGED <<mem, wal, disk, collection, jobVars, clients, calls>>

Release ==
    /\ JobAt("release")
    /\ guard' = FALSE /\ jobPc' = "off"
    /\ UNCHANGED <<mem, wal, disk, collection, job, clients, status, bounds>>

-----------------------------------------------------------------------------
RequestStep(r) ==
    \/ TakeFirst(r) \/ ReadFirst(r) \/ TakeSecond(r) \/ ReadSecond(r)
    \/ ReadPersistent(r) \/ ThrowInGet(r)
    \/ WriteWal(r) \/ FailWal(r) \/ TakeWriter(r) \/ WriteMem(r)
    \/ CheckSize(r) \/ TryAcquire(r) \/ Return(r)

JobStep ==
    \/ CreateWal \/ SwapWal \/ SwitchWriter \/ CopySecond \/ WriteTable
    \/ TruncateMetadata \/ AppendMetadata \/ PushTable
    \/ DropCollected \/ RefillFirst \/ RemoveWal
    \/ Compact \/ CompactEmptyTable \/ RenameMetadata
    \/ ReplaceCollection \/ RemoveFiles \/ ThrowInSwapWith \/ Release

\* Nothing is left to do: all requests of the behaviour are answered and the
\* job is off, or the process is dead.
Halted ==
    /\ \/ status = "dead"
       \/ calls = MaxCalls /\ jobPc = "off" /\ \A r \in Requests : pc[r] = "idle"
    /\ UNCHANGED vars

Next ==
    \/ \E r \in Requests : Invoke(r) \/ RequestStep(r)
    \/ JobStep
    \/ Halted

Spec == Init /\ [][Next]_vars
-----------------------------------------------------------------------------
(* Properties *)

\* A Get answers with a value its key held at some moment of the call, and with
\* "not found" only if the key was absent or removed at some moment of it,
\* although the three places it reads (swappable_memory_storage.cpp:44-59,
\* storage_system.cpp:54-72) are being moved around between its reads.  A Get that
\* cannot read an entry is not answered at all.
AnswerIsCurrent(r) ==
    pc[r] = "return" /\ IsGet(call[r]) =>
        \/ reply[r] = NotFound /\ \E entry \in seen[r] : ~IsLive(entry)
        \/ \E entry \in seen[r] : IsLive(entry) /\ reply[r].value = entry.value

ReadsCurrent == \A r \in Requests : AnswerIsCurrent(r)

\* ReadCollection opens the files in the order of the list, and goes on with the next
\* one when a file is not there.
Present == {i \in DOMAIN metadata : files[metadata[i]] # NoFile}
NthPresent(n) == CHOOSE i \in Present : Cardinality({h \in Present : h <= i}) = n
Loaded ==
    [n \in 1..Cardinality(Present) |->
        [path |-> metadata[NthPresent(n)], table |-> files[metadata[NthPresent(n)]]]]

\* While no disk operation has failed and the metadata is not being rewritten,
\* loading the listed files as ReadCollection does gives every key the entry the
\* running node reads from its open tables; the table between being listed and
\* being pushed is the one exception, and takes the place of the memory table it
\* is a copy of (persistent_storage_collection.cpp:59-107, 133-167).
DiskMatchesOpenTables ==
    faults = 0 /\ jobPc # "append" =>
        \A k \in Keys :
            NewestIn(Loaded, k) =
                IF jobPc = "push" /\ job.data[k] # None THEN job.data[k] ELSE PersistentGet(k)

-----------------------------------------------------------------------------
(* Why reads are current: the inductive invariant *)

Merging == {"rename", "replace"}
Moving == {"table", "truncate", "append", "push", "drop"}

\* The log that is written has a file, and it is never the one that the job removes.
LogInUse ==
    /\ wals[walWriter] # NoFile
    /\ jobPc = "swapwal" =>
          job.oldWal = walWriter /\ job.newWal # walWriter /\ wals[job.newWal] # NoFile
    /\ jobPc \in Moving \cup {"switch", "copy", "refill", "rmwal"} => job.oldWal # walWriter

\* Writes go to a table that is read, and the table read first is never older
\* than the other: it is empty while the second one is written.
TablesInOrder ==
    /\ writer \in {readerFirst, readerSecond}
    /\ readerFirst = readerSecond <=> jobPc = "refill"
    /\ writer = readerSecond /\ jobPc # "refill" => maps[readerFirst] = EmptyTable
    /\ jobPc \in Moving \cup {"copy"} => writer = readerFirst

\* Requests use tables that are still there; while the second table is being moved,
\* nobody writes it.
TargetInUse(r) ==
    /\ pc[r] \in {"readfirst", "readsecond"} =>
          target[r] \in {readerFirst, readerSecond} \/ jobPc = "refill"
    /\ pc[r] = "store" => target[r] = writer \/ (jobPc = "copy" /\ target[r] = readerSecond)

TargetsInUse == \A r \in Requests : TargetInUse(r)

\* What is moved to disk is the second table, and it is among the open tables
\* before it is dropped; what is merged is what the open tables hold.
MovedIsKept ==
    /\ jobPc \in Moving => job.data = maps[readerSecond]
    /\ jobPc = "drop" => \A k \in Keys :
          maps[readerSecond][k] # None => PersistentGet(k) = maps[readerSecond][k]
    /\ jobPc \in Merging => job.data = Merged(collection)

\* What a request may find in the tables it has not read yet, its key has held
\* since the call.
InSecond(r) == maps[readerSecond][Key(r)] # None => maps[readerSecond][Key(r)] \in seen[r]
OnDisk(r) == PersistentGet(Key(r)) \in seen[r]
InTarget(r) == maps[target[r]][Key(r)] # None => maps[target[r]][Key(r)] \in seen[r]
MissesTarget(r) == maps[target[r]][Key(r)] = None

\* An entry that appeared in the first table after the request passed it is that of
\* a write that overtook the request.
FirstIsNewer(r) == maps[readerFirst][Key(r)] # None => overtaken[r]

Ahead(r) ==
    /\ Active(r) => call[r] \in Call /\ Lookup(Key(r)) \in seen[r]
    /\ pc[r] = "readfirst" =>
          /\ InTarget(r)
          /\ MissesTarget(r) => InSecond(r)
          /\ MissesTarget(r) /\ maps[readerSecond][Key(r)] = None => OnDisk(r)
          /\ target[r] # readerFirst => FirstIsNewer(r)
    /\ pc[r] = "second" =>
          /\ InSecond(r)
          /\ maps[readerSecond][Key(r)] = None => OnDisk(r)
          /\ FirstIsNewer(r)
    /\ pc[r] = "readsecond" =>
          /\ InTarget(r)
          /\ MissesTarget(r) => InSecond(r) /\ OnDisk(r)
          /\ FirstIsNewer(r)
    /\ pc[r] = "persistent" => InSecond(r) /\ OnDisk(r) /\ FirstIsNewer(r)
    /\ pc[r] = "store" /\ target[r] # readerFirst => FirstIsNewer(r)
    /\ pc[r] \in {"wal", "mem", "store", "size", "acquire"} => ~IsGet(call[r])

AheadIsSeen == \A r \in Requests : Ahead(r)

\* There is one job at a time: whoever takes the guard finds no job running.
JobHoldsGuard == jobPc # "off" => guard

EngineInv ==
    LogInUse /\ JobHoldsGuard /\ TablesInOrder /\ TargetsInUse /\ MovedIsKept /\ AheadIsSeen

\* The engine implements the abstract store: every request takes effect, reads or
\* fails as KVStore allows, and no step of the job changes what a key holds.  An
\* entry that an unchecked flush has lost (persistent.cpp:67, 69) is never answered
\* with an older one or with "not found", also not after a merge: the search throws
\* (persistent.cpp:89, 94) and the process dies, and the merge is given up
\* (compaction.cpp:58).
KV == INSTANCE KVStore WITH
        store <- [k \in Keys |-> Lookup(k)],
        status <- [r \in Requests |->
                      IF pc[r] = "idle" THEN "idle"
                      ELSE IF pc[r] \in {"size", "acquire", "return"} THEN "answered"
                      ELSE "called"],
        current <- seen

ImplementsKVStore == KV!Spec

\* The executor runs every coroutine that is ready: a thread of the pool takes it
\* from the queue (main.cpp), and no step waits for another one.
FairSpec ==
    /\ Spec
    /\ \A r \in Requests : WF_vars(RequestStep(r))
    /\ WF_vars(JobStep)

\* Every request is answered, whatever the disk does, unless the process dies:
\* nothing a request waits for is held by the job or by another request.
EveryCallReturns ==
    \A r \in Requests : Active(r) ~> (~Active(r) \/ status = "dead")

\* The job always gives the guard back, also when one of its operations fails
\* (controller.cpp:37-40), so that later swaps can run.
GuardIsReleased == guard ~> (~guard \/ status = "dead")
=============================================================================
