---------------------------- MODULE CrashRecovery ----------------------------
(***************************************************************************)
(* StorageEngine with the death of the process at any step and the start    *)
(* that follows it: InitializeStorages reads the metadata, loads the listed  *)
(* tables, replays the logs it finds, and goes on writing one of them.       *)
(*                                                                           *)
(* A crash loses what is in memory and keeps what was flushed: it is the     *)
(* process that dies, not the machine.  history variables record what the    *)
(* node owed to its clients when it died and which of the windows in which   *)
(* the code cannot pay have been hit.                                        *)
(***************************************************************************)
EXTENDS StorageEngine

CONSTANTS
    kRecoveryThreshold,  \* larger logs become tables (wal_reader.hpp:41)
    MaxCrashes           \* bound: deaths of the process in a behaviour

ASSUME RecoveryAssumption ==
    kRecoveryThreshold \in Nat /\ MaxCrashes \in Nat /\ NoFile \notin WalIds

VARIABLES
    boot,       \* the next step of InitializeStorages
    todo,       \* logs still to be replayed
    current,    \* the log being turned into a table
    crashes,    \* counter for MaxCrashes
    logged,     \* history: the log in which each request has written its entry, or NoFile
                \* when that log has been removed
    owed,       \* history: per key, the entries that may be found after the crash
    windows     \* history: the windows that have been hit

bootVars == <<boot, todo, current>>
history == <<logged, owed, windows>>
allVars == <<vars, bootVars, crashes, history>>

\* straddle: an entry went to the old log but to the new memory table;
\* reorder: two entries of a key reached the log and the memory in different orders;
\* torn: the process died while the metadata file was truncated;
\* logs: it died leaving logs whose replay depends on the order of the directory.
Windows == {"straddle", "reorder", "torn", "logs"}

BootPcs == {"none", "replay", "truncate", "append", "remove", "ready"}

RecoveryTypeOK ==
    /\ TypeOK
    /\ boot \in BootPcs
    /\ todo \subseteq WalIds
    /\ current \in WalIds
    /\ crashes \in 0..MaxCrashes
    /\ logged \in [Requests -> WalIds \cup {NoFile}]
    /\ owed \in [Keys -> SUBSET (Entry \cup {None})]
    /\ windows \subseteq Windows

Logs == {w \in WalIds : wals[w] # NoFile}
IsLarge(table) == Cardinality(EntriesOf(table)) > kRecoveryThreshold

RInit ==
    /\ Init
    /\ boot = "none" /\ todo = {} /\ current = walWriter
    /\ crashes = 0
    /\ logged = [r \in Requests |-> walWriter]
    /\ owed = [k \in Keys |-> {None}]
    /\ windows = {}

-----------------------------------------------------------------------------
(* The running node, and the windows it passes through *)

\* Only writes are of interest here: a Get leaves nothing a crash could lose.
CallWrite(r) == Invoke(r) /\ ~IsGet(call'[r])

LogWrite(r) == WriteWal(r) /\ logged' = [logged EXCEPT ![r] = walWriter]

\* The log that holds the entry is gone or on its way out, and the table the entry
\* goes to is not the one that is moved to disk with that log.
MovesWithLog(r) ==
    logged[r] = job.oldWal /\ (jobPc = "switch" \/ (jobPc = "copy" /\ target[r] # writer))

Straddles(r) == logged[r] # walWriter /\ ~MovesWithLog(r)

Logged(r) == pc[r] \in {"mem", "store"}

\* The logs end with another entry for the key than the one it now holds, and no
\* request is about to put it there.
Reorders(r) ==
    LET k == Key(r)
        last == IF wals[walWriter][k] # None THEN wals[walWriter][k] ELSE wals[logged[r]][k]
    IN  /\ logged[r] \in Logs
        /\ last # Lookup(k)'
        /\ ~ \E s \in Requests \ {r} : Logged(s) /\ Key(s) = k /\ call[s].entry = last

ApplyWrite(r) ==
    /\ WriteMem(r)
    /\ windows' = windows \cup {w \in {"straddle"} : Straddles(r)}
                          \cup {w \in {"reorder"} : Reorders(r)}

\* What the node owes for a key when it dies: the entry it holds, or one that
\* has been logged by a request that is still being served.
Owed(k) ==
    {Lookup(k)} \cup
    {call[r].entry : r \in {q \in Requests : Logged(q) /\ Key(q) = k}}

\* One log, or a large one followed by a small one, replays the same in any order.
LogsReplayInOrder ==
    \/ Cardinality(Logs) = 1
    \/ /\ Logs = {job.oldWal, walWriter}
       /\ IsLarge(wals[job.oldWal]) /\ ~IsLarge(wals[walWriter])

RecordDeath ==
    /\ owed' = [k \in Keys |-> Owed(k)]
    /\ windows' = windows \cup {w \in {"torn"} : jobPc = "append"}
                          \cup {w \in {"logs"} : ~LogsReplayInOrder}

\* The process is killed, wherever its requests and its job are: also by a read that
\* throws (ThrowInGet) or a failed rename or removal (ThrowInSwapWith).
Die ==
    /\ status = "up" /\ crashes < MaxCrashes
    /\ status' = "dead" /\ crashes' = crashes + 1
    /\ RecordDeath
    /\ UNCHANGED <<mem, wal, disk, collection, jobVars, clients, bounds, bootVars, logged>>

DieOfEmptyTable ==
    /\ CompactEmptyTable
    /\ RecordDeath
    /\ UNCHANGED <<bootVars, crashes, logged>>

\* What was in a log that the job removes is in no log.
ForgetRemoved ==
    logged' = [r \in Requests |-> IF logged[r] \in Logs' THEN logged[r] ELSE NoFile]

Serve ==
    \/ \E r \in Requests :
          \/ CallWrite(r) /\ UNCHANGED history
          \/ LogWrite(r) /\ UNCHANGED <<owed, windows>>
          \/ ApplyWrite(r) /\ UNCHANGED <<logged, owed>>
          \/ /\ \/ TakeFirst(r) \/ ReadFirst(r) \/ TakeSecond(r) \/ ReadSecond(r)
                \/ ReadPersistent(r) \/ FailWal(r) \/ TakeWriter(r) \/ CheckSize(r) \/ TryAcquire(r) \/ Return(r)
             /\ UNCHANGED history
    \/ JobStep /\ status' = "up" /\ ForgetRemoved /\ UNCHANGED <<owed, windows>>

-----------------------------------------------------------------------------
(* InitializeStorages *)

Booting(at) == status = "dead" /\ boot = at
unaffected == <<clients, status, bounds, crashes, history>>

\* The process is started again: everything in memory is new, the collection is
\* what ReadCollection finds.
Restart ==
    /\ Booting("none")
    /\ maps' = [m \in MemIds |-> EmptyTable]
    /\ writer' = readerSecond
    /\ readerFirst' = NewMap({readerSecond})
    /\ collection' = Loaded
    /\ jobPc' = "off" /\ guard' = FALSE /\ broken' = FALSE
    /\ pc' = [r \in Requests |-> "idle"]
    /\ call' = [r \in Requests |-> NoCall]
    /\ reply' = [r \in Requests |-> NoReply]
    /\ seen' = [r \in Requests |-> {}]
    /\ overtaken' = [r \in Requests |-> FALSE]
    /\ boot' = "replay" /\ todo' = Logs
    /\ UNCHANGED <<readerSecond, target, wals, walWriter, disk, job, status, bounds, current,
                   crashes, history>>

\* GetMaxVersion of a log without entries reads past the end of the vector: the
\* process is killed, and the next start meets the same log.
ReplayEmptyLog ==
    /\ Booting("replay")
    /\ \E w \in todo : wals[w] = EmptyTable
    /\ boot' = "none" /\ todo' = {}
    /\ UNCHANGED <<mem, wal, disk, collection, jobVars, current, unaffected>>

\* Mutant: the log is not taken off the list.
ReplayAgain ==
    /\ Booting("replay")
    /\ \E w \in todo :
          /\ wals[w] # EmptyTable /\ ~IsLarge(wals[w])
          /\ maps' = [maps EXCEPT ![readerSecond] = wals[w]]
          /\ walWriter' = w
    /\ UNCHANGED <<readerFirst, readerSecond, writer, wals, broken, disk, collection,
                   jobVars, boot, todo, current, unaffected>>

\* A small log becomes the memory table, and the log that is written from now on:
\* both replace those of the logs replayed before, whose files stay.
ReplaySmallLog ==
    /\ Booting("replay")
    /\ \E w \in todo :
          /\ wals[w] # EmptyTable /\ ~IsLarge(wals[w])
          /\ maps' = [maps EXCEPT ![readerSecond] = wals[w]]
          /\ walWriter' = w
          /\ todo' = todo \ {w}
    /\ UNCHANGED <<readerFirst, readerSecond, writer, wals, broken, disk, collection,
                   jobVars, boot, current, unaffected>>

\* Mutant: the log is removed before the table made of it is listed.
ReplayAndRemove ==
    /\ Booting("replay")
    /\ HasNewPath
    /\ \E w \in todo :
          /\ IsLarge(wals[w])
          /\ files' = [files EXCEPT ![NewPath] = wals[w]]
          /\ lost' = [lost EXCEPT ![NewPath] = {}]
          /\ job' = [job EXCEPT !.path = NewPath, !.data = wals[w]]
          /\ current' = w
          /\ todo' = todo \ {w}
          /\ wals' = [wals EXCEPT ![w] = NoFile]
    /\ boot' = "truncate"
    /\ UNCHANGED <<mem, walWriter, broken, metadata, collection, jobPc, guard, unaffected>>

\* A large log becomes a table ...
ReplayLargeLog ==
    /\ Booting("replay")
    /\ HasNewPath
    /\ \E w \in todo :
          /\ IsLarge(wals[w])
          /\ files' = [files EXCEPT ![NewPath] = wals[w]]
          /\ lost' = [lost EXCEPT ![NewPath] = {}]
          /\ job' = [job EXCEPT !.path = NewPath, !.data = wals[w]]
          /\ current' = w
          /\ todo' = todo \ {w}
    /\ boot' = "truncate"
    /\ UNCHANGED <<mem, wal, metadata, collection, jobPc, guard, unaffected>>

\* ... that is added to the collection with PersistentStorageCollection::Add ...
BootTruncate ==
    /\ Booting("truncate")
    /\ job' = [job EXCEPT !.meta = WithTable(metadata, job.path)]
    /\ metadata' = <<>>
    /\ boot' = "append"
    /\ UNCHANGED <<mem, wal, files, lost, collection, jobPc, guard, todo, current, unaffected>>

BootAppend ==
    /\ Booting("append")
    /\ metadata' = job.meta
    /\ collection' = Append(collection, [path |-> job.path, table |-> job.data])
    /\ boot' = "remove"
    /\ UNCHANGED <<mem, wal, files, lost, jobVars, todo, current, unaffected>>

\* ... and only then is removed.
BootRemove ==
    /\ Booting("remove")
    /\ wals' = [wals EXCEPT ![current] = NoFile]
    /\ boot' = "replay"
    /\ UNCHANGED <<mem, walWriter, broken, disk, collection, jobVars, todo, current, unaffected>>

\* Mutant: nothing is written when no log was kept.
OpenNothing ==
    /\ Booting("replay") /\ todo = {}
    /\ walWriter' = IF maps[readerSecond] # EmptyTable THEN walWriter ELSE NoFile
    /\ boot' = "ready"
    /\ UNCHANGED <<mem, wals, broken, disk, collection, jobVars, todo, current, unaffected>>

\* When no log was kept, a new one is created.
OpenLog ==
    /\ Booting("replay") /\ todo = {}
    /\ IF maps[readerSecond] # EmptyTable
       THEN UNCHANGED <<wals, walWriter>>
       ELSE /\ HasNewWal
            /\ wals' = [wals EXCEPT ![NewWal] = EmptyTable]
            /\ walWriter' = NewWal
    /\ boot' = "ready"
    /\ UNCHANGED <<mem, broken, disk, collection, jobVars, todo, current, unaffected>>

StartServing ==
    /\ Booting("ready")
    /\ status' = "up" /\ boot' = "none"
    /\ UNCHANGED <<mem, wal, disk, collection, jobVars, clients, bounds, todo, current,
                   crashes, history>>

\* The process may die while it starts, too.
DieBooting ==
    /\ status = "dead" /\ boot # "none" /\ crashes < MaxCrashes
    /\ crashes' = crashes + 1
    /\ boot' = "none" /\ todo' = {}
    /\ windows' = windows \cup {w \in {"torn"} : boot = "append"}
    /\ UNCHANGED <<mem, wal, disk, collection, jobVars, clients, status, bounds, current,
                   logged, owed>>

Recover ==
    \/ Restart \/ ReplayEmptyLog \/ ReplaySmallLog \/ ReplayLargeLog
    \/ BootTruncate \/ BootAppend \/ BootRemove \/ OpenLog \/ StartServing

Done ==
    /\ status = "up" /\ calls = MaxCalls /\ jobPc = "off"
    /\ \A r \in Requests : pc[r] = "idle"
    /\ UNCHANGED allVars

RNext ==
    \/ Serve /\ UNCHANGED <<bootVars, crashes>>
    \/ DieOfEmptyTable \/ Die \/ DieBooting
    \/ Recover
    \/ Done

RSpec == RInit /\ [][RNext]_allVars

-----------------------------------------------------------------------------
(* Properties *)

\* After a restart every key holds an entry that was owed, unless one of the
\* windows outside W has been hit.
RecoveredDespite(W) ==
    Booting("ready") /\ windows \subseteq W => \A k \in Keys : Lookup(k) \in owed[k]

\* A node that died outside of the windows has lost nothing that it answered,
\* wherever the swap and the compaction were, and although it may have died again
\* while it started (wal_reader.cpp:112-168).
RecoveredOutsideWindows == RecoveredDespite({})

\* recovery_test.cpp:35-64 expects an acknowledged insert back after a restart.
\* Violated by one that was logged before the swap of the logs and reached memory
\* after the swap of the tables: its log is removed, and no table has it.
StraddlersRecovered == RecoveredDespite({"straddle"})

\* The process is started again whenever it has died, and its start goes on.
FairRSpec == RSpec /\ WF_allVars(Recover)

HasEmptyLog == \E w \in Logs : wals[w] = EmptyTable

\* A start ends, with a node that serves, also when large logs must be moved to
\* disk first; a log without entries is the exception (wal_reader.cpp:127-166).
RestartEnds == status = "dead" ~> (status = "up" \/ HasEmptyLog)

\* recovery_test.cpp:18-33 takes two logs, the second of them just created and
\* empty, for what a node finds at its start.  Violated: an empty log kills every
\* start (wal_reader.cpp:19-21, 135).
RestartServes == status = "dead" ~> status = "up"
=============================================================================
