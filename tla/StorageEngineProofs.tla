------------------------- MODULE StorageEngineProofs -------------------------
(***************************************************************************)
(* Proofs about StorageEngine, for any number of keys, requests, calls and   *)
(* faults: it is type correct, every Get is answered with what its key held   *)
(* during the call, and it implements KVStore: every step of a request is a   *)
(* step of the abstract store or changes nothing there, and no step of the    *)
(* job changes what a key holds.                                              *)
(***************************************************************************)
EXTENDS StorageEngine, SequenceTheorems, TLAPS

-----------------------------------------------------------------------------
(* The operators that read the open tables *)

\* The newest index is the only one, and is the one that is chosen.
LEMMA NewestIndexIs ==
    ASSUME NEW tables, NEW k, NEW n \in DOMAIN tables, IsNewest(tables, k, n),
           \A i \in DOMAIN tables : IsNewest(tables, k, i) => i = n
    PROVE  NewestIn(tables, k) = tables[n].table[k]
<1>1. NewestIndex(tables, k) = n
    BY DEF NewestIndex
<1> QED
    BY <1>1 DEF NewestIn, HasNewest

\* An open table is looked up for an entry, and there may be none.
LEMMA NewestInType ==
    ASSUME NEW tables \in Seq(OpenTable), NEW k \in Keys
    PROVE  NewestIn(tables, k) \in Entry \cup {None}
<1>1. CASE HasNewest(tables, k)
    <2>1. NewestIndex(tables, k) \in DOMAIN tables
        BY <1>1 DEF HasNewest, NewestIndex
    <2>2. tables[NewestIndex(tables, k)] \in OpenTable
        BY <2>1
    <2>3. tables[NewestIndex(tables, k)].table[k] \in Entry \cup {None}
        BY <2>2 DEF OpenTable, Table
    <2> QED
        BY <1>1, <2>3 DEF NewestIn
<1>2. CASE ~HasNewest(tables, k)
    BY <1>2 DEF NewestIn
<1> QED
    BY <1>1, <1>2

\* A table that is added answers for the keys it has, and for no other.
LEMMA NewestInAppend ==
    ASSUME NEW tables \in Seq(OpenTable), NEW t \in OpenTable, NEW k \in Keys
    PROVE  NewestIn(Append(tables, t), k) =
              IF t.table[k] # None THEN t.table[k] ELSE NewestIn(tables, k)
<1> DEFINE more == Append(tables, t)
           n == Len(tables)
<1>1. /\ n \in Nat /\ DOMAIN tables = 1..n /\ DOMAIN more = 1..(n + 1)
      /\ more[n + 1] = t
      /\ \A i \in 1..n : more[i] = tables[i]
    BY AppendProperties, LenProperties
<1> HIDE DEF more, n
<1>2. CASE t.table[k] # None
    <2>1. IsNewest(more, k, n + 1)
        BY <1>1, <1>2 DEF IsNewest
    <2>2. \A i \in DOMAIN more : IsNewest(more, k, i) => i = n + 1
        BY <1>1, <1>2 DEF IsNewest
    <2>3. NewestIn(more, k) = more[n + 1].table[k]
        BY <1>1, <2>1, <2>2, NewestIndexIs
    <2> QED
        BY <1>1, <1>2, <2>3 DEF more
<1>3. CASE t.table[k] = None
    <2>1. \A i : i \in DOMAIN more /\ IsNewest(more, k, i)
                    <=> i \in DOMAIN tables /\ IsNewest(tables, k, i)
        <3>1. ASSUME NEW i, i \in DOMAIN tables, IsNewest(tables, k, i)
              PROVE  i \in DOMAIN more /\ IsNewest(more, k, i)
            BY <1>1, <1>3, <3>1 DEF IsNewest
        <3>2. ASSUME NEW i, i \in DOMAIN more, IsNewest(more, k, i)
              PROVE  i \in DOMAIN tables /\ IsNewest(tables, k, i)
            BY <1>1, <1>3, <3>2 DEF IsNewest
        <3> QED
            BY <3>1, <3>2
    <2>2. HasNewest(more, k) <=> HasNewest(tables, k)
        BY <2>1 DEF HasNewest
    <2>3. ASSUME HasNewest(tables, k)
          PROVE  NewestIn(more, k) = NewestIn(tables, k)
        <3>1. PICK i \in DOMAIN tables : IsNewest(tables, k, i)
            BY <2>3 DEF HasNewest
        <3>2. \A j \in DOMAIN tables : IsNewest(tables, k, j) => j = i
            BY <1>1, <3>1 DEF IsNewest
        <3>3. NewestIn(tables, k) = tables[i].table[k]
            BY <3>1, <3>2, NewestIndexIs
        <3>4. i \in DOMAIN more /\ IsNewest(more, k, i)
            BY <2>1, <3>1
        <3>5. \A j \in DOMAIN more : IsNewest(more, k, j) => j = i
            BY <2>1, <3>2
        <3>6. NewestIn(more, k) = more[i].table[k]
            BY <3>4, <3>5, NewestIndexIs
        <3> QED
            BY <1>1, <3>1, <3>3, <3>6
    <2>4. ASSUME ~HasNewest(tables, k)
          PROVE  NewestIn(more, k) = NewestIn(tables, k)
        BY <2>2, <2>4 DEF NewestIn
    <2> QED
        BY <1>3, <2>3, <2>4 DEF more
<1> QED
    BY <1>2, <1>3

\* One table alone answers with what it has.
LEMMA NewestInSingle ==
    ASSUME NEW t \in OpenTable, NEW k \in Keys
    PROVE  NewestIn(<<t>>, k) = t.table[k]
<1> DEFINE one == <<t>>
<1>1. DOMAIN one = {1} /\ one[1] = t
    OBVIOUS
<1> HIDE DEF one
<1>2. CASE t.table[k] # None
    <2>1. IsNewest(one, k, 1) /\ \A i \in DOMAIN one : IsNewest(one, k, i) => i = 1
        BY <1>1, <1>2 DEF IsNewest
    <2>2. NewestIn(one, k) = one[1].table[k]
        BY <1>1, <2>1, NewestIndexIs
    <2> QED
        BY <1>1, <2>2 DEF one
<1>3. CASE t.table[k] = None
    <2>1. ~HasNewest(one, k)
        BY <1>1, <1>3 DEF IsNewest, HasNewest
    <2> QED
        BY <1>3, <2>1 DEF NewestIn, one
<1> QED
    BY <1>2, <1>3

\* A new address is not the one in use.
LEMMA NewMapIsNew ==
    ASSUME NEW m \in MemIds
    PROVE  NewMap({m}) \in MemIds /\ NewMap({m}) # m
BY ResourcesAssumption DEF NewMap

\* A new name is that of no file, of no listed and of no open table.
LEMMA NewPathIsNew == HasNewPath => NewPath \in Paths /\ IsNewPath(NewPath)
BY DEF HasNewPath, NewPath

\* A search on the disk that does not throw finds the newest entry.
LEMMA ReadPersistentFinds ==
    ASSUME NEW r \in Requests, ReadPersistent(r)
    PROVE  FoundOnDisk(r, PersistentGet(Key(r)))
<1>1. \A entry \in SearchResults(Key(r)) : entry = PersistentGet(Key(r))
    BY DEF SearchResults
<1> QED
    BY <1>1 DEF ReadPersistent

-----------------------------------------------------------------------------
(* Types *)

\* TypeOK is not inductive by itself: what is written to the log must be written
\* to a file, and a request that is being served must have a key and an entry.
TypeInv ==
    /\ TypeOK
    /\ LogInUse
    /\ \A r \in Requests : Active(r) => call[r] \in Call

LEMMA InitTypeInv == Init => TypeInv
<1> SUFFICES ASSUME Init PROVE TypeInv
    OBVIOUS
<1>1. EmptyTable \in Table
    BY DEF EmptyTable, Table
<1>2. readerSecond \in MemIds /\ readerFirst \in MemIds /\ walWriter \in WalIds
    BY ResourcesAssumption DEF Init
<1>3. job \in Job
    BY <1>1, <1>2, ResourcesAssumption DEF Init, Job
<1>4. TypeOK
    <2>1. metadata \in Seq(Paths) /\ collection \in Seq(OpenTable)
        BY DEF Init
    <2>2. wals \in [WalIds -> Table \cup {NoFile}]
        BY <1>1 DEF Init
    <2>3. overtaken \in [Requests -> BOOLEAN] /\ broken \in BOOLEAN /\ guard \in BOOLEAN
        BY DEF Init
    <2> QED
        BY <1>1, <1>2, <1>3, <2>1, <2>2, <2>3 DEF Init, TypeOK, JobPcs, RequestPcs
<1>5. LogInUse
    BY <1>1, <1>2, NoFileAssumption DEF Init, LogInUse, Moving
<1> QED
    BY <1>4, <1>5 DEF TypeInv, Init, Active

\* What a live entry is answered with, from memory or from a file, can be answered.
LEMMA FoundIsAnAnswer ==
    ASSUME NEW entry \in Entry \cup {None}, IsLive(entry)
    PROVE  /\ [value |-> entry.value, version |-> 0] \in DTO
           /\ [value |-> entry.value, version |-> entry.version] \in DTO
<1>1. entry \in Entry /\ entry.value # Nullopt
    BY DEF IsLive
<1>2. entry.value \in Values /\ entry.version \in Versions
    BY <1>1 DEF Entry
<1> QED
    BY <1>2 DEF DTO

\* A .data file has the entries of a table, or lacks some of them.
LEMMA WriteFileType ==
    ASSUME files \in [Paths -> Table \cup {NoFile}], lost \in [Paths -> SUBSET Keys],
           faults \in Nat, NEW p \in Paths, NEW table \in Table, WriteFile(p, table)
    PROVE  /\ files' \in [Paths -> Table \cup {NoFile}]
           /\ lost' \in [Paths -> SUBSET Keys]
           /\ faults' \in Nat
<1>1. EmptyTable \in Table
    BY DEF EmptyTable, Table
<1>2. PICK left \in Table \cup {NoFile} : files' = [files EXCEPT ![p] = left]
    BY <1>1 DEF WriteFile
<1>3. PICK gone \in SUBSET Keys : lost' = [lost EXCEPT ![p] = gone]
    BY DEF WriteFile, EntriesOf
<1>4. faults' \in Nat
    BY DEF WriteFile, Fault
<1> QED
    BY <1>2, <1>3, <1>4

LEMMA RequestTypeInv ==
    ASSUME TypeInv, NEW r \in Requests, Invoke(r) \/ RequestStep(r)
    PROVE  TypeInv'
<1> USE DEF TypeInv, TypeOK, RequestPcs, Active, At, Goto, Finish, FinishWrite, Take, Key,
            mem, wal, disk, jobVars, clients, bounds
<1>1. CASE Invoke(r)
    <2>1. \A k \in Keys : Lookup(k) \in Entry \cup {None}
        BY NewestInType DEF Lookup, PersistentGet, Table
    <2>2. TypeOK'
        BY <1>1, <2>1 DEF Invoke, Call
    <2>3. LogInUse'
        BY <1>1 DEF Invoke, LogInUse
    <2> QED
        BY <1>1, <2>2, <2>3 DEF Invoke
<1>2. CASE TakeFirst(r) \/ TakeSecond(r) \/ TakeWriter(r)
    <2>1. PICK table \in MemIds, next \in RequestPcs : Take(r, table, next) /\ Active(r)
        BY <1>2 DEF TakeFirst, TakeSecond, TakeWriter
    <2>2. TypeOK' /\ LogInUse'
        BY <2>1 DEF LogInUse
    <2> QED
        BY <2>1, <2>2
<1>3. CASE ReadFirst(r) \/ ReadSecond(r)
    <2>1. maps[target[r]][Key(r)] \in Entry \cup {None}
        BY <1>3 DEF ReadFirst, ReadSecond, Call, Table
    <2>2. PICK next \in {"second", "persistent"} : Read(r, next) /\ Active(r)
        BY <1>3 DEF ReadFirst, ReadSecond
    <2>3. reply' \in [Requests -> DTO \cup {NotFound, Ok, Failed, NoReply}]
        <3> DEFINE entry == maps[target[r]][Key(r)]
        <3>1. entry \in Entry \cup {None} /\ reply \in [Requests -> DTO \cup {NotFound, Ok, Failed, NoReply}]
            BY <2>1
        <3>2. \/ UNCHANGED reply
              \/ IsLive(entry) /\ reply' = [reply EXCEPT ![r] = [value |-> entry.value, version |-> 0]]
              \/ reply' = [reply EXCEPT ![r] = NotFound]
            BY <2>2 DEF Read, FoundInMemory
        <3> HIDE DEF entry
        <3> QED
            BY ONLY r \in Requests, <3>1, <3>2, FoundIsAnAnswer
    <2>4. pc' \in [Requests -> RequestPcs]
        BY <2>2 DEF Read, FoundInMemory
    <2>5. TypeOK'
        BY <2>2, <2>3, <2>4 DEF Read
    <2>6. LogInUse'
        BY <2>2 DEF Read, LogInUse
    <2>7. \A q \in Requests : Active(q)' => Active(q)
        BY <2>2, <2>4 DEF Read, FoundInMemory
    <2> QED
        BY <2>2, <2>5, <2>6, <2>7 DEF Read
<1>4. CASE ReadPersistent(r)
    <2>1. PersistentGet(Key(r)) \in Entry \cup {None}
        BY <1>4, NewestInType DEF ReadPersistent, PersistentGet, Call
    <2> DEFINE entry == PersistentGet(Key(r))
    <2>4. FoundOnDisk(r, entry)
        BY <1>4, ReadPersistentFinds
    <2> HIDE DEF entry
    <2>2. reply' \in [Requests -> DTO \cup {NotFound, Ok, Failed, NoReply}]
        <3>1. entry \in Entry \cup {None} /\ reply \in [Requests -> DTO \cup {NotFound, Ok, Failed, NoReply}]
            BY <2>1 DEF entry
        <3>2. \/ UNCHANGED reply
              \/ IsLive(entry) /\ reply' = [reply EXCEPT ![r] = [value |-> entry.value, version |-> entry.version]]
              \/ reply' = [reply EXCEPT ![r] = NotFound]
              \/ reply' = [reply EXCEPT ![r] = Ok]
            BY <2>4 DEF FoundOnDisk
        <3> QED
            BY ONLY r \in Requests, <3>1, <3>2, FoundIsAnAnswer
    <2>3. pc' \in [Requests -> RequestPcs] /\ \A q \in Requests : Active(q)' => Active(q)
        BY <1>4, <2>4 DEF ReadPersistent, FoundOnDisk
    <2> QED
        BY <1>4, <2>2, <2>3 DEF ReadPersistent, LogInUse
<1>5. CASE WriteWal(r)
    <2>1. wals' \in [WalIds -> Table \cup {NoFile}] /\ wals'[walWriter] # NoFile
          /\ \A w \in WalIds : wals[w] # NoFile => wals'[w] # NoFile
        <3>1. wals[walWriter] \in Table /\ call[r].entry \in Entry \cup {None}
            BY <1>5 DEF WriteWal, LogInUse, Call
        <3>2. [wals[walWriter] EXCEPT ![Key(r)] = call[r].entry] \in Table
            BY <3>1 DEF Table
        <3>3. CASE UNCHANGED wals
            BY <3>3 DEF LogInUse
        <3>4. CASE wals' = [wals EXCEPT ![walWriter][Key(r)] = call[r].entry]
            BY <3>1, <3>2, <3>4, NoFileAssumption
        <3> QED
            BY <1>5, <3>3, <3>4 DEF WriteWal
    <2>2. faults' \in Nat
        BY <1>5 DEF WriteWal, Fault
    <2>3. TypeOK'
        <3>1. broken' \in BOOLEAN
            BY <1>5 DEF WriteWal
        <3> QED
            BY <1>5, <2>1, <2>2, <3>1 DEF WriteWal
    <2>4. LogInUse'
        BY <1>5, <2>1 DEF WriteWal, LogInUse, Job
    <2> QED
        BY <1>5, <2>3, <2>4 DEF WriteWal
<1>6. CASE FailWal(r)
    <2>1. broken' \in BOOLEAN /\ faults' \in Nat
        <3>1. CASE UNCHANGED <<broken, faults>>
            BY <3>1
        <3>2. CASE Fault /\ broken' = TRUE
            BY <3>2 DEF Fault
        <3> QED
            BY <1>6, <3>1, <3>2 DEF FailWal
    <2>2. reply' \in [Requests -> DTO \cup {NotFound, Ok, Failed, NoReply}]
        BY <1>6 DEF FailWal
    <2>3. pc' = [pc EXCEPT ![r] = "return"]
        BY <1>6 DEF FailWal
    <2>4. UNCHANGED <<mem, wals, walWriter, disk, collection, jobVars, target, call, seen,
                      overtaken, status, calls>>
        BY <1>6 DEF FailWal
    <2>5. TypeOK'
        BY <2>1, <2>2, <2>3, <2>4
    <2>6. LogInUse'
        BY <2>4 DEF LogInUse
    <2>7. \A q \in Requests : Active(q)' => Active(q)
        BY <1>6, <2>3 DEF FailWal
    <2> QED
        BY <2>4, <2>5, <2>6, <2>7
<1>7. CASE WriteMem(r)
    <2>1. call[r].entry \in Entry \cup {None} /\ Key(r) \in Keys /\ maps[target[r]] \in Table
        BY <1>7 DEF WriteMem, Call
    <2>2. maps' \in [MemIds -> Table]
        <3>1. [maps[target[r]] EXCEPT ![Key(r)] = call[r].entry] \in Table
            BY <2>1 DEF Table
        <3> QED
            BY <1>7, <3>1 DEF WriteMem
    <2>3. seen' \in [Requests -> SUBSET (Entry \cup {None})]
        BY <1>7, <2>1 DEF WriteMem
    <2>4. overtaken' \in [Requests -> BOOLEAN]
        BY <1>7 DEF WriteMem
    <2>5. TypeOK'
        BY <1>7, <2>2, <2>3, <2>4 DEF WriteMem
    <2>6. LogInUse'
        BY <1>7 DEF WriteMem, LogInUse
    <2> QED
        BY <1>7, <2>5, <2>6 DEF WriteMem
<1>8. CASE CheckSize(r)
    BY <1>8 DEF CheckSize, LogInUse
<1>9. CASE TryAcquire(r)
    BY <1>9 DEF TryAcquire, LogInUse, Moving, JobPcs
<1>10. CASE Return(r)
    BY <1>10 DEF Return, LogInUse
<1>11. CASE ThrowInGet(r)
    <2>1. faults' \in Nat
        BY <1>11 DEF ThrowInGet, Fault
    <2> QED
        BY <1>11, <2>1 DEF ThrowInGet, LogInUse
<1> QED
    BY <1>1, <1>2, <1>3, <1>4, <1>5, <1>6, <1>7, <1>8, <1>9, <1>10, <1>11 DEF RequestStep

\* What merging gives is a table.
LEMMA MergedType ==
    ASSUME NEW tables \in Seq(OpenTable)
    PROVE  Merged(tables) \in Table
BY NewestInType DEF Merged, Table

\* The job does not touch the requests: their part of TypeInv is left as it is.
LEMMA DoomedType ==
    ASSUME NEW j \in Job, NEW p
    PROVE  [j EXCEPT !.doomed = @ \ {p}] \in Job
BY DEF Job

LEMMA JobTypeInv ==
    ASSUME TypeInv, JobStep
    PROVE  TypeInv'
<1> USE DEF TypeInv, TypeOK, JobPcs, Active, JobAt, JobGoto, GiveUp, Moving,
            mem, wal, disk, clients, bounds
<1>1. CASE CreateWal
    <2>1. CASE GiveUp /\ UNCHANGED wals
        BY <1>1, <2>1 DEF CreateWal, Fault, LogInUse
    <2>2. CASE HasNewWal /\ UNCHANGED faults
        <3>1. NewWal \in WalIds /\ wals[NewWal] = NoFile /\ EmptyTable \in Table
            BY <2>2 DEF HasNewWal, NewWal, EmptyTable, Table
        <3>2. /\ wals' = [wals EXCEPT ![NewWal] = EmptyTable]
              /\ job' = [job EXCEPT !.oldWal = walWriter, !.newWal = NewWal]
              /\ jobPc' = "swapwal" /\ UNCHANGED guard
            BY <1>1, <2>2 DEF CreateWal, Fault
        <3>3. job' \in Job /\ job'.oldWal = walWriter /\ job'.newWal = NewWal
            BY <3>1, <3>2 DEF Job
        <3>4. NewWal # walWriter
            BY <3>1 DEF LogInUse
        <3>5. LogInUse'
            BY <1>1, <3>1, <3>2, <3>3, <3>4, NoFileAssumption DEF CreateWal, LogInUse
        <3> QED
            BY <1>1, <2>2, <3>1, <3>2, <3>3, <3>5 DEF CreateWal
    <2> QED
        BY <1>1, <2>1, <2>2 DEF CreateWal
<1>2. CASE SwapWal
    <2>1. job.newWal \in WalIds
        BY DEF Job
    <2> QED
        BY <1>2, <2>1 DEF SwapWal, LogInUse
<1>3. CASE SwitchWriter
    BY <1>3 DEF SwitchWriter, LogInUse
<1>4. CASE CopySecond
    <2>1. job' \in Job /\ job'.oldWal = job.oldWal
        BY <1>4 DEF CopySecond, Collected, Job
    <2> QED
        BY <1>4, <2>1 DEF CopySecond, LogInUse
<1>5. CASE WriteTable
    <2>1. HasNewPath => NewPath \in Paths
        BY NewPathIsNew
    <2>2. job' \in Job /\ job'.oldWal = job.oldWal
        BY <1>5, <2>1 DEF WriteTable, Job
    <2>3. /\ files' \in [Paths -> Table \cup {NoFile}] /\ lost' \in [Paths -> SUBSET Keys]
          /\ faults' \in Nat
        <3>1. CASE GiveUp /\ UNCHANGED <<files, lost>>
            BY <3>1 DEF Fault
        <3>2. CASE HasNewPath /\ WriteFile(NewPath, job.data)
            BY <2>1, <3>2, WriteFileType DEF Job
        <3> QED
            BY <1>5, <3>1, <3>2 DEF WriteTable
    <2> QED
        BY <1>5, <2>2, <2>3 DEF WriteTable, LogInUse
<1>6. CASE TruncateMetadata
    <2>1. WithTable(metadata, job.path) \in Seq(Paths) /\ <<job.path>> \in Seq(Paths)
          /\ <<>> \in Seq(Paths)
        BY DEF WithTable, Job
    <2>2. job' \in Job /\ job'.oldWal = job.oldWal
        BY <1>6, <2>1 DEF TruncateMetadata, Job
    <2>3. faults' \in Nat
        BY <1>6 DEF TruncateMetadata, Fault
    <2>4. metadata' \in Seq(Paths)
        BY <1>6, <2>1 DEF TruncateMetadata
    <2> QED
        BY <1>6, <2>2, <2>3, <2>4 DEF TruncateMetadata, LogInUse
<1>7. CASE AppendMetadata
    <2>1. metadata' \in Seq(Paths) /\ faults' \in Nat
        BY <1>7 DEF AppendMetadata, Fault, Job
    <2> QED
        BY <1>7, <2>1 DEF AppendMetadata, LogInUse
<1>8. CASE PushTable
    <2>1. [path |-> job.path, table |-> job.data] \in OpenTable
        BY DEF Job, OpenTable
    <2>2. collection' \in Seq(OpenTable)
        BY <1>8, <2>1 DEF PushTable
    <2> QED
        BY <1>8, <2>2 DEF PushTable, LogInUse
<1>9. CASE DropCollected
    BY <1>9 DEF DropCollected, LogInUse
<1>10. CASE RefillFirst
    <2>1. NewMap({readerSecond}) \in MemIds /\ EmptyTable \in Table
        BY NewMapIsNew DEF EmptyTable, Table
    <2> QED
        BY <1>10, <2>1 DEF RefillFirst, LogInUse
<1>11. CASE RemoveWal
    <2>1. wals' \in [WalIds -> Table \cup {NoFile}]
        BY <1>11 DEF RemoveWal
    <2>2. LogInUse'
        BY <1>11 DEF RemoveWal, LogInUse
    <2> QED
        BY <1>11, <2>1, <2>2 DEF RemoveWal
<1>12. CASE Compact
    <2>1. HasNewPath => NewPath \in Paths
        BY NewPathIsNew
    <2> DEFINE merged == Merged(collection)
    <2>2. merged \in Table
        BY MergedType
    <2> HIDE DEF merged
    <2>3. CASE JobGoto("release") /\ UNCHANGED <<job, files, lost, faults>>
        BY <1>12, <2>3 DEF Compact, LogInUse
    <2>4. CASE GiveUp /\ UNCHANGED <<files, lost>>
        BY <1>12, <2>4 DEF Compact, Fault, LogInUse
    <2>5. CASE /\ HasNewPath /\ job' = [job EXCEPT !.data = merged, !.path = NewPath]
               /\ WriteFile(NewPath, merged) /\ JobGoto("rename")
        <3>1. job' \in Job /\ job'.oldWal = job.oldWal
            BY <2>1, <2>2, <2>5 DEF Job
        <3>2. /\ files' \in [Paths -> Table \cup {NoFile}] /\ lost' \in [Paths -> SUBSET Keys]
              /\ faults' \in Nat
            BY <2>1, <2>2, <2>5, WriteFileType
        <3> QED
            BY <1>12, <2>5, <3>1, <3>2 DEF Compact, LogInUse
    <2> QED
        BY <1>12, <2>3, <2>4, <2>5 DEF Compact, merged
<1>13. CASE CompactEmptyTable
    BY <1>13 DEF CompactEmptyTable, jobVars, LogInUse
<1>14. CASE RenameMetadata
    <2>1. WithTable(metadata, job.path) \in Seq(Paths) /\ <<job.path>> \in Seq(Paths)
          /\ <<>> \in Seq(Paths)
        BY DEF WithTable, Job
    <2>2. metadata' \in Seq(Paths)
        BY <1>14, <2>1 DEF RenameMetadata
    <2>3. Opened \subseteq Paths
        <3>1. \A i \in DOMAIN collection : collection[i] \in OpenTable
            OBVIOUS
        <3>2. \A i \in DOMAIN collection : collection[i].path \in Paths
            BY <3>1 DEF OpenTable
        <3> QED
            BY <3>2 DEF Opened
    <2>4. job' \in Job
        BY <1>14, <2>3 DEF RenameMetadata, Job
    <2>5. faults' \in Nat
        BY <1>14 DEF RenameMetadata, Fault
    <2> QED
        BY <1>14, <2>2, <2>4, <2>5 DEF RenameMetadata, LogInUse
<1>15. CASE ReplaceCollection
    <2>1. [path |-> job.path, table |-> job.data] \in OpenTable
        BY DEF Job, OpenTable
    <2>2. collection' \in Seq(OpenTable)
        BY <1>15, <2>1 DEF ReplaceCollection
    <2> QED
        BY <1>15, <2>2 DEF ReplaceCollection, LogInUse
<1>16. CASE RemoveFiles
    <2>1. files' \in [Paths -> Table \cup {NoFile}]
        BY <1>16 DEF RemoveFiles
    <2>2. job' \in Job
        <3>1. CASE job' = job
            BY <3>1 DEF Job
        <3>2. CASE \E p \in job.doomed : job' = [job EXCEPT !.doomed = @ \ {p}]
            <4>1. job \in Job
                OBVIOUS
            <4>2. PICK p \in job.doomed : job' = [job EXCEPT !.doomed = @ \ {p}]
                BY <3>2
            <4> HIDE DEF TypeInv, TypeOK
            <4> QED
                BY <4>1, <4>2, DoomedType
        <3> QED
            BY <1>16, <3>1, <3>2 DEF RemoveFiles
    <2> QED
        BY <1>16, <2>1, <2>2 DEF RemoveFiles, LogInUse
<1>17. CASE Release
    BY <1>17 DEF Release, LogInUse
<1>18. CASE ThrowInSwapWith
    <2>1. faults' \in Nat
        BY <1>18 DEF ThrowInSwapWith, Fault
    <2> QED
        BY <1>18, <2>1 DEF ThrowInSwapWith, jobVars, LogInUse
<1> QED
    BY <1>1, <1>2, <1>3, <1>4, <1>5, <1>6, <1>7, <1>8, <1>9, <1>10, <1>11, <1>12, <1>13,
       <1>14, <1>15, <1>16, <1>17, <1>18 DEF JobStep

LEMMA StutterTypeInv ==
    ASSUME TypeInv, UNCHANGED vars
    PROVE  TypeInv'
BY DEF TypeInv, TypeOK, LogInUse, Active, vars, mem, wal, disk, jobVars, clients, bounds

LEMMA TypeInvariant == Spec => []TypeInv
<1>1. TypeInv /\ [Next]_vars => TypeInv'
    BY RequestTypeInv, JobTypeInv, StutterTypeInv DEF Next, Halted
<1> QED
    BY <1>1, InitTypeInv, PTL DEF Spec

\* The variables of the engine keep their types, whatever the requests, the job and
\* the disk do: memory tables, logs and files hold entries under keys
\* (swappable_memory_storage.cpp, swappable_wal_writer.cpp, controller.cpp:43-70).
THEOREM TypeCorrect == Spec => []TypeOK
BY TypeInvariant, PTL DEF TypeInv

-----------------------------------------------------------------------------
(* Reads *)

\* ReadsCurrent with what it needs to be inductive: what a request may still
\* read, its key has held since the call (Ahead), because the job keeps the tables
\* in order and moves entries before it drops them.
Inv == TypeInv /\ EngineInv /\ ReadsCurrent

LEMMA InitInv == Init => Inv
<1> SUFFICES ASSUME Init PROVE Inv
    OBVIOUS
<1>1. TypeInv
    BY InitTypeInv
<1>2. readerSecond \in MemIds /\ readerFirst # readerSecond
    BY ResourcesAssumption DEF Init
<1>3. JobHoldsGuard /\ TablesInOrder /\ TargetsInUse /\ MovedIsKept
    BY <1>1, <1>2 DEF Init, JobHoldsGuard, TablesInOrder, TargetsInUse, TargetInUse,
                      MovedIsKept, Moving, Merging, TypeInv, TypeOK
<1>4. AheadIsSeen /\ ReadsCurrent
    BY DEF Init, AheadIsSeen, Ahead, Active, ReadsCurrent, AnswerIsCurrent
<1> QED
    BY <1>1, <1>3, <1>4 DEF Inv, EngineInv, TypeInv

-----------------------------------------------------------------------------
(* Steps that leave the tables alone *)

\* What a request knows stays true when neither it nor the tables change.
LEMMA RequestUnchanged ==
    ASSUME Inv, NEW q \in Requests,
           UNCHANGED <<maps, readerFirst, readerSecond, collection>>,
           pc'[q] = pc[q], target'[q] = target[q], call'[q] = call[q],
           reply'[q] = reply[q], seen'[q] = seen[q], overtaken'[q] = overtaken[q]
    PROVE  Ahead(q)' /\ AnswerIsCurrent(q)'
<1>1. Ahead(q) /\ AnswerIsCurrent(q)
    BY DEF Inv, EngineInv, AheadIsSeen, ReadsCurrent
<1>2. Lookup(Key(q))' = Lookup(Key(q)) /\ OnDisk(q)' = OnDisk(q)
    BY DEF Lookup, PersistentGet, Key, OnDisk
<1>3. Ahead(q)'
    BY <1>1, <1>2 DEF Ahead, Active, InTarget, MissesTarget, InSecond, FirstIsNewer, Key
<1> QED
    BY <1>1, <1>3 DEF AnswerIsCurrent

\* A request moves on in its own part of the state: only what it knows itself has to
\* be shown.
LEMMA RequestMoves ==
    ASSUME Inv, NEW r \in Requests,
           UNCHANGED <<mem, collection, job>>,
           UNCHANGED <<jobPc, guard>> \/ (~guard /\ guard' = TRUE /\ jobPc' = "newwal"),
           \A q \in Requests \ {r} :
               /\ pc'[q] = pc[q] /\ target'[q] = target[q] /\ call'[q] = call[q]
               /\ reply'[q] = reply[q] /\ seen'[q] = seen[q] /\ overtaken'[q] = overtaken[q],
           TypeInv', Ahead(r)', AnswerIsCurrent(r)', TargetInUse(r)'
    PROVE  Inv'
<1> USE DEF mem
<1>1. JobHoldsGuard /\ TablesInOrder /\ TargetsInUse /\ MovedIsKept
    BY DEF Inv, EngineInv
<1>2. jobPc' = jobPc \/ (jobPc = "off" /\ jobPc' = "newwal")
    BY <1>1 DEF JobHoldsGuard
<1>3. JobHoldsGuard'
    BY <1>1 DEF JobHoldsGuard
<1>4. TablesInOrder'
    BY <1>1, <1>2 DEF TablesInOrder, Moving
<1>5. TargetsInUse'
    BY <1>1, <1>2 DEF TargetsInUse, TargetInUse
<1>6. MovedIsKept'
    BY <1>1, <1>2 DEF MovedIsKept, Moving, Merging, PersistentGet, Merged
<1>7. AheadIsSeen' /\ ReadsCurrent'
    <2>1. \A q \in Requests \ {r} : Ahead(q)' /\ AnswerIsCurrent(q)'
        BY RequestUnchanged
    <2> QED
        BY <2>1 DEF AheadIsSeen, ReadsCurrent
<1> QED
    BY <1>3, <1>4, <1>5, <1>6, <1>7 DEF Inv, EngineInv, TypeInv

-----------------------------------------------------------------------------
(* The steps of a request, but for the write to memory *)

LEMMA KeyIsKey ==
    ASSUME TypeInv, NEW r \in Requests, Active(r)
    PROVE  Key(r) \in Keys /\ call[r].entry \in Entry \cup {None}
BY DEF TypeInv, Call, Key

\* The key's entry is in the first table that has one.
LEMMA LookupFinds ==
    ASSUME NEW k
    PROVE  /\ maps[readerFirst][k] # None => Lookup(k) = maps[readerFirst][k]
           /\ maps[readerFirst][k] = None /\ maps[readerSecond][k] # None =>
                 Lookup(k) = maps[readerSecond][k]
           /\ maps[readerFirst][k] = None /\ maps[readerSecond][k] = None =>
                 Lookup(k) = PersistentGet(k)
BY DEF Lookup

LEMMA InvokeInv ==
    ASSUME Inv, TypeInv', NEW r \in Requests, Invoke(r)
    PROVE  Inv'
<1> USE DEF Inv, TypeInv, TypeOK, At, Goto, mem, jobVars
<1>1. PICK c \in Call : /\ call' = [call EXCEPT ![r] = c]
                         /\ seen' = [seen EXCEPT ![r] = {Lookup(c.key)}]
    BY DEF Invoke
<1>2. pc' = [pc EXCEPT ![r] = "first"]
      /\ UNCHANGED <<mem, collection, job, jobPc, guard, target, reply, overtaken>>
    BY DEF Invoke
<1>3. Key(r)' = c.key /\ Lookup(Key(r))' = Lookup(c.key) /\ seen'[r] = {Lookup(c.key)}
    BY <1>1, <1>2 DEF Key, Lookup, PersistentGet
<1>4. Ahead(r)' /\ AnswerIsCurrent(r)' /\ TargetInUse(r)'
    BY <1>1, <1>2, <1>3 DEF Ahead, AnswerIsCurrent, TargetInUse
<1> QED
    BY <1>1, <1>2, <1>4, RequestMoves

\* What the steps share that read a table, or count the request in at one.
LEMMA ReadingInv ==
    ASSUME Inv, TypeInv', NEW r \in Requests,
           UNCHANGED <<mem, collection, jobVars, call, seen, overtaken>>,
           \A q \in Requests \ {r} :
               pc'[q] = pc[q] /\ target'[q] = target[q] /\ reply'[q] = reply[q],
           Active(r)
    PROVE  /\ Ahead(r) /\ Key(r) \in Keys
           /\ Key(r)' = Key(r) /\ Lookup(Key(r))' = Lookup(Key(r)) /\ OnDisk(r)' = OnDisk(r)
           /\ InSecond(r)' = InSecond(r) /\ FirstIsNewer(r)' = FirstIsNewer(r)
           /\ Ahead(r)' /\ AnswerIsCurrent(r)' /\ TargetInUse(r)' => Inv'
<1>1. /\ Key(r)' = Key(r) /\ Lookup(Key(r))' = Lookup(Key(r)) /\ OnDisk(r)' = OnDisk(r)
      /\ InSecond(r)' = InSecond(r) /\ FirstIsNewer(r)' = FirstIsNewer(r)
    BY DEF Lookup, PersistentGet, Key, OnDisk, InSecond, FirstIsNewer, mem
<1>2. Ahead(r) /\ Key(r) \in Keys
    BY KeyIsKey DEF Inv, EngineInv, AheadIsSeen
<1>3. Ahead(r)' /\ AnswerIsCurrent(r)' /\ TargetInUse(r)' => Inv'
    BY RequestMoves DEF jobVars
<1> QED
    BY <1>1, <1>2, <1>3

LEMMA TakeInv ==
    ASSUME Inv, TypeInv', NEW r \in Requests, TakeFirst(r) \/ TakeSecond(r) \/ TakeWriter(r)
    PROVE  Inv'
<1> USE DEF At, Goto, Take
<1>1. target \in [Requests -> MemIds] /\ pc \in [Requests -> RequestPcs]
    BY DEF Inv, TypeInv, TypeOK
<1>2. /\ Active(r)
      /\ UNCHANGED <<mem, collection, jobVars, call, seen, overtaken, reply>>
      /\ \A q \in Requests \ {r} : pc'[q] = pc[q] /\ target'[q] = target[q]
    BY <1>1 DEF TakeFirst, TakeSecond, TakeWriter, Active
<1>3. /\ Ahead(r) /\ Key(r) \in Keys
      /\ Key(r)' = Key(r) /\ Lookup(Key(r))' = Lookup(Key(r)) /\ OnDisk(r)' = OnDisk(r)
      /\ InSecond(r)' = InSecond(r) /\ FirstIsNewer(r)' = FirstIsNewer(r)
    BY <1>2, ReadingInv
<1>4. CASE TakeFirst(r)
    <2>1. pc[r] = "first" /\ pc'[r] = "readfirst" /\ target'[r] = readerFirst
        BY <1>1, <1>4 DEF TakeFirst
    <2>2. Ahead(r)'
        BY <1>2, <1>3, <2>1, LookupFinds
           DEF Ahead, Active, InTarget, MissesTarget, InSecond, OnDisk, mem
    <2> QED
        BY <1>2, <2>1, <2>2, ReadingInv DEF AnswerIsCurrent, TargetInUse, mem
<1>5. CASE TakeSecond(r)
    <2>1. pc[r] = "second" /\ pc'[r] = "readsecond" /\ target'[r] = readerSecond
        BY <1>1, <1>5 DEF TakeSecond
    <2>2. Ahead(r)'
        BY <1>2, <1>3, <2>1 DEF Ahead, Active, InTarget, MissesTarget, InSecond, mem
    <2> QED
        BY <1>2, <2>1, <2>2, ReadingInv DEF AnswerIsCurrent, TargetInUse, mem
<1>6. CASE TakeWriter(r)
    <2>1. pc[r] = "mem" /\ pc'[r] = "store" /\ target'[r] = writer
        BY <1>1, <1>6 DEF TakeWriter
    <2>2. ASSUME writer # readerFirst PROVE FirstIsNewer(r)
        BY <1>3, <2>2 DEF Inv, EngineInv, TablesInOrder, EmptyTable, FirstIsNewer
    <2>3. Ahead(r)'
        BY <1>2, <1>3, <2>1, <2>2 DEF Ahead, Active, mem
    <2> QED
        BY <1>2, <2>1, <2>3, ReadingInv DEF AnswerIsCurrent, TargetInUse, mem
<1> QED
    BY <1>4, <1>5, <1>6

\* What a request finds, its key has held: it is an answer.
LEMMA FoundIsCurrent ==
    ASSUME NEW r \in Requests, reply \in [Requests -> DTO \cup {NotFound, Ok, Failed, NoReply}],
           NEW entry \in seen[r], UNCHANGED seen,
           \/ /\ IsLive(entry)
              /\ \E version : reply' = [reply EXCEPT ![r] = [value |-> entry.value,
                                                           version |-> version]]
           \/ ~IsLive(entry) /\ reply' = [reply EXCEPT ![r] = NotFound]
    PROVE  AnswerIsCurrent(r)'
<1>1. CASE IsLive(entry)
    <2>1. PICK version : reply'[r] = [value |-> entry.value, version |-> version]
        BY <1>1
    <2>2. reply'[r].value = entry.value
        BY <2>1
    <2> QED
        BY <1>1, <2>2 DEF AnswerIsCurrent
<1>2. CASE ~IsLive(entry)
    BY <1>2 DEF AnswerIsCurrent
<1> QED
    BY <1>1, <1>2

LEMMA ReadInv ==
    ASSUME Inv, TypeInv', NEW r \in Requests, ReadFirst(r) \/ ReadSecond(r)
    PROVE  Inv'
<1> USE DEF At, Goto, Finish
<1>1. /\ target \in [Requests -> MemIds] /\ pc \in [Requests -> RequestPcs]
      /\ reply \in [Requests -> DTO \cup {NotFound, Ok, Failed, NoReply}]
    BY DEF Inv, TypeInv, TypeOK
<1>2. PICK next \in {"second", "persistent"} :
          /\ Read(r, next)
          /\ next = "second" => pc[r] = "readfirst"
          /\ next = "persistent" => pc[r] = "readsecond"
    BY DEF ReadFirst, ReadSecond
<1>3. /\ Active(r)
      /\ UNCHANGED <<mem, collection, jobVars, target, call, seen, overtaken>>
    BY <1>2 DEF Read, Active
<1>4. \A q \in Requests \ {r} : pc'[q] = pc[q] /\ reply'[q] = reply[q]
    BY <1>1, <1>2 DEF Read, FoundInMemory
<1>5. /\ Ahead(r) /\ Key(r) \in Keys
      /\ Key(r)' = Key(r) /\ Lookup(Key(r))' = Lookup(Key(r)) /\ OnDisk(r)' = OnDisk(r)
      /\ InSecond(r)' = InSecond(r) /\ FirstIsNewer(r)' = FirstIsNewer(r)
    BY <1>3, <1>4, ReadingInv
<1> DEFINE entry == maps[target[r]][Key(r)]
<1>6. CASE entry = None
    <2>1. pc'[r] = next /\ MissesTarget(r)
        BY <1>1, <1>2, <1>6 DEF Read, MissesTarget
    <2>2. target[r] = readerFirst => FirstIsNewer(r)
        BY <2>1 DEF MissesTarget, FirstIsNewer
    <2>3. Ahead(r)'
        BY <1>2, <1>3, <1>5, <2>1, <2>2 DEF Ahead, Active, mem
    <2> QED
        BY <1>3, <1>4, <2>1, <2>3, ReadingInv DEF AnswerIsCurrent, TargetInUse
<1>7. CASE entry # None
    <2>1. entry \in seen[r]
        BY <1>2, <1>5, <1>7 DEF Ahead, InTarget
    <2>2. FoundInMemory(r, entry)
        BY <1>2, <1>7 DEF Read
    <2>3. CASE IsGet(call[r])
        <3>1. AnswerIsCurrent(r)'
            BY <1>1, <1>3, <2>1, <2>2, <2>3, FoundIsCurrent DEF FoundInMemory
        <3>2. pc'[r] = "return"
            BY <1>1, <2>2, <2>3 DEF FoundInMemory
        <3>3. Ahead(r)'
            BY <1>3, <1>5, <3>2 DEF Ahead, Active
        <3> QED
            BY <1>3, <1>4, <3>1, <3>2, <3>3, ReadingInv DEF TargetInUse
    <2>4. CASE ~IsGet(call[r])
        <3>1. pc'[r] = "wal"
            BY <1>1, <2>2, <2>4 DEF FoundInMemory
        <3>2. Ahead(r)'
            BY <1>3, <1>5, <2>4, <3>1 DEF Ahead, Active
        <3> QED
            BY <1>3, <1>4, <3>1, <3>2, ReadingInv DEF AnswerIsCurrent, TargetInUse
    <2> QED
        BY <2>3, <2>4
<1> QED
    BY <1>6, <1>7

LEMMA ReadPersistentInv ==
    ASSUME Inv, TypeInv', NEW r \in Requests, ReadPersistent(r)
    PROVE  Inv'
<1> USE DEF At, Goto, Finish, FinishWrite
<1>1. /\ pc \in [Requests -> RequestPcs]
      /\ reply \in [Requests -> DTO \cup {NotFound, Ok, Failed, NoReply}]
    BY DEF Inv, TypeInv, TypeOK
<1>2. /\ Active(r) /\ pc[r] = "persistent"
      /\ UNCHANGED <<mem, collection, jobVars, target, call, seen, overtaken>>
    BY DEF ReadPersistent, Active
<1> DEFINE entry == PersistentGet(Key(r))
<1>3. FoundOnDisk(r, entry)
    BY ReadPersistentFinds
<1> HIDE DEF entry
<1>4. \A q \in Requests \ {r} : pc'[q] = pc[q] /\ reply'[q] = reply[q]
    BY <1>1, <1>3 DEF FoundOnDisk
<1>5. /\ Ahead(r) /\ Key(r) \in Keys
      /\ Key(r)' = Key(r) /\ Lookup(Key(r))' = Lookup(Key(r))
    BY <1>2, <1>4, ReadingInv
<1>6. entry \in seen[r]
    BY <1>2, <1>5 DEF Ahead, OnDisk, entry
<1>7. pc'[r] \in {"return", "wal", "size"} /\ (pc'[r] # "return" => ~IsGet(call[r]))
    BY <1>1, <1>3 DEF FoundOnDisk
<1>8. Ahead(r)'
    BY <1>2, <1>5, <1>7 DEF Ahead, Active
<1>9. AnswerIsCurrent(r)'
    <2>1. CASE IsGet(call[r]) /\ IsLive(entry)
        BY <1>1, <1>2, <1>6, <1>3, <2>1, FoundIsCurrent DEF FoundOnDisk
    <2>2. CASE IsGet(call[r]) /\ ~IsLive(entry)
        BY <1>1, <1>2, <1>6, <1>3, <2>2, FoundIsCurrent DEF FoundOnDisk
    <2>3. CASE ~IsGet(call[r])
        BY <1>2, <2>3 DEF AnswerIsCurrent
    <2> QED
        BY <2>1, <2>2, <2>3
<1> QED
    BY <1>2, <1>4, <1>7, <1>8, <1>9, ReadingInv DEF TargetInUse

\* Steps that only decide what the request does next.
LEMMA LogInv ==
    ASSUME Inv, TypeInv', NEW r \in Requests, WriteWal(r) \/ FailWal(r) \/ CheckSize(r)
    PROVE  Inv'
<1> USE DEF At, Goto, Finish
<1>1. /\ pc \in [Requests -> RequestPcs]
      /\ reply \in [Requests -> DTO \cup {NotFound, Ok, Failed, NoReply}]
    BY DEF Inv, TypeInv, TypeOK
<1>2. /\ Active(r) /\ pc[r] \in {"wal", "size"} /\ pc'[r] \in {"mem", "return", "acquire"}
      /\ UNCHANGED <<mem, collection, jobVars, target, call, seen, overtaken>>
    BY <1>1 DEF WriteWal, FailWal, CheckSize, Active
<1>3. \A q \in Requests \ {r} : pc'[q] = pc[q] /\ reply'[q] = reply[q]
    BY <1>1 DEF WriteWal, FailWal, CheckSize
<1>4. Ahead(r) /\ Key(r)' = Key(r) /\ Lookup(Key(r))' = Lookup(Key(r))
    BY <1>2, <1>3, ReadingInv
<1>5. ~IsGet(call[r])
    BY <1>2, <1>4 DEF Ahead
<1>6. Ahead(r)' /\ AnswerIsCurrent(r)' /\ TargetInUse(r)'
    BY <1>2, <1>4, <1>5 DEF Ahead, Active, AnswerIsCurrent, TargetInUse
<1> QED
    BY <1>2, <1>3, <1>6, ReadingInv

\* A read that throws changes nothing but that the process is dead.
LEMMA ThrowInGetChanges ==
    ASSUME NEW r \in Requests, ThrowInGet(r)
    PROVE  UNCHANGED <<mem, collection, jobVars, clients>>
BY DEF ThrowInGet

LEMMA ThrowInGetInv ==
    ASSUME Inv, TypeInv', NEW r \in Requests, ThrowInGet(r)
    PROVE  Inv'
<1>1. UNCHANGED <<mem, collection, jobVars, clients>>
    BY ThrowInGetChanges
<1>2. \A q \in Requests : Ahead(q)' /\ AnswerIsCurrent(q)'
    BY <1>1, RequestUnchanged DEF mem, clients
<1>3. JobHoldsGuard' /\ TablesInOrder' /\ TargetsInUse' /\ MovedIsKept'
    BY <1>1 DEF Inv, EngineInv, JobHoldsGuard, TablesInOrder, TargetsInUse, TargetInUse,
                MovedIsKept, PersistentGet, Merged, mem, jobVars, clients
<1> QED
    BY <1>2, <1>3 DEF Inv, EngineInv, TypeInv, AheadIsSeen, ReadsCurrent

LEMMA AcquireInv ==
    ASSUME Inv, TypeInv', NEW r \in Requests, TryAcquire(r)
    PROVE  Inv'
<1> USE DEF At, Goto
<1>1. pc \in [Requests -> RequestPcs] /\ guard \in BOOLEAN
    BY DEF Inv, TypeInv, TypeOK
<1>2. /\ Active(r) /\ pc[r] = "acquire" /\ pc'[r] = "return"
      /\ UNCHANGED <<mem, collection, job, target, call, reply, seen, overtaken>>
      /\ \A q \in Requests \ {r} : pc'[q] = pc[q]
    BY <1>1 DEF TryAcquire, Active
<1>3. UNCHANGED <<jobPc, guard>> \/ (~guard /\ guard' = TRUE /\ jobPc' = "newwal")
    BY DEF TryAcquire
<1>4. Ahead(r) /\ Key(r)' = Key(r) /\ Lookup(Key(r))' = Lookup(Key(r))
    BY <1>2 DEF Inv, EngineInv, AheadIsSeen, Lookup, PersistentGet, Key, mem
<1>5. Ahead(r)' /\ AnswerIsCurrent(r)' /\ TargetInUse(r)'
    BY <1>2, <1>4 DEF Ahead, Active, AnswerIsCurrent, TargetInUse
<1> QED
    BY <1>2, <1>3, <1>5, RequestMoves

LEMMA ReturnInv ==
    ASSUME Inv, TypeInv', NEW r \in Requests, Return(r)
    PROVE  Inv'
<1>1. /\ pc' = [pc EXCEPT ![r] = "idle"] /\ call' = [call EXCEPT ![r] = NoCall]
      /\ reply' = [reply EXCEPT ![r] = NoReply] /\ seen' = [seen EXCEPT ![r] = {}]
      /\ overtaken' = [overtaken EXCEPT ![r] = FALSE]
      /\ UNCHANGED <<mem, collection, jobVars, target>>
    BY DEF Return, Goto
<1>2. \A q \in Requests \ {r} :
          /\ pc'[q] = pc[q] /\ target'[q] = target[q] /\ call'[q] = call[q]
          /\ reply'[q] = reply[q] /\ seen'[q] = seen[q] /\ overtaken'[q] = overtaken[q]
    BY <1>1 DEF Inv, TypeInv, TypeOK
<1>3. pc'[r] = "idle"
    BY <1>1 DEF Inv, TypeInv, TypeOK
<1>4. Ahead(r)' /\ AnswerIsCurrent(r)' /\ TargetInUse(r)'
    BY <1>3 DEF Ahead, Active, AnswerIsCurrent, TargetInUse
<1> QED
    BY <1>1, <1>2, <1>4, RequestMoves DEF jobVars

-----------------------------------------------------------------------------
(* The write to memory *)

\* The entry is hidden when a newer one of its key is in the table read before it.
Hidden(r) == target[r] # readerFirst /\ maps[readerFirst][Key(r)] # None

\* The effect of the write on the tables and on what every request has seen.
LEMMA WriteMemEffect ==
    ASSUME Inv, NEW r \in Requests, WriteMem(r)
    PROVE  /\ Key(r) \in Keys /\ call[r].entry # None /\ ~IsGet(call[r])
           /\ target[r] \in {readerFirst, readerSecond}
           /\ readerFirst # readerSecond =>
                 target[r] = writer \/ (jobPc = "copy" /\ target[r] = readerSecond)
           /\ \A m \in MemIds : m # target[r] => maps'[m] = maps[m]
           /\ \A m \in MemIds, k \in Keys :
                 maps'[m][k] = IF m = target[r] /\ k = Key(r) THEN call[r].entry ELSE maps[m][k]
           /\ pc'[r] \in {"size", "return"}
           /\ \A q \in Requests \ {r} : pc'[q] = pc[q] /\ reply'[q] = reply[q]
           /\ UNCHANGED <<readerFirst, readerSecond, writer, collection, jobVars, target, call>>
           /\ \A q \in Requests :
                 /\ seen[q] \subseteq seen'[q]
                 /\ overtaken[q] => overtaken'[q]
                 /\ Active(q) /\ Key(q) = Key(r) =>
                       /\ Hidden(r) /\ overtaken[q] => call[r].entry \in seen'[q]
                       /\ ~Hidden(r) => call[r].entry \in seen'[q]
                       /\ ~Hidden(r) /\ q # r => overtaken'[q]
<1> USE DEF At, Goto, FinishWrite
<1>1. /\ maps \in [MemIds -> Table] /\ pc \in [Requests -> RequestPcs]
      /\ target \in [Requests -> MemIds]
      /\ reply \in [Requests -> DTO \cup {NotFound, Ok, Failed, NoReply}]
      /\ seen \in [Requests -> SUBSET (Entry \cup {None})]
      /\ overtaken \in [Requests -> BOOLEAN]
    BY DEF Inv, TypeInv, TypeOK
<1>2. Active(r) /\ pc[r] = "store"
    BY DEF WriteMem, Active
<1>3. Key(r) \in Keys /\ call[r].entry # None /\ ~IsGet(call[r])
    BY <1>2, KeyIsKey DEF Inv, EngineInv, AheadIsSeen, Ahead, IsGet
<1>4. /\ target[r] \in {readerFirst, readerSecond}
      /\ readerFirst # readerSecond =>
            target[r] = writer \/ (jobPc = "copy" /\ target[r] = readerSecond)
    BY <1>2 DEF Inv, EngineInv, TargetsInUse, TargetInUse, TablesInOrder
<1>5. maps' = [maps EXCEPT ![target[r]][Key(r)] = call[r].entry]
    BY DEF WriteMem
<1>6. \A m \in MemIds : m # target[r] => maps'[m] = maps[m]
    BY <1>1, <1>5
<1>7. \A m \in MemIds, k \in Keys :
          maps'[m][k] = IF m = target[r] /\ k = Key(r) THEN call[r].entry ELSE maps[m][k]
    <2>1. \A m \in MemIds : maps[m] \in [Keys -> Entry \cup {None}]
        BY <1>1 DEF Table
    <2> QED
        BY <1>1, <1>3, <1>5, <2>1
<1>8. /\ pc'[r] \in {"size", "return"}
      /\ \A q \in Requests \ {r} : pc'[q] = pc[q] /\ reply'[q] = reply[q]
      /\ UNCHANGED <<readerFirst, readerSecond, writer, collection, jobVars, target, call>>
    BY <1>1 DEF WriteMem
<1>9. ASSUME NEW q \in Requests
      PROVE  /\ seen[q] \subseteq seen'[q]
             /\ overtaken[q] => overtaken'[q]
             /\ Active(q) /\ Key(q) = Key(r) =>
                   /\ Hidden(r) /\ overtaken[q] => call[r].entry \in seen'[q]
                   /\ ~Hidden(r) => call[r].entry \in seen'[q]
                   /\ ~Hidden(r) /\ q # r => overtaken'[q]
    <2>1. seen'[q] = IF Active(q) /\ Key(q) = Key(r) /\ (Hidden(r) => overtaken[q])
                     THEN seen[q] \cup {call[r].entry} ELSE seen[q]
        BY DEF WriteMem, Hidden
    <2>2. overtaken'[q] = (overtaken[q] \/ (q \in {s \in Requests : Active(s) /\ Key(s) = Key(r)} \ {r}
                                            /\ ~Hidden(r)))
        BY DEF WriteMem, Hidden
    <2> QED
        BY <2>1, <2>2
<1> QED
    BY <1>3, <1>4, <1>6, <1>7, <1>8, <1>9

\* What a key holds changes to the entry unless that is hidden.
LEMMA WriteMemLookup ==
    ASSUME Inv, NEW r \in Requests, WriteMem(r), NEW q \in Requests, Active(q)
    PROVE  Lookup(Key(q))' = IF Key(q) = Key(r) /\ ~Hidden(r) THEN call[r].entry
                             ELSE Lookup(Key(q))
<1>1. readerFirst \in MemIds /\ readerSecond \in MemIds /\ Key(q) \in Keys
    BY KeyIsKey DEF Inv, TypeInv, TypeOK
<1>2. Key(q)' = Key(q) /\ PersistentGet(Key(q))' = PersistentGet(Key(q))
    BY WriteMemEffect DEF Key, PersistentGet
<1>3. UNCHANGED <<readerFirst, readerSecond>>
    BY WriteMemEffect
<1> DEFINE k == Key(q)
<1>4. /\ Lookup(k)' = IF maps'[readerFirst][k] # None THEN maps'[readerFirst][k]
                      ELSE IF maps'[readerSecond][k] # None THEN maps'[readerSecond][k]
                      ELSE PersistentGet(k)
      /\ Lookup(k) = IF maps[readerFirst][k] # None THEN maps[readerFirst][k]
                     ELSE IF maps[readerSecond][k] # None THEN maps[readerSecond][k]
                     ELSE PersistentGet(k)
    BY <1>2, <1>3 DEF Lookup
<1> QED
    BY <1>1, <1>4, WriteMemEffect DEF Hidden

LEMMA WriteMemAhead ==
    ASSUME Inv, NEW r \in Requests, WriteMem(r), NEW q \in Requests
    PROVE  Ahead(q)' /\ AnswerIsCurrent(q)'
<1>1. Ahead(q) /\ AnswerIsCurrent(q) /\ TargetInUse(q) /\ TablesInOrder
    BY DEF Inv, EngineInv, AheadIsSeen, ReadsCurrent, TargetsInUse
<1>2. readerFirst \in MemIds /\ readerSecond \in MemIds /\ target[q] \in MemIds
      /\ target[r] \in MemIds
    BY DEF Inv, TypeInv, TypeOK
<1>3. Key(q)' = Key(q) /\ target'[q] = target[q] /\ call'[q] = call[q]
    BY WriteMemEffect DEF Key
<1>4. CASE q = r
    <2>1. Active(r) /\ Lookup(Key(r)) \in seen[r]
        BY <1>1, <1>4 DEF WriteMem, At, Active, Ahead
    <2>2. Lookup(Key(r))' \in seen'[r]
        BY <2>1, WriteMemEffect, WriteMemLookup
    <2> QED
        BY <1>1, <1>3, <1>4, <2>1, <2>2, WriteMemEffect DEF Ahead, AnswerIsCurrent, Active
<1>5. CASE q # r /\ ~Active(q)
    BY <1>5, WriteMemEffect DEF Ahead, AnswerIsCurrent, Active
<1>6. CASE q # r /\ Active(q)
    <2>1. pc'[q] = pc[q] /\ reply'[q] = reply[q] /\ Key(q) \in Keys
        BY <1>6, WriteMemEffect, KeyIsKey DEF Inv
    <2>2. AnswerIsCurrent(q)'
        BY <1>1, <1>3, <2>1, WriteMemEffect DEF AnswerIsCurrent
    <2>3. Lookup(Key(q))' \in seen'[q]
        BY <1>1, <1>6, <2>1, WriteMemEffect, WriteMemLookup DEF Ahead
    <2>4. OnDisk(q) => OnDisk(q)'
        BY <1>3, WriteMemEffect DEF OnDisk, PersistentGet
    <2>5. CASE Key(q) # Key(r)
        <3>1. \A m \in MemIds : maps'[m][Key(q)'] = maps[m][Key(q)]
            BY <1>3, <2>1, <2>5, WriteMemEffect
        <3>2. /\ InTarget(q) => InTarget(q)'
              /\ InSecond(q) => InSecond(q)'
              /\ FirstIsNewer(q) => FirstIsNewer(q)'
              /\ MissesTarget(q)' <=> MissesTarget(q)
              /\ (maps[readerSecond][Key(q)] = None)' <=> maps[readerSecond][Key(q)] = None
            BY <1>2, <1>3, <3>1, WriteMemEffect
               DEF InTarget, MissesTarget, InSecond, FirstIsNewer
        <3>3. UNCHANGED <<readerFirst, readerSecond>>
            BY WriteMemEffect
        <3> QED
            BY <1>1, <1>3, <1>6, <2>1, <2>2, <2>3, <2>4, <3>2, <3>3 DEF Ahead, Active
    <2>6. CASE Key(q) = Key(r)
        <3>1. FirstIsNewer(q) => FirstIsNewer(q)'
            BY <1>2, <1>3, <1>6, <2>6, WriteMemEffect DEF FirstIsNewer, Hidden
        <3>2. InSecond(q) /\ FirstIsNewer(q) => InSecond(q)'
            BY <1>2, <1>3, <1>6, <2>6, WriteMemEffect DEF InSecond, FirstIsNewer, Hidden
        <3>3. InTarget(q) /\ (target[q] # readerFirst => FirstIsNewer(q)) => InTarget(q)'
            BY <1>2, <1>3, <1>6, <2>6, WriteMemEffect DEF InTarget, FirstIsNewer, Hidden
        <3>4. MissesTarget(q)' => MissesTarget(q) /\ target[q] # target[r]
            BY <1>2, <1>3, <2>1, <2>6, WriteMemEffect DEF MissesTarget
        <3>5. (maps[readerSecond][Key(q)] = None)' =>
                  maps[readerSecond][Key(q)] = None /\ target[r] # readerSecond
            BY <1>2, <1>3, <2>1, <2>6, WriteMemEffect
        <3>6. ASSUME pc[q] = "readfirst" PROVE MissesTarget(q)' => InSecond(q)'
            <4>1. SUFFICES ASSUME MissesTarget(q)' PROVE InSecond(q)'
                OBVIOUS
            <4>2. MissesTarget(q) /\ target[q] # target[r] /\ InSecond(q)
                BY <1>1, <3>4, <3>6, <4>1 DEF Ahead
            <4>3. CASE target[q] = readerFirst
                <5>1. FirstIsNewer(q)
                    BY <4>2, <4>3 DEF MissesTarget, FirstIsNewer
                <5> QED
                    BY <3>2, <4>2, <5>1
            <4>4. CASE target[q] # readerFirst
                BY <1>1, <3>2, <3>6, <4>2, <4>4 DEF Ahead
            <4> QED
                BY <4>3, <4>4
        <3>7. UNCHANGED <<readerFirst, readerSecond>>
            BY WriteMemEffect
        <3> QED
            BY <1>1, <1>3, <1>6, <2>1, <2>2, <2>3, <2>4, <3>1, <3>2, <3>3, <3>4, <3>5, <3>6,
               <3>7 DEF Ahead, Active
    <2> QED
        BY <2>2, <2>5, <2>6
<1> QED
    BY <1>4, <1>5, <1>6

LEMMA WriteMemInv ==
    ASSUME Inv, TypeInv', NEW r \in Requests, WriteMem(r)
    PROVE  Inv'
<1>1. /\ readerFirst \in MemIds /\ readerSecond \in MemIds /\ maps \in [MemIds -> Table]
      /\ JobHoldsGuard /\ TablesInOrder /\ TargetsInUse /\ MovedIsKept
    BY DEF Inv, EngineInv, TypeInv, TypeOK
<1>2. UNCHANGED <<readerFirst, readerSecond, writer, collection, jobPc, guard, job, target>>
    BY WriteMemEffect DEF jobVars
<1>3. JobHoldsGuard'
    BY <1>1, <1>2 DEF JobHoldsGuard
<1>4. TablesInOrder'
    BY <1>1, <1>2, WriteMemEffect DEF TablesInOrder, Moving
<1>5. TargetsInUse'
    BY <1>1, <1>2, WriteMemEffect DEF TargetsInUse, TargetInUse
<1>6. jobPc \in Moving => maps'[readerSecond] = maps[readerSecond]
    BY <1>1, WriteMemEffect DEF TablesInOrder, Moving
<1>7. MovedIsKept'
    BY <1>1, <1>2, <1>6 DEF MovedIsKept, Moving, Merging, PersistentGet, Merged
<1>8. AheadIsSeen' /\ ReadsCurrent'
    BY WriteMemAhead DEF AheadIsSeen, ReadsCurrent
<1> QED
    BY <1>3, <1>4, <1>5, <1>7, <1>8 DEF Inv, EngineInv, TypeInv

-----------------------------------------------------------------------------
(* The steps of the job that leave the tables alone *)

LEMMA JobLeavesRequests ==
    ASSUME Inv, UNCHANGED <<maps, readerFirst, readerSecond, collection, clients>>
    PROVE  AheadIsSeen' /\ ReadsCurrent'
<1>1. \A q \in Requests : Ahead(q)' /\ AnswerIsCurrent(q)'
    BY RequestUnchanged DEF clients
<1> QED
    BY <1>1 DEF AheadIsSeen, ReadsCurrent

\* Between the steps that change what the job has to remember, it goes its way.
LEMMA QuietJobInv ==
    ASSUME Inv, TypeInv', JobStep,
           CreateWal \/ SwapWal \/ WriteTable \/ TruncateMetadata \/ AppendMetadata
              \/ RemoveWal \/ Compact \/ CompactEmptyTable \/ RenameMetadata
              \/ RemoveFiles \/ ThrowInSwapWith \/ Release
    PROVE  Inv'
<1> USE DEF JobAt, JobGoto, GiveUp, disk
<1>1. UNCHANGED <<mem, collection, clients>>
    BY DEF CreateWal, SwapWal, WriteTable, TruncateMetadata, AppendMetadata, RemoveWal, Compact,
           CompactEmptyTable, RenameMetadata, RemoveFiles, ThrowInSwapWith, Release
<1>2. AheadIsSeen' /\ ReadsCurrent'
    BY <1>1, JobLeavesRequests DEF mem
<1>3. JobHoldsGuard /\ TablesInOrder /\ TargetsInUse /\ MovedIsKept /\ job \in Job
    BY DEF Inv, EngineInv, TypeInv, TypeOK
<1>4. jobPc \notin {"off", "copy", "refill", "push", "drop"}
    BY DEF CreateWal, SwapWal, WriteTable, TruncateMetadata, AppendMetadata, RemoveWal, Compact,
           CompactEmptyTable, RenameMetadata, RemoveFiles, ThrowInSwapWith, Release
<1>5. /\ jobPc' \notin {"copy", "refill", "drop"}
      /\ jobPc' \in Moving => jobPc \in Moving /\ job'.data = job.data
      /\ jobPc' \in Merging =>
            \/ jobPc \in Merging /\ job'.data = job.data
            \/ job'.data = Merged(collection)
    <2>1. CASE CreateWal \/ SwapWal \/ RemoveWal \/ CompactEmptyTable \/ RemoveFiles
              \/ ThrowInSwapWith \/ Release
        BY <1>4, <2>1 DEF CreateWal, SwapWal, RemoveWal, CompactEmptyTable, RemoveFiles,
                   ThrowInSwapWith, Release,
                   Moving, Merging, jobVars
    <2>2. CASE WriteTable
        BY <1>3, <2>2 DEF WriteTable, Moving, Merging, Job
    <2>3. CASE TruncateMetadata
        BY <1>3, <2>3 DEF TruncateMetadata, Moving, Merging, Job
    <2>4. CASE AppendMetadata
        BY <1>3, <2>4 DEF AppendMetadata, Moving, Merging
    <2>5. CASE Compact
        BY <1>3, <2>5 DEF Compact, Moving, Merging, Job
    <2>6. CASE RenameMetadata
        BY <1>3, <2>6 DEF RenameMetadata, Moving, Merging, Job
    <2> QED
        BY <2>1, <2>2, <2>3, <2>4, <2>5, <2>6
<1>6. JobHoldsGuard'
    BY <1>3, <1>4 DEF JobHoldsGuard, CreateWal, SwapWal, WriteTable, TruncateMetadata,
           AppendMetadata, RemoveWal, Compact, CompactEmptyTable, RenameMetadata, RemoveFiles,
           ThrowInSwapWith, Release, jobVars
<1>7. TablesInOrder'
    BY <1>1, <1>3, <1>4, <1>5 DEF TablesInOrder, mem
<1>8. TargetsInUse'
    BY <1>1, <1>3, <1>4 DEF TargetsInUse, TargetInUse, mem, clients
<1>9. MovedIsKept'
    BY <1>1, <1>3, <1>5 DEF MovedIsKept, mem, Merged
<1> QED
    BY <1>2, <1>6, <1>7, <1>8, <1>9 DEF Inv, EngineInv, TypeInv

\* Writes are sent to the first table; requests that hold the second go on writing it.
LEMMA SwitchWriterInv ==
    ASSUME Inv, TypeInv', SwitchWriter
    PROVE  Inv'
<1> USE DEF JobAt, JobGoto
<1>1. JobHoldsGuard /\ TablesInOrder /\ TargetsInUse
    BY DEF Inv, EngineInv
<1>2. AheadIsSeen' /\ ReadsCurrent'
    BY JobLeavesRequests DEF SwitchWriter
<1>3. JobHoldsGuard' /\ TablesInOrder' /\ TargetsInUse' /\ MovedIsKept'
    BY <1>1 DEF SwitchWriter, JobHoldsGuard, TablesInOrder, TargetsInUse, TargetInUse, MovedIsKept,
                Moving, Merging, clients
<1> QED
    BY <1>2, <1>3 DEF Inv, EngineInv, TypeInv

\* What is copied is final: nobody holds the second table for writing.
LEMMA CopySecondInv ==
    ASSUME Inv, TypeInv', CopySecond
    PROVE  Inv'
<1> USE DEF JobAt, JobGoto
<1>1. JobHoldsGuard /\ TablesInOrder /\ TargetsInUse /\ job \in Job
    BY DEF Inv, EngineInv, TypeInv, TypeOK
<1>2. AheadIsSeen' /\ ReadsCurrent'
    BY JobLeavesRequests DEF CopySecond, mem
<1>3. JobHoldsGuard' /\ TablesInOrder'
    BY <1>1 DEF CopySecond, JobHoldsGuard, TablesInOrder, Moving, mem
<1>4. TargetsInUse'
    BY <1>1 DEF CopySecond, OldWriterUnused, TargetsInUse, TargetInUse, clients, mem
<1>5. MovedIsKept'
    BY <1>1 DEF CopySecond, Collected, MovedIsKept, Moving, Merging, Job, mem
<1> QED
    BY <1>2, <1>3, <1>4, <1>5 DEF Inv, EngineInv, TypeInv

-----------------------------------------------------------------------------
(* The steps of the job that move entries *)

\* The requests that read are told apart by what they have still to read.
LEMMA IdleAhead ==
    ASSUME NEW q \in Requests, ~Active(q), UNCHANGED clients
    PROVE  Ahead(q)'
BY DEF Ahead, Active, clients

\* The copy of the second table joins the open tables: nothing that a request finds
\* in the second table is lost, and nothing else changes.
LEMMA PushTableInv ==
    ASSUME Inv, TypeInv', PushTable
    PROVE  Inv'
<1> USE DEF JobAt, JobGoto
<1>1. /\ JobHoldsGuard /\ TablesInOrder /\ TargetsInUse /\ MovedIsKept
      /\ job \in Job /\ collection \in Seq(OpenTable)
    BY DEF Inv, EngineInv, TypeInv, TypeOK
<1>2. /\ jobPc = "push" /\ jobPc' = "drop"
      /\ UNCHANGED <<maps, readerFirst, readerSecond, writer, job, guard, pc, target, call,
                     reply, seen, overtaken>>
    BY DEF PushTable, mem, clients
<1>3. job.data = maps[readerSecond]
    BY <1>1, <1>2 DEF MovedIsKept, Moving
<1>4. \A k \in Keys : PersistentGet(k)' =
          IF maps[readerSecond][k] # None THEN maps[readerSecond][k] ELSE PersistentGet(k)
    <2> DEFINE t == [path |-> job.path, table |-> job.data]
    <2>1. t \in OpenTable /\ t.table = maps[readerSecond]
        BY <1>1, <1>3 DEF Job, OpenTable
    <2>2. collection' = Append(collection, t)
        BY DEF PushTable
    <2>3. \A k \in Keys : NewestIn(Append(collection, t), k) =
              IF t.table[k] # None THEN t.table[k] ELSE NewestIn(collection, k)
        BY <1>1, <2>1, NewestInAppend
    <2> QED
        BY <2>1, <2>2, <2>3 DEF PersistentGet
<1>5. JobHoldsGuard' /\ TablesInOrder' /\ TargetsInUse'
    BY <1>1, <1>2 DEF JobHoldsGuard, TablesInOrder, TargetsInUse, TargetInUse, Moving
<1>6. MovedIsKept'
    BY <1>2, <1>3, <1>4 DEF MovedIsKept, Moving, Merging
<1>7. ReadsCurrent'
    BY <1>2 DEF Inv, ReadsCurrent, AnswerIsCurrent
<1>8. ASSUME NEW q \in Requests PROVE Ahead(q)'
    <2>1. Ahead(q)
        BY DEF Inv, EngineInv, AheadIsSeen
    <2>2. CASE ~Active(q)
        BY <1>2, <2>2, IdleAhead DEF clients
    <2>3. CASE Active(q)
        <3>1. Key(q) \in Keys /\ Key(q)' = Key(q)
            BY <1>2, <2>3, KeyIsKey DEF Inv, Key
        <3>2. PersistentGet(Key(q))' = IF maps[readerSecond][Key(q)] # None
                                       THEN maps[readerSecond][Key(q)] ELSE PersistentGet(Key(q))
            BY <1>4, <3>1 DEF PersistentGet
        <3>3. Lookup(Key(q))' = Lookup(Key(q))
            BY <1>2, <3>1, <3>2 DEF Lookup
        <3>4. InSecond(q) /\ OnDisk(q) => OnDisk(q)'
            BY <1>2, <3>2 DEF InSecond, OnDisk
        <3>5. maps[readerSecond][Key(q)] = None /\ OnDisk(q) => OnDisk(q)'
            BY <1>2, <3>2 DEF OnDisk
        <3>6. /\ InTarget(q)' = InTarget(q) /\ InSecond(q)' = InSecond(q)
              /\ FirstIsNewer(q)' = FirstIsNewer(q) /\ MissesTarget(q)' = MissesTarget(q)
            BY <1>2, <3>1 DEF InTarget, InSecond, FirstIsNewer, MissesTarget
        <3> QED
            BY <1>2, <2>1, <2>3, <3>1, <3>3, <3>4, <3>5, <3>6 DEF Ahead, Active
    <2> QED
        BY <2>2, <2>3
<1> QED
    BY <1>5, <1>6, <1>7, <1>8 DEF Inv, EngineInv, TypeInv, AheadIsSeen

\* The second table is dropped: all it holds is on disk or hidden by the first.
LEMMA DropCollectedInv ==
    ASSUME Inv, TypeInv', DropCollected
    PROVE  Inv'
<1> USE DEF JobAt, JobGoto
<1>1. JobHoldsGuard /\ TablesInOrder /\ TargetsInUse /\ MovedIsKept
    BY DEF Inv, EngineInv
<1>2. /\ jobPc = "drop" /\ jobPc' = "refill" /\ readerSecond' = readerFirst
      /\ UNCHANGED <<maps, readerFirst, writer, collection, job, guard, pc, target, call,
                     reply, seen, overtaken>>
    BY DEF DropCollected, clients
<1>3. \A k \in Keys : maps[readerSecond][k] # None => PersistentGet(k) = maps[readerSecond][k]
    BY <1>1, <1>2 DEF MovedIsKept
<1>4. JobHoldsGuard' /\ TablesInOrder' /\ TargetsInUse' /\ MovedIsKept'
    BY <1>1, <1>2 DEF JobHoldsGuard, TablesInOrder, TargetsInUse, TargetInUse, MovedIsKept,
                      Moving, Merging
<1>5. ReadsCurrent'
    BY <1>2 DEF Inv, ReadsCurrent, AnswerIsCurrent
<1>6. ASSUME NEW q \in Requests PROVE Ahead(q)'
    <2>1. Ahead(q)
        BY DEF Inv, EngineInv, AheadIsSeen
    <2>2. CASE ~Active(q)
        BY <1>2, <2>2, IdleAhead DEF clients
    <2>3. CASE Active(q)
        <3>1. Key(q) \in Keys /\ Key(q)' = Key(q)
            BY <1>2, <2>3, KeyIsKey DEF Inv, Key
        <3>2. PersistentGet(Key(q))' = PersistentGet(Key(q))
            BY <1>2, <3>1 DEF PersistentGet
        <3>3. Lookup(Key(q))' = Lookup(Key(q)) /\ Lookup(Key(q)) \in seen[q]
            BY <1>2, <1>3, <2>1, <2>3, <3>1, <3>2 DEF Lookup, Ahead
        <3>4. InSecond(q)'
            BY <1>2, <3>1, <3>3 DEF InSecond, Lookup
        <3>5. (maps[readerSecond][Key(q)] = None)' => OnDisk(q)'
            BY <1>2, <3>1, <3>2, <3>3 DEF OnDisk, Lookup
        <3>6. /\ InTarget(q)' = InTarget(q) /\ OnDisk(q)' = OnDisk(q)
              /\ FirstIsNewer(q)' = FirstIsNewer(q) /\ MissesTarget(q)' = MissesTarget(q)
            BY <1>2, <3>1, <3>2 DEF InTarget, OnDisk, FirstIsNewer, MissesTarget
        <3> QED
            BY <1>2, <2>1, <2>3, <3>1, <3>3, <3>4, <3>5, <3>6 DEF Ahead, Active
    <2> QED
        BY <2>2, <2>3
<1> QED
    BY <1>4, <1>5, <1>6 DEF Inv, EngineInv, TypeInv, AheadIsSeen

\* An empty table becomes the first: all requests use the other.
LEMMA RefillFirstInv ==
    ASSUME Inv, TypeInv', RefillFirst
    PROVE  Inv'
<1> USE DEF JobAt, JobGoto
<1> DEFINE m == NewMap({readerSecond})
<1>1. /\ JobHoldsGuard /\ TablesInOrder /\ TargetsInUse
      /\ maps \in [MemIds -> Table] /\ readerSecond \in MemIds
    BY DEF Inv, EngineInv, TypeInv, TypeOK
<1>2. m \in MemIds /\ m # readerSecond
    BY <1>1, NewMapIsNew
<1>3. /\ jobPc = "refill" /\ jobPc' = "rmwal" /\ readerFirst' = m
      /\ maps' = [maps EXCEPT ![m] = EmptyTable] /\ OldReaderUnused
      /\ UNCHANGED <<readerSecond, writer, collection, job, guard, pc, target, call, reply,
                     seen, overtaken>>
    BY DEF RefillFirst, clients
<1>4. readerFirst = readerSecond /\ writer = readerSecond
    BY <1>1, <1>3 DEF TablesInOrder
<1>5. maps'[m] = EmptyTable /\ maps'[readerSecond] = maps[readerSecond]
    BY <1>1, <1>2, <1>3
<1>6. \A q \in Requests : pc[q] \in {"readfirst", "readsecond", "store"} => target[q] = readerSecond
    BY <1>1, <1>3, <1>4 DEF OldReaderUnused, TargetsInUse, TargetInUse
<1> HIDE DEF m
<1>7. JobHoldsGuard' /\ TablesInOrder' /\ TargetsInUse' /\ MovedIsKept'
    BY <1>1, <1>2, <1>3, <1>4, <1>5, <1>6
       DEF JobHoldsGuard, TablesInOrder, TargetsInUse, TargetInUse, MovedIsKept, Moving, Merging
<1>8. ReadsCurrent'
    BY <1>3 DEF Inv, ReadsCurrent, AnswerIsCurrent
<1>9. ASSUME NEW q \in Requests PROVE Ahead(q)'
    <2>1. Ahead(q)
        BY DEF Inv, EngineInv, AheadIsSeen
    <2>2. CASE ~Active(q)
        BY <1>3, <2>2, IdleAhead DEF clients
    <2>3. CASE Active(q)
        <3>1. Key(q) \in Keys /\ Key(q)' = Key(q)
            BY <1>3, <2>3, KeyIsKey DEF Inv, Key
        <3>2. PersistentGet(Key(q))' = PersistentGet(Key(q)) /\ OnDisk(q)' = OnDisk(q)
            BY <1>3, <3>1 DEF PersistentGet, OnDisk
        <3>3. (maps[readerFirst][Key(q)])' = None
            BY <1>3, <1>5, <3>1 DEF EmptyTable
        <3>4. Lookup(Key(q))' = Lookup(Key(q))
            BY <1>3, <1>4, <1>5, <3>1, <3>2, <3>3 DEF Lookup
        <3>5. FirstIsNewer(q)' /\ InSecond(q)' = InSecond(q)
            BY <1>3, <1>5, <3>1, <3>3 DEF FirstIsNewer, InSecond
        <3>6. pc[q] \in {"readfirst", "readsecond"} =>
                  InTarget(q)' = InTarget(q) /\ MissesTarget(q)' = MissesTarget(q)
            BY <1>3, <1>5, <1>6, <3>1 DEF InTarget, MissesTarget
        <3> QED
            BY <1>3, <1>5, <2>1, <2>3, <3>1, <3>2, <3>4, <3>5, <3>6 DEF Ahead, Active
    <2> QED
        BY <2>2, <2>3
<1> QED
    BY <1>7, <1>8, <1>9 DEF Inv, EngineInv, TypeInv, AheadIsSeen

\* The merged table takes the place of the tables it was made from.
LEMMA ReplaceCollectionInv ==
    ASSUME Inv, TypeInv', ReplaceCollection
    PROVE  Inv'
<1> USE DEF JobAt, JobGoto
<1>1. JobHoldsGuard /\ TablesInOrder /\ TargetsInUse /\ MovedIsKept /\ job \in Job
    BY DEF Inv, EngineInv, TypeInv, TypeOK
<1>2. /\ jobPc = "replace" /\ jobPc' = "rmfiles"
      /\ UNCHANGED <<maps, readerFirst, readerSecond, writer, job, guard, pc, target, call,
                     reply, seen, overtaken>>
    BY DEF ReplaceCollection, mem, clients
<1>3. job.data = Merged(collection)
    BY <1>1, <1>2 DEF MovedIsKept, Merging
<1>4. \A k \in Keys : PersistentGet(k)' = PersistentGet(k)
    <2> DEFINE t == [path |-> job.path, table |-> job.data]
    <2>1. t \in OpenTable /\ t.table = Merged(collection)
        BY <1>1, <1>3 DEF Job, OpenTable
    <2>2. \A k \in Keys : NewestIn(<<t>>, k) = NewestIn(collection, k)
        BY <2>1, NewestInSingle DEF Merged
    <2>3. collection' = <<t>>
        BY DEF ReplaceCollection
    <2> QED
        BY <2>2, <2>3 DEF PersistentGet
<1>5. JobHoldsGuard' /\ TablesInOrder' /\ TargetsInUse' /\ MovedIsKept'
    BY <1>1, <1>2 DEF JobHoldsGuard, TablesInOrder, TargetsInUse, TargetInUse, MovedIsKept,
                      Moving, Merging
<1>6. ReadsCurrent'
    BY <1>2 DEF Inv, ReadsCurrent, AnswerIsCurrent
<1>7. ASSUME NEW q \in Requests PROVE Ahead(q)'
    <2>1. Ahead(q)
        BY DEF Inv, EngineInv, AheadIsSeen
    <2>2. CASE ~Active(q)
        BY <1>2, <2>2, IdleAhead DEF clients
    <2>3. CASE Active(q)
        <3>1. Key(q) \in Keys /\ Key(q)' = Key(q)
            BY <1>2, <2>3, KeyIsKey DEF Inv, Key
        <3>2. PersistentGet(Key(q))' = PersistentGet(Key(q))
            BY <1>4, <3>1 DEF PersistentGet
        <3>3. Lookup(Key(q))' = Lookup(Key(q)) /\ OnDisk(q)' = OnDisk(q)
            BY <1>2, <3>1, <3>2 DEF Lookup, OnDisk
        <3>4. /\ InTarget(q)' = InTarget(q) /\ InSecond(q)' = InSecond(q)
              /\ FirstIsNewer(q)' = FirstIsNewer(q) /\ MissesTarget(q)' = MissesTarget(q)
            BY <1>2, <3>1 DEF InTarget, InSecond, FirstIsNewer, MissesTarget
        <3> QED
            BY <1>2, <2>1, <2>3, <3>1, <3>3, <3>4 DEF Ahead, Active
    <2> QED
        BY <2>2, <2>3
<1> QED
    BY <1>5, <1>6, <1>7 DEF Inv, EngineInv, TypeInv, AheadIsSeen

-----------------------------------------------------------------------------
LEMMA NextInv == Inv /\ [Next]_vars => Inv'
<1> SUFFICES ASSUME Inv, [Next]_vars PROVE Inv'
    OBVIOUS
<1>1. TypeInv'
    BY RequestTypeInv, JobTypeInv, StutterTypeInv DEF Next, Halted, Inv
<1>2. ASSUME NEW r \in Requests, Invoke(r) \/ RequestStep(r) PROVE Inv'
    BY <1>1, <1>2, InvokeInv, TakeInv, ReadInv, ReadPersistentInv, LogInv, WriteMemInv,
       AcquireInv, ReturnInv, ThrowInGetInv DEF RequestStep
<1>3. CASE JobStep
    BY <1>1, <1>3, QuietJobInv, SwitchWriterInv, CopySecondInv, PushTableInv, DropCollectedInv,
       RefillFirstInv, ReplaceCollectionInv DEF JobStep
<1>4. CASE UNCHANGED vars
    <2>1. AheadIsSeen' /\ ReadsCurrent'
        BY <1>4, JobLeavesRequests DEF vars, mem
    <2>2. JobHoldsGuard' /\ TablesInOrder' /\ TargetsInUse' /\ MovedIsKept'
        BY <1>4 DEF Inv, EngineInv, JobHoldsGuard, TablesInOrder, TargetsInUse, TargetInUse,
                    MovedIsKept, PersistentGet, Merged, vars, mem, jobVars, clients
    <2> QED
        BY <1>1, <2>1, <2>2 DEF Inv, EngineInv, TypeInv
<1> QED
    BY <1>2, <1>3, <1>4 DEF Next, Halted

LEMMA Invariant == Spec => []Inv
BY InitInv, NextInv, PTL DEF Spec

\* The tables are in order, what is moved is kept, and what a request may still read
\* its key has held: the argument that the five steps of the swap
\* (swappable_memory_storage.cpp:61-103) and of the compaction (compaction.cpp) make.
THEOREM EngineIsSound == Spec => []EngineInv
BY Invariant, PTL DEF Inv

\* Every Get is answered with a value that its key held during the call, or with "not
\* found" if the key was absent or removed at some moment of it
\* (storage_system.cpp:54-72), for any number of keys, requests, calls and faults: a
\* Get that meets an entry its file has lost is not answered with an older one or with
\* "not found", but throws (persistent.cpp:85-100), and the process dies.
THEOREM ReadsAreCurrent == Spec => []ReadsCurrent
BY Invariant, PTL DEF Inv
-----------------------------------------------------------------------------
(* The state of the abstract store *)

\* What every key holds, and how far every request is, as KV is instantiated.
Store == [k \in Keys |-> Lookup(k)]
Stage(at) == IF at = "idle" THEN "idle"
             ELSE IF at \in {"size", "acquire", "return"} THEN "answered"
             ELSE "called"
Stages == [r \in Requests |->
              IF pc[r] = "idle" THEN "idle"
              ELSE IF pc[r] \in {"size", "acquire", "return"} THEN "answered"
              ELSE "called"]

\* A request that moves on changes its own stage only.
LEMMA StageMoves ==
    ASSUME NEW r \in Requests, NEW at, pc \in [Requests -> RequestPcs],
           pc' = [pc EXCEPT ![r] = at]
    PROVE  Stages' = [Stages EXCEPT ![r] = Stage(at)]
BY DEF Stages, Stage

\* Between two stages nothing changes.
LEMMA StageStays ==
    ASSUME NEW r \in Requests, NEW at, pc \in [Requests -> RequestPcs],
           pc' = [pc EXCEPT ![r] = at], Stage(at) = Stage(pc[r])
    PROVE  Stages' = Stages
BY DEF Stages, Stage

LEMMA StoreStays ==
    ASSUME UNCHANGED <<maps, readerFirst, readerSecond, collection>>
    PROVE  Store' = Store
BY DEF Store, Lookup, PersistentGet

\* A step that changes none of it is a stutter.
LEMMA Stutter ==
    ASSUME Store' = Store, Stages' = Stages, UNCHANGED <<call, reply, seen, overtaken>>
    PROVE  UNCHANGED KV!vars
BY DEF KV!vars, Store, Stages

\* Neither the memory, nor the open tables, nor the requests change: a stutter, too.
LEMMA EngineStays ==
    ASSUME UNCHANGED <<mem, collection, clients>>
    PROVE  UNCHANGED KV!vars
<1>1. Stages' = Stages /\ Store' = Store
    BY StoreStays DEF clients, Stages, mem
<1> QED
    BY <1>1, Stutter DEF clients

LEMMA LookupType ==
    ASSUME TypeOK
    PROVE  Store \in Table
<1>1. ASSUME NEW k \in Keys PROVE Lookup(k) \in Entry \cup {None}
    <2>1. PersistentGet(k) \in Entry \cup {None}
        BY NewestInType DEF TypeOK, PersistentGet
    <2>2. \A m \in MemIds : maps[m][k] \in Entry \cup {None}
        BY DEF TypeOK, Table
    <2>3. readerFirst \in MemIds /\ readerSecond \in MemIds
        BY DEF TypeOK
    <2> QED
        BY <2>1, <2>2, <2>3 DEF Lookup
<1> QED
    BY <1>1 DEF Store, Table

LEMMA InitMaps == Init => KV!Init
<1> SUFFICES ASSUME Init PROVE KV!Init
    OBVIOUS
<1>1. Store \in Table
    BY InitTypeInv, LookupType DEF TypeInv
<1>2. [k \in Keys |-> Lookup(k)] \in KV!Table
    BY <1>1 DEF Store, Table, KV!Table, Entry, KV!Entry
<1>3. pc = [r \in Requests |-> "idle"]
    BY DEF Init
<1> QED
    BY <1>2, <1>3 DEF Init, KV!Init

-----------------------------------------------------------------------------
(* The steps of a request, but for the write to memory *)

LEMMA InvokeMaps ==
    ASSUME Inv, NEW r \in Requests, Invoke(r)
    PROVE  KV!Invoke(r)
<1>1. pc \in [Requests -> RequestPcs] /\ pc[r] = "idle" /\ pc' = [pc EXCEPT ![r] = "first"]
    BY DEF Inv, TypeInv, TypeOK, Invoke, At, Goto
<1>2. Stages[r] = "idle" /\ Stages' = [Stages EXCEPT ![r] = "called"]
    BY <1>1, StageMoves DEF Stage, Stages
<1>3. Store' = Store
    BY StoreStays DEF Invoke, mem
<1>4. PICK c \in Call : /\ call' = [call EXCEPT ![r] = c]
                         /\ seen' = [seen EXCEPT ![r] = {Lookup(c.key)}]
    BY DEF Invoke
<1>5. c.key \in Keys /\ Store[c.key] = Lookup(c.key) /\ c \in KV!Call
    BY DEF Call, Store, KV!Call, Entry, KV!Entry
<1>6. UNCHANGED <<overtaken, reply>>
    BY DEF Invoke
<1>7. \E d \in KV!Call : /\ call' = [call EXCEPT ![r] = d]
                         /\ seen' = [seen EXCEPT ![r] = {Store[d.key]}]
    BY <1>4, <1>5
<1> QED
    BY <1>2, <1>3, <1>6, <1>7 DEF KV!Invoke, Store, Stages

LEMMA TakeMaps ==
    ASSUME Inv, NEW r \in Requests, TakeFirst(r) \/ TakeSecond(r) \/ TakeWriter(r)
    PROVE  UNCHANGED KV!vars
<1>1. PICK at \in {"readfirst", "readsecond", "store"} :
          /\ pc' = [pc EXCEPT ![r] = at] /\ Stage(at) = Stage(pc[r])
          /\ UNCHANGED <<mem, collection, call, reply, seen, overtaken>>
    BY DEF TakeFirst, TakeSecond, TakeWriter, Take, At, Goto, Stage
<1>2. pc \in [Requests -> RequestPcs]
    BY DEF Inv, TypeInv, TypeOK
<1>3. Stages' = Stages
    BY <1>1, <1>2, StageStays
<1> QED
    BY <1>1, <1>3, StoreStays, Stutter DEF mem

\* A Get that finds an entry its key has held, and reports it with its version or
\* with 0, reads it.
LEMMA AnswerMaps ==
    ASSUME Inv, NEW r \in Requests, NEW entry \in seen[r], Stage(pc[r]) = "called",
           UNCHANGED <<mem, collection, call, seen, overtaken>>,
           IsGet(call[r]), pc' = [pc EXCEPT ![r] = "return"],
           \/ /\ IsLive(entry)
              /\ \E version \in {0, entry.version} :
                    reply' = [reply EXCEPT ![r] = [value |-> entry.value,
                                                   version |-> version]]
           \/ ~IsLive(entry) /\ reply' = [reply EXCEPT ![r] = NotFound]
    PROVE  KV!Read(r)
<1>1. pc \in [Requests -> RequestPcs]
    BY DEF Inv, TypeInv, TypeOK
<1>2. Stages[r] = "called" /\ Stages' = [Stages EXCEPT ![r] = "answered"]
    BY <1>1, StageMoves DEF Stage, Stages
<1>3. Store' = Store
    BY StoreStays DEF mem
<1>4. KV!IsLive(entry) <=> IsLive(entry)
    BY DEF IsLive, KV!IsLive
<1>5. KV!IsGet(call[r])
    BY DEF IsGet, KV!IsGet
<1>6. IF KV!IsLive(entry)
      THEN \E version \in {0, entry.version} :
              KV!Answer(r, [value |-> entry.value, version |-> version])
      ELSE KV!Answer(r, NotFound)
    BY <1>2, <1>4 DEF KV!Answer, Stages
<1> QED
    BY <1>2, <1>3, <1>5, <1>6 DEF KV!Read, Store, Stages

LEMMA ReadMaps ==
    ASSUME Inv, NEW r \in Requests, ReadFirst(r) \/ ReadSecond(r)
    PROVE  KV!Read(r) \/ UNCHANGED KV!vars
<1>1. /\ pc \in [Requests -> RequestPcs] /\ Ahead(r)
      /\ UNCHANGED <<mem, collection, call, seen, overtaken>>
    BY DEF Inv, TypeInv, TypeOK, EngineInv, AheadIsSeen, ReadFirst, ReadSecond, Read
<1>2. PICK next \in {"second", "persistent"} :
          Read(r, next) /\ pc[r] \in {"readfirst", "readsecond"}
    BY DEF ReadFirst, ReadSecond, At
<1> DEFINE entry == maps[target[r]][Key(r)]
<1>3. CASE entry # None /\ IsGet(call[r])
    <2>1. entry \in seen[r]
        BY <1>1, <1>2, <1>3 DEF Ahead, InTarget
    <2>2. FoundInMemory(r, entry)
        BY <1>2, <1>3 DEF Read
    <2>3. pc' = [pc EXCEPT ![r] = "return"] /\ Stage(pc[r]) = "called"
        BY <1>2, <1>3, <2>2 DEF FoundInMemory, Finish, Goto, Stage
    <2>4. \/ /\ IsLive(entry)
             /\ reply' = [reply EXCEPT ![r] = [value |-> entry.value, version |-> 0]]
          \/ ~IsLive(entry) /\ reply' = [reply EXCEPT ![r] = NotFound]
        BY <1>3, <2>2 DEF FoundInMemory, Finish
    <2> QED
        BY <1>1, <1>3, <2>1, <2>3, <2>4, AnswerMaps
<1>4. CASE entry = None \/ ~IsGet(call[r])
    <2>1. PICK at \in {"second", "persistent", "wal"} : pc' = [pc EXCEPT ![r] = at]
        BY <1>2, <1>4 DEF Read, FoundInMemory, Goto
    <2>2. reply' = reply
        BY <1>2, <1>4 DEF Read, FoundInMemory
    <2>3. Stages' = Stages
        BY <1>1, <1>2, <2>1, StageStays DEF Stage
    <2> QED
        BY <1>1, <2>2, <2>3, StoreStays, Stutter DEF mem
<1> QED
    BY <1>3, <1>4

\* On disk a Get is answered, and a write is omitted or goes on.
LEMMA ReadPersistentMaps ==
    ASSUME Inv, NEW r \in Requests, ReadPersistent(r)
    PROVE  KV!Read(r) \/ KV!OmitWrite(r) \/ UNCHANGED KV!vars
<1> DEFINE entry == PersistentGet(Key(r))
<1>1. FoundOnDisk(r, entry)
    BY ReadPersistentFinds
<1> HIDE DEF entry
<1>2. /\ pc \in [Requests -> RequestPcs] /\ Ahead(r) /\ pc[r] = "persistent"
      /\ UNCHANGED <<mem, collection, call, seen, overtaken>>
    BY DEF Inv, TypeInv, TypeOK, EngineInv, AheadIsSeen, ReadPersistent, At
<1>3. entry \in seen[r] /\ Stage(pc[r]) = "called" /\ Stages[r] = "called"
    BY <1>2 DEF Ahead, OnDisk, Stage, Stages, entry
<1>4. Store' = Store
    BY <1>2, StoreStays DEF mem
<1>5. CASE IsGet(call[r])
    <2>1. pc' = [pc EXCEPT ![r] = "return"]
        BY <1>1, <1>5 DEF FoundOnDisk, Finish, Goto
    <2>2. \/ /\ IsLive(entry)
             /\ reply' = [reply EXCEPT ![r] = [value |-> entry.value,
                                               version |-> entry.version]]
          \/ ~IsLive(entry) /\ reply' = [reply EXCEPT ![r] = NotFound]
        BY <1>1, <1>5 DEF FoundOnDisk, Finish
    <2> QED
        BY <1>2, <1>3, <1>5, <2>1, <2>2, AnswerMaps
<1>6. CASE ~IsGet(call[r]) /\ IsLive(entry) /\ call[r].entry.version < entry.version
    <2>1. FinishWrite(r)
        BY <1>1, <1>6 DEF FoundOnDisk
    <2>2. PICK at \in {"size", "return"} : pc' = [pc EXCEPT ![r] = at]
        BY <2>1 DEF FinishWrite, Goto
    <2>3. Stages' = [Stages EXCEPT ![r] = "answered"]
        BY <1>2, <2>2, StageMoves DEF Stage
    <2>4. KV!Answer(r, Ok)
        BY <1>2, <2>1, <2>3 DEF KV!Answer, FinishWrite, Stages
    <2>5. ~KV!IsGet(call[r]) /\ KV!IsLive(entry)
        BY <1>6 DEF IsGet, KV!IsGet, IsLive, KV!IsLive
    <2> QED
        BY <1>2, <1>3, <1>4, <1>6, <2>4, <2>5 DEF KV!OmitWrite, Store, Stages
<1>7. CASE ~IsGet(call[r]) /\ ~(IsLive(entry) /\ call[r].entry.version < entry.version)
    <2>1. pc' = [pc EXCEPT ![r] = "wal"] /\ reply' = reply
        BY <1>1, <1>7 DEF FoundOnDisk, Goto
    <2>2. Stages' = Stages
        BY <1>2, <2>1, StageStays DEF Stage
    <2> QED
        BY <1>2, <1>4, <2>1, <2>2, Stutter
<1> QED
    BY <1>5, <1>6, <1>7

\* A log that has failed fails the write; one that accepts it changes nothing yet.
LEMMA LogMaps ==
    ASSUME Inv, NEW r \in Requests, WriteWal(r) \/ FailWal(r) \/ CheckSize(r) \/ TryAcquire(r)
    PROVE  KV!FailWrite(r) \/ UNCHANGED KV!vars
<1>1. /\ pc \in [Requests -> RequestPcs] /\ Ahead(r)
      /\ UNCHANGED <<mem, collection, call, seen, overtaken>>
    BY DEF Inv, TypeInv, TypeOK, EngineInv, AheadIsSeen, WriteWal, FailWal, CheckSize, TryAcquire
<1>2. Store' = Store
    BY <1>1, StoreStays DEF mem
<1>3. CASE FailWal(r)
    <2>1. pc[r] = "wal" /\ pc' = [pc EXCEPT ![r] = "return"]
          /\ reply' = [reply EXCEPT ![r] = Failed]
        BY <1>3 DEF FailWal, At, Finish, Goto
    <2>2. Stages[r] = "called" /\ Stages' = [Stages EXCEPT ![r] = "answered"]
        BY <1>1, <2>1, StageMoves DEF Stage, Stages
    <2>3. ~KV!IsGet(call[r])
        BY <1>1, <2>1 DEF Ahead, IsGet, KV!IsGet
    <2> QED
        BY <1>1, <1>2, <2>1, <2>2, <2>3 DEF KV!FailWrite, KV!Answer, Store, Stages
<1>4. CASE WriteWal(r) \/ CheckSize(r) \/ TryAcquire(r)
    <2>1. PICK at \in {"mem", "return", "acquire"} :
              pc' = [pc EXCEPT ![r] = at] /\ Stage(at) = Stage(pc[r])
        BY <1>4 DEF WriteWal, CheckSize, TryAcquire, At, Goto, Stage
    <2>2. Stages' = Stages
        BY <1>1, <2>1, StageStays
    <2>3. reply' = reply
        BY <1>4 DEF WriteWal, CheckSize, TryAcquire
    <2> QED
        BY <1>1, <1>2, <2>2, <2>3, Stutter
<1> QED
    BY <1>3, <1>4

LEMMA ReturnMaps ==
    ASSUME Inv, NEW r \in Requests, Return(r)
    PROVE  KV!Return(r)
<1>1. pc \in [Requests -> RequestPcs] /\ pc[r] = "return" /\ pc' = [pc EXCEPT ![r] = "idle"]
    BY DEF Inv, TypeInv, TypeOK, Return, At, Goto
<1>2. Stages[r] = "answered" /\ Stages' = [Stages EXCEPT ![r] = "idle"]
    BY <1>1, StageMoves DEF Stage, Stages
<1>3. Store' = Store
    BY StoreStays DEF Return, mem
<1> QED
    BY <1>2, <1>3 DEF Return, KV!Return, Store, Stages

-----------------------------------------------------------------------------
(* The write to memory *)

\* The key holds the entry from now on, unless it is hidden; other keys hold what they
\* held.
LEMMA WriteMemStore ==
    ASSUME Inv, NEW r \in Requests, WriteMem(r)
    PROVE  Store' = IF Hidden(r) THEN Store ELSE [Store EXCEPT ![Key(r)] = call[r].entry]
<1>1. readerFirst \in MemIds /\ readerSecond \in MemIds
    BY DEF Inv, TypeInv, TypeOK
<1>2. ASSUME NEW k \in Keys
      PROVE  Lookup(k)' = IF k = Key(r) /\ ~Hidden(r) THEN call[r].entry ELSE Lookup(k)
    <2>1. PersistentGet(k)' = PersistentGet(k) /\ UNCHANGED <<readerFirst, readerSecond>>
        BY WriteMemEffect DEF PersistentGet
    <2>2. /\ Lookup(k)' = IF maps'[readerFirst][k] # None THEN maps'[readerFirst][k]
                          ELSE IF maps'[readerSecond][k] # None THEN maps'[readerSecond][k]
                          ELSE PersistentGet(k)
          /\ Lookup(k) = IF maps[readerFirst][k] # None THEN maps[readerFirst][k]
                         ELSE IF maps[readerSecond][k] # None THEN maps[readerSecond][k]
                         ELSE PersistentGet(k)
        BY <2>1 DEF Lookup
    <2> QED
        BY <1>1, <2>2, WriteMemEffect DEF Hidden
<1> QED
    BY <1>2 DEF Store

\* The requests that see the write are those that are under way on its key.
LEMMA ConcernedAre ==
    ASSUME NEW r \in Requests
    PROVE  KV!Concerned(r) = {s \in Requests : Active(s) /\ Key(s) = Key(r)}
BY DEF KV!Concerned, Active, Key

LEMMA WriteMemMaps ==
    ASSUME Inv, NEW r \in Requests, WriteMem(r)
    PROVE  KV!Write(r) \/ KV!WriteOvertaken(r)
<1>1. /\ pc \in [Requests -> RequestPcs] /\ overtaken \in [Requests -> BOOLEAN]
      /\ Ahead(r) /\ pc[r] = "store"
    BY DEF Inv, TypeInv, TypeOK, EngineInv, AheadIsSeen, WriteMem, At
<1>2. PICK at \in {"size", "return"} : pc' = [pc EXCEPT ![r] = at]
    BY DEF WriteMem, FinishWrite, Goto
<1>3. Stages[r] = "called" /\ Stages' = [Stages EXCEPT ![r] = "answered"]
    BY <1>1, <1>2, StageMoves DEF Stage, Stages
<1>4. KV!Answer(r, Ok)
    BY <1>3 DEF KV!Answer, WriteMem, FinishWrite, Stages
<1>5. ~KV!IsGet(call[r])
    BY <1>1 DEF Ahead, IsGet, KV!IsGet
<1>6. /\ seen' = [s \in Requests |->
                     IF s \in KV!Concerned(r) /\ (Hidden(r) => overtaken[s])
                     THEN seen[s] \cup {call[r].entry} ELSE seen[s]]
      /\ overtaken' = [s \in Requests |->
                          overtaken[s] \/ (s \in KV!Concerned(r) \ {r} /\ ~Hidden(r))]
    BY ConcernedAre DEF WriteMem, Hidden
<1>7. CASE Hidden(r)
    <2>1. overtaken[r]
        BY <1>1, <1>7 DEF Ahead, Hidden, FirstIsNewer
    <2>2. Store' = Store
        BY <1>7, WriteMemStore
    <2>3. overtaken' = overtaken
        BY <1>1, <1>6, <1>7
    <2>4. seen' = [s \in Requests |->
                      IF s \in KV!Concerned(r) /\ overtaken[s]
                      THEN seen[s] \cup {call[r].entry} ELSE seen[s]]
        BY <1>6, <1>7
    <2>5. KV!WriteOvertaken(r)
        BY <1>3, <1>4, <1>5, <2>1, <2>2, <2>3, <2>4 DEF KV!WriteOvertaken, Store, Stages
    <2> QED
        BY <2>5
<1>8. CASE ~Hidden(r)
    <2>1. Store' = [Store EXCEPT ![call[r].key] = call[r].entry]
        BY <1>8, WriteMemStore DEF Key
    <2>2. overtaken' = [s \in Requests |-> overtaken[s] \/ s \in KV!Concerned(r) \ {r}]
        BY <1>6, <1>8
    <2>3. seen' = [s \in Requests |->
                      IF s \in KV!Concerned(r) THEN seen[s] \cup {call[r].entry} ELSE seen[s]]
        BY <1>6, <1>8
    <2>4. KV!Write(r)
        BY <1>3, <1>4, <1>5, <2>1, <2>2, <2>3 DEF KV!Write, Store, Stages
    <2> QED
        BY <2>4
<1> QED
    BY <1>7, <1>8

-----------------------------------------------------------------------------
(* The steps of the job *)

\* The copy of the second table on disk says what the second table says.
LEMMA PushTableKeepsStore ==
    ASSUME Inv, PushTable
    PROVE  Store' = Store
<1>1. /\ MovedIsKept /\ job \in Job /\ collection \in Seq(OpenTable) /\ jobPc = "push"
    BY DEF Inv, EngineInv, TypeInv, TypeOK, PushTable, JobAt
<1>2. UNCHANGED <<maps, readerFirst, readerSecond>>
    BY DEF PushTable, mem
<1> DEFINE t == [path |-> job.path, table |-> job.data]
<1>3. t \in OpenTable /\ t.table = maps[readerSecond]
    BY <1>1 DEF Job, OpenTable, MovedIsKept, Moving
<1>4. collection' = Append(collection, t)
    BY DEF PushTable
<1> HIDE DEF t
<1>5. ASSUME NEW k \in Keys PROVE Lookup(k)' = Lookup(k)
    <2>1. PersistentGet(k)' = IF maps[readerSecond][k] # None THEN maps[readerSecond][k]
                              ELSE PersistentGet(k)
        BY <1>1, <1>3, <1>4, NewestInAppend DEF PersistentGet
    <2> QED
        BY <1>2, <2>1 DEF Lookup
<1> QED
    BY <1>5 DEF Store

\* What the second table holds is on disk when it is dropped.
LEMMA DropCollectedKeepsStore ==
    ASSUME Inv, DropCollected
    PROVE  Store' = Store
<1>1. \A k \in Keys : maps[readerSecond][k] # None => PersistentGet(k) = maps[readerSecond][k]
    BY DEF Inv, EngineInv, MovedIsKept, DropCollected, JobAt
<1>2. readerSecond' = readerFirst /\ UNCHANGED <<maps, readerFirst, collection>>
    BY DEF DropCollected
<1>3. ASSUME NEW k \in Keys PROVE Lookup(k)' = Lookup(k)
    BY <1>1, <1>2 DEF Lookup, PersistentGet
<1> QED
    BY <1>3 DEF Store

\* The table that becomes the first is empty.
LEMMA RefillFirstKeepsStore ==
    ASSUME Inv, RefillFirst
    PROVE  Store' = Store
<1> DEFINE m == NewMap({readerSecond})
<1>1. /\ maps \in [MemIds -> Table] /\ readerSecond \in MemIds /\ readerFirst = readerSecond
    BY DEF Inv, EngineInv, TypeInv, TypeOK, TablesInOrder, RefillFirst, JobAt
<1>2. m \in MemIds /\ m # readerSecond
    BY <1>1, NewMapIsNew
<1>3. /\ readerFirst' = m /\ maps' = [maps EXCEPT ![m] = EmptyTable]
      /\ UNCHANGED <<readerSecond, collection>>
    BY DEF RefillFirst
<1> HIDE DEF m
<1>4. ASSUME NEW k \in Keys PROVE Lookup(k)' = Lookup(k)
    <2>1. maps'[readerFirst'][k] = None /\ maps'[readerSecond'] = maps[readerSecond]
        BY <1>1, <1>2, <1>3 DEF EmptyTable
    <2>2. PersistentGet(k)' = PersistentGet(k)
        BY <1>3 DEF PersistentGet
    <2> QED
        BY <1>1, <2>1, <2>2 DEF Lookup
<1> QED
    BY <1>4 DEF Store

\* The merged table says what the tables it was made from say.
LEMMA ReplaceCollectionKeepsStore ==
    ASSUME Inv, ReplaceCollection
    PROVE  Store' = Store
<1>1. job \in Job /\ job.data = Merged(collection)
    BY DEF Inv, EngineInv, TypeInv, TypeOK, MovedIsKept, Merging, ReplaceCollection, JobAt
<1>2. UNCHANGED <<maps, readerFirst, readerSecond>>
    BY DEF ReplaceCollection, mem
<1> DEFINE t == [path |-> job.path, table |-> job.data]
<1>3. t \in OpenTable /\ t.table = Merged(collection) /\ collection' = <<t>>
    BY <1>1 DEF Job, OpenTable, ReplaceCollection
<1> HIDE DEF t
<1>4. ASSUME NEW k \in Keys PROVE Lookup(k)' = Lookup(k)
    <2>1. PersistentGet(k)' = PersistentGet(k)
        BY <1>3, NewestInSingle DEF PersistentGet, Merged
    <2> QED
        BY <1>2, <2>1 DEF Lookup
<1> QED
    BY <1>4 DEF Store

\* No step of the job shows.
LEMMA JobKeepsStore ==
    ASSUME Inv, JobStep
    PROVE  Store' = Store
<1>1. \/ PushTable \/ DropCollected \/ RefillFirst \/ ReplaceCollection
      \/ UNCHANGED <<maps, readerFirst, readerSecond, collection>>
    BY DEF JobStep, CreateWal, SwapWal, SwitchWriter, CopySecond, WriteTable, TruncateMetadata,
           AppendMetadata, RemoveWal, Compact, CompactEmptyTable, RenameMetadata, RemoveFiles,
           ThrowInSwapWith, Release, mem
<1> QED
    BY <1>1, PushTableKeepsStore, DropCollectedKeepsStore, RefillFirstKeepsStore,
       ReplaceCollectionKeepsStore, StoreStays

LEMMA JobMaps ==
    ASSUME Inv, JobStep
    PROVE  UNCHANGED KV!vars
<1>1. UNCHANGED clients
    BY DEF JobStep, CreateWal, SwapWal, SwitchWriter, CopySecond, WriteTable, TruncateMetadata,
           AppendMetadata, PushTable, DropCollected, RefillFirst, RemoveWal, Compact,
           CompactEmptyTable, RenameMetadata, ReplaceCollection, RemoveFiles, ThrowInSwapWith,
           Release
<1>2. Stages' = Stages
    BY <1>1 DEF clients, Stages
<1> QED
    BY <1>1, <1>2, JobKeepsStore, Stutter DEF clients

-----------------------------------------------------------------------------
LEMMA NextMaps == Inv /\ [Next]_vars => [KV!Next]_(KV!vars)
<1> SUFFICES ASSUME Inv, [Next]_vars PROVE [KV!Next]_(KV!vars)
    OBVIOUS
<1>1. ASSUME NEW r \in Requests, Invoke(r) \/ RequestStep(r)
      PROVE  [KV!Next]_(KV!vars)
    <2>1. CASE Invoke(r)
        BY <2>1, InvokeMaps DEF KV!Next
    <2>2. CASE TakeFirst(r) \/ TakeSecond(r) \/ TakeWriter(r)
        BY <2>2, TakeMaps
    <2>3. CASE ReadFirst(r) \/ ReadSecond(r)
        BY <2>3, ReadMaps DEF KV!Next
    <2>4. CASE ReadPersistent(r)
        BY <2>4, ReadPersistentMaps DEF KV!Next
    <2>5. CASE WriteWal(r) \/ FailWal(r) \/ CheckSize(r) \/ TryAcquire(r)
        BY <2>5, LogMaps DEF KV!Next
    <2>6. CASE WriteMem(r)
        BY <2>6, WriteMemMaps DEF KV!Next
    <2>7. CASE Return(r)
        BY <2>7, ReturnMaps DEF KV!Next
    <2>8. CASE ThrowInGet(r)
        <3>1. UNCHANGED <<mem, collection, clients>>
            BY <2>8, ThrowInGetChanges
        <3> QED
            BY <3>1, EngineStays
    <2> QED
        BY <1>1, <2>1, <2>2, <2>3, <2>4, <2>5, <2>6, <2>7, <2>8 DEF RequestStep
<1>2. CASE JobStep
    BY <1>2, JobMaps
<1>3. CASE UNCHANGED vars
    <2>1. UNCHANGED <<mem, collection, clients>>
        BY <1>3 DEF vars
    <2> QED
        BY <2>1, EngineStays
<1> QED
    BY <1>1, <1>2, <1>3 DEF Next, Halted

\* The storage engine implements the abstract store: although a request reads three
\* places one after the other and a write goes to the table it took earlier, while the
\* job moves entries between them (storage_system.cpp:16-72,
\* swappable_memory_storage.cpp:44-103, compaction.cpp), every Insert and Remove takes
\* effect at one moment, is omitted or fails, every Get reads what its key held during
\* the call, and no step of the job changes what a key holds.  That is so whichever
\* disk operations fail, but for as long as no search meets an entry that its file has
\* lost: there the process dies (ThrowInGet), and nothing is answered any more.
THEOREM EngineImplementsKVStore == Spec => ImplementsKVStore
<1>1. Init => KV!Init
    BY InitMaps
<1>2. Inv /\ [Next]_vars => [KV!Next]_(KV!vars)
    BY NextMaps
<1> QED
    BY <1>1, <1>2, Invariant, PTL DEF Spec, ImplementsKVStore, KV!Spec

-----------------------------------------------------------------------------
(* What the job leaves for a Get to find *)

\* What an undisturbed Get may find: nothing when its search of the files throws.
Outcomes(k) ==
    IF maps[readerFirst][k] # None THEN {maps[readerFirst][k]}
    ELSE IF maps[readerSecond][k] # None THEN {maps[readerSecond][k]}
    ELSE SearchResults(k)

NothingLost == \A p \in Paths : lost[p] = {}

\* A Get finds the entry the key holds, or throws.
LEMMA OutcomeIsLookup == \A k \in Keys : Outcomes(k) \subseteq {Lookup(k)}
BY DEF Outcomes, Lookup, SearchResults

\* It does not throw when all entries of the open tables are in their files.
LEMMA IntactTablesDoNotThrow ==
    ASSUME \A i \in DOMAIN collection : Gone(collection[i]) = {}
    PROVE  \A k \in Keys : Outcomes(k) = {Lookup(k)}
<1>1. \A k \in Keys : ~Throws(k)
    BY DEF Throws, Searched
<1> QED
    BY <1>1 DEF Outcomes, Lookup, SearchResults

LEMMA NothingLostIsIntact ==
    ASSUME TypeOK, NothingLost
    PROVE  \A i \in DOMAIN collection : Gone(collection[i]) = {}
<1>1. \A i \in DOMAIN collection : collection[i] \in OpenTable
    BY DEF TypeOK
<1>2. \A i \in DOMAIN collection : collection[i].path \in Paths
    BY <1>1 DEF OpenTable
<1> QED
    BY <1>2 DEF Gone, NothingLost

\* A file that is written is not one of the open tables: what these can read stays.
LEMMA WriteFileIsNew ==
    ASSUME TypeOK, NothingLost, HasNewPath, NEW table, WriteFile(NewPath, table),
           UNCHANGED collection
    PROVE  (\A i \in DOMAIN collection : Gone(collection[i]) = {})'
<1>1. \A i \in DOMAIN collection : collection[i].path \in Paths \ {NewPath}
    <2>1. \A i \in DOMAIN collection : collection[i] \in OpenTable
        BY DEF TypeOK
    <2> QED
        BY <2>1, NewPathIsNew DEF OpenTable, IsNewPath, Opened
<1>2. lost \in [Paths -> SUBSET Keys]
    BY DEF TypeOK
<1>3. \A p \in Paths \ {NewPath} : lost'[p] = {}
    BY <1>2 DEF WriteFile, NothingLost
<1> QED
    BY <1>1, <1>3 DEF Gone

\* After a step of the job, too, all entries of the open tables are in their files, if
\* nothing had been lost before it.
LEMMA JobKeepsTablesIntact ==
    ASSUME Inv, Inv', JobStep, NothingLost
    PROVE  (\A i \in DOMAIN collection : Gone(collection[i]) = {})'
<1>1. TypeOK /\ TypeOK'
    BY DEF Inv, TypeInv
<1>2. CASE UNCHANGED lost
    <2>1. NothingLost'
        BY <1>2 DEF NothingLost
    <2>2. (TypeOK /\ NothingLost => \A i \in DOMAIN collection : Gone(collection[i]) = {})'
        BY NothingLostIsIntact, PTL
    <2> QED
        BY <1>1, <2>1, <2>2
<1>3. ASSUME HasNewPath, NEW table, WriteFile(NewPath, table), UNCHANGED collection
      PROVE  (\A i \in DOMAIN collection : Gone(collection[i]) = {})'
    BY <1>1, <1>3, WriteFileIsNew
<1>4. CASE WriteTable
    BY <1>2, <1>3, <1>4 DEF WriteTable
<1>5. CASE Compact
    BY <1>2, <1>3, <1>5 DEF Compact
<1>6. CASE ~WriteTable /\ ~Compact
    <2>1. UNCHANGED lost
        BY <1>6 DEF JobStep, CreateWal, SwapWal, SwitchWriter, CopySecond, TruncateMetadata,
           AppendMetadata, PushTable, DropCollected, RefillFirst, RemoveWal,
           CompactEmptyTable, RenameMetadata, ReplaceCollection, RemoveFiles, ThrowInSwapWith,
           Release, disk
    <2> QED
        BY <1>2, <2>1
<1> QED
    BY <1>4, <1>5, <1>6

\* No step of the swap and of the compaction changes what a key holds, from
\* the copy of the second table to the new list of files, also when they give up after a
\* failed operation: after the step an undisturbed Get finds what the key held before
\* it.  Only when a flush has lost entries of a file may it find nothing and throw, once
\* the copy in memory is dropped; it never finds an older entry instead
\* (swappable_memory_storage.cpp:61-103, compaction.cpp, persistent.cpp:85-100,
\* persistent_storage_collection.cpp:97-167).
JobIsHidden ==
    JobStep => \A k \in Keys :
        /\ Outcomes(k)' \subseteq {Lookup(k)}
        /\ NothingLost => Outcomes(k)' = Outcomes(k)

THEOREM JobNeverShows == Spec => [][JobIsHidden]_vars
<1>1. Inv /\ Inv' /\ [Next]_vars => [JobIsHidden]_vars
    <2> SUFFICES ASSUME Inv, Inv', JobStep
                 PROVE  \A k \in Keys : /\ Outcomes(k)' \subseteq {Lookup(k)}
                                        /\ NothingLost => Outcomes(k)' = Outcomes(k)
        BY DEF JobIsHidden
    <2>1. \A k \in Keys : Lookup(k)' = Lookup(k)
        <3>1. \A k \in Keys : Store'[k] = Store[k]
            BY JobKeepsStore
        <3> QED
            BY <3>1 DEF Store
    <2>2. (\A k \in Keys : Outcomes(k) \subseteq {Lookup(k)})'
        BY OutcomeIsLookup, PTL
    <2>3. ASSUME NothingLost PROVE \A k \in Keys : Outcomes(k)' = Outcomes(k)
        <3>1. \A i \in DOMAIN collection : Gone(collection[i]) = {}
            BY <2>3, NothingLostIsIntact DEF Inv, TypeInv
        <3>2. \A k \in Keys : Outcomes(k) = {Lookup(k)}
            BY <3>1, IntactTablesDoNotThrow
        <3>3. (\A i \in DOMAIN collection : Gone(collection[i]) = {})'
            BY <2>3, JobKeepsTablesIntact
        <3>4. ((\A i \in DOMAIN collection : Gone(collection[i]) = {})
                  => \A k \in Keys : Outcomes(k) = {Lookup(k)})'
            BY IntactTablesDoNotThrow, PTL
        <3>5. \A k \in Keys : Outcomes(k)' = {Lookup(k)'}
            BY <3>3, <3>4
        <3> QED
            BY <2>1, <3>2, <3>5
    <2> QED
        BY <2>1, <2>2, <2>3
<1> QED
    BY <1>1, Invariant, PTL DEF Spec
=============================================================================
