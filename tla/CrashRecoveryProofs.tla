------------------------- MODULE CrashRecoveryProofs -------------------------
(***************************************************************************)
(* Proofs about what is on the disk, for any number of keys, files, requests *)
(* and deaths: a start that finds the disk as a running node has it loads    *)
(* what that node reads, and leaves a state a node may run in; and outside   *)
(* of the windows the logs and the files of a running node hold all it owes, *)
(* until a start has found it.                                               *)
(***************************************************************************)
EXTENDS CrashRecovery, StorageEngineProofs, FiniteSetTheorems

-----------------------------------------------------------------------------
(* Loading the listed files *)

\* The members of a set of numbers up to a member of it; counting them numbers the set.
UpTo(S, i) == {h \in S : h <= i}

LEMMA CountingGrows ==
    ASSUME NEW m \in Nat, NEW S \in SUBSET (1..m), NEW i \in S, NEW j \in S, i < j
    PROVE  Cardinality(UpTo(S, i)) < Cardinality(UpTo(S, j))
<1>1. IsFiniteSet(1..m)
    BY FS_Interval
<1>2. UpTo(S, j) \in SUBSET (1..m) /\ UpTo(S, i) \in SUBSET UpTo(S, j)
    <2>1. \A h \in S : h \in 1..m /\ h \in Nat
        OBVIOUS
    <2>2. \A h \in S : h <= i => h <= j
        BY <2>1
    <2> QED
        BY <2>1, <2>2 DEF UpTo
<1>3. IsFiniteSet(UpTo(S, j))
    BY <1>1, <1>2, FS_Subset
<1>4. IsFiniteSet(UpTo(S, i)) /\ Cardinality(UpTo(S, i)) <= Cardinality(UpTo(S, j))
    BY <1>2, <1>3, FS_Subset
<1>5. Cardinality(UpTo(S, i)) # Cardinality(UpTo(S, j))
    <2>1. j \in UpTo(S, j) /\ j \notin UpTo(S, i)
        BY DEF UpTo
    <2> QED
        BY <1>2, <1>3, <2>1, FS_Subset
<1>6. Cardinality(UpTo(S, i)) \in Nat /\ Cardinality(UpTo(S, j)) \in Nat
    BY <1>3, <1>4, FS_CardinalityType
<1> QED
    BY <1>4, <1>5, <1>6

LEMMA CountingNumbers ==
    ASSUME NEW m \in Nat, NEW S \in SUBSET (1..m)
    PROVE  /\ Cardinality(S) \in Nat
           /\ \A i \in S : Cardinality(UpTo(S, i)) \in 1..Cardinality(S)
           /\ \A n \in 1..Cardinality(S) : \E i \in S : Cardinality(UpTo(S, i)) = n
<1> DEFINE N == Cardinality(S)
           count == [i \in S |-> Cardinality(UpTo(S, i))]
<1>1. IsFiniteSet(S) /\ N \in Nat
    <2>1. IsFiniteSet(1..m)
        BY FS_Interval
    <2>2. IsFiniteSet(S)
        BY <2>1, FS_Subset
    <2> QED
        BY <2>2, FS_CardinalityType
<1>2. ASSUME NEW i \in S PROVE Cardinality(UpTo(S, i)) \in 1..N
    <2>1. UpTo(S, i) \in SUBSET S /\ i \in UpTo(S, i)
        BY DEF UpTo
    <2>2. IsFiniteSet(UpTo(S, i)) /\ Cardinality(UpTo(S, i)) <= N
        BY <1>1, <2>1, FS_Subset
    <2>3. Cardinality(UpTo(S, i)) \in Nat /\ Cardinality(UpTo(S, i)) # 0
        BY <2>1, <2>2, FS_CardinalityType, FS_EmptySet
    <2> QED
        BY <1>1, <2>2, <2>3
<1>3. IsFiniteSet(1..N) /\ Cardinality(1..N) = N
    BY <1>1, FS_Interval
<1>4. count \in [S -> 1..N]
    BY <1>2
<1>5. ASSUME NEW i \in S, NEW j \in S, i # j PROVE count[i] # count[j]
    <2>1. i \in Nat /\ j \in Nat
        OBVIOUS
    <2>2. \/ Cardinality(UpTo(S, i)) < Cardinality(UpTo(S, j))
          \/ Cardinality(UpTo(S, j)) < Cardinality(UpTo(S, i))
        <3>1. i < j \/ j < i
            BY <1>5, <2>1
        <3> QED
            BY <3>1, CountingGrows
    <2>3. Cardinality(UpTo(S, i)) \in Nat /\ Cardinality(UpTo(S, j)) \in Nat
        BY <1>2
    <2> QED
        BY <2>2, <2>3
<1>6. count \in Injection(S, 1..N)
    BY <1>4, <1>5 DEF Injection, IsInjective
<1>7. count \in Surjection(S, 1..N)
    BY <1>1, <1>3, <1>6, FS_Injection
<1>8. \A n \in 1..N : \E i \in S : count[i] = n
    BY <1>7 DEF Surjection
<1> QED
    BY <1>1, <1>2, <1>8

\* The files that are there are opened, all of them and in the order of the list.
LEMMA LoadedAreListed ==
    ASSUME metadata \in Seq(Paths), files \in [Paths -> Table \cup {NoFile}]
    PROVE  /\ Loaded \in Seq(OpenTable)
           /\ \A n \in DOMAIN Loaded :
                 /\ NthPresent(n) \in Present
                 /\ Loaded[n].path = metadata[NthPresent(n)]
                 /\ Loaded[n].table = files[metadata[NthPresent(n)]]
           /\ \A i \in Present : \E n \in DOMAIN Loaded : NthPresent(n) = i
           /\ \A n1, n2 \in DOMAIN Loaded : n1 < n2 => NthPresent(n1) < NthPresent(n2)
<1> DEFINE m == Len(metadata)
           N == Cardinality(Present)
<1>1. m \in Nat /\ DOMAIN metadata = 1..m /\ \A i \in 1..m : metadata[i] \in Paths
    BY LenProperties
<1> HIDE DEF m
<1>2. Present \in SUBSET (1..m)
    BY <1>1 DEF Present
<1>3. /\ N \in Nat
      /\ \A i \in Present : Cardinality(UpTo(Present, i)) \in 1..N
      /\ \A n \in 1..N : \E i \in Present : Cardinality(UpTo(Present, i)) = n
    BY <1>1, <1>2, CountingNumbers
<1>4. DOMAIN Loaded = 1..N
    BY DEF Loaded
<1>5. ASSUME NEW n \in 1..N
      PROVE  NthPresent(n) \in Present /\ Cardinality(UpTo(Present, NthPresent(n))) = n
    <2>1. \E i \in Present : Cardinality({h \in Present : h <= i}) = n
        BY <1>3 DEF UpTo
    <2> QED
        BY <2>1 DEF NthPresent, UpTo
<1>6. ASSUME NEW n \in 1..N
      PROVE  /\ Loaded[n].path = metadata[NthPresent(n)]
             /\ Loaded[n].table = files[metadata[NthPresent(n)]]
             /\ Loaded[n] \in OpenTable
    <2> DEFINE at == NthPresent(n)
    <2>1. at \in Present
        BY <1>5
    <2>2. Loaded[n] = [path |-> metadata[at], table |-> files[metadata[at]]]
        BY DEF Loaded
    <2> HIDE DEF at
    <2>3. metadata[at] \in Paths /\ files[metadata[at]] \in Table
        BY <1>1, <2>1 DEF Present
    <2>4. Loaded[n].path = metadata[at] /\ Loaded[n].table = files[metadata[at]]
        BY <2>2
    <2>5. Loaded[n] \in OpenTable
        BY <2>2, <2>3 DEF OpenTable
    <2> QED
        BY <2>4, <2>5 DEF at
<1>7. Loaded \in Seq(OpenTable)
    <2>1. Loaded = [n \in 1..N |-> Loaded[n]]
        BY DEF Loaded
    <2>2. Loaded \in [1..N -> OpenTable]
        BY <1>6, <2>1
    <2> QED
        BY <1>3, <2>2
<1>8. \A i, j \in Present : i < j =>
           Cardinality(UpTo(Present, i)) < Cardinality(UpTo(Present, j))
    BY <1>1, <1>2, CountingGrows
<1>9. ASSUME NEW i \in Present PROVE \E n \in 1..N : NthPresent(n) = i
    <2> DEFINE n == Cardinality(UpTo(Present, i))
               j == NthPresent(n)
    <2>1. n \in 1..N
        BY <1>3
    <2>2. j \in Present /\ Cardinality(UpTo(Present, j)) = n
        BY <1>5, <2>1
    <2> HIDE DEF j
    <2>3. i \in Nat /\ j \in Nat /\ n \in Nat
        BY <1>2, <1>3, <2>1, <2>2
    <2>4. ~(i < j) /\ ~(j < i)
        BY <1>8, <2>2, <2>3
    <2> QED
        BY <2>1, <2>3, <2>4 DEF j
<1>10. ASSUME NEW n1 \in 1..N, NEW n2 \in 1..N, n1 < n2
      PROVE  NthPresent(n1) < NthPresent(n2)
    <2> DEFINE i == NthPresent(n1)
               j == NthPresent(n2)
    <2>1. /\ i \in Present /\ Cardinality(UpTo(Present, i)) = n1
          /\ j \in Present /\ Cardinality(UpTo(Present, j)) = n2
        BY <1>5
    <2> HIDE DEF i, j
    <2>2. i \in Nat /\ j \in Nat /\ n1 \in Nat /\ n2 \in Nat
        BY <1>2, <1>3, <2>1
    <2>3. ~(j < i) /\ i # j
        BY <1>8, <1>10, <2>1, <2>2
    <2> QED
        BY <2>2, <2>3 DEF i, j
<1> QED
    BY <1>4, <1>5, <1>6, <1>7, <1>9, <1>10


-----------------------------------------------------------------------------
(* What a list of files holds *)

\* File i of the list is there and has the key.
FileHas(f, list, k, i) ==
    i \in DOMAIN list /\ f[list[i]] # NoFile /\ f[list[i]][k] # None

\* The last file of the list that has the key has this entry, or none has it.
Holds(f, list, k, entry) ==
    \/ entry = None /\ \A i \in DOMAIN list : ~FileHas(f, list, k, i)
    \/ \E i \in DOMAIN list :
          /\ FileHas(f, list, k, i) /\ entry = f[list[i]][k]
          /\ \A j \in DOMAIN list : j > i => ~FileHas(f, list, k, j)

\* That entry is found when the list is loaded.
LEMMA LoadedFindsHeld ==
    ASSUME metadata \in Seq(Paths), files \in [Paths -> Table \cup {NoFile}],
           NEW k \in Keys, NEW entry, Holds(files, metadata, k, entry)
    PROVE  NewestIn(Loaded, k) = entry
<1>1. /\ \A n \in DOMAIN Loaded :
            /\ NthPresent(n) \in Present
            /\ Loaded[n].table = files[metadata[NthPresent(n)]]
      /\ \A i \in Present : \E n \in DOMAIN Loaded : NthPresent(n) = i
      /\ \A n1, n2 \in DOMAIN Loaded : n1 < n2 => NthPresent(n1) < NthPresent(n2)
    BY LoadedAreListed
<1>2. /\ \A n \in DOMAIN Loaded : n \in Nat
      /\ \A i \in DOMAIN metadata : i \in Nat
    <2>1. Loaded \in Seq(OpenTable) /\ metadata \in Seq(Paths)
        BY LoadedAreListed
    <2> QED
        BY <2>1, LenProperties
<1>3. ASSUME NEW n \in DOMAIN Loaded
      PROVE  Loaded[n].table[k] # None <=> FileHas(files, metadata, k, NthPresent(n))
    BY <1>1 DEF FileHas, Present
<1>4. CASE entry = None /\ \A i \in DOMAIN metadata : ~FileHas(files, metadata, k, i)
    <2>1. \A n \in DOMAIN Loaded : Loaded[n].table[k] = None
        BY <1>1, <1>3, <1>4 DEF Present
    <2>2. ~HasNewest(Loaded, k)
        BY <2>1 DEF HasNewest, IsNewest
    <2> QED
        BY <1>4, <2>2 DEF NewestIn
<1>5. ASSUME NEW i \in DOMAIN metadata,
             FileHas(files, metadata, k, i), entry = files[metadata[i]][k],
             \A j \in DOMAIN metadata : j > i => ~FileHas(files, metadata, k, j)
      PROVE  NewestIn(Loaded, k) = entry
    <2>1. i \in Present
        BY <1>5 DEF FileHas, Present
    <2>2. PICK n \in DOMAIN Loaded : NthPresent(n) = i
        BY <1>1, <2>1
    <2>3. Loaded[n].table[k] = entry /\ entry # None
        BY <1>1, <1>5, <2>2 DEF FileHas
    <2>4. ASSUME NEW o \in DOMAIN Loaded, o > n PROVE Loaded[o].table[k] = None
        <3>1. NthPresent(o) \in DOMAIN metadata /\ NthPresent(o) > i
            <4>1. NthPresent(n) < NthPresent(o)
                BY <1>1, <1>2, <2>4
            <4>2. NthPresent(o) \in DOMAIN metadata
                BY <1>1 DEF Present
            <4> QED
                BY <1>2, <2>2, <4>1, <4>2
        <3> QED
            BY <1>3, <1>5, <3>1
    <2>5. IsNewest(Loaded, k, n)
        BY <2>3, <2>4 DEF IsNewest
    <2>6. ASSUME NEW o \in DOMAIN Loaded, IsNewest(Loaded, k, o) PROVE o = n
        <3>1. ~(o > n) /\ ~(n > o)
            BY <2>3, <2>4, <2>6 DEF IsNewest
        <3> QED
            BY <1>2, <3>1
    <2> QED
        BY <2>3, <2>5, <2>6, NewestIndexIs
<1> QED
    BY <1>4, <1>5 DEF Holds

\* A list without the file does not notice what is written to it.
LEMMA OtherFileHolds ==
    ASSUME NEW list \in Seq(Paths), NEW f, NEW g, NEW k, NEW entry,
           \A i \in DOMAIN list : g[list[i]] = f[list[i]],
           Holds(f, list, k, entry)
    PROVE  Holds(g, list, k, entry)
<1>1. \A i \in DOMAIN list : FileHas(f, list, k, i) <=> FileHas(g, list, k, i)
    BY DEF FileHas
<1> QED
    BY <1>1 DEF Holds

\* A file at the end of the list answers for the keys it has, and for no other.
LEMMA MoreHolds ==
    ASSUME NEW list \in Seq(Paths), NEW p \in Paths, NEW f, NEW k, NEW entry,
           f[p] # NoFile, Holds(f, list, k, entry)
    PROVE  Holds(f, Append(list, p), k, IF f[p][k] # None THEN f[p][k] ELSE entry)
<1> DEFINE more == Append(list, p)
           n == Len(list)
<1>1. /\ n \in Nat /\ DOMAIN list = 1..n /\ DOMAIN more = 1..(n + 1)
      /\ more[n + 1] = p
      /\ \A i \in 1..n : more[i] = list[i]
    BY AppendProperties, LenProperties
<1> HIDE DEF more, n
<1>2. \A i \in 1..n : FileHas(f, more, k, i) <=> FileHas(f, list, k, i)
    BY <1>1 DEF FileHas
<1>3. FileHas(f, more, k, n + 1) <=> f[p][k] # None
    BY <1>1 DEF FileHas
<1>4. CASE f[p][k] # None
    <2>1. n + 1 \in DOMAIN more /\ \A j \in DOMAIN more : ~(j > n + 1)
        BY <1>1
    <2> QED
        BY <1>1, <1>3, <1>4, <2>1 DEF Holds, more
<1>5. CASE f[p][k] = None
    <2>1. \A j \in DOMAIN more : j \in 1..n \/ j = n + 1
        BY <1>1
    <2>2. CASE entry = None /\ \A i \in DOMAIN list : ~FileHas(f, list, k, i)
        BY <1>1, <1>2, <1>3, <1>5, <2>1, <2>2 DEF Holds, more
    <2>3. ASSUME NEW i \in DOMAIN list, FileHas(f, list, k, i), entry = f[list[i]][k],
                 \A j \in DOMAIN list : j > i => ~FileHas(f, list, k, j)
          PROVE  Holds(f, more, k, entry)
        <3>1. i \in DOMAIN more /\ FileHas(f, more, k, i) /\ entry = f[more[i]][k]
            BY <1>1, <1>2, <2>3
        <3>2. \A j \in DOMAIN more : j > i => ~FileHas(f, more, k, j)
            BY <1>1, <1>2, <1>3, <1>5, <2>1, <2>3
        <3> QED
            BY <3>1, <3>2 DEF Holds
    <2> QED
        BY <1>5, <2>2, <2>3 DEF Holds, more
<1> QED
    BY <1>4, <1>5

\* Files that are removed are not missed when the last one has all they have.
LEMMA LessHolds ==
    ASSUME NEW list \in Seq(Paths), NEW f, NEW g, NEW k,
           Len(list) # 0, f[list[Len(list)]] # NoFile,
           g[list[Len(list)]] = f[list[Len(list)]],
           \A i \in DOMAIN list : g[list[i]] # NoFile => g[list[i]] = f[list[i]],
           Holds(f, list, k, f[list[Len(list)]][k])
    PROVE  Holds(g, list, k, f[list[Len(list)]][k])
<1> DEFINE n == Len(list)
           entry == f[list[n]][k]
<1>1. n \in DOMAIN list /\ \A j \in DOMAIN list : ~(j > n)
    BY LenProperties
<1> HIDE DEF n
<1>2. \A i \in DOMAIN list : FileHas(g, list, k, i) => FileHas(f, list, k, i)
    BY DEF FileHas
<1>3. CASE entry # None
    BY <1>1, <1>3 DEF Holds, FileHas, n
<1>4. CASE entry = None
    <2>1. \A i \in DOMAIN list : ~FileHas(f, list, k, i)
        BY <1>4 DEF Holds, FileHas, n
    <2> QED
        BY <1>2, <1>4, <2>1 DEF Holds, n
<1> QED
    BY <1>3, <1>4

-----------------------------------------------------------------------------
(* Why the disk matches: the inductive invariant *)

\* The list of the files, as it is or is about to be written; what it should hold for a
\* key; the files that are open.
List == IF jobPc = "append" THEN job.meta ELSE metadata
Expected(k) ==
    IF jobPc \in {"append", "push"} /\ job.data[k] # None THEN job.data[k] ELSE PersistentGet(k)
NamesIn(list) == {list[i] : i \in DOMAIN list}
EndsWith(list, p) == Len(list) # 0 /\ list[Len(list)] = p

\* While no disk operation has failed the list holds what the open tables hold.  The job
\* lists a file that is complete and that was not listed; it removes files only when the
\* last one of the list has all that they hold.
DiskAgrees ==
    /\ \A k \in Keys : Holds(files, List, k, Expected(k))
    /\ Opened \subseteq NamesIn(List)
    /\ jobPc \in {"truncate", "rename"} => files[job.path] = job.data /\ job.path \notin Listed
    /\ jobPc \in {"append", "push", "replace", "rmfiles"} => EndsWith(List, job.path)
    /\ jobPc \in {"replace", "rmfiles"} => files[job.path] = job.data /\ job.path \notin job.doomed
    /\ jobPc \in Merging => job.data = Merged(collection)
    /\ jobPc = "rmfiles" => collection = <<[path |-> job.path, table |-> job.data]>>

DiskInv == JobHoldsGuard /\ (faults = 0 => DiskAgrees)

Rewriting == {"truncate", "append", "push", "rename", "replace", "rmfiles"}

\* Away from the steps that rewrite the list, nothing is to be remembered.
LEMMA DiskStays ==
    ASSUME DiskAgrees, UNCHANGED <<files, metadata, collection>>,
           \/ jobPc \notin Rewriting /\ jobPc' \notin Rewriting
           \/ UNCHANGED <<jobPc, job>>
    PROVE  DiskAgrees'
<1>1. CASE jobPc \notin Rewriting /\ jobPc' \notin Rewriting
    <2>1. /\ \A k \in Keys : Holds(files, metadata, k, PersistentGet(k))
          /\ Opened \subseteq NamesIn(metadata)
        BY <1>1 DEF DiskAgrees, List, Expected, Rewriting
    <2>2. Opened' = Opened /\ \A k : PersistentGet(k)' = PersistentGet(k)
        BY DEF Opened, PersistentGet
    <2>3. List' = metadata' /\ \A k : Expected(k)' = PersistentGet(k)'
        BY <1>1 DEF List, Expected, Rewriting
    <2>4. \A k \in Keys : Holds(files, List, k, Expected(k))'
        BY <2>1, <2>2, <2>3
    <2>5. (Opened \subseteq NamesIn(List))'
        BY <2>1, <2>2, <2>3
    <2> QED
        BY <1>1, <2>4, <2>5 DEF DiskAgrees, Rewriting, Merging
<1>2. CASE UNCHANGED <<jobPc, job>>
    <2>1. /\ List' = List /\ Opened' = Opened /\ Listed' = Listed
          /\ \A k : Expected(k)' = Expected(k)
          /\ Merged(collection)' = Merged(collection)
        BY <1>2 DEF List, Opened, Listed, Expected, PersistentGet, Merged
    <2> QED
        BY <1>2, <2>1 DEF DiskAgrees
<1> QED
    BY <1>1, <1>2

\* A failure is counted.
LEMMA FaultCounts ==
    ASSUME faults \in Nat, Fault
    PROVE  faults' # 0
BY DEF Fault

\* Without a failure the file has all entries of the table, and its offsets.
LEMMA WriteFileWhole ==
    ASSUME faults \in Nat, faults' = 0, NEW p, NEW t, WriteFile(p, t)
    PROVE  faults = 0 /\ files' = [files EXCEPT ![p] = t]
BY FaultCounts DEF WriteFile

\* Requests write the log, and leave the files to the job.
LEMMA RequestDisk ==
    ASSUME TypeInv, DiskInv, NEW r \in Requests, Invoke(r) \/ RequestStep(r)
    PROVE  DiskInv'
<1>1. /\ UNCHANGED <<files, metadata, collection>>
      /\ faults' = faults \/ faults' = faults + 1
    BY DEF RequestStep, Invoke, TakeFirst, ReadFirst, TakeSecond, ReadSecond, ReadPersistent,
           ThrowInGet, WriteWal, FailWal, TakeWriter, WriteMem, CheckSize, TryAcquire, Return,
           Take, Read, Fault, disk, bounds
<1>2. faults' = 0 => faults = 0
    BY <1>1 DEF TypeInv, TypeOK
<1>3. CASE UNCHANGED <<jobPc, guard, job>>
    BY <1>1, <1>2, <1>3, DiskStays DEF DiskInv, JobHoldsGuard
<1>4. CASE TryAcquire(r)
    <2>1. CASE UNCHANGED <<guard, jobPc>>
        BY <1>3, <1>4, <2>1 DEF TryAcquire
    <2>2. CASE ~guard /\ guard' = TRUE /\ jobPc' = "newwal"
        <3>1. jobPc \notin Rewriting /\ jobPc' \notin Rewriting
            BY <2>2 DEF DiskInv, JobHoldsGuard, Rewriting
        <3> QED
            BY <1>1, <1>2, <2>2, <3>1, DiskStays DEF DiskInv, JobHoldsGuard
    <2> QED
        BY <1>4, <2>1, <2>2 DEF TryAcquire
<1> QED
    BY <1>3, <1>4 DEF RequestStep, Invoke, TakeFirst, ReadFirst, TakeSecond, ReadSecond,
                      ReadPersistent, ThrowInGet, WriteWal, FailWal, TakeWriter, WriteMem,
                      CheckSize, Return, Take, Read, jobVars

-----------------------------------------------------------------------------
(* The steps of the job that write the list and the files *)

LEMMA JobTypes ==
    ASSUME TypeOK
    PROVE  /\ job.path \in Paths /\ job.data \in Table /\ job.data # NoFile
           /\ job.meta \in Seq(Paths) /\ metadata \in Seq(Paths) /\ List \in Seq(Paths)
           /\ files \in [Paths -> Table \cup {NoFile}] /\ collection \in Seq(OpenTable)
BY NoFileAssumption DEF TypeOK, Job, List

\* The new file has a name that is not listed, so what the list holds stays.
LEMMA NewFileKept ==
    ASSUME TypeOK, HasNewPath, NEW t \in Table, files' = [files EXCEPT ![NewPath] = t],
           metadata' = metadata
    PROVE  /\ NewPath \in Paths /\ NewPath \notin Listed /\ files'[NewPath] = t
           /\ \A k, e : Holds(files, metadata, k, e) => Holds(files', metadata, k, e)
<1>1. NewPath \in Paths /\ NewPath \notin Listed
    BY NewPathIsNew DEF IsNewPath
<1> DEFINE p == NewPath
           g == files'
<1>2. files \in [Paths -> Table \cup {NoFile}] /\ metadata \in Seq(Paths)
    BY DEF TypeOK
<1>3. g = [files EXCEPT ![p] = t] /\ p \in Paths
    BY <1>1
<1> HIDE DEF p, g
<1>4. \A i \in DOMAIN metadata : metadata[i] \in Paths /\ metadata[i] # p
    <2>1. \A i \in DOMAIN metadata : metadata[i] \in Paths
        BY <1>2, LenProperties
    <2> QED
        BY <1>1, <2>1 DEF Listed, p
<1>5. g[p] = t /\ \A i \in DOMAIN metadata : g[metadata[i]] = files[metadata[i]]
    BY <1>2, <1>3, <1>4
<1>6. ASSUME NEW k, NEW e, Holds(files, metadata, k, e) PROVE Holds(g, metadata, k, e)
    BY <1>2, <1>5, <1>6, OtherFileHolds
<1> QED
    BY <1>1, <1>5, <1>6 DEF p, g

LEMMA WriteTableDisk ==
    ASSUME TypeInv, DiskInv, WriteTable
    PROVE  DiskInv'
<1>1. JobHoldsGuard'
    BY DEF WriteTable, JobAt, JobGoto, GiveUp, DiskInv, JobHoldsGuard
<1>2. ASSUME faults' = 0 PROVE DiskAgrees'
    <2>1. /\ HasNewPath /\ job' = [job EXCEPT !.path = NewPath] /\ JobGoto("truncate")
          /\ faults = 0 /\ files' = [files EXCEPT ![NewPath] = job.data]
        <3>1. faults \in Nat /\ ~Fault
            BY <1>2, FaultCounts DEF TypeInv, TypeOK
        <3>2. /\ HasNewPath /\ job' = [job EXCEPT !.path = NewPath] /\ JobGoto("truncate")
              /\ WriteFile(NewPath, job.data)
            BY <3>1 DEF WriteTable, GiveUp
        <3> QED
            BY <1>2, <3>1, <3>2, WriteFileWhole
    <2>2. faults = 0 /\ jobPc = "table" /\ UNCHANGED <<metadata, collection>>
        BY <1>2, <2>1 DEF WriteTable, JobAt
    <2>3. /\ HasNewPath /\ job' = [job EXCEPT !.path = NewPath]
          /\ files' = [files EXCEPT ![NewPath] = job.data] /\ jobPc' = "truncate"
        BY <2>1 DEF JobGoto
    <2>4. job.data \in Table /\ TypeOK /\ job \in Job
        BY JobTypes DEF TypeInv, TypeOK
    <2>5. /\ NewPath \notin Listed /\ files'[NewPath] = job.data
          /\ \A k, e : Holds(files, metadata, k, e) => Holds(files', metadata, k, e)
        BY <2>2, <2>3, <2>4, NewFileKept
    <2>6. job'.path = NewPath /\ job'.data = job.data
        BY <2>3, <2>4 DEF Job
    <2>7. /\ \A k \in Keys : Holds(files, metadata, k, PersistentGet(k))
          /\ Opened \subseteq NamesIn(metadata)
        BY <2>2 DEF DiskInv, DiskAgrees, List, Expected
    <2>8. /\ List' = metadata /\ Opened' = Opened /\ Listed' = Listed
          /\ \A k : Expected(k)' = PersistentGet(k)
        BY <2>2, <2>3 DEF List, Opened, Listed, Expected, PersistentGet
    <2>9. \A k \in Keys : Holds(files, List, k, Expected(k))'
        BY <2>5, <2>7, <2>8
    <2>10. (Opened \subseteq NamesIn(List))'
        BY <2>7, <2>8
    <2>11. files'[job'.path] = job'.data /\ job'.path \notin Listed'
        BY <2>5, <2>6, <2>8
    <2> QED
        BY <2>3, <2>9, <2>10, <2>11 DEF DiskAgrees, Merging
<1> QED
    BY <1>1, <1>2 DEF DiskInv

\* The list that is about to be written has the new file as its last.
LEMMA ListedLast ==
    ASSUME TypeOK, NEW list \in Seq(Paths), NEW p \in Paths
    PROVE  /\ EndsWith(Append(list, p), p)
           /\ NamesIn(list) \subseteq NamesIn(Append(list, p))
<1>1. /\ Len(list) \in Nat /\ DOMAIN list = 1..Len(list)
      /\ Len(Append(list, p)) = Len(list) + 1
      /\ DOMAIN Append(list, p) = 1..(Len(list) + 1)
      /\ Append(list, p)[Len(list) + 1] = p
      /\ \A i \in 1..Len(list) : Append(list, p)[i] = list[i]
    BY AppendProperties, LenProperties
<1>2. EndsWith(Append(list, p), p)
    BY <1>1 DEF EndsWith
<1>3. \A i \in DOMAIN list : i \in DOMAIN Append(list, p) /\ Append(list, p)[i] = list[i]
    BY <1>1
<1> QED
    BY <1>2, <1>3 DEF NamesIn

LEMMA TruncateMetadataDisk ==
    ASSUME TypeInv, DiskInv, TruncateMetadata
    PROVE  DiskInv'
<1>1. JobHoldsGuard'
    BY DEF TruncateMetadata, JobAt, JobGoto, GiveUp, DiskInv, JobHoldsGuard
<1>2. ASSUME faults' = 0 PROVE DiskAgrees'
    <2>1. faults = 0 /\ jobPc = "truncate" /\ UNCHANGED <<files, collection>>
        BY <1>2, FaultCounts DEF TruncateMetadata, JobAt, GiveUp, TypeInv, TypeOK
    <2>2. job' = [job EXCEPT !.meta = Append(metadata, job.path)] /\ jobPc' = "append"
        BY <1>2, FaultCounts DEF TruncateMetadata, GiveUp, JobGoto, TypeInv, TypeOK, WithTable
    <2>3. job'.path = job.path /\ job'.data = job.data /\ job'.meta = Append(metadata, job.path)
        BY <2>2 DEF TypeInv, TypeOK, Job
    <2>4. /\ \A k \in Keys : Holds(files, metadata, k, PersistentGet(k))
          /\ Opened \subseteq NamesIn(metadata)
          /\ files[job.path] = job.data
        BY <2>1 DEF DiskInv, DiskAgrees, List, Expected
    <2>5. /\ List' = Append(metadata, job.path) /\ Opened' = Opened
          /\ \A k : PersistentGet(k)' = PersistentGet(k)
          /\ \A k : Expected(k)' = IF job.data[k] # None THEN job.data[k] ELSE PersistentGet(k)
        BY <2>1, <2>2, <2>3 DEF List, Opened, Expected, PersistentGet
    <2>6. ASSUME NEW k \in Keys PROVE Holds(files, List, k, Expected(k))'
        <3>1. Holds(files, Append(metadata, job.path), k,
                    IF job.data[k] # None THEN job.data[k] ELSE PersistentGet(k))
            BY <2>4, MoreHolds, JobTypes DEF TypeInv
        <3> QED
            BY <2>1, <2>5, <3>1
    <2>7. (Opened \subseteq NamesIn(List))' /\ EndsWith(List, job.path)'
        BY <2>3, <2>4, <2>5, ListedLast, JobTypes DEF TypeInv
    <2> QED
        BY <2>2, <2>6, <2>7 DEF DiskAgrees, Merging
<1> QED
    BY <1>1, <1>2 DEF DiskInv

LEMMA AppendMetadataDisk ==
    ASSUME TypeInv, DiskInv, AppendMetadata
    PROVE  DiskInv'
<1>1. JobHoldsGuard'
    BY DEF AppendMetadata, JobAt, JobGoto, DiskInv, JobHoldsGuard
<1>2. ASSUME faults' = 0 PROVE DiskAgrees'
    <2>1. /\ faults = 0 /\ jobPc = "append" /\ jobPc' = "push" /\ metadata' = job.meta
          /\ UNCHANGED <<files, collection, job>>
        BY <1>2, FaultCounts DEF AppendMetadata, JobAt, JobGoto, TypeInv, TypeOK
    <2>2. /\ List' = List /\ Opened' = Opened
          /\ \A k : PersistentGet(k)' = PersistentGet(k)
        BY <2>1 DEF List, Opened, PersistentGet
    <2>3. \A k : Expected(k)' = Expected(k)
        BY <2>1, <2>2 DEF Expected
    <2> QED
        BY <2>1, <2>2, <2>3 DEF DiskInv, DiskAgrees, Merging
<1> QED
    BY <1>1, <1>2 DEF DiskInv

\* The table that is pushed answers for what the new file of the list holds.
LEMMA PushTableDisk ==
    ASSUME TypeInv, DiskInv, PushTable
    PROVE  DiskInv'
<1>1. JobHoldsGuard'
    BY DEF PushTable, JobAt, JobGoto, DiskInv, JobHoldsGuard
<1>2. ASSUME faults' = 0 PROVE DiskAgrees'
    <2> DEFINE t == [path |-> job.path, table |-> job.data]
    <2>1. /\ faults = 0 /\ jobPc = "push" /\ jobPc' = "drop"
          /\ UNCHANGED <<files, metadata, job>> /\ collection' = Append(collection, t)
        BY <1>2 DEF PushTable, JobAt, JobGoto, disk, bounds
    <2>2. t \in OpenTable /\ collection \in Seq(OpenTable) /\ metadata \in Seq(Paths)
        BY JobTypes DEF TypeInv, OpenTable
    <2>3. \A k \in Keys : PersistentGet(k)' = Expected(k)
        BY <2>1, <2>2, NewestInAppend DEF PersistentGet, Expected
    <2>4. \A k \in Keys : Expected(k)' = PersistentGet(k)'
        BY <2>1 DEF Expected
    <2>5. List' = List /\ List = metadata
        BY <2>1 DEF List
    <2>6. /\ \A k \in Keys : Holds(files, List, k, Expected(k))
          /\ Opened \subseteq NamesIn(List) /\ EndsWith(List, job.path)
        BY <2>1 DEF DiskInv, DiskAgrees
    <2>7. Opened' \subseteq Opened \cup {job.path}
        <3> DEFINE more == Append(collection, t)
        <3>1. /\ Len(collection) \in Nat /\ DOMAIN collection = 1..Len(collection)
              /\ DOMAIN more = 1..(Len(collection) + 1) /\ more[Len(collection) + 1] = t
              /\ \A i \in 1..Len(collection) : more[i] = collection[i]
            BY <2>2, AppendProperties, LenProperties
        <3>2. Opened' = {more[i].path : i \in DOMAIN more}
            BY <2>1 DEF Opened
        <3> HIDE DEF more, t
        <3>3. \A i \in DOMAIN more : more[i] = t \/ (i \in DOMAIN collection /\ more[i] = collection[i])
            BY <3>1
        <3> QED
            BY <3>2, <3>3 DEF Opened, t
    <2>8. job.path \in NamesIn(List)
        BY <2>2, <2>5, <2>6, LenProperties DEF NamesIn, EndsWith
    <2>9. \A k \in Keys : Holds(files, List, k, Expected(k))'
        BY <2>1, <2>3, <2>4, <2>5, <2>6
    <2> QED
        BY <2>1, <2>5, <2>6, <2>7, <2>8, <2>9 DEF DiskAgrees, Merging, NamesIn
<1> QED
    BY <1>1, <1>2 DEF DiskInv

LEMMA CompactDisk ==
    ASSUME TypeInv, DiskInv, Compact
    PROVE  DiskInv'
<1>1. JobHoldsGuard'
    BY DEF Compact, JobAt, JobGoto, GiveUp, DiskInv, JobHoldsGuard
<1>2. ASSUME faults' = 0 PROVE DiskAgrees'
    <2> DEFINE merged == Merged(collection)
    <2>1. faults \in Nat /\ ~Fault
        BY <1>2, FaultCounts DEF TypeInv, TypeOK
    <2>2. \/ JobGoto("release") /\ UNCHANGED <<job, files, faults>>
          \/ /\ HasNewPath /\ JobGoto("rename")
             /\ job' = [job EXCEPT !.data = merged, !.path = NewPath]
             /\ WriteFile(NewPath, merged)
        BY <2>1 DEF Compact, GiveUp
    <2>3. /\ faults = 0
          /\ \/ jobPc' = "release" /\ UNCHANGED <<job, files>>
             \/ /\ HasNewPath /\ jobPc' = "rename"
                /\ job' = [job EXCEPT !.data = merged, !.path = NewPath]
                /\ files' = [files EXCEPT ![NewPath] = merged]
        <3> HIDE DEF merged
        <3> QED
            BY <1>2, <2>1, <2>2, WriteFileWhole DEF JobGoto
    <2>4. faults = 0 /\ jobPc = "compact" /\ UNCHANGED <<metadata, collection>>
        BY <2>3 DEF Compact, JobAt
    <2>5. CASE jobPc' = "release" /\ UNCHANGED <<job, files>>
        BY <2>4, <2>5, DiskStays DEF DiskInv, Rewriting
    <2>6. CASE /\ HasNewPath /\ jobPc' = "rename"
               /\ job' = [job EXCEPT !.data = Merged(collection), !.path = NewPath]
               /\ files' = [files EXCEPT ![NewPath] = Merged(collection)]
        <3>1. Merged(collection) \in Table /\ TypeOK /\ job \in Job
            BY MergedType DEF TypeInv, TypeOK
        <3>2. /\ NewPath \notin Listed /\ files'[NewPath] = Merged(collection)
              /\ \A k, e : Holds(files, metadata, k, e) => Holds(files', metadata, k, e)
            BY <2>4, <2>6, <3>1, NewFileKept
        <3>3. job'.path = NewPath /\ job'.data = Merged(collection)
            BY <2>6, <3>1 DEF Job
        <3>4. /\ \A k \in Keys : Holds(files, metadata, k, PersistentGet(k))
              /\ Opened \subseteq NamesIn(metadata)
            BY <2>4 DEF DiskInv, DiskAgrees, List, Expected
        <3>5. /\ List' = metadata /\ Opened' = Opened /\ Listed' = Listed
              /\ \A k : Expected(k)' = PersistentGet(k)
              /\ Merged(collection)' = Merged(collection)
            BY <2>4, <2>6 DEF List, Opened, Listed, Expected, PersistentGet, Merged
        <3>6. \A k \in Keys : Holds(files, List, k, Expected(k))'
            BY <3>2, <3>4, <3>5
        <3>7. (Opened \subseteq NamesIn(List))'
            BY <3>4, <3>5
        <3>8. files'[job'.path] = job'.data /\ job'.path \notin Listed'
            BY <3>2, <3>3, <3>5
        <3> QED
            BY <2>6, <3>3, <3>5, <3>6, <3>7, <3>8 DEF DiskAgrees, Merging
    <2> QED
        BY <2>5, <2>6, <2>3
<1> QED
    BY <1>1, <1>2 DEF DiskInv

\* The merged table is listed last, and holds what the others do.
LEMMA RenameMetadataDisk ==
    ASSUME TypeInv, DiskInv, RenameMetadata
    PROVE  DiskInv'
<1>1. JobHoldsGuard'
    BY DEF RenameMetadata, JobAt, JobGoto, GiveUp, DiskInv, JobHoldsGuard
<1>2. ASSUME faults' = 0 PROVE DiskAgrees'
    <2>1. /\ faults = 0 /\ jobPc = "rename" /\ jobPc' = "replace"
          /\ UNCHANGED <<files, collection>>
          /\ metadata' = Append(metadata, job.path)
          /\ job' = [job EXCEPT !.doomed = Opened]
        BY <1>2, FaultCounts DEF RenameMetadata, JobAt, JobGoto, GiveUp, TypeInv, TypeOK, WithTable
    <2>2. job'.path = job.path /\ job'.data = job.data /\ job'.doomed = Opened
        BY <2>1 DEF TypeInv, TypeOK, Job
    <2>3. /\ \A k \in Keys : Holds(files, metadata, k, PersistentGet(k))
          /\ Opened \subseteq NamesIn(metadata)
          /\ files[job.path] = job.data /\ job.path \notin Listed
          /\ job.data = Merged(collection)
        BY <2>1 DEF DiskInv, DiskAgrees, List, Expected, Merging
    <2>4. /\ List' = Append(metadata, job.path) /\ Opened' = Opened
          /\ \A k : Expected(k)' = PersistentGet(k)
          /\ Merged(collection)' = Merged(collection)
        BY <2>1 DEF List, Opened, Expected, PersistentGet, Merged
    <2>5. ASSUME NEW k \in Keys PROVE Holds(files, List, k, Expected(k))'
        <3>1. Holds(files, Append(metadata, job.path), k,
                    IF job.data[k] # None THEN job.data[k] ELSE PersistentGet(k))
            BY <2>3, MoreHolds, JobTypes DEF TypeInv
        <3>2. job.data[k] = PersistentGet(k)
            BY <2>3 DEF Merged, PersistentGet
        <3> QED
            BY <2>1, <2>4, <3>1, <3>2
    <2>6. (Opened \subseteq NamesIn(List))' /\ EndsWith(List, job.path)'
        BY <2>2, <2>3, <2>4, ListedLast, JobTypes DEF TypeInv
    <2>7. job'.path \notin job'.doomed
        BY <2>2, <2>3 DEF Listed, NamesIn
    <2>8. files'[job'.path] = job'.data /\ job'.data = Merged(collection)'
        BY <2>1, <2>2, <2>3, <2>4
    <2> QED
        BY <2>1, <2>5, <2>6, <2>7, <2>8 DEF DiskAgrees, Merging
<1> QED
    BY <1>1, <1>2 DEF DiskInv

LEMMA ReplaceCollectionDisk ==
    ASSUME TypeInv, DiskInv, ReplaceCollection
    PROVE  DiskInv'
<1>1. JobHoldsGuard'
    BY DEF ReplaceCollection, JobAt, JobGoto, DiskInv, JobHoldsGuard
<1>2. ASSUME faults' = 0 PROVE DiskAgrees'
    <2> DEFINE t == [path |-> job.path, table |-> job.data]
    <2>1. /\ faults = 0 /\ jobPc = "replace" /\ jobPc' = "rmfiles"
          /\ UNCHANGED <<files, metadata, job>> /\ collection' = <<t>>
        BY <1>2 DEF ReplaceCollection, JobAt, JobGoto, disk, bounds
    <2>2. t \in OpenTable /\ metadata \in Seq(Paths)
        BY JobTypes DEF TypeInv, OpenTable
    <2>3. /\ \A k \in Keys : Holds(files, metadata, k, PersistentGet(k))
          /\ EndsWith(metadata, job.path)
          /\ files[job.path] = job.data /\ job.path \notin job.doomed
          /\ job.data = Merged(collection)
        BY <2>1 DEF DiskInv, DiskAgrees, List, Expected, Merging
    <2>4. \A k \in Keys : Expected(k)' = PersistentGet(k)
        <3>1. ASSUME NEW k \in Keys PROVE PersistentGet(k)' = job.data[k]
            BY <2>1, <2>2, NewestInSingle DEF PersistentGet
        <3> QED
            BY <2>1, <2>3, <3>1 DEF Expected, PersistentGet, Merged
    <2>5. List' = metadata
        BY <2>1 DEF List
    <2>6. Opened' = {job.path}
        <3>1. DOMAIN <<t>> = {1} /\ <<t>>[1] = t
            OBVIOUS
        <3>2. Opened' = {<<t>>[i].path : i \in DOMAIN <<t>>}
            BY <2>1 DEF Opened
        <3> QED
            BY <3>1, <3>2
    <2>7. job.path \in NamesIn(metadata)
        BY <2>2, <2>3, LenProperties DEF NamesIn, EndsWith
    <2>8. \A k \in Keys : Holds(files, List, k, Expected(k))'
        BY <2>1, <2>3, <2>4, <2>5
    <2>9. (Opened \subseteq NamesIn(List))' /\ EndsWith(List, job.path)'
        BY <2>1, <2>3, <2>5, <2>6, <2>7 DEF NamesIn
    <2> QED
        BY <2>1, <2>3, <2>8, <2>9 DEF DiskAgrees, Merging
<1> QED
    BY <1>1, <1>2 DEF DiskInv

\* A file is removed only when the last one of the list has all that it holds.
LEMMA RemoveFilesDisk ==
    ASSUME TypeInv, DiskInv, RemoveFiles
    PROVE  DiskInv'
<1>1. JobHoldsGuard'
    BY DEF RemoveFiles, JobAt, JobGoto, DiskInv, JobHoldsGuard
<1>2. ASSUME faults' = 0 PROVE DiskAgrees'
    <2>1. faults = 0 /\ jobPc = "rmfiles" /\ UNCHANGED <<metadata, collection>>
        BY <1>2 DEF RemoveFiles, JobAt, bounds
    <2>2. CASE job.doomed = {} /\ JobGoto("release") /\ UNCHANGED <<files, job>>
        <3> DEFINE t == [path |-> job.path, table |-> job.data]
        <3>1. /\ \A k \in Keys : Holds(files, metadata, k, PersistentGet(k))
              /\ Opened \subseteq NamesIn(metadata)
            BY <2>1 DEF DiskInv, DiskAgrees, List, Expected
        <3>2. /\ List' = metadata /\ Opened' = Opened
              /\ \A k : Expected(k)' = PersistentGet(k)
            BY <2>1, <2>2 DEF List, Opened, Expected, PersistentGet, JobGoto
        <3>3. (\A k \in Keys : Holds(files, List, k, Expected(k)))'
            BY <2>2, <3>1, <3>2
        <3>4. (Opened \subseteq NamesIn(List))'
            BY <3>1, <3>2
        <3> QED
            BY <2>2, <3>3, <3>4 DEF DiskAgrees, Merging, JobGoto
    <2>3. ASSUME NEW p \in job.doomed, files' = [files EXCEPT ![p] = NoFile],
                 job' = [job EXCEPT !.doomed = @ \ {p}], jobPc' = "rmfiles"
          PROVE  DiskAgrees'
        <3> DEFINE n == Len(metadata)
                   g == files'
        <3>1. /\ \A k \in Keys : Holds(files, metadata, k, PersistentGet(k))
              /\ Opened \subseteq NamesIn(metadata)
              /\ EndsWith(metadata, job.path)
              /\ files[job.path] = job.data /\ job.path \notin job.doomed
              /\ collection = <<[path |-> job.path, table |-> job.data]>>
            BY <2>1 DEF DiskInv, DiskAgrees, List, Expected
        <3>2. /\ job'.path = job.path /\ job'.data = job.data
              /\ job'.doomed = job.doomed \ {p}
            BY <2>3 DEF TypeInv, TypeOK, Job
        <3>3. /\ List' = metadata /\ Opened' = Opened
              /\ \A k : Expected(k)' = PersistentGet(k)
            BY <2>1, <2>3 DEF List, Opened, Expected, PersistentGet
        <3>4. /\ metadata \in Seq(Paths) /\ job.data \in Table /\ job.data # NoFile
              /\ job.path \in Paths /\ files \in [Paths -> Table \cup {NoFile}]
            BY JobTypes DEF TypeInv
        <3>5. n # 0 /\ metadata[n] = job.path /\ p # job.path
            BY <2>3, <3>1 DEF EndsWith
        <3>6. /\ g[job.path] = job.data
              /\ \A q \in Paths : g[q] # NoFile => g[q] = files[q]
            BY <2>3, <3>1, <3>4, <3>5
        <3> HIDE DEF g, n
        <3>7. \A i \in DOMAIN metadata : metadata[i] \in Paths
            BY <3>4, LenProperties
        <3>8. ASSUME NEW k \in Keys PROVE Holds(g, metadata, k, PersistentGet(k))
            <4>1. PersistentGet(k) = job.data[k]
                <5>1. [path |-> job.path, table |-> job.data] \in OpenTable
                    BY <3>4 DEF OpenTable
                <5> QED
                    BY <3>1, <5>1, NewestInSingle DEF PersistentGet
            <4>2. /\ Len(metadata) # 0 /\ files[metadata[Len(metadata)]] # NoFile
                  /\ g[metadata[Len(metadata)]] = files[metadata[Len(metadata)]]
                  /\ files[metadata[Len(metadata)]][k] = PersistentGet(k)
                BY <3>1, <3>4, <3>5, <3>6, <4>1 DEF n
            <4>3. \A i \in DOMAIN metadata :
                     g[metadata[i]] # NoFile => g[metadata[i]] = files[metadata[i]]
                BY <3>6, <3>7
            <4>4. Holds(files, metadata, k, files[metadata[Len(metadata)]][k])
                BY <3>1, <4>2
            <4>5. Holds(g, metadata, k, files[metadata[Len(metadata)]][k])
                BY <3>4, <4>2, <4>3, <4>4, LessHolds
            <4> QED
                BY <4>2, <4>5
        <3>9. \A k \in Keys : Holds(files, List, k, Expected(k))'
            BY <3>3, <3>8 DEF g
        <3>10. (Opened \subseteq NamesIn(List))' /\ EndsWith(List, job.path)'
            BY <3>1, <3>2, <3>3
        <3>11. files'[job'.path] = job'.data /\ job'.path \notin job'.doomed
            BY <3>1, <3>2, <3>6 DEF g
        <3>12. collection' = <<[path |-> job'.path, table |-> job'.data]>>
            BY <2>1, <3>1, <3>2
        <3> QED
            BY <2>3, <3>9, <3>10, <3>11, <3>12 DEF DiskAgrees, Merging
    <2> QED
        BY <2>2, <2>3 DEF RemoveFiles, JobGoto
<1> QED
    BY <1>1, <1>2 DEF DiskInv

\* The other steps of the job write no file and no list.
LEMMA QuietJobDisk ==
    ASSUME TypeInv, DiskInv, JobStep,
           ~WriteTable, ~TruncateMetadata, ~AppendMetadata, ~PushTable, ~Compact,
           ~RenameMetadata, ~ReplaceCollection, ~RemoveFiles
    PROVE  DiskInv'
<1> USE DEF JobAt, JobGoto, GiveUp, disk, bounds
<1>1. /\ UNCHANGED <<files, metadata, collection>>
      /\ faults' = faults \/ Fault
      /\ \/ jobPc \notin Rewriting /\ jobPc' \notin Rewriting
         \/ UNCHANGED <<jobPc, job>>
      /\ JobHoldsGuard'
    <2>1. CASE CreateWal \/ SwapWal \/ SwitchWriter \/ CopySecond
        BY <2>1 DEF CreateWal, SwapWal, SwitchWriter, CopySecond, Rewriting, DiskInv, JobHoldsGuard
    <2>2. CASE DropCollected \/ RefillFirst \/ RemoveWal \/ Release
        BY <2>2 DEF DropCollected, RefillFirst, RemoveWal, Release, Rewriting, DiskInv, JobHoldsGuard
    <2>3. CASE CompactEmptyTable \/ ThrowInSwapWith
        BY <2>3 DEF CompactEmptyTable, ThrowInSwapWith, jobVars, DiskInv, JobHoldsGuard
    <2> QED
        BY <2>1, <2>2, <2>3 DEF JobStep
<1>2. ASSUME faults' = 0 PROVE DiskAgrees'
    <2>1. faults = 0
        BY <1>1, <1>2, FaultCounts DEF TypeInv, TypeOK
    <2> QED
        BY <1>1, <2>1, DiskStays DEF DiskInv
<1> QED
    BY <1>1, <1>2 DEF DiskInv

LEMMA JobDisk ==
    ASSUME TypeInv, DiskInv, JobStep
    PROVE  DiskInv'
BY QuietJobDisk, WriteTableDisk, TruncateMetadataDisk, AppendMetadataDisk, PushTableDisk,
   CompactDisk, RenameMetadataDisk, ReplaceCollectionDisk, RemoveFilesDisk

LEMMA InitDisk == Init => DiskInv
<1> SUFFICES ASSUME Init PROVE DiskInv
    OBVIOUS
<1>1. metadata = <<>> /\ collection = <<>> /\ jobPc = "off"
    BY DEF Init
<1>2. DOMAIN metadata = {} /\ DOMAIN collection = {}
    BY <1>1
<1>3. \A k : PersistentGet(k) = None
    BY <1>2 DEF PersistentGet, NewestIn, HasNewest
<1>4. \A k \in Keys : Holds(files, List, k, Expected(k))
    BY <1>1, <1>2, <1>3 DEF List, Expected, Holds
<1>5. Opened \subseteq NamesIn(List)
    BY <1>2 DEF Opened
<1> QED
    BY <1>1, <1>4, <1>5 DEF DiskInv, DiskAgrees, JobHoldsGuard, Merging

LEMMA DiskInvariant == Spec => []DiskInv
<1>1. TypeInv /\ DiskInv /\ [Next]_vars => DiskInv'
    <2> SUFFICES ASSUME TypeInv, DiskInv, [Next]_vars PROVE DiskInv'
        OBVIOUS
    <2>1. CASE \E r \in Requests : Invoke(r) \/ RequestStep(r)
        BY <2>1, RequestDisk
    <2>2. CASE JobStep
        BY <2>2, JobDisk
    <2>3. CASE UNCHANGED vars
        <3>1. UNCHANGED <<files, metadata, collection, jobPc, guard, job, faults>>
            BY <2>3 DEF vars, disk, jobVars, bounds
        <3> QED
            BY <3>1, DiskStays DEF DiskInv, JobHoldsGuard
    <2> QED
        BY <2>1, <2>2, <2>3 DEF Next, Halted
<1> QED
    BY <1>1, InitDisk, TypeInvariant, PTL DEF Spec

\* While no disk operation has failed and the list of the files is not being rewritten, a
\* start would load for every key what the running node reads from its open tables, in
\* the midst of a swap or of a merge as well (persistent_storage_collection.cpp:59-107,
\* 133-167).
THEOREM DiskIsAsServed == Spec => []DiskMatchesOpenTables
<1>1. TypeInv /\ DiskInv => DiskMatchesOpenTables
    <2> SUFFICES ASSUME TypeInv, DiskInv, faults = 0, jobPc # "append", NEW k \in Keys
                 PROVE  NewestIn(Loaded, k) =
                            IF jobPc = "push" /\ job.data[k] # None THEN job.data[k]
                            ELSE PersistentGet(k)
        BY DEF DiskMatchesOpenTables
    <2>1. Holds(files, metadata, k, Expected(k))
        BY DEF DiskInv, DiskAgrees, List
    <2>2. NewestIn(Loaded, k) = Expected(k)
        BY <2>1, LoadedFindsHeld DEF TypeInv, TypeOK
    <2> QED
        BY <2>2 DEF Expected
<1> QED
    BY <1>1, DiskInvariant, TypeInvariant, PTL

-----------------------------------------------------------------------------
(* What a start leaves *)

\* The log that is kept is there, and is not one that becomes a table and is removed.
KeptLog ==
    maps[readerSecond] # EmptyTable =>
        /\ wals[walWriter] # NoFile /\ walWriter \notin todo
        /\ boot # "replay" => walWriter # current

\* A node that serves has a log to write, as one that starts will have.
BootInv ==
    /\ status = "up" => boot = "none" /\ LogInUse
    /\ \A r \in Requests : Active(r) => call[r] \in Call
    /\ boot # "none" => jobPc = "off"
    /\ todo \subseteq Logs
    /\ boot \in {"replay", "truncate", "append", "remove"} => KeptLog
    /\ boot \in {"truncate", "append", "remove"} => current \notin todo
    /\ boot = "ready" => wals[walWriter] # NoFile
    /\ boot \in {"ready", "none"} => todo = {}

RecoveryInv == RecoveryTypeOK /\ BootInv

LEMMA RInitTypes == RInit => RecoveryInv
<1> SUFFICES ASSUME RInit PROVE RecoveryInv
    OBVIOUS
<1>1. TypeInv /\ status = "up" /\ boot = "none" /\ todo = {}
    BY InitTypeInv DEF RInit, Init
<1>2. RecoveryTypeOK
    BY <1>1, RecoveryAssumption DEF RInit, RecoveryTypeOK, BootPcs, TypeInv, TypeOK
<1>3. BootInv
    BY <1>1 DEF BootInv, TypeInv
<1> QED
    BY <1>2, <1>3 DEF RecoveryInv

\* While a node serves, it takes the steps of the engine.
LEMMA ServeTypes ==
    ASSUME RecoveryInv, TypeInv', status = "up", status' = "up",
           UNCHANGED <<bootVars, crashes, owed>>,
           logged' \in [Requests -> WalIds \cup {NoFile}], windows' \subseteq Windows
    PROVE  RecoveryInv'
<1>1. RecoveryTypeOK'
    BY DEF RecoveryInv, RecoveryTypeOK, TypeInv, bootVars
<1>2. BootInv'
    BY DEF RecoveryInv, BootInv, TypeInv, bootVars
<1> QED
    BY <1>1, <1>2 DEF RecoveryInv

LEMMA UpIsTypeInv ==
    ASSUME RecoveryInv, status = "up"
    PROVE  TypeInv
BY DEF RecoveryInv, RecoveryTypeOK, BootInv, TypeInv

LEMMA ServeInv ==
    ASSUME RecoveryInv, Serve, UNCHANGED <<bootVars, crashes>>
    PROVE  RecoveryInv'
<1>1. CASE JobStep /\ status' = "up" /\ ForgetRemoved /\ UNCHANGED <<owed, windows>>
    <2>1. status = "up"
        BY <1>1 DEF JobStep, JobAt, CreateWal, SwapWal, SwitchWriter, CopySecond, WriteTable,
                    TruncateMetadata, AppendMetadata, PushTable, DropCollected, RefillFirst,
                    RemoveWal, Compact, CompactEmptyTable, RenameMetadata, ReplaceCollection,
                    RemoveFiles, ThrowInSwapWith, Release
    <2>2. TypeInv'
        BY <1>1, <2>1, UpIsTypeInv, JobTypeInv
    <2> QED
        BY <1>1, <2>1, <2>2, ServeTypes DEF ForgetRemoved, Logs, RecoveryInv, RecoveryTypeOK
<1>2. ASSUME NEW r \in Requests,
             \/ CallWrite(r) /\ UNCHANGED history
             \/ LogWrite(r) /\ UNCHANGED <<owed, windows>>
             \/ ApplyWrite(r) /\ UNCHANGED <<logged, owed>>
             \/ /\ \/ TakeFirst(r) \/ ReadFirst(r) \/ TakeSecond(r) \/ ReadSecond(r)
                   \/ ReadPersistent(r) \/ FailWal(r) \/ TakeWriter(r) \/ CheckSize(r)
                   \/ TryAcquire(r) \/ Return(r)
                /\ UNCHANGED history
      PROVE  RecoveryInv'
    <2>1. Invoke(r) \/ RequestStep(r)
        BY <1>2 DEF CallWrite, LogWrite, ApplyWrite, RequestStep
    <2>2. status = "up" /\ status' = "up"
        BY <1>2 DEF CallWrite, LogWrite, ApplyWrite, Invoke, TakeFirst, ReadFirst, TakeSecond,
                    ReadSecond, ReadPersistent, WriteWal, FailWal, TakeWriter, WriteMem,
                    CheckSize, TryAcquire, Return, Take, Read, At
    <2>3. TypeInv'
        BY <2>1, <2>2, UpIsTypeInv, RequestTypeInv
    <2>4. /\ logged' \in [Requests -> WalIds \cup {NoFile}] /\ windows' \subseteq Windows /\ owed' = owed
        <3>1. logged \in [Requests -> WalIds \cup {NoFile}] /\ windows \subseteq Windows /\ walWriter \in WalIds
            BY DEF RecoveryInv, RecoveryTypeOK, TypeOK
        <3> QED
            BY <1>2, <3>1 DEF history, LogWrite, ApplyWrite, Windows
    <2> QED
        BY <2>2, <2>3, <2>4, ServeTypes
<1> QED
    BY <1>1, <1>2 DEF Serve

\* What is owed are entries, those the tables hold and those under way.
LEMMA OwedType ==
    ASSUME RecoveryInv, NEW k \in Keys
    PROVE  Owed(k) \subseteq Entry \cup {None}
<1>1. TypeOK /\ \A r \in Requests : Active(r) => call[r] \in Call
    BY DEF RecoveryInv, RecoveryTypeOK, BootInv
<1>2. Lookup(k) \in Entry \cup {None}
    <2>1. PersistentGet(k) \in Entry \cup {None}
        BY <1>1, NewestInType DEF TypeOK, PersistentGet
    <2>2. maps[readerFirst] \in Table /\ maps[readerSecond] \in Table
        BY <1>1 DEF TypeOK
    <2> QED
        BY <2>1, <2>2 DEF Lookup, Table
<1>3. \A r \in Requests : Logged(r) => call[r].entry \in Entry \cup {None}
    BY <1>1 DEF Logged, Active, Call
<1> QED
    BY <1>2, <1>3 DEF Owed

LEMMA DeathTypes ==
    ASSUME RecoveryInv, RecordDeath
    PROVE  owed' \in [Keys -> SUBSET (Entry \cup {None})] /\ windows' \subseteq Windows
<1>1. owed' \in [Keys -> SUBSET (Entry \cup {None})]
    BY OwedType DEF RecordDeath
<1>2. windows' \subseteq Windows
    BY DEF RecordDeath, RecoveryInv, RecoveryTypeOK, Windows
<1> QED
    BY <1>1, <1>2

LEMMA DieInv ==
    ASSUME RecoveryInv, Die \/ DieOfEmptyTable
    PROVE  RecoveryInv'
<1>1. owed' \in [Keys -> SUBSET (Entry \cup {None})] /\ windows' \subseteq Windows
    BY DeathTypes DEF Die, DieOfEmptyTable
<1>2. /\ UNCHANGED <<mem, wal, disk, collection, jobVars, clients, bounds, bootVars, logged>>
      /\ status' = "dead" /\ status = "up"
      /\ crashes' = crashes \/ (crashes < MaxCrashes /\ crashes' = crashes + 1)
    BY DEF Die, DieOfEmptyTable, CompactEmptyTable, JobAt
<1>3. crashes' \in 0..MaxCrashes
    BY <1>2, RecoveryAssumption DEF RecoveryInv, RecoveryTypeOK
<1>4. TypeOK'
    BY <1>2 DEF RecoveryInv, RecoveryTypeOK, TypeOK, mem, wal, disk, jobVars, clients, bounds
<1>5. RecoveryTypeOK'
    BY <1>1, <1>2, <1>3, <1>4 DEF RecoveryInv, RecoveryTypeOK, bootVars
<1>6. BootInv'
    BY <1>2 DEF RecoveryInv, BootInv, bootVars, clients, Active, Logs, wal, mem, KeptLog, jobVars
<1> QED
    BY <1>5, <1>6 DEF RecoveryInv

LEMMA RestartInv ==
    ASSUME RecoveryInv, Restart
    PROVE  RecoveryInv'
<1>1. TypeOK /\ RecoveryTypeOK
    BY DEF RecoveryInv, RecoveryTypeOK
<1>2. EmptyTable \in Table
    BY DEF EmptyTable, Table
<1>3. NewMap({readerSecond}) \in MemIds
    BY <1>1, NewMapIsNew DEF TypeOK
<1>4. Loaded \in Seq(OpenTable)
    BY <1>1, LoadedAreListed DEF TypeOK
<1>5. TypeOK'
    <2>1. /\ maps' \in [MemIds -> Table] /\ readerFirst' \in MemIds /\ readerSecond' \in MemIds
          /\ writer' \in MemIds /\ collection' \in Seq(OpenTable)
        BY <1>1, <1>2, <1>3, <1>4 DEF Restart, TypeOK
    <2>2. /\ wals' = wals /\ walWriter' = walWriter /\ broken' \in BOOLEAN
          /\ files' = files /\ lost' = lost /\ metadata' = metadata /\ jobPc' \in JobPcs /\ guard' \in BOOLEAN
          /\ job' = job /\ target' = target /\ status' = status /\ calls' = calls
          /\ faults' = faults
        BY DEF Restart, disk, bounds, JobPcs
    <2>3. /\ pc' \in [Requests -> RequestPcs] /\ call' \in [Requests -> Call \cup {NoCall}]
          /\ reply' \in [Requests -> DTO \cup {NotFound, Ok, Failed, NoReply}]
          /\ seen' \in [Requests -> SUBSET (Entry \cup {None})]
          /\ overtaken' \in [Requests -> BOOLEAN]
        BY DEF Restart, RequestPcs
    <2> QED
        BY <1>1, <2>1, <2>2, <2>3 DEF TypeOK
<1>6. Logs' = Logs
    BY DEF Restart, Logs
<1>7. RecoveryTypeOK'
    BY <1>1, <1>5 DEF Restart, RecoveryTypeOK, BootPcs, Logs, history
<1>8. BootInv'
    <2>1. ~KeptLog' => FALSE
        BY <1>1 DEF Restart, KeptLog, TypeOK
    <2>2. \A r \in Requests : ~Active(r)'
        BY DEF Restart, Active
    <2> QED
        BY <1>6, <2>1, <2>2 DEF Restart, BootInv, Booting
<1> QED
    BY <1>7, <1>8 DEF RecoveryInv

\* A start does not touch the requests, which the death has ended.
LEMMA BootTypes ==
    ASSUME RecoveryInv, status = "dead", UNCHANGED unaffected,
           (maps \in [MemIds -> Table])', readerFirst' = readerFirst,
           readerSecond' = readerSecond, writer' = writer,
           (wals \in [WalIds -> Table \cup {NoFile}])', walWriter' \in WalIds, broken' = broken,
           (files \in [Paths -> Table \cup {NoFile}])', (lost \in [Paths -> SUBSET Keys])',
           metadata' \in Seq(Paths),
           collection' \in Seq(OpenTable), jobPc' = jobPc, guard' = guard, job' \in Job,
           boot' \in BootPcs, todo' \subseteq Logs', current' \in WalIds,
           boot # "none",
           boot' \in {"replay", "truncate", "append", "remove"} => KeptLog',
           boot' \in {"truncate", "append", "remove"} => current' \notin todo',
           boot' = "ready" => wals'[walWriter'] # NoFile,
           boot' \in {"ready", "none"} => todo' = {}
    PROVE  RecoveryInv'
<1>1. TypeOK /\ RecoveryTypeOK /\ BootInv
    BY DEF RecoveryInv, RecoveryTypeOK
<1>2. TypeOK'
    BY <1>1 DEF TypeOK, unaffected, clients, bounds
<1>3. RecoveryTypeOK'
    BY <1>1, <1>2 DEF RecoveryTypeOK, unaffected, history, Logs
<1>4. BootInv'
    BY <1>1 DEF BootInv, unaffected, clients, Active
<1> QED
    BY <1>3, <1>4 DEF RecoveryInv

LEMMA ReplayInv ==
    ASSUME RecoveryInv, ReplayEmptyLog \/ ReplaySmallLog \/ ReplayLargeLog
    PROVE  RecoveryInv'
<1>1. /\ TypeOK /\ BootInv /\ current \in WalIds /\ boot = "replay" /\ status = "dead"
      /\ todo \subseteq Logs /\ KeptLog
    BY DEF RecoveryInv, RecoveryTypeOK, BootInv, Booting, ReplayEmptyLog, ReplaySmallLog,
           ReplayLargeLog
<1>2. CASE ReplayEmptyLog
    <2>1. boot' \in BootPcs /\ todo' \subseteq Logs'
        BY <1>2 DEF ReplayEmptyLog, BootPcs
    <2> QED
        BY <1>1, <1>2, <2>1, BootTypes DEF ReplayEmptyLog, TypeOK, mem, wal, disk, jobVars
<1>3. CASE ReplaySmallLog
    <2>1. PICK w \in todo : /\ wals[w] # EmptyTable
                            /\ maps' = [maps EXCEPT ![readerSecond] = wals[w]]
                            /\ walWriter' = w /\ todo' = todo \ {w}
        BY <1>3 DEF ReplaySmallLog
    <2>2. w \in WalIds /\ wals[w] \in Table /\ wals[w] # NoFile
        BY <1>1 DEF Logs, TypeOK
    <2>3. boot' = "replay" /\ todo' \subseteq Logs' /\ wals' = wals
        BY <1>1, <1>3, <2>1 DEF ReplaySmallLog, Logs
    <2>4. KeptLog'
        BY <2>1, <2>2, <2>3 DEF KeptLog
    <2>5. (maps \in [MemIds -> Table])'
        BY <1>1, <2>1, <2>2 DEF TypeOK
    <2> QED
        BY <1>1, <1>3, <2>1, <2>2, <2>3, <2>4, <2>5, BootTypes
        DEF ReplaySmallLog, TypeOK, disk, jobVars, BootPcs
<1>4. CASE ReplayLargeLog
    <2>1. PICK w \in todo : /\ files' = [files EXCEPT ![NewPath] = wals[w]]
                            /\ job' = [job EXCEPT !.path = NewPath, !.data = wals[w]]
                            /\ current' = w /\ todo' = todo \ {w}
        BY <1>4 DEF ReplayLargeLog
    <2>2. w \in WalIds /\ wals[w] \in Table
        BY <1>1 DEF Logs, TypeOK
    <2>3. NewPath \in Paths
        BY <1>4 DEF ReplayLargeLog, HasNewPath, NewPath
    <2>4. boot' = "truncate" /\ todo' \subseteq Logs' /\ UNCHANGED <<maps, readerSecond, wals, walWriter>>
        BY <1>1, <1>4, <2>1 DEF ReplayLargeLog, Logs, wal, mem
    <2>5. KeptLog'
        BY <1>1, <2>1, <2>4 DEF KeptLog
    <2>6. job' \in Job
        BY <1>1, <2>1, <2>2, <2>3 DEF TypeOK, Job
    <2>7. (files \in [Paths -> Table \cup {NoFile}])'
        BY <1>1, <2>1, <2>2, <2>3 DEF TypeOK
    <2>8. boot' \in BootPcs /\ current' \in WalIds /\ current' \notin todo'
        BY <2>1, <2>2, <2>4 DEF BootPcs
    <2> QED
        BY <1>1, <1>4, <2>4, <2>5, <2>6, <2>7, <2>8, BootTypes
        DEF ReplayLargeLog, TypeOK, mem, wal
<1> QED
    BY <1>2, <1>3, <1>4

LEMMA BootListInv ==
    ASSUME RecoveryInv, BootTruncate \/ BootAppend \/ BootRemove
    PROVE  RecoveryInv'
<1>1. /\ TypeOK /\ BootInv /\ current \in WalIds /\ status = "dead" /\ boot # "none"
      /\ boot # "replay" /\ todo \subseteq Logs /\ KeptLog /\ current \notin todo
    BY DEF RecoveryInv, RecoveryTypeOK, BootInv, Booting, BootTruncate, BootAppend, BootRemove
<1>2. CASE BootTruncate
    <2>1. Append(metadata, job.path) \in Seq(Paths)
        BY <1>1, JobTypes, AppendProperties
    <2>2. job' \in Job /\ metadata' \in Seq(Paths)
        <3> DEFINE more == Append(metadata, job.path)
        <3>1. job' = [job EXCEPT !.meta = more] /\ metadata' = <<>> /\ job \in Job
            BY <1>1, <1>2 DEF BootTruncate, WithTable, TypeOK
        <3>2. more \in Seq(Paths)
            BY <2>1
        <3> HIDE DEF more
        <3>3. job' \in Job
            BY <3>1, <3>2 DEF Job
        <3> QED
            BY <3>1, <3>3
    <2>3. /\ UNCHANGED <<mem, wal, todo, current>> /\ todo' \subseteq Logs' /\ boot' = "append"
          /\ KeptLog'
        BY <1>1, <1>2 DEF BootTruncate, Logs, KeptLog, mem, wal
    <2> QED
        BY <1>1, <1>2, <2>2, <2>3, BootTypes DEF BootTruncate, TypeOK, mem, wal, BootPcs
<1>3. CASE BootAppend
    <2>1. [path |-> job.path, table |-> job.data] \in OpenTable
        BY <1>1, JobTypes DEF OpenTable
    <2>2. metadata' \in Seq(Paths) /\ collection' \in Seq(OpenTable)
        BY <1>1, <1>3, <2>1, JobTypes, AppendProperties DEF BootAppend
    <2>3. /\ UNCHANGED <<mem, wal, todo, current>> /\ todo' \subseteq Logs' /\ boot' = "remove"
          /\ KeptLog'
        BY <1>1, <1>3 DEF BootAppend, Logs, KeptLog, mem, wal
    <2> QED
        BY <1>1, <1>3, <2>2, <2>3, BootTypes DEF BootAppend, TypeOK, mem, wal, jobVars, BootPcs
<1>4. CASE BootRemove
    <2>1. /\ wals' = [wals EXCEPT ![current] = NoFile] /\ boot' = "replay"
          /\ UNCHANGED <<maps, readerSecond, walWriter, todo, current>>
        BY <1>4 DEF BootRemove, mem
    <2>2. todo' \subseteq Logs'
        BY <1>1, <2>1 DEF Logs, TypeOK
    <2>3. KeptLog'
        BY <1>1, <2>1 DEF KeptLog, TypeOK
    <2>4. (wals \in [WalIds -> Table \cup {NoFile}])'
        BY <1>1, <2>1 DEF TypeOK
    <2> QED
        BY <1>1, <1>4, <2>1, <2>2, <2>3, <2>4, BootTypes
        DEF BootRemove, TypeOK, mem, disk, jobVars, BootPcs
<1> QED
    BY <1>2, <1>3, <1>4

LEMMA OpenLogInv ==
    ASSUME RecoveryInv, OpenLog
    PROVE  RecoveryInv'
<1>1. /\ TypeOK /\ BootInv /\ current \in WalIds /\ status = "dead" /\ boot = "replay"
      /\ todo = {} /\ KeptLog
    BY DEF RecoveryInv, RecoveryTypeOK, BootInv, Booting, OpenLog
<1>2. /\ walWriter' \in WalIds /\ (wals \in [WalIds -> Table \cup {NoFile}])'
      /\ wals'[walWriter'] # NoFile
    <2>1. CASE maps[readerSecond] # EmptyTable
        BY <1>1, <2>1 DEF OpenLog, KeptLog, TypeOK
    <2>2. CASE maps[readerSecond] = EmptyTable
        <3>1. HasNewWal /\ wals' = [wals EXCEPT ![NewWal] = EmptyTable] /\ walWriter' = NewWal
            BY <2>2 DEF OpenLog
        <3>2. NewWal \in WalIds /\ EmptyTable \in Table /\ EmptyTable # NoFile
            BY <3>1, NoFileAssumption DEF HasNewWal, NewWal, EmptyTable, Table
        <3> QED
            BY <1>1, <3>1, <3>2 DEF TypeOK
    <2> QED
        BY <2>1, <2>2
<1>3. boot' \in BootPcs /\ todo' \subseteq Logs'
    BY <1>1 DEF OpenLog, BootPcs
<1> QED
    BY <1>1, <1>2, <1>3, BootTypes DEF OpenLog, TypeOK, mem, disk, jobVars

LEMMA StartInv ==
    ASSUME RecoveryInv, StartServing \/ DieBooting
    PROVE  RecoveryInv'
<1>1. RecoveryTypeOK /\ TypeOK /\ BootInv
    BY DEF RecoveryInv, RecoveryTypeOK
<1>2. TypeOK'
    BY <1>1 DEF StartServing, DieBooting, TypeOK, mem, wal, disk, jobVars, clients, bounds
<1>3. crashes' \in 0..MaxCrashes /\ windows' \subseteq Windows
    <2>1. /\ crashes' = crashes \/ (crashes < MaxCrashes /\ crashes' = crashes + 1)
          /\ windows' \subseteq windows \cup {"torn"}
        BY DEF StartServing, DieBooting, history
    <2>2. crashes \in 0..MaxCrashes /\ windows \subseteq Windows
        BY <1>1 DEF RecoveryTypeOK
    <2> QED
        BY <2>1, <2>2, RecoveryAssumption DEF Windows
<1>4. RecoveryTypeOK'
    BY <1>1, <1>2, <1>3 DEF StartServing, DieBooting, RecoveryTypeOK, BootPcs, history
<1>5. CASE StartServing
    <2>1. LogInUse'
        BY <1>1, <1>5 DEF StartServing, Booting, BootInv, LogInUse, Moving, wal, jobVars
    <2> QED
        BY <1>1, <1>4, <1>5, <2>1 DEF RecoveryInv, StartServing, Booting, BootInv, clients, Active,
                                      Logs, wal
<1>6. CASE DieBooting
    BY <1>1, <1>4, <1>6 DEF RecoveryInv, DieBooting, BootInv, clients, Active, Logs, wal, jobVars
<1> QED
    BY <1>5, <1>6

LEMMA RNextTypes == RecoveryInv /\ [RNext]_allVars => RecoveryInv'
<1> SUFFICES ASSUME RecoveryInv, [RNext]_allVars PROVE RecoveryInv'
    OBVIOUS
<1>1. CASE UNCHANGED allVars
    <2>1. TypeOK'
        BY <1>1 DEF RecoveryInv, RecoveryTypeOK, TypeOK, allVars, vars, mem, wal, disk, jobVars,
                    clients, bounds
    <2>2. RecoveryTypeOK'
        BY <1>1, <2>1 DEF RecoveryInv, RecoveryTypeOK, allVars, bootVars, history
    <2>3. BootInv'
        BY <1>1 DEF RecoveryInv, BootInv, LogInUse, KeptLog, Logs, Active, allVars, vars, mem, wal,
                    jobVars, clients, bootVars
    <2> QED
        BY <2>2, <2>3 DEF RecoveryInv
<1> QED
    BY <1>1, ServeInv, DieInv, RestartInv, ReplayInv, BootListInv, OpenLogInv, StartInv
    DEF RNext, Recover, Done

\* A node that starts has tables, logs and lists of the kinds it had before, whenever it
\* died, and again when it dies while it starts; a log that is kept is never one that is
\* removed, so a node that serves has one to write (wal_reader.cpp:112-168).
THEOREM RecoveryTypeCorrect == RSpec => []RecoveryTypeOK
<1>1. RecoveryInv => RecoveryTypeOK
    BY DEF RecoveryInv
<1> QED
    BY <1>1, RInitTypes, RNextTypes, PTL DEF RSpec

-----------------------------------------------------------------------------
(* Nothing that was answered is lost: what the disk of a running node holds *)

\* The steps of the swap at which the old log is on its way out.
Swapping == Moving \cup {"switch", "copy", "refill", "rmwal"}
InLog(k) == wals[walWriter][k] # None
InOldLog(k) == jobPc \in Swapping /\ wals[job.oldWal][k] # None

\* There are the log that is written, the next one, and the one that is on its way out.
LogsKnown ==
    /\ jobPc \in Swapping => job.oldWal \in Logs
    /\ \A w \in Logs : \/ w = walWriter
                       \/ jobPc = "swapwal" /\ w = job.newWal
                       \/ jobPc \in Swapping /\ w = job.oldWal
    /\ jobPc = "swapwal" => wals[job.newWal] = EmptyTable

\* Whatever is in a memory table is in a log: what is in the table that stays, in the
\* log that stays.
TablesAreLogged ==
    /\ jobPc \notin Moving \cup {"copy"} => writer = readerSecond
    /\ \A k \in Keys :
          /\ jobPc \in Moving \cup {"copy"} /\ maps[readerFirst][k] # None => InLog(k)
          /\ jobPc \notin Moving \cup {"copy", "switch"} /\ maps[readerSecond][k] # None => InLog(k)
          /\ maps[readerSecond][k] # None => InLog(k) \/ InOldLog(k)

\* A request that is about to store its entry has left one for its key in the log.
PendingAreLogged ==
    \A r \in Requests : Logged(r) /\ logged[r] # NoFile =>
        logged[r] \in Logs /\ wals[logged[r]][Key(r)] # None

\* What the logs, and then the files, hold for a key.
LogOf(k) ==
    IF InLog(k) THEN wals[walWriter][k]
    ELSE IF InOldLog(k) THEN wals[job.oldWal][k]
    ELSE Expected(k)

LogsHoldOwed == \A k \in Keys : LogOf(k) \in Owed(k)

UpInv == LogsKnown /\ TablesAreLogged /\ PendingAreLogged /\ LogsHoldOwed

\* While a running node has hit no window, what it owes is in its logs and files.
UpState == Inv /\ DiskInv /\ (windows = {} => UpInv)

\* The list of files a start works with, and what it holds.
BootList == IF boot = "append" THEN job.meta ELSE metadata
BootExpected(k) ==
    IF boot = "append" /\ job.data[k] # None THEN job.data[k] ELSE PersistentGet(k)

BootDisk ==
    /\ \A k \in Keys : Holds(files, BootList, k, BootExpected(k))
    /\ Opened \subseteq NamesIn(BootList)
    /\ boot \in {"truncate", "append"} => wals[current] = job.data
    /\ boot = "truncate" => files[job.path] = job.data /\ job.path \notin Listed
    /\ boot = "append" => job.path \in NamesIn(job.meta)
    /\ boot = "remove" => \A k \in Keys :
          wals[current][k] # None => PersistentGet(k) = wals[current][k]

\* The memory of a node that starts.
BootMemory ==
    /\ writer = readerSecond /\ readerFirst # readerSecond /\ maps[readerFirst] = EmptyTable
    /\ \A r \in Requests : pc[r] = "idle"
    /\ maps[readerSecond] # EmptyTable =>
          /\ walWriter \in Logs /\ ~IsLarge(wals[walWriter])
          /\ maps[readerSecond] = wals[walWriter]
    /\ boot \in {"truncate", "append", "remove"} => current \in Logs /\ IsLarge(wals[current])

\* The log has become the memory table.
IsKept(w) ==
    /\ w = walWriter /\ maps[readerSecond] = wals[w]
    /\ wals[w] # EmptyTable /\ ~IsLarge(wals[w])

\* A log is still to be replayed, or is being turned into a table, or is kept.
LogsReplayed ==
    /\ boot \in {"replay", "truncate", "append", "remove"} =>
          \A w \in Logs : w \in todo \/ (boot # "replay" /\ w = current) \/ IsKept(w)
    /\ boot = "ready" => Logs = {walWriter} /\ maps[readerSecond] = wals[walWriter]

\* Outside of the windows, there are at most a large log and a small one.
FewLogs == \A v, w \in Logs : (IsLarge(wals[v]) <=> IsLarge(wals[w])) => v = w

\* What a start will find for a key.
Finds(k, entry) ==
    \/ \E w \in Logs : ~IsLarge(wals[w]) /\ wals[w][k] # None /\ entry = wals[w][k]
    \/ /\ \A w \in Logs : ~IsLarge(wals[w]) => wals[w][k] = None
       /\ \E w \in Logs : IsLarge(wals[w]) /\ wals[w][k] # None /\ entry = wals[w][k]
    \/ /\ \A w \in Logs : wals[w][k] = None
       /\ Holds(files, BootList, k, entry)

OwedIsFound == \A k \in Keys : \E entry \in owed[k] : Finds(k, entry)

\* A node that starts has in memory what it has read; as long as it has hit no window,
\* it finds what was owed when it died.
DeadState ==
    /\ boot # "none" => BootDisk /\ BootMemory
    /\ windows = {} => FewLogs /\ OwedIsFound /\ LogsReplayed

CrashInv ==
    /\ RecoveryInv
    /\ faults = 0 => /\ status = "up" => UpState
                     /\ status = "dead" => DeadState

LEMMA NoFault ==
    ASSUME faults = 0, faults' = 0
    PROVE  ~Fault
BY DEF Fault

\* What kills the process is not among the steps of a running node.
LEMMA ServeStaysUp ==
    ASSUME Serve
    PROVE  status' = "up"
BY DEF Serve, CallWrite, LogWrite, ApplyWrite, Invoke, TakeFirst, ReadFirst, TakeSecond,
       ReadSecond, ReadPersistent, WriteWal, FailWal, TakeWriter, WriteMem, CheckSize,
       TryAcquire, Return, Take, Read, At

\* The steps of a running node keep the engine's invariants.
LEMMA ServeKeepsEngine ==
    ASSUME Inv, DiskInv, Serve
    PROVE  Inv' /\ DiskInv' /\ status' = "up"
<1>1. CASE JobStep /\ status' = "up"
    <2>1. Inv'
        BY <1>1, NextInv DEF Next
    <2>2. DiskInv'
        BY <1>1, JobDisk DEF Inv
    <2> QED
        BY <1>1, <2>1, <2>2
<1>2. ASSUME NEW r \in Requests, Invoke(r) \/ RequestStep(r), status' = "up"
      PROVE  Inv' /\ DiskInv' /\ status' = "up"
    <2>1. Inv'
        BY <1>2, NextInv DEF Next
    <2>2. DiskInv'
        BY <1>2, RequestDisk DEF Inv
    <2> QED
        BY <1>2, <2>1, <2>2
<1> QED
    <2>1. \/ JobStep /\ status' = "up"
          \/ \E r \in Requests : Invoke(r) \/ RequestStep(r)
        BY DEF Serve, CallWrite, LogWrite, ApplyWrite, RequestStep
    <2>2. status' = "up"
        BY ServeStaysUp
    <2> QED
        BY <1>1, <1>2, <2>1, <2>2

\* While tables, logs and the job stay, nothing changes but the stage of requests that
\* are not about to store an entry.
LEMMA RequestKeepsLogs ==
    ASSUME UpInv,
           UNCHANGED <<mem, wals, walWriter, collection, job, logged>>,
           jobPc' = jobPc \/ (jobPc = "off" /\ jobPc' = "newwal"),
           \A q \in Requests : Logged(q)' = Logged(q),
           \A q \in Requests : Logged(q) => call'[q] = call[q]
    PROVE  UpInv'
<1>1. /\ Logs' = Logs
      /\ jobPc' \in Swapping <=> jobPc \in Swapping
      /\ jobPc' \in Moving <=> jobPc \in Moving
      /\ \A at \in {"copy", "switch", "swapwal", "append", "push"} : jobPc' = at <=> jobPc = at
    BY DEF Logs, Swapping, Moving
<1>2. \A k : (InLog(k)' <=> InLog(k)) /\ (InOldLog(k)' <=> InOldLog(k))
    BY <1>1 DEF InLog, InOldLog
<1>3. LogsKnown'
    BY <1>1 DEF UpInv, LogsKnown
<1>4. TablesAreLogged'
    BY <1>1, <1>2 DEF UpInv, TablesAreLogged, mem
<1>5. PendingAreLogged'
    BY <1>1 DEF UpInv, PendingAreLogged, Key
<1>6. \A k : LogOf(k)' = LogOf(k)
    BY <1>1, <1>2 DEF LogOf, Expected, PersistentGet
<1>7. \A k : Owed(k)' = Owed(k)
    <2>1. \A k : Lookup(k)' = Lookup(k)
        BY DEF Lookup, PersistentGet, mem
    <2>2. \A q \in Requests : Logged(q) => call'[q] = call[q] /\ Key(q)' = Key(q)
        BY DEF Key
    <2> QED
        BY <2>1, <2>2 DEF Owed
<1> QED
    BY <1>3, <1>4, <1>5, <1>6, <1>7 DEF UpInv, LogsHoldOwed

\* An entry that is logged is owed from then on: it hides what the log held before.
LEMMA LogWriteKeepsLogs ==
    ASSUME faults = 0, faults' = 0, Inv, UpInv, logged \in [Requests -> WalIds \cup {NoFile}],
           NEW r \in Requests, LogWrite(r)
    PROVE  UpInv'
<1>1. /\ TypeOK /\ LogInUse /\ Key(r) \in Keys /\ call[r].entry \in Entry /\ call[r].entry # None
    <2>1. TypeInv /\ Ahead(r) /\ pc[r] = "wal"
        BY DEF Inv, EngineInv, AheadIsSeen, LogWrite, WriteWal, At
    <2>2. call[r].entry # None
        BY <2>1 DEF Ahead, IsGet
    <2> QED
        BY <2>1, <2>2, KeyIsKey DEF TypeInv, Active
<1>2. /\ wals' = [wals EXCEPT ![walWriter][Key(r)] = call[r].entry]
      /\ logged' = [logged EXCEPT ![r] = walWriter]
      /\ pc' = [pc EXCEPT ![r] = "mem"]
      /\ UNCHANGED <<maps, readerFirst, readerSecond, writer, walWriter, collection, jobPc, job, call>>
    BY NoFault DEF LogWrite, WriteWal, Goto, mem, jobVars
<1>3. /\ walWriter \in WalIds /\ wals[walWriter] \in Table /\ wals'[walWriter] \in Table
      /\ \A w \in WalIds : w # walWriter => wals'[w] = wals[w]
      /\ wals'[walWriter][Key(r)] = call[r].entry
      /\ \A k \in Keys : k # Key(r) => wals'[walWriter][k] = wals[walWriter][k]
    <2>1. walWriter \in WalIds /\ wals[walWriter] \in Table /\ wals \in [WalIds -> Table \cup {NoFile}]
        BY <1>1 DEF TypeOK, LogInUse
    <2>2. wals'[walWriter] = [wals[walWriter] EXCEPT ![Key(r)] = call[r].entry]
        BY <1>2, <2>1
    <2>3. \A w \in WalIds : w # walWriter => wals'[w] = wals[w]
        BY <1>2, <2>1
    <2> QED
        BY <1>1, <2>1, <2>2, <2>3 DEF Table
<1>4. Logs' = Logs
    BY <1>3, NoFileAssumption DEF Logs
<1>5. \A k \in Keys : InLog(k) => InLog(k)'
    BY <1>1, <1>2, <1>3 DEF InLog
<1>6. /\ \A k \in Keys : InOldLog(k)' <=> InOldLog(k)
      /\ jobPc \in Swapping => wals'[job.oldWal] = wals[job.oldWal]
    BY <1>1, <1>2, <1>3 DEF InOldLog, LogInUse, Swapping, TypeOK, Job
<1>7. LogsKnown'
    <2>1. jobPc = "swapwal" => wals'[job.newWal] = wals[job.newWal]
        BY <1>1, <1>3 DEF LogInUse, TypeOK, Job
    <2> QED
        BY <1>2, <1>4, <2>1 DEF UpInv, LogsKnown
<1>8. TablesAreLogged'
    BY <1>2, <1>5, <1>6 DEF UpInv, TablesAreLogged
<1>9. PendingAreLogged'
    <2> SUFFICES ASSUME NEW q \in Requests, Logged(q)', logged'[q] # NoFile
                 PROVE  logged'[q] \in Logs /\ wals'[logged'[q]][Key(q)] # None
        BY <1>2, <1>4 DEF PendingAreLogged, Key
    <2>1. CASE q = r
        BY <1>1, <1>2, <1>3, <2>1 DEF Logs, LogInUse
    <2>2. CASE q # r
        <3>1. Logged(q) /\ logged'[q] = logged[q]
            BY <1>1, <1>2, <2>2 DEF Logged, TypeOK
        <3>2. logged[q] \in Logs /\ wals[logged[q]][Key(q)] # None
            BY <3>1 DEF UpInv, PendingAreLogged
        <3>3. Key(q) \in Keys
            BY <3>1, KeyIsKey DEF Inv, Logged, Active
        <3> QED
            BY <1>1, <1>3, <3>1, <3>2, <3>3 DEF Logs
    <2> QED
        BY <2>1, <2>2
<1>10. LogsHoldOwed'
    <2> SUFFICES ASSUME NEW k \in Keys PROVE LogOf(k)' \in Owed(k)'
        BY DEF LogsHoldOwed
    <2>1. Lookup(k)' = Lookup(k)
        BY <1>2 DEF Lookup, PersistentGet
    <2>2. \A q \in Requests : Logged(q) \/ q = r => Logged(q)'
        BY <1>1, <1>2 DEF Logged, TypeOK
    <2>3. CASE k = Key(r)
        <3>1. LogOf(k)' = call[r].entry
            BY <1>1, <1>2, <1>3, <2>3 DEF LogOf, InLog
        <3>2. Logged(r)' /\ Key(r)' = k /\ call'[r].entry = call[r].entry
            BY <1>2, <2>2, <2>3 DEF Key
        <3> QED
            BY <3>1, <3>2 DEF Owed
    <2>4. CASE k # Key(r)
        <3>1. wals'[walWriter][k] = wals[walWriter][k]
            BY <1>3, <2>4
        <3>2. LogOf(k)' = LogOf(k)
            <4>1. Expected(k)' = Expected(k)
                BY <1>2 DEF Expected, PersistentGet
            <4>2. CASE InLog(k)
                BY <1>2, <3>1, <4>2 DEF LogOf, InLog
            <4>3. CASE ~InLog(k) /\ InOldLog(k)
                BY <1>2, <1>6, <3>1, <4>3 DEF LogOf, InLog, InOldLog
            <4>4. CASE ~InLog(k) /\ ~InOldLog(k)
                <5>1. ~InLog(k)' /\ ~InOldLog(k)'
                    BY <1>2, <1>6, <3>1, <4>4 DEF InLog
                <5> QED
                    BY <4>1, <4>4, <5>1 DEF LogOf
            <4> QED
                BY <4>2, <4>3, <4>4
        <3>3. LogOf(k) \in Owed(k)
            BY DEF UpInv, LogsHoldOwed
        <3>4. Owed(k) \subseteq Owed(k)'
            BY <1>2, <2>1, <2>2 DEF Owed, Key
        <3> QED
            BY <3>2, <3>3, <3>4
    <2> QED
        BY <2>3, <2>4
<1> QED
    BY <1>7, <1>8, <1>9, <1>10 DEF UpInv

\* An entry reaches memory with the log that holds it, and last in memory is what is last
\* in the logs, unless a window is hit.
LEMMA ApplyWriteKeepsLogs ==
    ASSUME Inv, UpInv, logged \in [Requests -> WalIds \cup {NoFile}],
           NEW r \in Requests, ApplyWrite(r), UNCHANGED logged, windows' = {}
    PROVE  UpInv'
<1> DEFINE K == Key(r)
<1>1. TypeOK /\ LogInUse /\ TablesInOrder /\ WriteMem(r) /\ Logged(r)
    BY DEF Inv, TypeInv, EngineInv, ApplyWrite, WriteMem, At, Logged
<1>2. /\ K \in Keys /\ call[r].entry # None
      /\ \A m \in MemIds, k \in Keys :
            maps'[m][k] = IF m = target[r] /\ k = K THEN call[r].entry ELSE maps[m][k]
      /\ \A q \in Requests \ {r} : pc'[q] = pc[q]
      /\ pc'[r] \notin {"mem", "store"}
      /\ UNCHANGED <<readerFirst, readerSecond, writer, collection, jobPc, job, target, call>>
    BY <1>1, WriteMemEffect DEF jobVars
<1>3. UNCHANGED <<wals, walWriter>>
    BY <1>1 DEF WriteMem, wal
<1>4. ~Straddles(r) /\ ~Reorders(r)
    BY DEF ApplyWrite
<1>5. \/ logged[r] = walWriter
      \/ /\ logged[r] = job.oldWal
         /\ jobPc = "switch" \/ (jobPc = "copy" /\ target[r] # writer)
    BY <1>4 DEF Straddles, MovesWithLog
<1>6. logged[r] \in Logs /\ wals[logged[r]][K] # None
    <2>1. logged[r] # NoFile
        BY <1>1, <1>5, RecoveryAssumption DEF TypeOK, Job
    <2> QED
        BY <1>1, <2>1 DEF UpInv, PendingAreLogged
<1>7. /\ InLog(K) \/ (jobPc \in {"switch", "copy"} /\ InOldLog(K))
      /\ ~InLog(K) => logged[r] = job.oldWal
      /\ ~InLog(K) /\ jobPc = "copy" => target[r] # readerFirst
    <2>1. jobPc = "copy" => writer = readerFirst
        BY <1>1 DEF TablesInOrder
    <2> QED
        BY <1>5, <1>6, <2>1 DEF InLog, InOldLog, Swapping
<1>8. Logs' = Logs /\ \A k : (InLog(k)' <=> InLog(k)) /\ (InOldLog(k)' <=> InOldLog(k))
    BY <1>2, <1>3 DEF Logs, InLog, InOldLog
<1>9. LogsKnown'
    BY <1>2, <1>3, <1>8 DEF UpInv, LogsKnown
<1>10. TablesAreLogged'
    <2>1. readerFirst \in MemIds /\ readerSecond \in MemIds
        BY <1>1 DEF TypeOK
    <2>2. jobPc \notin Moving \cup {"copy"} => writer = readerSecond
        BY DEF UpInv, TablesAreLogged
    <2>3. ASSUME NEW k \in Keys
          PROVE  /\ jobPc \in Moving \cup {"copy"} /\ maps'[readerFirst][k] # None => InLog(k)
                 /\ jobPc \notin Moving \cup {"copy", "switch"} /\ maps'[readerSecond][k] # None =>
                        InLog(k)
                 /\ maps'[readerSecond][k] # None => InLog(k) \/ InOldLog(k)
        <3>1. CASE k = K
            <4>1. CASE InLog(K)
                BY <3>1, <4>1
            <4>2. CASE ~InLog(K)
                <5>1. jobPc \in {"switch", "copy"} /\ InOldLog(K)
                    BY <1>7, <4>2
                <5>2. jobPc = "copy" => maps'[readerFirst][k] = maps[readerFirst][k]
                    BY <1>2, <1>7, <2>1, <4>2
                <5>3. jobPc \in Moving \cup {"copy"} /\ maps[readerFirst][k] # None => InLog(k)
                    BY DEF UpInv, TablesAreLogged
                <5>4. jobPc \in Moving \cup {"copy"} => jobPc = "copy"
                    BY <5>1 DEF Moving
                <5> QED
                    BY <3>1, <5>1, <5>2, <5>3, <5>4
            <4> QED
                BY <4>1, <4>2
        <3>2. CASE k # K
            <4>1. maps'[readerFirst][k] = maps[readerFirst][k] /\ maps'[readerSecond][k] = maps[readerSecond][k]
                BY <1>2, <2>1, <3>2
            <4> QED
                BY <4>1 DEF UpInv, TablesAreLogged
        <3> QED
            BY <3>1, <3>2
    <2>4. \A k \in Keys :
             /\ jobPc \in Moving \cup {"copy"} /\ maps'[readerFirst][k] # None => InLog(k)'
             /\ jobPc \notin Moving \cup {"copy", "switch"} /\ maps'[readerSecond][k] # None => InLog(k)'
             /\ maps'[readerSecond][k] # None => InLog(k)' \/ InOldLog(k)'
        BY <1>8, <2>3
    <2> QED
        BY <1>2, <2>2, <2>4 DEF TablesAreLogged
<1>11. \A q \in Requests : Logged(q)' <=> Logged(q) /\ q # r
    BY <1>2 DEF Logged
<1>12. PendingAreLogged'
    BY <1>2, <1>3, <1>8, <1>11 DEF UpInv, PendingAreLogged, Key
<1>13. LogsHoldOwed'
    <2> SUFFICES ASSUME NEW k \in Keys PROVE LogOf(k)' \in Owed(k)'
        BY DEF LogsHoldOwed
    <2>1. LogOf(k)' = LogOf(k)
        BY <1>2, <1>3, <1>8 DEF LogOf, Expected, PersistentGet
    <2>2. LogOf(k) \in Owed(k)
        BY DEF UpInv, LogsHoldOwed
    <2>3. CASE k # K
        <3>1. Lookup(k)' = Lookup(k)
            BY <1>1, <1>2, <2>3 DEF Lookup, PersistentGet, TypeOK
        <3> QED
            BY <1>2, <1>11, <2>1, <2>2, <2>3, <3>1 DEF Owed, Key
    <2>4. CASE k = K
        <3> DEFINE last == IF wals[walWriter][K] # None THEN wals[walWriter][K]
                           ELSE wals[logged[r]][K]
        <3>1. last = LogOf(k)
            BY <1>7, <2>4 DEF LogOf, InLog
        <3>2. \/ last = Lookup(K)'
              \/ \E s \in Requests \ {r} : Logged(s) /\ Key(s) = K /\ call[s].entry = last
            BY <1>4, <1>6 DEF Reorders
        <3>3. CASE last = Lookup(K)'
            <4>1. Key(r)' = k
                BY <1>2, <2>4 DEF Key
            <4>2. Lookup(k)' = LogOf(k)'
                BY <2>1, <3>1, <3>3, <4>1 DEF Lookup, PersistentGet
            <4> QED
                BY <4>2 DEF Owed
        <3>4. ASSUME NEW s \in Requests \ {r}, Logged(s), Key(s) = K, call[s].entry = last
              PROVE  LogOf(k)' \in Owed(k)'
            <4>1. Logged(s)' /\ Key(s)' = k /\ call'[s].entry = LogOf(k)'
                BY <1>2, <1>11, <2>1, <2>4, <3>1, <3>4 DEF Key
            <4> QED
                BY <4>1 DEF Owed
        <3> QED
            BY <3>2, <3>3, <3>4
    <2> QED
        BY <2>3, <2>4
<1> QED
    BY <1>9, <1>10, <1>12, <1>13 DEF UpInv

LEMMA RequestKeepsUpInv ==
    ASSUME faults = 0, faults' = 0, Inv, UpInv, RecoveryTypeOK, NEW r \in Requests,
           windows' = {},
           \/ CallWrite(r) /\ UNCHANGED history
           \/ LogWrite(r) /\ UNCHANGED <<owed, windows>>
           \/ ApplyWrite(r) /\ UNCHANGED <<logged, owed>>
           \/ /\ \/ TakeFirst(r) \/ ReadFirst(r) \/ TakeSecond(r) \/ ReadSecond(r)
                 \/ ReadPersistent(r) \/ FailWal(r) \/ TakeWriter(r) \/ CheckSize(r)
                 \/ TryAcquire(r) \/ Return(r)
              /\ UNCHANGED history
    PROVE  UpInv'
<1>1. logged \in [Requests -> WalIds \cup {NoFile}] /\ pc \in [Requests -> RequestPcs]
    BY DEF RecoveryTypeOK, TypeOK
<1>2. CASE LogWrite(r)
    BY <1>1, <1>2, LogWriteKeepsLogs
<1>3. CASE ApplyWrite(r) /\ UNCHANGED <<logged, owed>>
    BY <1>1, <1>3, ApplyWriteKeepsLogs
<1>4. CASE /\ \/ CallWrite(r) \/ TakeFirst(r) \/ ReadFirst(r) \/ TakeSecond(r) \/ ReadSecond(r)
              \/ ReadPersistent(r) \/ FailWal(r) \/ TakeWriter(r) \/ CheckSize(r)
              \/ TryAcquire(r) \/ Return(r)
           /\ UNCHANGED history
    <2>1. /\ UNCHANGED <<mem, wals, walWriter, collection, job, logged>>
          /\ jobPc' = jobPc \/ (~guard /\ jobPc' = "newwal")
          /\ \A q \in Requests \ {r} : call'[q] = call[q]
        <3>1. TypeOK
            BY DEF RecoveryTypeOK
        <3> QED
            BY <1>4, <3>1
            DEF CallWrite, Invoke, TakeFirst, ReadFirst, TakeSecond, ReadSecond, ReadPersistent,
                FailWal, TakeWriter, CheckSize, TryAcquire, Return, Take, Read, wal, jobVars,
                history, TypeOK
    <2>2. guard \/ jobPc = "off"
        BY DEF Inv, EngineInv, JobHoldsGuard
    <2>3. \/ ~Logged(r) /\ \E at \in RequestPcs \ {"mem", "store"} : pc' = [pc EXCEPT ![r] = at]
          \/ pc[r] = "mem" /\ pc' = [pc EXCEPT ![r] = "store"] /\ call' = call
        <3>1. CASE ReadPersistent(r)
            <4>1. FoundOnDisk(r, PersistentGet(Key(r))) /\ pc[r] = "persistent"
                BY <3>1, ReadPersistentFinds DEF ReadPersistent, At
            <4> QED
                BY <4>1 DEF FoundOnDisk, FinishWrite, Finish, Goto, Logged, RequestPcs
        <3>2. CASE FailWal(r)
            BY <3>2 DEF FailWal, Finish, Goto, At, Logged, RequestPcs
        <3>3. CASE \/ CallWrite(r) \/ TakeFirst(r) \/ ReadFirst(r) \/ TakeSecond(r)
                   \/ ReadSecond(r) \/ TakeWriter(r) \/ CheckSize(r) \/ TryAcquire(r)
                   \/ Return(r)
            BY <3>3
            DEF CallWrite, Invoke, TakeFirst, ReadFirst, TakeSecond, ReadSecond, TakeWriter,
                CheckSize, TryAcquire, Return, Take, Read, FoundInMemory, Finish, Goto, At,
                Logged, RequestPcs
        <3> QED
            BY <1>4, <3>1, <3>2, <3>3
    <2>4. \A q \in Requests : Logged(q)' = Logged(q)
        BY <1>1, <2>3 DEF Logged
    <2>5. \A q \in Requests : Logged(q) => call'[q] = call[q]
        BY <2>1, <2>3 DEF Logged
    <2> QED
        BY <2>1, <2>2, <2>4, <2>5, RequestKeepsLogs
<1> QED
    BY <1>2, <1>3, <1>4

-----------------------------------------------------------------------------
(* The job *)

\* What the job does to the tables leaves what every key holds, and so what is owed.
LEMMA JobKeepsOwed ==
    ASSUME Inv, JobStep, NEW k \in Keys
    PROVE  UNCHANGED clients /\ Lookup(k)' = Lookup(k) /\ Owed(k)' = Owed(k)
<1>1. UNCHANGED clients
    BY DEF JobStep, CreateWal, SwapWal, SwitchWriter, CopySecond, WriteTable, TruncateMetadata,
           AppendMetadata, PushTable, DropCollected, RefillFirst, RemoveWal, Compact,
           CompactEmptyTable, RenameMetadata, ReplaceCollection, RemoveFiles, ThrowInSwapWith,
           Release
<1>2. Lookup(k)' = Lookup(k)
    <2>1. Store' = Store
        BY JobMaps DEF KV!vars, Store
    <2> QED
        BY <2>1 DEF Store
<1> QED
    BY <1>1, <1>2 DEF Owed, Logged, Key, clients

\* A log whose file stays still holds what the requests have logged in it.
LEMMA PendingStay ==
    ASSUME UpInv, ForgetRemoved, UNCHANGED clients,
           logged \in [Requests -> WalIds \cup {NoFile}],
           \A w \in Logs : w \in Logs' => wals'[w] = wals[w]
    PROVE  PendingAreLogged'
<1> SUFFICES ASSUME NEW q \in Requests, Logged(q)', logged'[q] # NoFile
             PROVE  logged'[q] \in Logs' /\ wals'[logged'[q]][Key(q)'] # None
    BY DEF PendingAreLogged
<1>1. Logged(q) /\ Key(q)' = Key(q)
    BY DEF Logged, Key, clients
<1>2. logged[q] \in Logs' /\ logged'[q] = logged[q]
    BY DEF ForgetRemoved
<1> QED
    BY <1>1, <1>2 DEF UpInv, PendingAreLogged

\* While the job moves the second table or merges the files, the logs stay.
LEMMA JobKeepsLogs ==
    ASSUME Inv, UpInv, JobStep, ForgetRemoved, logged \in [Requests -> WalIds \cup {NoFile}],
           UNCHANGED <<mem, wals, walWriter>>, job'.oldWal = job.oldWal,
           \/ jobPc \in Moving \cup {"copy"} /\ jobPc' \in Moving \cup {"copy"}
           \/ /\ jobPc \in Merging \cup {"compact", "rmfiles", "release"}
              /\ jobPc' \in Merging \cup {"rmfiles", "release", "off"},
           \A k \in Keys : ~InLog(k) /\ ~InOldLog(k) => Expected(k)' = Expected(k)
    PROVE  UpInv'
<1>1. /\ Logs' = Logs
      /\ jobPc' \in Swapping <=> jobPc \in Swapping
      /\ jobPc' \in Moving \cup {"copy"} <=> jobPc \in Moving \cup {"copy"}
      /\ jobPc # "switch" /\ jobPc' # "switch" /\ jobPc # "swapwal" /\ jobPc' # "swapwal"
    BY DEF Logs, Swapping, Moving, Merging
<1>2. \A k : (InLog(k)' <=> InLog(k)) /\ (InOldLog(k)' <=> InOldLog(k))
    BY <1>1 DEF InLog, InOldLog
<1>3. LogsKnown'
    BY <1>1 DEF UpInv, LogsKnown
<1>4. TablesAreLogged'
    BY <1>1, <1>2 DEF UpInv, TablesAreLogged, mem
<1>5. UNCHANGED clients /\ \A k \in Keys : Owed(k)' = Owed(k)
    <2>1. UNCHANGED clients
        BY DEF JobStep, CreateWal, SwapWal, SwitchWriter, CopySecond, WriteTable, TruncateMetadata,
               AppendMetadata, PushTable, DropCollected, RefillFirst, RemoveWal, Compact,
               CompactEmptyTable, RenameMetadata, ReplaceCollection, RemoveFiles,
               ThrowInSwapWith, Release
    <2> QED
        BY <2>1, JobKeepsOwed
<1>6. PendingAreLogged'
    BY <1>5, PendingStay
<1>7. \A k \in Keys : LogOf(k)' = LogOf(k)
    BY <1>2 DEF LogOf
<1> QED
    BY <1>3, <1>4, <1>5, <1>6, <1>7 DEF UpInv, LogsHoldOwed

\* The second table is copied, written to a file that is listed, and pushed: an entry
\* that is in no log is not in the table.
LEMMA MovingKeepsLogs ==
    ASSUME faults = 0, faults' = 0, Inv, UpInv, ForgetRemoved,
           logged \in [Requests -> WalIds \cup {NoFile}],
           CopySecond \/ WriteTable \/ TruncateMetadata \/ AppendMetadata \/ PushTable
    PROVE  UpInv'
<1>1. JobStep /\ UNCHANGED <<mem, wals, walWriter>>
    BY DEF JobStep, CopySecond, WriteTable, TruncateMetadata, AppendMetadata, PushTable, wal
<1>2. TypeOK /\ job \in Job /\ ~Fault /\ (jobPc \in Moving => job.data = maps[readerSecond])
    BY NoFault DEF Inv, TypeInv, TypeOK, EngineInv, MovedIsKept
<1>3. job'.oldWal = job.oldWal
    BY <1>2 DEF CopySecond, WriteTable, TruncateMetadata, AppendMetadata, PushTable, GiveUp, Job
<1>4. jobPc \in Moving \cup {"copy"} /\ jobPc' \in Moving \cup {"copy"}
    BY <1>2 DEF CopySecond, WriteTable, TruncateMetadata, AppendMetadata, PushTable, GiveUp,
                JobAt, JobGoto, Moving
<1>5. ASSUME NEW k \in Keys, ~InLog(k), ~InOldLog(k) PROVE Expected(k)' = Expected(k)
    <2>1. maps[readerSecond][k] = None
        BY <1>5 DEF UpInv, TablesAreLogged
    <2>2. CASE CopySecond \/ WriteTable
        BY <1>2, <2>2 DEF CopySecond, WriteTable, GiveUp, JobAt, JobGoto, Expected, PersistentGet
    <2>3. CASE TruncateMetadata
        <3>1. jobPc = "truncate" /\ jobPc' = "append" /\ collection' = collection
            BY <1>2, <2>3 DEF TruncateMetadata, JobAt, JobGoto, GiveUp
        <3>2. job'.data = job.data
            BY <1>2, <2>3 DEF TruncateMetadata, GiveUp, Job
        <3> QED
            BY <1>2, <2>1, <3>1, <3>2 DEF Expected, Moving, PersistentGet
    <2>4. CASE AppendMetadata
        <3>1. jobPc = "append" /\ jobPc' = "push" /\ UNCHANGED <<job, collection>>
            BY <1>2, <2>4 DEF AppendMetadata, JobAt, JobGoto
        <3> QED
            BY <3>1 DEF Expected, PersistentGet
    <2>5. CASE PushTable
        <3>1. /\ jobPc = "push" /\ jobPc' = "drop"
              /\ collection' = Append(collection, [path |-> job.path, table |-> job.data])
            BY <2>5 DEF PushTable, JobAt, JobGoto
        <3>2. [path |-> job.path, table |-> job.data] \in OpenTable /\ collection \in Seq(OpenTable)
            BY <1>2, JobTypes DEF OpenTable
        <3>3. NewestIn(collection', k) = IF job.data[k] # None THEN job.data[k]
                                         ELSE NewestIn(collection, k)
            BY <3>1, <3>2, NewestInAppend
        <3> QED
            BY <1>2, <2>1, <3>1, <3>3 DEF Expected, Moving, PersistentGet
    <2> QED
        BY <2>2, <2>3, <2>4, <2>5
<1> QED
    BY <1>1, <1>3, <1>4, <1>5, JobKeepsLogs

\* The files are merged into one that holds what they hold.
LEMMA MergingKeepsLogs ==
    ASSUME faults = 0, faults' = 0, Inv, UpInv, ForgetRemoved,
           logged \in [Requests -> WalIds \cup {NoFile}],
           Compact \/ RenameMetadata \/ ReplaceCollection \/ RemoveFiles \/ Release
    PROVE  UpInv'
<1>1. JobStep /\ UNCHANGED <<mem, wals, walWriter>>
    BY DEF JobStep, Compact, RenameMetadata, ReplaceCollection, RemoveFiles, Release, wal
<1>2. /\ TypeOK /\ job \in Job /\ ~Fault
      /\ jobPc \in Merging => job.data = Merged(collection)
    BY NoFault DEF Inv, TypeInv, TypeOK, EngineInv, MovedIsKept
<1>3. job'.oldWal = job.oldWal
    BY <1>2 DEF Compact, RenameMetadata, ReplaceCollection, RemoveFiles, Release, GiveUp, Job
<1>4. /\ jobPc \in Merging \cup {"compact", "rmfiles", "release"}
      /\ jobPc' \in Merging \cup {"rmfiles", "release", "off"}
    BY <1>2 DEF Compact, RenameMetadata, ReplaceCollection, RemoveFiles, Release, GiveUp,
                JobAt, JobGoto, Merging
<1>5. ASSUME NEW k \in Keys PROVE Expected(k)' = Expected(k)
    <2>1. PersistentGet(k)' = PersistentGet(k)
        <3>1. CASE ReplaceCollection
            <4>1. /\ jobPc = "replace"
                  /\ collection' = <<[path |-> job.path, table |-> job.data]>>
                BY <3>1 DEF ReplaceCollection, JobAt
            <4>2. [path |-> job.path, table |-> job.data] \in OpenTable
                BY <1>2, JobTypes DEF OpenTable
            <4>3. NewestIn(collection', k) = job.data[k]
                BY <4>1, <4>2, NewestInSingle
            <4> QED
                BY <1>2, <4>1, <4>3 DEF Merging, Merged, PersistentGet
        <3>2. CASE ~ReplaceCollection
            BY <3>2 DEF Compact, RenameMetadata, RemoveFiles, Release, PersistentGet
        <3> QED
            BY <3>1, <3>2
    <2> QED
        BY <1>4, <2>1 DEF Expected, Merging
<1> QED
    BY <1>1, <1>3, <1>4, <1>5, JobKeepsLogs

\* A new log is empty, and takes over as it is.
LEMMA NewLogKeepsLogs ==
    ASSUME faults = 0, faults' = 0, Inv, UpInv, ForgetRemoved,
           logged \in [Requests -> WalIds \cup {NoFile}], CreateWal \/ SwapWal
    PROVE  UpInv'
<1>1. JobStep /\ UNCHANGED <<mem, collection>>
    BY DEF JobStep, CreateWal, SwapWal
<1>2. /\ TypeOK /\ job \in Job /\ LogInUse /\ ~Fault /\ EmptyTable \in Table
      /\ EmptyTable # NoFile
    BY NoFault, NoFileAssumption DEF Inv, TypeInv, TypeOK, EmptyTable, Table
<1>3. UNCHANGED clients /\ \A k \in Keys : Owed(k)' = Owed(k)
    <2>1. UNCHANGED clients
        BY DEF CreateWal, SwapWal
    <2> QED
        BY <1>1, <2>1, JobKeepsOwed
<1>4. CASE CreateWal
    <2>1. /\ jobPc = "newwal" /\ jobPc' = "swapwal" /\ HasNewWal /\ walWriter' = walWriter
          /\ wals' = [wals EXCEPT ![NewWal] = EmptyTable]
          /\ job' = [job EXCEPT !.oldWal = walWriter, !.newWal = NewWal]
        BY <1>2, <1>4 DEF CreateWal, GiveUp, JobAt, JobGoto
    <2>2. NewWal \in WalIds /\ wals[NewWal] = NoFile /\ NewWal # walWriter
        BY <1>2, <2>1 DEF HasNewWal, NewWal, LogInUse
    <2>3. /\ wals'[NewWal] = EmptyTable /\ \A w \in WalIds \ {NewWal} : wals'[w] = wals[w]
          /\ job'.newWal = NewWal
        BY <1>2, <2>1, <2>2 DEF TypeOK, Job
    <2>4. Logs' = Logs \cup {NewWal} /\ NewWal \notin Logs
        BY <1>2, <2>2, <2>3 DEF Logs
    <2>5. \A k : (InLog(k)' <=> InLog(k)) /\ ~InOldLog(k) /\ ~InOldLog(k)'
        BY <1>2, <2>1, <2>2, <2>3 DEF InLog, InOldLog, Swapping, Moving, TypeOK
    <2>6. LogsKnown'
        BY <2>1, <2>3, <2>4 DEF UpInv, LogsKnown, Swapping, Moving
    <2>7. TablesAreLogged'
        <3>1. \A k \in Keys : maps[readerSecond][k] # None => InLog(k)
            BY <2>1 DEF UpInv, TablesAreLogged, Moving
        <3> QED
            BY <1>1, <2>1, <2>5, <3>1 DEF UpInv, TablesAreLogged, Moving, mem
    <2>8. PendingAreLogged'
        <3>1. \A w \in Logs : w \in Logs' => wals'[w] = wals[w]
            BY <2>3, <2>4 DEF Logs
        <3> QED
            BY <1>3, <3>1, PendingStay
    <2>9. \A k \in Keys : LogOf(k)' = LogOf(k)
        <3>1. wals'[walWriter] = wals[walWriter]
            BY <1>2, <2>2, <2>3 DEF TypeOK
        <3> QED
            BY <1>1, <2>1, <2>5, <3>1 DEF LogOf, Expected, PersistentGet
    <2> QED
        BY <1>3, <2>6, <2>7, <2>8, <2>9 DEF UpInv, LogsHoldOwed
<1>5. CASE SwapWal
    <2>1. /\ jobPc = "swapwal" /\ jobPc' = "switch" /\ walWriter' = job.newWal
          /\ UNCHANGED <<wals, job>>
        BY <1>5 DEF SwapWal, JobAt, JobGoto
    <2>2. /\ job.oldWal = walWriter /\ walWriter \in WalIds /\ wals[walWriter] # NoFile
          /\ wals[job.newWal] = EmptyTable
        BY <1>2, <2>1 DEF LogInUse, TypeOK, UpInv, LogsKnown
    <2>3. Logs' = Logs /\ walWriter \in Logs
        BY <2>1, <2>2 DEF Logs
    <2>4. \A k \in Keys : ~InLog(k)' /\ (InOldLog(k)' <=> InLog(k)) /\ ~InOldLog(k)
        BY <2>1, <2>2 DEF InLog, InOldLog, Swapping, Moving, EmptyTable
    <2>5. LogsKnown'
        BY <2>1, <2>2, <2>3 DEF UpInv, LogsKnown, Swapping, Moving
    <2>6. TablesAreLogged'
        BY <1>1, <2>1, <2>4 DEF UpInv, TablesAreLogged, Moving, mem
    <2>7. PendingAreLogged'
        BY <1>3, <2>1, PendingStay
    <2>8. \A k \in Keys : LogOf(k)' = LogOf(k)
        BY <1>1, <2>1, <2>2, <2>4 DEF LogOf, Expected, PersistentGet
    <2> QED
        BY <1>3, <2>5, <2>6, <2>7, <2>8 DEF UpInv, LogsHoldOwed
<1> QED
    BY <1>4, <1>5

\* The first table is empty when writes are sent to it, and what is written to it from then
\* on is in the new log; the old log goes when the second table is on the disk.
LEMMA SwitchingKeepsLogs ==
    ASSUME Inv, UpInv, ForgetRemoved, logged \in [Requests -> WalIds \cup {NoFile}],
           SwitchWriter \/ DropCollected \/ RefillFirst \/ RemoveWal
    PROVE  UpInv'
<1>1. JobStep /\ UNCHANGED <<walWriter, job, collection>>
    BY DEF JobStep, SwitchWriter, DropCollected, RefillFirst, RemoveWal, wal
<1>2. TypeOK /\ LogInUse /\ TablesInOrder
    BY DEF Inv, TypeInv, EngineInv
<1>3. UNCHANGED clients /\ \A k \in Keys : Owed(k)' = Owed(k)
    <2>1. UNCHANGED clients
        BY DEF SwitchWriter, DropCollected, RefillFirst, RemoveWal
    <2> QED
        BY <1>1, <2>1, JobKeepsOwed
<1>4. /\ jobPc \in Swapping /\ jobPc \notin {"swapwal", "append", "push"}
      /\ jobPc' \notin {"swapwal", "append", "push"}
      /\ jobPc' \in Swapping <=> ~RemoveWal
    BY DEF SwitchWriter, DropCollected, RefillFirst, RemoveWal, JobAt, JobGoto, Swapping, Moving
<1>5. CASE ~RemoveWal
    <2>1. UNCHANGED wals
        BY <1>5 DEF SwitchWriter, DropCollected, RefillFirst, wal
    <2>2. Logs' = Logs
        BY <2>1 DEF Logs
    <2>3. \A k \in Keys : (InLog(k)' <=> InLog(k)) /\ (InOldLog(k)' <=> InOldLog(k))
        BY <1>1, <1>4, <1>5, <2>1 DEF InLog, InOldLog
    <2>4. LogsKnown'
        BY <1>1, <1>4, <1>5, <2>2 DEF UpInv, LogsKnown
    <2>5. TablesAreLogged'
        <3>1. CASE SwitchWriter
            <4>1. /\ jobPc = "switch" /\ jobPc' = "copy"
                  /\ UNCHANGED <<maps, readerFirst, readerSecond>>
                BY <3>1 DEF SwitchWriter, JobAt, JobGoto
            <4>2. writer = readerSecond
                BY <4>1 DEF UpInv, TablesAreLogged, Moving
            <4>3. \A k \in Keys : maps[readerFirst][k] = None
                BY <1>2, <4>1, <4>2 DEF TablesInOrder, EmptyTable
            <4> QED
                BY <2>3, <4>1, <4>3 DEF UpInv, TablesAreLogged
        <3>2. CASE DropCollected
            <4>1. /\ jobPc = "drop" /\ jobPc' = "refill" /\ readerSecond' = readerFirst
                  /\ UNCHANGED <<maps, readerFirst, writer>>
                BY <3>2 DEF DropCollected, JobAt, JobGoto
            <4>2. writer = readerFirst
                BY <1>2, <4>1 DEF TablesInOrder, Moving
            <4>3. \A k \in Keys : maps[readerFirst][k] # None => InLog(k)
                BY <4>1 DEF UpInv, TablesAreLogged, Moving
            <4> QED
                BY <2>3, <4>1, <4>2, <4>3 DEF TablesAreLogged, Moving
        <3>3. CASE RefillFirst
            <4>1. /\ jobPc = "refill" /\ jobPc' = "rmwal" /\ UNCHANGED <<readerSecond, writer>>
                  /\ maps' = [maps EXCEPT ![NewMap({readerSecond})] = EmptyTable]
                BY <3>3 DEF RefillFirst, JobAt, JobGoto
            <4>2. maps'[readerSecond] = maps[readerSecond]
                BY <1>2, <4>1, NewMapIsNew DEF TypeOK
            <4>3. /\ writer = readerSecond
                  /\ \A k \in Keys : maps[readerSecond][k] # None => InLog(k)
                BY <4>1 DEF UpInv, TablesAreLogged, Moving
            <4> QED
                BY <2>3, <4>1, <4>2, <4>3 DEF TablesAreLogged, Moving
        <3> QED
            BY <1>5, <3>1, <3>2, <3>3
    <2>6. PendingAreLogged'
        BY <1>3, <2>1, PendingStay
    <2>7. \A k \in Keys : LogOf(k)' = LogOf(k)
        BY <1>1, <1>4, <2>1, <2>3 DEF LogOf, Expected, PersistentGet
    <2> QED
        BY <1>3, <2>4, <2>5, <2>6, <2>7 DEF UpInv, LogsHoldOwed
<1>6. CASE RemoveWal
    <2>1. /\ jobPc = "rmwal" /\ jobPc' = "compact" /\ UNCHANGED mem
          /\ wals' = [wals EXCEPT ![job.oldWal] = NoFile]
        BY <1>6 DEF RemoveWal, JobAt, JobGoto
    <2>2. job.oldWal \in WalIds /\ job.oldWal # walWriter
        BY <1>2, <2>1 DEF TypeOK, Job, LogInUse
    <2>3. /\ wals'[job.oldWal] = NoFile
          /\ \A w \in WalIds \ {job.oldWal} : wals'[w] = wals[w]
        BY <1>2, <2>1, <2>2 DEF TypeOK
    <2>4. Logs' = Logs \ {job.oldWal}
        BY <2>3 DEF Logs
    <2>5. wals'[walWriter] = wals[walWriter] /\ \A k : InLog(k)' <=> InLog(k)
        BY <1>1, <1>2, <2>2, <2>3 DEF InLog, TypeOK
    <2>6. /\ writer = readerSecond
          /\ \A k \in Keys : maps[readerSecond][k] # None => InLog(k)
        BY <2>1 DEF UpInv, TablesAreLogged, Moving
    <2>7. LogsKnown'
        BY <1>1, <2>1, <2>4 DEF UpInv, LogsKnown, Swapping, Moving
    <2>8. TablesAreLogged'
        BY <2>1, <2>5, <2>6 DEF TablesAreLogged, Moving, mem
    <2>9. PendingAreLogged'
        <3>1. \A w \in Logs : w \in Logs' => wals'[w] = wals[w]
            BY <2>3, <2>4 DEF Logs
        <3> QED
            BY <1>3, <3>1, PendingStay
    <2>10. ASSUME NEW k \in Keys PROVE LogOf(k)' \in Owed(k)
        <3>1. ~InOldLog(k)'
            BY <2>1 DEF InOldLog, Swapping, Moving
        <3>2. CASE InLog(k)
            <4>1. LogOf(k)' = LogOf(k)
                BY <1>1, <2>5, <3>2 DEF LogOf
            <4> QED
                BY <4>1 DEF UpInv, LogsHoldOwed
        <3>3. CASE ~InLog(k)
            <4>1. maps[readerSecond][k] = None /\ maps[readerFirst][k] = None
                BY <1>2, <2>1, <2>6, <3>3 DEF TablesInOrder, EmptyTable
            <4>2. LogOf(k)' = PersistentGet(k)
                BY <1>1, <2>1, <2>5, <3>1, <3>3 DEF LogOf, Expected, PersistentGet
            <4> QED
                BY <4>1, <4>2 DEF Owed, Lookup
        <3> QED
            BY <3>2, <3>3
    <2> QED
        BY <1>3, <2>7, <2>8, <2>9, <2>10 DEF UpInv, LogsHoldOwed
<1> QED
    BY <1>5, <1>6

\* A running node that hits no window keeps what it owes in its logs and files.
LEMMA ServeKeepsUpState ==
    ASSUME faults = 0, faults' = 0, RecoveryInv, UpState, Serve
    PROVE  UpState' /\ status' = "up"
<1>1. Inv' /\ DiskInv' /\ status' = "up"
    BY ServeKeepsEngine DEF UpState
<1>2. logged \in [Requests -> WalIds \cup {NoFile}] /\ RecoveryTypeOK /\ Inv
    BY DEF RecoveryInv, RecoveryTypeOK, UpState
<1>3. ASSUME windows' = {} PROVE UpInv'
    <2>1. windows = {}
        BY <1>3 DEF Serve, ApplyWrite, history
    <2>2. UpInv
        BY <2>1 DEF UpState
    <2>3. CASE JobStep /\ ForgetRemoved
        <3>1. ~CompactEmptyTable /\ ~ThrowInSwapWith
            BY <1>1 DEF CompactEmptyTable, ThrowInSwapWith
        <3> QED
            BY <1>2, <2>2, <2>3, <3>1, MovingKeepsLogs, MergingKeepsLogs, NewLogKeepsLogs,
               SwitchingKeepsLogs DEF JobStep
    <2>4. CASE ~(JobStep /\ ForgetRemoved)
        <3>1. PICK r \in Requests :
                \/ CallWrite(r) /\ UNCHANGED history
                \/ LogWrite(r) /\ UNCHANGED <<owed, windows>>
                \/ ApplyWrite(r) /\ UNCHANGED <<logged, owed>>
                \/ /\ \/ TakeFirst(r) \/ ReadFirst(r) \/ TakeSecond(r) \/ ReadSecond(r)
                      \/ ReadPersistent(r) \/ FailWal(r) \/ TakeWriter(r) \/ CheckSize(r)
                      \/ TryAcquire(r) \/ Return(r)
                   /\ UNCHANGED history
            BY <2>4 DEF Serve
        <3> QED
            BY <1>2, <1>3, <2>2, <3>1, RequestKeepsUpInv
    <2> QED
        BY <2>3, <2>4 DEF Serve
<1> QED
    BY <1>1, <1>3 DEF UpState

-----------------------------------------------------------------------------
(* The death *)

\* One log, or a large one and a small one, leave no doubt which entry a start will find.
LEMMA FewLogsAtDeath ==
    ASSUME TypeOK, LogInUse, LogsKnown, LogsReplayInOrder
    PROVE  /\ FewLogs
           /\ jobPc \in Swapping => IsLarge(wals[job.oldWal]) /\ ~IsLarge(wals[walWriter])
<1>1. /\ walWriter \in Logs
      /\ jobPc \in Swapping => job.oldWal \in Logs /\ job.oldWal # walWriter
    BY DEF LogInUse, LogsKnown, Logs, TypeOK, Swapping
<1>2. CASE Cardinality(Logs) = 1
    <2>1. IsFiniteSet(Logs)
        <3>1. IsFiniteSet({walWriter, job.newWal, job.oldWal})
            <4>1. IsFiniteSet({walWriter})
                BY FS_Singleton
            <4>2. IsFiniteSet({walWriter} \cup {job.newWal})
                BY <4>1, FS_AddElement
            <4>3. IsFiniteSet(({walWriter} \cup {job.newWal}) \cup {job.oldWal})
                BY <4>2, FS_AddElement
            <4>4. {walWriter, job.newWal, job.oldWal} =
                      ({walWriter} \cup {job.newWal}) \cup {job.oldWal}
                OBVIOUS
            <4> QED
                BY <4>3, <4>4
        <3>2. Logs \in SUBSET {walWriter, job.newWal, job.oldWal}
            BY DEF LogsKnown
        <3> QED
            BY <3>1, <3>2, FS_Subset
    <2>2. Logs = {walWriter}
        BY <1>1, <1>2, <2>1, FS_Singleton
    <2> QED
        BY <1>1, <2>2 DEF FewLogs
<1>3. CASE /\ Logs = {job.oldWal, walWriter}
           /\ IsLarge(wals[job.oldWal]) /\ ~IsLarge(wals[walWriter])
    BY <1>3 DEF FewLogs
<1> QED
    BY <1>2, <1>3 DEF LogsReplayInOrder

\* What the logs and the files hold when the node dies, a start will find.
LEMMA FindsLogOf ==
    ASSUME LogInUse, LogsKnown, TypeOK, LogsReplayInOrder, FewLogs, boot = "none",
           NEW k \in Keys, Holds(files, metadata, k, Expected(k))
    PROVE  Finds(k, LogOf(k))
<1>1. /\ walWriter \in Logs
      /\ jobPc \in Swapping => job.oldWal \in Logs
    BY DEF LogInUse, LogsKnown, Logs, TypeOK
<1>2. jobPc \in Swapping => IsLarge(wals[job.oldWal]) /\ ~IsLarge(wals[walWriter])
    BY FewLogsAtDeath
<1>3. BootList = metadata
    BY DEF BootList
<1>4. CASE InLog(k)
    <2>1. LogOf(k) = wals[walWriter][k] /\ wals[walWriter][k] # None
        BY <1>4 DEF LogOf, InLog
    <2>2. CASE ~IsLarge(wals[walWriter])
        BY <1>1, <2>1, <2>2 DEF Finds
    <2>3. CASE IsLarge(wals[walWriter])
        <3>1. \A w \in Logs : ~IsLarge(wals[w]) => w = job.newWal /\ jobPc = "swapwal"
            BY <1>2, <2>3 DEF LogsKnown
        <3>2. jobPc = "swapwal" => wals[job.newWal][k] = None
            BY DEF LogsKnown, EmptyTable
        <3> QED
            BY <1>1, <2>1, <2>3, <3>1, <3>2 DEF Finds
    <2> QED
        BY <2>2, <2>3
<1>5. CASE ~InLog(k) /\ InOldLog(k)
    <2>1. /\ LogOf(k) = wals[job.oldWal][k] /\ wals[job.oldWal][k] # None
          /\ wals[walWriter][k] = None
        BY <1>5 DEF LogOf, InLog, InOldLog
    <2>2. job.oldWal \in Logs /\ IsLarge(wals[job.oldWal])
        BY <1>1, <1>2, <1>5 DEF InOldLog
    <2>3. \A w \in Logs : ~IsLarge(wals[w]) => w = walWriter
        BY <1>1, <1>2, <1>5 DEF InOldLog, FewLogs
    <2> QED
        BY <2>1, <2>2, <2>3 DEF Finds
<1>6. CASE ~InLog(k) /\ ~InOldLog(k)
    <2>1. LogOf(k) = Expected(k)
        BY <1>6 DEF LogOf
    <2>2. \A w \in Logs : wals[w][k] = None
        BY <1>6 DEF InLog, InOldLog, LogsKnown, EmptyTable
    <2> QED
        BY <1>3, <2>1, <2>2 DEF Finds
<1> QED
    BY <1>4, <1>5, <1>6

LEMMA DiesWithOwed ==
    ASSUME faults = 0, RecoveryInv, UpState, status = "up", RecordDeath,
           UNCHANGED <<mem, wal, disk, collection, jobVars, clients, bootVars>>
    PROVE  DeadState'
<1>1. boot = "none" /\ boot' = "none"
    BY DEF RecoveryInv, BootInv, bootVars
<1> SUFFICES ASSUME windows' = {} PROVE FewLogs' /\ OwedIsFound' /\ LogsReplayed'
    BY <1>1 DEF DeadState
<1>2. windows = {} /\ jobPc # "append" /\ LogsReplayInOrder
    BY DEF RecordDeath
<1>3. TypeOK /\ LogInUse /\ LogsKnown /\ LogsHoldOwed /\ DiskAgrees
    BY <1>2 DEF UpState, Inv, TypeInv, EngineInv, DiskInv, UpInv
<1>4. FewLogs
    BY <1>2, <1>3, FewLogsAtDeath
<1>5. Logs' = Logs /\ wals' = wals /\ files' = files /\ BootList' = BootList
    BY <1>1 DEF Logs, BootList, wal, disk
<1>6. OwedIsFound'
    <2> SUFFICES ASSUME NEW k \in Keys PROVE \E entry \in owed'[k] : Finds(k, entry)'
        BY DEF OwedIsFound
    <2>1. LogOf(k) \in owed'[k]
        BY <1>3 DEF LogsHoldOwed, RecordDeath
    <2>2. Holds(files, metadata, k, Expected(k))
        BY <1>2, <1>3 DEF DiskAgrees, List
    <2>3. Finds(k, LogOf(k))
        BY <1>1, <1>2, <1>3, <1>4, <2>2, FindsLogOf
    <2>4. \A entry : Finds(k, entry)' <=> Finds(k, entry)
        BY <1>5 DEF Finds
    <2> QED
        BY <2>1, <2>3, <2>4
<1> QED
    BY <1>1, <1>4, <1>5, <1>6 DEF FewLogs, LogsReplayed

-----------------------------------------------------------------------------
(* The start *)

\* A list of files holds something for every key.
LEMMA ListHolds ==
    ASSUME NEW list \in Seq(Paths), NEW f, NEW k
    PROVE  \E entry : Holds(f, list, k, entry)
<1> DEFINE S == {i \in DOMAIN list : FileHas(f, list, k, i)}
           n == Cardinality(S)
<1>1. Len(list) \in Nat /\ DOMAIN list = 1..Len(list)
    BY LenProperties
<1>2. S \in SUBSET (1..Len(list))
    BY <1>1
<1>3. /\ n \in Nat
      /\ \A i \in S : Cardinality(UpTo(S, i)) \in 1..n
      /\ \A h \in 1..n : \E i \in S : Cardinality(UpTo(S, i)) = h
    BY <1>1, <1>2, CountingNumbers
<1>4. CASE S = {}
    <2>1. Holds(f, list, k, None)
        BY <1>4 DEF Holds
    <2> QED
        BY <2>1
<1>5. CASE S # {}
    <2>1. n \in 1..n
        <3>1. PICK i \in S : TRUE
            BY <1>5
        <3>2. Cardinality(UpTo(S, i)) \in 1..n
            BY <1>3, <3>1
        <3> HIDE DEF S, n
        <3> QED
            BY <1>3, <3>2
    <2>2. PICK i \in S : Cardinality(UpTo(S, i)) = n
        BY <1>3, <2>1
    <2>3. \A j \in S : ~(i < j)
        <3> SUFFICES ASSUME NEW j \in S, i < j PROVE FALSE
            OBVIOUS
        <3>1. Cardinality(UpTo(S, i)) < Cardinality(UpTo(S, j))
            BY <1>1, <1>2, CountingGrows
        <3>2. Cardinality(UpTo(S, j)) \in 1..n
            BY <1>3
        <3> HIDE DEF S, n
        <3> QED
            BY <1>3, <2>2, <3>1, <3>2
    <2>4. \A j \in DOMAIN list : j > i => ~FileHas(f, list, k, j)
        BY <1>1, <2>3
    <2>5. Holds(f, list, k, f[list[i]][k])
        BY <2>2, <2>4 DEF Holds
    <2> QED
        BY <2>5
<1> QED
    BY <1>4, <1>5

\* What a start finds depends on the logs and the listed files only.
LEMMA FindsStays ==
    ASSUME UNCHANGED <<wals, files>>, BootList' = BootList
    PROVE  /\ Logs' = Logs
           /\ FewLogs' <=> FewLogs
           /\ owed' = owed => (OwedIsFound' <=> OwedIsFound)
<1>1. Logs' = Logs
    BY DEF Logs
<1>2. \A k, entry : Finds(k, entry)' <=> Finds(k, entry)
    BY <1>1 DEF Finds
<1> QED
    BY <1>1, <1>2 DEF FewLogs, OwedIsFound

\* The tables that are loaded hold what the list holds.
LEMMA RestartKeepsFound ==
    ASSUME RecoveryInv, DeadState, Restart
    PROVE  DeadState'
<1>1. TypeOK /\ boot = "none" /\ boot' = "replay"
    BY DEF RecoveryInv, RecoveryTypeOK, Restart, Booting
<1>2. /\ metadata \in Seq(Paths) /\ files \in [Paths -> Table \cup {NoFile}]
      /\ UNCHANGED <<wals, files, metadata, owed, windows>> /\ BootList' = BootList
    BY <1>1 DEF TypeOK, Restart, disk, history, BootList
<1>3. BootDisk'
    <2>1. ASSUME NEW k \in Keys PROVE Holds(files', BootList', k, BootExpected(k)')
        <3>1. PICK entry : Holds(files, metadata, k, entry)
            BY <1>2, ListHolds
        <3>2. NewestIn(Loaded, k) = entry
            BY <1>2, <3>1, LoadedFindsHeld
        <3>3. BootExpected(k)' = entry
            BY <1>1, <3>2 DEF BootExpected, PersistentGet, Restart
        <3> QED
            BY <1>1, <1>2, <3>1, <3>3 DEF BootList
    <2>2. Opened' \subseteq NamesIn(BootList')
        <3>1. \A n \in DOMAIN Loaded : /\ NthPresent(n) \in Present
                                       /\ Loaded[n].path = metadata[NthPresent(n)]
            BY <1>2, LoadedAreListed
        <3>2. collection' = Loaded /\ BootList' = metadata
            BY <1>1, <1>2 DEF Restart, BootList
        <3> QED
            BY <3>1, <3>2 DEF Opened, NamesIn, Present
    <2> QED
        BY <1>1, <2>1, <2>2 DEF BootDisk
<1>4. BootMemory'
    <2>1. /\ readerSecond \in MemIds
          /\ NewMap({readerSecond}) \in MemIds /\ NewMap({readerSecond}) # readerSecond
        BY <1>1, NewMapIsNew DEF TypeOK
    <2> QED
        BY <1>1, <2>1 DEF BootMemory, Restart
<1>5. ASSUME windows' = {} PROVE FewLogs' /\ OwedIsFound' /\ LogsReplayed'
    <2>1. FewLogs' /\ OwedIsFound' /\ Logs' = Logs
        BY <1>2, <1>5, FindsStays DEF DeadState
    <2> QED
        BY <1>1, <2>1 DEF LogsReplayed, Restart
<1> QED
    BY <1>3, <1>4, <1>5 DEF DeadState

\* A start that is broken off leaves the files to the next one.
LEMMA BreakOffKeepsFound ==
    ASSUME DeadState, ReplayEmptyLog \/ DieBooting
    PROVE  DeadState'
<1>1. boot # "none" /\ boot' = "none" /\ UNCHANGED <<wals, files, metadata, owed>>
    BY DEF ReplayEmptyLog, DieBooting, Booting, wal, disk, unaffected, history
<1> SUFFICES ASSUME windows' = {} PROVE FewLogs' /\ OwedIsFound' /\ LogsReplayed'
    BY <1>1 DEF DeadState
<1>2. windows = {} /\ boot # "append"
    BY DEF ReplayEmptyLog, DieBooting, Booting, unaffected, history
<1>3. BootList' = BootList
    BY <1>1, <1>2 DEF BootList
<1> QED
    BY <1>1, <1>2, <1>3, FindsStays DEF DeadState, LogsReplayed

\* A small log is kept: there is no other one.
LEMMA ReplaySmallKeepsFound ==
    ASSUME RecoveryInv, DeadState, ReplaySmallLog
    PROVE  DeadState'
<1>1. /\ TypeOK /\ todo \subseteq Logs /\ boot = "replay"
      /\ UNCHANGED <<readerFirst, readerSecond, writer, wals, disk, collection, jobVars, boot,
                     current, unaffected>>
    BY DEF RecoveryInv, RecoveryTypeOK, BootInv, ReplaySmallLog, Booting
<1>2. PICK w \in todo : /\ wals[w] # EmptyTable /\ ~IsLarge(wals[w])
                        /\ maps' = [maps EXCEPT ![readerSecond] = wals[w]]
                        /\ walWriter' = w /\ todo' = todo \ {w}
    BY DEF ReplaySmallLog
<1>3. /\ UNCHANGED <<wals, files, metadata, owed, windows, job, pc>> /\ BootList' = BootList
      /\ BootDisk /\ BootMemory
    BY <1>1 DEF disk, jobVars, unaffected, history, clients, BootList, DeadState
<1>4. BootDisk'
    BY <1>1, <1>3 DEF BootDisk, BootExpected, PersistentGet, Opened
<1>5. Logs' = Logs
    BY <1>3, FindsStays
<1>6. maps'[readerSecond] = wals[w] /\ (readerFirst # readerSecond => maps'[readerFirst] = maps[readerFirst])
    BY <1>1, <1>2 DEF TypeOK
<1>7. BootMemory'
    BY <1>1, <1>2, <1>3, <1>5, <1>6 DEF BootMemory
<1>8. ASSUME windows' = {} PROVE FewLogs' /\ OwedIsFound' /\ LogsReplayed'
    <2>1. FewLogs /\ FewLogs' /\ OwedIsFound' /\ LogsReplayed
        BY <1>3, <1>8, FindsStays DEF DeadState
    <2>2. IsKept(w)'
        BY <1>1, <1>2, <1>6 DEF IsKept
    <2>3. \A v \in Logs : v \in todo' \/ v = w
        BY <1>1, <1>2, <2>1 DEF LogsReplayed, IsKept, FewLogs
    <2> QED
        BY <1>1, <1>5, <2>1, <2>2, <2>3 DEF LogsReplayed
<1> QED
    BY <1>4, <1>7, <1>8 DEF DeadState

\* A large log is written to a file that the list does not name yet.
LEMMA ReplayLargeKeepsFound ==
    ASSUME RecoveryInv, DeadState, ReplayLargeLog
    PROVE  DeadState'
<1>1. /\ TypeOK /\ todo \subseteq Logs /\ boot = "replay" /\ boot' = "truncate" /\ HasNewPath
      /\ UNCHANGED <<mem, wals, walWriter, metadata, collection, owed, windows, pc>>
    BY DEF RecoveryInv, RecoveryTypeOK, BootInv, ReplayLargeLog, Booting, wal, unaffected,
           history, clients
<1>2. PICK w \in todo : /\ IsLarge(wals[w])
                        /\ files' = [files EXCEPT ![NewPath] = wals[w]]
                        /\ job' = [job EXCEPT !.path = NewPath, !.data = wals[w]]
                        /\ current' = w /\ todo' = todo \ {w}
    BY DEF ReplayLargeLog
<1>3. w \in WalIds /\ wals[w] \in Table /\ Logs' = Logs /\ w \in Logs
    BY <1>1, <1>2 DEF Logs, TypeOK
<1>4. job'.path = NewPath /\ job'.data = wals[w]
    BY <1>1, <1>2 DEF TypeOK, Job
<1>5. /\ NewPath \notin Listed /\ files'[NewPath] = wals[w]
      /\ \A k, e : Holds(files, metadata, k, e) => Holds(files', metadata, k, e)
    BY <1>1, <1>2, <1>3, NewFileKept
<1>6. /\ BootList = metadata /\ BootList' = metadata /\ BootDisk /\ BootMemory
      /\ \A k : BootExpected(k)' = BootExpected(k)
    BY <1>1 DEF BootList, BootExpected, PersistentGet, DeadState
<1>7. BootDisk'
    <2>1. \A k \in Keys : Holds(files', metadata, k, BootExpected(k))
        BY <1>5, <1>6 DEF BootDisk
    <2> QED
        BY <1>1, <1>2, <1>4, <1>5, <1>6, <2>1 DEF BootDisk, Opened, Listed
<1>8. BootMemory'
    BY <1>1, <1>2, <1>3, <1>6 DEF BootMemory, mem
<1>9. ASSUME windows' = {} PROVE FewLogs' /\ OwedIsFound' /\ LogsReplayed'
    <2>1. FewLogs /\ OwedIsFound /\ LogsReplayed
        BY <1>1, <1>9 DEF DeadState
    <2>2. FewLogs'
        BY <1>1, <1>3, <2>1 DEF FewLogs
    <2>3. \A k, e : Finds(k, e) => Finds(k, e)'
        BY <1>1, <1>3, <1>5, <1>6 DEF Finds
    <2>4. OwedIsFound'
        BY <1>1, <2>1, <2>3 DEF OwedIsFound
    <2>5. LogsReplayed'
        BY <1>1, <1>2, <1>3, <2>1 DEF LogsReplayed, IsKept, mem
    <2> QED
        BY <2>2, <2>4, <2>5
<1> QED
    BY <1>7, <1>8, <1>9 DEF DeadState

\* Listed last, the table made of a log hides what the list held for its keys; these are
\* keys the log still has.
LEMMA BootTruncateKeepsFound ==
    ASSUME RecoveryInv, DeadState, BootTruncate
    PROVE  DeadState'
<1>1. /\ TypeOK /\ boot = "truncate" /\ boot' = "append"
      /\ UNCHANGED <<mem, wals, walWriter, files, collection, todo, current, owed, windows, pc>>
    BY DEF RecoveryInv, RecoveryTypeOK, BootTruncate, Booting, wal, unaffected, history, clients
<1>2. /\ job.path \in Paths /\ metadata \in Seq(Paths) /\ job.data # NoFile
      /\ job \in Job
    BY <1>1, JobTypes DEF TypeOK
<1>3. job'.meta = Append(metadata, job.path) /\ job'.path = job.path /\ job'.data = job.data
    <2> DEFINE more == Append(metadata, job.path)
    <2>1. job' = [job EXCEPT !.meta = more]
        BY DEF BootTruncate, WithTable
    <2> HIDE DEF more
    <2>2. job'.meta = more /\ job'.path = job.path /\ job'.data = job.data
        BY <1>2, <2>1 DEF Job
    <2> QED
        BY <2>2 DEF more
<1>4. /\ BootList = metadata /\ BootList' = Append(metadata, job.path)
      /\ BootDisk /\ BootMemory /\ files[job.path] = job.data /\ wals[current] = job.data
    BY <1>1, <1>3 DEF BootList, BootDisk, DeadState
<1>5. ASSUME NEW k, NEW entry, Holds(files, metadata, k, entry)
      PROVE  Holds(files', BootList', k, IF job.data[k] # None THEN job.data[k] ELSE entry)
    <2>1. Holds(files, Append(metadata, job.path), k,
                IF files[job.path][k] # None THEN files[job.path][k] ELSE entry)
        BY <1>2, <1>4, <1>5, MoreHolds
    <2> QED
        BY <1>1, <1>4, <2>1
<1>6. BootDisk'
    <2>1. ASSUME NEW k \in Keys PROVE Holds(files', BootList', k, BootExpected(k)')
        <3>1. Holds(files, metadata, k, PersistentGet(k))
            BY <1>1, <1>4 DEF BootDisk, BootExpected
        <3>2. BootExpected(k)' = IF job.data[k] # None THEN job.data[k] ELSE PersistentGet(k)
            BY <1>1, <1>3 DEF BootExpected, PersistentGet
        <3> QED
            BY <1>5, <3>1, <3>2
    <2>2. /\ NamesIn(metadata) \subseteq NamesIn(BootList')
          /\ EndsWith(BootList', job.path)
        BY <1>1, <1>2, <1>4, ListedLast
    <2>3. Opened' \subseteq NamesIn(BootList')
        BY <1>1, <1>4, <2>2 DEF BootDisk, Opened
    <2>4. job'.path \in NamesIn(job'.meta)
        <3>1. BootList' \in Seq(Paths)
            BY <1>2, <1>4, AppendProperties
        <3>2. Len(BootList') \in DOMAIN BootList'
            BY <2>2, <3>1, LenProperties DEF EndsWith
        <3> QED
            BY <1>3, <1>4, <2>2, <3>2 DEF EndsWith, NamesIn
    <2> QED
        BY <1>1, <1>3, <1>4, <2>1, <2>3, <2>4 DEF BootDisk
<1>7. BootMemory' /\ Logs' = Logs
    BY <1>1, <1>4 DEF BootMemory, mem, Logs
<1>8. ASSUME windows' = {} PROVE FewLogs' /\ OwedIsFound' /\ LogsReplayed'
    <2>1. FewLogs /\ OwedIsFound /\ LogsReplayed
        BY <1>1, <1>8 DEF DeadState
    <2>2. FewLogs'
        BY <1>1, <1>7, <2>1 DEF FewLogs
    <2>3. ASSUME NEW k, NEW entry, Finds(k, entry) PROVE Finds(k, entry)'
        <3>1. CASE (\A w \in Logs : wals[w][k] = None) /\ Holds(files, metadata, k, entry)
            <4>1. job.data[k] = None
                BY <1>1, <1>4, <3>1 DEF BootMemory
            <4>2. Holds(files', BootList', k, entry)
                BY <1>5, <3>1, <4>1
            <4> QED
                BY <1>1, <1>7, <3>1, <4>2 DEF Finds
        <3> QED
            BY <1>1, <1>4, <1>7, <2>3, <3>1 DEF Finds
    <2>4. OwedIsFound'
        BY <1>1, <2>1, <2>3 DEF OwedIsFound
    <2>5. LogsReplayed'
        BY <1>1, <1>7, <2>1 DEF LogsReplayed, IsKept, mem
    <2> QED
        BY <2>2, <2>4, <2>5
<1> QED
    BY <1>6, <1>7, <1>8 DEF DeadState

LEMMA BootAppendKeepsFound ==
    ASSUME RecoveryInv, DeadState, BootAppend
    PROVE  DeadState'
<1>1. /\ TypeOK /\ boot = "append" /\ boot' = "remove" /\ metadata' = job.meta
      /\ collection' = Append(collection, [path |-> job.path, table |-> job.data])
      /\ UNCHANGED <<mem, wals, walWriter, files, job, todo, current, owed, windows, pc>>
    BY DEF RecoveryInv, RecoveryTypeOK, BootAppend, Booting, wal, unaffected, history, clients,
           jobVars
<1>2. /\ BootList = job.meta /\ BootList' = job.meta /\ BootDisk /\ BootMemory
      /\ wals[current] = job.data
    BY <1>1 DEF BootList, BootDisk, DeadState
<1>3. [path |-> job.path, table |-> job.data] \in OpenTable /\ collection \in Seq(OpenTable)
    BY <1>1, JobTypes DEF OpenTable
<1>4. ASSUME NEW k \in Keys
      PROVE  PersistentGet(k)' = IF job.data[k] # None THEN job.data[k] ELSE PersistentGet(k)
    BY <1>1, <1>3, NewestInAppend DEF PersistentGet
<1>5. BootDisk'
    <2>1. \A k \in Keys : Holds(files', BootList', k, BootExpected(k)')
        BY <1>1, <1>2, <1>4 DEF BootDisk, BootExpected
    <2>2. Opened' \subseteq Opened \cup {job.path}
        <3> DEFINE new == [path |-> job.path, table |-> job.data]
        <3>1. new.path = job.path /\ new \in OpenTable /\ collection' = Append(collection, new)
            BY <1>1, <1>3
        <3> HIDE DEF new
        <3>2. /\ Len(collection) \in Nat /\ DOMAIN collection = 1..Len(collection)
              /\ DOMAIN collection' = 1..(Len(collection) + 1)
              /\ \A i \in 1..Len(collection) : collection'[i] = collection[i]
              /\ collection'[Len(collection) + 1] = new
            BY <1>3, <3>1, LenProperties, AppendProperties
        <3>3. \A i \in DOMAIN collection' : i \in DOMAIN collection \/ i = Len(collection) + 1
            BY <3>2
        <3> QED
            BY <3>1, <3>2, <3>3 DEF Opened
    <2>3. Opened' \subseteq NamesIn(BootList')
        BY <1>1, <1>2, <2>2 DEF BootDisk
    <2>4. \A k \in Keys : wals'[current'][k] # None => PersistentGet(k)' = wals'[current'][k]
        BY <1>1, <1>2, <1>4
    <2> QED
        BY <1>1, <2>1, <2>3, <2>4 DEF BootDisk
<1>6. BootMemory' /\ Logs' = Logs
    BY <1>1, <1>2 DEF BootMemory, mem, Logs
<1>7. ASSUME windows' = {} PROVE FewLogs' /\ OwedIsFound' /\ LogsReplayed'
    <2>1. FewLogs' /\ OwedIsFound' /\ LogsReplayed
        BY <1>1, <1>2, <1>7, FindsStays DEF DeadState
    <2>2. LogsReplayed'
        BY <1>1, <1>6, <2>1 DEF LogsReplayed, IsKept, mem
    <2> QED
        BY <2>1, <2>2
<1> QED
    BY <1>5, <1>6, <1>7 DEF DeadState

\* The log is removed when the list holds for its keys what it holds.
LEMMA BootRemoveKeepsFound ==
    ASSUME RecoveryInv, DeadState, BootRemove
    PROVE  DeadState'
<1>1. /\ TypeOK /\ KeptLog /\ current \in WalIds /\ boot = "remove" /\ boot' = "replay"
      /\ wals' = [wals EXCEPT ![current] = NoFile]
      /\ UNCHANGED <<mem, walWriter, disk, collection, job, todo, current, owed, windows, pc>>
    BY DEF RecoveryInv, RecoveryTypeOK, BootInv, BootRemove, Booting, unaffected, history,
           clients, jobVars
<1>2. /\ BootList = metadata /\ BootList' = metadata /\ BootDisk /\ BootMemory
      /\ UNCHANGED <<files, metadata>>
    BY <1>1 DEF BootList, DeadState, disk
<1>3. /\ Logs' = Logs \ {current}
      /\ \A w \in Logs' : wals'[w] = wals[w]
    BY <1>1 DEF Logs, TypeOK
<1>4. BootDisk'
    BY <1>1, <1>2 DEF BootDisk, BootExpected, PersistentGet, Opened
<1>5. BootMemory'
    <2>1. maps[readerSecond] # EmptyTable => walWriter # current /\ walWriter \in Logs
        BY <1>1, <1>2 DEF KeptLog, BootMemory
    <2>2. maps[readerSecond] # EmptyTable => walWriter \in Logs' /\ wals'[walWriter] = wals[walWriter]
        BY <1>3, <2>1
    <2> QED
        BY <1>1, <1>2, <2>2 DEF BootMemory, mem
<1>6. ASSUME windows' = {} PROVE FewLogs' /\ OwedIsFound' /\ LogsReplayed'
    <2>1. FewLogs /\ OwedIsFound /\ LogsReplayed
        BY <1>1, <1>6 DEF DeadState
    <2>2. FewLogs'
        BY <1>3, <2>1 DEF FewLogs
    <2>3. LogsReplayed'
        BY <1>1, <1>3, <2>1 DEF LogsReplayed, IsKept, mem
    <2>4. ASSUME NEW k \in Keys, NEW entry, Finds(k, entry) PROVE Finds(k, entry)'
        <3>1. \A w \in Logs : w \in Logs' \/ w = current
            BY <1>3
        <3>2. current \in Logs /\ IsLarge(wals[current])
            BY <1>1, <1>2 DEF BootMemory
        <3>3. \A w \in Logs' : ~IsLarge(wals[w])
            BY <1>3, <2>1, <3>2 DEF FewLogs
        <3>4. CASE \E w \in Logs : ~IsLarge(wals[w]) /\ wals[w][k] # None /\ entry = wals[w][k]
            BY <1>3, <3>1, <3>2, <3>4 DEF Finds
        <3>5. CASE /\ \A w \in Logs : ~IsLarge(wals[w]) => wals[w][k] = None
                   /\ \E w \in Logs : IsLarge(wals[w]) /\ wals[w][k] # None /\ entry = wals[w][k]
            <4>1. wals[current][k] # None /\ entry = wals[current][k]
                BY <3>1, <3>3, <3>5
            <4>2. entry = PersistentGet(k)
                BY <1>1, <1>2, <4>1 DEF BootDisk
            <4>3. Holds(files, metadata, k, entry)
                BY <1>1, <1>2, <4>2 DEF BootDisk, BootExpected
            <4>4. \A w \in Logs' : wals'[w][k] = None
                BY <1>3, <3>3, <3>5
            <4> QED
                BY <1>2, <4>3, <4>4 DEF Finds
        <3>6. CASE (\A w \in Logs : wals[w][k] = None) /\ Holds(files, metadata, k, entry)
            BY <1>2, <1>3, <3>6 DEF Finds
        <3> QED
            BY <1>2, <2>4, <3>4, <3>5, <3>6 DEF Finds
    <2>5. OwedIsFound'
        BY <1>1, <2>1, <2>4 DEF OwedIsFound
    <2> QED
        BY <2>2, <2>3, <2>5
<1> QED
    BY <1>4, <1>5, <1>6 DEF DeadState

\* Without a log that was kept, every log has been turned into a table.
LEMMA OpenLogKeepsFound ==
    ASSUME RecoveryInv, DeadState, OpenLog
    PROVE  DeadState'
<1>1. /\ TypeOK /\ boot = "replay" /\ todo = {} /\ boot' = "ready"
      /\ UNCHANGED <<mem, files, metadata, collection, job, todo, current, owed, windows, pc>>
    BY DEF RecoveryInv, RecoveryTypeOK, OpenLog, Booting, unaffected, history, clients, jobVars,
           disk
<1>2. BootList = metadata /\ BootList' = metadata /\ BootDisk /\ BootMemory
    BY <1>1 DEF BootList, DeadState
<1>3. BootDisk'
    BY <1>1, <1>2 DEF BootDisk, BootExpected, PersistentGet, Opened, Listed
<1>4. CASE maps[readerSecond] # EmptyTable
    <2>1. UNCHANGED <<wals, walWriter>>
        BY <1>4 DEF OpenLog
    <2>2. BootMemory' /\ Logs' = Logs
        BY <1>1, <1>2, <2>1 DEF BootMemory, mem, Logs
    <2>3. ASSUME windows' = {} PROVE FewLogs' /\ OwedIsFound' /\ LogsReplayed'
        <3>1. FewLogs' /\ OwedIsFound' /\ LogsReplayed
            BY <1>1, <1>2, <2>1, <2>3, FindsStays DEF DeadState
        <3>2. Logs = {walWriter} /\ maps[readerSecond] = wals[walWriter]
            BY <1>1, <1>2, <1>4, <3>1 DEF LogsReplayed, IsKept, BootMemory
        <3> QED
            BY <1>1, <2>1, <2>2, <3>1, <3>2 DEF LogsReplayed, mem
    <2> QED
        BY <1>3, <2>2, <2>3 DEF DeadState
<1>5. CASE maps[readerSecond] = EmptyTable
    <2>1. HasNewWal /\ wals' = [wals EXCEPT ![NewWal] = EmptyTable] /\ walWriter' = NewWal
        BY <1>5 DEF OpenLog
    <2>2. /\ NewWal \in WalIds /\ wals[NewWal] = NoFile /\ EmptyTable # NoFile
          /\ wals \in [WalIds -> Table \cup {NoFile}]
        BY <1>1, <2>1, NoFileAssumption DEF HasNewWal, NewWal, EmptyTable, Table, TypeOK
    <2>3. Logs' = Logs \cup {NewWal} /\ wals'[NewWal] = EmptyTable
        BY <2>1, <2>2 DEF Logs
    <2>4. BootMemory'
        BY <1>1, <1>2, <1>5 DEF BootMemory, mem
    <2>5. ASSUME windows' = {} PROVE FewLogs' /\ OwedIsFound' /\ LogsReplayed'
        <3>1. OwedIsFound /\ LogsReplayed
            BY <1>1, <2>5 DEF DeadState
        <3>2. Logs = {}
            BY <1>1, <1>5, <3>1 DEF LogsReplayed, IsKept
        <3>3. Logs' = {NewWal}
            BY <2>3, <3>2
        <3>4. LogsReplayed'
            BY <1>1, <1>5, <2>1, <2>3, <3>3 DEF LogsReplayed, mem
        <3>5. FewLogs'
            BY <3>3 DEF FewLogs
        <3>6. \A k \in Keys : wals'[NewWal][k] = None
            BY <2>3 DEF EmptyTable
        <3>7. ASSUME NEW k \in Keys, NEW entry, Finds(k, entry) PROVE Finds(k, entry)'
            <4>1. Holds(files, metadata, k, entry)
                BY <1>2, <3>2, <3>7 DEF Finds
            <4>2. Holds(files, metadata, k, entry)'
                BY <1>1, <4>1
            <4> QED
                BY <1>1, <1>2, <3>3, <3>6, <4>1 DEF Finds
        <3>8. OwedIsFound'
            BY <1>1, <3>1, <3>7 DEF OwedIsFound
        <3> QED
            BY <3>4, <3>5, <3>8
    <2> QED
        BY <1>3, <2>4, <2>5 DEF DeadState
<1> QED
    BY <1>4, <1>5

\* A node that is ready is a node that serves, with nothing under way.
LEMMA StartsInUpState ==
    ASSUME RecoveryInv, RecoveryInv', faults = 0, DeadState, StartServing
    PROVE  UpState'
<1>1. /\ TypeOK /\ boot = "ready" /\ status' = "up" /\ jobPc = "off"
      /\ UNCHANGED <<mem, wal, disk, collection, jobVars, clients, bounds, history>>
    BY DEF RecoveryInv, RecoveryTypeOK, BootInv, StartServing, Booting
<1>2. /\ BootDisk /\ BootMemory /\ BootList = metadata
      /\ \A r \in Requests : pc[r] = "idle" /\ ~Active(r)' /\ pc'[r] = "idle"
    BY <1>1 DEF DeadState, BootMemory, BootList, Active, clients
<1>3. jobPc' = "off" /\ jobPc' \notin Moving /\ jobPc' \notin Merging /\ jobPc' \notin Swapping
    BY <1>1 DEF jobVars, Moving, Merging, Swapping
<1>4. TypeInv'
    BY <1>1, UpIsTypeInv DEF RecoveryInv, RecoveryTypeOK, BootInv, TypeInv
<1>5. EngineInv'
    <2>1. TablesInOrder'
        BY <1>1, <1>2, <1>3 DEF TablesInOrder, BootMemory, mem
    <2>2. TargetsInUse'
        BY <1>2 DEF TargetsInUse, TargetInUse
    <2>3. MovedIsKept'
        BY <1>3 DEF MovedIsKept, Moving
    <2>4. AheadIsSeen'
        BY <1>2 DEF AheadIsSeen, Ahead
    <2> QED
        BY <1>3, <1>4, <2>1, <2>2, <2>3, <2>4 DEF EngineInv, TypeInv, JobHoldsGuard
<1>6. ReadsCurrent'
    BY <1>2 DEF ReadsCurrent, AnswerIsCurrent
<1>7. DiskInv'
    <2>1. List' = BootList /\ Opened' = Opened /\ files' = files
        BY <1>1, <1>2, <1>3 DEF List, Opened, disk
    <2>2. \A k \in Keys : Expected(k)' = BootExpected(k)
        BY <1>1, <1>3 DEF Expected, BootExpected, PersistentGet
    <2>3. DiskAgrees'
        BY <1>2, <1>3, <2>1, <2>2 DEF DiskAgrees, BootDisk
    <2> QED
        BY <1>3, <2>3 DEF DiskInv, JobHoldsGuard
<1>8. ASSUME windows' = {} PROVE UpInv'
    <2>1. Logs = {walWriter} /\ maps[readerSecond] = wals[walWriter]
        BY <1>1, <1>8 DEF DeadState, LogsReplayed, history
    <2>2. /\ Logs' = {walWriter'} /\ UNCHANGED <<maps, readerFirst, readerSecond, writer, wals, walWriter>>
          /\ maps[readerFirst] = EmptyTable /\ writer = readerSecond
        BY <1>1, <1>2, <2>1 DEF Logs, wal, mem, BootMemory
    <2>3. LogsKnown'
        BY <1>3, <2>2 DEF LogsKnown
    <2>4. TablesAreLogged'
        BY <1>3, <2>1, <2>2 DEF TablesAreLogged, InLog
    <2>5. PendingAreLogged'
        BY <1>2 DEF PendingAreLogged, Logged
    <2>6. ASSUME NEW k \in Keys PROVE LogOf(k)' = Lookup(k)'
        <3>1. maps'[readerFirst'][k] = None /\ maps'[readerSecond'][k] = wals'[walWriter'][k]
            BY <2>1, <2>2 DEF EmptyTable
        <3>2. ~InOldLog(k)' /\ Expected(k)' = PersistentGet(k)'
            BY <1>3 DEF InOldLog, Expected
        <3> QED
            BY <3>1, <3>2 DEF LogOf, InLog, Lookup
    <2>7. LogsHoldOwed'
        BY <2>6 DEF LogsHoldOwed, Owed
    <2> QED
        BY <2>3, <2>4, <2>5, <2>7 DEF UpInv
<1> QED
    BY <1>4, <1>5, <1>6, <1>7, <1>8 DEF UpState, Inv

-----------------------------------------------------------------------------
(* The theorem *)

\* No step but a failure changes the number of failures.
LEMMA FaultsAreCounted ==
    ASSUME [RNext]_allVars
    PROVE  UNCHANGED faults \/ Fault
<1> USE DEF bounds
<1>1. CASE JobStep
    BY <1>1 DEF JobStep, GiveUp, CreateWal, SwapWal, SwitchWriter, CopySecond, WriteTable,
        WriteFile, TruncateMetadata, AppendMetadata, PushTable, DropCollected, RefillFirst, RemoveWal,
        Compact, CompactEmptyTable, RenameMetadata, ReplaceCollection, RemoveFiles,
        ThrowInSwapWith, Release
<1>2. ASSUME NEW r \in Requests, Invoke(r) \/ RequestStep(r) PROVE UNCHANGED faults \/ Fault
    BY <1>2
    DEF RequestStep, Invoke, TakeFirst, ReadFirst, TakeSecond, ReadSecond, ReadPersistent,
        ThrowInGet, WriteWal, FailWal, TakeWriter, WriteMem, CheckSize, TryAcquire, Return,
        Take, Read
<1>3. CASE Serve
    <2>1. JobStep \/ \E r \in Requests : Invoke(r) \/ RequestStep(r)
        BY <1>3 DEF Serve, CallWrite, LogWrite, ApplyWrite, RequestStep
    <2> QED
        BY <1>1, <1>2, <2>1
<1>4. CASE DieOfEmptyTable \/ Die \/ DieBooting
    BY <1>4 DEF DieOfEmptyTable, CompactEmptyTable, Die, DieBooting
<1>5. CASE Recover
    BY <1>5 DEF Recover, Restart, ReplayEmptyLog, ReplaySmallLog, ReplayLargeLog, BootTruncate,
                BootAppend, BootRemove, OpenLog, StartServing, unaffected
<1>6. CASE UNCHANGED allVars
    BY <1>6 DEF allVars, vars
<1> QED
    BY <1>3, <1>4, <1>5, <1>6 DEF RNext, Done

LEMMA RInitCrashInv == RInit => CrashInv
<1> SUFFICES ASSUME RInit PROVE CrashInv
    OBVIOUS
<1>1. RecoveryInv /\ Inv /\ DiskInv /\ faults = 0 /\ status = "up"
    BY RInitTypes, InitInv, InitDisk DEF RInit, Init
<1>2. /\ jobPc = "off" /\ writer = readerSecond /\ \A m \in MemIds : maps[m] = EmptyTable
      /\ readerFirst \in MemIds /\ readerSecond \in MemIds /\ walWriter \in WalIds
      /\ wals = [w \in WalIds |-> IF w = walWriter THEN EmptyTable ELSE NoFile]
      /\ \A r \in Requests : pc[r] = "idle"
    BY <1>1 DEF RInit, Init, Inv, TypeInv, TypeOK
<1>3. jobPc \notin Swapping /\ jobPc \notin Moving
    BY <1>2 DEF Swapping, Moving
<1>4. \A w \in Logs : w = walWriter
    BY <1>2 DEF Logs
<1>5. LogsKnown
    BY <1>2, <1>3, <1>4 DEF LogsKnown
<1>6. \A k \in Keys : /\ maps[readerFirst][k] = None /\ maps[readerSecond][k] = None
                      /\ ~InLog(k) /\ ~InOldLog(k)
    BY <1>2, <1>3 DEF EmptyTable, InLog, InOldLog
<1>7. TablesAreLogged /\ PendingAreLogged
    BY <1>2, <1>6 DEF TablesAreLogged, PendingAreLogged, Logged
<1>8. LogsHoldOwed
    BY <1>2, <1>6 DEF LogsHoldOwed, LogOf, Owed, Lookup, Expected
<1> QED
    BY <1>1, <1>5, <1>7, <1>8 DEF CrashInv, UpState, UpInv

LEMMA RNextCrashInv == CrashInv /\ [RNext]_allVars => CrashInv'
<1> SUFFICES ASSUME CrashInv, [RNext]_allVars, faults' = 0
             PROVE  /\ status' = "up" => UpState'
                    /\ status' = "dead" => DeadState'
    BY RNextTypes DEF CrashInv
<1>1. /\ RecoveryInv /\ RecoveryInv' /\ faults = 0
      /\ status = "up" => UpState
      /\ status = "dead" => DeadState
    <2>1. RecoveryInv /\ RecoveryInv'
        BY RNextTypes DEF CrashInv
    <2>2. faults = 0
        BY <2>1, FaultsAreCounted DEF RecoveryInv, RecoveryTypeOK, TypeOK, Fault
    <2> QED
        BY <2>1, <2>2 DEF CrashInv
<1>2. CASE Serve
    <2>1. status = "up"
        BY <1>2
        DEF Serve, CallWrite, LogWrite, ApplyWrite, Invoke, TakeFirst, ReadFirst, TakeSecond,
            ReadSecond, ReadPersistent, WriteWal, FailWal, TakeWriter, WriteMem, CheckSize,
            TryAcquire, Return, Take, Read, At, JobStep, JobAt, CreateWal, SwapWal, SwitchWriter,
            CopySecond, WriteTable, TruncateMetadata, AppendMetadata, PushTable, DropCollected,
            RefillFirst, RemoveWal, Compact, CompactEmptyTable, RenameMetadata,
            ReplaceCollection, RemoveFiles, ThrowInSwapWith, Release
    <2>2. UpState' /\ status' = "up"
        BY <1>1, <1>2, <2>1, ServeKeepsUpState
    <2> QED
        BY <2>2
<1>3. CASE Die \/ DieOfEmptyTable
    <2>1. /\ status = "up" /\ status' = "dead" /\ RecordDeath
          /\ UNCHANGED <<mem, wal, disk, collection, jobVars, clients, bootVars>>
        BY <1>3 DEF Die, DieOfEmptyTable, CompactEmptyTable, JobAt, bounds
    <2>2. DeadState'
        BY <1>1, <2>1, DiesWithOwed
    <2> QED
        BY <2>1, <2>2
<1>4. CASE Recover \/ DieBooting
    <2>1. status = "dead" /\ DeadState
        BY <1>1, <1>4 DEF Recover, DieBooting, Restart, ReplayEmptyLog, ReplaySmallLog,
                    ReplayLargeLog, BootTruncate, BootAppend, BootRemove, OpenLog, StartServing,
                    Booting, unaffected, bounds
    <2>2. CASE StartServing
        <3>1. status' = "up" /\ UpState'
            BY <1>1, <2>1, <2>2, StartsInUpState DEF StartServing
        <3> QED
            BY <3>1
    <2>3. CASE ~StartServing
        <3>1. status' = "dead"
            BY <1>4, <2>1, <2>3
            DEF Recover, DieBooting, Restart, ReplayEmptyLog, ReplaySmallLog, ReplayLargeLog,
                BootTruncate, BootAppend, BootRemove, OpenLog, unaffected
        <3>2. DeadState'
            BY <1>1, <1>4, <2>1, <2>3, RestartKeepsFound, BreakOffKeepsFound,
               ReplaySmallKeepsFound, ReplayLargeKeepsFound, BootTruncateKeepsFound,
               BootAppendKeepsFound, BootRemoveKeepsFound, OpenLogKeepsFound DEF Recover
        <3> QED
            BY <3>1, <3>2
    <2> QED
        BY <2>2, <2>3
<1>5. CASE UNCHANGED allVars
    <2>1. /\ UNCHANGED <<maps, readerFirst, readerSecond, writer, wals, walWriter, broken>>
          /\ UNCHANGED <<files, metadata, collection, jobPc, guard, job>>
          /\ UNCHANGED <<pc, target, call, reply, seen, overtaken, status, calls, faults>>
          /\ UNCHANGED <<boot, todo, current, logged, owed, windows>>
        BY <1>5 DEF allVars, vars, mem, wal, disk, jobVars, clients, bounds, bootVars, history
    <2>2. ASSUME UpState PROVE UpState'
        <3>1. Inv'
            BY <1>5, <2>2, NextInv DEF allVars, UpState
        <3>2. DiskInv'
            BY <2>1, <2>2, DiskStays DEF UpState, DiskInv, JobHoldsGuard
        <3>3. UpInv => UpInv'
            BY <2>1, RequestKeepsLogs DEF Logged, mem
        <3> QED
            BY <2>1, <2>2, <3>1, <3>2, <3>3 DEF UpState
    <2>3. ASSUME DeadState PROVE DeadState'
        <3>1. BootList' = BootList /\ Logs' = Logs /\ \A k : BootExpected(k)' = BootExpected(k)
            BY <2>1 DEF BootList, Logs, BootExpected, PersistentGet
        <3>2. (FewLogs' <=> FewLogs) /\ (OwedIsFound' <=> OwedIsFound)
            BY <2>1, <3>1, FindsStays
        <3>3. BootDisk => BootDisk'
            BY <2>1, <3>1 DEF BootDisk, Opened, Listed, PersistentGet
        <3>4. BootMemory => BootMemory'
            BY <2>1, <3>1 DEF BootMemory
        <3>5. LogsReplayed => LogsReplayed'
            BY <2>1, <3>1 DEF LogsReplayed, IsKept
        <3> QED
            BY <2>1, <2>3, <3>2, <3>3, <3>4, <3>5 DEF DeadState
    <2> QED
        BY <1>1, <2>1, <2>2, <2>3
<1> QED
    BY <1>2, <1>3, <1>4, <1>5 DEF RNext, Done

\* A node that died outside of the windows has lost nothing that it answered: an entry
\* is in the log that is written, or in the one that goes with the table being moved, until
\* the list of files holds it (wal_reader.cpp:112-168, swappable_memory_storage.cpp:61-103),
\* for any number of keys, requests, logs, files and deaths, until a disk operation fails.
THEOREM NothingOwedIsLost == RSpec => [](faults = 0 => RecoveredOutsideWindows)
<1>1. CrashInv => (faults = 0 => RecoveredOutsideWindows)
    <2> SUFFICES ASSUME CrashInv, faults = 0, Booting("ready"), windows \subseteq {}, NEW k \in Keys
                 PROVE  Lookup(k) \in owed[k]
        BY DEF RecoveredOutsideWindows, RecoveredDespite
    <2>1. /\ TypeOK /\ windows = {} /\ boot = "ready" /\ BootList = metadata
          /\ BootDisk /\ BootMemory /\ OwedIsFound /\ LogsReplayed
        BY DEF CrashInv, RecoveryInv, RecoveryTypeOK, DeadState, Booting, BootList
    <2>2. PICK entry \in owed[k] : Finds(k, entry)
        BY <2>1 DEF OwedIsFound
    <2>3. /\ Logs = {walWriter} /\ maps[readerSecond] = wals[walWriter]
          /\ maps[readerFirst][k] = None
        BY <2>1 DEF LogsReplayed, BootMemory, EmptyTable
    <2>4. CASE wals[walWriter][k] # None
        <3>1. entry = wals[walWriter][k]
            BY <2>2, <2>3, <2>4 DEF Finds
        <3> QED
            BY <2>2, <2>3, <2>4, <3>1 DEF Lookup
    <2>5. CASE wals[walWriter][k] = None
        <3>1. Holds(files, metadata, k, entry)
            BY <2>1, <2>2, <2>3, <2>5 DEF Finds
        <3>2. Holds(files, metadata, k, PersistentGet(k))
            BY <2>1 DEF BootDisk, BootExpected
        <3>3. entry = PersistentGet(k)
            BY <2>1, <3>1, <3>2, LoadedFindsHeld DEF TypeOK
        <3> QED
            BY <2>2, <2>3, <2>5, <3>3 DEF Lookup
    <2> QED
        BY <2>4, <2>5
<1>2. RInit => CrashInv
    BY RInitCrashInv
<1>3. CrashInv /\ [RNext]_allVars => CrashInv'
    BY RNextCrashInv
<1> QED
    BY <1>1, <1>2, <1>3, PTL DEF RSpec

\* In a configuration in which no disk operation fails nothing owed is lost at all
\* (wal_reader.cpp:112-168, swappable_memory_storage.cpp:61-103).
THEOREM NothingIsLostWithoutFaults == MaxFaults = 0 => (RSpec => []RecoveredOutsideWindows)
<1> SUFFICES ASSUME MaxFaults = 0 PROVE RSpec => []RecoveredOutsideWindows
    OBVIOUS
<1>1. RInit => faults = 0
    BY DEF RInit, Init
<1>2. faults = 0 /\ [RNext]_allVars => (faults = 0)'
    BY FaultsAreCounted DEF Fault
<1>3. RSpec => [](faults = 0)
    BY <1>1, <1>2, PTL DEF RSpec
<1> QED
    BY <1>3, NothingOwedIsLost, PTL

\* A node that has died and started again, any number of times and also within a window,
\* serves as one that never has: until a disk operation fails, the tables, logs and files
\* of a running node are in the order a swap and a compaction rely on.
THEOREM RestartedNodesAreSound == RSpec => [](faults = 0 /\ status = "up" => EngineInv)
<1>1. CrashInv => (faults = 0 /\ status = "up" => EngineInv)
    BY DEF CrashInv, UpState, Inv
<1> QED
    BY <1>1, RInitCrashInv, RNextCrashInv, PTL DEF RSpec

\* And whatever it does then is a step of the abstract store that begins with what the
\* start has loaded (wal_reader.cpp:112-168, storage_system.cpp:16-72): the writes take
\* effect at one moment, are omitted or fail, and the job never shows.
ServesAsStore ==
    faults' = 0 /\ status = "up" /\ status' = "up" => [KV!Next]_(KV!vars)

THEOREM RestartedNodesServe == RSpec => [][ServesAsStore]_allVars
<1>1. CrashInv /\ [RNext]_allVars => [ServesAsStore]_allVars
    <2> SUFFICES ASSUME CrashInv, RNext, faults' = 0, status = "up", status' = "up"
                 PROVE  [KV!Next]_(KV!vars)
        BY DEF ServesAsStore
    <2>1. faults = 0
        BY FaultsAreCounted DEF CrashInv, RecoveryInv, RecoveryTypeOK, TypeOK, Fault
    <2>2. Inv
        BY <2>1 DEF CrashInv, UpState
    <2>3. CASE Serve
        <3>1. JobStep \/ \E r \in Requests : Invoke(r) \/ RequestStep(r)
            BY <2>3 DEF Serve, CallWrite, LogWrite, ApplyWrite, RequestStep
        <3> QED
            BY <2>2, <3>1, NextMaps DEF Next
    <2>4. CASE Done
        <3>1. UNCHANGED vars
            BY <2>4 DEF Done, allVars
        <3> QED
            BY <2>2, <3>1, NextMaps
    <2> QED
        BY <2>3, <2>4
        DEF RNext, DieOfEmptyTable, CompactEmptyTable, JobAt, Die, DieBooting, Recover, Restart,
            ReplayEmptyLog, ReplaySmallLog, ReplayLargeLog, BootTruncate, BootAppend,
            BootRemove, OpenLog, StartServing, Booting
<1> QED
    BY <1>1, RInitCrashInv, RNextCrashInv, PTL DEF RSpec
=============================================================================
