--------------------------- MODULE PersistentTables ---------------------------
(***************************************************************************)
(* What happens inside the reads that StorageEngine takes for one step: how  *)
(* the .data files of the open tables are searched (PersistentStorage::Get,   *)
(* a lower_bound that reads an entry per probe) and merged (MergeData, a        *)
(* cursor per table in a priority queue that compares what it reads).          *)
(*                                                                           *)
(* All reads of a file go through ReadEntryAt, which sets the position of the   *)
(* table's file descriptor and reads from there, in two system calls.  Requests *)
(* search on the strand of the collection, one at a time; the merge runs         *)
(* on another thread, outside of the strand, and uses the same descriptors.       *)
(***************************************************************************)
EXTENDS Naturals, Sequences, FiniteSets

CONSTANTS
    Keys,           \* the keys, in the order of strings
    NumTables,      \* the open tables, oldest first
    Error,          \* "failed to read entry from persistent storage"
    Unread,         \* the front of a cursor has not been read in this round
    NotFound

Tables == 1..NumTables

ASSUME KeysAssumption ==
    Keys \subseteq Nat /\ IsFiniteSet(Keys) /\ NumTables \in Nat \ {0}
ASSUME MarksAssumption == {Error, Unread, NotFound} \cap [key : Keys, table : Tables] = {}

VARIABLES
    tables,         \* the keys of each table, sorted: the index and the file
    position,       \* of each file descriptor, as the number of the entry that is there
    mergePc, cursors, fronts, current, data,        \* MergeData
    getPc, key, table, lo, count, answer,           \* PersistentStorageCollection::Get
    disturbed       \* history: a read has not found the position as it had set it

merge == <<mergePc, cursors, fronts, current, data>>
get == <<getPc, key, table, lo, count, answer>>
vars == <<tables, position, merge, get, disturbed>>

Ascending(seq) == \A i, j \in DOMAIN seq : i < j => seq[i] < seq[j]

\* Tables have entries: MergeData dereferences the cursors of all of them.
\* The case of an empty one is CompactEmptyTable of StorageEngine.
SortedTables ==
    {keys \in UNION {[1..size -> Keys] : size \in 1..Cardinality(Keys)} : Ascending(keys)}

\* What an entry is told by: its key and the table it was written to.
Entry == [key : Keys, table : Tables]

\* A file is smaller than the buffer of the stream, so that a read leaves
\* the position at its end.
End(t) == Len(tables[t]) + 1
EntryAt(t, i) == IF i < End(t) THEN [key |-> tables[t][i], table |-> t] ELSE Error

TypeOK ==
    /\ tables \in [Tables -> SortedTables]
    /\ \A t \in Tables : position[t] \in 1..End(t) /\ cursors[t] \in 1..End(t)
    /\ mergePc \in {"compare", "read", "top", "readtop", "done", "failed"}
    /\ fronts \in [Tables -> Entry \cup {Error, Unread}]
    /\ current \in Tables
    /\ data \in Seq(Entry)
    /\ getPc \in {"idle", "seek", "read", "answered", "thrown"}
    /\ key \in Keys /\ table \in Tables
    /\ lo \in 1..End(table) /\ count \in Nat /\ lo + count <= End(table)
    /\ answer \in Entry \cup {NotFound}
    /\ disturbed \in BOOLEAN

Init ==
    /\ tables \in [Tables -> SortedTables]
    /\ position = [t \in Tables |-> 1]
    /\ mergePc = "compare"
    /\ cursors = [t \in Tables |-> 1]
    /\ fronts = [t \in Tables |-> Unread]
    /\ current = 1 /\ data = <<>>
    /\ getPc = "idle" /\ key = (CHOOSE k \in Keys : TRUE)
    /\ table = 1 /\ lo = 1 /\ count = 0 /\ answer = NotFound
    /\ disturbed = FALSE

-----------------------------------------------------------------------------
(* ReadEntryAt: lseek, then read *)

Seek(t, i) == position' = [position EXCEPT ![t] = i] /\ UNCHANGED disturbed

\* The entry is the one at the position, whoever has set it.
Read(t, i) ==
    /\ position' = [position EXCEPT ![t] = End(t)]
    /\ disturbed' = (disturbed \/ position[t] # i)

-----------------------------------------------------------------------------
(* MergeData.  A round reads what the queue compares, and then again what it has *)
(* put on top. *)

Running == getPc # "thrown"
MergeAt(where) == Running /\ mergePc = where /\ UNCHANGED <<tables, get>>

\* Mutant: a cursor that has reached its end goes back into the queue.
Requeued == Tables

\* The cursors in the queue.
Live == {t \in Tables : cursors[t] < End(t)}

\* A queue of one compares nothing.
Compared == IF Cardinality(Live) = 1 THEN {} ELSE Live
ToCompare == {t \in Compared : fronts[t] = Unread}

SeekFront ==
    /\ MergeAt("compare")
    /\ \E t \in ToCompare :
          /\ \A u \in ToCompare : t <= u
          /\ current' = t /\ Seek(t, cursors[t])
    /\ mergePc' = "read"
    /\ UNCHANGED <<cursors, fronts, data>>

ReadFront ==
    /\ MergeAt("read")
    /\ Read(current, cursors[current])
    /\ fronts' = [fronts EXCEPT ![current] = EntryAt(current, position[current])]
    /\ mergePc' = "compare"
    /\ UNCHANGED <<cursors, current, data>>

\* Mutant: of entries with the same key, that of the oldest table comes first.
OldestFirst(t, u) ==
    \/ fronts[t].key > fronts[u].key
    \/ fronts[t].key = fronts[u].key /\ t > u

\* The comparator: t comes after u.
After(t, u) ==
    \/ fronts[t].key > fronts[u].key
    \/ fronts[t].key = fronts[u].key /\ t < u

\* What failed to be read compares as equal to everything, which is no order:
\* then anything may be on top.
Top(t) ==
    (\A u \in Compared : fronts[u] # Error) => \A u \in Compared \ {t} : ~After(t, u)

SeekTop ==
    /\ MergeAt("compare") /\ ToCompare = {}
    /\ \E t \in Live : Top(t) /\ current' = t /\ Seek(t, cursors[t])
    /\ mergePc' = "readtop"
    /\ UNCHANGED <<cursors, fronts, data>>

\* NewPersistentStorage sorts the data: the entry that comes n-th is the one that n - 1
\* others come before.
Before(entries, i) ==
    {j \in DOMAIN entries : \/ entries[j].key < entries[i].key
                            \/ entries[j].key = entries[i].key /\ j < i}
Sorted(entries) ==
    [n \in DOMAIN entries |->
        entries[CHOOSE i \in DOMAIN entries : Cardinality(Before(entries, i)) = n - 1]]

IsRepeated(entry) == data # <<>> /\ data[Len(data)].key = entry.key

Extended(entry) == IF IsRepeated(entry) THEN data ELSE Append(data, entry)

\* Mutant: the cursor stays where it is.
Stays(t) == cursors

Advanced(t) == [cursors EXCEPT ![t] = @ + 1]

ReadTop ==
    /\ MergeAt("readtop")
    /\ Read(current, cursors[current])
    /\ LET entry == EntryAt(current, position[current])
       IN  \/ /\ entry = Error
              /\ mergePc' = "failed"
              /\ UNCHANGED <<cursors, fronts, data>>
           \/ /\ entry # Error
              /\ cursors' = Advanced(current)
              /\ fronts' = [t \in Tables |-> Unread]
              /\ IF \A t \in Tables : cursors'[t] = End(t)
                 THEN mergePc' = "done" /\ data' = Sorted(Extended(entry))
                 ELSE mergePc' = "compare" /\ data' = Extended(entry)
    /\ UNCHANGED current

-----------------------------------------------------------------------------
(* PersistentStorageCollection::Get, on the strand *)

GetAt(where) == getPc = where /\ UNCHANGED <<tables, merge>>

\* lower_bound starts with the whole index of the table.
StartIn(t) == table' = t /\ lo' = 1 /\ count' = Len(tables[t])

Call ==
    /\ GetAt("idle")
    /\ key' \in Keys
    /\ StartIn(NumTables)
    /\ getPc' = "seek" /\ answer' = NotFound
    /\ UNCHANGED <<position, disturbed>>

\* The older tables are searched for what this one does not have.
Miss ==
    \/ table > 1 /\ StartIn(table - 1) /\ getPc' = "seek"
    \/ table = 1 /\ getPc' = "answered" /\ UNCHANGED <<table, lo, count>>

\* The middle of what is left, or what lower_bound has found.
Probe == lo + count \div 2

SeekProbe ==
    /\ GetAt("seek")
    /\ \/ Probe < End(table) 
          /\ Seek(table, Probe)
          /\ getPc' = "read" /\ UNCHANGED <<table, lo, count>>
       \/ Probe = End(table) /\ Miss /\ UNCHANGED <<position, disturbed>>
    /\ UNCHANGED <<key, answer>>

\* Mutant: the entry with the key is passed, as by upper_bound.
UpperBound(entry) ==
    IF entry.key <= key THEN lo' = Probe + 1 /\ count' = count - count \div 2 - 1
    ELSE lo' = lo /\ count' = count \div 2

\* Mutant: the probe is passed, and counted as if it were not.
CountProbe(entry) ==
    IF entry.key < key THEN lo' = Probe + 1 /\ count' = count - count \div 2
    ELSE lo' = lo /\ count' = count \div 2

\* Mutant: the probe is not passed.
KeepProbe(entry) ==
    IF entry.key < key THEN lo' = Probe /\ count' = count - count \div 2
    ELSE lo' = lo /\ count' = count \div 2

Narrow(entry) ==
    IF entry.key < key THEN lo' = Probe + 1 /\ count' = count - count \div 2 - 1
    ELSE lo' = lo /\ count' = count \div 2

\* The value of a read that failed is taken all the same, which throws; nobody
\* catches it, and the process dies.
ReadProbe ==
    /\ GetAt("read")
    /\ Read(table, Probe)
    /\ LET entry == EntryAt(table, position[table])
       IN  \/ /\ entry = Error
              /\ getPc' = "thrown" /\ UNCHANGED <<table, lo, count, answer>>
           \/ /\ entry # Error /\ count > 0
              /\ Narrow(entry)
              /\ getPc' = "seek" /\ UNCHANGED <<table, answer>>
           \/ /\ entry # Error /\ count = 0 /\ entry.key = key
              /\ answer' = entry
              /\ getPc' = "answered" /\ UNCHANGED <<table, lo, count>>
           \/ /\ entry # Error /\ count = 0 /\ entry.key # key
              /\ Miss /\ UNCHANGED answer
    /\ UNCHANGED key

Return ==
    /\ GetAt("answered")
    /\ getPc' = "idle"
    /\ UNCHANGED <<position, disturbed, key, table, lo, count, answer>>

Died == ~Running /\ UNCHANGED vars

MergeStep == SeekFront \/ ReadFront \/ SeekTop \/ ReadTop
GetStep == SeekProbe \/ ReadProbe \/ Return

Next == MergeStep \/ Call \/ GetStep \/ Died

Spec == Init /\ [][Next]_vars

-----------------------------------------------------------------------------
(* Properties *)

Holding(k) == {t \in Tables : \E i \in DOMAIN tables[t] : tables[t][i] = k}
Newest(k) == [key |-> k, table |-> CHOOSE t \in Holding(k) : \A u \in Holding(k) : u <= t]

MergedRight ==
    /\ \A i, j \in DOMAIN data : i < j => data[i].key < data[j].key
    /\ {data[i] : i \in DOMAIN data} = {Newest(k) : k \in {j \in Keys : Holding(j) # {}}}

AnsweredRight == answer = IF Holding(key) = {} THEN NotFound ELSE Newest(key)

\* As long as the two do not get into each other's way, merging keeps the newest
\* entry of every key and nothing else, sorted for the searches to come
\* (compaction.cpp:15-73).
MergeKeepsNewest == mergePc = "done" /\ ~disturbed => MergedRight

\* As long as they do not, a search finds the newest entry of its key (persistent.cpp:85-100,
\* persistent_storage_collection.cpp:109-125).
GetFindsNewest == getPc = "answered" /\ ~disturbed => AnsweredRight

\* As long as they do not, nothing is read beyond the end of a file, which would abandon the
\* merge or kill the process.
NothingFails == ~disturbed => mergePc # "failed" /\ getPc # "thrown"

\* The merged table replaces the files it was made of, which are removed: it has to
\* hold what they held (compaction.cpp:76-97).  Violated when a search moves the
\* position of a file between the two calls of the merge.
MergeKeepsNewestAlways == mergePc = "done" => MergedRight

\* The executor runs the job and the searches; every one of their steps is a
\* system call that returns.
FairSpec == Spec /\ WF_vars(MergeStep) /\ WF_vars(GetStep)

\* However they disturb each other, the merge and every search end.
MergeEnds == <>(mergePc \in {"done", "failed"} \/ ~Running)
GetEnds == getPc \in {"seek", "read"} ~> getPc \in {"answered", "thrown"}
=============================================================================
