--------------------------- MODULE SwappableStorage ---------------------------
(***************************************************************************)
(* SwappableMemoryStorage with its reference counters.  Readers and writers *)
(* run on any thread: they load an atomic pointer to a counter, add          *)
(* themselves to the counter, use its map and remove themselves.  The swap   *)
(* job redirects the pointers and spins until the counter it has taken out   *)
(* of use is zero before it deletes it.  The load and the Add are two steps, *)
(* so that a thread may be left with a pointer to a deleted counter: from    *)
(* there on the behaviour is undefined and the model stops.                  *)
(***************************************************************************)
EXTENDS Naturals, FiniteSets

CONSTANTS
    Keys,
    Readers, Writers,   \* threads in Get; threads in Insert, Remove
    MemIds,             \* addresses of MapStorage objects
    Counters            \* addresses of reference counters

ASSUME ThreadsAssumption ==
    Readers \cap Writers = {} /\ IsFiniteSet(Readers) /\ IsFiniteSet(Writers)
ASSUME KeysAssumption == Keys # {}

\* new finds an address while three counters and a map are in use.
ASSUME AddressesAssumption ==
    /\ Counters # {} /\ \A a, b, c \in Counters : \E d \in Counters : d \notin {a, b, c}
    /\ MemIds # {} /\ \A m \in MemIds : \E n \in MemIds : n # m

VARIABLES
    contents,       \* the keys in each map
    mapOf, count,   \* of each counter: its map, and the threads counted in
    live,           \* the counters that have not been deleted
    readerFirst, readerSecond, writer,  \* the atomic pointers
    pc, ptr, key,   \* of each thread: next step, loaded pointer, key
    jobPc, old, data,   \* of the job: next step, counter out of use, collected keys
    persisted,      \* history: keys whose latest entry is in a persistent table
    written,        \* history: keys that have been written
    owed            \* history: per reader, its key was in memory only when Get was
                    \* called and has not been put in a persistent table since

pointers == <<readerFirst, readerSecond, writer>>
jobVars == <<jobPc, old, data>>
vars == <<contents, mapOf, count, live, pointers, pc, ptr, key, jobVars, persisted,
          written, owed>>

Threads == Readers \cup Writers

ThreadPcs == {"idle", "add1", "read1", "remove1", "load2", "add2", "read2", "remove2",
              "missed2", "found", "missed", "add", "write", "remove"}
JobPcs == {"off", "waitwriter", "copy", "persist", "drop", "waitreader", "refill"}

TypeOK ==
    /\ contents \in [MemIds -> SUBSET Keys]
    /\ mapOf \in [Counters -> MemIds]
    /\ count \in [Counters -> 0..Cardinality(Threads)]
    /\ live \subseteq Counters
    /\ {readerFirst, readerSecond, writer} \subseteq live
    /\ pc \in [Threads -> ThreadPcs]
    /\ ptr \in [Threads -> Counters]
    /\ key \in [Threads -> Keys]
    /\ jobPc \in JobPcs
    /\ old \in Counters
    /\ data \subseteq Keys
    /\ persisted \subseteq Keys /\ written \subseteq Keys
    /\ owed \in [Readers -> BOOLEAN]

Map(counter) == contents[mapOf[counter]]
InMemory == Map(readerFirst) \cup Map(readerSecond)

\* new: an address that is not in use.
NewCounter == CHOOSE c \in Counters : c \notin live
NewMap == CHOOSE m \in MemIds : \A c \in live : mapOf[c] # m

Init ==
    /\ contents = [m \in MemIds |-> {}]
    /\ readerFirst = CHOOSE c \in Counters : TRUE
    /\ readerSecond = CHOOSE c \in Counters : c # readerFirst
    /\ writer = CHOOSE c \in Counters : c \notin {readerFirst, readerSecond}
    /\ live = {readerFirst, readerSecond, writer}
    /\ LET m1 == CHOOSE m \in MemIds : TRUE
           m2 == CHOOSE m \in MemIds : m # m1
       IN  mapOf = [c \in Counters |-> IF c = readerFirst THEN m1 ELSE m2]
    /\ count = [c \in Counters |-> 0]
    /\ pc = [t \in Threads |-> "idle"]
    /\ ptr = [t \in Threads |-> readerFirst]
    /\ key = [t \in Threads |-> CHOOSE k \in Keys : TRUE]
    /\ jobPc = "off" /\ old = writer /\ data = {}
    /\ persisted = {} /\ written = {}
    /\ owed = [t \in Readers |-> FALSE]

\* A thread holds a pointer to a deleted counter and is about to count itself in.
Dangling == \E t \in Threads : pc[t] \in {"add1", "add2", "add"} /\ ptr[t] \notin live

-----------------------------------------------------------------------------
(* Threads *)

At(t, at) == ~Dangling /\ pc[t] = at
Goto(t, at) == pc' = [pc EXCEPT ![t] = at]
Load(t, pointer, next) == ptr' = [ptr EXCEPT ![t] = pointer] /\ Goto(t, next)
history == <<persisted, written, owed>>

\* Add and Remove of the counters (operations_guard.hpp:35-40, 78-83).
Add(t, at, next) ==
    /\ At(t, at)
    /\ count' = [count EXCEPT ![ptr[t]] = @ + 1]
    /\ Goto(t, next)
    /\ UNCHANGED <<contents, mapOf, live, pointers, ptr, key, jobVars, history>>

Remove(t, at, next) ==
    /\ At(t, at)
    /\ count' = [count EXCEPT ![ptr[t]] = @ - 1]
    /\ Goto(t, next)
    /\ UNCHANGED <<contents, mapOf, live, pointers, ptr, key, jobVars, history>>

\* Get tries the first map ...
Get(t) ==
    /\ At(t, "idle")
    /\ \E k \in Keys :
          /\ key' = [key EXCEPT ![t] = k]
          /\ owed' = [owed EXCEPT ![t] = k \in InMemory \ persisted]
    /\ Load(t, readerFirst, "add1")
    /\ UNCHANGED <<contents, mapOf, count, live, pointers, jobVars, persisted, written>>

\* ... keeps what it finds ...
Read(t, at, found, missed) ==
    /\ At(t, at)
    /\ Goto(t, IF key[t] \in Map(ptr[t]) THEN found ELSE missed)
    /\ UNCHANGED <<contents, mapOf, count, live, pointers, ptr, key, jobVars, history>>

\* Mutant: the second map is loaded from the pointer to the first.
LoadFirstAgain(t) ==
    /\ At(t, "load2")
    /\ Load(t, readerFirst, "add2")
    /\ UNCHANGED <<contents, mapOf, count, live, pointers, key, jobVars, history>>

\* ... and tries the second one otherwise.
LoadSecond(t) ==
    /\ At(t, "load2")
    /\ Load(t, readerSecond, "add2")
    /\ UNCHANGED <<contents, mapOf, count, live, pointers, key, jobVars, history>>

Answer(t) ==
    /\ At(t, "found") \/ At(t, "missed")
    /\ Goto(t, "idle")
    /\ owed' = [owed EXCEPT ![t] = FALSE]
    /\ UNCHANGED <<contents, mapOf, count, live, pointers, ptr, key, jobVars, persisted,
                   written>>

\* The outcome of the first read decides what its Remove leads to.
GetStep(t) ==
    \/ Add(t, "add1", "read1")
    \/ Read(t, "read1", "remove2", "remove1")
    \/ Remove(t, "remove1", "load2")
    \/ LoadSecond(t)
    \/ Add(t, "add2", "read2")
    \/ Read(t, "read2", "remove2", "missed2")
    \/ Remove(t, "remove2", "found")
    \/ Remove(t, "missed2", "missed")
    \/ Answer(t)

\* Insert and Remove.
Put(t) ==
    /\ At(t, "idle")
    /\ \E k \in Keys : key' = [key EXCEPT ![t] = k]
    /\ Load(t, writer, "add")
    /\ UNCHANGED <<contents, mapOf, count, live, pointers, jobVars, history>>

Write(t) ==
    /\ At(t, "write")
    /\ contents' = [contents EXCEPT ![mapOf[ptr[t]]] = @ \cup {key[t]}]
    /\ written' = written \cup {key[t]}
    /\ persisted' = persisted \ {key[t]}
    /\ Goto(t, "remove")
    /\ UNCHANGED <<mapOf, count, live, pointers, ptr, key, jobVars, owed>>

PutStep(t) == Add(t, "add", "write") \/ Write(t) \/ Remove(t, "remove", "idle")

-----------------------------------------------------------------------------
(* The job: Collect, the persistent table, RemoveCollected *)

JobAt(at) == ~Dangling /\ jobPc = at
threadVars == <<pc, ptr, key>>

\* Step 1: a new counter on the first map becomes the writer.
SwitchWriter ==
    /\ JobAt("off")
    /\ mapOf' = [mapOf EXCEPT ![NewCounter] = mapOf[readerFirst]]
    /\ live' = live \cup {NewCounter}
    /\ writer' = NewCounter /\ old' = writer
    /\ jobPc' = "waitwriter"
    /\ UNCHANGED <<contents, count, readerFirst, readerSecond, threadVars, data, history>>

\* Mutant: the old writer is deleted while threads are counted in.
DeleteOldWriterNow ==
    /\ JobAt("waitwriter")
    /\ live' = live \ {old}
    /\ jobPc' = "copy"
    /\ UNCHANGED <<contents, mapOf, count, pointers, threadVars, old, data, history>>

\* Mutant: the wait is for the counter that has just been put to use.
WaitForNewWriter ==
    /\ JobAt("waitwriter") /\ count[writer] = 0
    /\ live' = live \ {old}
    /\ jobPc' = "copy"
    /\ UNCHANGED <<contents, mapOf, count, pointers, threadVars, old, data, history>>

\* Step 2: the old writer is deleted, after a wait for its threads.
DeleteOldWriter ==
    /\ JobAt("waitwriter") /\ count[old] = 0
    /\ live' = live \ {old}
    /\ jobPc' = "copy"
    /\ UNCHANGED <<contents, mapOf, count, pointers, threadVars, old, data, history>>

\* Mutant: the map that stays is copied.
CopyFirst ==
    /\ JobAt("copy")
    /\ data' = Map(readerFirst)
    /\ jobPc' = "persist"
    /\ UNCHANGED <<contents, mapOf, count, live, pointers, threadVars, old, history>>

\* Step 3: the second map is copied.
CopySecond ==
    /\ JobAt("copy")
    /\ data' = Map(readerSecond)
    /\ jobPc' = "persist"
    /\ UNCHANGED <<contents, mapOf, count, live, pointers, threadVars, old, history>>

\* The controller adds the copy to the persistent storages (controller.cpp:53-63).
\* An entry that a newer write has replaced meanwhile is not the latest one.
Persist ==
    /\ JobAt("persist")
    /\ persisted' = persisted \cup (data \ Map(readerFirst))
    /\ owed' = [t \in Readers |-> owed[t] /\ key[t] \notin data]
    /\ jobPc' = "drop"
    /\ UNCHANGED <<contents, mapOf, count, live, pointers, threadVars, old, data, written>>

\* Mutant: the second map stays where it is while it is deleted.
KeepSecond ==
    /\ JobAt("drop")
    /\ old' = readerSecond
    /\ jobPc' = "waitreader"
    /\ UNCHANGED <<contents, mapOf, count, live, pointers, threadVars, data, history>>

\* Step 4: the first map becomes the second one, too, and the old one is deleted,
\* after a wait for its threads.
DropSecond ==
    /\ JobAt("drop")
    /\ readerSecond' = readerFirst /\ old' = readerSecond
    /\ jobPc' = "waitreader"
    /\ UNCHANGED <<contents, mapOf, count, live, readerFirst, writer, threadVars, data, history>>

DeleteOldReader ==
    /\ JobAt("waitreader") /\ count[old] = 0
    /\ live' = live \ {old}
    /\ contents' = [contents EXCEPT ![mapOf[old]] = {}]
    /\ jobPc' = "refill"
    /\ UNCHANGED <<mapOf, count, pointers, threadVars, old, data, history>>

\* Step 5: an empty map becomes the first.
RefillFirst ==
    /\ JobAt("refill")
    /\ mapOf' = [mapOf EXCEPT ![NewCounter] = NewMap]
    /\ live' = live \cup {NewCounter}
    /\ readerFirst' = NewCounter
    /\ jobPc' = "off" /\ data' = {}
    /\ UNCHANGED <<contents, count, readerSecond, writer, threadVars, old, history>>

JobStep ==
    \/ DeleteOldWriter \/ CopySecond \/ Persist \/ DropSecond \/ DeleteOldReader
    \/ RefillFirst

Stopped == Dangling /\ UNCHANGED vars

Next ==
    \/ \E t \in Readers : Get(t) \/ GetStep(t)
    \/ \E t \in Writers : Put(t) \/ PutStep(t)
    \/ SwitchWriter \/ JobStep
    \/ Stopped

Spec == Init /\ [][Next]_vars
-----------------------------------------------------------------------------
(* Properties *)

\* What is written to the persistent table is all that the map will ever hold:
\* the wait of step 2 leaves nobody who could still write it
\* (swappable_memory_storage.cpp:83-95).
CollectedIsFinal ==
    /\ jobPc \in {"persist", "drop"} => Map(readerSecond) = data
    /\ jobPc = "waitreader" => Map(old) = data

\* The latest entry of every key that was written is in one of the two maps that
\* are read or in a persistent table.
NoWriteLost == written \subseteq persisted \cup InMemory

\* A Get that goes on to the persistent tables had no entry to find in memory when
\* it was called, or that entry is in a persistent table by now: no order of its
\* two loads and the five steps of the swap makes it miss one.
GetMissesNothing == \A t \in Readers : pc[t] \in {"missed2", "missed"} => ~owed[t]

\* "Reference counter with spinlock wait implementation" (operations_guard.hpp:7,
\* 55): the wait is there so that nobody uses a counter that has been deleted.
\* Violated: the wait does not see a thread that has loaded the pointer and has
\* not counted itself in yet.
NoUseAfterFree == ~Dangling

\* Threads of the pool are scheduled by the system, and none of them sleeps while
\* it is counted in.
FairSpec ==
    /\ Spec
    /\ \A t \in Readers : WF_vars(GetStep(t))
    /\ \A t \in Writers : WF_vars(PutStep(t))
    /\ WF_vars(JobStep)

\* Both spin loops of the job end although threads keep coming: they come to
\* another counter (operations_guard.hpp:44-48, 87-91).
SpinsEnd ==
    jobPc \in {"waitwriter", "waitreader"} ~>
        (Dangling \/ jobPc \notin {"waitwriter", "waitreader"})
=============================================================================
