------------------------ MODULE SwappableStorageProofs ------------------------
(* Proofs about the reference counters, for any threads, keys and addresses. *)
EXTENDS SwappableStorage, FiniteSetTheorems, TLAPS

\* The threads that are counted in a counter, and those that it was loaded by.
Inside == {"read1", "remove1", "read2", "remove2", "missed2", "write", "remove"}
Holders(c) == {t \in Threads : pc[t] \in Inside /\ ptr[t] = c}

\* A counter counts its threads, and none of them is in one that has been deleted.
Counted ==
    /\ \A c \in Counters : count[c] = Cardinality(Holders(c))
    /\ \A t \in Threads : pc[t] \in Inside => ptr[t] \in live

\* What is in use at each step of the job, and which counters share a map.
Layout ==
    /\ writer \notin {readerFirst, readerSecond}
    /\ live = {readerFirst, readerSecond, writer}
              \cup (IF jobPc \in {"waitwriter", "waitreader"} THEN {old} ELSE {})
    /\ jobPc \in {"waitwriter", "waitreader"} => old \notin {readerFirst, readerSecond, writer}
    /\ mapOf[writer] = mapOf[IF jobPc = "off" THEN readerSecond ELSE readerFirst]
    /\ IF jobPc \in {"waitreader", "refill"} THEN readerSecond = readerFirst
       ELSE mapOf[readerFirst] # mapOf[readerSecond]
    /\ jobPc = "waitwriter" => mapOf[old] = mapOf[readerSecond]
    /\ jobPc = "waitreader" => mapOf[old] # mapOf[readerFirst]

\* Nobody writes by a counter that is not the writer, but for those that are waited for.
WritersKnown ==
    \A t \in Threads :
        pc[t] \in {"add", "write", "remove"} /\ ptr[t] \in live =>
            ptr[t] = writer \/ (jobPc = "waitwriter" /\ ptr[t] = old)

\* What is about to be dropped is in the persistent table or has been overwritten.
DroppedIsKept == jobPc = "drop" => data \subseteq persisted \cup Map(readerFirst)

\* Where a Get that is owed its key will find it.
FoundInFirst(t) ==
    pc[t] \in {"add1", "read1"} =>
        \/ ptr[t] = readerFirst /\ key[t] \in InMemory
        \/ ptr[t] = readerSecond /\ key[t] \in Map(readerSecond)
FoundInSecond(t) == pc[t] \in {"remove1", "load2"} => key[t] \in Map(readerSecond)
FoundInLoaded(t) ==
    pc[t] \in {"add2", "read2"} /\ ptr[t] \in live => key[t] \in Map(ptr[t])
FoundAfterDrop(t) ==
    jobPc = "drop" /\ pc[t] \in {"add1", "read1", "remove1", "load2"} =>
        /\ key[t] \in Map(readerFirst)
        /\ pc[t] \in {"add1", "read1"} => ptr[t] = readerFirst
OwedIsFound ==
    \A t \in Readers :
        owed[t] => FoundInFirst(t) /\ FoundInSecond(t) /\ FoundInLoaded(t) /\ FoundAfterDrop(t)

SwappableInv ==
    /\ TypeOK /\ Counted /\ Layout /\ WritersKnown /\ DroppedIsKept /\ OwedIsFound
    /\ CollectedIsFinal /\ NoWriteLost /\ GetMissesNothing

-----------------------------------------------------------------------------
(* Counting *)

LEMMA SubsetOfThreads ==
    ASSUME NEW S \in SUBSET Threads
    PROVE  IsFiniteSet(S) /\ Cardinality(S) \in Nat /\ Cardinality(S) \in 0..Cardinality(Threads)
<1>1. IsFiniteSet(Threads)
    BY ThreadsAssumption, FS_Union DEF Threads
<1>2. IsFiniteSet(S) /\ Cardinality(S) <= Cardinality(Threads)
    BY <1>1, FS_Subset
<1>3. Cardinality(S) \in Nat /\ Cardinality(Threads) \in Nat
    BY <1>1, <1>2, FS_CardinalityType
<1> QED BY <1>2, <1>3

LEMMA AddCounts ==
    ASSUME SwappableInv, NEW t \in Threads, NEW at \in {"add1", "add2", "add"},
           NEW next \in {"read1", "read2", "write"}, Add(t, at, next)
    PROVE  Counted' /\ count' \in [Counters -> 0..Cardinality(Threads)]
<1> USE DEF SwappableInv, Add, At, Goto
<1>1. ptr[t] \in live /\ ptr[t] \in Counters
    BY DEF TypeOK, Dangling
<1>2. \A u \in Threads : pc'[u] \in Inside => ptr'[u] \in live'
    BY <1>1 DEF TypeOK, Counted
<1>3. ASSUME NEW c \in Counters
      PROVE  Holders(c)' \in SUBSET Threads /\ count'[c] = Cardinality(Holders(c)')
    <2>1. Holders(c) \in SUBSET Threads /\ Holders(c)' \in SUBSET Threads
        BY DEF Holders
    <2>2. IsFiniteSet(Holders(c)) /\ Cardinality(Holders(c)) \in Nat
        BY <2>1, SubsetOfThreads
    <2>3. CASE c = ptr[t]
        <3>1. t \notin Holders(c) /\ Holders(c)' = Holders(c) \cup {t}
            BY <2>3 DEF TypeOK, Holders, Inside
        <3>2. Cardinality(Holders(c)') = Cardinality(Holders(c)) + 1
            BY <2>2, <3>1, FS_AddElement
        <3>3. count'[c] = count[c] + 1
            BY <2>3 DEF TypeOK
        <3> QED BY <2>1, <3>2, <3>3 DEF Counted
    <2>4. CASE c # ptr[t]
        <3>1. Holders(c)' = Holders(c) /\ count'[c] = count[c]
            BY <2>4 DEF TypeOK, Holders, Inside
        <3> QED BY <2>1, <3>1 DEF Counted
    <2> QED BY <2>3, <2>4
<1>4. count' \in [Counters -> 0..Cardinality(Threads)]
    <2>1. ASSUME NEW c \in Counters PROVE count'[c] \in 0..Cardinality(Threads)
        BY <1>3, SubsetOfThreads
    <2>2. count' = [c \in Counters |-> count'[c]]
        BY DEF TypeOK
    <2> QED BY <2>1, <2>2
<1> QED BY <1>2, <1>3, <1>4 DEF Counted

LEMMA RemoveCounts ==
    ASSUME SwappableInv, NEW t \in Threads,
           NEW at \in {"remove1", "remove2", "missed2", "remove"},
           NEW next \in {"load2", "found", "missed", "idle"}, Remove(t, at, next)
    PROVE  Counted' /\ count' \in [Counters -> 0..Cardinality(Threads)]
<1> USE DEF SwappableInv, Remove, At, Goto
<1>1. \A u \in Threads : pc'[u] \in Inside => ptr'[u] \in live'
    BY DEF TypeOK, Counted, Inside
<1>2. ASSUME NEW c \in Counters
      PROVE  Holders(c)' \in SUBSET Threads /\ count'[c] = Cardinality(Holders(c)')
    <2>1. Holders(c) \in SUBSET Threads /\ Holders(c)' \in SUBSET Threads
        BY DEF Holders
    <2>2. IsFiniteSet(Holders(c)) /\ Cardinality(Holders(c)) \in Nat
        BY <2>1, SubsetOfThreads
    <2>3. CASE c = ptr[t]
        <3>1. t \in Holders(c) /\ Holders(c)' = Holders(c) \ {t}
            BY <2>3 DEF TypeOK, Holders, Inside
        <3>2. Cardinality(Holders(c)') = Cardinality(Holders(c)) - 1
            BY <2>2, <3>1, FS_RemoveElement
        <3>3. count'[c] = count[c] - 1
            BY <2>3 DEF TypeOK
        <3> QED BY <2>1, <3>2, <3>3 DEF Counted
    <2>4. CASE c # ptr[t]
        <3>1. Holders(c)' = Holders(c) /\ count'[c] = count[c]
            BY <2>4 DEF TypeOK, Holders, Inside
        <3> QED BY <2>1, <3>1 DEF Counted
    <2> QED BY <2>3, <2>4
<1>3. count' \in [Counters -> 0..Cardinality(Threads)]
    <2>1. ASSUME NEW c \in Counters PROVE count'[c] \in 0..Cardinality(Threads)
        BY <1>2, SubsetOfThreads
    <2>2. count' = [c \in Counters |-> count'[c]]
        BY DEF TypeOK
    <2> QED BY <2>1, <2>2
<1> QED BY <1>1, <1>2, <1>3 DEF Counted

\* Other steps do not change who is counted in what.
LEMMA CountsStay ==
    ASSUME SwappableInv, UNCHANGED count,
           \A u \in Threads : /\ pc'[u] \in Inside <=> pc[u] \in Inside
                              /\ pc[u] \in Inside => ptr'[u] = ptr[u] /\ ptr[u] \in live'
    PROVE  Counted'
<1>1. \A u \in Threads : pc'[u] \in Inside => ptr'[u] \in live'
    OBVIOUS
<1>2. ASSUME NEW c \in Counters PROVE count'[c] = Cardinality(Holders(c)')
    <2>1. Holders(c)' = Holders(c)
        BY DEF Holders
    <2> QED BY <2>1 DEF SwappableInv, Counted
<1> QED BY <1>1, <1>2 DEF Counted

-----------------------------------------------------------------------------
(* Steps of the threads *)

LEMMA GetKeeps ==
    ASSUME SwappableInv, NEW t \in Readers, Get(t)
    PROVE  SwappableInv'
<1> USE DEF SwappableInv, Get, At, Goto, Load, pointers, jobVars
<1>1. t \in Threads
    BY DEF Threads
<1>2. TypeOK'
    BY <1>1 DEF TypeOK, ThreadPcs
<1>3. Counted'
    BY <1>1, CountsStay DEF TypeOK, Counted, Inside
<1>4. Layout' /\ WritersKnown' /\ DroppedIsKept'
    BY <1>1 DEF TypeOK, Layout, WritersKnown, DroppedIsKept, Map
<1>5. OwedIsFound'
    <2>1. ASSUME NEW u \in Readers, u # t, owed'[u]
          PROVE  (FoundInFirst(u) /\ FoundInSecond(u) /\ FoundInLoaded(u) /\ FoundAfterDrop(u))'
        BY <1>1, <2>1 DEF TypeOK, OwedIsFound, FoundInFirst, FoundInSecond, FoundInLoaded,
                          FoundAfterDrop, InMemory, Map
    <2>2. ASSUME owed'[t]
          PROVE  (FoundInFirst(t) /\ FoundInSecond(t) /\ FoundInLoaded(t) /\ FoundAfterDrop(t))'
        <3>1. key'[t] \in InMemory \ persisted /\ ptr'[t] = readerFirst /\ pc'[t] = "add1"
            BY <1>1, <2>2 DEF TypeOK
        <3>2. jobPc = "drop" => key'[t] \in Map(readerFirst)
            BY <3>1 DEF InMemory, DroppedIsKept, CollectedIsFinal
        <3> QED BY <3>1, <3>2 DEF FoundInFirst, FoundInSecond, FoundInLoaded, FoundAfterDrop,
                                  InMemory, Map
    <2> QED BY <2>1, <2>2 DEF OwedIsFound
<1>6. CollectedIsFinal' /\ NoWriteLost' /\ GetMissesNothing'
    BY <1>1 DEF TypeOK, CollectedIsFinal, NoWriteLost, GetMissesNothing, InMemory, Map
<1> QED BY <1>2, <1>3, <1>4, <1>5, <1>6

\* What a step of a thread that only goes on needs to show.
LEMMA GoingOnKeeps ==
    ASSUME SwappableInv, NEW t \in Threads, NEW next \in ThreadPcs, pc' = [pc EXCEPT ![t] = next],
           UNCHANGED <<contents, mapOf, live, pointers, key, jobVars, history>>,
           ptr' \in [Threads -> Counters], \A u \in Threads : u # t => ptr'[u] = ptr[u],
           Counted', count' \in [Counters -> 0..Cardinality(Threads)],
           next \in {"add", "write", "remove"} =>
               pc[t] \in {"add", "write", "remove"} /\ ptr'[t] = ptr[t],
           t \in Readers /\ owed[t] =>
               /\ (FoundInFirst(t) /\ FoundInSecond(t) /\ FoundInLoaded(t) /\ FoundAfterDrop(t))'
               /\ next \notin {"missed2", "missed"}
    PROVE  SwappableInv'
<1> USE DEF SwappableInv, pointers, jobVars, history
<1>1. TypeOK'
    BY DEF TypeOK
<1>2. Layout' /\ WritersKnown' /\ DroppedIsKept'
    BY DEF TypeOK, Layout, WritersKnown, DroppedIsKept, Map
<1>3. OwedIsFound'
    <2>1. ASSUME NEW u \in Readers, u # t, owed'[u]
          PROVE  (FoundInFirst(u) /\ FoundInSecond(u) /\ FoundInLoaded(u) /\ FoundAfterDrop(u))'
        <3>1. u \in Threads
            BY DEF Threads
        <3> QED BY <2>1, <3>1 DEF TypeOK, OwedIsFound, FoundInFirst, FoundInSecond, FoundInLoaded,
                                  FoundAfterDrop, InMemory, Map
    <2> QED BY <2>1 DEF OwedIsFound
<1>4. CollectedIsFinal' /\ NoWriteLost' /\ GetMissesNothing'
    BY DEF Threads, TypeOK, CollectedIsFinal, NoWriteLost, GetMissesNothing, InMemory, Map
<1> QED BY <1>1, <1>2, <1>3, <1>4

LEMMA AddKeeps ==
    ASSUME SwappableInv, NEW t \in Threads, NEW at, NEW next, Add(t, at, next),
           <<at, next>> \in {<<"add1", "read1">>, <<"add2", "read2">>, <<"add", "write">>}
    PROVE  SwappableInv'
<1>1. /\ at \in {"add1", "add2", "add"} /\ next \in {"read1", "read2", "write"}
      /\ next \in ThreadPcs
    BY DEF ThreadPcs
<1>2. Counted' /\ count' \in [Counters -> 0..Cardinality(Threads)]
    BY <1>1, AddCounts
<1>3. t \in Readers /\ owed[t] =>
          (FoundInFirst(t) /\ FoundInSecond(t) /\ FoundInLoaded(t) /\ FoundAfterDrop(t))'
    BY DEF Add, At, Goto, pointers, jobVars, history, SwappableInv, TypeOK, OwedIsFound,
           FoundInFirst, FoundInSecond, FoundInLoaded, FoundAfterDrop, InMemory, Map
<1> QED BY <1>1, <1>2, <1>3, GoingOnKeeps DEF Add, At, Goto, SwappableInv, TypeOK

LEMMA ReadKeeps ==
    ASSUME SwappableInv, NEW t \in Threads, NEW at, NEW found, NEW missed, Read(t, at, found, missed),
           <<at, found, missed>> \in {<<"read1", "remove2", "remove1">>,
                                      <<"read2", "remove2", "missed2">>}
    PROVE  SwappableInv'
<1> DEFINE next == IF key[t] \in Map(ptr[t]) THEN found ELSE missed
<1>1. next \in ThreadPcs /\ next \in Inside /\ pc[t] \in {"read1", "read2"} /\ pc' = [pc EXCEPT ![t] = next]
    BY DEF ThreadPcs, Inside, Read, At, Goto
<1>2. Counted'
    BY <1>1, CountsStay DEF Read, SwappableInv, TypeOK, Counted, Inside
<1>3. ASSUME t \in Readers, owed[t]
      PROVE  /\ (FoundInFirst(t) /\ FoundInSecond(t) /\ FoundInLoaded(t) /\ FoundAfterDrop(t))'
             /\ next \notin {"missed2", "missed"}
    <2>1. ptr[t] \in live
        BY <1>1 DEF SwappableInv, Counted, Inside
    <2>2. pc'[t] = next
        BY <1>1 DEF SwappableInv, TypeOK
    <2>3. CASE pc[t] = "read1"
        <3>1. next \in {"remove1", "remove2"} /\ (next = "remove1" => key[t] \notin Map(ptr[t]))
            BY <2>3 DEF Read, At
        <3>2. next = "remove1" => ptr[t] = readerFirst /\ key[t] \in Map(readerSecond)
            BY <1>3, <2>3, <3>1 DEF SwappableInv, OwedIsFound, FoundInFirst, InMemory
        <3>3. next = "remove1" => jobPc # "drop"
            BY <1>3, <2>3, <3>1, <3>2 DEF SwappableInv, OwedIsFound, FoundAfterDrop
        <3> QED BY <2>2, <3>1, <3>2, <3>3 DEF Read, pointers, jobVars, history, FoundInFirst,
                         FoundInSecond, FoundInLoaded, FoundAfterDrop, InMemory, Map
    <2>4. CASE pc[t] = "read2"
        <3>1. next = "remove2"
            BY <1>3, <2>1, <2>4 DEF Read, At, SwappableInv, OwedIsFound, FoundInLoaded
        <3> QED BY <2>2, <3>1 DEF FoundInFirst, FoundInSecond, FoundInLoaded, FoundAfterDrop
    <2> QED BY <1>1, <2>3, <2>4
<1>4. next \notin {"add", "write", "remove"}
    OBVIOUS
<1> HIDE DEF next
<1> QED BY <1>1, <1>2, <1>3, <1>4, GoingOnKeeps DEF Read, SwappableInv, TypeOK

LEMMA RemoveKeeps ==
    ASSUME SwappableInv, NEW t \in Threads, NEW at, NEW next, Remove(t, at, next),
           <<at, next>> \in {<<"remove1", "load2">>, <<"remove2", "found">>,
                            <<"missed2", "missed">>, <<"remove", "idle">>}
    PROVE  SwappableInv'
<1>1. /\ at \in {"remove1", "remove2", "missed2", "remove"}
      /\ next \in {"load2", "found", "missed", "idle"} /\ next \in ThreadPcs
    BY DEF ThreadPcs
<1>2. Counted' /\ count' \in [Counters -> 0..Cardinality(Threads)]
    BY <1>1, RemoveCounts
<1>3. t \in Readers /\ owed[t] =>
          /\ (FoundInFirst(t) /\ FoundInSecond(t) /\ FoundInLoaded(t) /\ FoundAfterDrop(t))'
          /\ next \notin {"missed2", "missed"}
    BY DEF Remove, At, Goto, pointers, jobVars, history, SwappableInv, TypeOK, OwedIsFound,
           FoundInFirst, FoundInSecond, FoundInLoaded, FoundAfterDrop, GetMissesNothing,
           InMemory, Map
<1> QED BY <1>1, <1>2, <1>3, GoingOnKeeps DEF Remove, At, Goto, SwappableInv, TypeOK

LEMMA LoadSecondKeeps ==
    ASSUME SwappableInv, NEW t \in Threads, LoadSecond(t)
    PROVE  SwappableInv'
<1> USE DEF LoadSecond, At, Goto, Load
<1>1. Counted'
    BY CountsStay DEF SwappableInv, TypeOK, Counted, Inside
<1>2. t \in Readers /\ owed[t] =>
          (FoundInFirst(t) /\ FoundInSecond(t) /\ FoundInLoaded(t) /\ FoundAfterDrop(t))'
    BY DEF pointers, jobVars, history, SwappableInv, TypeOK, OwedIsFound,
           FoundInFirst, FoundInSecond, FoundInLoaded, FoundAfterDrop, InMemory, Map
<1>3. ptr' \in [Threads -> Counters] /\ \A u \in Threads : u # t => ptr'[u] = ptr[u]
    BY DEF SwappableInv, TypeOK
<1> QED BY <1>1, <1>2, <1>3, GoingOnKeeps DEF SwappableInv, TypeOK, ThreadPcs

LEMMA AnswerKeeps ==
    ASSUME SwappableInv, NEW t \in Readers, Answer(t)
    PROVE  SwappableInv'
<1> USE DEF SwappableInv, Answer, At, Goto, pointers, jobVars
<1>1. t \in Threads
    BY DEF Threads
<1>2. TypeOK'
    BY <1>1 DEF TypeOK, ThreadPcs
<1>3. Counted'
    BY <1>1, CountsStay DEF TypeOK, Counted, Inside
<1>4. Layout' /\ WritersKnown' /\ DroppedIsKept'
    BY <1>1 DEF TypeOK, Layout, WritersKnown, DroppedIsKept, Map
<1>5. OwedIsFound'
    BY <1>1 DEF Threads, TypeOK, OwedIsFound, FoundInFirst, FoundInSecond, FoundInLoaded,
                FoundAfterDrop, InMemory, Map
<1>6. CollectedIsFinal' /\ NoWriteLost' /\ GetMissesNothing'
    BY <1>1 DEF Threads, TypeOK, CollectedIsFinal, NoWriteLost, GetMissesNothing, InMemory, Map
<1> QED BY <1>2, <1>3, <1>4, <1>5, <1>6

LEMMA PutKeeps ==
    ASSUME SwappableInv, NEW t \in Writers, Put(t)
    PROVE  SwappableInv'
<1> USE DEF SwappableInv, Put, At, Goto, Load, pointers, jobVars, history
<1>1. t \in Threads /\ t \notin Readers
    BY ThreadsAssumption DEF Threads
<1>2. TypeOK'
    BY <1>1 DEF TypeOK, ThreadPcs
<1>3. Counted'
    BY <1>1, CountsStay DEF TypeOK, Counted, Inside
<1>4. Layout' /\ WritersKnown' /\ DroppedIsKept'
    BY <1>1 DEF TypeOK, Layout, WritersKnown, DroppedIsKept, Map
<1>5. OwedIsFound'
    BY <1>1 DEF Threads, TypeOK, OwedIsFound, FoundInFirst, FoundInSecond, FoundInLoaded,
                FoundAfterDrop, InMemory, Map
<1>6. CollectedIsFinal' /\ NoWriteLost' /\ GetMissesNothing'
    BY <1>1 DEF Threads, TypeOK, CollectedIsFinal, NoWriteLost, GetMissesNothing, InMemory, Map
<1> QED BY <1>2, <1>3, <1>4, <1>5, <1>6

\* The map that a write reaches is read and is not being collected, unless its
\* thread is one that the job waits for.
LEMMA WriteKeeps ==
    ASSUME SwappableInv, NEW t \in Writers, Write(t)
    PROVE  SwappableInv'
<1> USE DEF SwappableInv, Write, At, Goto, pointers, jobVars
<1>1. t \in Threads /\ t \notin Readers
    BY ThreadsAssumption DEF Threads
<1>2. TypeOK'
    BY <1>1 DEF TypeOK, ThreadPcs
<1>3. Counted'
    BY <1>1, CountsStay DEF TypeOK, Counted, Inside
<1>4. /\ jobPc = "off" => mapOf[ptr[t]] = mapOf[readerSecond]
      /\ jobPc = "waitwriter" => mapOf[ptr[t]] \in {mapOf[readerFirst], mapOf[readerSecond]}
      /\ jobPc \notin {"off", "waitwriter"} => mapOf[ptr[t]] = mapOf[readerFirst]
    BY <1>1 DEF WritersKnown, Counted, Inside, Layout
<1>5. Layout' /\ WritersKnown'
    BY <1>1 DEF TypeOK, Layout, WritersKnown
<1>6. /\ \A m \in MemIds : contents'[m] = IF m = mapOf[ptr[t]] THEN contents[m] \cup {key[t]}
                                            ELSE contents[m]
      /\ \A c \in Counters : mapOf[c] \in MemIds
    BY DEF TypeOK
<1>7. \A c \in Counters : /\ Map(c) \subseteq Map(c)'
                          /\ mapOf[c] # mapOf[ptr[t]] => Map(c)' = Map(c)
                          /\ mapOf[c] = mapOf[ptr[t]] => key[t] \in Map(c)'
    BY <1>6 DEF Map
<1>8. {readerFirst, readerSecond, old} \subseteq Counters /\ ptr[t] \in Counters /\ key[t] \in Keys
    BY <1>1 DEF TypeOK
<1>9. DroppedIsKept'
    BY <1>4, <1>7, <1>8 DEF DroppedIsKept
<1>10. OwedIsFound'
    <2>1. ASSUME NEW u \in Readers, owed'[u]
          PROVE  (FoundInFirst(u) /\ FoundInSecond(u) /\ FoundInLoaded(u) /\ FoundAfterDrop(u))'
        <3>1. u # t /\ u \in Threads /\ pc'[u] = pc[u] /\ ptr[u] \in Counters
            BY <1>1, <2>1 DEF TypeOK, Threads
        <3>2. FoundInFirst(u) /\ FoundInSecond(u) /\ FoundInLoaded(u) /\ FoundAfterDrop(u)
            BY <2>1 DEF OwedIsFound
        <3> HIDE DEF SwappableInv
        <3> QED BY <1>7, <1>8, <3>1, <3>2 DEF FoundInFirst, FoundInSecond, FoundInLoaded,
                                              FoundAfterDrop, InMemory
    <2> QED BY <2>1 DEF OwedIsFound
<1>11. CollectedIsFinal'
    BY <1>4, <1>7, <1>8 DEF CollectedIsFinal, Layout
<1>12. NoWriteLost'
    <2>1. key[t] \in InMemory' /\ InMemory \subseteq InMemory'
        BY <1>4, <1>7, <1>8 DEF InMemory, TypeOK, JobPcs
    <2> QED BY <2>1 DEF NoWriteLost
<1>13. GetMissesNothing'
    BY <1>1 DEF Threads, TypeOK, GetMissesNothing
<1> QED BY <1>2, <1>3, <1>5, <1>9, <1>10, <1>11, <1>12, <1>13

-----------------------------------------------------------------------------
(* Steps of the job *)

\* A counter that is not in use.
LEMMA NewCounterIsFree ==
    ASSUME SwappableInv, jobPc \in {"off", "refill"}
    PROVE  NewCounter \in Counters /\ NewCounter \notin live
<1>1. \E d \in Counters : d \notin live
    BY AddressesAssumption DEF SwappableInv, TypeOK, Layout
<1> QED BY <1>1 DEF NewCounter

\* A map that is not in use.
LEMMA NewMapIsFree ==
    ASSUME SwappableInv, jobPc = "refill"
    PROVE  NewMap \in MemIds /\ \A c \in live : mapOf[c] # NewMap
<1>1. \A c \in live : mapOf[c] = mapOf[readerFirst]
    BY DEF SwappableInv, TypeOK, Layout
<1>2. \E m \in MemIds : \A c \in live : mapOf[c] # m
    BY <1>1, AddressesAssumption DEF SwappableInv, TypeOK
<1> QED BY <1>2 DEF NewMap

LEMMA SwitchWriterKeeps ==
    ASSUME SwappableInv, SwitchWriter
    PROVE  SwappableInv'
<1> USE DEF SwappableInv, SwitchWriter, JobAt, threadVars, history
<1>1. NewCounter \in Counters /\ NewCounter \notin live
    BY NewCounterIsFree
<1>2. TypeOK'
    BY <1>1 DEF TypeOK, JobPcs
<1>3. Counted'
    BY <1>1, CountsStay DEF Counted
<1>4. \A c \in live : mapOf'[c] = mapOf[c] /\ c \in Counters /\ Map(c)' = Map(c)
    BY <1>1 DEF TypeOK, Map
<1>5. mapOf'[NewCounter] = mapOf[readerFirst]
    BY <1>1 DEF TypeOK
<1>6. Layout'
    BY <1>1, <1>4, <1>5 DEF TypeOK, Layout
<1>7. WritersKnown'
    BY <1>1 DEF Dangling, Counted, Inside, WritersKnown
<1>8. DroppedIsKept' /\ CollectedIsFinal'
    BY DEF DroppedIsKept, CollectedIsFinal
<1>9. InMemory' = InMemory
    BY <1>4 DEF InMemory, TypeOK
<1>10. NoWriteLost' /\ GetMissesNothing'
    BY <1>9 DEF NoWriteLost, GetMissesNothing
<1>11. OwedIsFound'
    BY <1>1, <1>4, <1>9 DEF Dangling, Threads, TypeOK, Counted, Inside, OwedIsFound, FoundInFirst,
                            FoundInSecond, FoundInLoaded, FoundAfterDrop
<1> QED BY <1>2, <1>3, <1>6, <1>7, <1>8, <1>10, <1>11

\* Nobody is counted in the counter that is deleted.
LEMMA OldIsUnused ==
    ASSUME SwappableInv, count[old] = 0
    PROVE  \A t \in Threads : pc[t] \in Inside => ptr[t] # old
<1>1. old \in Counters /\ Holders(old) \in SUBSET Threads
    BY DEF SwappableInv, TypeOK, Holders
<1>2. Cardinality(Holders(old)) = 0
    BY <1>1 DEF SwappableInv, Counted
<1>3. Holders(old) = {}
    BY <1>1, <1>2, SubsetOfThreads, FS_EmptySet
<1> QED BY <1>3 DEF Holders

LEMMA DeleteOldWriterKeeps ==
    ASSUME SwappableInv, DeleteOldWriter
    PROVE  SwappableInv'
<1> USE DEF SwappableInv, DeleteOldWriter, JobAt, threadVars, history, pointers
<1>1. \A t \in Threads : pc[t] \in Inside => ptr[t] # old
    BY OldIsUnused
<1>2. old \notin {readerFirst, readerSecond, writer}
    BY DEF Layout
<1>3. TypeOK'
    BY <1>2 DEF TypeOK, JobPcs
<1>4. Counted'
    BY <1>1, CountsStay DEF Counted
<1>5. Layout'
    BY <1>2 DEF Layout
<1>6. WritersKnown'
    BY DEF WritersKnown
<1>7. DroppedIsKept' /\ CollectedIsFinal' /\ NoWriteLost' /\ GetMissesNothing'
    BY DEF DroppedIsKept, CollectedIsFinal, NoWriteLost, GetMissesNothing, InMemory, Map
<1>8. OwedIsFound'
    BY DEF OwedIsFound, FoundInFirst, FoundInSecond, FoundInLoaded, FoundAfterDrop, InMemory, Map
<1> QED BY <1>3, <1>4, <1>5, <1>6, <1>7, <1>8

LEMMA CopySecondKeeps ==
    ASSUME SwappableInv, CopySecond
    PROVE  SwappableInv'
<1> USE DEF SwappableInv, CopySecond, JobAt, threadVars, history, pointers
<1>1. TypeOK'
    BY DEF TypeOK, JobPcs, Map
<1>2. Counted'
    BY CountsStay DEF Counted
<1>3. Layout' /\ WritersKnown'
    BY DEF Layout, WritersKnown
<1>4. DroppedIsKept' /\ CollectedIsFinal' /\ NoWriteLost' /\ GetMissesNothing'
    BY DEF DroppedIsKept, CollectedIsFinal, NoWriteLost, GetMissesNothing, InMemory, Map
<1>5. OwedIsFound'
    BY DEF OwedIsFound, FoundInFirst, FoundInSecond, FoundInLoaded, FoundAfterDrop, InMemory, Map
<1> QED BY <1>1, <1>2, <1>3, <1>4, <1>5

\* What a Get is still owed is not in the map that is about to be dropped.
LEMMA PersistKeeps ==
    ASSUME SwappableInv, Persist
    PROVE  SwappableInv'
<1> USE DEF SwappableInv, Persist, JobAt, threadVars, pointers
<1>1. TypeOK'
    BY DEF TypeOK, JobPcs, Map
<1>2. Counted'
    BY CountsStay DEF Counted
<1>3. Layout' /\ WritersKnown'
    BY DEF Layout, WritersKnown
<1>4. DroppedIsKept' /\ CollectedIsFinal' /\ NoWriteLost' /\ GetMissesNothing'
    BY DEF DroppedIsKept, CollectedIsFinal, NoWriteLost, GetMissesNothing, InMemory, Map
<1>5. ASSUME NEW t \in Readers, owed'[t]
      PROVE  (FoundInFirst(t) /\ FoundInSecond(t) /\ FoundInLoaded(t) /\ FoundAfterDrop(t))'
    <2>1. owed[t] /\ key[t] \notin Map(readerSecond)
        BY <1>5 DEF CollectedIsFinal
    <2>2. FoundInFirst(t) /\ FoundInSecond(t) /\ FoundInLoaded(t)
        BY <2>1 DEF OwedIsFound
    <2> QED BY <2>1, <2>2 DEF FoundInFirst, FoundInSecond, FoundInLoaded, FoundAfterDrop,
                              InMemory, Map
<1>6. OwedIsFound'
    BY <1>5 DEF OwedIsFound
<1> QED BY <1>1, <1>2, <1>3, <1>4, <1>6

LEMMA DropSecondKeeps ==
    ASSUME SwappableInv, DropSecond
    PROVE  SwappableInv'
<1> USE DEF SwappableInv, DropSecond, JobAt, threadVars, history
<1>1. TypeOK'
    BY DEF TypeOK, JobPcs
<1>2. Counted'
    BY CountsStay DEF Counted
<1>3. Layout'
    BY DEF Layout
<1>4. WritersKnown'
    BY DEF WritersKnown
<1>5. DroppedIsKept' /\ CollectedIsFinal' /\ GetMissesNothing'
    BY DEF DroppedIsKept, CollectedIsFinal, GetMissesNothing, Map
<1>6. NoWriteLost'
    BY DEF NoWriteLost, DroppedIsKept, CollectedIsFinal, InMemory, Map
<1>7. OwedIsFound'
    BY DEF OwedIsFound, FoundInFirst, FoundInSecond, FoundInLoaded, FoundAfterDrop, InMemory, Map
<1> QED BY <1>1, <1>2, <1>3, <1>4, <1>5, <1>6, <1>7

\* The map that is emptied is no longer read.
LEMMA DeleteOldReaderKeeps ==
    ASSUME SwappableInv, DeleteOldReader
    PROVE  SwappableInv'
<1> USE DEF SwappableInv, DeleteOldReader, JobAt, threadVars, history, pointers
<1>1. \A t \in Threads : pc[t] \in Inside => ptr[t] # old
    BY OldIsUnused
<1>2. old \notin {readerFirst, readerSecond, writer} /\ readerSecond = readerFirst
    BY DEF Layout
<1>3. TypeOK'
    BY <1>2 DEF TypeOK, JobPcs
<1>4. Counted'
    BY <1>1, CountsStay DEF Counted
<1>5. Layout' /\ WritersKnown'
    BY <1>2 DEF Layout, WritersKnown
<1>6. \A c \in live' : c \in Counters /\ mapOf[c] = mapOf[readerFirst] /\ Map(c)' = Map(c)
    <2>1. \A c \in live' : c \in Counters /\ mapOf[c] = mapOf[readerFirst]
        BY <1>3, <1>5 DEF TypeOK, Layout
    <2> QED BY <2>1 DEF TypeOK, Layout, Map
<1>7. InMemory' = InMemory /\ Map(readerFirst)' = Map(readerFirst)
      /\ Map(readerSecond)' = Map(readerSecond)
    BY <1>2, <1>6 DEF TypeOK, InMemory
<1>8. DroppedIsKept' /\ CollectedIsFinal' /\ NoWriteLost' /\ GetMissesNothing'
    BY <1>7 DEF DroppedIsKept, CollectedIsFinal, NoWriteLost, GetMissesNothing
<1>9. OwedIsFound'
    BY <1>6, <1>7 DEF OwedIsFound, FoundInFirst, FoundInSecond, FoundInLoaded, FoundAfterDrop
<1> QED BY <1>3, <1>4, <1>5, <1>8, <1>9

LEMMA RefillFirstKeeps ==
    ASSUME SwappableInv, RefillFirst
    PROVE  SwappableInv'
<1> USE DEF SwappableInv, RefillFirst, JobAt, threadVars, history
<1>1. NewCounter \in Counters /\ NewCounter \notin live
    BY NewCounterIsFree
<1>2. NewMap \in MemIds /\ \A c \in live : mapOf[c] # NewMap
    BY NewMapIsFree
<1>3. TypeOK'
    BY <1>1, <1>2 DEF TypeOK, JobPcs
<1>4. Counted'
    BY <1>1, CountsStay DEF Counted
<1>5. \A c \in live : mapOf'[c] = mapOf[c] /\ c \in Counters /\ Map(c)' = Map(c)
    BY <1>1 DEF TypeOK, Map
<1>6. mapOf'[NewCounter] = NewMap
    BY <1>1, <1>2 DEF TypeOK
<1>7. readerSecond = readerFirst /\ live = {readerFirst, writer}
    BY DEF Layout
<1>8. Layout'
    BY <1>1, <1>2, <1>5, <1>6, <1>7 DEF TypeOK, Layout
<1>9. WritersKnown'
    BY <1>1 DEF Dangling, Counted, Inside, WritersKnown
<1>10. DroppedIsKept' /\ CollectedIsFinal' /\ GetMissesNothing'
    BY DEF DroppedIsKept, CollectedIsFinal, GetMissesNothing
<1>11. InMemory \subseteq InMemory' /\ Map(readerSecond)' = Map(readerFirst)
    BY <1>5, <1>7 DEF InMemory
<1>12. NoWriteLost'
    BY <1>11 DEF NoWriteLost
<1>13. ASSUME NEW t \in Readers, owed'[t]
       PROVE  (FoundInFirst(t) /\ FoundInSecond(t) /\ FoundInLoaded(t) /\ FoundAfterDrop(t))'
    <2>1. t \in Threads /\ FoundInFirst(t) /\ FoundInSecond(t) /\ FoundInLoaded(t)
        BY <1>13 DEF OwedIsFound, Threads
    <2>2. FoundInFirst(t)' /\ FoundInSecond(t)'
        BY <1>7, <1>11, <2>1 DEF FoundInFirst, FoundInSecond, InMemory
    <2>3. FoundInLoaded(t)'
        BY <1>1, <1>5, <2>1 DEF Dangling, Counted, Inside, FoundInLoaded
    <2> QED BY <2>2, <2>3 DEF FoundAfterDrop
<1>14. OwedIsFound'
    BY <1>13 DEF OwedIsFound
<1> QED BY <1>3, <1>4, <1>8, <1>9, <1>10, <1>12, <1>14

-----------------------------------------------------------------------------
(* The invariant *)

LEMMA InitHolds == Init => SwappableInv
<1> SUFFICES ASSUME Init PROVE SwappableInv
    OBVIOUS
<1> USE DEF Init
<1>1. readerFirst \in Counters
    BY AddressesAssumption
<1>2. readerSecond \in Counters /\ readerSecond # readerFirst
    BY <1>1, AddressesAssumption
<1>3. writer \in Counters /\ writer \notin {readerFirst, readerSecond}
    BY <1>1, <1>2, AddressesAssumption
<1>4. /\ mapOf \in [Counters -> MemIds]
      /\ mapOf[readerFirst] # mapOf[readerSecond] /\ mapOf[writer] = mapOf[readerSecond]
    <2> DEFINE m1 == CHOOSE m \in MemIds : TRUE
               m2 == CHOOSE m \in MemIds : m # m1
    <2>1. m1 \in MemIds
        BY AddressesAssumption
    <2>2. m2 \in MemIds /\ m2 # m1
        BY <2>1, AddressesAssumption
    <2>3. mapOf = [c \in Counters |-> IF c = readerFirst THEN m1 ELSE m2]
        OBVIOUS
    <2> HIDE DEF m1, m2
    <2> QED BY <1>1, <1>2, <1>3, <2>1, <2>2, <2>3
<1>5. \A c \in Counters : Holders(c) = {} /\ count[c] = 0
    BY DEF Holders, Inside
<1>6. Cardinality({}) = 0 /\ 0 \in 0..Cardinality(Threads)
    <2>1. {} \in SUBSET Threads
        OBVIOUS
    <2> QED BY <2>1, SubsetOfThreads, FS_EmptySet
<1>7. count \in [Counters -> 0..Cardinality(Threads)]
    BY <1>6
<1>8. (CHOOSE k \in Keys : TRUE) \in Keys
    BY KeysAssumption
<1>9. TypeOK
    BY <1>1, <1>2, <1>3, <1>4, <1>7, <1>8 DEF TypeOK, ThreadPcs, JobPcs
<1>10. Counted
    BY <1>5, <1>6 DEF Counted, Inside
<1>11. Layout
    BY <1>1, <1>2, <1>3, <1>4 DEF Layout
<1>12. WritersKnown /\ DroppedIsKept /\ OwedIsFound
    BY DEF WritersKnown, DroppedIsKept, OwedIsFound
<1>13. CollectedIsFinal /\ NoWriteLost /\ GetMissesNothing
    BY DEF CollectedIsFinal, NoWriteLost, GetMissesNothing
<1> QED BY <1>9, <1>10, <1>11, <1>12, <1>13 DEF SwappableInv

LEMMA StepKeeps == SwappableInv /\ [Next]_vars => SwappableInv'
<1> SUFFICES ASSUME SwappableInv, [Next]_vars PROVE SwappableInv'
    OBVIOUS
<1>1. ASSUME NEW t \in Readers, Get(t) \/ GetStep(t) PROVE SwappableInv'
    <2>1. t \in Threads
        BY DEF Threads
    <2> QED BY <1>1, <2>1, GetKeeps, AddKeeps, ReadKeeps, RemoveKeeps, LoadSecondKeeps,
               AnswerKeeps DEF GetStep
<1>2. ASSUME NEW t \in Writers, Put(t) \/ PutStep(t) PROVE SwappableInv'
    <2>1. t \in Threads
        BY DEF Threads
    <2> QED BY <1>2, <2>1, PutKeeps, AddKeeps, WriteKeeps, RemoveKeeps DEF PutStep
<1>3. CASE SwitchWriter \/ JobStep
    BY <1>3, SwitchWriterKeeps, DeleteOldWriterKeeps, CopySecondKeeps, PersistKeeps,
       DropSecondKeeps, DeleteOldReaderKeeps, RefillFirstKeeps DEF JobStep
<1>4. CASE UNCHANGED vars
    <2>1. Counted'
        BY <1>4, CountsStay DEF vars, SwappableInv, Counted
    <2>2. TypeOK' /\ Layout' /\ WritersKnown' /\ DroppedIsKept'
        BY <1>4 DEF vars, pointers, jobVars, SwappableInv, TypeOK, Layout, WritersKnown,
                    DroppedIsKept, Map
    <2>3. OwedIsFound'
        BY <1>4 DEF vars, pointers, jobVars, SwappableInv, OwedIsFound, FoundInFirst,
                    FoundInSecond, FoundInLoaded, FoundAfterDrop, InMemory, Map
    <2>4. CollectedIsFinal' /\ NoWriteLost' /\ GetMissesNothing'
        BY <1>4 DEF vars, pointers, jobVars, SwappableInv, CollectedIsFinal, NoWriteLost,
                    GetMissesNothing, InMemory, Map
    <2> QED BY <2>1, <2>2, <2>3, <2>4 DEF SwappableInv
<1> QED BY <1>1, <1>2, <1>3, <1>4 DEF Next, Stopped

\* Up to the first use of a counter that has been deleted, the counters count exactly
\* their threads, the job waits for the right ones, and a Get finds what it is owed
\* where it has still to look (swappable_memory_storage.cpp:38-122).
THEOREM CountersAreSound == Spec => []SwappableInv
BY InitHolds, StepKeeps, PTL DEF Spec

\* Counts are never negative and never exceed the number of threads.
THEOREM SwappableTypeCorrect == Spec => []TypeOK
BY CountersAreSound, PTL DEF SwappableInv

\* What is written to the persistent table is all that the map will ever hold.
THEOREM CollectedStaysFinal == Spec => []CollectedIsFinal
BY CountersAreSound, PTL DEF SwappableInv

\* The latest entry of every key is in one of the maps or in a persistent table.
THEOREM WritesAreKept == Spec => []NoWriteLost
BY CountersAreSound, PTL DEF SwappableInv

\* No order of the loads of a Get and the steps of the swap makes it miss an entry.
THEOREM GetsMissNothing == Spec => []GetMissesNothing
BY CountersAreSound, PTL DEF SwappableInv
=============================================================================
