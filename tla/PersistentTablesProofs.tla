------------------------ MODULE PersistentTablesProofs ------------------------
(***************************************************************************)
(* Proofs about PersistentTables, for any number of tables, keys and         *)
(* entries: as long as the searches and the merge do not move each other's    *)
(* positions, a search finds the newest entry of its key, the merge keeps     *)
(* the newest entry of every key, and neither reads beyond the end of a file. *)
(***************************************************************************)
EXTENDS PersistentTables, FiniteSetTheorems, SequenceTheorems, TLAPS

-----------------------------------------------------------------------------
(* Why: the inductive invariant *)

\* A probe is within its table, and what is on top of the queue has not been merged.
TypeInv ==
    /\ TypeOK
    /\ position \in [Tables -> Nat] /\ cursors \in [Tables -> Nat]
    /\ getPc = "read" => Probe < End(table)
    /\ mergePc \in {"read", "readtop"} => current \in Live

\* The newer tables do not have the key, and the part of this one that is left to be
\* searched is where it would be.
SearchInv ==
    getPc \in {"seek", "read"} =>
        /\ answer = NotFound
        /\ \A t \in Tables : t > table => \A i \in DOMAIN tables[t] : tables[t][i] # key
        /\ \A i \in DOMAIN tables[table] : i < lo => tables[table][i] < key
        /\ \A i \in DOMAIN tables[table] : lo + count <= i => key <= tables[table][i]

\* What the cursors have passed is merged: all that is left has larger keys, or the
\* same key as the last entry that was merged.
Passed(k) == \E t \in Tables : \E i \in DOMAIN tables[t] : i < cursors[t] /\ tables[t][i] = k

PassedFirst ==
    \A k \in Keys : Passed(k) =>
        \A t \in Tables : \A i \in DOMAIN tables[t] : cursors[t] <= i => k <= tables[t][i]

DataIsNewest ==
    /\ \A i, j \in DOMAIN data : i < j => data[i].key < data[j].key
    /\ \A i \in DOMAIN data : Passed(data[i].key) /\ data[i] = Newest(data[i].key)
    /\ \A k \in Keys : Passed(k) => \E i \in DOMAIN data : data[i].key = k

\* The queue has compared what is at the cursors.
QueueInv ==
    /\ \A t \in Tables : fronts[t] # Unread => t \in Live /\ fronts[t] = EntryAt(t, cursors[t])
    /\ mergePc = "readtop" => ToCompare = {} /\ Top(current)
    /\ mergePc = "done" => Live = {}
    /\ mergePc # "failed"

MergeInv == PassedFirst /\ DataIsNewest /\ QueueInv

TablesInv ==
    /\ TypeInv
    /\ ~disturbed => SearchInv /\ MergeInv /\ getPc # "thrown"
    /\ GetFindsNewest

-----------------------------------------------------------------------------
(* Sorting *)

\* The elements before each element of S, in an order where every two are ordered.
Orders(S, before) ==
    /\ before \in [S -> SUBSET S]
    /\ \A x \in S : x \notin before[x]
    /\ \A x, y \in S : x # y => \/ x \in before[y] /\ before[x] \subseteq before[y]
                                \/ y \in before[x] /\ before[y] \subseteq before[x]

\* In a finite set that is ordered, one element has n - 1 others before it.
LEMMA RankExists ==
    ASSUME NEW S, IsFiniteSet(S), NEW before, Orders(S, before), NEW n \in 1..Cardinality(S)
    PROVE  \E x \in S : Cardinality(before[x]) = n - 1
<1> USE DEF Orders
<1> DEFINE N == Cardinality(S)
           rank == [x \in S |-> Cardinality(before[x]) + 1]
<1>1. N \in Nat /\ IsFiniteSet(1..N) /\ Cardinality(1..N) = N
    <2>1. N \in Nat
        BY FS_CardinalityType
    <2> QED
        BY <2>1, FS_Interval
<1>2. \A x \in S : IsFiniteSet(before[x]) /\ Cardinality(before[x]) \in Nat
    <2>1. ASSUME NEW x \in S PROVE IsFiniteSet(before[x]) /\ Cardinality(before[x]) \in Nat
        <3>1. before[x] \in SUBSET S
            OBVIOUS
        <3>2. IsFiniteSet(before[x])
            BY <3>1, FS_Subset
        <3> QED
            BY <3>2, FS_CardinalityType
    <2> QED
        BY <2>1
<1>3. ASSUME NEW A, NEW B, IsFiniteSet(B), A \subseteq B, NEW y \in B, y \notin A
      PROVE  Cardinality(A) < Cardinality(B)
    <2>1. A \in SUBSET B /\ A # B
        BY <1>3
    <2>2. Cardinality(A) <= Cardinality(B) /\ Cardinality(A) # Cardinality(B) /\ IsFiniteSet(A)
        BY <1>3, <2>1, FS_Subset
    <2>3. Cardinality(A) \in Nat /\ Cardinality(B) \in Nat
        BY <1>3, <2>2, FS_CardinalityType
    <2> QED
        BY <2>2, <2>3
<1>4. \A x \in S : Cardinality(before[x]) < N
    <2>1. ASSUME NEW x \in S PROVE Cardinality(before[x]) < N
        <3>1. before[x] \subseteq S /\ x \notin before[x]
            OBVIOUS
        <3> QED
            BY <1>3, <3>1
    <2> QED
        BY <2>1
<1>5. rank \in [S -> 1..N]
    BY <1>1, <1>2, <1>4
<1>6. ASSUME NEW x \in S, NEW y \in S, x # y PROVE rank[x] # rank[y]
    <2>1. CASE x \in before[y] /\ before[x] \subseteq before[y]
        <3>1. Cardinality(before[x]) < Cardinality(before[y])
            BY <1>2, <1>3, <2>1
        <3> QED
            BY <1>2, <3>1
    <2>2. CASE y \in before[x] /\ before[y] \subseteq before[x]
        <3>1. Cardinality(before[y]) < Cardinality(before[x])
            BY <1>2, <1>3, <2>2
        <3> QED
            BY <1>2, <3>1
    <2> QED
        BY <1>6, <2>1, <2>2
<1>7. rank \in Injection(S, 1..N)
    BY <1>5, <1>6 DEF Injection, IsInjective
<1>8. rank \in Surjection(S, 1..N)
    BY <1>1, <1>7, FS_Injection
<1>9. PICK x \in S : rank[x] = n
    BY <1>8 DEF Surjection
<1> QED
    BY <1>2, <1>9

LEMMA CountUpTo ==
    ASSUME NEW n \in Nat
    PROVE  IsFiniteSet(1..n) /\ Cardinality(1..n) = n
BY FS_Interval

\* What is sorted already stays as it is.
LEMMA SortedStays ==
    ASSUME NEW entries \in Seq(Entry),
           \A i, j \in DOMAIN entries : i < j => entries[i].key < entries[j].key
    PROVE  Sorted(entries) = entries
<1>1. /\ Len(entries) \in Nat /\ DOMAIN entries = 1..Len(entries)
      /\ entries \in [1..Len(entries) -> Entry]
    BY LenProperties
<1>2. \A i \in DOMAIN entries : entries[i].key \in Nat
    <2>1. \A e \in Entry : e.key \in Nat
        BY KeysAssumption DEF Entry
    <2> QED
        BY <1>1, <2>1
<1>3. ASSUME NEW i \in DOMAIN entries PROVE Cardinality(Before(entries, i)) = i - 1
    <2>1. \A j \in DOMAIN entries : j < i \/ j = i \/ i < j
        BY <1>1
    <2>2. Before(entries, i) = 1..(i - 1)
        BY <1>1, <1>2, <2>1 DEF Before
    <2>3. i \in Nat /\ 1 <= i
        BY <1>1
    <2> QED
        BY <2>2, <2>3, FS_Interval
<1>4. ASSUME NEW n \in DOMAIN entries
      PROVE  (CHOOSE i \in DOMAIN entries : Cardinality(Before(entries, i)) = n - 1) = n
    BY <1>1, <1>3
<1>5. Sorted(entries) = [n \in DOMAIN entries |-> entries[n]]
    <2> DEFINE At(n) == CHOOSE i \in DOMAIN entries : Cardinality(Before(entries, i)) = n - 1
    <2>1. Sorted(entries) = [n \in DOMAIN entries |-> entries[At(n)]]
        BY DEF Sorted
    <2>2. \A n \in DOMAIN entries : At(n) = n
        BY <1>4
    <2> HIDE DEF At
    <2> QED
        BY <2>1, <2>2
<1> QED
    BY <1>1, <1>5, LenProperties

LEMMA SortedType ==
    ASSUME NEW entries \in Seq(Entry)
    PROVE  Sorted(entries) \in Seq(Entry)
<1> DEFINE D == DOMAIN entries
           before == [i \in D |-> Before(entries, i)]
<1>1. Len(entries) \in Nat /\ D = 1..Len(entries) /\ entries \in [D -> Entry]
    BY LenProperties
<1>2. IsFiniteSet(D) /\ Cardinality(D) = Len(entries)
    <2>1. IsFiniteSet(1..Len(entries)) /\ Cardinality(1..Len(entries)) = Len(entries)
        BY <1>1, CountUpTo
    <2> QED
        BY <1>1, <2>1
<1>3. \A i \in D : entries[i].key \in Nat /\ i \in Nat
    <2>1. \A e \in Entry : e.key \in Nat
        BY KeysAssumption DEF Entry
    <2> QED
        BY <1>1, <2>1
<1>4. before \in [D -> SUBSET D] /\ \A i \in D : i \notin before[i]
    BY <1>3 DEF Before
<1>5. ASSUME NEW i \in D, NEW j \in D, i # j
      PROVE  \/ i \in before[j] /\ before[i] \subseteq before[j]
             \/ j \in before[i] /\ before[j] \subseteq before[i]
    <2>1. CASE entries[i].key < entries[j].key \/ (entries[i].key = entries[j].key /\ i < j)
        BY <1>3, <2>1 DEF Before
    <2>2. CASE entries[j].key < entries[i].key \/ (entries[i].key = entries[j].key /\ j < i)
        BY <1>3, <2>2 DEF Before
    <2> QED
        BY <1>3, <1>5, <2>1, <2>2
<1>6. ASSUME NEW n \in D PROVE \E i \in D : Cardinality(before[i]) = n - 1
    <2>1. n \in 1..Cardinality(D) /\ IsFiniteSet(D)
        BY <1>1, <1>2
    <2>2. \A i, j \in D : i # j => \/ i \in before[j] /\ before[i] \subseteq before[j]
                                   \/ j \in before[i] /\ before[j] \subseteq before[i]
        BY <1>5
    <2> HIDE DEF before, D
    <2>3. Orders(D, before)
        BY <1>4, <2>2 DEF Orders
    <2> QED
        BY ONLY <2>1, <2>3, RankExists
<1> DEFINE At(n) == CHOOSE i \in D : Cardinality(Before(entries, i)) = n - 1
<1>7. \A n \in D : At(n) \in D
    BY <1>6
<1>8. Sorted(entries) \in [1..Len(entries) -> Entry]
    <2>1. Sorted(entries) = [n \in D |-> entries[At(n)]]
        BY DEF Sorted
    <2> HIDE DEF At
    <2> QED
        BY <1>1, <1>7, <2>1
<1> QED
    BY <1>1, <1>8, SeqDef

-----------------------------------------------------------------------------
(* Tables and entries *)

\* What is known of a table and of what a read of it gives.
LEMMA TableFacts ==
    ASSUME tables \in [Tables -> SortedTables], NEW t \in Tables
    PROVE  /\ Len(tables[t]) \in Nat /\ 1 <= Len(tables[t])
           /\ DOMAIN tables[t] = 1..Len(tables[t]) /\ End(t) = Len(tables[t]) + 1
           /\ \A i \in DOMAIN tables[t] : tables[t][i] \in Keys
           /\ \A i, j \in DOMAIN tables[t] : i < j => tables[t][i] < tables[t][j]
<1>1. Cardinality(Keys) \in Nat
    BY KeysAssumption, FS_CardinalityType
<1>2. tables[t] \in SortedTables
    OBVIOUS
<1>3. PICK size \in 1..Cardinality(Keys) : tables[t] \in [1..size -> Keys]
    BY <1>2 DEF SortedTables
<1>4. size \in Nat /\ 1 <= size /\ tables[t] \in Seq(Keys)
    BY <1>1, <1>3, SeqDef
<1>5. Len(tables[t]) = size
    BY <1>3, <1>4, LenProperties
<1>6. Ascending(tables[t])
    BY <1>2 DEF SortedTables
<1> QED
    BY <1>3, <1>4, <1>5, <1>6 DEF End, Ascending

LEMMA EntryAtIs ==
    ASSUME tables \in [Tables -> SortedTables], NEW t \in Tables, NEW i \in 1..End(t)
    PROVE  /\ EntryAt(t, i) \in Entry \cup {Error}
           /\ i < End(t) => /\ i \in DOMAIN tables[t] /\ EntryAt(t, i) # Error
                            /\ EntryAt(t, i) = [key |-> tables[t][i], table |-> t]
                            /\ EntryAt(t, i) \in Entry
                            /\ EntryAt(t, i).key = tables[t][i] /\ EntryAt(t, i).table = t
           /\ i = End(t) => EntryAt(t, i) = Error
<1>1. Error \notin Entry
    BY MarksAssumption DEF Entry
<1> QED
    BY <1>1, TableFacts DEF EntryAt, Entry

\* The newest entry of a key is that of the last table that has it.
LEMMA NewestIs ==
    ASSUME NEW k \in Keys, NEW t \in Holding(k), \A u \in Holding(k) : u <= t
    PROVE  Newest(k) = [key |-> k, table |-> t]
<1>1. Holding(k) \subseteq Nat
    BY KeysAssumption DEF Holding, Tables
<1>2. \A u \in Holding(k) : (\A v \in Holding(k) : v <= u) => u = t
    BY <1>1
<1>3. (CHOOSE u \in Holding(k) : \A v \in Holding(k) : v <= u) = t
    BY <1>2
<1> QED
    BY <1>3 DEF Newest

-----------------------------------------------------------------------------
(* Types *)

LEMMA Bounds ==
    ASSUME TypeInv, NEW t \in Tables
    PROVE  /\ End(t) \in Nat /\ 1 < End(t)
           /\ position[t] \in Nat /\ 1 <= position[t] /\ position[t] <= End(t)
           /\ cursors[t] \in Nat /\ 1 <= cursors[t] /\ cursors[t] <= End(t)
<1>1. tables \in [Tables -> SortedTables]
    BY DEF TypeInv, TypeOK
<1>2. End(t) \in Nat /\ 1 < End(t)
    BY <1>1, TableFacts
<1>3. position[t] \in 1..End(t) /\ cursors[t] \in 1..End(t)
    BY DEF TypeInv, TypeOK
<1> QED
    BY <1>2, <1>3

\* What is left to be searched lies in the table, and so does a probe of it.
LEMMA SearchBounds ==
    ASSUME TypeInv
    PROVE  /\ table \in Tables /\ End(table) \in Nat /\ 1 < End(table)
           /\ lo \in Nat /\ 1 <= lo /\ count \in Nat /\ lo + count <= End(table)
           /\ Probe \in Nat /\ 1 <= Probe /\ Probe <= End(table)
           /\ count \div 2 \in Nat /\ count = 0 => count \div 2 = 0
           /\ count > 0 => count \div 2 < count
<1>1. table \in Tables /\ lo \in 1..End(table) /\ count \in Nat /\ lo + count <= End(table)
    BY DEF TypeInv, TypeOK
<1>2. End(table) \in Nat /\ 1 < End(table)
    BY <1>1, Bounds
<1>3. count \div 2 \in Nat /\ count \div 2 <= count /\ (count > 0 => count \div 2 < count)
    BY <1>1
<1> QED
    BY <1>1, <1>2, <1>3 DEF Probe

LEMMA InitTypeInv == Init => TypeInv
<1> SUFFICES ASSUME Init PROVE TypeInv
    OBVIOUS
<1>1. tables \in [Tables -> SortedTables] /\ 1 \in Tables
    BY KeysAssumption DEF Init, Tables
<1>2. \A t \in Tables : End(t) \in Nat /\ 1 < End(t)
    BY <1>1, TableFacts
<1>3. key \in Keys
    <2>1. 1 \in DOMAIN tables[1] /\ tables[1][1] \in Keys
        BY <1>1, TableFacts
    <2> QED
        BY <2>1 DEF Init
<1>4. position \in [Tables -> Nat] /\ cursors \in [Tables -> Nat]
      /\ \A t \in Tables : position[t] \in 1..End(t) /\ cursors[t] \in 1..End(t)
    BY <1>2 DEF Init
<1>5. lo \in 1..End(table) /\ count \in Nat /\ lo + count <= End(table) /\ table \in Tables
    BY <1>1, <1>2 DEF Init
<1>6. fronts \in [Tables -> Entry \cup {Error, Unread}] /\ current \in Tables
      /\ data \in Seq(Entry)
    BY <1>1 DEF Init
<1>7. /\ mergePc = "compare" /\ getPc = "idle" /\ answer = NotFound /\ disturbed = FALSE
    BY DEF Init
<1> QED
    BY <1>1, <1>3, <1>4, <1>5, <1>6, <1>7 DEF TypeInv, TypeOK

\* A read moves a position to the end of its table, a seek to one in the table.
LEMMA SeekTypes ==
    ASSUME TypeInv, NEW t \in Tables, NEW i \in 1..End(t), Seek(t, i) \/ Read(t, i),
           tables' = tables
    PROVE  /\ position' \in [Tables -> Nat] /\ disturbed' \in BOOLEAN
           /\ \A u \in Tables : position'[u] \in 1..End(u)'
<1>1. position \in [Tables -> Nat] /\ disturbed \in BOOLEAN
    BY DEF TypeInv, TypeOK
<1>2. \A u \in Tables : /\ End(u) \in Nat /\ 1 < End(u) /\ End(u)' = End(u)
                        /\ position[u] \in 1..End(u)
    BY Bounds DEF End
<1>3. \E p \in 1..End(t) : position' = [position EXCEPT ![t] = p]
    BY <1>2 DEF Seek, Read
<1>4. disturbed' \in BOOLEAN
    BY <1>1 DEF Seek, Read
<1> QED
    BY <1>1, <1>2, <1>3, <1>4

LEMMA MergeTypes ==
    ASSUME TypeInv, MergeStep
    PROVE  TypeInv'
<1>1. /\ tables \in [Tables -> SortedTables] /\ cursors \in [Tables -> Nat]
      /\ fronts \in [Tables -> Entry \cup {Error, Unread}] /\ current \in Tables
      /\ data \in Seq(Entry)
    BY DEF TypeInv, TypeOK
<1>2. UNCHANGED <<tables, getPc, key, table, lo, count, answer>>
    BY DEF MergeStep, SeekFront, ReadFront, SeekTop, ReadTop, MergeAt, get
<1>3. \A t \in Tables : /\ End(t) \in Nat /\ End(t)' = End(t)
                        /\ cursors[t] \in 1..End(t) /\ position[t] \in 1..End(t)
    BY <1>2, Bounds DEF End
<1>4. /\ tables' \in [Tables -> SortedTables]
      /\ getPc' \in {"idle", "seek", "read", "answered", "thrown"}
      /\ key' \in Keys /\ table' \in Tables
      /\ lo' \in 1..End(table)' /\ count' \in Nat /\ lo' + count' <= End(table)'
      /\ answer' \in Entry \cup {NotFound}
      /\ (getPc = "read" => Probe < End(table))'
    BY <1>2 DEF TypeInv, TypeOK, End, Probe
<1>5. CASE SeekFront
    <2>1. PICK t \in ToCompare : current' = t /\ Seek(t, cursors[t])
        BY <1>5 DEF SeekFront
    <2>2. t \in Live /\ t \in Tables /\ Live' = Live
        BY <1>2, <1>5 DEF SeekFront, ToCompare, Compared, Live, End
    <2>3. /\ position' \in [Tables -> Nat] /\ disturbed' \in BOOLEAN
          /\ \A u \in Tables : position'[u] \in 1..End(u)'
        BY <1>2, <1>3, <2>1, <2>2, SeekTypes
    <2> QED
        BY <1>1, <1>3, <1>4, <1>5, <2>1, <2>2, <2>3 DEF TypeInv, TypeOK, SeekFront
<1>6. CASE ReadFront
    <2>1. Read(current, cursors[current])
        BY <1>6 DEF ReadFront
    <2>2. /\ position' \in [Tables -> Nat] /\ disturbed' \in BOOLEAN
          /\ \A u \in Tables : position'[u] \in 1..End(u)'
        BY <1>1, <1>2, <1>3, <2>1, SeekTypes
    <2>3. EntryAt(current, position[current]) \in Entry \cup {Error}
        BY <1>1, <1>3, EntryAtIs
    <2>4. fronts' \in [Tables -> Entry \cup {Error, Unread}]
        BY <1>1, <1>6, <2>3 DEF ReadFront
    <2> QED
        BY <1>1, <1>3, <1>4, <1>6, <2>2, <2>4 DEF TypeInv, TypeOK, ReadFront
<1>7. CASE SeekTop
    <2>1. PICK t \in Live : current' = t /\ Seek(t, cursors[t])
        BY <1>7 DEF SeekTop
    <2>2. t \in Tables /\ Live' = Live
        BY <1>2, <1>7 DEF SeekTop, Live, End
    <2>3. /\ position' \in [Tables -> Nat] /\ disturbed' \in BOOLEAN
          /\ \A u \in Tables : position'[u] \in 1..End(u)'
        BY <1>2, <1>3, <2>1, <2>2, SeekTypes
    <2> QED
        BY <1>1, <1>3, <1>4, <1>7, <2>1, <2>2, <2>3 DEF TypeInv, TypeOK, SeekTop
<1>8. CASE ReadTop
    <2> DEFINE entry == EntryAt(current, position[current])
    <2>1. Read(current, cursors[current]) /\ current' = current
        BY <1>8 DEF ReadTop
    <2>2. /\ position' \in [Tables -> Nat] /\ disturbed' \in BOOLEAN
          /\ \A u \in Tables : position'[u] \in 1..End(u)'
        BY <1>1, <1>2, <1>3, <2>1, SeekTypes
    <2>3. CASE entry = Error
        BY <1>1, <1>3, <1>4, <1>8, <2>1, <2>2, <2>3 DEF TypeInv, TypeOK, ReadTop
    <2>4. CASE entry # Error
        <3>1. entry \in Entry
            BY <1>1, <1>3, <2>4, EntryAtIs
        <3>2. Extended(entry) \in Seq(Entry)
            BY <1>1, <3>1 DEF Extended
        <3>3. data' \in Seq(Entry) /\ mergePc' \in {"compare", "done"}
            BY <1>8, <2>4, <3>2, SortedType DEF ReadTop
        <3>4. current \in Live
            BY <1>8 DEF TypeInv, ReadTop, MergeAt
        <3>5. cursors' = [cursors EXCEPT ![current] = @ + 1]
              /\ fronts' = [t \in Tables |-> Unread]
            BY <1>8, <2>4 DEF ReadTop, Advanced
        <3>6. cursors' \in [Tables -> Nat] /\ \A t \in Tables : cursors'[t] \in 1..End(t)'
            BY <1>1, <1>3, <3>4, <3>5 DEF Live
        <3> QED
            BY <1>1, <1>4, <2>1, <2>2, <3>3, <3>5, <3>6 DEF TypeInv, TypeOK
    <2> QED
        BY <2>3, <2>4
<1> QED
    BY <1>5, <1>6, <1>7, <1>8 DEF MergeStep

LEMMA GetTypes ==
    ASSUME TypeInv, Call \/ GetStep
    PROVE  TypeInv'
<1>1. /\ tables \in [Tables -> SortedTables] /\ position \in [Tables -> Nat]
      /\ key \in Keys /\ table \in Tables /\ answer \in Entry \cup {NotFound}
      /\ disturbed \in BOOLEAN /\ NumTables \in Tables
    BY KeysAssumption DEF TypeInv, TypeOK, Tables
<1>2. UNCHANGED <<tables, merge>>
    BY DEF GetStep, Call, SeekProbe, ReadProbe, Return, GetAt
<1>3. \A t \in Tables : End(t) \in Nat /\ 1 < End(t) /\ End(t)' = End(t) /\ Len(tables[t]) + 1 = End(t)
    BY <1>1, <1>2, Bounds DEF End
<1>4. /\ lo \in Nat /\ 1 <= lo /\ count \in Nat /\ lo + count <= End(table)
      /\ Probe \in Nat /\ 1 <= Probe /\ Probe <= End(table)
      /\ count \div 2 \in Nat /\ count = 0 => count \div 2 = 0
      /\ count > 0 => count \div 2 < count
    BY SearchBounds
<1>5. /\ tables' \in [Tables -> SortedTables]
      /\ cursors' \in [Tables -> Nat] /\ \A t \in Tables : cursors'[t] \in 1..End(t)'
      /\ mergePc' \in {"compare", "read", "top", "readtop", "done", "failed"}
      /\ fronts' \in [Tables -> Entry \cup {Error, Unread}]
      /\ current' \in Tables /\ data' \in Seq(Entry)
      /\ (mergePc \in {"read", "readtop"} => current \in Live)'
    BY <1>2, <1>3 DEF TypeInv, TypeOK, merge, Live, End
<1>6. position' \in [Tables -> Nat] /\ disturbed' \in BOOLEAN
      /\ \A t \in Tables : position'[t] \in 1..End(t)'
    <2>1. CASE position' = position /\ disturbed' = disturbed
        BY <1>1, <1>3, <2>1 DEF TypeInv, TypeOK
    <2>2. CASE Seek(table, Probe) \/ Read(table, Probe)
        BY <1>1, <1>2, <1>3, <1>4, <2>2, SeekTypes
    <2> QED
        BY <2>1, <2>2 DEF GetStep, Call, SeekProbe, ReadProbe, Return
<1>7. \A t \in Tables : StartIn(t) => table' = t /\ lo' = 1 /\ count' = End(t) - 1
    BY <1>3 DEF StartIn
<1>8. Miss => /\ getPc' \in {"seek", "answered"} /\ table' \in Tables
              /\ lo' \in 1..End(table)' /\ count' \in Nat /\ lo' + count' <= End(table)'
    <2>1. CASE table > 1 /\ StartIn(table - 1) /\ getPc' = "seek"
        <3>1. table - 1 \in Tables
            BY <1>1, <2>1, KeysAssumption DEF Tables
        <3> QED
            BY <1>2, <1>3, <1>7, <2>1, <3>1 DEF End
    <2>2. CASE getPc' = "answered" /\ UNCHANGED <<table, lo, count>>
        BY <1>1, <1>2, <1>3, <1>4, <2>2 DEF End
    <2> QED
        BY <2>1, <2>2 DEF Miss
<1>9. /\ getPc' \in {"idle", "seek", "read", "answered", "thrown"}
      /\ key' \in Keys /\ table' \in Tables
      /\ lo' \in 1..End(table)' /\ count' \in Nat /\ lo' + count' <= End(table)'
      /\ answer' \in Entry \cup {NotFound}
      /\ (getPc = "read" => Probe < End(table))'
    <2>1. CASE Call
        BY <1>1, <1>2, <1>3, <1>7, <2>1 DEF Call, End
    <2>2. CASE SeekProbe
        <3>1. key' = key /\ answer' = answer
            BY <2>2 DEF SeekProbe
        <3>2. CASE Probe < End(table) /\ getPc' = "read" /\ UNCHANGED <<table, lo, count>>
            BY <1>1, <1>2, <1>3, <1>4, <3>1, <3>2 DEF End, Probe
        <3>3. CASE Miss
            BY <1>1, <1>8, <3>1, <3>3
        <3> QED
            BY <2>2, <3>2, <3>3 DEF SeekProbe
    <2>3. CASE ReadProbe
        <3> DEFINE entry == EntryAt(table, position[table])
        <3>1. key' = key
            BY <2>3 DEF ReadProbe
        <3>2. CASE getPc' \in {"thrown", "answered"} /\ UNCHANGED <<table, lo, count, answer>>
            BY <1>1, <1>2, <1>3, <1>4, <3>1, <3>2 DEF End
        <3>3. CASE count > 0 /\ Narrow(entry) /\ getPc' = "seek" /\ UNCHANGED <<table, answer>>
            BY <1>1, <1>2, <1>3, <1>4, <3>1, <3>3 DEF Narrow, Probe, End
        <3>4. CASE /\ entry # Error /\ answer' = entry /\ getPc' = "answered"
                   /\ UNCHANGED <<table, lo, count>>
            <4>1. position[table] \in 1..End(table)
                BY <1>1 DEF TypeInv, TypeOK
            <4>2. entry \in Entry
                BY <1>1, <3>4, <4>1, EntryAtIs
            <4> QED
                BY <1>1, <1>2, <1>3, <1>4, <3>1, <3>4, <4>2 DEF End
        <3>5. CASE Miss /\ UNCHANGED answer
            BY <1>1, <1>8, <3>1, <3>5
        <3> QED
            BY <2>3, <3>2, <3>3, <3>4, <3>5 DEF ReadProbe
    <2>4. CASE Return
        BY <1>1, <1>2, <1>3, <1>4, <2>4 DEF Return, End
    <2> QED
        BY <2>1, <2>2, <2>3, <2>4 DEF GetStep
<1> QED
    BY <1>5, <1>6, <1>9 DEF TypeInv, TypeOK

-----------------------------------------------------------------------------
(* The searches *)

\* A read that nothing has disturbed is of the entry that was sought.
LEMMA ReadIsSought ==
    ASSUME TypeInv, NEW t, NEW i, Read(t, i), ~disturbed'
    PROVE  ~disturbed /\ position[t] = i
<1>1. disturbed' = (disturbed \/ position[t] # i)
    BY DEF Read
<1>2. disturbed \in BOOLEAN
    BY DEF TypeInv, TypeOK
<1> QED
    BY <1>1, <1>2

\* A table that does not have the key is left for the next older one.
LEMMA MissInv ==
    ASSUME TypeInv, SearchInv, getPc \in {"seek", "read"}, Miss,
           UNCHANGED <<tables, key, answer>>,
           \A i \in DOMAIN tables[table] : tables[table][i] # key
    PROVE  SearchInv' /\ GetFindsNewest' /\ getPc' # "thrown"
<1>1. /\ table \in Tables /\ tables \in [Tables -> SortedTables] /\ Tables \subseteq Nat
      /\ \A t \in Tables : 1 <= t /\ t <= NumTables
    BY KeysAssumption DEF TypeInv, TypeOK, Tables
<1>2. /\ answer = NotFound
      /\ \A t \in Tables : t > table => \A i \in DOMAIN tables[t] : tables[t][i] # key
    BY DEF SearchInv
<1>3. CASE table > 1 /\ StartIn(table - 1) /\ getPc' = "seek"
    <2>1. table - 1 \in Tables
        BY <1>1, <1>3, KeysAssumption DEF Tables
    <2>2. /\ table' = table - 1 /\ lo' = 1 /\ count' = Len(tables[table - 1])
          /\ DOMAIN tables[table - 1] = 1..Len(tables[table - 1])
          /\ Len(tables[table - 1]) \in Nat
        BY <1>1, <1>3, <2>1, TableFacts DEF StartIn
    <2>3. \A t \in Tables : t > table' => \A i \in DOMAIN tables[t] : tables[t][i] # key
        <3>1. \A t \in Tables : t > table' => t > table \/ t = table
            BY <1>1, <2>2
        <3> QED
            BY <1>2, <3>1
    <2>4. SearchInv'
        BY <1>2, <2>2, <2>3 DEF SearchInv
    <2> QED
        BY <1>3, <2>4 DEF GetFindsNewest
<1>4. CASE table = 1 /\ getPc' = "answered"
    <2>1. Holding(key) = {}
        <3>1. \A t \in Tables : t > table \/ t = table
            BY <1>1, <1>4
        <3> QED
            BY <1>2, <3>1 DEF Holding
    <2>2. AnsweredRight'
        BY <1>2, <2>1 DEF AnsweredRight, Holding
    <2> QED
        BY <1>4, <2>2 DEF SearchInv, GetFindsNewest
<1> QED
    BY <1>3, <1>4 DEF Miss

LEMMA GetInv ==
    ASSUME TypeInv, SearchInv, getPc # "thrown", GetFindsNewest, ~disturbed, ~disturbed',
           Call \/ GetStep
    PROVE  SearchInv' /\ GetFindsNewest' /\ getPc' # "thrown"
<1>1. /\ tables \in [Tables -> SortedTables] /\ NumTables \in Tables
      /\ key \in Keys /\ Keys \subseteq Nat /\ Tables \subseteq Nat
      /\ \A t \in Tables : t <= NumTables
    BY KeysAssumption DEF TypeInv, TypeOK, Tables
<1>2. tables' = tables
    BY DEF GetStep, Call, SeekProbe, ReadProbe, Return, GetAt
<1>3. /\ table \in Tables /\ End(table) \in Nat /\ 1 < End(table)
      /\ lo \in Nat /\ 1 <= lo /\ count \in Nat /\ lo + count <= End(table)
      /\ Probe \in Nat /\ 1 <= Probe /\ Probe <= End(table)
      /\ count \div 2 \in Nat /\ count = 0 => count \div 2 = 0
      /\ count > 0 => count \div 2 < count
    BY SearchBounds
<1>4. Probe = lo + count \div 2
    BY DEF Probe
<1>5. /\ DOMAIN tables[table] = 1..Len(tables[table]) /\ End(table) = Len(tables[table]) + 1
      /\ Len(tables[table]) \in Nat
      /\ \A i \in DOMAIN tables[table] : tables[table][i] \in Nat
      /\ \A i, j \in DOMAIN tables[table] : i < j => tables[table][i] < tables[table][j]
    <2>1. /\ DOMAIN tables[table] = 1..Len(tables[table]) /\ Len(tables[table]) \in Nat
          /\ End(table) = Len(tables[table]) + 1
          /\ \A i \in DOMAIN tables[table] : tables[table][i] \in Keys
          /\ \A i, j \in DOMAIN tables[table] : i < j => tables[table][i] < tables[table][j]
        BY <1>1, <1>3, TableFacts
    <2> QED
        BY <1>1, <2>1
<1>6. CASE Call
    <2>1. /\ table' = NumTables /\ lo' = 1 /\ count' = Len(tables[NumTables])
          /\ getPc' = "seek" /\ answer' = NotFound
        BY <1>6 DEF Call, StartIn
    <2>2. Len(tables[NumTables]) \in Nat
          /\ DOMAIN tables[NumTables] = 1..Len(tables[NumTables])
        BY <1>1, TableFacts
    <2>3. \A t \in Tables : ~(t > NumTables)
        BY <1>1
    <2>4. SearchInv'
        BY <1>2, <2>1, <2>2, <2>3 DEF SearchInv
    <2> QED
        BY <2>1, <2>4 DEF GetFindsNewest
<1>7. CASE SeekProbe
    <2>1. getPc = "seek" /\ key' = key /\ answer' = answer
        BY <1>7 DEF SeekProbe, GetAt
    <2>2. CASE getPc' = "read" /\ UNCHANGED <<table, lo, count>>
        BY <1>2, <2>1, <2>2 DEF SearchInv, GetFindsNewest
    <2>3. CASE Probe = End(table) /\ Miss
        <3>1. count = 0 /\ lo = End(table)
            BY <1>3, <1>4, <2>3
        <3>2. \A i \in DOMAIN tables[table] : tables[table][i] < key
            BY <1>3, <1>5, <2>1, <3>1 DEF SearchInv
        <3>3. \A i \in DOMAIN tables[table] : tables[table][i] # key
            BY <1>1, <1>5, <3>2
        <3> QED
            BY <1>2, <2>1, <2>3, <3>3, MissInv
    <2> QED
        BY <1>7, <2>2, <2>3 DEF SeekProbe
<1>8. CASE ReadProbe
    <2> DEFINE entry == EntryAt(table, position[table])
    <2>1. getPc = "read" /\ key' = key /\ Probe < End(table)
        BY <1>8 DEF ReadProbe, GetAt, TypeInv
    <2>2. position[table] = Probe
        <3>1. Read(table, Probe)
            BY <1>8 DEF ReadProbe
        <3> QED
            BY <3>1, ReadIsSought
    <2>3. /\ Probe \in DOMAIN tables[table] /\ entry # Error /\ entry.key = tables[table][Probe]
          /\ entry = [key |-> tables[table][Probe], table |-> table]
        <3>1. Probe \in 1..End(table)
            BY <1>3
        <3> QED
            BY <1>1, <1>3, <2>1, <2>2, <3>1, EntryAtIs
    <2>4. /\ answer = NotFound
          /\ \A t \in Tables : t > table => \A i \in DOMAIN tables[t] : tables[t][i] # key
          /\ \A i \in DOMAIN tables[table] : i < lo => tables[table][i] < key
          /\ \A i \in DOMAIN tables[table] : lo + count <= i => key <= tables[table][i]
        BY <2>1 DEF SearchInv
    <2> HIDE DEF entry
    <2>5. CASE Narrow(entry) /\ count > 0 /\ getPc' = "seek" /\ UNCHANGED <<table, answer>>
        <3>1. CASE /\ entry.key < key
                   /\ lo' = Probe + 1 /\ count' = count - count \div 2 - 1
            <4>1. lo' + count' = lo + count
                BY <1>3, <1>4, <3>1
            <4>2. \A i \in DOMAIN tables[table] : i < lo' => tables[table][i] < key
                <5>1. \A i \in DOMAIN tables[table] : i < lo' => i < Probe \/ i = Probe
                    BY <1>3, <1>5, <3>1
                <5>2. \A i \in DOMAIN tables[table] : i < Probe => tables[table][i] < entry.key
                    BY <1>5, <2>3
                <5>3. entry.key \in Nat /\ key \in Nat
                    BY <1>1, <1>5, <2>3
                <5>4. \A i \in DOMAIN tables[table] : i < Probe => tables[table][i] < key
                    BY <1>5, <3>1, <5>2, <5>3
                <5> QED
                    BY <2>3, <3>1, <5>1, <5>4
            <4> QED
                BY <1>2, <2>1, <2>4, <2>5, <4>1, <4>2 DEF SearchInv, GetFindsNewest
        <3>2. CASE ~(entry.key < key) /\ lo' = lo /\ count' = count \div 2
            <4>1. entry.key \in Nat /\ key \in Nat /\ key <= entry.key
                BY <1>1, <1>5, <2>3, <3>2
            <4>2. \A i \in DOMAIN tables[table] : Probe <= i => key <= tables[table][i]
                <5>1. \A i \in DOMAIN tables[table] : Probe <= i => Probe < i \/ i = Probe
                    BY <1>3, <1>5
                <5>2. \A i \in DOMAIN tables[table] : Probe < i => entry.key < tables[table][i]
                    BY <1>5, <2>3
                <5>3. \A i \in DOMAIN tables[table] : Probe < i => key <= tables[table][i]
                    BY <1>5, <4>1, <5>2
                <5> QED
                    BY <2>3, <4>1, <5>1, <5>3
            <4>3. lo' + count' = Probe
                BY <1>4, <3>2
            <4> QED
                BY <1>2, <2>1, <2>4, <2>5, <3>2, <4>2, <4>3 DEF SearchInv, GetFindsNewest
        <3> QED
            BY <2>5, <3>1, <3>2 DEF Narrow
    <2>6. CASE count = 0 /\ entry.key = key /\ answer' = entry /\ getPc' = "answered"
        <3>1. table \in Holding(key) /\ \A t \in Holding(key) : t <= table
            <4>1. table \in Holding(key)
                BY <1>3, <2>3, <2>6 DEF Holding
            <4>2. \A t \in Holding(key) : t \in Tables /\ ~(t > table)
                BY <2>4 DEF Holding
            <4> QED
                BY <1>1, <1>3, <4>1, <4>2
        <3>2. Newest(key) = [key |-> key, table |-> table]
            BY <1>1, <3>1, NewestIs
        <3>3. answer' = Newest(key)
            BY <2>3, <2>6, <3>2
        <3>4. AnsweredRight'
            BY <1>2, <2>1, <3>1, <3>3 DEF AnsweredRight, Newest, Holding
        <3> QED
            BY <2>6, <3>4 DEF SearchInv, GetFindsNewest
    <2>7. CASE count = 0 /\ entry.key # key /\ Miss /\ UNCHANGED answer
        <3>1. Probe = lo
            BY <1>3, <1>4, <2>7
        <3>2. ASSUME NEW i \in DOMAIN tables[table] PROVE tables[table][i] # key
            <4>1. i < lo \/ lo <= i
                BY <1>3, <1>5
            <4>2. CASE i < lo
                BY <1>1, <1>5, <2>4, <4>2
            <4>3. CASE lo <= i
                <5>1. lo = i \/ lo < i
                    BY <1>3, <1>5, <4>3
                <5>2. key <= tables[table][lo] /\ tables[table][lo] # key
                    BY <1>3, <2>3, <2>4, <2>7, <3>1
                <5>3. lo < i => tables[table][lo] < tables[table][i]
                    BY <1>5, <2>3, <3>1
                <5>4. tables[table][lo] \in Nat /\ tables[table][i] \in Nat /\ key \in Nat
                    BY <1>1, <1>5, <2>3, <3>1
                <5> QED
                    BY <5>1, <5>2, <5>3, <5>4
            <4> QED
                BY <4>1, <4>2, <4>3
        <3> QED
            BY <1>2, <2>1, <2>7, <3>2, MissInv
    <2> QED
        BY <1>8, <2>3, <2>5, <2>6, <2>7 DEF ReadProbe, entry
<1>9. CASE Return
    BY <1>9 DEF Return, SearchInv, GetFindsNewest
<1> QED
    BY <1>6, <1>7, <1>8, <1>9 DEF GetStep

-----------------------------------------------------------------------------
(* The merge *)

\* A cursor in the queue is at an entry of its table.
LEMMA LiveFacts ==
    ASSUME TypeInv, NEW t \in Live
    PROVE  /\ t \in Tables /\ cursors[t] \in DOMAIN tables[t]
           /\ tables[t][cursors[t]] \in Keys
           /\ EntryAt(t, cursors[t]) \in Entry /\ EntryAt(t, cursors[t]) # Error
           /\ EntryAt(t, cursors[t]) = [key |-> tables[t][cursors[t]], table |-> t]
           /\ EntryAt(t, cursors[t]).key = tables[t][cursors[t]]
<1>1. /\ t \in Tables /\ cursors[t] \in 1..End(t) /\ cursors[t] < End(t)
      /\ tables \in [Tables -> SortedTables]
    BY DEF TypeInv, TypeOK, Live
<1>2. \A i \in DOMAIN tables[t] : tables[t][i] \in Keys
    BY <1>1, TableFacts
<1> QED
    BY <1>1, <1>2, EntryAtIs

\* A queue that compares nothing has one cursor.
LEMMA LiveOne ==
    ASSUME NEW t \in Live, Compared # Live
    PROVE  Live = {t}
<1>1. IsFiniteSet(Live)
    <2>1. IsFiniteSet(Tables)
        BY KeysAssumption, CountUpTo DEF Tables
    <2>2. Live \in SUBSET Tables
        BY DEF Live
    <2> QED
        BY <2>1, <2>2, FS_Subset
<1>2. Cardinality(Live) = 1
    BY DEF Compared
<1>3. PICK x : Live = {x}
    BY <1>1, <1>2, FS_Singleton
<1> QED
    BY <1>3

\* What is on top is the least of what is left, and the newest of its key.
LEMMA TopIsNewest ==
    ASSUME TypeInv, MergeInv, mergePc = "readtop",
           NEW t \in Tables, NEW i \in DOMAIN tables[t], cursors[t] <= i
    PROVE  LET k == tables[current][cursors[current]] IN
              k <= tables[t][i] /\ (k = tables[t][i] => t <= current)
<1> DEFINE k == tables[current][cursors[current]]
<1>1. /\ tables \in [Tables -> SortedTables] /\ Keys \subseteq Nat /\ current \in Live
      /\ Tables \subseteq Nat
    <2>1. tables \in [Tables -> SortedTables] /\ current \in Live
        BY DEF TypeInv, TypeOK
    <2>2. Keys \subseteq Nat /\ Tables \subseteq Nat
        BY ONLY KeysAssumption DEF Tables
    <2> QED
        BY <2>1, <2>2
<1>2. /\ DOMAIN tables[t] = 1..Len(tables[t]) /\ End(t) = Len(tables[t]) + 1
      /\ Len(tables[t]) \in Nat
      /\ \A j \in DOMAIN tables[t] : tables[t][j] \in Nat
      /\ \A j, h \in DOMAIN tables[t] : j < h => tables[t][j] < tables[t][h]
    <2>1. \A j \in DOMAIN tables[t] : tables[t][j] \in Keys
        BY <1>1, TableFacts
    <2> QED
        BY <1>1, <2>1, TableFacts
<1>3. cursors[t] \in Nat
    BY Bounds
<1>4. t \in Live
    BY <1>2, <1>3 DEF Live
<1>5. /\ cursors[t] \in DOMAIN tables[t] /\ tables[t][cursors[t]] \in Nat
      /\ tables[t][cursors[t]] <= tables[t][i]
    <2>1. cursors[t] \in DOMAIN tables[t]
        BY <1>4, LiveFacts
    <2>2. cursors[t] = i \/ cursors[t] < i
        BY <1>2, <1>3
    <2> QED
        BY <1>2, <2>1, <2>2
<1>6. k \in Nat /\ current \in Tables
    BY <1>1, LiveFacts
<1>7. CASE t = current
    BY <1>1, <1>5, <1>7
<1>8. CASE t # current
    <2>1. Compared = Live
        BY <1>1, <1>4, <1>8, LiveOne
    <2>2. \A u \in Live : fronts[u] = EntryAt(u, cursors[u])
        BY <2>1 DEF MergeInv, QueueInv, ToCompare, Live
    <2>3. \A u \in Live : fronts[u] # Error /\ fronts[u].key = tables[u][cursors[u]]
        BY <2>2, LiveFacts
    <2>4. ~After(current, t)
        BY <1>4, <1>8, <2>1, <2>3 DEF MergeInv, QueueInv, Top
    <2>5. ~(k > tables[t][cursors[t]]) /\ ~(k = tables[t][cursors[t]] /\ current < t)
        BY <1>1, <1>4, <2>3, <2>4 DEF After
    <2>6. t \in Nat /\ current \in Nat /\ tables[t][i] \in Nat
        BY <1>1, <1>2, <1>6
    <2>7. k <= tables[t][cursors[t]] /\ (k = tables[t][cursors[t]] => t <= current)
        BY <1>5, <1>6, <2>5, <2>6
    <2> HIDE DEF k
    <2>8. k <= tables[t][i] /\ (k = tables[t][i] => t <= current)
        BY <1>5, <1>6, <2>6, <2>7
    <2> QED
        BY <2>8 DEF k
<1> QED
    BY <1>7, <1>8

\* The cursor on top advances, and its entry is kept unless the key has been merged.
LEMMA ReadTopInv ==
    ASSUME TypeInv, MergeInv, ReadTop, ~disturbed'
    PROVE  MergeInv'
<1> DEFINE k == tables[current][cursors[current]]
           entry == [key |-> k, table |-> current]
<1>1. /\ tables \in [Tables -> SortedTables] /\ Keys \subseteq Nat /\ current \in Live
      /\ data \in Seq(Entry) /\ cursors \in [Tables -> Nat] /\ mergePc = "readtop"
      /\ tables' = tables
    BY KeysAssumption DEF TypeInv, TypeOK, ReadTop, MergeAt
<1>2. /\ current \in Tables /\ cursors[current] \in DOMAIN tables[current] /\ k \in Keys
      /\ k \in Nat /\ entry \in Entry /\ entry # Error
    BY <1>1, LiveFacts
<1>3. EntryAt(current, position[current]) = entry
    <2>1. Read(current, cursors[current])
        BY DEF ReadTop
    <2>2. position[current] = cursors[current]
        BY <2>1, ReadIsSought
    <2> QED
        BY <1>1, <2>2, LiveFacts
<1> HIDE DEF entry
<1>4. /\ cursors' = [cursors EXCEPT ![current] = @ + 1]
      /\ fronts' = [t \in Tables |-> Unread]
      /\ \/ /\ \A t \in Tables : cursors'[t] = End(t)
            /\ mergePc' = "done" /\ data' = Sorted(Extended(entry))
         \/ mergePc' = "compare" /\ data' = Extended(entry)
    BY <1>2, <1>3 DEF ReadTop, Advanced
<1>5. \A t \in Tables : /\ DOMAIN tables[t] = 1..Len(tables[t]) /\ Len(tables[t]) \in Nat
                        /\ cursors[t] \in Nat
                        /\ \A i \in DOMAIN tables[t] : tables[t][i] \in Nat
    <2>1. \A t \in Tables : \A i \in DOMAIN tables[t] : tables[t][i] \in Keys
        BY <1>1, TableFacts
    <2> QED
        BY <1>1, <2>1, TableFacts
<1>6. \A j : Passed(j)' <=> Passed(j) \/ j = k
    <2>1. \A t \in Tables : \A i \in DOMAIN tables[t] :
              i < cursors'[t] <=> i < cursors[t] \/ (t = current /\ i = cursors[current])
        BY <1>1, <1>2, <1>4, <1>5
    <2> QED
        BY <1>1, <1>2, <2>1 DEF Passed
<1>7. \A t \in Tables : \A i \in DOMAIN tables[t] :
          cursors[t] <= i => k <= tables[t][i] /\ (k = tables[t][i] => t <= current)
    BY <1>1, TopIsNewest
<1>8. PassedFirst'
    <2>1. \A t \in Tables : \A i \in DOMAIN tables[t] : cursors'[t] <= i => cursors[t] <= i
        BY <1>1, <1>4, <1>5
    <2>2. \A j \in Keys : Passed(j) =>
              \A t \in Tables : \A i \in DOMAIN tables[t] : cursors[t] <= i => j <= tables[t][i]
        BY DEF MergeInv, PassedFirst
    <2> HIDE DEF k
    <2>3. \A j \in Keys : Passed(j) \/ j = k =>
              \A t \in Tables : \A i \in DOMAIN tables[t] : cursors'[t] <= i => j <= tables[t][i]
        BY <1>7, <2>1, <2>2
    <2> QED
        BY <1>1, <1>6, <2>3 DEF PassedFirst
<1>9. /\ \A i, j \in DOMAIN data : i < j => data[i].key < data[j].key
      /\ \A i \in DOMAIN data : Passed(data[i].key) /\ data[i] = Newest(data[i].key)
      /\ \A j \in Keys : Passed(j) => \E i \in DOMAIN data : data[i].key = j
    BY DEF MergeInv, DataIsNewest
<1>10. /\ DOMAIN data = 1..Len(data) /\ Len(data) \in Nat
       /\ \A i \in DOMAIN data : data[i].key \in Keys /\ data[i].key <= k
    <2>1. data \in [1..Len(data) -> Entry] /\ Len(data) \in Nat
        BY <1>1, LenProperties
    <2>2. \A e \in Entry : e.key \in Keys
        BY DEF Entry
    <2>3. \A i \in DOMAIN data : data[i].key \in Keys
        BY <2>1, <2>2
    <2>4. \A j \in Keys : Passed(j) => j <= k
        BY <1>1, <1>2, <1>5 DEF MergeInv, PassedFirst
    <2> HIDE DEF k
    <2> QED
        BY <1>9, <2>1, <2>3, <2>4
<1>11. entry.key = k
    BY DEF entry
<1> DEFINE longer == Extended(entry)
<1>12. /\ \A i, j \in DOMAIN longer : i < j => longer[i].key < longer[j].key
       /\ \A i \in DOMAIN longer : /\ Passed(longer[i].key) \/ longer[i].key = k
                                   /\ longer[i] = Newest(longer[i].key)
       /\ \A j \in Keys : Passed(j) \/ j = k => \E i \in DOMAIN longer : longer[i].key = j
       /\ longer \in Seq(Entry)
    <2>1. CASE Passed(k)
        <3>1. PICK i \in DOMAIN data : data[i].key = k
            BY <1>2, <1>9, <2>1
        <3>2. data # <<>> /\ Len(data) \in DOMAIN data
            BY <1>10, <3>1
        <3>3. data[Len(data)].key = k
            <4>1. i = Len(data) \/ i < Len(data)
                BY <1>10, <3>1
            <4>2. CASE i < Len(data)
                <5>1. data[i].key < data[Len(data)].key
                    BY <1>9, <3>1, <3>2, <4>2
                <5>2. data[Len(data)].key \in Nat /\ data[Len(data)].key <= k
                    BY <1>1, <1>10, <3>2
                <5> HIDE DEF k
                <5> QED
                    BY <1>2, <3>1, <5>1, <5>2
            <4> QED
                BY <3>1, <4>1, <4>2
        <3>4. longer = data
            BY <1>11, <3>2, <3>3 DEF Extended, IsRepeated
        <3> HIDE DEF longer, k
        <3> QED
            BY <1>1, <1>9, <2>1, <3>4
    <2>2. CASE ~Passed(k)
        <3>1. \A i \in DOMAIN data : data[i].key # k
            BY <1>9, <2>2
        <3>2. data # <<>> => Len(data) \in DOMAIN data
            BY <1>1, <1>10, EmptySeq
        <3>3. longer = Append(data, entry)
            BY <1>11, <3>1, <3>2 DEF Extended, IsRepeated
        <3>4. /\ longer \in Seq(Entry) /\ DOMAIN longer = 1..(Len(data) + 1)
              /\ longer[Len(data) + 1] = entry
              /\ \A i \in DOMAIN data : longer[i] = data[i]
            BY <1>1, <1>2, <1>10, <3>3, AppendProperties
        <3>5. entry = Newest(k)
            <4>1. current \in Holding(k)
                BY <1>2 DEF Holding
            <4>2. ASSUME NEW u \in Holding(k) PROVE u <= current
                <5>1. PICK i \in DOMAIN tables[u] : u \in Tables /\ tables[u][i] = k
                    BY DEF Holding
                <5>2. cursors[u] <= i
                    BY <1>5, <2>2, <5>1 DEF Passed
                <5> QED
                    BY <1>7, <5>1, <5>2
            <4>3. Newest(k) = [key |-> k, table |-> current]
                BY <1>2, <4>1, <4>2, NewestIs
            <4> QED
                BY <4>3 DEF entry
        <3>6. \A i \in DOMAIN longer : i \in DOMAIN data \/ i = Len(data) + 1
            BY <1>10, <3>4
        <3>7. \A i \in DOMAIN data : data[i].key < k
            <4>1. \A i \in DOMAIN data : data[i].key \in Nat
                BY <1>1, <1>10
            <4> HIDE DEF k
            <4> QED
                BY <1>2, <1>10, <3>1, <4>1
        <3> HIDE DEF longer, k
        <3>8. \A i, j \in DOMAIN longer : i < j => longer[i].key < longer[j].key
            <4>1. ASSUME NEW i \in DOMAIN longer, NEW j \in DOMAIN longer, i < j
                  PROVE  longer[i].key < longer[j].key
                <5>1. i \in DOMAIN data
                    BY <1>10, <3>4, <4>1
                <5>2. CASE j \in DOMAIN data
                    BY <1>9, <3>4, <4>1, <5>1, <5>2
                <5>3. CASE j = Len(data) + 1
                    BY <1>11, <3>4, <3>7, <5>1, <5>3
                <5> QED
                    BY <3>6, <5>2, <5>3
            <4> QED
                BY <4>1
        <3>9. \A i \in DOMAIN longer : /\ Passed(longer[i].key) \/ longer[i].key = k
                                       /\ longer[i] = Newest(longer[i].key)
            BY <1>9, <1>11, <3>4, <3>5, <3>6
        <3>10. \A j \in Keys : Passed(j) \/ j = k => \E i \in DOMAIN longer : longer[i].key = j
            <4>1. DOMAIN data \subseteq DOMAIN longer /\ Len(data) + 1 \in DOMAIN longer
                BY <1>10, <3>4
            <4> QED
                BY <1>9, <1>11, <3>4, <4>1
        <3> QED
            BY <3>4, <3>8, <3>9, <3>10
    <2> QED
        BY <2>1, <2>2
<1>13. data' = longer
    <2>1. Sorted(longer) = longer
        <3> HIDE DEF longer
        <3> QED
            BY <1>12, SortedStays
    <2> QED
        BY <1>4, <2>1
<1>14. DataIsNewest'
    <2> DEFINE NowPassed(j) ==
                  \E t \in Tables : \E i \in DOMAIN tables[t] : i < cursors'[t] /\ tables[t][i] = j
    <2>1. \A j : NowPassed(j) <=> Passed(j) \/ j = k
        <3>1. \A j : NowPassed(j) <=> Passed(j)'
            BY ONLY <1>1 DEF Passed
        <3> HIDE DEF NowPassed
        <3> QED
            BY ONLY <1>6, <3>1
    <2> HIDE DEF longer, k, NowPassed
    <2>2. /\ \A i, j \in DOMAIN data' : i < j => data'[i].key < data'[j].key
          /\ \A i \in DOMAIN data' :
                NowPassed(data'[i].key) /\ data'[i] = Newest(data'[i].key)
          /\ \A j \in Keys : NowPassed(j) => \E i \in DOMAIN data' : data'[i].key = j
        BY <1>12, <1>13, <2>1
    <2> QED
        BY <1>1, <2>2 DEF DataIsNewest, Passed, Newest, Holding, NowPassed
<1>15. QueueInv'
    <2>1. mergePc' = "done" => Live' = {}
        <3>1. \A t \in Tables : End(t)' = End(t) /\ End(t) \in Nat
            BY <1>1, Bounds DEF End
        <3> QED
            BY <1>4, <3>1 DEF Live
    <2> QED
        BY <1>4, <2>1 DEF QueueInv
<1> QED
    BY <1>8, <1>14, <1>15 DEF MergeInv

LEMMA MergeStepInv ==
    ASSUME TypeInv, MergeInv, MergeStep, ~disturbed'
    PROVE  MergeInv'
<1>1. tables' = tables /\ fronts \in [Tables -> Entry \cup {Error, Unread}]
    BY DEF TypeInv, TypeOK, MergeStep, SeekFront, ReadFront, SeekTop, ReadTop, MergeAt
<1>2. CASE SeekFront
    BY <1>1, <1>2 DEF SeekFront, MergeAt, MergeInv, PassedFirst, DataIsNewest, QueueInv, Passed,
                      Newest, Holding, Live, EntryAt, End
<1>3. CASE ReadFront
    <2>1. current \in Live /\ position[current] = cursors[current]
        BY <1>3, ReadIsSought DEF ReadFront, MergeAt, TypeInv
    <2>2. fronts' = [fronts EXCEPT ![current] = EntryAt(current, cursors[current])]
        BY <1>3, <2>1 DEF ReadFront
    <2>3. \A t \in Tables : fronts'[t] # Unread => t \in Live /\ fronts'[t] = EntryAt(t, cursors[t])
        BY <1>1, <2>1, <2>2 DEF MergeInv, QueueInv
    <2>4. cursors' = cursors /\ data' = data /\ mergePc' = "compare"
        BY <1>3 DEF ReadFront
    <2>5. QueueInv'
        BY <1>1, <2>3, <2>4 DEF QueueInv, Live, EntryAt, End
    <2> QED
        BY <1>1, <2>4, <2>5 DEF MergeInv, PassedFirst, DataIsNewest, Passed, Newest, Holding
<1>4. CASE SeekTop
    <2>1. PICK t \in Live : Top(t) /\ current' = t
        BY <1>4 DEF SeekTop
    <2>2. /\ cursors' = cursors /\ data' = data /\ fronts' = fronts /\ mergePc' = "readtop"
          /\ ToCompare = {}
        BY <1>4 DEF SeekTop
    <2>3. Top(current)' /\ ToCompare' = {}
        BY <1>1, <2>1, <2>2 DEF Top, After, ToCompare, Compared, Live, End
    <2>4. QueueInv'
        BY <1>1, <2>2, <2>3 DEF MergeInv, QueueInv, Live, EntryAt, End
    <2> QED
        BY <1>1, <2>2, <2>4 DEF MergeInv, PassedFirst, DataIsNewest, Passed, Newest, Holding
<1>5. CASE ReadTop
    BY <1>5, ReadTopInv
<1> QED
    BY <1>2, <1>3, <1>4, <1>5 DEF MergeStep

\* When all cursors are at their ends, what has been kept is what MergedRight asks for.
LEMMA MergedIsRight ==
    ASSUME TypeInv, MergeInv, mergePc = "done"
    PROVE  MergedRight
<1>1. Live = {} /\ tables \in [Tables -> SortedTables] /\ data \in Seq(Entry)
    BY DEF TypeInv, TypeOK, MergeInv, QueueInv
<1>2. \A t \in Tables : \A i \in DOMAIN tables[t] : i < cursors[t]
    <2>1. ASSUME NEW t \in Tables, NEW i \in DOMAIN tables[t] PROVE i < cursors[t]
        <3>1. cursors[t] = End(t)
            BY <1>1, Bounds DEF Live
        <3> QED
            BY <1>1, <3>1, TableFacts
    <2> QED
        BY <2>1
<1>3. \A k : Passed(k) <=> Holding(k) # {}
    BY <1>2 DEF Passed, Holding
<1>4. /\ \A i, j \in DOMAIN data : i < j => data[i].key < data[j].key
      /\ \A i \in DOMAIN data : Holding(data[i].key) # {} /\ data[i] = Newest(data[i].key)
      /\ \A k \in Keys : Holding(k) # {} => \E i \in DOMAIN data : data[i].key = k
    BY <1>3 DEF MergeInv, DataIsNewest
<1>5. \A i \in DOMAIN data : data[i].key \in Keys
    <2>1. data \in [1..Len(data) -> Entry] /\ \A e \in Entry : e.key \in Keys
        BY <1>1, LenProperties DEF Entry
    <2> QED
        BY <2>1
<1>6. {data[i] : i \in DOMAIN data} = {Newest(k) : k \in {j \in Keys : Holding(j) # {}}}
    BY <1>4, <1>5
<1> QED
    BY <1>4, <1>6 DEF MergedRight

-----------------------------------------------------------------------------
LEMMA InitInv == Init => TablesInv
<1> SUFFICES ASSUME Init PROVE TablesInv
    OBVIOUS
<1>1. TypeInv
    BY InitTypeInv
<1>2. \A k : ~Passed(k)
    <2>1. \A t \in Tables : \A i \in DOMAIN tables[t] : ~(i < cursors[t])
        <3>1. tables \in [Tables -> SortedTables]
            BY DEF Init
        <3>2. \A t \in Tables : \A i \in DOMAIN tables[t] : 1 <= i /\ i \in Nat
            BY <3>1, TableFacts
        <3> QED
            BY <3>2 DEF Init
    <2> QED
        BY <2>1 DEF Passed
<1>3. PassedFirst /\ DataIsNewest /\ QueueInv
    BY <1>2 DEF Init, PassedFirst, DataIsNewest, QueueInv
<1> QED
    BY <1>1, <1>3 DEF Init, TablesInv, SearchInv, MergeInv, GetFindsNewest

LEMMA NextInv == TablesInv /\ [Next]_vars => TablesInv'
<1> SUFFICES ASSUME TablesInv, [Next]_vars PROVE TablesInv'
    OBVIOUS
<1>1. CASE MergeStep
    <2>1. TypeInv'
        BY <1>1, MergeTypes DEF TablesInv
    <2>2. UNCHANGED <<tables, getPc, key, table, lo, count, answer>>
        BY <1>1 DEF MergeStep, SeekFront, ReadFront, SeekTop, ReadTop, MergeAt, get
    <2>3. \E t, i : Seek(t, i) \/ Read(t, i)
        BY <1>1 DEF MergeStep, SeekFront, ReadFront, SeekTop, ReadTop
    <2>4. ~disturbed' => ~disturbed
        BY <2>3, ReadIsSought DEF Seek, TablesInv
    <2>5. SearchInv => SearchInv'
        BY <2>2 DEF SearchInv
    <2>6. ~disturbed' => SearchInv' /\ MergeInv' /\ getPc' # "thrown"
        BY <1>1, <2>2, <2>4, <2>5, MergeStepInv DEF TablesInv
    <2>7. GetFindsNewest'
        BY <2>2, <2>4 DEF TablesInv, GetFindsNewest, AnsweredRight, Newest, Holding
    <2> QED
        BY <2>1, <2>6, <2>7 DEF TablesInv
<1>2. CASE Call \/ GetStep
    <2>1. TypeInv'
        BY <1>2, GetTypes DEF TablesInv
    <2>2. UNCHANGED <<tables, mergePc, cursors, fronts, current, data>>
        BY <1>2 DEF Call, GetStep, SeekProbe, ReadProbe, Return, GetAt, merge
    <2>3. ~disturbed' => ~disturbed
        BY <1>2 DEF Call, GetStep, SeekProbe, ReadProbe, Return, Seek, Read
    <2>4. MergeInv => MergeInv'
        BY <2>2 DEF MergeInv, PassedFirst, DataIsNewest, QueueInv, Passed, Newest, Holding, Live,
                    EntryAt, End, ToCompare, Compared, Top, After
    <2>5. ~disturbed' => SearchInv' /\ GetFindsNewest' /\ getPc' # "thrown"
        BY <1>2, <2>3, GetInv DEF TablesInv
    <2> QED
        BY <2>1, <2>3, <2>4, <2>5 DEF TablesInv, GetFindsNewest
<1>3. CASE UNCHANGED vars
    <2>1. /\ UNCHANGED <<tables, position, disturbed>>
          /\ UNCHANGED <<mergePc, cursors, fronts, current, data>>
          /\ UNCHANGED <<getPc, key, table, lo, count, answer>>
        BY <1>3 DEF vars, merge, get
    <2>2. TypeInv'
        BY <2>1 DEF TablesInv, TypeInv, TypeOK, Live, End, Probe
    <2>3. SearchInv' = SearchInv
        BY <2>1 DEF SearchInv
    <2>4. MergeInv => MergeInv'
        BY <2>1 DEF MergeInv, PassedFirst, DataIsNewest, QueueInv, Passed, Newest, Holding, Live,
                    EntryAt, End, ToCompare, Compared, Top, After
    <2>5. GetFindsNewest'
        BY <2>1 DEF TablesInv, GetFindsNewest, AnsweredRight, Newest, Holding
    <2> QED
        BY <2>1, <2>2, <2>3, <2>4, <2>5 DEF TablesInv
<1> QED
    BY <1>1, <1>2, <1>3 DEF Next, Died

\* The invariant that the other theorems follow from: a search has the key between what
\* it has excluded (persistent.cpp:85-100), and the merge has kept the newest entries of
\* the keys that its cursors have passed (compaction.cpp:15-73).
THEOREM TablesAreSound == Spec => []TablesInv
BY InitInv, NextInv, PTL DEF Spec

THEOREM TablesTypeCorrect == Spec => []TypeOK
<1>1. TablesInv => TypeOK
    BY DEF TablesInv, TypeInv
<1> QED
    BY <1>1, TablesAreSound, PTL

\* However many tables and entries there are, and whatever the sizes: the binary search
\* finds the newest entry of its key or reports that there is none, as long as no step of
\* the merge has moved the position between its two system calls.
THEOREM SearchesFindNewest == Spec => []GetFindsNewest
<1>1. TablesInv => GetFindsNewest
    BY DEF TablesInv
<1> QED
    BY <1>1, TablesAreSound, PTL

\* The merge keeps the newest entry of every key of any number of tables, and nothing
\* else, in the order that searches need.
THEOREM MergesKeepNewest == Spec => []MergeKeepsNewest
<1>1. TablesInv => MergeKeepsNewest
    BY MergedIsRight DEF TablesInv, MergeKeepsNewest
<1> QED
    BY <1>1, TablesAreSound, PTL

\* Nothing is read beyond the end of a file: no probe and no cursor that is used is there.
THEOREM ReadsStayInFile == Spec => []NothingFails
<1>1. TablesInv => NothingFails
    BY DEF TablesInv, MergeInv, QueueInv, NothingFails
<1> QED
    BY <1>1, TablesAreSound, PTL
=============================================================================
