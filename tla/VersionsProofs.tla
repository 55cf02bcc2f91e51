---------------------------- MODULE VersionsProofs ----------------------------
(* Proofs about the version numbers, for any number of writes and any limit. *)
EXTENDS Versions, TLAPS

\* What a write that is about to exchange has loaded is not beyond its version, and
\* until the counter wraps around, all that was generated, will be logged or has been
\* logged is not beyond the counter.
LoadedIsLower == \A r \in Requests : pc[r] = "exchange" => loaded[r] <= version[r]
GeneratedAreLower == ~wrapped => \A g \in generated : g < current
PendingAreCovered == ~wrapped => \A r \in Requests : pc[r] = "write" => version[r] <= current

VersionsInv ==
    /\ TypeOK /\ LoadedIsLower /\ GeneratedAreLower /\ PendingAreCovered
    /\ CounterCoversLogs

LEMMA RemainderIsVersion == ASSUME NEW n \in Nat PROVE n % Limit \in Version
BY LimitAssumption, SMT DEF Version

LEMMA NextVersion ==
    ASSUME NEW v \in Version, v # Limit - 1
    PROVE  (v + 1) % Limit = v + 1
BY LimitAssumption, SMT DEF Version

LEMMA InitHolds == Init => VersionsInv
<1> SUFFICES ASSUME Init PROVE VersionsInv
    OBVIOUS
<1>1. TypeOK
    BY RemainderIsVersion, LimitAssumption, SMT DEF Init, TypeOK, Version
<1>2. LoadedIsLower /\ GeneratedAreLower /\ PendingAreCovered /\ CounterCoversLogs
    BY SMT DEF Init, LoadedIsLower, GeneratedAreLower, PendingAreCovered, CounterCoversLogs
<1> QED BY <1>1, <1>2 DEF VersionsInv

LEMMA GenerateKeeps ==
    ASSUME VersionsInv, NEW r \in Requests, Generate(r)
    PROVE  VersionsInv'
<1> USE DEF VersionsInv, Generate, GoTo
<1>1. TypeOK'
    BY RemainderIsVersion, LimitAssumption, SMT DEF TypeOK, Version
<1>2. LoadedIsLower'
    BY SMT DEF TypeOK, LoadedIsLower
<1>3. ASSUME ~wrapped' PROVE ~wrapped /\ current' = current + 1
    <2>1. ~wrapped /\ current # Limit - 1
        BY <1>3 DEF TypeOK
    <2> QED BY <2>1, NextVersion DEF TypeOK
<1>4. GeneratedAreLower' /\ PendingAreCovered' /\ CounterCoversLogs'
    BY <1>3, SMT DEF TypeOK, Version, GeneratedAreLower, PendingAreCovered, CounterCoversLogs
<1> QED BY <1>1, <1>2, <1>4

LEMMA UpdateKeeps ==
    ASSUME VersionsInv, NEW r \in Requests, NEW v \in Version, UpdateMaxVersion(r, v)
    PROVE  VersionsInv'
BY SMT DEF VersionsInv, UpdateMaxVersion, GoTo, TypeOK, LoadedIsLower, GeneratedAreLower,
           PendingAreCovered, CounterCoversLogs

LEMMA LoadKeeps ==
    ASSUME VersionsInv, NEW r \in Requests, Load(r)
    PROVE  VersionsInv'
BY SMT DEF VersionsInv, Load, GoTo, TypeOK, Version, LoadedIsLower, GeneratedAreLower,
           PendingAreCovered, CounterCoversLogs

\* The one step at which the counter is set to what another write may not expect: it
\* still is what was loaded, and that is not beyond the version.
LEMMA ExchangeKeeps ==
    ASSUME VersionsInv, NEW r \in Requests, Exchange(r)
    PROVE  VersionsInv'
<1> USE DEF VersionsInv, Exchange, GoTo
<1>1. current <= current'
    BY SMT DEF TypeOK, Version, LoadedIsLower
<1>2. TypeOK' /\ LoadedIsLower'
    BY SMT DEF TypeOK, LoadedIsLower
<1>3. GeneratedAreLower' /\ CounterCoversLogs'
    BY <1>1, <1>2, SMT DEF TypeOK, Version, GeneratedAreLower, CounterCoversLogs
<1>4. PendingAreCovered'
    BY <1>1, <1>2, SMT DEF TypeOK, Version, PendingAreCovered
<1> QED BY <1>2, <1>3, <1>4

LEMMA FailureKeeps ==
    ASSUME VersionsInv, NEW r \in Requests, FailSpuriously(r)
    PROVE  VersionsInv'
BY SMT DEF VersionsInv, FailSpuriously, GoTo, TypeOK, LoadedIsLower, GeneratedAreLower,
           PendingAreCovered, CounterCoversLogs

LEMMA WriteKeeps ==
    ASSUME VersionsInv, NEW r \in Requests, Write(r)
    PROVE  VersionsInv'
<1> USE DEF VersionsInv, Write, GoTo
<1>1. TypeOK'
    BY LimitAssumption, SMT DEF TypeOK, Version
<1>2. LoadedIsLower' /\ GeneratedAreLower' /\ PendingAreCovered'
    BY SMT DEF TypeOK, LoadedIsLower, GeneratedAreLower, PendingAreCovered
<1>3. CounterCoversLogs'
    BY SMT DEF TypeOK, PendingAreCovered, CounterCoversLogs
<1> QED BY <1>1, <1>2, <1>3

LEMMA SwapKeeps == VersionsInv /\ Swap => VersionsInv'
BY SMT DEF VersionsInv, Swap, TypeOK, LoadedIsLower, GeneratedAreLower, PendingAreCovered,
           CounterCoversLogs

LEMMA RestartKeeps ==
    ASSUME VersionsInv, Restart
    PROVE  VersionsInv'
<1> USE DEF VersionsInv, Restart
<1>1. PICK v \in Version : /\ IsMaximum(v)
                           /\ current' = (v + 1) % Limit
                           /\ wrapped' = (v = Limit - 1)
    OBVIOUS
<1>2. TypeOK'
    <2>1. v + 1 \in Nat /\ 0 \in Version
        BY LimitAssumption, SMT DEF Version
    <2>2. current' \in Version /\ wrapped' \in BOOLEAN
        BY <1>1, <2>1, RemainderIsVersion
    <2> QED BY <2>1, <2>2 DEF TypeOK
<1>3. LoadedIsLower' /\ GeneratedAreLower' /\ PendingAreCovered'
    BY SMT DEF LoadedIsLower, GeneratedAreLower, PendingAreCovered
<1>4. CounterCoversLogs'
    <2> SUFFICES ASSUME ~wrapped', NEW w \in logs PROVE w <= current'
        BY DEF CounterCoversLogs
    <2>1. current' = v + 1
        BY <1>1, NextVersion
    <2>2. w <= v /\ w \in Version
        BY <1>1 DEF IsMaximum, TypeOK
    <2> QED BY <2>1, <2>2, LimitAssumption, SMT DEF Version
<1> QED BY <1>2, <1>3, <1>4

LEMMA StepKeeps == VersionsInv /\ [Next]_vars => VersionsInv'
<1> SUFFICES ASSUME VersionsInv, [Next]_vars PROVE VersionsInv'
    OBVIOUS
<1>1. CASE Next
    BY <1>1, GenerateKeeps, UpdateKeeps, LoadKeeps, ExchangeKeeps, FailureKeeps, WriteKeeps,
       SwapKeeps, RestartKeeps DEF Next, Step
<1>2. CASE UNCHANGED vars
    BY <1>2 DEF vars, VersionsInv, TypeOK, LoadedIsLower, GeneratedAreLower,
                PendingAreCovered, CounterCoversLogs
<1> QED BY <1>1, <1>2

\* The inductive invariant holds in every reachable state (global_versioning.cpp:5-19,
\* wal_reader.cpp:19-21, 126, 135, 167).
THEOREM VersionsInvariant == Spec => []VersionsInv
BY InitHolds, StepKeeps, PTL DEF Spec

\* Numbers stay within their width (global_versioning.cpp:5-19).
THEOREM VersionsTypeCorrect == Spec => []TypeOK
<1>1. VersionsInv => TypeOK
    BY DEF VersionsInv
<1> QED BY <1>1, VersionsInvariant, PTL

\* The counter is never behind a version in the logs, for any number of racing writes
\* (global_versioning.cpp:9-19).
THEOREM CounterIsAhead == Spec => []CounterCoversLogs
<1>1. VersionsInv => CounterCoversLogs
    BY DEF VersionsInv
<1> QED BY <1>1, VersionsInvariant, PTL

\* Generate never returns a number twice, until the counter wraps around or the node
\* starts again (global_versioning.cpp:7).
THEOREM GeneratedAreDistinct == Spec => []GeneratesOnce
<1>1. VersionsInv => GeneratesOnce
    BY SMT DEF VersionsInv, TypeOK, Version, GeneratedAreLower, GeneratesOnce
<1> QED BY <1>1, VersionsInvariant, PTL

\* The counter never goes back while the node runs, whichever way the loads, exchanges
\* and increments of racing writes fall: it only grows, or is incremented past its last
\* number (global_versioning.cpp:7, 10-18).
CounterGrows == ~Restart => current <= current' \/ (current = Limit - 1 /\ current' = 0)

THEOREM CounterOnlyGrows == Spec => [][CounterGrows]_vars
<1>1. VersionsInv /\ [Next]_vars => [CounterGrows]_vars
    <2> SUFFICES ASSUME VersionsInv, Next, ~Restart
                 PROVE  current <= current' \/ (current = Limit - 1 /\ current' = 0)
        BY DEF CounterGrows
    <2>1. current \in Version /\ Limit \in Nat \ {0}
        BY LimitAssumption DEF VersionsInv, TypeOK
    <2>2. ASSUME NEW r \in Requests, Generate(r)
          PROVE  current <= current' \/ (current = Limit - 1 /\ current' = 0)
        <3>1. current' = (current + 1) % Limit
            BY <2>2 DEF Generate
        <3>2. CASE current = Limit - 1
            BY <2>1, <3>1, <3>2, SMT DEF Version
        <3>3. CASE current # Limit - 1
            <4>1. current' = current + 1
                BY <2>1, <3>1, <3>3, NextVersion
            <4> QED BY <2>1, <4>1, SMT DEF Version
        <3> QED BY <3>2, <3>3
    <2>3. ASSUME NEW r \in Requests, Exchange(r) PROVE current <= current'
        <3>1. loaded[r] <= version[r] /\ current' \in {current, version[r]}
              /\ (current' = current \/ current = loaded[r])
            BY <2>3 DEF VersionsInv, LoadedIsLower, Exchange
        <3> QED BY <2>1, <3>1, SMT DEF Version
    <2>4. CASE UNCHANGED current
        BY <2>1, <2>4, SMT DEF Version
    <2> QED
        BY <2>2, <2>3, <2>4
           DEF Next, Step, Load, Write, FailSpuriously, UpdateMaxVersion, Swap
<1> QED BY <1>1, VersionsInvariant, PTL DEF Spec
=============================================================================
