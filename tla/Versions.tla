------------------------------- MODULE Versions -------------------------------
(***************************************************************************)
(* The version numbers of a node (coordination/global_versioning.cpp): one     *)
(* atomic counter, which a write without a version increments and a write with  *)
(* a version raises to it by a compare-and-exchange loop, which may also fail    *)
(* spuriously.  A start takes up the counter behind the versions in the logs     *)
(* (recovery/wal_reader.cpp).                                                  *)
(*                                                                           *)
(* Each atomic operation is a step.  The views pass a version with every request *)
(* (0 if the client has set none): Generate is what the controllers do without.  *)
(***************************************************************************)
EXTENDS Naturals

CONSTANTS
    Requests,       \* writes of the controllers, Insert and Remove alike
    Limit           \* the numbers that uint64_t has: 2^64

ASSUME LimitAssumption == Limit \in Nat \ {0}

Version == 0..(Limit - 1)

VARIABLES
    current,        \* current_
    pc, version,    \* of a write: where it is, and its version
    loaded,         \* what it has loaded of the counter
    logs,           \* the versions in the log files
    generated,      \* history: what Generate has returned since the start
    wrapped         \* history: the counter has been incremented past its last number

vars == <<current, pc, version, loaded, logs, generated, wrapped>>

TypeOK ==
    /\ current \in Version
    /\ pc \in [Requests -> {"idle", "load", "exchange", "write"}]
    /\ version \in [Requests -> Version]
    /\ loaded \in [Requests -> Version]
    /\ logs \subseteq Version
    /\ generated \subseteq Version
    /\ wrapped \in BOOLEAN

\* The first start finds no logs.
Init ==
    /\ current = 1 % Limit
    /\ pc = [r \in Requests |-> "idle"]
    /\ version = [r \in Requests |-> 0]
    /\ loaded = [r \in Requests |-> 0]
    /\ logs = {} /\ generated = {}
    /\ wrapped = (Limit = 1)

GoTo(r, label) == pc' = [pc EXCEPT ![r] = label]

-----------------------------------------------------------------------------
\* Increments the counter and returns what it was.
Generate(r) ==
    /\ pc[r] = "idle"
    /\ GoTo(r, "write")
    /\ version' = [version EXCEPT ![r] = current]
    /\ generated' = generated \cup {current}
    /\ current' = (current + 1) % Limit
    /\ wrapped' = (wrapped \/ current = Limit - 1)
    /\ UNCHANGED <<loaded, logs>>

UpdateMaxVersion(r, v) ==
    /\ pc[r] = "idle"
    /\ GoTo(r, "load")
    /\ version' = [version EXCEPT ![r] = v]
    /\ UNCHANGED <<current, loaded, logs, generated, wrapped>>

\* Mutant: the version is put into the counter even if that is beyond it.
LoadAlways(r) ==
    /\ pc[r] = "load"
    /\ loaded' = [loaded EXCEPT ![r] = current]
    /\ GoTo(r, "exchange")
    /\ UNCHANGED <<current, version, logs, generated, wrapped>>

Load(r) ==
    /\ pc[r] = "load"
    /\ loaded' = [loaded EXCEPT ![r] = current]
    /\ GoTo(r, IF current > version[r] THEN "write" ELSE "exchange")
    /\ UNCHANGED <<current, version, logs, generated, wrapped>>

\* Mutant: the version is stored whatever the counter has become since the load.
Overwrite(r) ==
    /\ pc[r] = "exchange"
    /\ current' = version[r] /\ GoTo(r, "write")
    /\ UNCHANGED <<version, loaded, logs, generated, wrapped>>

\* Mutant: the successor of the version is stored, also of the last one.
StoreSuccessor(r) ==
    /\ pc[r] = "exchange"
    /\ \/ current = loaded[r] /\ current' = version[r] + 1 /\ GoTo(r, "write")
       \/ current # loaded[r] /\ UNCHANGED current /\ GoTo(r, "load")
    /\ UNCHANGED <<version, loaded, logs, generated, wrapped>>

\* The exchange succeeds if the counter still is what was loaded.
Exchange(r) ==
    /\ pc[r] = "exchange"
    /\ \/ current = loaded[r] /\ current' = version[r] /\ GoTo(r, "write")
       \/ current # loaded[r] /\ UNCHANGED current /\ GoTo(r, "load")
    /\ UNCHANGED <<version, loaded, logs, generated, wrapped>>

\* compare_exchange_weak may fail nevertheless.
FailSpuriously(r) ==
    /\ pc[r] = "exchange" /\ current = loaded[r]
    /\ GoTo(r, "load")
    /\ UNCHANGED <<current, version, loaded, logs, generated, wrapped>>

\* The storage writes the entry to the log; it may also omit it, or fail.
Write(r) ==
    /\ pc[r] = "write" /\ GoTo(r, "idle")
    /\ logs' \in {logs, logs \cup {version[r]}}
    /\ version' = [version EXCEPT ![r] = 0]
    /\ loaded' = [loaded EXCEPT ![r] = 0]
    /\ UNCHANGED <<current, generated, wrapped>>

\* A swap removes the log with what is in it.
Swap ==
    /\ logs' = {} /\ logs # {}
    /\ UNCHANGED <<current, pc, version, loaded, generated, wrapped>>

\* GetMaxVersion.
IsMaximum(v) == v \in logs /\ \A w \in logs : w <= v

\* The process dies and starts again.  The versions in the table files are not looked
\* at, and no start survives a log without entries (CrashRecovery).
Restart ==
    /\ \E v \in Version :
          /\ IsMaximum(v)
          /\ current' = (v + 1) % Limit
          /\ wrapped' = (v = Limit - 1)
    /\ pc' = [r \in Requests |-> "idle"]
    /\ version' = [r \in Requests |-> 0]
    /\ loaded' = [r \in Requests |-> 0]
    /\ generated' = {}
    /\ UNCHANGED logs

Step(r) == Load(r) \/ Exchange(r) \/ Write(r)

Next ==
    \/ \E r \in Requests : Generate(r) \/ Step(r) \/ FailSpuriously(r)
    \/ \E r \in Requests, v \in Version : UpdateMaxVersion(r, v)
    \/ Swap \/ Restart

Spec == Init /\ [][Next]_vars

-----------------------------------------------------------------------------
(* Properties *)

\* The counter is never behind a version in the logs, however many writes raise it
\* at once: none of them takes back what another has put there
\* (global_versioning.cpp:9-19).
CounterCoversLogs == ~wrapped => \A v \in logs : v <= current

\* What Generate returns next it has not returned before, although the counter is
\* also set from outside (global_versioning.cpp:7, 15).
GeneratesOnce == ~wrapped => current \notin generated

\* Threads run, and compare_exchange_weak does not fail spuriously for ever.
FairSpec ==
    /\ Spec
    /\ \A r \in Requests : WF_vars(Step(r))
    /\ <>[][\A r \in Requests : ~FailSpuriously(r)]_vars

\* The loop ends although other writes may change the counter between each load and
\* exchange: they only raise it, until it is beyond the version (global_versioning.cpp:10-18).
UpdateEnds ==
    \A r \in Requests : pc[r] = "load" ~> pc[r] \in {"write", "idle"} \/ wrapped
=============================================================================
