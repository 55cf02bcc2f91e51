------------------------------- MODULE KVStore -------------------------------
(***************************************************************************)
(* What StorageSystem promises to the controllers (storage_system.hpp):     *)
(* a map from keys to versioned entries on which every Insert and Remove    *)
(* takes effect at one moment, and every Get returns what the key held at   *)
(* some moment between its call and its return, whatever the background     *)
(* swap and compaction jobs are doing.  current[r] collects the entries the *)
(* key of request r has held since its call.                                *)
(***************************************************************************)
EXTENDS Entries

VARIABLES
    store,      \* the entry every key holds, or None
    status,     \* status[r] \in {"idle", "called", "answered"}
    call,       \* the request r has made
    current,    \* the entries the key of r has held since the call
    overtaken,  \* another write to the key of r has taken effect since the call
    reply       \* what r is answered

vars == <<store, status, call, current, overtaken, reply>>

Statuses == {"idle", "called", "answered"}

TypeOK ==
    /\ store \in Table
    /\ status \in [Requests -> Statuses]
    /\ call \in [Requests -> Call \cup {NoCall}]
    /\ current \in [Requests -> SUBSET (Entry \cup {None})]
    /\ overtaken \in [Requests -> BOOLEAN]
    /\ reply \in [Requests -> DTO \cup {NotFound, Ok, Failed, NoReply}]

Init ==
    /\ store \in Table
    /\ status = [r \in Requests |-> "idle"]
    /\ call = [r \in Requests |-> NoCall]
    /\ current = [r \in Requests |-> {}]
    /\ overtaken = [r \in Requests |-> FALSE]
    /\ reply = [r \in Requests |-> NoReply]

Invoke(r) ==
    /\ status[r] = "idle"
    /\ \E c \in Call :
          /\ call' = [call EXCEPT ![r] = c]
          /\ current' = [current EXCEPT ![r] = {store[c.key]}]
    /\ status' = [status EXCEPT ![r] = "called"]
    /\ UNCHANGED <<store, overtaken, reply>>

Answer(r, result) ==
    /\ status' = [status EXCEPT ![r] = "answered"]
    /\ reply' = [reply EXCEPT ![r] = result]
    /\ UNCHANGED call

\* The requests under way on the key of r.
Concerned(r) == {s \in Requests : status[s] # "idle" /\ call[s].key = call[r].key}

\* The request's entry becomes what the key holds, for every request on the key
\* to see.
Write(r) ==
    /\ status[r] = "called" /\ ~IsGet(call[r])
    /\ store' = [store EXCEPT ![call[r].key] = call[r].entry]
    /\ current' = [s \in Requests |->
                      IF s \in Concerned(r) THEN current[s] \cup {call[r].entry}
                      ELSE current[s]]
    /\ overtaken' = [s \in Requests |-> overtaken[s] \/ s \in Concerned(r) \ {r}]
    /\ Answer(r, Ok)

\* A write that another one has overtaken since its call may have taken effect
\* just before that one: the key was seen to hold it only by requests that were
\* overtaken as well.
WriteOvertaken(r) ==
    /\ status[r] = "called" /\ ~IsGet(call[r])
    /\ overtaken[r]
    /\ current' = [s \in Requests |->
                      IF s \in Concerned(r) /\ overtaken[s]
                      THEN current[s] \cup {call[r].entry} ELSE current[s]]
    /\ Answer(r, Ok)
    /\ UNCHANGED <<store, overtaken>>

\* A write older than a live entry the key has held since the call is dropped,
\* and reported as a success.
OmitWrite(r) ==
    /\ status[r] = "called" /\ ~IsGet(call[r])
    /\ \E old \in current[r] : IsLive(old) /\ call[r].entry.version < old.version
    /\ Answer(r, Ok)
    /\ UNCHANGED <<store, current, overtaken>>

\* A write may fail, and then has no effect on the running store.
FailWrite(r) ==
    /\ status[r] = "called" /\ ~IsGet(call[r])
    /\ Answer(r, Failed)
    /\ UNCHANGED <<store, current, overtaken>>

Read(r) ==
    /\ status[r] = "called" /\ IsGet(call[r])
    /\ \E entry \in current[r] :
          IF IsLive(entry)
          THEN \E version \in {0, entry.version} :
                  Answer(r, [value |-> entry.value, version |-> version])
          ELSE Answer(r, NotFound)
    /\ UNCHANGED <<store, current, overtaken>>

Return(r) ==
    /\ status[r] = "answered"
    /\ status' = [status EXCEPT ![r] = "idle"]
    /\ call' = [call EXCEPT ![r] = NoCall]
    /\ current' = [current EXCEPT ![r] = {}]
    /\ overtaken' = [overtaken EXCEPT ![r] = FALSE]
    /\ reply' = [reply EXCEPT ![r] = NoReply]
    /\ UNCHANGED store

Next ==
    \E r \in Requests :
        \/ Invoke(r) \/ Write(r) \/ WriteOvertaken(r) \/ OmitWrite(r)
        \/ FailWrite(r) \/ Read(r) \/ Return(r)

Spec == Init /\ [][Next]_vars
=============================================================================
