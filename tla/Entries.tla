------------------------------- MODULE Entries -------------------------------
(***************************************************************************)
(* What the node stores: versioned values and tombstones under string      *)
(* keys, and the requests clients make for them.  The module is shared by   *)
(* the abstract store and by the storage engine.                            *)
(***************************************************************************)
EXTENDS Naturals

CONSTANTS
    Keys,       \* the keys clients use
    Values,     \* the values they store
    Versions,   \* the version numbers requests carry
    Nullopt,    \* the value of a tombstone (std::nullopt in models::storage::Value)
    None,       \* no entry for the key
    NotFound,   \* the error ErrorType::kNotFound
    Ok,         \* result::Ok()
    Failed,     \* any other error
    NoReply,    \* the request has not been answered yet
    NoCall,     \* the client has no request under way
    Requests    \* the requests that may be under way at one time

ASSUME VersionsAssumption == Versions \subseteq Nat
ASSUME ConstantsAssumption ==
    /\ Nullopt \notin Values
    /\ None \notin [value : Values \cup {Nullopt}, version : Versions]

\* models::storage::Value: a value or a tombstone, with the version it was written at
Entry == [value : Values \cup {Nullopt}, version : Versions]

IsLive(entry) == entry # None /\ entry.value # Nullopt

\* A map from keys to entries: a MapStorage, the contents of a .data file, or
\* what replaying a log leaves.
Table == [Keys -> Entry \cup {None}]
EmptyTable == [k \in Keys |-> None]
EntriesOf(table) == {k \in Keys : table[k] # None}

\* models::dto::ValueDTO; an entry found in memory is reported with version 0
DTO == [value : Values, version : Versions \cup {0}]

\* A request: entry is None for a Get, a tombstone for a Remove, and a live
\* entry for an Insert.
Call == [key : Keys, entry : Entry \cup {None}]
IsGet(c) == c.entry = None
IsRemove(c) == c.entry # None /\ c.entry.value = Nullopt
IsInsert(c) == IsLive(c.entry)
=============================================================================
