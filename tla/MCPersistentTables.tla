-------------------------- MODULE MCPersistentTables --------------------------
(* PersistentTables on small instances. *)
EXTENDS PersistentTables

\* The tables never change: a bound on what they hold at first.
FewEntries == Len(tables[1]) + Len(tables[2]) + Len(tables[3]) <= 4
=============================================================================
