--------------------------- MODULE MCStorageEngine ---------------------------
(* StorageEngine on small instances. *)
EXTENDS StorageEngine, TLC

ClientSymmetry == Permutations(Requests)
=============================================================================
