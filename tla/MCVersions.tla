------------------------------ MODULE MCVersions ------------------------------
(* Versions on small instances. *)
EXTENDS Versions, TLC
=============================================================================
