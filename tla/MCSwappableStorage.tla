-------------------------- MODULE MCSwappableStorage --------------------------
(* SwappableStorage on small instances. *)
EXTENDS SwappableStorage
=============================================================================
