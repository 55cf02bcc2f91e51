---------------------------- MODULE MCMasterElection ----------------------------
(* MasterElection on small instances. *)
EXTENDS MasterElection
=============================================================================
