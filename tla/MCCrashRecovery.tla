--------------------------- MODULE MCCrashRecovery ---------------------------
(* CrashRecovery on small instances. *)
EXTENDS CrashRecovery
=============================================================================
