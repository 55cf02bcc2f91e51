------------------------------ MODULE MCHandlers ------------------------------
(* Handlers on small instances. *)
EXTENDS Handlers, TLC

\* What only a master may do; the other requests skip the checks that matter here.
ClientWrite == {[kind |-> "write", source |-> "client", isMaster |-> FALSE]}

\* A process dies or a connection breaks, not both.
OneFault == disconnects + crashes <= 1

NodeSymmetry == Permutations(Nodes)
=============================================================================
