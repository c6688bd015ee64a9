-------------------------- MODULE MCMySQLOperation --------------------------
(* Instances of MySQLOperation for TLC. *)
EXTENDS MySQLOperation, TLC
CONSTANTS p1, p2
MCProcs        == {p1, p2}
MCSessions     == {1}
NetworkFaults  == {"stmt", "drop", "commit", "end"}
Symmetry       == Permutations(MCProcs)
=============================================================================
