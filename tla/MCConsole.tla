----------------------------- MODULE MCConsole ------------------------------
(* The console and the table for TLC: nothing orders the slaves. *)
EXTENDS Console, TLC

Symmetry == Permutations(Slaves)
=============================================================================
