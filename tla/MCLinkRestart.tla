---------------------------- MODULE MCLinkRestart ----------------------------
(* LinkRestart for TLC: the other clocks are interchangeable. *)
EXTENDS LinkRestart, TLC

Symmetry == Permutations(Masters)
=============================================================================
