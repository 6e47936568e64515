---------------------------- MODULE MCBufQueueIsr ----------------------------
(* Instances of BufQueueIsr for TLC. *)
EXTENDS BufQueueIsr, TLC

\* The pbufs of the pool are interchangeable.
Symmetry == Permutations(Packets)
=============================================================================
