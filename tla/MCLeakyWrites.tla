---------------------------- MODULE MCLeakyWrites ----------------------------
(* LeakyWrites for TLC.                                                     *)
EXTENDS LeakyWrites, TLC

Symmetry == Permutations(Threads)
=============================================================================
