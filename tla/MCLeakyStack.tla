---------------------------- MODULE MCLeakyStack -----------------------------
(* LeakyStack for TLC.                                                      *)
EXTENDS LeakyStack, TLC

Symmetry == Permutations(Threads)
=============================================================================
