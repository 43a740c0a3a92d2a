----------------------------- MODULE MCLeakySize -----------------------------
(* LeakySize for TLC.                                                       *)
EXTENDS LeakySize, TLC

Symmetry == Permutations(Threads)
=============================================================================
