------------------------------- MODULE MCLeaky -------------------------------
(* The invariants and the liveness of the vector in one run of TLC.         *)
EXTENDS LeakyInv, LeakyLive
=============================================================================
