---------------------------- MODULE MCSealedMain -----------------------------
EXTENDS SealedMain

MC == INSTANCE MCSealed

MCMainNext ==
  IF MC!Forgotten # {} THEN MC!ReclaimForgotten /\ UNCHANGED <<phase, sum>>
                       ELSE MainNext /\ MC!LowestFirst

\* InTime keeps only steps of the domain back, never one of a thread.
FairInTimeSpec == MainInit /\ [][MCMainNext /\ InTime]_MainVars /\ Fairness
=============================================================================
