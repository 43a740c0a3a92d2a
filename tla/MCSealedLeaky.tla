---------------------------- MODULE MCSealedLeaky ----------------------------
EXTENDS SealedLeaky, TLC

MC == INSTANCE MCSealed

MCHistoryNext == MC!MCNext /\ InTime /\ KeepHistory
MCHistorySpec == HistoryInit /\ [][MCHistoryNext]_<<vars, history>>
Symmetry == Permutations(Threads)
=============================================================================
