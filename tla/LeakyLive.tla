------------------------------ MODULE LeakyLive ------------------------------
(***************************************************************************)
(* Lock freedom of leaky::SecVec: "we are guaranteed that after some       *)
(* amount of time, at least one thread will make progress"                 *)
(* (mdbook/src/concurrency/keywords.md), also when other threads stop      *)
(* anywhere, for instance between the swap of a Descriptor and the write   *)
(* that it announces.  As each thread makes MaxCalls calls, the progress   *)
(* of some thread is, in the end, that of every thread that runs.          *)
(***************************************************************************)
EXTENDS Leaky

CONSTANT Live   \* the threads that the scheduler keeps running

ASSUME LiveAssumption == Live \subseteq Threads

\* A live thread takes its next step, and its compare_exchange_weak does not
\* fail spuriously for ever.  Nothing is said of the other threads.
FairSpec ==
  /\ Spec
  /\ \A t \in Live : WF_vars(Step(t)) /\ SF_vars(PushSwaps(t) \/ PopSwaps(t))

Resting(t) == pc[t] \in {"idle", "panicked"}

\* Every call of a live thread ends, wherever the other threads have stopped:
\* no thread waits for another one to complete its write.
CallsEnd == \A t \in Live : ~Resting(t) ~> Resting(t)
=============================================================================
