----------------------------- MODULE LeakyBench ------------------------------
(***************************************************************************)
(* The workload that the repository runs on the vector (the unlocked!      *)
(* macro of bench_macros.rs): the main thread reserves room for all the    *)
(* elements, then, in every iteration of the benchmark, each worker pushes *)
(* Iters elements, all are joined, each pops Iters elements and unwraps    *)
(* what it gets, and all are joined.                                       *)
(***************************************************************************)
EXTENDS LeakyInv, FiniteSets

CONSTANTS
  Main,    \* the thread that reserves and joins
  Iters,   \* num_iters: pushes, or pops, of a worker between two joins
  Rounds   \* bound: calls of the closure that b.iter repeats

ASSUME BenchAssumption ==
  /\ Main \in Threads /\ IsFiniteSet(Threads)   \* num_threads is a number
  /\ Iters \in Nat /\ Rounds \in Nat
  /\ MaxCalls = 2 * Rounds * Iters
  /\ ReserveArgs = {Iters * Cardinality(Threads \ {Main})}

VARIABLE phase   \* 0: main reserves; then odd: workers push, even: they pop

Workers == Threads \ {Main}
Total   == Iters * Cardinality(Workers)

Pushing == phase % 2 = 1
Popping == phase % 2 = 0 /\ phase # 0

BenchInit == Init /\ phase = 0

MainReserves == phase = 0 /\ op[Main] = "new" /\ CallReserve(Main) /\ UNCHANGED phase

WorkerCalls(t) ==
  /\ calls[t] < Iters * phase
  /\ (Pushing /\ CallPush(t)) \/ (Popping /\ CallPop(t))
  /\ UNCHANGED phase

\* Every spawned thread has run to its end.
Joined ==
  /\ \A t \in Threads : pc[t] = "idle"
  /\ op[Main] = "reserve"
  /\ \A t \in Workers : calls[t] = Iters * phase

Join == Joined /\ phase < 2 * Rounds /\ phase' = phase + 1 /\ UNCHANGED vars

Done == Joined /\ phase = 2 * Rounds
End  == Done /\ UNCHANGED <<vars, phase>>

BenchStep(t) == Step(t) /\ UNCHANGED phase

BenchNext ==
  \/ MainReserves \/ Join \/ End
  \/ \E t \in Workers : WorkerCalls(t)
  \/ \E t \in Threads : BenchStep(t)

BenchSpec == BenchInit /\ [][BenchNext]_<<vars, phase>>

\* The scheduler runs every thread, and compare_exchange_weak does not fail
\* spuriously for ever.
Swaps(t) == (PushSwaps(t) \/ PopSwaps(t)) /\ UNCHANGED phase
FairBenchSpec ==
  /\ BenchSpec
  /\ WF_<<vars, phase>>(MainReserves) /\ WF_<<vars, phase>>(Join)
  /\ \A t \in Workers : WF_<<vars, phase>>(WorkerCalls(t))
  /\ \A t \in Threads : WF_<<vars, phase>>(BenchStep(t)) /\ SF_<<vars, phase>>(Swaps(t))

-----------------------------------------------------------------------------

\* "We know that no allocations happened during the multi-threaded part"
\* (leaky.rs:372): after reserve no worker comes to allocate_bucket, in the
\* first iteration or in a later one.
NothingAllocated == \A t \in Workers : pc[t] # "allocate_bucket"

\* data.pop().unwrap() (bench_macros.rs:99) does not panic: there is an
\* element for every pop, also for the one that finds a replaced Descriptor.
PopUnwraps == \A t \in Workers : op[t] = "pop" /\ pc[t] = "idle" => res[t] # None

\* At every join the size is that of a vector no thread is using: all of the
\* elements are in it or none, and no write is left pending.
JoinedSize ==
  Joined /\ phase > 0 =>
    /\ ~descs[descriptor].pending
    /\ descs[descriptor].size = IF Pushing THEN Total ELSE 0

\* The pushes, or pops, of worker t since the last join that have swapped
\* their Descriptor in: of the calls it made all but the one it is in, until
\* that has swapped.
Unannounced(t) ==
  \/ pc[t] \in {"load_descriptor", "load_pending"} \cup InLoop
  \/ pc[t] \in InWrite /\ ret[t] # "idle"
Before       == IF phase = 0 THEN 0 ELSE Iters * (phase - 1)
Announced(t) == calls[t] - Before - (IF Unannounced(t) THEN 1 ELSE 0)

\* The elements that are announced and not yet popped: worker t's k-th push
\* adds <<t, k>>, and its k-th pop takes <<t, k>>, be it another's push.
Present == {e \in Workers \X (1 .. Iters) :
              \/ Pushing /\ e[2] <= Announced(e[1])
              \/ Popping /\ e[2] > Announced(e[1])}

\* Until the first join only the main thread does anything: it reserves Total.
MainFirst ==
  /\ op[Main] \in {"new", "reserve"}
  /\ op[Main] = "new" => pc[Main] = "idle" /\ phase = 0
  /\ op[Main] = "reserve" => arg[Main] = Total
  /\ phase > 0 => pc[Main] = "idle"
  /\ phase = 0 => \A t \in Workers : pc[t] = "idle"

\* A worker does what the phase is for, and never allocates or panics.
WorkerKnown(t) ==
  /\ calls[t] \in Before .. Iters * phase
  /\ Unannounced(t) => calls[t] > Before
  /\ pc[t] # "idle" =>
       /\ pc[t] \notin {"panicked", "allocate_bucket"}
       /\ op[t] = IF Pushing THEN "push" ELSE "pop"
  /\ pc[t] = "check_bucket" \/ (pc[t] \in InWrite /\ ret[t] = "idle") => op[t] = "push"
  /\ op[t] \in {"new", "push", "pop"}
  /\ op[t] = "pop" /\ pc[t] = "idle" => res[t] # None

\* The Descriptor a worker has loaded is of this phase, in which the size only
\* grows, or only shrinks.
LoadedThisPhase(t) ==
  Unannounced(t) /\ pc[t] # "load_descriptor" =>
    IF Pushing THEN descs[cur[t]].size <= descs[descriptor].size
               ELSE descs[cur[t]].size >= descs[descriptor].size

\* The thread that announced a pending write is still inside push.
PendingOwned ==
  descs[descriptor].pending =>
    \E t \in Workers : pc[t] \in InWrite /\ ret[t] = "idle" /\ wd[t] = descriptor

\* The inductive invariant of the benchmark: the size of the current
\* Descriptor is the number of elements announced and not popped, whoever
\* completes the writes and however often a compare_exchange fails.
BenchInv ==
  /\ phase \in Nat /\ MainFirst /\ PendingOwned
  /\ descs[descriptor].size = Cardinality(Present)
  /\ \A t \in Workers : WorkerKnown(t) /\ LoadedThisPhase(t)

\* The benchmark ends: threads that make each other's compare_exchange fail
\* do not do so for ever.
Terminates == <>Done
=============================================================================
