----------------------------- MODULE SealedMain ------------------------------
(***************************************************************************)
(* The program of main.rs on sealed::SecVec, which is also its test        *)
(* the_big_multithread: the main thread reserves room for everything, the  *)
(* workers push the same value PerWorker times each and are joined, then   *)
(* as many workers pop as often, add up what they get with a 0 for a None, *)
(* and are joined; then the vector is dropped.                             *)
(***************************************************************************)
EXTENDS SealedInv

CONSTANTS
  Main,       \* the thread that reserves and joins
  FIVE,       \* the value that is pushed
  PerWorker   \* bound: pushes, or pops, of a worker: 100 in the code

ASSUME MainAssumption ==
  /\ Main \in Threads /\ IsFiniteSet(Threads)   \* main has a list of them
  /\ PerWorker \in Nat
  /\ MaxCalls = 2 * PerWorker
  /\ FIVE \in Nat /\ Values = {FIVE}
  /\ ReserveArgs = {PerWorker * Cardinality(Threads \ {Main})}

VARIABLES
  phase,   \* 0: main reserves; 1: workers push; 2: workers pop
  sum

Workers == Threads \ {Main}
Total   == PerWorker * Cardinality(Workers)

MainInit == Init /\ phase = 0 /\ sum = 0

MainReserves ==
  phase = 0 /\ op[Main] = "new" /\ CallReserve(Main) /\ UNCHANGED <<phase, sum>>

WorkerCalls(t) ==
  /\ calls[t] < PerWorker * phase
  /\ (phase = 1 /\ CallPush(t)) \/ (phase = 2 /\ CallPop(t))
  /\ UNCHANGED <<phase, sum>>

\* Every spawned thread has run to its end.
Joined ==
  /\ \A t \in Threads : pc[t] = "idle"
  /\ op[Main] = "reserve"
  /\ \A t \in Workers : calls[t] = PerWorker * phase

Join == Joined /\ phase < 2 /\ phase' = phase + 1 /\ UNCHANGED <<vars, sum>>

UnwrapOr(value) == IF value = None THEN 0 ELSE value

\* The worker adds what its pop returned before it does anything else.
MainStep(t) ==
  /\ Step(t)
  /\ sum' = IF op[t] = "pop" /\ pc'[t] = "idle" THEN sum + UnwrapOr(res'[t]) ELSE sum
  /\ UNCHANGED phase

Done == Joined /\ phase = 2
MainDrops   == Done /\ Drop /\ UNCHANGED <<phase, sum>>
MainDomain  == Reclaim /\ UNCHANGED <<phase, sum>>
End == dropped /\ UNCHANGED <<vars, phase, sum>>

MainNext ==
  \/ MainReserves \/ Join \/ MainDrops \/ MainDomain \/ End
  \/ \E t \in Workers : WorkerCalls(t)
  \/ \E t \in Threads : MainStep(t)

MainVars == <<vars, phase, sum>>
MainSpec == MainInit /\ [][MainNext]_MainVars

\* The domain leaves the write descriptor of a push alone until it was read.
InTime == OwnWriteIsNotFreed'
InTimeSpec == MainInit /\ [][MainNext /\ InTime]_MainVars

\* The scheduler runs every thread, and compare_exchange_weak does not fail
\* spuriously for ever. The domain need not free anything.
MainThread == MainReserves \/ Join \/ MainDrops \/ MainStep(Main)
Worker(t)  == WorkerCalls(t) \/ MainStep(t)
Swaps(t)   == MainStep(t) /\ pc[t] = "swap_descriptor" /\ descriptor' # descriptor
Fairness ==
  /\ WF_MainVars(MainThread)
  /\ \A t \in Workers : WF_MainVars(Worker(t)) /\ SF_MainVars(Swaps(t))

-----------------------------------------------------------------------------

\* Every element is popped once: what the workers add up is what was pushed,
\* as long as the domain does not free the write descriptor of a push early.
SumIsPushed == Done => sum = FIVE * Total

\* main returns, and with it every thread and the vector: workers that make
\* each other's compare_exchange fail, and free what they made for it, do not
\* do so for ever.
Terminates == <>dropped

-----------------------------------------------------------------------------
(* Why *)

Count(d)   == descs[d].size
WriteOf(d) == writes[descs[d].pending]

\* The pushes, or pops, of worker t since the last join that have swapped
\* their Descriptor in: of the calls it made all but the one it is in, until
\* that has swapped.
Unannounced(t) ==
  \/ pc[t] \in {"load_descriptor", "load_pending", "check_bucket", "allocate_bucket",
                "read_elem", "swap_descriptor", "panicked"}
  \/ pc[t] \in Writing /\ ~Own(t)
Before       == IF phase = 2 THEN PerWorker ELSE 0
Announced(t) == calls[t] - Before - (IF Unannounced(t) THEN 1 ELSE 0)

\* The elements that are announced and not yet popped: worker t's k-th push
\* adds <<t, k>>, and its k-th pop takes <<t, k>>, be it another's push.
Present == {e \in Workers \X (1 .. PerWorker) :
              \/ phase = 1 /\ e[2] <= Announced(e[1])
              \/ phase = 2 /\ e[2] > Announced(e[1])}

\* Until the first join only the main thread does anything.
MainFirst ==
  /\ phase \in 0 .. 2
  /\ op[Main] \in {"new", "reserve"}
  /\ op[Main] = "new" => pc[Main] = "idle" /\ phase = 0
  /\ phase > 0 => pc[Main] = "idle"
  /\ phase = 0 => \A t \in Workers : pc[t] = "idle"

\* A worker does what the phase is for.
WorkerCalled(t) ==
  /\ calls[t] \in Before .. PerWorker * phase
  /\ Unannounced(t) => calls[t] > Before
  /\ pc[t] # "idle" => op[t] = IF phase = 1 THEN "push" ELSE "pop"
  /\ op[t] = "push" => arg[t] = FIVE

\* The write that makes the size n: no element was in its cell before.
IsWrite(w, n) == w = [some |-> TRUE, new |-> FIVE, old |-> Zero, location |-> n - 1]

\* The size that the write which t is about to complete belongs to.
Made(t) == IF Own(t) THEN Count(cur[t]) + 1 ELSE Count(cur[t])

\* While the workers push, sizes only grow; so they number the Descriptors, and
\* a thread that completes a write late finds an older or the same Descriptor.
PushKnown(t) ==
  /\ pc[t] \in HasDesc =>
       /\ Count(cur[t]) <= Count(descriptor)
       /\ WriteOf(cur[t]).some => IsWrite(WriteOf(cur[t]), Count(cur[t]))
  /\ pc[t] \in Writing => Made(t) <= Count(descriptor)
  /\ pc[t] = "write_cell" => IsWrite(writes[wd[t]], Made(t))
  /\ pc[t] = "clear_pending" =>
       /\ Made(t) <= Count(target[t]) /\ Count(target[t]) <= Count(descriptor)
       /\ Count(target[t]) = Count(descriptor) => target[t] = descriptor
  /\ pc[t] = "swap_descriptor" =>
       /\ Count(next[t]) = Count(cur[t]) + 1
       /\ WriteOf(next[t]) = [some |-> TRUE, new |-> FIVE, old |-> WriteOf(next[t]).old,
                              location |-> Count(cur[t])]
       /\ Count(cur[t]) = Count(descriptor) => WriteOf(next[t]).old = Zero

\* While they pop, sizes only shrink, nothing is left to be written, and what
\* is read from a cell is what was pushed.
PopKnown(t) ==
  /\ pc[t] \in {"idle", "load_descriptor", "load_pending", "read_elem", "swap_descriptor"}
  /\ pc[t] \in HasDesc =>
       Count(cur[t]) \in Count(descriptor) .. Total /\ ~WriteOf(cur[t]).some
  /\ pc[t] = "swap_descriptor" =>
       Count(next[t]) + 1 = Count(cur[t]) /\ ~WriteOf(next[t]).some /\ elem[t] = FIVE

WorkerKnown(t) ==
  WorkerCalled(t) /\ (phase = 1 => PushKnown(t)) /\ (phase = 2 => PopKnown(t))

\* Worker t is to write the element with index i.
ToWrite(t, i) == Completing(t) /\ pc[t] = "write_cell" /\ Count(cur[t]) = i

\* What was pushed is in its cell, or its push is about to write it; there is
\* nothing yet in the cells to come.
CellsKnown ==
  /\ \A i \in 0 .. (IF phase = 2 THEN Total ELSE Count(descriptor)) - 1 :
       cells[i] = FIVE \/ (cells[i] = Zero /\ \E t \in Workers : ToWrite(t, i))
  /\ phase < 2 => \A i \in Slots : i >= Count(descriptor) => cells[i] = Zero

\* A pending write has its push at work on it.
PendingOwned ==
  WriteOf(descriptor).some =>
    /\ IsWrite(WriteOf(descriptor), Count(descriptor))
    /\ \E t \in Workers : Completing(t) /\ Count(cur[t]) + 1 = Count(descriptor)

\* The inductive invariant of the program, on the strength of MemoryInv: the
\* size is the number of elements announced and not popped, their cells hold
\* what was pushed, and what was popped is in the sum.
MainInv ==
  /\ MainFirst /\ OwnWriteIsNotFreed /\ PendingOwned /\ CellsKnown
  /\ Count(descriptor) = Cardinality(Present)
  /\ sum = IF phase = 2 THEN FIVE * (Total - Count(descriptor)) ELSE 0
  /\ \A t \in Workers : WorkerKnown(t)
=============================================================================
