----------------------------- MODULE SealedLeaky -----------------------------
(***************************************************************************)
(* sealed::SecVec is leaky::SecVec with its memory given back: as long as  *)
(* the domain does not free the write descriptor that push is about to     *)
(* complete (see OwnWriteIsNotFreed), every step of the one is a step of   *)
(* the other.  Leaky names a Descriptor by the number of its swap; here    *)
(* history variables keep the numbers that go with the addresses.          *)
(***************************************************************************)
EXTENDS SealedInv, Sequences

VARIABLES
  log,      \* what was swapped in: size and write, by number
  number,   \* by address: the number of the Descriptor swapped in last
  curnum,   \* number of the Descriptor each thread has loaded, 1 if none
  wdnum     \* number of the one its write descriptor was made for, 1 if none

history == <<log, number, curnum, wdnum>>

HistoryInit ==
  /\ Init
  /\ log    = << [size |-> 0, write |-> NoWrite] >>
  /\ number = [d \in DAddrs |-> 1]
  /\ curnum = [t \in Threads |-> 1]
  /\ wdnum  = [t \in Threads |-> 1]

Swapped == descriptor' # descriptor

KeepHistory ==
  /\ log' = IF Swapped
            THEN Append(log, [size  |-> descs[descriptor'].size,
                              write |-> writes[descs[descriptor'].pending]])
            ELSE log
  /\ number' = IF Swapped THEN [number EXCEPT ![descriptor'] = Len(log) + 1] ELSE number
  /\ curnum' = [t \in Threads |->
       IF pc'[t] \in {"idle", "panicked", "load_descriptor"} THEN 1
       ELSE IF pc[t] = "load_descriptor" THEN Len(log) ELSE curnum[t]]
  /\ wdnum' = [t \in Threads |->
       IF wd'[t] = Null THEN 1
       ELSE IF wd[t] # Null THEN wdnum[t]
       ELSE IF Swapped THEN Len(log) + 1 ELSE curnum[t]]

\* The domain leaves the write descriptor of a push alone until it was read.
InTime == OwnWriteIsNotFreed'

InTimeNext  == Next /\ InTime /\ KeepHistory
HistorySpec == HistoryInit /\ [][InTimeNext]_<<vars, history>>

-----------------------------------------------------------------------------

\* Descriptor d was swapped in and was not freed since.
Live(d)    == heap[d] # "free" /\ \A t \in Threads : next[t] # d
WriteAt(d) == writes[descs[d].pending]

\* The write of Descriptor n is pending.
Pending(n) == \E d \in DAddrs : number[d] = n /\ Live(d) /\ WriteAt(d).some

\* What push read from the cell, while Leaky has it in elem.
ElemOf(t) ==
  CASE op[t] = "push" /\ next[t] # Null -> WriteAt(next[t]).old
    [] Completing(t)                    -> log[wdnum[t]].write.old
    [] OTHER                            -> elem[t]

LeakyBuffers == [b \in Buffers |-> buffers[b] # 0]
LeakyDescs   == [n \in 1 .. Len(log) |->
                  [size |-> log[n].size, pending |-> Pending(n),
                   new |-> log[n].write.new, old |-> log[n].write.old,
                   location |-> log[n].write.location]]
LeakyTarget  == [t \in Threads |-> IF target[t] = Null THEN 1 ELSE number[target[t]]]
LeakyElem    == [t \in Threads |-> ElemOf(t)]

Leaky == INSTANCE Leaky WITH
  buffers    <- LeakyBuffers,
  descriptor <- Len(log),
  descs      <- LeakyDescs,
  cur        <- curnum,
  wd         <- wdnum,
  target     <- LeakyTarget,
  elem       <- LeakyElem

\* Addresses that are used again, boxes that are freed and compare_exchange by
\* address change nothing: sealed::SecVec does what leaky::SecVec does, and
\* has its invariants.
ImplementsLeaky == Leaky!Spec

-----------------------------------------------------------------------------
(* Why: as long as anybody can tell, an address stands for one number *)

HistoryTypeOK ==
  /\ log \in Seq([size : Nat, write : WriteDescriptor]) /\ Len(log) > 0
  /\ number \in [DAddrs -> 1 .. Len(log)]
  /\ curnum \in [Threads -> 1 .. Len(log)]
  /\ wdnum \in [Threads -> 1 .. Len(log)]

\* The Descriptors that can still be read have different numbers, the current
\* one the last; what they hold is what was swapped in under their number,
\* and only the current one's write can be pending.
LiveKnown ==
  /\ ~dropped => number[descriptor] = Len(log)
  /\ \A d \in DAddrs : Live(d) =>
       /\ descs[d].size = log[number[d]].size
       /\ WriteAt(d).some => WriteAt(d) = log[number[d]].write /\ d = descriptor
       /\ \A e \in DAddrs : Live(e) /\ number[e] = number[d] => e = d

\* A pending write has its push at work on it.
PendingOwned ==
  ~dropped /\ WriteAt(descriptor).some =>
    \E t \in Threads : Completing(t) /\ wdnum[t] = Len(log)

\* The boxes t has made for the Descriptor that it is to swap in.
MadeNext(t) ==
  LET size == descs[cur[t]].size
      w    == WriteAt(next[t]) IN
  \/ op[t] = "push" /\ descs[next[t]].size = size + 1
                    /\ w = [some |-> TRUE, new |-> arg[t], old |-> w.old, location |-> size]
  \/ op[t] = "pop" /\ size # 0 /\ descs[next[t]].size = size - 1 /\ w = NoWrite

\* The numbers of t go with its addresses, and it clears no Descriptor that is
\* older than the one whose write it has executed.
NumbersKnown(t) ==
  /\ cur[t] # Null => curnum[t] = number[cur[t]]
  /\ pc[t] \in {"idle", "panicked", "load_descriptor"} => curnum[t] = 1
  /\ wd[t] = Null => wdnum[t] = 1
  /\ wd[t] # Null => log[wdnum[t]].write.some /\ (~Own(t) => wdnum[t] = curnum[t])
  /\ pc[t] = "write_cell" => heap[wd[t]] # "free" /\ writes[wd[t]] = log[wdnum[t]].write
  /\ pc[t] = "clear_pending" => wdnum[t] <= number[target[t]]
  /\ pc[t] \in {"check_bucket", "allocate_bucket", "read_elem", "swap_descriptor"} =>
       ~WriteAt(cur[t]).some
  /\ next[t] # Null => MadeNext(t)

\* The inductive invariant of the refinement.
HistoryInv ==
  /\ HistoryTypeOK /\ LiveKnown /\ PendingOwned
  /\ \A t \in Threads : NumbersKnown(t)
=============================================================================
