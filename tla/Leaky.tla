-------------------------------- MODULE Leaky --------------------------------
(***************************************************************************)
(* leaky::SecVec: the lock-free vector that never gives memory back.       *)
(* Threads share one vector and call push, pop, size and reserve on it;    *)
(* an action is the code between two accesses to shared atomics, so that   *)
(* TLC interleaves the threads at every load, store and compare_exchange.  *)
(*                                                                         *)
(* A Descriptor is never freed, so its address names it for good: here     *)
(* descriptors are numbered in the order in which they are swapped in, and *)
(* "descriptor" is the number of the current one.  Every Some(..) write    *)
(* descriptor is made for one Descriptor and is written d.new, d.old,      *)
(* d.location; d.pending says whether the Descriptor still points to it or *)
(* to a None.  A Descriptor that is not swapped in stays in its thread and *)
(* leaks; it has no number.                                                *)
(*                                                                         *)
(* An element cell is named by its index: Buckets shows that get() maps    *)
(* the indices one to one to cells.                                        *)
(***************************************************************************)
EXTENDS Buckets

CONSTANTS
  Threads,      \* the threads that share the vector
  Values,       \* the bit patterns of the elements that are pushed
  ReserveArgs,  \* the arguments reserve is called with
  None,         \* the None that pop returns, and "no result yet"
  MaxCalls      \* bound: calls that one thread makes

ASSUME LeakyAssumption ==
  /\ Values \subseteq Nat
  /\ ReserveArgs \subseteq 0 .. UsizeMax
  /\ None \notin Nat
  /\ MaxCalls \in Nat

VARIABLES
  buffers,     \* SecVec.buffers: whether the pointer to bucket b is non-null
  cells,       \* the AtomicU64 of each element index
  descriptor,  \* SecVec.descriptor: the number of the current Descriptor
  descs,       \* the Descriptors that were swapped in, by number
  pc,          \* where each thread is
  op, arg,     \* the method a thread runs, or ran last, and its argument
  res,         \* what the last call of each thread returned
  cur,         \* current_desc / desc: the Descriptor the thread loaded
  wd,          \* the Descriptor whose write descriptor complete_write got
  target,      \* the Descriptor complete_write loaded to clear
  ret,         \* where complete_write returns to
  elem,        \* the u64 read from an element cell
  allocs,      \* num_current_allocs of reserve
  calls        \* the calls each thread has made (bounded by MaxCalls)

shared == <<buffers, cells, descriptor, descs>>
call   == <<op, arg, res, calls>>
work   == <<wd, target, ret, elem, allocs>>
vars   == <<shared, pc, call, cur, work>>

Zero == 0   \* the bits of allocate_zeroed memory

\* The fields of a Descriptor that pop makes: its write descriptor is None.
NoWrite(size) ==
  [size |-> size, pending |-> FALSE, new |-> Zero, old |-> Zero, location |-> 0]

-----------------------------------------------------------------------------

Goto(t, label) == pc' = [pc EXCEPT ![t] = label]

\* Local variables go out of scope when a call, or an attempt of its loop, ends.
EndOfScope(t) ==
  /\ cur'    = [cur EXCEPT ![t] = 1]
  /\ wd'     = [wd EXCEPT ![t] = 1]
  /\ target' = [target EXCEPT ![t] = 1]
  /\ ret'    = [ret EXCEPT ![t] = "idle"]
  /\ elem'   = [elem EXCEPT ![t] = Zero]
  /\ allocs' = [allocs EXCEPT ![t] = 0]

Return(t, value) ==
  /\ Goto(t, "idle")
  /\ res' = [res EXCEPT ![t] = value]
  /\ EndOfScope(t)
  /\ UNCHANGED <<op, arg, calls>>

\* A panic unwinds the thread and leaves the vector as it is.
PanicIn(t) ==
  /\ Goto(t, "panicked")
  /\ EndOfScope(t)
  /\ UNCHANGED <<shared, call>>

-----------------------------------------------------------------------------
(* Calls *)

Init ==
  /\ buffers    = [b \in Buffers |-> FALSE]
  /\ cells      = [i \in Slots |-> Zero]
  /\ descriptor = 1
  /\ descs      = [d \in 1 .. 1 |-> NoWrite(0)]
  /\ pc     = [t \in Threads |-> "idle"]
  /\ op     = [t \in Threads |-> "new"]
  /\ arg    = [t \in Threads |-> 0]
  /\ res    = [t \in Threads |-> None]
  /\ cur    = [t \in Threads |-> 1]
  /\ wd     = [t \in Threads |-> 1]
  /\ target = [t \in Threads |-> 1]
  /\ ret    = [t \in Threads |-> "idle"]
  /\ elem   = [t \in Threads |-> Zero]
  /\ allocs = [t \in Threads |-> 0]
  /\ calls  = [t \in Threads |-> 0]

Call(t, method, argument) ==
  /\ pc[t] = "idle"
  /\ calls[t] < MaxCalls
  /\ Goto(t, "load_descriptor")
  /\ op'    = [op EXCEPT ![t] = method]
  /\ arg'   = [arg EXCEPT ![t] = argument]
  /\ res'   = [res EXCEPT ![t] = None]
  /\ calls' = [calls EXCEPT ![t] = @ + 1]
  /\ UNCHANGED <<shared, cur, work>>

CallPush(t)    == \E v \in Values : Call(t, "push", v)
CallPop(t)     == Call(t, "pop", 0)
CallSize(t)    == Call(t, "size", 0)
CallReserve(t) == \E n \in ReserveArgs : Call(t, "reserve", n)

LoadDescriptor(t) ==
  /\ pc[t] = "load_descriptor"
  /\ cur' = [cur EXCEPT ![t] = descriptor]
  /\ Goto(t, "load_pending")
  /\ UNCHANGED <<shared, call, work>>

-----------------------------------------------------------------------------
(* complete_write, called with the write descriptor of another thread or   *)
(* with the thread's own one                                               *)

AfterHelping(t) == IF op[t] = "push" THEN "check_bucket" ELSE "read_elem"

\* Mutated: a pending write of another thread is left as it is.
LoadPendingUnhelpful(t) ==
  /\ pc[t] = "load_pending"
  /\ op[t] \in {"push", "pop"}
  /\ Goto(t, AfterHelping(t))
  /\ UNCHANGED <<shared, call, cur, work>>

\* Mutated: spin until its owner has completed the pending write.
LoadPendingWaits(t) ==
  /\ pc[t] = "load_pending"
  /\ op[t] \in {"push", "pop"}
  /\ Goto(t, IF descs[cur[t]].pending THEN "load_descriptor" ELSE AfterHelping(t))
  /\ UNCHANGED <<shared, call, cur, work>>

LoadPending(t) ==
  /\ pc[t] = "load_pending"
  /\ op[t] \in {"push", "pop"}
  /\ \/ /\ descs[cur[t]].pending
        /\ wd'  = [wd EXCEPT ![t] = cur[t]]
        /\ ret' = [ret EXCEPT ![t] = AfterHelping(t)]
        /\ Goto(t, "write_cell")
     \/ /\ ~descs[cur[t]].pending
        /\ Goto(t, AfterHelping(t))
        /\ UNCHANGED <<wd, ret>>
  /\ UNCHANGED <<shared, call, cur, target, elem, allocs>>

\* Mutated: an owner whose write was executed by another thread returns at once.
WriteCellOwnerLeaves(t) ==
  LET w == descs[wd[t]]
      done == ret[t] = "idle" /\ cells[w.location] # w.old IN
  /\ pc[t] = "write_cell"
  /\ \/ /\ ~done
        /\ cells' = [cells EXCEPT ![w.location] = IF @ = w.old THEN w.new ELSE @]
        /\ Goto(t, "load_target")
        /\ UNCHANGED <<call, cur, work>>
     \/ done /\ Return(t, None) /\ UNCHANGED cells
  /\ UNCHANGED <<buffers, descriptor, descs>>

WriteCell(t) ==
  LET w == descs[wd[t]] IN
  /\ pc[t] = "write_cell"
  /\ cells' = [cells EXCEPT ![w.location] = IF @ = w.old THEN w.new ELSE @]
  /\ Goto(t, "load_target")
  /\ UNCHANGED <<buffers, descriptor, descs, call, cur, work>>

\* Not the Descriptor that wd came from: whichever is current now.
LoadTarget(t) ==
  /\ pc[t] = "load_target"
  /\ target' = [target EXCEPT ![t] = descriptor]
  /\ Goto(t, "clear_pending")
  /\ UNCHANGED <<shared, call, cur, wd, ret, elem, allocs>>

ClearPending(t) ==
  /\ pc[t] = "clear_pending"
  /\ descs' = [descs EXCEPT ![target[t]].pending = FALSE]
  /\ IF ret[t] = "idle"
     THEN Return(t, None)
     ELSE /\ Goto(t, ret[t])
          /\ wd'     = [wd EXCEPT ![t] = 1]
          /\ target' = [target EXCEPT ![t] = 1]
          /\ ret'    = [ret EXCEPT ![t] = "idle"]
          /\ UNCHANGED <<call, cur, elem, allocs>>
  /\ UNCHANGED <<buffers, cells, descriptor>>

-----------------------------------------------------------------------------
(* allocate_bucket *)

\* compare_exchange(null, fresh zeroed block); the loser frees its own block.
InstallBucket(b) ==
  IF buffers[b]
  THEN UNCHANGED <<buffers, cells>>
  ELSE /\ buffers' = [buffers EXCEPT ![b] = TRUE]
       /\ cells'   = [i \in Slots |-> IF bucket_of(i) = b THEN Zero ELSE cells[i]]

AllocateBucket(t, b) ==
  /\ layout_ok(b)
  /\ InstallBucket(b)
  /\ UNCHANGED <<descriptor, descs, call, cur, wd, target, ret, elem>>

\* capacity_overflow()
CapacityOverflow(t, b) == ~layout_ok(b) /\ PanicIn(t)

-----------------------------------------------------------------------------
(* The compare_exchange of the descriptor *)

\* In push and pop: the next Descriptor replaces the one that was loaded.
SwapDescriptor(t, next) ==
  /\ pc[t] = "swap_descriptor"
  /\ descriptor = cur[t]
  /\ descriptor' = descriptor + 1
  /\ descs' = [d \in 1 .. descriptor + 1 |->
                 IF d = descriptor + 1 THEN next ELSE descs[d]]
  /\ UNCHANGED <<buffers, cells>>

\* Mutated: the next attempt uses the Descriptor that was loaded before.
RetryWithoutLoad(t) ==
  /\ pc[t] = "swap_descriptor"
  /\ Goto(t, "read_elem")
  /\ UNCHANGED <<shared, call, cur, work>>

\* compare_exchange_weak fails when the descriptor changed, and it may fail
\* spuriously; backoff.spin() and around the loop again.
RetrySwap(t) ==
  /\ pc[t] = "swap_descriptor"
  /\ Goto(t, "load_descriptor")
  /\ EndOfScope(t)
  /\ UNCHANGED <<shared, call>>

-----------------------------------------------------------------------------
(* push *)

\* Mutated: push relies on the bucket being there.
CheckBucketSkipped(t) ==
  /\ pc[t] = "check_bucket"
  /\ Goto(t, "read_elem")
  /\ UNCHANGED <<shared, call, cur, work>>

CheckBucket(t) ==
  /\ pc[t] = "check_bucket"
  /\ Goto(t, IF buffers[bucket_of(descs[cur[t]].size)]
             THEN "read_elem" ELSE "allocate_bucket")
  /\ UNCHANGED <<shared, call, cur, work>>

PushAllocates(t) ==
  LET b == bucket_of(descs[cur[t]].size) IN
  /\ pc[t] = "allocate_bucket"
  /\ \/ /\ AllocateBucket(t, b)
        /\ Goto(t, "read_elem")
        /\ UNCHANGED allocs
     \/ CapacityOverflow(t, b)

\* Mutated: a cell beyond the end is taken to be zero.
ReadOldZero(t) ==
  /\ pc[t] = "read_elem" /\ op[t] = "push"
  /\ elem' = [elem EXCEPT ![t] = Zero]
  /\ Goto(t, "swap_descriptor")
  /\ UNCHANGED <<shared, call, cur, wd, target, ret, allocs>>

\* last_elem.load: the old value of the next write descriptor.
ReadOld(t) ==
  /\ pc[t] = "read_elem" /\ op[t] = "push"
  /\ elem' = [elem EXCEPT ![t] = cells[descs[cur[t]].size]]
  /\ Goto(t, "swap_descriptor")
  /\ UNCHANGED <<shared, call, cur, wd, target, ret, allocs>>

\* Mutated: the size is not incremented.
PushSwapsSameSize(t) ==
  LET size == descs[cur[t]].size IN
  /\ op[t] = "push"
  /\ SwapDescriptor(t, [size |-> size, pending |-> TRUE,
                        new |-> arg[t], old |-> elem[t], location |-> size])
  /\ wd'  = [wd EXCEPT ![t] = descriptor + 1]
  /\ ret' = [ret EXCEPT ![t] = "idle"]
  /\ Goto(t, "write_cell")
  /\ UNCHANGED <<call, cur, target, elem, allocs>>

PushSwaps(t) ==
  LET size == descs[cur[t]].size IN
  /\ op[t] = "push"
  /\ SwapDescriptor(t, [size |-> size + 1, pending |-> TRUE,
                        new |-> arg[t], old |-> elem[t], location |-> size])
  /\ wd'  = [wd EXCEPT ![t] = descriptor + 1]
  /\ ret' = [ret EXCEPT ![t] = "idle"]
  /\ Goto(t, "write_cell")
  /\ UNCHANGED <<call, cur, target, elem, allocs>>

-----------------------------------------------------------------------------
(* pop *)

PopEmpty(t) ==
  /\ pc[t] = "read_elem" /\ op[t] = "pop"
  /\ descs[cur[t]].size = 0
  /\ Return(t, None)
  /\ UNCHANGED shared

ReadLast(t) ==
  /\ pc[t] = "read_elem" /\ op[t] = "pop"
  /\ descs[cur[t]].size # 0
  /\ elem' = [elem EXCEPT ![t] = cells[descs[cur[t]].size - 1]]
  /\ Goto(t, "swap_descriptor")
  /\ UNCHANGED <<shared, call, cur, wd, target, ret, allocs>>

\* Mutated: the size is not decremented.
PopSwapsSameSize(t) ==
  /\ op[t] = "pop"
  /\ SwapDescriptor(t, NoWrite(descs[cur[t]].size))
  /\ Return(t, elem[t])

PopSwaps(t) ==
  /\ op[t] = "pop"
  /\ SwapDescriptor(t, NoWrite(descs[cur[t]].size - 1))
  /\ Return(t, elem[t])

-----------------------------------------------------------------------------
(* size and reserve *)

\* A pending push counts for nothing yet.
SizeOf(d) == IF descs[d].pending THEN descs[d].size - 1 ELSE descs[d].size

\* Mutated: the pending write is not looked at.
SizeIgnoresPending(t) ==
  /\ pc[t] = "load_pending" /\ op[t] = "size"
  /\ Return(t, descs[cur[t]].size)
  /\ UNCHANGED shared

Size(t) ==
  /\ pc[t] = "load_pending" /\ op[t] = "size"
  /\ Return(t, SizeOf(cur[t]))
  /\ UNCHANGED shared

\* Mutated: bucket 0 is not allocated apart when the vector is empty.
ReserveSizeNoFirst(t) ==
  /\ pc[t] = "load_pending" /\ op[t] = "reserve"
  /\ allocs' = [allocs EXCEPT ![t] = last_bucket(SizeOf(cur[t]))]
  /\ Goto(t, "reserve_next")
  /\ UNCHANGED <<shared, call, cur, wd, target, ret, elem>>

ReserveSize(t) ==
  LET current_size == SizeOf(cur[t]) IN
  /\ pc[t] = "load_pending" /\ op[t] = "reserve"
  /\ allocs' = [allocs EXCEPT ![t] = last_bucket(current_size)]
  /\ Goto(t, IF current_size = 0 THEN "reserve_first" ELSE "reserve_next")
  /\ UNCHANGED <<shared, call, cur, wd, target, ret, elem>>

ReserveFirst(t) ==
  /\ pc[t] = "reserve_first"
  /\ AllocateBucket(t, 0)
  /\ Goto(t, "reserve_next")
  /\ UNCHANGED allocs

ReserveNext(t) ==
  /\ pc[t] = "reserve_next"
  /\ allocs[t] < last_bucket(arg[t])
  /\ \/ /\ AllocateBucket(t, allocs[t] + 1)
        /\ allocs' = [allocs EXCEPT ![t] = @ + 1]
        /\ Goto(t, "reserve_next")
     \/ CapacityOverflow(t, allocs[t] + 1)

\* Mutated: the loop stops one bucket early.
ReserveDoneEarly(t) ==
  /\ pc[t] = "reserve_next"
  /\ allocs[t] + 1 >= last_bucket(arg[t])
  /\ Return(t, None)
  /\ UNCHANGED shared

ReserveDone(t) ==
  /\ pc[t] = "reserve_next"
  /\ allocs[t] >= last_bucket(arg[t])
  /\ Return(t, None)
  /\ UNCHANGED shared

-----------------------------------------------------------------------------

CompleteWrite(t) == LoadPending(t) \/ WriteCell(t) \/ LoadTarget(t) \/ ClearPending(t)
Push(t)    == CheckBucket(t) \/ PushAllocates(t) \/ ReadOld(t) \/ PushSwaps(t)
Pop(t)     == PopEmpty(t) \/ ReadLast(t) \/ PopSwaps(t)
Reserve(t) == ReserveSize(t) \/ ReserveFirst(t) \/ ReserveNext(t) \/ ReserveDone(t)

\* A thread inside a call takes its next step.
Step(t) ==
  \/ LoadDescriptor(t) \/ CompleteWrite(t) \/ RetrySwap(t)
  \/ Push(t) \/ Pop(t) \/ Size(t) \/ Reserve(t)

Calls(t) == CallPush(t) \/ CallPop(t) \/ CallSize(t) \/ CallReserve(t)

\* Every thread has made its calls, or has panicked.
Quiescent == \A t \in Threads :
  pc[t] = "panicked" \/ (pc[t] = "idle" /\ calls[t] = MaxCalls)
AllQuiescent == Quiescent /\ UNCHANGED vars

Next == (\E t \in Threads : Calls(t) \/ Step(t)) \/ AllQuiescent

Spec == Init /\ [][Next]_vars

-----------------------------------------------------------------------------
(* Properties *)

Labels == {"idle", "panicked", "load_descriptor", "load_pending", "write_cell",
           "load_target", "clear_pending", "check_bucket", "allocate_bucket",
           "read_elem", "swap_descriptor", "reserve_first", "reserve_next"}

Desc == [size : Nat, pending : BOOLEAN, new : Nat, old : Nat, location : Nat]

SharedTypeOK ==
  /\ buffers \in [Buffers -> BOOLEAN]
  /\ cells \in [Slots -> Nat]
  /\ descriptor \in Nat \ {0}
  /\ descs \in [1 .. descriptor -> Desc]

CallTypeOK ==
  /\ pc \in [Threads -> Labels]
  /\ op \in [Threads -> {"new", "push", "pop", "size", "reserve"}]
  /\ arg \in [Threads -> Nat]
  /\ res \in [Threads -> Nat \cup {None}]
  /\ calls \in [Threads -> 0 .. MaxCalls]

WorkTypeOK ==
  /\ cur \in [Threads -> 1 .. descriptor]
  /\ wd \in [Threads -> 1 .. descriptor]
  /\ target \in [Threads -> 1 .. descriptor]
  /\ ret \in [Threads -> {"idle", "check_bucket", "read_elem"}]
  /\ elem \in [Threads -> Nat]
  /\ allocs \in [Threads -> Nat]

\* The types of the variables: what a thread holds of Descriptors is the
\* number of one that was swapped in, and no size, result or element that it
\* computes leaves the natural numbers.
TypeOK == SharedTypeOK /\ CallTypeOK /\ WorkTypeOK

\* Whoever swaps a Descriptor out has first seen to it that its write was
\* completed: only the current Descriptor can have a pending write.  It takes
\* more than one thread to break this: complete_write stores its None into
\* whatever Descriptor is current by then, and so it clears the one that it
\* was called for only if nobody has replaced that one before it was cleared.
ReplacedCleared == \A d \in 1 .. descriptor - 1 : ~descs[d].pending

\* The buckets that are allocated are the first ones, with no hole, although
\* push and reserve allocate in any order from many threads: element i exists
\* only if all that precede it do.
BucketsPrefix ==
  \A b \in Buffers : buffers[b] => \A c \in 0 .. b - 1 : buffers[c]

\* Element i has its memory.
Backed(i) == i \in Slots /\ buffers[bucket_of(i)]

\* Every cell that a thread is about to read or to compare-and-exchange lies
\* in a bucket that is allocated: get never offsets a null pointer.
NoNullDeref == \A t \in Threads :
  /\ pc[t] = "write_cell" => Backed(descs[wd[t]].location)
  /\ pc[t] = "read_elem" /\ op[t] = "push" => Backed(descs[cur[t]].size)
  /\ pc[t] = "read_elem" /\ op[t] = "pop" /\ descs[cur[t]].size # 0
       => Backed(descs[cur[t]].size - 1)

\* Once reserve(n) has returned, every one of the elements 0 .. n-1 has its
\* memory, whatever the other threads did meanwhile; and when it panicked,
\* the memory could not be had.
Delivered(t) ==
  op[t] = "reserve" =>
    /\ pc[t] = "idle" => \A i \in 0 .. arg[t] - 1 : Backed(i)
    /\ pc[t] = "panicked" => arg[t] - 1 \notin Slots
ReserveDelivers == \A t \in Threads : Delivered(t)
=============================================================================
