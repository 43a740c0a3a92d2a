------------------------------- MODULE Sealed --------------------------------
(***************************************************************************)
(* sealed::SecVec: the vector of leaky.rs with its memory given back.      *)
(* Here a Descriptor and a write descriptor are boxes at an address of the *)
(* heap.  The allocator may give the address of a freed box to a new one;  *)
(* compare_exchange compares addresses.  A box that was replaced is        *)
(* retired to the Domain of the haphazard crate, which frees it, at any    *)
(* time, when no hazard pointer protects it.                               *)
(*                                                                         *)
(* An action is the code between two accesses to shared atomics.  A load   *)
(* through a hazard pointer is one of them: haphazard repeats it until the *)
(* pointer was protected while it was still the current one.               *)
(***************************************************************************)
EXTENDS Buckets, FiniteSets

CONSTANTS
  Threads,      \* the threads that share the vector
  Values,       \* the bit patterns of the elements that are pushed
  ReserveArgs,  \* the arguments reserve is called with
  None,         \* the None that pop returns, and "no result yet"
  MaxCalls,     \* bound: calls that one thread makes
  DAddrs,       \* bound: the addresses of boxes that hold a Descriptor
  WAddrs,       \* bound: those of boxes with an Option<WriteDescriptor>
  Null          \* the null pointer

Addrs == DAddrs \cup WAddrs

ASSUME SealedAssumption ==
  /\ Values \subseteq Nat
  /\ ReserveArgs \subseteq 0 .. UsizeMax
  /\ None \notin Nat
  /\ MaxCalls \in Nat
  /\ DAddrs \cap WAddrs = {}
  /\ DAddrs # {} /\ WAddrs # {}
  /\ Null \notin Addrs

VARIABLES
  buffers,     \* SecVec.buffers: length of the block of each bucket, 0 if null
  cells,       \* the AtomicU64 of each element index
  descriptor,  \* SecVec.descriptor: the address of the current Descriptor
  descs,       \* what the address of a Descriptor holds
  writes,      \* what the address of a write descriptor holds
  heap,        \* what the allocator and the domain know of each address
  returned,    \* lengths of the blocks that Drop has given back; 0 before
  dropped,     \* the vector was dropped
  pc,          \* where each thread is
  op, arg,     \* the method a thread runs, or ran last, and its argument
  res,         \* what the last call of each thread returned
  hazards,     \* the addresses that a thread's hazard pointers protect
  cur,         \* current_desc / desc: the Descriptor the thread loaded
  wd,          \* pending: the write descriptor complete_write was called with
  target,      \* the Descriptor complete_write loaded to clear
  fresh,       \* new_writedesc: the None complete_write swaps in
  ret,         \* where complete_write returns to
  elem,        \* the u64 read from an element cell
  next,        \* next_desc: the Descriptor that is to be swapped in
  allocs,      \* num_current_allocs of reserve
  calls        \* the calls each thread has made (bounded by MaxCalls)

vector == <<buffers, cells, descriptor, descs, writes, heap>>
shared == <<vector, returned, dropped>>
call   == <<op, arg, res, calls>>
work   == <<wd, target, fresh, ret, elem, next, allocs>>
vars   == <<shared, pc, call, hazards, cur, work>>

Zero == 0   \* the bits of allocate_zeroed memory

NoWrite == [some |-> FALSE, new |-> Zero, old |-> Zero, location |-> 0]
Blank   == [size |-> 0, pending |-> Null]

\* Element i has its memory.
Backed(i) == i \in Slots /\ buffers[bucket_of(i)] # 0

FreeAmong(S) == {a \in S : heap[a] = "free"}

-----------------------------------------------------------------------------

Goto(t, label) == pc' = [pc EXCEPT ![t] = label]

\* Hazard pointers and locals end with a call, or an attempt of its loop.
EndOfScope(t) ==
  /\ hazards' = [hazards EXCEPT ![t] = {}]
  /\ cur'    = [cur EXCEPT ![t] = Null]
  /\ wd'     = [wd EXCEPT ![t] = Null]
  /\ target' = [target EXCEPT ![t] = Null]
  /\ fresh'  = [fresh EXCEPT ![t] = Null]
  /\ ret'    = [ret EXCEPT ![t] = "idle"]
  /\ elem'   = [elem EXCEPT ![t] = Zero]
  /\ next'   = [next EXCEPT ![t] = Null]
  /\ allocs' = [allocs EXCEPT ![t] = 0]

Return(t, value) ==
  /\ Goto(t, "idle")
  /\ res' = [res EXCEPT ![t] = value]
  /\ EndOfScope(t)
  /\ UNCHANGED <<op, arg, calls, returned, dropped>>

\* A panic unwinds the thread and leaves the vector as it is.
PanicIn(t) ==
  /\ Goto(t, "panicked")
  /\ EndOfScope(t)
  /\ UNCHANGED <<shared, call>>

-----------------------------------------------------------------------------
(* Boxes *)

\* Mutated: Descriptor has no Drop of its own.
FreedAlone(d) == {d}

\* What dropping the box of a Descriptor frees: its Drop frees the write
\* descriptor that is pending in it, whether or not that one is protected.
FreedWith(d) == {d, descs[d].pending}

\* Box::from_raw(d), dropped: the addresses can be used again.
FreeDescriptor(d) ==
  /\ heap'  = [a \in Addrs |-> IF a \in FreedWith(d) THEN "free" ELSE heap[a]]
  /\ descs' = [descs EXCEPT ![d] = Blank]

Unprotected(a) == \A t \in Threads : a \notin hazards[t]

\* The domain frees retired boxes, at a retire_in of any thread.
ReclaimDescriptor ==
  /\ \E d \in DAddrs : /\ heap[d] = "retired" /\ Unprotected(d)
                       /\ FreeDescriptor(d)
  /\ UNCHANGED <<buffers, cells, descriptor, writes, returned, dropped>>
  /\ UNCHANGED <<pc, call, hazards, cur, work>>

\* The bits of a freed write descriptor stay until the address is used again.
ReclaimWrite ==
  /\ \E w \in WAddrs : /\ heap[w] = "retired" /\ Unprotected(w)
                       /\ heap' = [heap EXCEPT ![w] = "free"]
  /\ UNCHANGED <<buffers, cells, descriptor, descs, writes, returned, dropped>>
  /\ UNCHANGED <<pc, call, hazards, cur, work>>

-----------------------------------------------------------------------------
(* Calls *)

Init ==
  LET d == CHOOSE a \in DAddrs : TRUE
      w == CHOOSE a \in WAddrs : TRUE IN
  /\ buffers    = [b \in Buffers |-> 0]
  /\ cells      = [i \in Slots |-> Zero]
  /\ descriptor = d
  /\ descs      = [[a \in DAddrs |-> Blank] EXCEPT ![d].pending = w]
  /\ writes     = [a \in WAddrs |-> NoWrite]
  /\ heap       = [a \in Addrs |-> IF a \in {d, w} THEN "used" ELSE "free"]
  /\ returned = [b \in Buffers |-> 0]
  /\ dropped  = FALSE
  /\ pc      = [t \in Threads |-> "idle"]
  /\ op      = [t \in Threads |-> "new"]
  /\ arg     = [t \in Threads |-> 0]
  /\ res     = [t \in Threads |-> None]
  /\ hazards = [t \in Threads |-> {}]
  /\ cur     = [t \in Threads |-> Null]
  /\ wd      = [t \in Threads |-> Null]
  /\ target  = [t \in Threads |-> Null]
  /\ fresh   = [t \in Threads |-> Null]
  /\ ret     = [t \in Threads |-> "idle"]
  /\ elem    = [t \in Threads |-> Zero]
  /\ next    = [t \in Threads |-> Null]
  /\ allocs  = [t \in Threads |-> 0]
  /\ calls   = [t \in Threads |-> 0]

Call(t, method, argument) ==
  /\ pc[t] = "idle" /\ ~dropped
  /\ calls[t] < MaxCalls
  /\ Goto(t, "load_descriptor")
  /\ op'    = [op EXCEPT ![t] = method]
  /\ arg'   = [arg EXCEPT ![t] = argument]
  /\ res'   = [res EXCEPT ![t] = None]
  /\ calls' = [calls EXCEPT ![t] = @ + 1]
  /\ UNCHANGED <<shared, hazards, cur, work>>

CallPush(t)    == \E v \in Values : Call(t, "push", v)
CallPop(t)     == Call(t, "pop", 0)
CallSize(t)    == Call(t, "size", 0)
CallReserve(t) == \E n \in ReserveArgs : Call(t, "reserve", n)

\* Mutated: load_ptr, which protects nothing.
LoadDescriptorUnprotected(t) ==
  /\ pc[t] = "load_descriptor"
  /\ cur' = [cur EXCEPT ![t] = descriptor]
  /\ Goto(t, "load_pending")
  /\ UNCHANGED <<shared, call, hazards, work>>

LoadDescriptor(t) ==
  /\ pc[t] = "load_descriptor"
  /\ cur' = [cur EXCEPT ![t] = descriptor]
  /\ hazards' = [hazards EXCEPT ![t] = {descriptor}]
  /\ Goto(t, "load_pending")
  /\ UNCHANGED <<shared, call, work>>

-----------------------------------------------------------------------------
(* complete_write, called with the write descriptor of another thread or   *)
(* with the thread's own one                                               *)

AfterHelping(t) == IF op[t] = "push" THEN "check_bucket" ELSE "read_elem"

\* Mutated: the write descriptor is not protected.
LoadPendingUnprotected(t) ==
  LET w == descs[cur[t]].pending IN
  /\ pc[t] = "load_pending"
  /\ op[t] \in {"push", "pop"}
  /\ IF writes[w].some
     THEN /\ wd'  = [wd EXCEPT ![t] = w]
          /\ ret' = [ret EXCEPT ![t] = AfterHelping(t)]
          /\ Goto(t, "write_cell")
     ELSE /\ Goto(t, AfterHelping(t))
          /\ UNCHANGED <<wd, ret>>
  /\ UNCHANGED <<shared, call, hazards, cur, target, fresh, elem, next, allocs>>

LoadPending(t) ==
  LET w == descs[cur[t]].pending IN
  /\ pc[t] = "load_pending"
  /\ op[t] \in {"push", "pop"}
  /\ \/ /\ writes[w].some
        /\ hazards' = [hazards EXCEPT ![t] = @ \cup {w}]
        /\ wd'  = [wd EXCEPT ![t] = w]
        /\ ret' = [ret EXCEPT ![t] = AfterHelping(t)]
        /\ Goto(t, "write_cell")
     \/ /\ ~writes[w].some
        /\ Goto(t, AfterHelping(t))
        /\ UNCHANGED <<hazards, wd, ret>>
  /\ UNCHANGED <<shared, call, cur, target, fresh, elem, next, allocs>>

\* complete_write of its own write descriptor is the last thing push does
\* before it retires the Descriptor that it replaced and returns.
Own(t) == ret[t] = "idle"

\* What freed memory may read as, be it the allocator's own data or a box of
\* another type: a None, or a Some with any location.  One that is not an
\* element of the vector is as good as another.
Elsewhere == UsizeMax
Garbage   == [some : BOOLEAN, new : Values \cup {Zero}, old : Values \cup {Zero},
              location : {i \in Slots : Backed(i)} \cup {Elsewhere}]

\* What a read of the box w can yield.  Of a freed one the bits it had, or
\* garbage; if the address was used again, the new contents.
Contents(w) == IF heap[w] = "free" THEN {writes[w]} \cup Garbage ELSE {writes[w]}

\* The result of the compare_exchange of the cell is not looked at.  What it
\* does elsewhere is no concern of the elements.
WriteCell(t) ==
  /\ pc[t] = "write_cell"
  /\ \E w \in Contents(wd[t]) :
       /\ w.some
       /\ cells' = [i \in Slots |->
            IF i = w.location /\ cells[i] = w.old THEN w.new ELSE cells[i]]
  /\ Goto(t, "load_target")
  /\ UNCHANGED <<buffers, descriptor, descs, writes, heap, returned, dropped>>
  /\ UNCHANGED <<call, hazards, cur, work>>

\* A None where push has put its own write descriptor: there is nothing to do.
OwnWriteGone(t) ==
  /\ pc[t] = "write_cell" /\ Own(t)
  /\ \E w \in Contents(wd[t]) : ~w.some
  /\ heap' = [heap EXCEPT ![cur[t]] = "retired"]
  /\ Return(t, None)
  /\ UNCHANGED <<buffers, cells, descriptor, descs, writes>>

\* Mutated: the box that is swapped in keeps the bits that were at its address.
LoadTargetUninitialized(t) ==
  /\ pc[t] = "load_target"
  /\ \E n \in FreeAmong(WAddrs) :
       /\ heap'  = [heap EXCEPT ![n] = "used"]
       /\ fresh' = [fresh EXCEPT ![t] = n]
  /\ target'  = [target EXCEPT ![t] = descriptor]
  /\ hazards' = [hazards EXCEPT ![t] = @ \cup {descriptor}]
  /\ Goto(t, "clear_pending")
  /\ UNCHANGED <<buffers, cells, descriptor, descs, writes, returned, dropped>>
  /\ UNCHANGED <<call, cur, wd, ret, elem, next, allocs>>

\* Not the Descriptor that wd came from: whichever is current now.
LoadTarget(t) ==
  /\ pc[t] = "load_target"
  /\ \E n \in FreeAmong(WAddrs) :
       /\ heap'   = [heap EXCEPT ![n] = "used"]
       /\ writes' = [writes EXCEPT ![n] = NoWrite]
       /\ fresh'  = [fresh EXCEPT ![t] = n]
  /\ target'  = [target EXCEPT ![t] = descriptor]
  /\ hazards' = [hazards EXCEPT ![t] = @ \cup {descriptor}]
  /\ Goto(t, "clear_pending")
  /\ UNCHANGED <<buffers, cells, descriptor, descs, returned, dropped>>
  /\ UNCHANGED <<call, cur, wd, ret, elem, next, allocs>>

\* Mutated: retires the write descriptor it was called with, not the one that
\* the swap returned.
SwappedOutCalledWith(t) == wd[t]

\* What the swap of the target's write descriptor returns.
SwappedOut(t) == descs[target[t]].pending

\* The swap, and the retirement of what it returned; at the end of push that
\* of the replaced Descriptor too.
ClearPending(t) ==
  /\ pc[t] = "clear_pending"
  /\ descs' = [descs EXCEPT ![target[t]].pending = fresh[t]]
  /\ heap'  = [a \in Addrs |->
       IF a = SwappedOut(t) \/ (Own(t) /\ a = cur[t]) THEN "retired" ELSE heap[a]]
  /\ IF Own(t)
     THEN Return(t, None)
     ELSE /\ Goto(t, ret[t])
          /\ hazards' = [hazards EXCEPT ![t] = {cur[t]}]
          /\ wd'     = [wd EXCEPT ![t] = Null]
          /\ target' = [target EXCEPT ![t] = Null]
          /\ fresh'  = [fresh EXCEPT ![t] = Null]
          /\ ret'    = [ret EXCEPT ![t] = "idle"]
          /\ UNCHANGED <<call, cur, elem, next, allocs, returned, dropped>>
  /\ UNCHANGED <<buffers, cells, descriptor, writes>>

-----------------------------------------------------------------------------
(* allocate_bucket *)

\* compare_exchange(null, fresh zeroed block); the loser frees its own block.
InstallBucket(b) ==
  IF buffers[b] # 0
  THEN UNCHANGED <<buffers, cells>>
  ELSE /\ buffers' = [buffers EXCEPT ![b] = bucket_len(b)]
       /\ cells'   = [i \in Slots |-> IF bucket_of(i) = b THEN Zero ELSE cells[i]]

AllocateBucket(t, b) ==
  /\ layout_ok(b)
  /\ InstallBucket(b)
  /\ UNCHANGED <<descriptor, descs, writes, heap, returned, dropped>>
  /\ UNCHANGED <<call, hazards, cur, wd, target, fresh, ret, elem, next>>

\* capacity_overflow()
CapacityOverflow(t, b) == ~layout_ok(b) /\ PanicIn(t)

-----------------------------------------------------------------------------
(* The next Descriptor, and the compare_exchange that swaps it in *)

\* Boxes for the next Descriptor, of that size, and for its write descriptor.
MakeNext(t, size, write) ==
  /\ \E d \in FreeAmong(DAddrs), w \in FreeAmong(WAddrs) :
       /\ heap'   = [heap EXCEPT ![d] = "used", ![w] = "used"]
       /\ descs'  = [descs EXCEPT ![d] = [size |-> size, pending |-> w]]
       /\ writes' = [writes EXCEPT ![w] = write]
       /\ next'   = [next EXCEPT ![t] = d]
  /\ Goto(t, "swap_descriptor")
  /\ UNCHANGED <<buffers, cells, descriptor, returned, dropped>>
  /\ UNCHANGED <<call, hazards, cur, wd, target, fresh, ret, allocs>>

\* Mutated: swaps whatever Descriptor is current.
SwapDescriptorUnchecked(t) ==
  /\ pc[t] = "swap_descriptor"
  /\ descriptor' = next[t]
  /\ UNCHANGED <<buffers, cells, writes>>

\* compare_exchange succeeds: the addresses are the same.
SwapDescriptor(t) ==
  /\ pc[t] = "swap_descriptor"
  /\ descriptor = cur[t]
  /\ descriptor' = next[t]
  /\ UNCHANGED <<buffers, cells, writes>>

\* Mutated: the next attempt uses the Descriptor that was loaded before.
RetryWithoutLoad(t) ==
  /\ pc[t] = "swap_descriptor"
  /\ FreeDescriptor(next[t])
  /\ next' = [next EXCEPT ![t] = Null]
  /\ Goto(t, "read_elem")
  /\ UNCHANGED <<buffers, cells, descriptor, writes, returned, dropped, call>>
  /\ UNCHANGED <<hazards, cur, wd, target, fresh, ret, elem, allocs>>

\* compare_exchange_weak fails when the descriptor changed, and it may fail
\* spuriously; the next Descriptor is freed, and around the loop again.
RetrySwap(t) ==
  /\ pc[t] = "swap_descriptor"
  /\ FreeDescriptor(next[t])
  /\ Goto(t, "load_descriptor")
  /\ EndOfScope(t)
  /\ UNCHANGED <<buffers, cells, descriptor, writes, returned, dropped, call>>

-----------------------------------------------------------------------------
(* push *)

\* Mutated: looks for the bucket of the last element, not of the next one.
CheckBucketOfLast(t) ==
  /\ pc[t] = "check_bucket"
  /\ Goto(t, IF buffers[bucket_of(saturating_sub(descs[cur[t]].size, 1))] # 0
             THEN "read_elem" ELSE "allocate_bucket")
  /\ UNCHANGED <<shared, call, hazards, cur, work>>

CheckBucket(t) ==
  /\ pc[t] = "check_bucket"
  /\ Goto(t, IF buffers[bucket_of(descs[cur[t]].size)] # 0
             THEN "read_elem" ELSE "allocate_bucket")
  /\ UNCHANGED <<shared, call, hazards, cur, work>>

PushAllocates(t) ==
  LET b == bucket_of(descs[cur[t]].size) IN
  /\ pc[t] = "allocate_bucket"
  /\ \/ /\ AllocateBucket(t, b)
        /\ Goto(t, "read_elem")
        /\ UNCHANGED allocs
     \/ CapacityOverflow(t, b)

\* last_elem.load is the old value of the write descriptor that is made.
ReadOld(t) ==
  LET size == descs[cur[t]].size IN
  /\ pc[t] = "read_elem" /\ op[t] = "push"
  /\ MakeNext(t, size + 1, [some |-> TRUE, new |-> arg[t],
                            old |-> cells[size], location |-> size])
  /\ UNCHANGED elem

\* No hazard pointer protects the write descriptor that push now completes.
PushSwaps(t) ==
  /\ op[t] = "push"
  /\ SwapDescriptor(t)
  /\ wd'   = [wd EXCEPT ![t] = descs[next[t]].pending]
  /\ next' = [next EXCEPT ![t] = Null]
  /\ ret'  = [ret EXCEPT ![t] = "idle"]
  /\ Goto(t, "write_cell")
  /\ UNCHANGED <<descs, heap, returned, dropped>>
  /\ UNCHANGED <<call, hazards, cur, target, fresh, elem, allocs>>

-----------------------------------------------------------------------------
(* pop *)

PopEmpty(t) ==
  /\ pc[t] = "read_elem" /\ op[t] = "pop"
  /\ descs[cur[t]].size = 0
  /\ Return(t, None)
  /\ UNCHANGED vector

ReadLast(t) ==
  LET size == descs[cur[t]].size IN
  /\ pc[t] = "read_elem" /\ op[t] = "pop"
  /\ size # 0
  /\ elem' = [elem EXCEPT ![t] = cells[size - 1]]
  /\ MakeNext(t, size - 1, NoWrite)

PopSwaps(t) ==
  /\ op[t] = "pop"
  /\ SwapDescriptor(t)
  /\ heap' = [heap EXCEPT ![cur[t]] = "retired"]
  /\ Return(t, elem[t])
  /\ UNCHANGED descs

-----------------------------------------------------------------------------
(* size and reserve *)

\* Mutated: the element being written is subtracted also when none is.
SizeOfLessOne(d) == descs[d].size - 1

\* A pending push counts for nothing yet.
SizeOf(d) ==
  IF writes[descs[d].pending].some THEN descs[d].size - 1 ELSE descs[d].size

Size(t) ==
  /\ pc[t] = "load_pending" /\ op[t] = "size"
  /\ Return(t, SizeOf(cur[t]))
  /\ UNCHANGED vector

\* Mutated: bucket 0 is not allocated apart when the vector is empty.
ReserveSizeNoFirst(t) ==
  /\ pc[t] = "load_pending" /\ op[t] = "reserve"
  /\ allocs' = [allocs EXCEPT ![t] = last_bucket(SizeOf(cur[t]))]
  /\ Goto(t, "reserve_next")
  /\ hazards' = [hazards EXCEPT ![t] = {}]
  /\ cur' = [cur EXCEPT ![t] = Null]
  /\ UNCHANGED <<shared, call, wd, target, fresh, ret, elem, next>>

\* size() has returned: its Descriptor is not protected any more.
ReserveSize(t) ==
  LET current_size == SizeOf(cur[t]) IN
  /\ pc[t] = "load_pending" /\ op[t] = "reserve"
  /\ allocs' = [allocs EXCEPT ![t] = last_bucket(current_size)]
  /\ Goto(t, IF current_size = 0 THEN "reserve_first" ELSE "reserve_next")
  /\ hazards' = [hazards EXCEPT ![t] = {}]
  /\ cur' = [cur EXCEPT ![t] = Null]
  /\ UNCHANGED <<shared, call, wd, target, fresh, ret, elem, next>>

ReserveFirst(t) ==
  /\ pc[t] = "reserve_first"
  /\ AllocateBucket(t, 0)
  /\ Goto(t, "reserve_next")
  /\ UNCHANGED allocs

ReserveNext(t) ==
  /\ pc[t] = "reserve_next"
  /\ allocs[t] < last_bucket(arg[t])
  /\ \/ /\ AllocateBucket(t, allocs[t] + 1)
        /\ allocs' = [allocs EXCEPT ![t] = @ + 1]
        /\ Goto(t, "reserve_next")
     \/ CapacityOverflow(t, allocs[t] + 1)

\* Mutated: the loop stops one bucket early.
ReserveDoneEarly(t) ==
  /\ pc[t] = "reserve_next"
  /\ allocs[t] + 1 >= last_bucket(arg[t])
  /\ Return(t, None)
  /\ UNCHANGED vector

ReserveDone(t) ==
  /\ pc[t] = "reserve_next"
  /\ allocs[t] >= last_bucket(arg[t])
  /\ Return(t, None)
  /\ UNCHANGED vector

-----------------------------------------------------------------------------
(* Drop *)

\* The buckets are filtered before they are numbered: the number that gives
\* the layout counts the blocks that are there.
Position(b) == Cardinality({c \in Buffers : c < b /\ buffers[c] # 0})

\* The last reference to the vector is dropped: no call is in progress and
\* none will be.  The blocks are given back, then the current Descriptor, and
\* with the domain whatever is retired.
Drop ==
  /\ \A t \in Threads : pc[t] \in {"idle", "panicked"}
  /\ ~dropped
  /\ dropped'  = TRUE
  /\ returned' = [b \in Buffers |-> IF buffers[b] # 0 THEN bucket_len(Position(b)) ELSE 0]
  /\ LET gone == {descriptor} \cup {a \in DAddrs : heap[a] = "retired"} IN
     heap' = [a \in Addrs |->
                IF heap[a] = "retired" \/ \E d \in gone : a \in FreedWith(d)
                THEN "free" ELSE heap[a]]
  /\ UNCHANGED <<buffers, cells, descriptor, descs, writes>>
  /\ UNCHANGED <<pc, call, hazards, cur, work>>

-----------------------------------------------------------------------------

CompleteWrite(t) ==
  LoadPending(t) \/ WriteCell(t) \/ OwnWriteGone(t) \/ LoadTarget(t) \/ ClearPending(t)
Push(t)    == CheckBucket(t) \/ PushAllocates(t) \/ ReadOld(t) \/ PushSwaps(t)
Pop(t)     == PopEmpty(t) \/ ReadLast(t) \/ PopSwaps(t)
Reserve(t) == ReserveSize(t) \/ ReserveFirst(t) \/ ReserveNext(t) \/ ReserveDone(t)

\* A thread inside a call takes its next step.
Step(t) ==
  \/ LoadDescriptor(t) \/ CompleteWrite(t) \/ RetrySwap(t)
  \/ Push(t) \/ Pop(t) \/ Size(t) \/ Reserve(t)

Calls(t) == CallPush(t) \/ CallPop(t) \/ CallSize(t) \/ CallReserve(t)

Reclaim == ReclaimDescriptor \/ ReclaimWrite

AllDropped == dropped /\ UNCHANGED vars

Next == (\E t \in Threads : Calls(t) \/ Step(t)) \/ Reclaim \/ Drop \/ AllDropped

Spec == Init /\ [][Next]_vars

-----------------------------------------------------------------------------
(* Properties *)

Labels == {"idle", "panicked", "load_descriptor", "load_pending", "write_cell",
           "load_target", "clear_pending", "check_bucket", "allocate_bucket",
           "read_elem", "swap_descriptor", "reserve_first", "reserve_next"}

WriteDescriptor == [some : BOOLEAN, new : Nat, old : Nat, location : Nat]
Descriptor      == [size : Nat, pending : WAddrs \cup {Null}]

VectorTypeOK ==
  /\ buffers \in [Buffers -> Nat]
  /\ cells \in [Slots -> Nat]
  /\ descriptor \in DAddrs
  /\ descs \in [DAddrs -> Descriptor]
  /\ writes \in [WAddrs -> WriteDescriptor]
  /\ heap \in [Addrs -> {"free", "used", "retired"}]
  /\ returned \in [Buffers -> Nat]
  /\ dropped \in BOOLEAN

CallTypeOK ==
  /\ pc \in [Threads -> Labels]
  /\ op \in [Threads -> {"new", "push", "pop", "size", "reserve"}]
  /\ arg \in [Threads -> Nat]
  /\ res \in [Threads -> Nat \cup {None}]
  /\ calls \in [Threads -> 0 .. MaxCalls]

WorkTypeOK ==
  /\ hazards \in [Threads -> SUBSET Addrs]
  /\ cur \in [Threads -> DAddrs \cup {Null}]
  /\ wd \in [Threads -> WAddrs \cup {Null}]
  /\ target \in [Threads -> DAddrs \cup {Null}]
  /\ fresh \in [Threads -> WAddrs \cup {Null}]
  /\ ret \in [Threads -> {"idle", "check_bucket", "read_elem"}]
  /\ elem \in [Threads -> Nat]
  /\ next \in [Threads -> DAddrs \cup {Null}]
  /\ allocs \in [Threads -> Nat]

\* The types of the variables: no address is null where one is read from, and
\* no size, result or element that is computed leaves the natural numbers.
TypeOK == VectorTypeOK /\ CallTypeOK /\ WorkTypeOK

\* t has swapped its Descriptor in and is in complete_write for it.
Completing(t) ==
  op[t] = "push" /\ Own(t) /\ pc[t] \in {"write_cell", "load_target", "clear_pending"}

\* Who is to give the box of a Descriptor back: the vector, or the thread that
\* is to swap it in or that has replaced it.
VectorOwns(d) == ~dropped /\ descriptor = d
Owns(t, d)    == next[t] = d \/ (Completing(t) /\ cur[t] = d)

\* And that of a write descriptor: the Descriptor in which it is pending, or
\* the thread that is to swap it in.
PendingIn(d, w) == heap[d] # "free" /\ descs[d].pending = w

DescriptorsOwned == \A d \in DAddrs :
  /\ heap[d] = "used" <=> VectorOwns(d) \/ \E t \in Threads : Owns(t, d)
  /\ \A t \in Threads : Owns(t, d) =>
       ~VectorOwns(d) /\ \A u \in Threads : Owns(u, d) => u = t

WritesOwned == \A w \in WAddrs :
  /\ heap[w] = "used" <=>
       (\E t \in Threads : fresh[t] = w) \/ \E d \in DAddrs : PendingIn(d, w)
  /\ \A d \in DAddrs : PendingIn(d, w) =>
       \A e \in DAddrs : PendingIn(e, w) => e = d
  /\ \A t \in Threads : fresh[t] = w =>
       /\ ~\E d \in DAddrs : PendingIn(d, w)
       /\ \A u \in Threads : fresh[u] = w => u = t

\* Every box in use has one owner, and boxes that are retired or free have
\* none: so each is retired once, "only one thread receives the result of the
\* swap" (sealed.rs:253), none is freed twice, and none is forgotten.
SingleOwner == DescriptorsOwned /\ WritesOwned

Helping(t) == pc[t] = "write_cell" /\ ~Own(t)

\* No thread is left with the address of a Descriptor, or of another thread's
\* write descriptor, that was freed while it still uses it: what it reads is
\* what it loaded, and an address that compares equal is the same Descriptor.
HeldIsNotFreed == \A t \in Threads :
  /\ cur[t] # Null => heap[cur[t]] # "free"
  /\ target[t] # Null => heap[target[t]] # "free"
  /\ Helping(t) => heap[wd[t]] # "free"

\* "This means that when the desc is dropped, there will be no references to
\* the wdesc inside" (sealed.rs:207): also push, which completes the write
\* descriptor that it has swapped in, finds it there.
OwnWriteIsNotFreed == \A t \in Threads :
  pc[t] = "write_cell" /\ Own(t) => heap[wd[t]] # "free"

\* Every cell that a thread is about to read or to compare-and-exchange lies
\* in a bucket that is allocated: get never offsets a null pointer, and a late
\* complete_write finds the bucket that its write is for.  Only where push reads
\* its own write descriptor after that was freed nothing can be said: see
\* OwnWriteIsNotFreed.
NoNullDeref == \A t \in Threads :
  /\ pc[t] = "write_cell" /\ heap[wd[t]] # "free" /\ writes[wd[t]].some
       => Backed(writes[wd[t]].location)
  /\ pc[t] = "read_elem" /\ op[t] = "push" => Backed(descs[cur[t]].size)
  /\ pc[t] = "read_elem" /\ op[t] = "pop" /\ descs[cur[t]].size # 0
       => Backed(descs[cur[t]].size - 1)

\* Once reserve(n) has returned, every one of the elements 0 .. n-1 has its
\* memory as long as the vector lives, whatever the other threads do; and when
\* it panicked, the memory could not be had.
Delivered(t) ==
  op[t] = "reserve" =>
    /\ pc[t] = "idle" /\ ~dropped => \A i \in 0 .. arg[t] - 1 : Backed(i)
    /\ pc[t] = "panicked" => arg[t] - 1 \notin Slots
ReserveDelivers == \A t \in Threads : Delivered(t)

\* "We have recreated the exact same layout used to alloc the ptr"
\* (sealed.rs:482): each block is given back with the length it was allocated
\* with, although its bucket is not known any more after the filter.
SameLayout == dropped => returned = buffers

\* Nothing is left when the vector was dropped, wherever its threads stopped
\* or panicked.
AllGivenBack == dropped => \A a \in Addrs : heap[a] = "free"
=============================================================================
