# Verification of `unlocked`

`unlocked` is a lock-free vector for values of up to 64 bits, after the paper
"Lock-free Dynamically Resizable Arrays".  This directory holds TLA+ modules
of the code, TLC configurations that model-check them, and theorems with
proofs that TLAPS checks.  Paths below are those of the repository, as in
`PROJECT.json` (`src/src/leaky.rs` is the crate's `leaky.rs`).

## 1. The system

| Part | State | Operations | Modelled in |
|---|---|---|---|
| `leaky::SecVec` (`leaky.rs`) | `buffers`: 60 bucket pointers; `descriptor`: pointer to the current `Descriptor` (size, and a pointer to a pending `WriteDescriptor` or to a `None`); the element cells | `new`, `push`, `pop`, `size`, `reserve`; inside: `complete_write`, `allocate_bucket`, `get` | `Leaky`, `LeakyInv`, `LeakySize`, `LeakyStack`, `LeakyWrites`, `LeakyLive` |
| `sealed::SecVec` (`sealed.rs`) | as `leaky`, and the domain of its hazard pointers | as `leaky`, and `Drop` of the vector and of a `Descriptor` | `Sealed`, `SealedInv`, `SealedLeaky` |
| Index arithmetic (`lib.rs`, `get`, `allocate_bucket`, `reserve`) | none | `highest_bit`; index to bucket and offset; bucket sizes; number of buckets | `Buckets` |
| `alloc_error.rs` | none | `alloc_guard`, `capacity_overflow` | `Buckets.layout_ok`, `PanicIn` of `Leaky` and `Sealed` |
| `main.rs`, and the test `the_big_multithread` of `sealed.rs` | threads, joins, a sum | reserve, pushes, join, pops, join, drop, on `sealed` | `SealedMain` |
| Benchmarks (`bench_macros.rs`) | threads, joins | `unlocked!`; `mutex_vec_of_ref!` | `LeakyBench` (only `unlocked!`) |
| `hazptr_practice.rs` | one protected pointer, a domain | `load`, `store`, `Drop` | `HazptrPractice`, `RegisterSpec` |
| `vector_impl!`, `get_impl_type!` (`lib.rs`) | none | print which type fits | no |

**How the parts interact.**  Threads share one vector and call it directly.
Everything they share is an atomic: the bucket pointers, the pointer to the
`Descriptor`, the `pending` pointer inside each `Descriptor`, and the cells.
`push` makes a `Descriptor` that *announces* its element, swaps it in with
`compare_exchange_weak`, and only then writes the element (`complete_write`).
Every `push` and `pop` that finds an announced write completes it first, so
that no thread waits for another one.  `pop` swaps in a `Descriptor` of a
smaller size.  Both start over when the swap fails.  `reserve` and `push` call
`allocate_bucket`, which installs a zeroed block unless another thread was
faster.  `leaky` never frees a `Descriptor`.  `sealed` protects what it loads
with hazard pointers, retires what it has replaced to a domain of the `haphazard`
crate, and frees at once what nobody else has seen; `DataPtr` does the same
for one pointer.

**What is hard.**  There is no lock, so that every shared access is a point
where any number of other calls can happen.  A write descriptor is executed by
several threads, some of them late.  Size, bucket and old element are read from
a `Descriptor` that can have been replaced.  `complete_write` loads the
descriptor again, for its store, and compares only the bits of a cell.
Where memory is given back, an address can come to mean another box between a
load and the `compare_exchange` that relies on it, and each box must be retired
by exactly one of the threads that know its address.
Allocation can fail in the middle of a call.  The arithmetic of buckets
has its borders at powers of two, at 0 and at `isize::MAX`.  Nothing is
persisted, and there are no messages: crashes of the process, loss and
duplication do not occur.  `PROJECT.json` lists every hazard at its line.

**What makes each part correct.**

* *Vector.*  Calls appear to happen at one instant: the length is that of a
  counter, the elements are those of a stack.  A write is executed once and
  before its `Descriptor` is replaced.  `pop` returns what was pushed.  No
  call waits for another thread.
* *Memory.*  A bucket is there before any of its cells is accessed, and it is never
  replaced.  `reserve(n)` returns with the memory of n elements.
* *Arithmetic.*  Indices and cells correspond one to one; every element that
  can be allocated can be indexed; no subtraction underflows.
* *Memory that is given back.*  Nothing is used after it was freed, each box is
  retired or freed once, and none is left after `Drop`.  Then `sealed` does what
  `leaky` does, and `DataPtr` is an atomic register.

## 2. The modules and the code

`Buckets` is pure arithmetic.  `Leaky` and `Sealed` EXTEND it; each is the state
machine of one vector.  The other `Leaky*` modules EXTEND `Leaky`: with the inductive
invariant (`LeakyInv`), with a history variable and a refinement mapping
(`LeakySize`, `LeakyStack`), with a ghost variable (`LeakyWrites`),
with fairness (`LeakyLive`) or with the workload of the benchmark and its
inductive invariant (`LeakyBench`).  `Sealed` has its two inductive invariants in `SealedInv`, the workload of
`main.rs` with its inductive invariant in `SealedMain`, and in `SealedLeaky` the mapping that
shows that it implements `Leaky`, with the invariant that the mapping needs.  `SizeSpec`, `StackSpec` and `RegisterSpec` are
abstract and know nothing of Descriptors or boxes; `HazptrPractice` implements the last.
The `MC*` modules add what only TLC needs.  `BucketsProofs`,
`IndexProofs`, `LeakyProofs` (safety and the two refinements), `LeakyBenchProofs`, `SealedProofs`,
`SealedLeakyProofs`, `SealedMainProofs` and `HazptrPracticeProofs` hold the theorems.  A definition with a comment that starts with "Mutated:" is a
plausible bug; `PROJECT.json` names the property that it violates.

### Buckets

`highest_bit`, `bucket_of`, `offset_of`, `get`, `bucket_len`, `layout_ok`
and `last_bucket` are the expressions of the code on a `usize` of `USIZE_BITS`
bits, with `FIRST_BUCKET_SIZE` and the element size as constants.  The 63 of
the code is `USIZE_BITS - 1`, its 60 is `NBUFFERS`.  `Slots` is the set of
indices whose bucket can be allocated: `Layout::array` refuses a block of more
than `isize::MAX` bytes, while on a 64-bit machine `alloc_guard` lets
everything through.

### Leaky

An action is the code between two accesses to shared atomics:

| Code | Actions |
|---|---|
| a call begins | `CallPush`, `CallPop`, `CallSize`, `CallReserve` |
| `self.descriptor.load` (`leaky.rs:234`, 290, 418) | `LoadDescriptor` |
| `pending.load`, and whether it is `Some` (239, 291, 428) | `LoadPending` (push, pop), `Size`, `ReserveSize` |
| `complete_write`: compare_exchange of the cell, load of `descriptor`, store of `None` (195-217) | `WriteCell`, `LoadTarget`, `ClearPending` |
| is the bucket null? (244) | `CheckBucket` |
| `allocate_bucket` (444-489) | `PushAllocates`, `ReserveFirst`, `ReserveNext` |
| `last_elem.load` (255), `get(size - 1).load` (298) | `ReadOld`, `ReadLast` |
| `compare_exchange_weak` succeeds (260, 310) | `PushSwaps`, `PopSwaps` |
| it fails, also spuriously; `backoff.spin()` | `RetrySwap` |
| return on an empty vector (293) | `PopEmpty` |
| the loop of `reserve` ends (395) | `ReserveDone` |

In the model:

* Descriptors are never freed in `leaky.rs`, so an address stands for one
  Descriptor for ever.  They are numbered in the order in which they are
  swapped in; `descriptor` is the number of the current one.  The `Some(..)`
  write descriptor of a Descriptor is part of its record, and `pending` says
  whether the Descriptor still points to it.
* A cell is named by its index (`ElementsAreContiguous` shows that this is
  sound).  `cells` is 0 where memory is fresh, as `allocate_zeroed` makes it.
* `get` in `push` and `pop` is evaluated together with the access to the cell.  The
  only thing it shares is the bucket pointer, which is written once.
* The memory is sequentially consistent.  The code uses Acquire, Release and
  AcqRel on every access whose value it uses, but the weaker behaviours of
  these orderings are not explored.
* `capacity_overflow()` ends the thread in `"panicked"`.  The abort of
  `handle_alloc_error`, when the allocator has no memory, is left out.
* The block that the loser of `allocate_bucket` gives back is known to nobody else and leaves no
  state, so that a leak of it would not show.
* `EndOfScope` forgets local variables, so that states do not differ in values
  that no code reads.

### Sealed

The actions have the names and the positions of those of `Leaky`; what differs is the memory:

| Code (`sealed.rs`) | Actions |
|---|---|
| `self.descriptor.load(&mut hp)` (203, 280, 381) | `LoadDescriptor`: the address, and the hazard pointer on it |
| `pending.load(&mut hp)` (206-216) | `LoadPending`: protects the write descriptor if there is one |
| `complete_write`: the cell (163-174), load of the descriptor and the new `None` (176-183), swap and `retire_in` (180-197) | `WriteCell`, `OwnWriteGone`, `LoadTarget`, `ClearPending` |
| `new_as_ptr` for the next `Descriptor` and its write (226-238, 299-306) | `ReadOld`, `ReadLast`, both with `MakeNext` |
| `compare_exchange_weak_ptr` succeeds; the old `Descriptor` is retired, by `push` after `complete_write` (240-261) and by `pop` at once (308-334) | `PushSwaps` and then `ClearPending` or `OwnWriteGone`; `PopSwaps` |
| it fails: `drop(Box::from_raw(..))` (264-272) | `RetrySwap` |
| `Drop` of the vector (466-501) | `Drop` |
| `Drop` of a `Descriptor` (504-519) | `FreedWith` |
| reclamation by the domain | `ReclaimDescriptor`, `ReclaimWrite` (external) |

In the model:

* `heap` says of each address whether it is free, used or retired.  A free address can be
  given to the next box of its type (`DAddrs` for Descriptors, `WAddrs` for write
  descriptors).  No code compares addresses of the two types with each other, so they can be
  kept apart; an address that goes to a box of another type, or elsewhere, counts as free memory
  that holds garbage.
* A protected load is one step.  The loop inside `haphazard` publishes the hazard pointer and
  loads again until the pointer is unchanged; its last load is that step.
* The domain frees a retired box that no hazard pointer protects, at any time,
  and the code relies on nothing else.  It is modelled from how `sealed.rs` uses
  `retire_in` and `HazardPointer`, and marked external.
* `descs[d]` can be read without a step of its own because `size` never changes
  and `pending` is accessed only where the code accesses it.
* Reading a box that was freed is undefined behaviour.  `Contents` lets it yield the old
  bits, or what is there if the address is used again, or `Garbage`, which reads as a `None`
  or as a `Some` of any values and any location: a cell that is allocated, or `Elsewhere`.  What a
  `compare_exchange` elsewhere does, to another box or by a crash, is not modelled; it leaves the cells alone.
  Only the owner of a write, in `WriteCell` and `OwnWriteGone`, can get there (`HeldIsNotFreed`).
* Drop runs when no call is in progress, as `&mut self` demands; threads that
  panicked count as gone, and unwinding releases their hazard pointers.

`SealedLeaky` adds the history by which an address has a number, as `Leaky` has them,
and maps the one state to the other.  It holds under `InTime`: the domain leaves the
write descriptor of a push alone until that push has read it, which the code
does not guarantee (finding 3 of section 5).  Everything else about memory is open.

`SealedMain` is the program of `main.rs` with its phases, the `unwrap_or(0)`, the
sum and the drop at the end.

### HazptrPractice

`CallLoad`, `Load`, `Deref` are `load`; `CallStore` (the box), `LoadPtr` (`load_ptr`, which
protects nothing), `Swap` or `Retry` are `store`; `Drop` retires the last box
and drops the domain.  Addresses and domain are those of `Sealed`.
The value that `store` compares with may have been freed and used
again; `ImplementsRegister` shows that this does no harm, and it is not
obvious: the box that is retired is always the one that is in place.

## 3. What the runs check

| Run | Bounds | Shows |
|---|---|---|
| `buckets` | every `usize` of 10 bits, bucket 0 of 4 | `HighestBitIsSet`; `ElementsAreContiguous`: as many places precede the one `get` leads to as there are elements before; `CapacityIsGuarded`: what can be allocated can be indexed and its offset fits an isize; `ReserveIsExact`, with 0 and saturation |
| `leaky` | 2 threads, 3 calls each of all four methods, 2 buckets that fit and more that do not; one of the threads may stop anywhere | the safety properties of section 4 and the inductive `IInv`, with panics; `CallsEnd` |
| `leaky_size` | 3 threads, 2 calls each | `ImplementsCounter`: refinement of `SizeSpec`; the inductive `CountInv` |
| `leaky_stack` | 2 threads, 4 calls each, values 0 and 1 | `ImplementsStack`: refinement of `StackSpec` when no push overlaps a pop; the inductive `StackInv` |
| `leaky_bench` | main and 2 workers, 3 elements each, 2 iterations | `NothingAllocated`, `PopUnwraps`, `JoinedSize`, the inductive `BenchInv`; `Terminates` |
| `sealed` | 2 threads, 2 calls each of all four methods, reserve(3) fits and reserve(4) panics, addresses used again, garbage in freed write descriptors | `SingleOwner`, `HeldIsNotFreed`, `SameLayout`, `AllGivenBack`, `NoNullDeref`, `ReserveDelivers`, and the inductive `MemoryInv` and `BucketInv` |
| `sealed_leaky` | 2 threads, 2 calls each of push, pop and size | `ImplementsLeaky`: refinement of `Leaky`; the inductive `HistoryInv`; both under `InTime` |
| `sealed_main` | main and 2 workers, 2 elements each | `SumIsPushed`, the inductive `MainInv`, and `Terminates`, under `InTime` |
| `hazptr` | 2 threads, 3 calls each, 2 values, 4 addresses | `SingleOwner`, `LoadedIsNotFreed`, `AllGivenBack`; `ImplementsRegister`: refinement of `RegisterSpec`; `CallsEnd` |
| `popped`, `write_once`, `sealed_own_write` | as small as shows it | the findings of section 5 |

**Why these bounds.**  The hard cases need one helper, one owner, a
replacement of the Descriptor between two steps of either, and a pop that
brings the size back: two threads with two or three calls each have them all (the
counterexamples of section 5 need no more).  `leaky_size` takes a third thread, so that
two helpers are late for the same write.  `MaxCalls` bounds calls, and
is the only bound on behaviour: retries are not bounded.  Without pops and pushes by others
a thread does not fail for ever except spuriously, and `RetrySwap` returns to
a state that has been seen, so that the state space is finite.  `USIZE_BITS = 6` with `FIRST_BUCKET_SIZE = 1`
gives buckets of one and two elements and then capacity overflow: `reserve(4)` and the
push of a fourth element panic.  The value 0 is in `leaky_stack` because it is what
fresh memory holds: a push of 0 meets its own old value.

**Addresses.**  Two threads hold at most two Descriptors each (`cur`, and `next` or `target`),
and one is current: five addresses, so that allocation never waits and yet each is
used again.  A Descriptor that nobody can reach any more is freed at once.  The
eight addresses of write descriptors are counted in the same way, with the `None` of
`complete_write` and what a helper protects.  `hazptr` has fewer addresses
than stores, so that it must use one again.

**Reductions.**  `MCSealed` leaves out states that no thread can tell apart.
A box whose address no thread is still to use (`Held`) is freed as soon as it may be, and
of several such free addresses the lowest is taken: they are interchangeable,
and no property distinguishes a retired box that nobody holds from a free
one.  An address that some thread still uses can be retired, freed and used
again at any time; every case of ABA is there.  `View` blanks the bits that are left in a
free write descriptor which no thread is still to read.  The theorems of section 4 are about
`Spec`, without these reductions.

**Refinement.**  `LeakySize` maps the length to the size of the current
Descriptor without a pending element.  A push takes effect when its pending
write is cleared, in a step of its own thread or of another one.  `size()`, and a
`pop` that returns `None`, decide on a Descriptor that can have been replaced;
the abstract counter has a variable `seen` with all lengths since the call began,
and the answer must be one of them.  `LeakyStack` maps the stack to the cells, except
for an element whose owner is yet to write it while a helper has cleared the announcement:
there the stack already holds what the owner is about to write.  That is
the linearizable stack as long as no pop runs at the same time as a push,
which is how `main.rs` and the benchmarks use the vector.  `SealedLeaky` maps addresses to
the numbers of `Leaky`; a step of the domain, and `Drop`, are stutters.

**Fairness.**  Each thread that the scheduler runs takes its next step (weak
fairness of `Step`).  `compare_exchange_weak` can fail spuriously at any
time; that it does not do so for ever is strong fairness of the successful
swap (`PushSwaps`, `PopSwaps`, `Swaps`, `Swap`).  In `leaky` it is assumed for the threads in
`Live` only, and of the others nothing is assumed, not even that they go on.  No
fairness is assumed of calls, except in `LeakyBench` and `SealedMain`, whose threads are
loops of calls.  As the calls are bounded, "some thread makes progress" becomes "each
running thread ends its calls".  The domain need not free anything.
`InTime` in `SealedMain` only forbids steps of the domain, so that it can never be what
keeps a thread back or what makes the fairness unrealizable.

## 4. What is proved

`BucketsProofs`: `highest_bit` returns the exponent k with 2^k <= num < 2^(k+1)
(by the well-ordering of the naturals: the leading_zeros exist because a least
power above num does); bucket lengths; which buckets fit; the bucket of an
index is monotone; the bucket of the next index is the same one or the next one; `last_bucket(n)`
is the bucket of element n-1, or one that cannot be allocated.

| Module | Theorem | Property |
|---|---|---|
| `IndexProofs` | `HighestBitReturned` | `HighestBitIsSet` |
| | `CapacityGuarded` | `CapacityIsGuarded` |
| | `ReserveExact` | `ReserveIsExact` |
| | `ElementsContiguous` | `ElementsAreContiguous` |
| | `PlacesDiffer` | different elements have different cells |
| `LeakyProofs` | `Invariance` | `IInv` |
| | `TypeCorrect` | `TypeOK`, a part of `IInv` |
| | `ReplacedAreCleared` | `ReplacedCleared` |
| | `BucketsHaveNoHole` | `BucketsPrefix` |
| | `NoNullIsOffset` | `NoNullDeref` |
| | `ReserveHasDelivered` | `ReserveDelivers` |
| | `CountInvariance` | `CountInv` |
| | `CountsLinearizably` | `ImplementsCounter` |
| | `StackInvariance` | `StackInv` |
| | `ActsAsAStack` | `ImplementsStack` |
| `LeakyBenchProofs` | `BenchInvariance` | `BenchInv` |
| | `NeverAllocates` | `NothingAllocated` |
| | `UnwrapsNeverPanic` | `PopUnwraps` |
| | `SizesAtJoins` | `JoinedSize` |
| `SealedProofs` | `MemoryInvariance` | `MemoryInv` |
| | `BoxesHaveOneOwner` | `SingleOwner` |
| | `HeldAreNotFreed` | `HeldIsNotFreed` |
| | `EverythingIsGivenBack` | `AllGivenBack` |
| | `BucketInvariance` | `BucketInv` |
| | `TypeCorrect` | `TypeOK` |
| | `LayoutsAreTheSame` | `SameLayout` |
| | `ReserveHasDelivered` | `ReserveDelivers` |
| | `NoNullIsOffset` | `NoNullDeref` |
| `SealedLeakyProofs` | `HistoryInvariance` | `HistoryInv` |
| | `SealedImplementsLeaky` | `ImplementsLeaky` |
| `SealedMainProofs` | `MainInvariance` | `MainInv` |
| | `SumsUp` | `SumIsPushed` |
| `HazptrPracticeProofs` | `DataPtrInvariance` | `DataPtrInv` |
| | `TypeCorrect` | `TypeOK` |
| | `BoxesAreOwned` | `SingleOwner` |
| | `LoadsAreProtected` | `LoadedIsNotFreed` |
| | `NothingIsLeft` | `AllGivenBack` |
| | `ActsLikeARegister` | `ImplementsRegister` |

They hold for any number of threads, calls, values and addresses, any width and
any size of bucket 0; those of the benchmark and of `main.rs` for any number of workers, elements and
iterations.  `HistoryInvariance` and `SealedImplementsLeaky` are about `HistorySpec`,
whose steps are those of `Sealed` that obey `InTime`; `MainInvariance` and `SumsUp` are about
`InTimeSpec`, the steps of `SealedMain` that do.

**The argument for `Leaky`.**  None of its properties is inductive.  That a replaced Descriptor is
cleared depends on what a thread knows at its swap: that the Descriptor it
loaded has no pending write.  It knows that because it read `None`, or because
it went through `complete_write`, whose store went to that Descriptor or to
a later one; and a later one exists only if somebody replaced the first
after it was cleared.  `WriteKnown` and `LoopKnown` say this for each position
in the code.  For memory: a thread past `CheckBucket` has the bucket of the
size it loaded, the size of every Descriptor that was ever swapped in is backed
(`ElementsBacked`), so the buckets below that size are there and the one that
`push` allocates is at most the next: no hole.  `ReserveKnown` says the same of
`reserve`, whose starting point comes from a size that may be old by the time it
is used; old sizes are backed too.  The proof has one lemma on what no step
undoes (`Persists`, `OthersKeep`: the knowledge of the other threads survives),
and one lemma per group of actions.

**The argument for the length.**  `IInv` says nothing of who has announced an element.
`CountInv` adds that each pending write has exactly one owner, and that this push
is still inside its own `complete_write`: so the step that clears the
write, a helper's or the owner's, is the effect of one push that has not
returned.  An owner that returns without having cleared anything comes after the
one that did, because its store goes to its own Descriptor or to a later one (`WriteKnown`).
For `size()` and for a `pop` that finds nothing, `CountInv` says that the size of a loaded
Descriptor, without a pending element, is in `seen`: it was the length when it was
loaded, and if its pending write is cleared later, the length takes the new size in
that very step, since a replaced Descriptor has nothing to clear
(`ReplacedCleared`).  All other steps are stutters of the counter.

**The argument for the stack.**  `StackInvariance` and `ActsAsAStack` are about `ApartSpec`,
whose steps are those of `Leaky` that let no push overlap a pop; that restriction is the
hypothesis, and finding 1 shows that it is needed.  What makes the refinement hard is the
element that is on the stack and not yet in its cell: a helper, or any late
`complete_write`, may clear the announcement of a write before it was executed.  `StackInv`
says why this can be made good.  While pushes run, each Descriptor has one
element more than the one before it (`GrownSince`), so that threads which are at work on the same
cell have the same write descriptor, and that has one owner (`OneOwner`).  Until it is executed the cell
holds the old value that push found there, and then the new one, never a third: so the
exchange of a late helper, or of the owner, does what it is meant to or nothing.  While pops run,
no push is left to own a pending write; cells are the elements and the size only shrinks.  So a
pop that finds nothing by an old Descriptor is right, and one whose swap succeeds has read
the cell that is still the top.  A push takes effect when its pending write is cleared, as for the length.

**The argument for `Sealed`.**  `HeldIsNotFreed` alone is not inductive: a helper
protects its write descriptor, but the `Drop` of a Descriptor frees what is pending in
it whether or not that is protected.  `Protected` says why this does not reach
a helper: its write descriptor is retired, and then only the domain frees it,
which looks at the hazard pointer; or it is still pending in the Descriptor that the helper
protects too.  The other ways to free a Descriptor are a failed swap,
which frees one that nobody else has the address of (`Private`), and `Drop`, with
no thread inside a call.  `SingleOwner` carries over because a swap hands exactly one
box over: in `complete_write` to the thread that gets the old pointer back, at the
swap of the Descriptor to the one whose `compare_exchange` succeeded.  The own
write descriptor of a push has no such protection, which is finding 3;
the invariant neither needs it nor claims it.

`BucketInv` is about the other half of the memory, the buckets.  What is the
history of all Descriptors in `Leaky` is here the contents of the boxes that are
not used again yet: every size in them has its bucket, also
in a box that was freed, because a box is overwritten only by the thread that it is given to;
and so has every location in a write descriptor that was not freed.  Of freed ones nothing is claimed,
nor does `NoNullDeref` claim anything of the push that reads one (finding 3).
A thread that computes a bucket from the size in a box relies on `MemoryInv`: its hazard
pointer keeps anybody else from reusing the box between the load of the
Descriptor and the allocation.  `SameLayout` follows, as `Drop` counts buckets by
position and there is no hole below a bucket.

**The argument for the refinement of `Leaky`.**  `HistoryInv` says that an address
stands for one number as long as anybody can tell: Descriptors that are live have different
numbers, the current one the last; what a live one holds is what was swapped in under its number;
and only the current one can have its write pending.  So the `compare_exchange` by
address of `sealed.rs:245` succeeds only if the number is unchanged too: the
hazard pointer of the loop keeps the loaded box live (`MemoryInv`).  `MadeNext` says that
what a thread is to swap in was computed from that same Descriptor.  A late helper
has a number no younger than the one whose `pending` it clears, as in
`Leaky`.  The proof then maps each action to the action of `Leaky` of the same name,
`MakeNext` and the frees to nothing, and `ReclaimDescriptor`,
`ReclaimWrite` and `Drop` to stutters.  `InTime` is used at one place: when a push comes to execute
its own write, the box still holds it.

**The argument for the benchmark.**  In a phase, worker t's k-th push adds the
pair <<t, k>> and its k-th pop takes it away (`Present`); which element the vector
hands out does not matter for the size.  A call takes effect at its swap
(`Announced`), so the size of the current Descriptor is the number of pairs, and a swap changes one
pair.  A size that was loaded in this phase is a bound on the current one in the right direction
(`LoadedThisPhase`): a pop that finds 0 would find it now, when its own pair is still there.  The
size never exceeds `Total`, for which `reserve` has the buckets (`ReserveDelivers`).

**The argument for `main.rs`.**  What is present is counted in the same way.  But `SumIsPushed`
is also about values: each pop must read what was pushed.  `MainInv` says that every element
that is announced and not popped is in its cell, or that its own push is in `complete_write` and
about to write it (`CellsKnown`); beyond the size the cells still have the zeros of fresh memory.
So the old value of every write is zero, and the `compare_exchange` of the cell does its work once,
whoever comes first (`IsWrite`, `PendingOwned`).  While the workers push, the size of a Descriptor says
which one it is (`PushKnown`); so a late helper cannot mistake an older write for the current
one.  When the last push is joined nobody is left to write, hence all cells are filled, and
pops, which change no cell, read `FIVE`: `sum` is `FIVE` times what is gone.  `unwrap_or(0)` never
takes the 0, since a worker that still has to pop finds its own element present.
A write descriptor that is freed before its push read it would break `CellsKnown`; that is
`InTime`.  The boxes and buckets that all this is read from are those of `MemoryInv` and `BucketInv`, which
`MainMemory` carries over from `Sealed`.

**The argument for `DataPtr`.**  A loaded box is protected before it can be retired,
and what is swapped out was the DataPtr's until that very step.  The
refinement maps every step to a step of the register or to a stutter: `Load` takes
the value, `Swap` stores, `Drop` closes.

**Assumptions.**  `BucketsAssumption` (bucket 0 is a power of two that can be
allocated, `USIZE_BITS > 4`, elements of 1 to 8 bytes), `LeakyAssumption`,
`SealedAssumption`, `BenchAssumption` and `MainAssumption` (the main thread is one of
finitely many) and `DataPtrAssumption` (types of the constants, null is no address, and
in `Sealed` the two kinds of addresses differ) and `PowersOfTwo`, which states for exponents up to
`USIZE_BITS` that 2^n is a positive natural and 2^(n+1) = 2 * 2^n.  The last one
is plain arithmetic: the provers know nothing of `^`.  TLC evaluates
all of them in the runs.

**Only model-checked:** liveness (`CallsEnd`, `Terminates`), which is out of reach of TLAPS.  Every
invariant and every refinement of a passing run is a theorem.

## 5. Where code and text disagree

1. *A pop can return what nobody pushed* (`popped`).  Thread A is in
   `complete_write` for Descriptor d, before it loads `descriptor` for its store
   (`leaky.rs:213`).  Others complete d, and B swaps in d+1 with the next element
   announced.  A's store clears the announcement of d+1.  A pop now sees no
   pending write, does not help, and reads the cell, which B has not written.
   The comment at `leaky.rs:320-322` takes it for granted that it is a valid T.
2. *A write can be executed twice* (`write_once`).  The compare_exchange of
   the cell (`leaky.rs:198`) succeeds for a late helper if the cell holds the old bits
   again; a later element is overwritten.  `mdbook/src/paper/algorithm.md:41` says
   "Only one of them can succeed".
3. *A push reads a write descriptor that may have been freed* (`sealed_own_write`).
   After its swap, `push` calls `complete_write` with the write descriptor it has
   announced (`sealed.rs:249`), with no hazard pointer on it.  A helper can complete it and retire it
   first, and the domain can free it.  The comments at `sealed.rs:207` and 256 derive safety
   from the reference to `desc`; that is the Descriptor which was replaced, not the
   one that this write descriptor is in.  Together with the late helper of finding 1 the
   owner can find a `None` in place of a write that nobody else has executed, and
   its element never gets to its cell; that is why `sealed_leaky` and
   `sealed_main` assume `InTime`.

Neither 1 nor 2 disturbs the length (`leaky_size`), and neither happens when
pushes and pops do not overlap (`leaky_stack`).  `complete_write` of `sealed.rs` takes the
same steps on the cell and on the current Descriptor, so both concern it too; what
`sealed_leaky` adds is that freed memory makes nothing else possible under `InTime`.  Without it, freed memory
can also read as a `Some` with a location of its own, and the exchange of finding 3 then goes
to another cell, or to no cell.  The run `sealed` includes the first; the second it leaves without effect, so
that what it shows holds as far as such a write hits no box and no bucket pointer of the vector.

Two smaller observations have no run.  `reserve(n)` is a total (`ReserveDelivers`), while
`mdbook/src/code/alloc/reserve.md:3` promises room for n pushes.  The assert of
`get` drops its comparison, as `is_some()` is true of `Some(false)` (`leaky.rs:174-181`);
`CapacityIsGuarded` shows that no element that can be allocated is affected.

## 6. Plan, and what is not modelled

Done: `Buckets`, `Leaky`, `Sealed`, `HazptrPractice`, their workloads, runs, refinements
and findings; the inductive invariants, the refinements of the counter, of `Leaky` by `Sealed` and
of the register and, while pushes and pops do not overlap, of the stack, and the safety of the
benchmark and of `main.rs`, proved; the arithmetic for every width.

Worth doing next: a bound on how often a late helper can execute
a write a second time (finding 2).

Not modelled:

* `mutex_vec_of_ref!`: one lock is held around every call, so nothing interleaves.
* `vector_impl!`, `get_impl_type!` and the `Debug` implementations: they print.
* The contents of `TryReserveError`, and the abort of `handle_alloc_error` when the
  allocator has no memory: the process ends.
* The inside of the `haphazard` crate: when it decides to free, and how it finds
  out what is protected.
* Weaker memory orderings.  The code uses Acquire, Release and AcqRel on all accesses
  whose value it uses, Relaxed only for failed exchanges; the
  models are sequentially consistent.
* The conversion between a `T` of at most 64 bits and the bits of its cell: an
  element is its bits.
* The mdbook, which is documentation; what it promises of the code is
  quoted in section 5.
