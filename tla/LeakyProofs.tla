----------------------------- MODULE LeakyProofs -----------------------------
(***************************************************************************)
(* What leaky::SecVec guarantees, for every number of threads, of calls    *)
(* and of descriptors.  First its safety: IInv is an inductive invariant   *)
(* of Leaky, and it implies the properties that the runs check.  Then its  *)
(* two abstract specifications.  Its length is that of a linearizable      *)
(* counter (SizeSpec): CountInv is an invariant, and with it every step of *)
(* LeakySize is one of SizeSpec.  Its elements are those of a linearizable *)
(* stack (StackSpec) while pushes and pops are kept apart: StackInv is an  *)
(* invariant, and with it every step of LeakyStack is one of StackSpec.    *)
(***************************************************************************)
EXTENDS LeakySize, LeakyStack, BucketsProofs, SequenceTheorems, FiniteSetTheorems

-----------------------------------------------------------------------------
(* Sizes and indices *)

\* What an element count that is backed by memory means for the arithmetic.
LEMMA SizesInRange ==
  ASSUME TypeOK, ElementsBacked, NEW d \in 1 .. descriptor
  PROVE  LET size == descs[d].size IN
         /\ size \in 0 .. UsizeMax - FIRST_BUCKET_SIZE
         /\ bucket_of(size) \in Buffers
         /\ \A i \in 0 .. size - 1 : i \in Slots /\ buffers[bucket_of(i)]
         /\ layout_ok(bucket_of(size)) => size \in Slots
<1> DEFINE size == descs[d].size
<1>1. size \in Nat  BY DEF TypeOK, SharedTypeOK, Desc
<1>2. \A i \in 0 .. size - 1 : i \in Slots /\ buffers[bucket_of(i)]
  BY DEF ElementsBacked, Backed
<1> HIDE DEF size
<1>3. size = 0 \/ size - 1 \in Slots  BY <1>1, <1>2
<1>4. size \in 0 .. UsizeMax - FIRST_BUCKET_SIZE /\ bucket_of(size) \in Buffers
  BY <1>1, <1>3, NextIndex
<1>5. layout_ok(bucket_of(size)) => size \in Slots  BY <1>4 DEF Slots
<1> QED  BY <1>2, <1>4, <1>5 DEF size

\* size - 1 of size() and reserve() does not underflow.
LEMMA SizeOfType ==
  ASSUME TypeOK, PendingIsLast, NEW d \in 1 .. descriptor
  PROVE  SizeOf(d) \in Nat /\ SizeOf(d) <= descs[d].size
<1>1. descs[d].size \in Nat  BY DEF TypeOK, SharedTypeOK, Desc
<1>2. CASE descs[d].pending
  <2>1. descs[d].size > 0  BY <1>2 DEF PendingIsLast
  <2> QED  BY <1>1, <1>2, <2>1 DEF SizeOf
<1>3. CASE ~descs[d].pending  BY <1>1, <1>3 DEF SizeOf
<1> QED  BY <1>2, <1>3

-----------------------------------------------------------------------------
(* The initial state *)

LEMMA InitIInv == Init => IInv
<1> SUFFICES ASSUME Init PROVE IInv
  OBVIOUS
<1> USE DEF Init
<1>0. 0 \in Nat /\ 1 \in Nat /\ MaxCalls \in Nat  BY LeakyAssumption
<1>1. TypeOK
  BY <1>0 DEF TypeOK, SharedTypeOK, CallTypeOK, WorkTypeOK, Desc, Labels, NoWrite, Zero
<1>2. ReplacedCleared /\ ElementsBacked /\ PendingIsLast
  BY DEF ReplacedCleared, ElementsBacked, PendingIsLast, NoWrite
<1>3. BucketsPrefix /\ AllocatedFit  BY DEF BucketsPrefix, AllocatedFit
<1>4. ASSUME NEW t \in Threads  PROVE ThreadInv(t)
  BY DEF ThreadInv, WriteKnown, LoopKnown, ReserveKnown, Delivered, InWrite, InLoop
<1> QED  BY <1>1, <1>2, <1>3, <1>4 DEF IInv, SharedInv

-----------------------------------------------------------------------------
(* TypeOK *)

\* A thread that returns, or panics, leaves its local variables typed, also
\* when it has swapped a Descriptor in.
LEMMA ReturnType ==
  ASSUME TypeOK, NEW t \in Threads, NEW value \in Nat \cup {None}, Return(t, value),
         descriptor' \in Nat, descriptor' >= descriptor
  PROVE  CallTypeOK' /\ WorkTypeOK'
<1> USE DEF TypeOK, SharedTypeOK, CallTypeOK, WorkTypeOK
<1>0. 0 \in Nat /\ Zero \in Nat /\ 1 \in 1 .. descriptor'
      /\ 1 .. descriptor \subseteq 1 .. descriptor'
  BY DEF Zero
<1>1. CallTypeOK'  BY DEF Return, Goto, Labels
<1>2. WorkTypeOK'  BY <1>0 DEF Return, EndOfScope
<1> QED  BY <1>1, <1>2

\* A call that ends without an effect on the shared state.
LEMMA ReturnUnchangedType ==
  ASSUME TypeOK, NEW t \in Threads, NEW value \in Nat \cup {None}, Return(t, value),
         UNCHANGED shared
  PROVE  TypeOK'
<1>1. SharedTypeOK' /\ descriptor' \in Nat /\ descriptor' >= descriptor
  BY DEF TypeOK, SharedTypeOK, shared
<1>2. CallTypeOK' /\ WorkTypeOK'  BY <1>1, ReturnType
<1> QED  BY <1>1, <1>2 DEF TypeOK

LEMMA PanicType ==
  ASSUME TypeOK, NEW t \in Threads, PanicIn(t)
  PROVE  TypeOK'
<1> USE DEF TypeOK, SharedTypeOK, CallTypeOK, WorkTypeOK
<1>0. 0 \in Nat /\ Zero \in Nat /\ 1 \in 1 .. descriptor  BY DEF Zero
<1>1. SharedTypeOK' /\ CallTypeOK'  BY DEF PanicIn, Goto, Labels, shared, call
<1>2. WorkTypeOK'  BY <1>0 DEF PanicIn, EndOfScope, shared
<1> QED  BY <1>1, <1>2

LEMMA CallType ==
  ASSUME TypeOK, NEW t \in Threads, NEW method \in {"push", "pop", "size", "reserve"},
         NEW argument \in Nat, Call(t, method, argument)
  PROVE  TypeOK'
<1> USE DEF TypeOK, SharedTypeOK, CallTypeOK, WorkTypeOK
<1>1. SharedTypeOK' /\ WorkTypeOK'  BY DEF Call, shared, work
<1>2. calls' \in [Threads -> 0 .. MaxCalls]  BY LeakyAssumption DEF Call
<1>3. pc' \in [Threads -> Labels] /\ res' \in [Threads -> Nat \cup {None}]
  BY DEF Call, Goto, Labels
<1>4. /\ op' \in [Threads -> {"new", "push", "pop", "size", "reserve"}]
      /\ arg' \in [Threads -> Nat]
  BY DEF Call
<1> QED  BY <1>1, <1>2, <1>3, <1>4

LEMMA AllocateType ==
  ASSUME TypeOK, NEW b, InstallBucket(b)
  PROVE  buffers' \in [Buffers -> BOOLEAN] /\ cells' \in [Slots -> Nat]
<1> USE DEF TypeOK, SharedTypeOK, InstallBucket
<1>1. CASE buffers[b]  BY <1>1
<1>2. CASE ~buffers[b]
  <2>1. buffers' \in [Buffers -> BOOLEAN]  BY <1>2, Zenon
  <2>2. cells' \in [Slots -> Nat]  BY <1>2 DEF Zero
  <2> QED  BY <2>1, <2>2
<1> QED  BY <1>1, <1>2

LEMMA SwapType ==
  ASSUME TypeOK, NEW t, NEW next \in Desc, SwapDescriptor(t, next)
  PROVE  SharedTypeOK' /\ descriptor' \in Nat /\ descriptor' >= descriptor
BY DEF TypeOK, SharedTypeOK, SwapDescriptor

\* Every step keeps the types: the sizes that push and pop compute stay in
\* range, and no cell is read outside the memory.
LEMMA NextTypeOK == IInv /\ Next => TypeOK'
<1> SUFFICES ASSUME IInv, Next PROVE TypeOK'
  OBVIOUS
<1>0. /\ TypeOK /\ ElementsBacked /\ PendingIsLast
      /\ \A t \in Threads : LoopKnown(t)
  BY DEF IInv, SharedInv, ThreadInv
<1>c. ASSUME NEW t \in Threads, Calls(t)  PROVE TypeOK'
  <2>1. Values \subseteq Nat /\ ReserveArgs \subseteq Nat /\ 0 \in Nat
    BY LeakyAssumption, FirstBucket
  <2> QED  BY <1>0, <1>c, <2>1, CallType DEF Calls, CallPush, CallPop, CallSize, CallReserve
<1>1. ASSUME NEW t \in Threads, LoadDescriptor(t)  PROVE TypeOK'
  <2>1. SharedTypeOK' /\ CallTypeOK'
    BY <1>0, <1>1 DEF TypeOK, SharedTypeOK, CallTypeOK, LoadDescriptor, Goto, Labels,
       shared, call
  <2>2. descriptor \in 1 .. descriptor  BY <1>0 DEF TypeOK, SharedTypeOK
  <2>3. WorkTypeOK'
    BY <1>0, <1>1, <2>2 DEF TypeOK, WorkTypeOK, LoadDescriptor, shared, work
  <2> QED  BY <2>1, <2>3 DEF TypeOK
<1>2. ASSUME NEW t \in Threads, LoadPending(t)  PROVE TypeOK'
  <2>1. AfterHelping(t) \in {"check_bucket", "read_elem"}  BY DEF AfterHelping
  <2>2. SharedTypeOK' /\ CallTypeOK'
    BY <1>0, <1>2, <2>1 DEF TypeOK, SharedTypeOK, CallTypeOK, LoadPending, Goto, Labels,
       shared, call
  <2>3. /\ cur[t] \in 1 .. descriptor
        /\ UNCHANGED <<descriptor, cur, target, elem, allocs>>
    BY <1>0, <1>2 DEF TypeOK, WorkTypeOK, LoadPending, shared
  <2>4. /\ wd' = wd \/ wd' = [wd EXCEPT ![t] = cur[t]]
        /\ ret' = ret \/ ret' = [ret EXCEPT ![t] = AfterHelping(t)]
    BY <1>2, Zenon DEF LoadPending
  <2>5. wd' \in [Threads -> 1 .. descriptor]
    BY <1>0, <2>3, <2>4 DEF TypeOK, WorkTypeOK
  <2>6. ret' \in [Threads -> {"idle", "check_bucket", "read_elem"}]
    BY <1>0, <2>1, <2>4 DEF TypeOK, WorkTypeOK
  <2> QED  BY <1>0, <2>2, <2>3, <2>5, <2>6 DEF TypeOK, WorkTypeOK
<1>3. ASSUME NEW t \in Threads, WriteCell(t)  PROVE TypeOK'
  BY <1>0, <1>3 DEF TypeOK, SharedTypeOK, CallTypeOK, WorkTypeOK, Desc, WriteCell,
     Goto, Labels, call, work
<1>4. ASSUME NEW t \in Threads, LoadTarget(t)  PROVE TypeOK'
  <2>1. SharedTypeOK' /\ CallTypeOK'
    BY <1>0, <1>4 DEF TypeOK, SharedTypeOK, CallTypeOK, LoadTarget, Goto, Labels,
       shared, call
  <2>2. descriptor \in 1 .. descriptor  BY <1>0 DEF TypeOK, SharedTypeOK
  <2>3. WorkTypeOK'
    BY <1>0, <1>4, <2>2 DEF TypeOK, WorkTypeOK, LoadTarget, shared, call
  <2> QED  BY <2>1, <2>3 DEF TypeOK
<1>5. ASSUME NEW t \in Threads, ClearPending(t)  PROVE TypeOK'
  <2> USE DEF TypeOK
  <2>1. SharedTypeOK'
    <3>1. target[t] \in 1 .. descriptor  BY <1>0 DEF WorkTypeOK
    <3>2. /\ descs' = [descs EXCEPT ![target[t]].pending = FALSE]
          /\ UNCHANGED <<buffers, cells, descriptor>>
      BY <1>5 DEF ClearPending
    <3> QED  BY <1>0, <3>1, <3>2 DEF SharedTypeOK, Desc
  <2>2. descriptor' = descriptor /\ descriptor \in Nat
    BY <1>0, <1>5 DEF ClearPending, SharedTypeOK
  <2>3. CASE ret[t] = "idle"
    BY <1>0, <1>5, <2>1, <2>2, <2>3, ReturnType DEF ClearPending
  <2>4. CASE ret[t] # "idle"
    <3>1. CallTypeOK'
      <4>1. ret[t] \in Labels  BY <1>0 DEF WorkTypeOK, Labels
      <4> QED  BY <1>0, <1>5, <2>4, <4>1 DEF ClearPending, CallTypeOK, Goto, call
    <3>2. WorkTypeOK'
      <4>1. 1 \in 1 .. descriptor  BY <1>0 DEF SharedTypeOK
      <4> QED  BY <1>0, <1>5, <2>2, <2>4, <4>1 DEF ClearPending, WorkTypeOK
    <3> QED  BY <2>1, <3>1, <3>2
  <2> QED  BY <2>3, <2>4
<1>6. ASSUME NEW t \in Threads, RetrySwap(t)  PROVE TypeOK'
  <2> USE <1>0 DEF TypeOK, SharedTypeOK, CallTypeOK, WorkTypeOK
  <2>1. SharedTypeOK' /\ CallTypeOK'
    BY <1>6 DEF RetrySwap, Goto, Labels, shared, call
  <2>2. 1 \in 1 .. descriptor /\ 0 \in Nat /\ Zero \in Nat  BY DEF Zero
  <2>3. WorkTypeOK'  BY <1>6, <2>2 DEF RetrySwap, EndOfScope, shared
  <2> QED  BY <2>1, <2>3
<1>7. ASSUME NEW t \in Threads, CheckBucket(t)  PROVE TypeOK'
  BY <1>0, <1>7 DEF TypeOK, SharedTypeOK, CallTypeOK, WorkTypeOK, CheckBucket,
     Goto, Labels, shared, call, work
<1>8. ASSUME NEW t \in Threads, PushAllocates(t)  PROVE TypeOK'
  <2> DEFINE b == bucket_of(descs[cur[t]].size)
  <2>1. CASE CapacityOverflow(t, b)
    BY <1>0, <2>1, PanicType DEF CapacityOverflow
  <2>2. CASE AllocateBucket(t, b) /\ Goto(t, "read_elem") /\ UNCHANGED allocs
    <3>1. buffers' \in [Buffers -> BOOLEAN] /\ cells' \in [Slots -> Nat]
      BY <1>0, <2>2, AllocateType DEF AllocateBucket
    <3>2. SharedTypeOK' /\ CallTypeOK'
      BY <1>0, <2>2, <3>1 DEF TypeOK, SharedTypeOK, CallTypeOK, AllocateBucket, Goto,
         Labels, call
    <3>3. WorkTypeOK'
      BY <1>0, <2>2 DEF TypeOK, WorkTypeOK, AllocateBucket
    <3> QED  BY <3>2, <3>3 DEF TypeOK
  <2> QED  BY <1>8, <2>1, <2>2 DEF PushAllocates
<1>9. ASSUME NEW t \in Threads, ReadOld(t)  PROVE TypeOK'
  <2>1. cells[descs[cur[t]].size] \in Nat
    BY <1>0, <1>9 DEF ReadOld, LoopKnown, Backed, TypeOK, SharedTypeOK
  <2> QED  BY <1>0, <1>9, <2>1 DEF TypeOK, SharedTypeOK, CallTypeOK, WorkTypeOK,
           ReadOld, Goto, Labels, shared, call
<1>10. ASSUME NEW t \in Threads, PushSwaps(t)  PROVE TypeOK'
  <2> DEFINE size == descs[cur[t]].size
             next == [size |-> size + 1, pending |-> TRUE,
                      new |-> arg[t], old |-> elem[t], location |-> size]
  <2>1. next \in Desc
    <3>1. size \in Nat /\ arg[t] \in Nat /\ elem[t] \in Nat
      BY <1>0 DEF TypeOK, SharedTypeOK, CallTypeOK, WorkTypeOK, Desc
    <3> HIDE DEF size
    <3> QED  BY <3>1 DEF Desc
  <2>2. SharedTypeOK' /\ descriptor' \in Nat /\ descriptor' >= descriptor
    BY <1>0, <1>10, <2>1, SwapType DEF PushSwaps
  <2>3. CallTypeOK'
    BY <1>0, <1>10 DEF TypeOK, CallTypeOK, PushSwaps, Goto, Labels, call
  <2>4. descriptor' = descriptor + 1
    BY <1>10 DEF PushSwaps, SwapDescriptor
  <2>5. WorkTypeOK'
    <3>1. /\ descriptor + 1 \in 1 .. descriptor' /\ 1 .. descriptor \subseteq 1 .. descriptor'
      BY <1>0, <2>4 DEF TypeOK, SharedTypeOK
    <3>2. /\ wd' = [wd EXCEPT ![t] = descriptor + 1] /\ ret' = [ret EXCEPT ![t] = "idle"]
          /\ UNCHANGED <<cur, target, elem, allocs>>
      BY <1>10 DEF PushSwaps
    <3> QED  BY <1>0, <3>1, <3>2 DEF TypeOK, WorkTypeOK
  <2> QED  BY <2>2, <2>3, <2>5 DEF TypeOK
<1>11. ASSUME NEW t \in Threads, PopEmpty(t)  PROVE TypeOK'
  BY <1>0, <1>11, ReturnUnchangedType DEF PopEmpty
<1>12. ASSUME NEW t \in Threads, ReadLast(t)  PROVE TypeOK'
  <2> DEFINE size == descs[cur[t]].size
  <2>1. size \in Nat /\ size # 0 /\ \A i \in 0 .. size - 1 : i \in Slots
    BY <1>0, <1>12 DEF ReadLast, TypeOK, SharedTypeOK, WorkTypeOK, Desc,
       ElementsBacked, Backed
  <2> HIDE DEF size
  <2>2. cells[size - 1] \in Nat
    BY <1>0, <2>1 DEF TypeOK, SharedTypeOK
  <2> QED  BY <1>0, <1>12, <2>2 DEF TypeOK, SharedTypeOK, CallTypeOK, WorkTypeOK,
           ReadLast, Goto, Labels, shared, call, size
<1>13. ASSUME NEW t \in Threads, PopSwaps(t)  PROVE TypeOK'
  <2> DEFINE next == NoWrite(descs[cur[t]].size - 1)
  <2>1. next \in Desc
    <3>1. descs[cur[t]].size \in Nat
      BY <1>0 DEF TypeOK, SharedTypeOK, WorkTypeOK, Desc
    <3>2. descs[cur[t]].size # 0
      BY <1>0, <1>13 DEF LoopKnown, PopSwaps, SwapDescriptor
    <3>3. descs[cur[t]].size - 1 \in Nat  BY <3>1, <3>2
    <3> QED  BY <3>3 DEF Desc, NoWrite, Zero
  <2>2. SharedTypeOK' /\ descriptor' \in Nat /\ descriptor' >= descriptor
    BY <1>0, <1>13, <2>1, SwapType DEF PopSwaps
  <2>3. elem[t] \in Nat  BY <1>0 DEF TypeOK, WorkTypeOK
  <2>4. CallTypeOK' /\ WorkTypeOK'
    BY <1>0, <1>13, <2>2, <2>3, ReturnType DEF PopSwaps
  <2> QED  BY <2>2, <2>4 DEF TypeOK
<1>14. ASSUME NEW t \in Threads, Size(t)  PROVE TypeOK'
  <2>1. SizeOf(cur[t]) \in Nat
    BY <1>0, SizeOfType DEF TypeOK, WorkTypeOK
  <2> QED  BY <1>0, <1>14, <2>1, ReturnUnchangedType DEF Size
<1>15. ASSUME NEW t \in Threads, ReserveSize(t)  PROVE TypeOK'
  <2>1. last_bucket(SizeOf(cur[t])) \in Nat
    <3>1. cur[t] \in 1 .. descriptor  BY <1>0 DEF TypeOK, WorkTypeOK
    <3>2. SizeOf(cur[t]) \in 0 .. UsizeMax
      BY <1>0, <3>1, SizeOfType, SizesInRange, FirstBucket
    <3> QED  BY <3>2, LastBucket
  <2> QED  BY <1>0, <1>15, <2>1 DEF TypeOK, SharedTypeOK, CallTypeOK, WorkTypeOK,
           ReserveSize, Goto, Labels, shared, call
<1>16. ASSUME NEW t \in Threads, ReserveFirst(t)  PROVE TypeOK'
  <2>1. buffers' \in [Buffers -> BOOLEAN] /\ cells' \in [Slots -> Nat]
    BY <1>0, <1>16, AllocateType DEF ReserveFirst, AllocateBucket
  <2> QED  BY <1>0, <1>16, <2>1 DEF TypeOK, SharedTypeOK, CallTypeOK, WorkTypeOK,
           ReserveFirst, AllocateBucket, Goto, Labels, call
<1>17. ASSUME NEW t \in Threads, ReserveNext(t)  PROVE TypeOK'
  <2>1. CASE CapacityOverflow(t, allocs[t] + 1)
    BY <1>0, <2>1, PanicType DEF CapacityOverflow
  <2>2. CASE /\ AllocateBucket(t, allocs[t] + 1)
             /\ allocs' = [allocs EXCEPT ![t] = @ + 1]
             /\ Goto(t, "reserve_next")
    <3>1. buffers' \in [Buffers -> BOOLEAN] /\ cells' \in [Slots -> Nat]
      BY <1>0, <2>2, AllocateType DEF AllocateBucket
    <3>2. SharedTypeOK' /\ CallTypeOK'
      BY <1>0, <2>2, <3>1 DEF TypeOK, SharedTypeOK, CallTypeOK, AllocateBucket, Goto,
         Labels, call
    <3>3. WorkTypeOK'
      BY <1>0, <2>2 DEF TypeOK, WorkTypeOK, AllocateBucket
    <3> QED  BY <3>2, <3>3 DEF TypeOK
  <2> QED  BY <1>17, <2>1, <2>2 DEF ReserveNext
<1>18. ASSUME NEW t \in Threads, ReserveDone(t)  PROVE TypeOK'
  BY <1>0, <1>18, ReturnUnchangedType DEF ReserveDone
<1>19. CASE AllQuiescent
  BY <1>0, <1>19 DEF AllQuiescent, vars, shared, call, work, TypeOK, SharedTypeOK,
     CallTypeOK, WorkTypeOK
<1> QED
  BY <1>c, <1>1, <1>2, <1>3, <1>4, <1>5, <1>6, <1>7, <1>8, <1>9, <1>10, <1>11, <1>12,
     <1>13, <1>14, <1>15, <1>16, <1>17, <1>18, <1>19
  DEF Next, Step, CompleteWrite, Push, Pop, Reserve

-----------------------------------------------------------------------------
(* The shared state *)

\* What no step undoes: buckets and Descriptors stay, and the write of a
\* Descriptor does not become pending again.
Persists ==
  /\ descriptor' >= descriptor
  /\ \A d \in 1 .. descriptor :
       /\ descs'[d].size = descs[d].size /\ descs'[d].location = descs[d].location
       /\ descs'[d].pending => descs[d].pending
  /\ \A b \in Buffers : buffers[b] => buffers'[b]

LEMMA BackedPersists ==
  ASSUME Persists, NEW i, Backed(i)  PROVE Backed(i)'
<1>1. i \in Slots /\ bucket_of(i) \in Buffers
  <2>1. i \in Slots  BY DEF Backed
  <2>2. i \in Nat /\ layout_ok(bucket_of(i)) /\ i \in 0 .. UsizeMax - FIRST_BUCKET_SIZE
    BY <2>1 DEF Slots
  <2>3. bucket_of(i) \in 0 .. USIZE_BITS - K
    BY <2>2, BucketOf, FirstBucket, BucketsAssumption
  <2> QED  BY <2>1, <2>2, <2>3, BucketsThatFit
<1> QED  BY <1>1 DEF Backed, Persists

\* Loads, and the compare_exchange of an element.
LEMMA UnchangedKeeps ==
  ASSUME TypeOK, SharedInv, UNCHANGED <<buffers, descriptor, descs>>
  PROVE  SharedInv' /\ Persists
<1>1. Persists  BY DEF Persists, TypeOK, SharedTypeOK
<1>2. ReplacedCleared' /\ BucketsPrefix' /\ AllocatedFit'
  BY DEF SharedInv, ReplacedCleared, BucketsPrefix, AllocatedFit
<1>3. ElementsBacked' /\ PendingIsLast'
  BY DEF SharedInv, ElementsBacked, PendingIsLast, Backed
<1> QED  BY <1>1, <1>2, <1>3 DEF SharedInv

\* complete_write clears the write of a Descriptor.
LEMMA ClearKeeps ==
  ASSUME TypeOK, SharedInv, NEW x \in 1 .. descriptor,
         descs' = [descs EXCEPT ![x].pending = FALSE],
         UNCHANGED <<buffers, descriptor>>
  PROVE  SharedInv' /\ Persists
<1>1. \A d \in 1 .. descriptor :
        /\ descs'[d].size = descs[d].size /\ descs'[d].location = descs[d].location
        /\ descs'[d].pending => descs[d].pending
  BY DEF TypeOK, SharedTypeOK, Desc
<1>2. Persists  BY <1>1 DEF Persists, TypeOK, SharedTypeOK
<1>3. ReplacedCleared' /\ BucketsPrefix' /\ AllocatedFit'
  BY <1>1 DEF SharedInv, ReplacedCleared, BucketsPrefix, AllocatedFit, TypeOK, SharedTypeOK
<1>4. ElementsBacked'
  BY <1>1 DEF SharedInv, ElementsBacked, Backed
<1>5. PendingIsLast'
  BY <1>1 DEF SharedInv, PendingIsLast
<1> QED  BY <1>2, <1>3, <1>4, <1>5 DEF SharedInv

\* allocate_bucket, called for a bucket that all of the smaller ones precede.
LEMMA AllocateKeeps ==
  ASSUME TypeOK, SharedInv, NEW t, NEW b \in Buffers, AllocateBucket(t, b),
         \A c \in 0 .. b - 1 : buffers[c]
  PROVE  SharedInv' /\ Persists /\ buffers'[b]
<1>0. UNCHANGED <<descriptor, descs>> /\ layout_ok(b)  BY DEF AllocateBucket
<1>1. \A c \in Buffers : buffers'[c] <=> buffers[c] \/ c = b
  <2>1. CASE buffers[b]
    BY <2>1 DEF AllocateBucket, InstallBucket
  <2>2. CASE ~buffers[b]
    <3>1. buffers' = [buffers EXCEPT ![b] = TRUE]
      BY <2>2 DEF AllocateBucket, InstallBucket
    <3> QED  BY <3>1 DEF TypeOK, SharedTypeOK
  <2> QED  BY <2>1, <2>2
<1>2. Persists  BY <1>0, <1>1 DEF Persists, TypeOK, SharedTypeOK
<1>3. ReplacedCleared' /\ PendingIsLast'
  BY <1>0 DEF SharedInv, ReplacedCleared, PendingIsLast
<1>4. AllocatedFit'  BY <1>0, <1>1 DEF SharedInv, AllocatedFit
<1>5. BucketsPrefix'
  <2> SUFFICES ASSUME NEW e \in Buffers, buffers'[e], NEW c \in 0 .. e - 1
               PROVE  buffers'[c]
    BY DEF BucketsPrefix
  <2>1. USIZE_BITS \in Nat /\ K \in Nat /\ Buffers = 0 .. USIZE_BITS - 2 - K
    BY BucketsAssumption, FirstBucket, BucketsThatFit
  <2>2. c \in Buffers  BY <2>1
  <2>3. buffers[c]
    BY <1>1 DEF SharedInv, BucketsPrefix
  <2> QED  BY <1>1, <2>2, <2>3
<1>6. ElementsBacked'
  BY <1>0, <1>2, BackedPersists DEF SharedInv, ElementsBacked
<1>7. buffers'[b]  BY <1>1
<1> QED  BY <1>2, <1>3, <1>4, <1>5, <1>6, <1>7 DEF SharedInv

\* The compare_exchange of the Descriptor, when the replaced one is completed.
LEMMA SwapKeeps ==
  ASSUME TypeOK, SharedInv, NEW t, NEW next \in Desc, SwapDescriptor(t, next),
         ~descs[descriptor].pending,
         \A i \in 0 .. next.size - 1 : Backed(i),
         next.pending => next.size > 0 /\ next.location = next.size - 1
  PROVE  /\ SharedInv' /\ Persists
         /\ descriptor' = descriptor + 1 /\ descs'[descriptor + 1] = next
<1>0. /\ descriptor \in Nat \ {0} /\ descriptor' = descriptor + 1
      /\ buffers' = buffers
      /\ \A d \in 1 .. descriptor : descs'[d] = descs[d]
      /\ descs'[descriptor + 1] = next
  BY DEF SwapDescriptor, TypeOK, SharedTypeOK
<1>1. Persists  BY <1>0 DEF Persists
<1>2. ReplacedCleared'
  BY <1>0 DEF SharedInv, ReplacedCleared
<1>3. BucketsPrefix' /\ AllocatedFit'
  BY <1>0 DEF SharedInv, BucketsPrefix, AllocatedFit
<1>4. ElementsBacked'
  <2> SUFFICES ASSUME NEW d \in 1 .. descriptor + 1, NEW i \in 0 .. descs'[d].size - 1
               PROVE  Backed(i)'
    BY <1>0 DEF ElementsBacked
  <2>1. CASE d = descriptor + 1  BY <1>0, <1>1, <2>1, BackedPersists
  <2>2. CASE d \in 1 .. descriptor
    <3>1. Backed(i)  BY <1>0, <2>2 DEF SharedInv, ElementsBacked
    <3> QED  BY <1>1, <3>1, BackedPersists
  <2> QED  BY <1>0, <2>1, <2>2
<1>5. PendingIsLast'
  <2> SUFFICES ASSUME NEW d \in 1 .. descriptor + 1, descs'[d].pending
               PROVE  descs'[d].size > 0 /\ descs'[d].location = descs'[d].size - 1
    BY <1>0 DEF PendingIsLast
  <2>1. CASE d = descriptor + 1  BY <1>0, <2>1
  <2>2. CASE d \in 1 .. descriptor  BY <1>0, <2>2 DEF SharedInv, PendingIsLast
  <2> QED  BY <1>0, <2>1, <2>2
<1> QED  BY <1>0, <1>1, <1>2, <1>3, <1>4, <1>5 DEF SharedInv

-----------------------------------------------------------------------------
(* What threads know *)

\* The local variables of a thread.
Locals(u) == <<pc[u], op[u], arg[u], cur[u], wd[u], target[u], ret[u], allocs[u]>>

\* What a thread knows stays true while other threads make their steps.
LEMMA OthersKeep ==
  ASSUME TypeOK, Persists, NEW u \in Threads, ThreadInv(u), UNCHANGED Locals(u)
  PROVE  ThreadInv(u)'
<1>0. /\ cur[u] \in 1 .. descriptor /\ wd[u] \in 1 .. descriptor
      /\ cur[u]' = cur[u] /\ wd[u]' = wd[u] /\ target[u]' = target[u]
      /\ pc[u]' = pc[u] /\ op[u]' = op[u] /\ arg[u]' = arg[u] /\ ret[u]' = ret[u]
      /\ allocs[u]' = allocs[u]
  BY DEF TypeOK, WorkTypeOK, Locals
<1>1. WriteKnown(u)'
  <2>1. descs'[wd[u]].location = descs[wd[u]].location  BY <1>0 DEF Persists
  <2>2. Backed(descs[wd[u]].location) => Backed(descs[wd[u]].location)'
    BY <1>0, <2>1, BackedPersists
  <2>3. AfterHelping(u)' = AfterHelping(u)  BY <1>0 DEF AfterHelping
  <2> QED  BY <1>0, <2>2, <2>3 DEF ThreadInv, WriteKnown
<1>2. LoopKnown(u)'
  <2>1. /\ descs'[cur[u]].size = descs[cur[u]].size
        /\ descs'[cur[u]].pending => descs[cur[u]].pending
    BY <1>0 DEF Persists
  <2>2. Backed(descs[cur[u]].size) => Backed(descs[cur[u]].size)'
    BY <1>0, <2>1, BackedPersists
  <2> QED  BY <1>0, <2>1, <2>2 DEF ThreadInv, LoopKnown
<1>3. ReserveKnown(u)'
  <2>1. USIZE_BITS \in Nat /\ K \in Nat /\ Buffers = 0 .. USIZE_BITS - 2 - K
    BY BucketsAssumption, FirstBucket, BucketsThatFit
  <2>2. allocs[u] \in Buffers => 0 .. allocs[u] \subseteq Buffers  BY <2>1
  <2> QED  BY <1>0, <2>2 DEF ThreadInv, ReserveKnown, Persists
<1>4. Delivered(u)'
  <2>1. \A i : Backed(i) => Backed(i)'  BY BackedPersists
  <2> QED  BY <1>0, <2>1 DEF ThreadInv, Delivered
<1> QED  BY <1>1, <1>2, <1>3, <1>4 DEF ThreadInv

-----------------------------------------------------------------------------
(* The steps *)

Known == SharedInv /\ \A u \in Threads : ThreadInv(u)

\* A step of one thread needs to be looked at from this thread only.
LEMMA StepOfOne ==
  ASSUME IInv, Persists, SharedInv', NEW t \in Threads, ThreadInv(t)',
         \A u \in Threads \ {t} : UNCHANGED Locals(u)
  PROVE  Known'
BY OthersKeep DEF IInv, Known

\* The end of a call that is not a reserve.
LEMMA ReturnKeeps ==
  ASSUME IInv, Persists, SharedInv', NEW t \in Threads, NEW value, Return(t, value),
         op[t] # "reserve"
  PROVE  Known'
<1>1. /\ pc' = [pc EXCEPT ![t] = "idle"] /\ op' = op /\ arg' = arg
      /\ \A u \in Threads \ {t} : UNCHANGED Locals(u)
  BY DEF IInv, TypeOK, CallTypeOK, WorkTypeOK, Return, EndOfScope, Goto, Locals
<1>2. pc'[t] = "idle" /\ op'[t] # "reserve"
  BY <1>1 DEF IInv, TypeOK, CallTypeOK
<1>3. ThreadInv(t)'
  BY <1>2 DEF ThreadInv, WriteKnown, LoopKnown, ReserveKnown, Delivered, InWrite, InLoop
<1> QED  BY <1>1, <1>3, StepOfOne

\* A panic, of a push or of a reserve that asks for more than can be had.
LEMMA PanicKeeps ==
  ASSUME IInv, NEW t \in Threads, PanicIn(t), op[t] = "reserve" => arg[t] - 1 \notin Slots
  PROVE  Known'
<1>1. /\ pc' = [pc EXCEPT ![t] = "panicked"] /\ op' = op /\ arg' = arg
      /\ \A u \in Threads \ {t} : UNCHANGED Locals(u)
      /\ UNCHANGED <<buffers, descriptor, descs>>
  BY DEF IInv, TypeOK, CallTypeOK, WorkTypeOK, PanicIn, EndOfScope, Goto, Locals,
     shared, call
<1>2. SharedInv' /\ Persists  BY <1>1, UnchangedKeeps DEF IInv
<1>3. pc'[t] = "panicked" /\ op'[t] = op[t] /\ arg'[t] = arg[t]
  BY <1>1 DEF IInv, TypeOK, CallTypeOK
<1>4. op[t] = "reserve" => arg[t] \in 0 .. UsizeMax
  BY DEF IInv, ThreadInv, ReserveKnown
<1>5. ThreadInv(t)'
  BY <1>3, <1>4 DEF ThreadInv, WriteKnown, LoopKnown, ReserveKnown, Delivered, InWrite, InLoop
<1> QED  BY <1>1, <1>2, <1>5, StepOfOne

LEMMA CallKeeps ==
  ASSUME IInv, NEW t \in Threads, NEW method, NEW argument, Call(t, method, argument),
         method = "reserve" => argument \in 0 .. UsizeMax
  PROVE  Known'
<1>1. /\ pc' = [pc EXCEPT ![t] = "load_descriptor"]
      /\ op' = [op EXCEPT ![t] = method] /\ arg' = [arg EXCEPT ![t] = argument]
      /\ \A u \in Threads \ {t} : UNCHANGED Locals(u)
      /\ UNCHANGED <<buffers, descriptor, descs>>
  BY DEF IInv, TypeOK, CallTypeOK, WorkTypeOK, Call, Goto, Locals, shared, work
<1>2. SharedInv' /\ Persists  BY <1>1, UnchangedKeeps DEF IInv
<1>3. pc'[t] = "load_descriptor" /\ op'[t] = method /\ arg'[t] = argument
  BY <1>1 DEF IInv, TypeOK, CallTypeOK
<1>4. ThreadInv(t)'
  BY <1>3 DEF ThreadInv, WriteKnown, LoopKnown, ReserveKnown, Delivered, InWrite, InLoop
<1> QED  BY <1>1, <1>2, <1>4, StepOfOne

\* complete_write: the helper leaves a Descriptor behind whose write is no
\* longer pending, because what it cleared is that Descriptor, or a later one
\* and then the write of the replaced one had been completed before.
LEMMA CompleteWriteKeeps ==
  ASSUME IInv, NEW t \in Threads, CompleteWrite(t)
  PROVE  Known'
<1>0. /\ TypeOK /\ SharedInv /\ ThreadInv(t)
      /\ cur[t] \in 1 .. descriptor /\ wd[t] \in 1 .. descriptor
      /\ target[t] \in 1 .. descriptor /\ descriptor \in Nat \ {0}
  BY DEF IInv, TypeOK, SharedTypeOK, WorkTypeOK
<1>1. CASE LoadPending(t)
  <2>1. /\ UNCHANGED <<buffers, descriptor, descs>>
        /\ UNCHANGED <<op, arg, cur, allocs>>
        /\ \A u \in Threads \ {t} : UNCHANGED Locals(u)
    BY <1>0, <1>1 DEF LoadPending, Goto, Locals, shared, call, TypeOK, CallTypeOK, WorkTypeOK
  <2>2. SharedInv' /\ Persists  BY <1>0, <2>1, UnchangedKeeps
  <2>3. op[t] \in {"push", "pop"}  BY <1>1 DEF LoadPending
  <2>4. CASE descs[cur[t]].pending
    <3>1. pc'[t] = "write_cell" /\ wd'[t] = cur[t] /\ ret'[t] = AfterHelping(t)
      BY <1>0, <1>1, <2>4 DEF LoadPending, Goto, TypeOK, CallTypeOK, WorkTypeOK
    <3>2. descs[cur[t]].size \in Nat
      BY <1>0 DEF TypeOK, SharedTypeOK, Desc
    <3>3. Backed(descs[cur[t]].location)
      BY <1>0, <2>4, <3>2 DEF SharedInv, PendingIsLast, ElementsBacked
    <3>4. Backed(descs[cur[t]].location)'
      BY <2>1, <3>3 DEF Backed
    <3>5. ThreadInv(t)'
      BY <2>1, <2>3, <3>1, <3>4 DEF ThreadInv, WriteKnown, LoopKnown, ReserveKnown,
         Delivered, InWrite, InLoop, AfterHelping
    <3> QED  BY <2>1, <2>2, <3>5, StepOfOne
  <2>5. CASE ~descs[cur[t]].pending
    <3>1. pc'[t] = AfterHelping(t)
      BY <1>0, <1>1, <2>5 DEF LoadPending, Goto, TypeOK, CallTypeOK
    <3>2. ThreadInv(t)'
      BY <2>1, <2>3, <2>5, <3>1 DEF ThreadInv, WriteKnown, LoopKnown, ReserveKnown,
         Delivered, InWrite, InLoop, AfterHelping
    <3> QED  BY <2>1, <2>2, <3>2, StepOfOne
  <2> QED  BY <2>4, <2>5
<1>2. CASE WriteCell(t)
  <2>1. /\ UNCHANGED <<buffers, descriptor, descs>>
        /\ UNCHANGED <<op, arg, cur, wd, target, ret, allocs>>
        /\ \A u \in Threads \ {t} : UNCHANGED Locals(u)
        /\ pc[t] = "write_cell" /\ pc'[t] = "load_target"
    BY <1>0, <1>2 DEF WriteCell, Goto, Locals, call, work, TypeOK, CallTypeOK
  <2>2. SharedInv' /\ Persists  BY <1>0, <2>1, UnchangedKeeps
  <2>3. ThreadInv(t)'
    BY <1>0, <2>1 DEF ThreadInv, WriteKnown, LoopKnown, ReserveKnown, Delivered,
       InWrite, InLoop, AfterHelping, Backed
  <2> QED  BY <2>1, <2>2, <2>3, StepOfOne
<1>3. CASE LoadTarget(t)
  <2>1. /\ UNCHANGED <<buffers, descriptor, descs>>
        /\ UNCHANGED <<op, arg, cur, wd, ret, allocs>>
        /\ \A u \in Threads \ {t} : UNCHANGED Locals(u)
        /\ pc[t] = "load_target" /\ pc'[t] = "clear_pending" /\ target'[t] = descriptor
    BY <1>0, <1>3 DEF LoadTarget, Goto, Locals, shared, call, TypeOK, CallTypeOK, WorkTypeOK
  <2>2. SharedInv' /\ Persists  BY <1>0, <2>1, UnchangedKeeps
  <2>3. ThreadInv(t)'
    BY <1>0, <2>1 DEF ThreadInv, WriteKnown, LoopKnown, ReserveKnown, Delivered,
       InWrite, InLoop, AfterHelping, Backed
  <2> QED  BY <2>1, <2>2, <2>3, StepOfOne
<1>4. CASE ClearPending(t)
  <2>1. /\ UNCHANGED <<buffers, descriptor>> /\ pc[t] = "clear_pending"
        /\ descs' = [descs EXCEPT ![target[t]].pending = FALSE]
    BY <1>4 DEF ClearPending
  <2>2. SharedInv' /\ Persists  BY <1>0, <2>1, ClearKeeps
  <2>3. op[t] \in {"push", "pop"} /\ wd[t] <= target[t]
    BY <1>0, <2>1 DEF ThreadInv, WriteKnown, InWrite
  <2>4. CASE ret[t] = "idle"
    BY <1>4, <2>2, <2>3, <2>4, ReturnKeeps DEF ClearPending
  <2>5. CASE ret[t] # "idle"
    <3>1. /\ UNCHANGED <<op, arg, cur, allocs>> /\ pc'[t] = ret[t]
          /\ \A u \in Threads \ {t} : UNCHANGED Locals(u)
      BY <1>0, <1>4, <2>5 DEF ClearPending, Goto, Locals, call, TypeOK, CallTypeOK, WorkTypeOK
    <3>2. wd[t] = cur[t] /\ ret[t] = AfterHelping(t)
      BY <1>0, <2>1, <2>5 DEF ThreadInv, WriteKnown, InWrite
    <3>3. ~descs'[cur[t]].pending
      <4>1. CASE target[t] = cur[t]
        BY <1>0, <2>1, <4>1 DEF TypeOK, SharedTypeOK, Desc
      <4>2. CASE cur[t] < target[t]
        <5>1. ~descs[cur[t]].pending
          BY <1>0, <4>2 DEF SharedInv, ReplacedCleared
        <5> QED  BY <1>0, <2>2, <5>1 DEF Persists
      <4> QED  BY <1>0, <2>3, <3>2, <4>1, <4>2
    <3>4. ThreadInv(t)'
      BY <2>3, <3>1, <3>2, <3>3, <1>0 DEF ThreadInv, WriteKnown, LoopKnown, ReserveKnown,
         Delivered, InWrite, InLoop, AfterHelping
    <3> QED  BY <2>2, <3>1, <3>4, StepOfOne
  <2> QED  BY <2>4, <2>5
<1> QED  BY <1>1, <1>2, <1>3, <1>4 DEF CompleteWrite

\* The loads of the loops, and a compare_exchange that failed.
LEMMA LoopKeeps ==
  ASSUME IInv, NEW t \in Threads,
         \/ LoadDescriptor(t) \/ RetrySwap(t)
         \/ CheckBucket(t) \/ ReadOld(t) \/ ReadLast(t)
  PROVE  Known'
<1>0. /\ TypeOK /\ SharedInv /\ ThreadInv(t)
      /\ cur[t] \in 1 .. descriptor /\ descriptor \in Nat \ {0}
  BY DEF IInv, TypeOK, SharedTypeOK, WorkTypeOK
<1>1. /\ UNCHANGED <<buffers, descriptor, descs>> /\ UNCHANGED <<op, arg>>
      /\ \A u \in Threads \ {t} : UNCHANGED Locals(u)
  BY <1>0 DEF LoadDescriptor, RetrySwap, CheckBucket, ReadOld, ReadLast, EndOfScope,
     Goto, Locals, shared, call, work, TypeOK, CallTypeOK, WorkTypeOK
<1>2. SharedInv' /\ Persists  BY <1>0, <1>1, UnchangedKeeps
<1>3. ThreadInv(t)'
  <2>1. CASE LoadDescriptor(t) \/ RetrySwap(t)
    <3>1. pc'[t] \in {"load_pending", "load_descriptor"}
      BY <1>0, <2>1 DEF LoadDescriptor, RetrySwap, Goto, TypeOK, CallTypeOK
    <3> QED  BY <1>0, <1>1, <3>1 DEF ThreadInv, WriteKnown, LoopKnown, ReserveKnown,
             Delivered, InWrite, InLoop
  <2>2. CASE CheckBucket(t)
    <3> DEFINE size == descs[cur[t]].size
    <3>1. /\ pc[t] = "check_bucket" /\ cur' = cur
          /\ pc'[t] \in {"read_elem", "allocate_bucket"}
          /\ pc'[t] = "read_elem" => buffers[bucket_of(size)]
      BY <1>0, <2>2 DEF CheckBucket, Goto, TypeOK, CallTypeOK
    <3>2. /\ bucket_of(size) \in Buffers
          /\ layout_ok(bucket_of(size)) => size \in Slots
      BY <1>0, SizesInRange DEF SharedInv
    <3>3. pc'[t] = "read_elem" => Backed(size)'
      BY <1>0, <1>1, <3>1, <3>2 DEF SharedInv, AllocatedFit, Backed
    <3> QED  BY <1>0, <1>1, <3>1, <3>3 DEF ThreadInv, WriteKnown, LoopKnown, ReserveKnown,
             Delivered, InWrite, InLoop
  <2>3. CASE ReadOld(t) \/ ReadLast(t)
    <3>1. /\ pc[t] = "read_elem" /\ pc'[t] = "swap_descriptor" /\ cur' = cur
          /\ op[t] = "push" \/ (op[t] = "pop" /\ descs[cur[t]].size # 0)
      BY <1>0, <2>3 DEF ReadOld, ReadLast, Goto, TypeOK, CallTypeOK
    <3>2. Backed(descs[cur[t]].size) => Backed(descs[cur[t]].size)'
      BY <1>1, <3>1 DEF Backed
    <3> QED  BY <1>0, <1>1, <3>1, <3>2 DEF ThreadInv, WriteKnown, LoopKnown, ReserveKnown,
             Delivered, InWrite, InLoop
  <2> QED  BY <2>1, <2>2, <2>3
<1> QED  BY <1>1, <1>2, <1>3, StepOfOne

\* push allocates the bucket of the index after the last element: all of the
\* smaller ones hold elements, so none of them is missing.
LEMMA PushAllocatesKeeps ==
  ASSUME IInv, NEW t \in Threads, PushAllocates(t)
  PROVE  Known'
<1> DEFINE size == descs[cur[t]].size
           b    == bucket_of(size)
<1>0. /\ TypeOK /\ SharedInv /\ ThreadInv(t) /\ cur[t] \in 1 .. descriptor
      /\ op[t] \in {"push", "pop"} /\ ~descs[cur[t]].pending
  BY DEF IInv, TypeOK, SharedTypeOK, WorkTypeOK, PushAllocates, ThreadInv, LoopKnown, InLoop
<1>1. /\ size \in 0 .. UsizeMax - FIRST_BUCKET_SIZE /\ b \in Buffers
      /\ \A i \in 0 .. size - 1 : buffers[bucket_of(i)]
      /\ layout_ok(b) => size \in Slots
  BY <1>0, SizesInRange DEF SharedInv
<1> HIDE DEF size
<1>2. \A c \in 0 .. b - 1 : buffers[c]
  BY <1>1, SmallerBucketsAreUsed
<1>3. CASE CapacityOverflow(t, b)
  BY <1>0, <1>3, PanicKeeps DEF CapacityOverflow
<1>4. CASE AllocateBucket(t, b) /\ Goto(t, "read_elem") /\ UNCHANGED allocs
  <2>1. SharedInv' /\ Persists /\ buffers'[b]
    BY <1>0, <1>1, <1>2, <1>4, AllocateKeeps
  <2>2. /\ UNCHANGED <<op, arg, cur, descs>> /\ pc'[t] = "read_elem"
        /\ \A u \in Threads \ {t} : UNCHANGED Locals(u)
    BY <1>0, <1>4 DEF AllocateBucket, Goto, Locals, call, TypeOK, CallTypeOK
  <2>3. Backed(size)'
    BY <1>1, <1>4, <2>1, <2>2 DEF Backed, AllocateBucket, size
  <2>4. ThreadInv(t)'
    BY <1>0, <2>2, <2>3 DEF ThreadInv, WriteKnown, LoopKnown, ReserveKnown, Delivered,
       InWrite, InLoop, size
  <2> QED  BY <2>1, <2>2, <2>4, StepOfOne
<1> QED  BY <1>3, <1>4 DEF PushAllocates, size

\* The compare_exchange replaces a Descriptor that has no pending write: this
\* is where helping pays.
LEMMA SwapsKeep ==
  ASSUME IInv, NEW t \in Threads, PushSwaps(t) \/ PopSwaps(t)
  PROVE  Known'
<1> DEFINE size == descs[descriptor].size
<1>0. /\ TypeOK /\ SharedInv /\ ThreadInv(t) /\ cur[t] = descriptor
      /\ descriptor \in Nat \ {0} /\ pc[t] = "swap_descriptor"
      /\ op[t] \in {"push", "pop"} /\ ~descs[descriptor].pending
      /\ size \in Nat /\ arg[t] \in Nat /\ elem[t] \in Nat
  BY DEF IInv, TypeOK, SharedTypeOK, CallTypeOK, WorkTypeOK, Desc, PushSwaps, PopSwaps,
     SwapDescriptor, ThreadInv, LoopKnown, InLoop
<1>1. \A i \in 0 .. size - 1 : Backed(i)
  BY <1>0 DEF SharedInv, ElementsBacked
<1>2. CASE PushSwaps(t)
  <2> SUFFICES ASSUME NEW s, s = descs[descriptor].size PROVE Known'
    OBVIOUS
  <2> DEFINE next == [size |-> s + 1, pending |-> TRUE,
                      new |-> arg[t], old |-> elem[t], location |-> s]
  <2>1. SwapDescriptor(t, next) /\ op[t] = "push"  BY <1>0, <1>2 DEF PushSwaps
  <2>2. Backed(s)  BY <1>0, <2>1 DEF ThreadInv, LoopKnown
  <2>3. /\ next \in Desc
        /\ next.pending => next.size > 0 /\ next.location = next.size - 1
        /\ \A i \in 0 .. next.size - 1 : Backed(i)
    BY <1>0, <1>1, <2>2 DEF Desc
  <2>4. next.location = s  OBVIOUS
  <2> HIDE DEF next
  <2>5. /\ SharedInv' /\ Persists
        /\ descriptor' = descriptor + 1 /\ descs'[descriptor + 1] = next
    BY <1>0, <2>1, <2>3, SwapKeeps
  <2>6. /\ UNCHANGED <<op, arg, cur, allocs>> /\ pc'[t] = "write_cell"
        /\ wd'[t] = descriptor + 1 /\ ret'[t] = "idle"
        /\ \A u \in Threads \ {t} : UNCHANGED Locals(u)
    BY <1>0, <1>2 DEF PushSwaps, Goto, Locals, call, TypeOK, CallTypeOK, WorkTypeOK
  <2>7. Backed(s)'  BY <2>2, <2>5, BackedPersists
  <2>8. Backed(descs[wd[t]].location)'  BY <2>4, <2>5, <2>6, <2>7 DEF Backed
  <2>9. ThreadInv(t)'
    BY <1>0, <2>1, <2>6, <2>8 DEF ThreadInv, WriteKnown, LoopKnown, ReserveKnown,
       Delivered, InWrite, InLoop
  <2> QED  BY <2>5, <2>6, <2>9, StepOfOne
<1>3. CASE PopSwaps(t)
  <2> DEFINE next == NoWrite(size - 1)
  <2>1. /\ SwapDescriptor(t, next) /\ op[t] = "pop" /\ size # 0 /\ Return(t, elem[t])
    BY <1>0, <1>3 DEF PopSwaps, ThreadInv, LoopKnown
  <2> HIDE DEF size
  <2>2. /\ next \in Desc /\ ~next.pending
        /\ \A i \in 0 .. next.size - 1 : Backed(i)
    BY <1>0, <1>1, <2>1 DEF Desc, NoWrite, Zero
  <2>3. SharedInv' /\ Persists
    BY <1>0, <2>1, <2>2, SwapKeeps
  <2> QED  BY <1>0, <2>1, <2>3, ReturnKeeps
<1> QED  BY <1>2, <1>3

\* reserve starts where the size says and takes the buckets in order, so that
\* it can say in the end that it has all of them up to the last.
LEMMA ReserveKeeps ==
  ASSUME IInv, NEW t \in Threads, Reserve(t)
  PROVE  Known'
<1>0. /\ TypeOK /\ SharedInv /\ ThreadInv(t) /\ cur[t] \in 1 .. descriptor
      /\ allocs[t] \in Nat
      /\ op[t] = "reserve" /\ arg[t] \in 0 .. UsizeMax
      /\ USIZE_BITS \in Nat /\ K \in Nat /\ Buffers = 0 .. USIZE_BITS - 2 - K
      /\ UsizeMax \in Nat /\ FIRST_BUCKET_SIZE \in 1 .. UsizeMax
  <2>1. TypeOK /\ SharedInv /\ ThreadInv(t)  BY DEF IInv
  <2>2. cur[t] \in 1 .. descriptor /\ allocs[t] \in Nat  BY <2>1 DEF TypeOK, WorkTypeOK
  <2>3. op[t] = "reserve" /\ arg[t] \in 0 .. UsizeMax
    BY <2>1, Zenon DEF Reserve, ReserveSize, ReserveFirst, ReserveNext, ReserveDone,
       ThreadInv, ReserveKnown
  <2>4. USIZE_BITS \in Nat /\ K \in Nat /\ Buffers = 0 .. USIZE_BITS - 2 - K
    BY BucketsAssumption, FirstBucket, BucketsThatFit
  <2>5. UsizeMax \in Nat /\ FIRST_BUCKET_SIZE \in 1 .. UsizeMax
    BY FirstBucket, BucketsThatFit
  <2> QED  BY <2>1, <2>2, <2>3, <2>4, <2>5
<1> DEFINE n == arg[t]
<1>1. /\ last_bucket(n) \in 0 .. USIZE_BITS - 1 - K
      /\ n = 0 => last_bucket(n) = 0
      /\ n # 0 /\ n - 1 <= UsizeMax - FIRST_BUCKET_SIZE => last_bucket(n) = bucket_of(n - 1)
      /\ n - 1 > UsizeMax - FIRST_BUCKET_SIZE => ~layout_ok(last_bucket(n))
  BY <1>0, LastBucket
<1>2. CASE ReserveSize(t)
  <2> DEFINE s == SizeOf(cur[t])
  <2>1. /\ UNCHANGED <<buffers, descriptor, descs>> /\ UNCHANGED <<op, arg>>
        /\ \A u \in Threads \ {t} : UNCHANGED Locals(u)
        /\ allocs'[t] = last_bucket(s)
        /\ pc'[t] = IF s = 0 THEN "reserve_first" ELSE "reserve_next"
    BY <1>0, <1>2 DEF ReserveSize, Goto, Locals, shared, call, TypeOK, CallTypeOK, WorkTypeOK
  <2>2. SharedInv' /\ Persists  BY <1>0, <2>1, UnchangedKeeps
  <2>3. /\ s \in Nat /\ s <= descs[cur[t]].size
        /\ descs[cur[t]].size \in 0 .. UsizeMax - FIRST_BUCKET_SIZE
        /\ \A i \in 0 .. descs[cur[t]].size - 1 : i \in Slots /\ buffers[bucket_of(i)]
    BY <1>0, SizeOfType, SizesInRange DEF SharedInv
  <2> HIDE DEF s
  <2>4. CASE s = 0
    <3>1. last_bucket(s) = 0 /\ pc'[t] = "reserve_first"
      BY <1>0, <2>1, <2>4, LastBucket
    <3>2. ThreadInv(t)'
      BY <1>0, <2>1, <3>1 DEF ThreadInv, WriteKnown, LoopKnown, ReserveKnown, Delivered,
         InWrite, InLoop
    <3> QED  BY <2>1, <2>2, <3>2, StepOfOne
  <2>5. CASE s # 0
    <3>1. s \in 0 .. UsizeMax /\ s - 1 <= UsizeMax - FIRST_BUCKET_SIZE
          /\ s - 1 \in Slots /\ buffers[bucket_of(s - 1)]
      BY <1>0, <2>3, <2>5
    <3>2. last_bucket(s) = bucket_of(s - 1)  BY <2>5, <3>1, LastBucket
    <3>3. layout_ok(bucket_of(s - 1)) /\ s - 1 \in 0 .. UsizeMax - FIRST_BUCKET_SIZE
      BY <3>1 DEF Slots
    <3>4. bucket_of(s - 1) \in 0 .. USIZE_BITS - K
      <4>1. bucket_of(s - 1) \in 0 .. USIZE_BITS - 1 - K  BY <3>3, BucketOf
      <4> HIDE DEF n
      <4> QED  BY <4>1, BucketsAssumption, FirstBucket
    <3>5. bucket_of(s - 1) \in Buffers  BY <3>3, <3>4, BucketsThatFit
    <3>6. \A c \in 0 .. bucket_of(s - 1) : buffers[c]
      BY <1>0, <3>1, <3>5 DEF SharedInv, BucketsPrefix
    <3>7. ThreadInv(t)'
      BY <1>0, <2>1, <2>5, <3>2, <3>5, <3>6 DEF ThreadInv, WriteKnown, LoopKnown,
         ReserveKnown, Delivered, InWrite, InLoop
    <3> QED  BY <2>1, <2>2, <3>7, StepOfOne
  <2> QED  BY <2>4, <2>5
<1>3. CASE ReserveFirst(t)
  <2>1. AllocateBucket(t, 0) /\ pc[t] = "reserve_first" /\ allocs' = allocs /\ allocs[t] = 0
    BY <1>0, <1>3 DEF ReserveFirst, ThreadInv, ReserveKnown
  <2>2. SharedInv' /\ Persists /\ buffers'[0]
    BY <1>0, <2>1, AllocateKeeps, BucketsThatFit
  <2>3. /\ UNCHANGED <<op, arg>> /\ pc'[t] = "reserve_next"
        /\ \A u \in Threads \ {t} : UNCHANGED Locals(u)
    BY <1>0, <1>3 DEF ReserveFirst, AllocateBucket, Goto, Locals, call, TypeOK, CallTypeOK
  <2>4. allocs'[t] \in Buffers /\ \A c \in 0 .. allocs'[t] : buffers'[c]
    BY <2>1, <2>2, BucketsThatFit
  <2>5. ThreadInv(t)'
    BY <1>0, <2>3, <2>4 DEF ThreadInv, WriteKnown, LoopKnown, ReserveKnown, Delivered,
       InWrite, InLoop
  <2> QED  BY <2>2, <2>3, <2>5, StepOfOne
<1>4. CASE ReserveNext(t)
  <2> DEFINE b == allocs[t] + 1
  <2>1. /\ b <= last_bucket(n) /\ allocs[t] \in Buffers
        /\ \A c \in 0 .. b - 1 : buffers[c]
        /\ b \in 0 .. USIZE_BITS - 1 - K
    BY <1>0, <1>1, <1>4 DEF ReserveNext, ThreadInv, ReserveKnown
  <2>2. CASE CapacityOverflow(t, b)
    <3>1. ~layout_ok(b)  BY <2>2 DEF CapacityOverflow
    <3>2. ~layout_ok(last_bucket(n))
      <4>1. last_bucket(n) \in 0 .. USIZE_BITS - K /\ b \in 0 .. last_bucket(n)
        BY <1>0, <1>1, <2>1
      <4> QED  BY <3>1, <4>1, BucketsThatFit
    <3>3. n - 1 \notin Slots
      <4> SUFFICES ASSUME n - 1 \in Slots PROVE FALSE
        OBVIOUS
      <4>1. layout_ok(bucket_of(n - 1)) /\ n - 1 \in 0 .. UsizeMax - FIRST_BUCKET_SIZE
        BY DEF Slots
      <4> QED  BY <1>0, <1>1, <3>2, <4>1
    <3> QED  BY <2>2, <3>3, PanicKeeps DEF CapacityOverflow
  <2>3. CASE /\ AllocateBucket(t, b)
             /\ allocs' = [allocs EXCEPT ![t] = @ + 1]
             /\ Goto(t, "reserve_next")
    <3>1. b \in Buffers
      <4>1. layout_ok(b) /\ b \in 0 .. USIZE_BITS - K  BY <1>0, <2>1, <2>3 DEF AllocateBucket
      <4> QED  BY <4>1, BucketsThatFit
    <3>2. SharedInv' /\ Persists /\ buffers'[b]
      BY <1>0, <2>1, <2>3, <3>1, AllocateKeeps
    <3>3. /\ UNCHANGED <<op, arg>> /\ pc'[t] = "reserve_next" /\ allocs'[t] = b
          /\ \A u \in Threads \ {t} : UNCHANGED Locals(u)
      BY <1>0, <2>3 DEF AllocateBucket, Goto, Locals, call, TypeOK, CallTypeOK, WorkTypeOK
    <3>4. \A c \in 0 .. b : buffers'[c]
      <4>1. \A c \in Buffers : buffers[c] => buffers'[c]  BY <3>2 DEF Persists
      <4>2. \A c \in 0 .. allocs[t] : c \in Buffers /\ buffers[c]  BY <1>0, <2>1, <3>1
      <4>3. \A c \in 0 .. allocs[t] : buffers'[c]  BY <4>1, <4>2
      <4> QED  BY <1>0, <3>2, <4>3
    <3>5. ThreadInv(t)'
      BY <1>0, <3>1, <3>3, <3>4 DEF ThreadInv, WriteKnown, LoopKnown, ReserveKnown,
         Delivered, InWrite, InLoop
    <3> QED  BY <3>2, <3>3, <3>5, StepOfOne
  <2> QED  BY <1>4, <2>2, <2>3 DEF ReserveNext
<1>5. CASE ReserveDone(t)
  <2>1. /\ UNCHANGED <<buffers, descriptor, descs>> /\ UNCHANGED <<op, arg>>
        /\ \A u \in Threads \ {t} : UNCHANGED Locals(u)
        /\ pc'[t] = "idle"
    BY <1>0, <1>5 DEF ReserveDone, Return, EndOfScope, Goto, Locals, shared, TypeOK,
       CallTypeOK, WorkTypeOK
  <2>2. SharedInv' /\ Persists  BY <1>0, <2>1, UnchangedKeeps
  <2>3. /\ last_bucket(n) <= allocs[t] /\ allocs[t] \in Buffers
        /\ \A c \in 0 .. allocs[t] : buffers[c]
    BY <1>0, <1>1, <1>5 DEF ReserveDone, ThreadInv, ReserveKnown
  <2>4. last_bucket(n) \in Buffers /\ layout_ok(last_bucket(n))
    <3>1. last_bucket(n) \in 0 .. allocs[t]  BY <1>0, <1>1, <2>3
    <3>2. last_bucket(n) \in Buffers  BY <1>0, <1>1, <2>3
    <3> QED  BY <1>0, <2>3, <3>1, <3>2 DEF SharedInv, AllocatedFit
  <2>5. ASSUME NEW i \in 0 .. n - 1  PROVE Backed(i)'
    <3>1. n - 1 <= UsizeMax - FIRST_BUCKET_SIZE  BY <1>0, <1>1, <2>4
    <3>2. /\ i \in 0 .. UsizeMax - FIRST_BUCKET_SIZE
          /\ n - 1 \in 0 .. UsizeMax - FIRST_BUCKET_SIZE /\ i <= n - 1
      BY <1>0, <2>5, <3>1
    <3>3. bucket_of(i) <= last_bucket(n)  BY <1>0, <1>1, <2>5, <3>2, BucketMonotone
    <3>4. bucket_of(i) \in 0 .. USIZE_BITS - 1 - K  BY <3>2, BucketOf
    <3>5. buffers[bucket_of(i)] /\ bucket_of(i) \in Buffers
      BY <1>0, <1>1, <2>3, <2>4, <3>3, <3>4
    <3>6. layout_ok(bucket_of(i))  BY <1>0, <3>5 DEF SharedInv, AllocatedFit
    <3> QED  BY <2>1, <3>2, <3>5, <3>6 DEF Backed, Slots
  <2>6. ThreadInv(t)'
    BY <1>0, <2>1, <2>5 DEF ThreadInv, WriteKnown, LoopKnown, ReserveKnown, Delivered,
       InWrite, InLoop
  <2> QED  BY <2>1, <2>2, <2>6, StepOfOne
<1> QED  BY <1>2, <1>3, <1>4, <1>5 DEF Reserve

-----------------------------------------------------------------------------
(* The invariant and its consequences *)

LEMMA StutterKeeps ==
  ASSUME IInv, UNCHANGED vars
  PROVE  IInv'
<1>1. TypeOK'
  BY DEF IInv, TypeOK, SharedTypeOK, CallTypeOK, WorkTypeOK, vars, shared, call, work
<1>2. SharedInv' /\ Persists
  BY UnchangedKeeps DEF IInv, vars, shared
<1>3. ASSUME NEW u \in Threads  PROVE ThreadInv(u)'
  BY <1>2, OthersKeep DEF IInv, Locals, vars, call, work
<1> QED  BY <1>1, <1>2, <1>3 DEF IInv

LEMMA NextKnown ==
  ASSUME IInv, Next
  PROVE  Known'
<1>1. ASSUME NEW t \in Threads, Calls(t)  PROVE Known'
  <2>1. CASE CallReserve(t)
    <3>1. PICK n \in ReserveArgs : Call(t, "reserve", n)  BY <2>1 DEF CallReserve
    <3> QED  BY <3>1, CallKeeps, LeakyAssumption
  <2>2. CASE CallPush(t)
    <3>1. PICK v \in Values : Call(t, "push", v)  BY <2>2 DEF CallPush
    <3> QED  BY <3>1, CallKeeps
  <2>3. CASE CallPop(t)
    BY <2>3, CallKeeps DEF CallPop
  <2>4. CASE CallSize(t)
    BY <2>4, CallKeeps DEF CallSize
  <2> QED  BY <1>1, <2>1, <2>2, <2>3, <2>4 DEF Calls
<1>2. ASSUME NEW t \in Threads, PopEmpty(t) \/ Size(t)  PROVE Known'
  <2>1. UNCHANGED <<buffers, descriptor, descs>> /\ op[t] # "reserve"
    BY <1>2 DEF PopEmpty, Size, shared
  <2>2. SharedInv' /\ Persists  BY <2>1, UnchangedKeeps DEF IInv
  <2>3. PICK value : Return(t, value)  BY <1>2 DEF PopEmpty, Size
  <2> QED  BY <2>1, <2>2, <2>3, ReturnKeeps
<1>3. ASSUME NEW t \in Threads, Step(t)  PROVE Known'
  <2>1. CASE LoadDescriptor(t) \/ RetrySwap(t)  BY <2>1, LoopKeeps
  <2>2. CASE CompleteWrite(t)                    BY <2>2, CompleteWriteKeeps
  <2>3. CASE Push(t)
    BY <2>3, LoopKeeps, PushAllocatesKeeps, SwapsKeep DEF Push
  <2>4. CASE Pop(t)
    BY <2>4, <1>2, LoopKeeps, SwapsKeep DEF Pop
  <2>5. CASE Size(t)                             BY <2>5, <1>2
  <2>6. CASE Reserve(t)                          BY <2>6, ReserveKeeps
  <2> QED  BY <1>3, <2>1, <2>2, <2>3, <2>4, <2>5, <2>6 DEF Step
<1>4. CASE AllQuiescent
  BY <1>4, StutterKeeps DEF AllQuiescent, IInv, Known
<1> QED  BY <1>1, <1>3, <1>4 DEF Next

\* The invariant is inductive: it holds of new() and every step of every
\* thread keeps it.
THEOREM Invariance == Spec => []IInv
<1>1. Init => IInv  BY InitIInv
<1>2. IInv /\ [Next]_vars => IInv'
  <2>1. ASSUME IInv, Next  PROVE IInv'
    BY <2>1, NextTypeOK, NextKnown DEF IInv, Known
  <2> QED  BY <2>1, StutterKeeps
<1> QED  BY <1>1, <1>2, PTL DEF Spec

\* The types hold for any number of threads, calls and elements: no size,
\* result or element leaves the natural numbers, and a thread holds only
\* Descriptors that were swapped in.
THEOREM TypeCorrect == Spec => []TypeOK
<1>1. IInv => TypeOK  BY DEF IInv
<1> QED  BY <1>1, Invariance, PTL

\* push and pop never replace a Descriptor whose write is pending: to each the
\* help that complete_write gives comes before its end.
THEOREM ReplacedAreCleared == Spec => []ReplacedCleared
<1>1. IInv => ReplacedCleared  BY DEF IInv, SharedInv
<1> QED  BY <1>1, Invariance, PTL

\* allocate_bucket leaves no hole, whichever threads call it for push and for
\* reserve, and in whatever order.
THEOREM BucketsHaveNoHole == Spec => []BucketsPrefix
<1>1. IInv => BucketsPrefix  BY DEF IInv, SharedInv
<1> QED  BY <1>1, Invariance, PTL

\* No thread offsets the null pointer of a bucket that is not allocated, in
\* complete_write, push or pop.
THEOREM NoNullIsOffset == Spec => []NoNullDeref
<1>1. ASSUME IInv  PROVE NoNullDeref
  <2> SUFFICES ASSUME NEW t \in Threads
               PROVE  /\ pc[t] = "write_cell" => Backed(descs[wd[t]].location)
                      /\ pc[t] = "read_elem" /\ op[t] = "push" => Backed(descs[cur[t]].size)
                      /\ pc[t] = "read_elem" /\ op[t] = "pop" /\ descs[cur[t]].size # 0
                           => Backed(descs[cur[t]].size - 1)
    BY DEF NoNullDeref
  <2>1. WriteKnown(t) /\ LoopKnown(t)  BY <1>1 DEF IInv, ThreadInv
  <2>2. cur[t] \in 1 .. descriptor /\ descs[cur[t]].size \in Nat
    BY <1>1 DEF IInv, TypeOK, SharedTypeOK, WorkTypeOK, Desc
  <2>3. descs[cur[t]].size # 0 => Backed(descs[cur[t]].size - 1)
    BY <1>1, <2>2 DEF IInv, SharedInv, ElementsBacked
  <2> QED  BY <2>1, <2>3 DEF WriteKnown, LoopKnown, InWrite
<1>2. IInv => NoNullDeref  BY <1>1
<1> QED  BY <1>2, Invariance, PTL

\* When reserve(n) has returned, the n elements have their memory; when it has
\* panicked, no memory can hold them.
THEOREM ReserveHasDelivered == Spec => []ReserveDelivers
<1>1. IInv => ReserveDelivers  BY DEF IInv, ThreadInv, ReserveDelivers
<1> QED  BY <1>1, Invariance, PTL

-----------------------------------------------------------------------------
(* Who owns what is pending *)

\* What is pending afterwards was so before, and has the owner it had.
OwnersStay ==
  /\ \A d \in 1 .. descriptor' : descs'[d].pending => d \in 1 .. descriptor /\ descs[d].pending
  /\ \A u \in Threads : Own(u)' => Own(u) /\ wd'[u] = wd[u]
  /\ \A u \in Threads : Own(u) /\ descs'[wd[u]].pending => Own(u)' /\ wd'[u] = wd[u]

LEMMA OwnersKeep ==
  ASSUME TypeOK, OneOwner, OwnersStay
  PROVE  OneOwner'
<1>1. ASSUME NEW d \in 1 .. descriptor', descs'[d].pending
      PROVE  \E u \in Threads : Own(u)' /\ wd'[u] = d
  <2>1. d \in 1 .. descriptor /\ descs[d].pending  BY <1>1 DEF OwnersStay
  <2>2. PICK u \in Threads : Own(u) /\ wd[u] = d  BY <2>1 DEF OneOwner
  <2> QED  BY <1>1, <2>2 DEF OwnersStay
<1>2. ASSUME NEW t \in Threads, NEW u \in Threads, Own(t)', Own(u)', wd'[t] = wd'[u]
      PROVE  t = u
  BY <1>2 DEF OneOwner, OwnersStay
<1> QED  BY <1>1, <1>2 DEF OneOwner

-----------------------------------------------------------------------------
(* The length *)

\* LeakySize restricts nothing: the invariant of Leaky holds of it.
LEMMA SizeInvariance == SizeSpecification => []IInv
<1>1. SizeInit => IInv  BY InitIInv DEF SizeInit
<1>2. IInv /\ [SizeNext]_<<vars, seen>> => IInv'
  <2>1. ASSUME IInv, Next  PROVE IInv'
    BY <2>1, NextTypeOK, NextKnown DEF IInv, Known
  <2> QED  BY <2>1, StutterKeeps DEF SizeNext
<1> QED  BY <1>1, <1>2, PTL DEF SizeSpecification

-----------------------------------------------------------------------------
(* What a step leaves as it is *)

\* A step of t concerns the local variables of t alone.
OthersStay(t) == \A u \in Threads \ {t} : UNCHANGED <<Locals(u), res[u]>>

\* Nor does it change which of the old Descriptors have a pending write.
PendingStays == \A d \in 1 .. descriptor : descs'[d].pending = descs[d].pending

\* The size of a Descriptor is what it was, or it is the length now.
SizesStay == \A d \in 1 .. descriptor : SizeOf(d)' = SizeOf(d) \/ SizeOf(d)' = len'

\* The Descriptor a thread has is the one it had, or it is the current one.
LoadStays(u) == Loaded(u)' => (Loaded(u) /\ cur'[u] = cur[u]) \/ cur'[u] = descriptor'

Observed == seen' = [t \in Threads |-> IF Method(t)' = "idle" THEN {} ELSE seen[t] \cup {len'}]

\* So what a thread has seen includes the size that it has loaded.
LEMMA SeenKeeps ==
  ASSUME TypeOK, TypeOK', SizesStay, Observed,
         NEW u \in Threads, LoadStays(u), CallCounts(u), Loaded(u)'
  PROVE  (SizeOf(cur[u]) \in seen[u])'
<1>1. Method(u)' # "idle"
  BY DEF Loaded, Method, TypeOK, CallTypeOK, InWrite
<1>2. seen'[u] = seen[u] \cup {len'}  BY <1>1 DEF Observed
<1>3. CASE cur'[u] = descriptor'  BY <1>2, <1>3 DEF len, SizeOf
<1>4. CASE Loaded(u) /\ cur'[u] = cur[u]
  <2>1. cur[u] \in 1 .. descriptor  BY DEF TypeOK, WorkTypeOK
  <2>2. SizeOf(cur[u])' = SizeOf(cur[u]) \/ SizeOf(cur[u])' = len'
    BY <1>4, <2>1 DEF SizesStay, SizeOf
  <2>3. SizeOf(cur[u]) \in seen[u]  BY <1>4 DEF CallCounts
  <2> QED  BY <1>2, <2>2, <2>3
<1> QED  BY <1>3, <1>4 DEF LoadStays

\* A step of t has to be looked at from t only.
LEMMA StepCounts ==
  ASSUME IInv, IInv', CountInv, Observed, SizesStay, OneOwner',
         NEW t \in Threads, OthersStay(t), LoadStays(t),
         pc'[t] \in InWrite /\ ret'[t] = "idle" => op'[t] = "push",
         pc'[t] \in {"check_bucket", "allocate_bucket"} => op'[t] = "push",
         pc'[t] # "idle" => res'[t] = None
  PROVE  CountInv'
<1>0. TypeOK /\ TypeOK' /\ \A u \in Threads : CallCounts(u)  BY DEF IInv, CountInv
<1>1. ASSUME NEW u \in Threads \ {t}  PROVE CallCounts(u)'
  <2>1. /\ pc'[u] = pc[u] /\ op'[u] = op[u] /\ cur'[u] = cur[u] /\ ret'[u] = ret[u]
        /\ res'[u] = res[u]
    BY <1>1 DEF OthersStay, Locals
  <2>2. Loaded(u)' = Loaded(u)  BY <2>1 DEF Loaded
  <2>3. LoadStays(u)  BY <2>1, <2>2 DEF LoadStays
  <2>4. Loaded(u)' => (SizeOf(cur[u]) \in seen[u])'  BY <1>0, <2>3, SeenKeeps
  <2> QED  BY <1>0, <2>1, <2>4 DEF CallCounts
<1>2. CallCounts(t)'
  <2>1. Loaded(t)' => (SizeOf(cur[t]) \in seen[t])'  BY <1>0, SeenKeeps
  <2> QED  BY <2>1 DEF CallCounts, InWrite
<1> QED  BY <1>1, <1>2 DEF CountInv

-----------------------------------------------------------------------------
(* What the counter sees of a step *)

Same(u) == Method(u)' = Method(u) /\ Took(u)' = Took(u) /\ Told(u)' = Told(u)

LEMMA OthersSame ==
  ASSUME TypeOK, NEW t \in Threads, OthersStay(t), PendingStays
  PROVE  \A u \in Threads \ {t} : Same(u)
<1> SUFFICES ASSUME NEW u \in Threads \ {t} PROVE Same(u)
  OBVIOUS
<1>1. /\ pc'[u] = pc[u] /\ op'[u] = op[u] /\ wd'[u] = wd[u] /\ ret'[u] = ret[u]
      /\ res'[u] = res[u] /\ wd[u] \in 1 .. descriptor
  BY DEF OthersStay, Locals, TypeOK, WorkTypeOK
<1>2. descs'[wd[u]].pending = descs[wd[u]].pending  BY <1>1 DEF PendingStays
<1>3. Method(u)' = Method(u) /\ Told(u)' = Told(u)  BY <1>1 DEF Method, Told
<1>4. Took(u)' = Took(u)  BY <1>1, <1>2 DEF Took, Own
<1> QED  BY <1>3, <1>4 DEF Same

LEMMA ObserveMaps == Observed => Counter!Observe
BY DEF Observed, Counter!Observe

LEMMA CounterCardinality == \A S : Counter!Cardinality(S) = Cardinality(S)
BY DEF Counter!Cardinality, Cardinality

\* The step of the counter in which the pushes of effect take effect and those
\* of return return.
LEMMA PushesMap ==
  ASSUME NEW effect, NEW return,
         effect = {} \/ \E u \in Threads : Method(u) = "push" /\ effect = {u},
         return = {} \/ \E u \in Threads : Method(u) = "push" /\ return = {u},
         \A t \in effect : ~Took(t),
         \A t \in return : Took(t) \/ t \in effect,
         len' = len + Cardinality(effect),
         \A t \in Threads : Method(t)' = IF t \in return THEN "idle" ELSE Method(t),
         \A t \in Threads : Took(t)' = ((Took(t) \/ t \in effect) /\ t \notin return),
         \A t \in Threads : Told(t)' = Told(t)
  PROVE  Counter!Pushes
<1> DEFINE P == {t \in Threads : [u \in Threads |-> Method(u)][t] = "push"}
<1>1. effect \in Counter!AtMostOne(P) /\ return \in Counter!AtMostOne(P)
  BY DEF Counter!AtMostOne
<1>2. effect \subseteq Threads /\ return \subseteq Threads  OBVIOUS
<1>3. /\ \A t \in effect : ~[u \in Threads |-> Took(u)][t]
      /\ \A t \in return : [u \in Threads |-> Took(u)][t] \/ t \in effect
  BY <1>2, Zenon
<1>4. len' = len + Counter!Cardinality(effect)  BY CounterCardinality
<1>5. [t \in Threads |-> Method(t)]' = [t \in Threads |->
        IF t \in return THEN "idle" ELSE [u \in Threads |-> Method(u)][t]]
  OBVIOUS
<1>6. [t \in Threads |-> Took(t)]' = [t \in Threads |->
        ([u \in Threads |-> Took(u)][t] \/ t \in effect) /\ t \notin return]
  BY Zenon
<1>7. [t \in Threads |-> Told(t)]' = [t \in Threads |-> Told(t)]  OBVIOUS
<1> QED  BY <1>1, <1>3, <1>4, <1>5, <1>6, <1>7, Zenon DEF Counter!Pushes

\* A step of which the counter sees nothing.
LEMMA Silent ==
  ASSUME Observed, len' = len, len \in Nat, \A u \in Threads : Same(u)
  PROVE  Counter!Next
<1>1. Counter!Pushes
  <2> SUFFICES ASSUME NEW none, none = {} PROVE Counter!Pushes
    OBVIOUS
  <2>1. len' = len + Cardinality(none)  BY FS_EmptySet
  <2>2. \A t \in Threads : Took(t)' = ((Took(t) \/ t \in none) /\ t \notin none)
    BY Zenon DEF Same, Took
  <2>3. \A t \in Threads : Method(t)' = IF t \in none THEN "idle" ELSE Method(t)
    BY DEF Same
  <2>4. \A t \in Threads : Told(t)' = Told(t)  BY DEF Same
  <2>5. (\A t \in none : ~Took(t)) /\ \A t \in none : Took(t) \/ t \in none
    OBVIOUS
  <2>6. none = {} \/ \E u \in Threads : Method(u) = "push" /\ none = {u}
    OBVIOUS
  <2> QED  BY <2>1, <2>2, <2>3, <2>4, <2>5, <2>6, PushesMap, Zenon
<1> QED  BY <1>1, ObserveMaps DEF Counter!Next

-----------------------------------------------------------------------------
(* The steps *)

LEMMA LenType ==
  ASSUME IInv  PROVE len \in Nat
<1>1. TypeOK /\ PendingIsLast /\ descriptor \in 1 .. descriptor
  BY DEF IInv, SharedInv, TypeOK, SharedTypeOK
<1> QED  BY <1>1, SizeOfType DEF len

\* A step inside a call that only moves the thread on: loads, the writing of a
\* cell, an allocation, a failed compare_exchange.
LEMMA MovesOn ==
  ASSUME IInv, IInv', CountInv, Observed, NEW t \in Threads, OthersStay(t),
         UNCHANGED <<descriptor, descs>>, op'[t] = op[t], res'[t] = res[t],
         pc[t] \notin {"idle", "panicked"}, pc'[t] \notin {"idle", "panicked"},
         Own(t)' <=> Own(t), Own(t) => wd'[t] = wd[t], LoadStays(t),
         pc'[t] \in InWrite /\ ret'[t] = "idle" => op'[t] = "push",
         pc'[t] \in {"check_bucket", "allocate_bucket"} => op'[t] = "push"
  PROVE  CountInv' /\ Counter!Next
<1>0. TypeOK  BY DEF IInv
<1>1. PendingStays  BY DEF PendingStays
<1>2. SizesStay /\ len' = len  BY DEF SizesStay, len, SizeOf
<1>3. OneOwner'
  <2>1. ASSUME NEW u \in Threads  PROVE (Own(u)' <=> Own(u)) /\ (Own(u) => wd'[u] = wd[u])
    <3>1. CASE u = t  BY <3>1
    <3>2. CASE u # t
      <4>1. UNCHANGED <<pc[u], op[u], wd[u], ret[u]>>
        BY <3>2 DEF OthersStay, Locals
      <4> QED  BY <4>1 DEF Own
    <3> QED  BY <3>1, <3>2
  <2>2. OwnersStay  BY <2>1 DEF OwnersStay
  <2> QED  BY <1>0, <2>2, OwnersKeep DEF CountInv
<1>4. Same(t)
  <2>1. Method(t)' = Method(t)  BY DEF Method
  <2>2. Told(t)' = Told(t)  BY DEF Told
  <2>3. Took(t)' <=> Took(t)  BY DEF Took
  <2>4. Took(t)' = Took(t)  BY <2>3 DEF Took
  <2> QED  BY <2>1, <2>2, <2>4 DEF Same
<1>5. \A u \in Threads : Same(u)  BY <1>0, <1>1, <1>4, OthersSame
<1>6. CountInv'
  BY <1>2, <1>3, StepCounts DEF CountInv, CallCounts
<1>7. Counter!Next  BY <1>2, <1>5, LenType, Silent
<1> QED  BY <1>6, <1>7

\* Where each of these steps leaves the thread.
LEMMA Moves ==
  ASSUME IInv, CountInv, NEW t \in Threads,
         \/ LoadDescriptor(t) \/ LoadPending(t) \/ WriteCell(t) \/ LoadTarget(t)
         \/ RetrySwap(t) \/ CheckBucket(t) \/ ReadOld(t) \/ ReadLast(t)
         \/ ReserveSize(t) \/ ReserveFirst(t)
  PROVE  /\ OthersStay(t) /\ UNCHANGED <<descriptor, descs>>
         /\ op'[t] = op[t] /\ res'[t] = res[t]
         /\ pc[t] \notin {"idle", "panicked"} /\ pc'[t] \notin {"idle", "panicked"}
         /\ Own(t)' <=> Own(t)
         /\ Own(t) => wd'[t] = wd[t]
         /\ LoadStays(t)
         /\ pc'[t] \in InWrite /\ ret'[t] = "idle" => op'[t] = "push"
         /\ pc'[t] \in {"check_bucket", "allocate_bucket"} => op'[t] = "push"
<1>0. TypeOK /\ WriteKnown(t)  BY DEF IInv, ThreadInv
<1> USE DEF TypeOK, SharedTypeOK, CallTypeOK, WorkTypeOK, Goto, OthersStay, Locals,
            Own, LoadStays, Loaded, InWrite, shared, call, work
<1>1. CASE LoadDescriptor(t)  BY <1>0, <1>1 DEF LoadDescriptor
<1>2. CASE LoadPending(t)     BY <1>0, <1>2 DEF LoadPending, AfterHelping
<1>3. CASE WriteCell(t)       BY <1>0, <1>3 DEF WriteCell, CountInv, CallCounts
<1>4. CASE LoadTarget(t)      BY <1>0, <1>4 DEF LoadTarget, CountInv, CallCounts
<1>5. CASE RetrySwap(t)       BY <1>0, <1>5 DEF RetrySwap, EndOfScope
<1>6. CASE CheckBucket(t)     BY <1>0, <1>6 DEF CheckBucket, CountInv, CallCounts
<1>7. CASE ReadOld(t)         BY <1>0, <1>7 DEF ReadOld
<1>8. CASE ReadLast(t)        BY <1>0, <1>8 DEF ReadLast
<1>9. CASE ReserveSize(t)     BY <1>0, <1>9 DEF ReserveSize
<1>10. CASE ReserveFirst(t)   BY <1>0, <1>10 DEF ReserveFirst, AllocateBucket
<1> QED  BY <1>1, <1>2, <1>3, <1>4, <1>5, <1>6, <1>7, <1>8, <1>9, <1>10

\* A call that ends and leaves the Descriptors as they are: what it tells its
\* caller is all that the counter sees.
LEMMA Ends ==
  ASSUME IInv, IInv', CountInv, Observed, NEW t \in Threads, OthersStay(t),
         UNCHANGED <<descriptor, descs>>, pc'[t] \in {"idle", "panicked"},
         pc[t] \notin {"idle", "panicked"}, ~Own(t), pc'[t] # "idle" => res'[t] = None,
         NEW answer, answer = Told(t)'
  PROVE  /\ CountInv'
         /\ Counter!End(t, answer)
         /\ len' = len /\ UNCHANGED [u \in Threads |-> Took(u)]
<1>0. TypeOK  BY DEF IInv
<1>1. PendingStays  BY DEF PendingStays
<1>2. SizesStay /\ len' = len  BY DEF SizesStay, len, SizeOf
<1>3. ~Own(t)' /\ ~Loaded(t)' /\ Method(t)' = "idle"
  BY DEF Own, Loaded, Method, InWrite
<1>4. OneOwner'
  <2>1. ASSUME NEW u \in Threads  PROVE (Own(u)' <=> Own(u)) /\ (Own(u) => wd'[u] = wd[u])
    <3>1. CASE u = t  BY <1>3, <3>1
    <3>2. CASE u # t
      <4>1. UNCHANGED <<pc[u], op[u], wd[u], ret[u]>>
        BY <3>2 DEF OthersStay, Locals
      <4> QED  BY <4>1 DEF Own
    <3> QED  BY <3>1, <3>2
  <2>2. OwnersStay  BY <2>1 DEF OwnersStay
  <2> QED  BY <1>0, <2>2, OwnersKeep DEF CountInv
<1>5. CountInv'
  <2>1. LoadStays(t)  BY <1>3 DEF LoadStays
  <2>2. pc'[t] \notin InWrite  BY DEF InWrite
  <2> QED  BY <1>2, <1>4, <2>1, <2>2, StepCounts
<1>6. \A u \in Threads \ {t} : Same(u)  BY <1>0, <1>1, OthersSame
<1>7. Counter!End(t, answer)
  BY <1>3, <1>6 DEF Same, Counter!End
<1>8. UNCHANGED [u \in Threads |-> Took(u)]
  <2>1. Took(t) = FALSE /\ Took(t)' = FALSE  BY <1>3 DEF Took
  <2>2. \A u \in Threads : Took(u)' = Took(u)  BY <1>6, <2>1 DEF Same
  <2> QED  BY <2>2
<1> QED  BY <1>2, <1>5, <1>7, <1>8

\* A pop that finds nothing: its Descriptor was empty when it was current.
LEMMA PopEmptyMaps ==
  ASSUME IInv, IInv', CountInv, Observed, NEW t \in Threads, PopEmpty(t)
  PROVE  CountInv' /\ Counter!Next
<1>0. TypeOK /\ LoopKnown(t) /\ CallCounts(t)  BY DEF IInv, ThreadInv, CountInv
<1>1. /\ OthersStay(t) /\ UNCHANGED <<descriptor, descs>> /\ pc[t] = "read_elem"
      /\ pc'[t] = "idle" /\ op[t] = "pop" /\ op'[t] = "pop" /\ res'[t] = None
      /\ descs[cur[t]].size = 0
  BY <1>0 DEF PopEmpty, Return, EndOfScope, Goto, OthersStay, Locals, shared, TypeOK,
     CallTypeOK, WorkTypeOK
<1>2. ~Own(t) /\ Told(t)' = 0 /\ Method(t) = "pop"  BY <1>1 DEF Own, Told, Method
<1>3. CountInv' /\ Counter!End(t, 0) /\ len' = len /\ UNCHANGED [u \in Threads |-> Took(u)]
  BY <1>1, <1>2, Ends
<1>4. 0 \in seen[t]
  <2>1. SizeOf(cur[t]) = 0  BY <1>0, <1>1 DEF LoopKnown, InLoop, SizeOf
  <2> QED  BY <1>0, <1>1, <2>1 DEF CallCounts, Loaded
<1>5. Counter!PopFindsNone(t)
  BY <1>2, <1>3, <1>4 DEF Counter!PopFindsNone
<1> QED  BY <1>3, <1>5, ObserveMaps DEF Counter!Next

\* size(): its Descriptor may be an old one, but it was current in the call.
LEMMA SizeMaps ==
  ASSUME IInv, IInv', CountInv, Observed, NEW t \in Threads, Size(t)
  PROVE  CountInv' /\ Counter!Next
<1>0. TypeOK /\ CallCounts(t)  BY DEF IInv, CountInv
<1> DEFINE n == SizeOf(cur[t])
<1>1. n \in Nat /\ n # None
  <2>1. cur[t] \in 1 .. descriptor  BY <1>0 DEF TypeOK, WorkTypeOK
  <2>2. n \in Nat  BY <1>0, <2>1, SizeOfType DEF IInv, SharedInv
  <2> QED  BY <2>2, LeakyAssumption
<1>2. /\ OthersStay(t) /\ UNCHANGED <<descriptor, descs>> /\ pc[t] = "load_pending"
      /\ pc'[t] = "idle" /\ op[t] = "size" /\ op'[t] = "size" /\ res'[t] = n
  BY <1>0 DEF Size, Return, EndOfScope, Goto, OthersStay, Locals, shared, TypeOK,
     CallTypeOK, WorkTypeOK
<1>3. n \in seen[t]  BY <1>0, <1>2 DEF CallCounts, Loaded
<1> HIDE DEF n
<1>4. ~Own(t) /\ Told(t)' = n /\ Method(t) = "size"  BY <1>1, <1>2 DEF Own, Told, Method
<1>5. CountInv' /\ Counter!End(t, n) /\ len' = len /\ UNCHANGED [u \in Threads |-> Took(u)]
  BY <1>2, <1>4, Ends
<1>6. Counter!SizeReturns(t)
  BY <1>3, <1>4, <1>5 DEF Counter!SizeReturns
<1> QED  BY <1>5, <1>6, ObserveMaps DEF Counter!Next

\* A reserve that returns, or a reserve or a push that panics: no effect.
LEMMA NoEffectMaps ==
  ASSUME IInv, IInv', CountInv, Observed, NEW t \in Threads,
         \/ op[t] = "reserve" /\ Return(t, None)
         \/ op[t] \in {"push", "reserve"} /\ PanicIn(t),
         UNCHANGED shared, pc[t] \in {"reserve_next", "allocate_bucket"}
  PROVE  CountInv' /\ Counter!Next
<1>0. TypeOK /\ CallCounts(t)  BY DEF IInv, CountInv
<1>1. /\ OthersStay(t) /\ UNCHANGED <<descriptor, descs>>
      /\ pc'[t] \in {"idle", "panicked"} /\ op'[t] = op[t] /\ op[t] \in {"push", "reserve"}
      /\ res'[t] = None
  <2>1. res[t] = None  BY <1>0 DEF CallCounts
  <2> QED  BY <1>0, <2>1 DEF Return, PanicIn, EndOfScope, Goto, OthersStay, Locals, shared,
           call, TypeOK, CallTypeOK, WorkTypeOK
<1>2. ~Own(t) /\ ~Took(t) /\ Told(t)' = 0 /\ Method(t) = op[t]
  BY <1>1 DEF Own, Took, Told, Method, InWrite
<1>3. CountInv' /\ Counter!End(t, 0) /\ len' = len /\ UNCHANGED [u \in Threads |-> Took(u)]
  BY <1>1, <1>2, Ends
<1>4. ~[u \in Threads |-> Took(u)][t]  BY <1>2, Zenon
<1>5. [u \in Threads |-> Method(u)][t] \in {"push", "reserve"}  BY <1>1, <1>2
<1>6. Counter!EndsWithoutEffect(t)
  BY <1>3, <1>4, <1>5 DEF Counter!EndsWithoutEffect
<1> QED  BY <1>3, <1>6, ObserveMaps DEF Counter!Next

\* A call begins.
LEMMA CallMaps ==
  ASSUME IInv, IInv', CountInv, Observed, NEW t \in Threads,
         NEW method \in {"push", "pop", "size", "reserve"}, NEW argument,
         Call(t, method, argument)
  PROVE  CountInv' /\ Counter!Next
<1>0. TypeOK  BY DEF IInv
<1>1. /\ OthersStay(t) /\ UNCHANGED <<descriptor, descs>> /\ pc[t] = "idle"
      /\ pc'[t] = "load_descriptor" /\ op'[t] = method /\ res'[t] = None
  BY <1>0 DEF Call, Goto, OthersStay, Locals, shared, work, TypeOK, CallTypeOK
<1>2. PendingStays /\ SizesStay /\ len' = len
  BY <1>1 DEF PendingStays, SizesStay, len, SizeOf
<1>3. /\ ~Own(t) /\ ~Own(t)' /\ ~Loaded(t)'
      /\ Method(t) = "idle" /\ Method(t)' = method /\ Told(t)' = 0
  BY <1>1 DEF Own, Loaded, Method, Told, InWrite
<1>4. OneOwner'
  <2>1. ASSUME NEW u \in Threads  PROVE (Own(u)' <=> Own(u)) /\ (Own(u) => wd'[u] = wd[u])
    <3>1. CASE u = t  BY <1>3, <3>1
    <3>2. CASE u # t
      <4>1. UNCHANGED <<pc[u], op[u], wd[u], ret[u]>>
        BY <1>1, <3>2 DEF OthersStay, Locals
      <4> QED  BY <4>1 DEF Own
    <3> QED  BY <3>1, <3>2
  <2>2. OwnersStay  BY <1>1, <2>1 DEF OwnersStay
  <2> QED  BY <1>0, <2>2, OwnersKeep DEF CountInv
<1>5. CountInv'
  <2>1. LoadStays(t)  BY <1>3 DEF LoadStays
  <2> QED  BY <1>1, <1>2, <1>4, <2>1, StepCounts DEF InWrite
<1>6. \A u \in Threads \ {t} : Same(u)  BY <1>0, <1>1, <1>2, OthersSame
<1>7. [u \in Threads |-> Method(u)]' = [[u \in Threads |-> Method(u)] EXCEPT ![t] = method]
  BY <1>3, <1>6 DEF Same
<1>8. [u \in Threads |-> Told(u)]' = [[u \in Threads |-> Told(u)] EXCEPT ![t] = 0]
  BY <1>3, <1>6 DEF Same
<1>9. UNCHANGED [u \in Threads |-> Took(u)]
  <2>1. Took(t) = FALSE /\ Took(t)' = FALSE  BY <1>3 DEF Took
  <2>2. \A u \in Threads : Took(u)' = Took(u)  BY <1>6, <2>1 DEF Same
  <2> QED  BY <2>2
<1>10. Counter!Begin(t)
  BY <1>2, <1>3, <1>7, <1>8, <1>9 DEF Counter!Begin
<1> QED  BY <1>5, <1>10, ObserveMaps DEF Counter!Next

\* An allocation, or the panic of the one that cannot be had.
LEMMA AllocatesMaps ==
  ASSUME IInv, IInv', CountInv, Observed, NEW t \in Threads, PushAllocates(t) \/ ReserveNext(t)
  PROVE  CountInv' /\ Counter!Next
<1>0. TypeOK /\ CallCounts(t) /\ ReserveKnown(t)  BY DEF IInv, ThreadInv, CountInv
<1>1. /\ pc[t] = "allocate_bucket" => op[t] = "push"
      /\ pc[t] = "reserve_next" => op[t] = "reserve"
      /\ pc[t] \in {"allocate_bucket", "reserve_next"}
  BY <1>0 DEF PushAllocates, ReserveNext, CallCounts, ReserveKnown
<1>2. CASE PanicIn(t)
  BY <1>1, <1>2, NoEffectMaps DEF PanicIn
<1>3. ASSUME NEW b, AllocateBucket(t, b), pc'[t] # pc[t] => pc'[t] = "read_elem",
             pc' = [pc EXCEPT ![t] = pc'[t]], pc[t] = "reserve_next" => pc'[t] = pc[t],
             \A u \in Threads \ {t} : allocs'[u] = allocs[u]
      PROVE  CountInv' /\ Counter!Next
  <2>1. /\ OthersStay(t) /\ UNCHANGED <<descriptor, descs, op, res, cur, wd, ret>>
        /\ pc'[t] \in {"allocate_bucket", "read_elem", "reserve_next"}
    BY <1>0, <1>1, <1>3 DEF AllocateBucket, OthersStay, Locals, call, TypeOK, CallTypeOK
  <2>2. ~Own(t) /\ ~Own(t)' /\ LoadStays(t)
    BY <1>1, <1>3, <2>1 DEF Own, LoadStays, Loaded, InWrite
  <2>3. pc'[t] \in {"check_bucket", "allocate_bucket"} => op'[t] = "push"
    BY <1>1, <1>3, <2>1
  <2> QED  BY <1>1, <2>1, <2>2, <2>3, MovesOn DEF InWrite
<1>4. CASE PushAllocates(t) /\ ~PanicIn(t)
  <2>1. /\ AllocateBucket(t, bucket_of(descs[cur[t]].size)) /\ UNCHANGED allocs
        /\ pc[t] = "allocate_bucket" /\ pc' = [pc EXCEPT ![t] = "read_elem"]
    BY <1>4 DEF PushAllocates, CapacityOverflow, Goto
  <2>2. pc'[t] = "read_elem"  BY <1>0, <2>1 DEF TypeOK, CallTypeOK
  <2> QED  BY <1>3, <2>1, <2>2
<1>5. CASE ReserveNext(t) /\ ~PanicIn(t)
  <2>1. /\ AllocateBucket(t, allocs[t] + 1) /\ allocs' = [allocs EXCEPT ![t] = @ + 1]
        /\ pc[t] = "reserve_next" /\ pc' = [pc EXCEPT ![t] = "reserve_next"]
    BY <1>5 DEF ReserveNext, CapacityOverflow, Goto
  <2>2. /\ pc'[t] = "reserve_next" /\ \A u \in Threads \ {t} : allocs'[u] = allocs[u]
    BY <1>0, <2>1 DEF TypeOK, CallTypeOK, WorkTypeOK
  <2> QED  BY <1>3, <2>1, <2>2
<1> QED  BY <1>2, <1>4, <1>5

-----------------------------------------------------------------------------
(* The steps in which the length changes, or is about to *)

\* A push announces its element: the size grows, and the length does not yet.
LEMMA PushSwapsMaps ==
  ASSUME IInv, IInv', CountInv, Observed, NEW t \in Threads, PushSwaps(t)
  PROVE  CountInv' /\ Counter!Next
<1>0. TypeOK /\ LoopKnown(t) /\ CallCounts(t) /\ descriptor \in Nat \ {0}
  BY DEF IInv, ThreadInv, CountInv, TypeOK, SharedTypeOK
<1>1. /\ OthersStay(t) /\ descriptor' = descriptor + 1 /\ descriptor = cur[t]
      /\ pc[t] = "swap_descriptor" /\ pc'[t] = "write_cell"
      /\ op[t] = "push" /\ op'[t] = "push" /\ res'[t] = res[t]
      /\ wd'[t] = descriptor + 1 /\ ret'[t] = "idle"
  BY <1>0 DEF PushSwaps, SwapDescriptor, Goto, OthersStay, Locals, call, TypeOK, CallTypeOK,
     WorkTypeOK
<1>2. /\ \A d \in 1 .. descriptor : descs'[d] = descs[d]
      /\ descs'[descriptor + 1].size = descs[descriptor].size + 1
      /\ descs'[descriptor + 1].pending = TRUE
  BY <1>0, <1>1 DEF PushSwaps, SwapDescriptor
<1>3. PendingStays /\ SizesStay
  BY <1>2 DEF PendingStays, SizesStay, SizeOf
<1>4. len' = len
  <2>1. ~descs[descriptor].pending /\ descs[descriptor].size \in Nat
    BY <1>0, <1>1 DEF LoopKnown, InLoop, TypeOK, SharedTypeOK, Desc
  <2>2. len = descs[descriptor].size  BY <2>1 DEF len, SizeOf
  <2>3. len' = descs'[descriptor + 1].size - 1  BY <1>1, <1>2 DEF len, SizeOf
  <2>4. (descs[descriptor].size + 1) - 1 = descs[descriptor].size  BY <2>1
  <2> QED  BY <1>2, <2>2, <2>3, <2>4
<1>5. ~Own(t) /\ Own(t)'  BY <1>1 DEF Own, InWrite
<1>6. \A u \in Threads \ {t} : (Own(u)' <=> Own(u)) /\ wd'[u] = wd[u] /\ wd[u] \in 1 .. descriptor
  <2> SUFFICES ASSUME NEW u \in Threads \ {t}
               PROVE  (Own(u)' <=> Own(u)) /\ wd'[u] = wd[u] /\ wd[u] \in 1 .. descriptor
    OBVIOUS
  <2>1. UNCHANGED <<pc[u], op[u], wd[u], ret[u]>>  BY <1>1 DEF OthersStay, Locals
  <2> QED  BY <1>0, <2>1 DEF Own, TypeOK, WorkTypeOK
<1>7. OneOwner'
  <2>1. ASSUME NEW d \in 1 .. descriptor + 1, descs'[d].pending
        PROVE  \E u \in Threads : Own(u)' /\ wd'[u] = d
    <3>1. CASE d = descriptor + 1  BY <1>1, <1>5, <3>1
    <3>2. CASE d \in 1 .. descriptor
      <4>1. descs[d].pending  BY <1>2, <2>1, <3>2
      <4>2. PICK u \in Threads : Own(u) /\ wd[u] = d
        BY <3>2, <4>1 DEF CountInv, OneOwner
      <4>3. u # t  BY <1>5, <4>2
      <4> QED  BY <1>6, <4>2, <4>3
    <3> QED  BY <1>0, <3>1, <3>2
  <2>2. ASSUME NEW v \in Threads, NEW u \in Threads, Own(v)', Own(u)', wd'[v] = wd'[u]
        PROVE  v = u
    <3>1. CASE v # t /\ u # t  BY <1>6, <2>2, <3>1 DEF CountInv, OneOwner
    <3>2. CASE v = t /\ u # t  BY <1>0, <1>1, <1>6, <2>2, <3>2
    <3>3. CASE v # t /\ u = t  BY <1>0, <1>1, <1>6, <2>2, <3>3
    <3> QED  BY <3>1, <3>2, <3>3
  <2> QED  BY <1>1, <2>1, <2>2 DEF OneOwner
<1>8. CountInv'
  <2>1. LoadStays(t) /\ res'[t] = None
    BY <1>0, <1>1 DEF LoadStays, Loaded, CallCounts
  <2> QED  BY <1>1, <1>3, <1>7, <2>1, StepCounts
<1>9. Same(t)
  <2>1. Method(t)' = Method(t) /\ Told(t)' = Told(t)  BY <1>1 DEF Method, Told
  <2>2. Took(t)' = FALSE /\ Took(t) = FALSE  BY <1>1, <1>2, <1>5 DEF Took
  <2> QED  BY <2>1, <2>2 DEF Same
<1>10. \A u \in Threads : Same(u)  BY <1>0, <1>1, <1>3, <1>9, OthersSame
<1> QED  BY <1>4, <1>8, <1>10, LenType, Silent

\* A pop takes its element when its Descriptor becomes the current one.
LEMMA PopSwapsMaps ==
  ASSUME IInv, IInv', CountInv, Observed, NEW t \in Threads, PopSwaps(t)
  PROVE  CountInv' /\ Counter!Next
<1>0. TypeOK /\ LoopKnown(t) /\ CallCounts(t) /\ descriptor \in Nat \ {0}
  BY DEF IInv, ThreadInv, CountInv, TypeOK, SharedTypeOK
<1>1. /\ OthersStay(t) /\ descriptor' = descriptor + 1 /\ descriptor = cur[t]
      /\ pc[t] = "swap_descriptor" /\ pc'[t] = "idle"
      /\ op[t] = "pop" /\ op'[t] = "pop" /\ res'[t] = elem[t]
  BY <1>0 DEF PopSwaps, SwapDescriptor, Return, EndOfScope, Goto, OthersStay, Locals,
     TypeOK, CallTypeOK, WorkTypeOK
<1>2. /\ \A d \in 1 .. descriptor : descs'[d] = descs[d]
      /\ descs'[descriptor + 1].size = descs[descriptor].size - 1
      /\ descs'[descriptor + 1].pending = FALSE
  BY <1>0, <1>1 DEF PopSwaps, SwapDescriptor, NoWrite
<1>3. PendingStays /\ SizesStay
  BY <1>2 DEF PendingStays, SizesStay, SizeOf
<1>4. len \in Nat /\ len > 0 /\ len' = len - 1
  <2>1. ~descs[descriptor].pending /\ descs[descriptor].size \in Nat
        /\ descs[descriptor].size # 0
    BY <1>0, <1>1 DEF LoopKnown, InLoop, TypeOK, SharedTypeOK, Desc
  <2>2. len = descs[descriptor].size  BY <2>1 DEF len, SizeOf
  <2>3. len' = descs'[descriptor + 1].size  BY <1>1, <1>2 DEF len, SizeOf
  <2> QED  BY <1>2, <2>1, <2>2, <2>3
<1>5. ~Own(t) /\ ~Own(t)' /\ ~Loaded(t)'  BY <1>1 DEF Own, Loaded, InWrite
<1>6. OneOwner'
  <2>1. ASSUME NEW u \in Threads  PROVE (Own(u)' <=> Own(u)) /\ (Own(u) => wd'[u] = wd[u])
    <3>1. CASE u = t  BY <1>5, <3>1
    <3>2. CASE u # t
      <4>1. UNCHANGED <<pc[u], op[u], wd[u], ret[u]>>
        BY <1>1, <3>2 DEF OthersStay, Locals
      <4> QED  BY <4>1 DEF Own
    <3> QED  BY <3>1, <3>2
  <2>2. \A d \in 1 .. descriptor' : descs'[d].pending => d \in 1 .. descriptor /\ descs[d].pending
    <3> SUFFICES ASSUME NEW d \in 1 .. descriptor', descs'[d].pending
                 PROVE  d \in 1 .. descriptor /\ descs[d].pending
      OBVIOUS
    <3>1. d # descriptor + 1  BY <1>2
    <3>2. d \in 1 .. descriptor  BY <1>0, <1>1, <3>1
    <3> QED  BY <1>2, <3>2
  <2>3. OwnersStay  BY <2>1, <2>2 DEF OwnersStay
  <2> QED  BY <1>0, <2>3, OwnersKeep DEF CountInv
<1>7. CountInv'
  <2>1. LoadStays(t)  BY <1>5 DEF LoadStays
  <2> QED  BY <1>1, <1>3, <1>6, <2>1, StepCounts DEF InWrite
<1>8. \A u \in Threads \ {t} : Same(u)  BY <1>0, <1>1, <1>3, OthersSame
<1>9. Method(t) = "pop" /\ Method(t)' = "idle" /\ Told(t)' = 1
  <2>1. elem[t] # None  BY <1>0, LeakyAssumption DEF TypeOK, WorkTypeOK
  <2> QED  BY <1>1, <2>1 DEF Method, Told
<1>10. Counter!End(t, 1)  BY <1>8, <1>9 DEF Same, Counter!End
<1>11. UNCHANGED [u \in Threads |-> Took(u)]
  <2>1. Took(t) = FALSE /\ Took(t)' = FALSE  BY <1>5 DEF Took
  <2>2. \A u \in Threads : Took(u)' = Took(u)  BY <1>8, <2>1 DEF Same
  <2> QED  BY <2>2
<1>12. Counter!PopTakes(t)
  BY <1>4, <1>9, <1>10, <1>11 DEF Counter!PopTakes
<1> QED  BY <1>7, <1>12, ObserveMaps DEF Counter!Next

\* complete_write clears a pending write, if it still is one: then the push
\* that has announced it takes effect, whoever clears it. An owner that
\* returns has had its effect: in this step or before.
LEMMA ClearMaps ==
  ASSUME IInv, IInv', CountInv, Observed, NEW t \in Threads, ClearPending(t)
  PROVE  CountInv' /\ Counter!Next
<1> SUFFICES ASSUME NEW x, x = target[t] PROVE CountInv' /\ Counter!Next
  OBVIOUS
<1>0. /\ TypeOK /\ ReplacedCleared /\ PendingIsLast /\ OneOwner /\ CallCounts(t) /\ WriteKnown(t)
      /\ x \in 1 .. descriptor /\ wd[t] \in 1 .. descriptor /\ descriptor \in Nat \ {0}
  BY DEF IInv, SharedInv, ThreadInv, CountInv, TypeOK, SharedTypeOK, WorkTypeOK
<1>1. /\ OthersStay(t) /\ descriptor' = descriptor
      /\ pc[t] = "clear_pending" /\ wd[t] <= x
      /\ op'[t] = op[t] /\ res[t] = None /\ res'[t] = None
      /\ ret[t] = "idle" => op[t] = "push" /\ pc'[t] = "idle"
      /\ ret[t] # "idle" => /\ ret[t] = AfterHelping(t) /\ pc'[t] = ret[t] /\ cur'[t] = cur[t]
  <2>1. pc[t] = "clear_pending" /\ descriptor' = descriptor  BY DEF ClearPending
  <2>2. wd[t] <= x /\ res[t] = None /\ (ret[t] = "idle" => op[t] = "push")
        /\ (ret[t] # "idle" => ret[t] = AfterHelping(t))
    BY <1>0, <2>1 DEF WriteKnown, CallCounts, InWrite
  <2>3. CASE ret[t] = "idle"
    BY <1>0, <2>1, <2>2, <2>3 DEF ClearPending, Return, EndOfScope, Goto, OthersStay, Locals,
       TypeOK, CallTypeOK, WorkTypeOK
  <2>4. CASE ret[t] # "idle"
    BY <1>0, <2>1, <2>2, <2>4 DEF ClearPending, Goto, OthersStay, Locals, call, TypeOK,
       CallTypeOK, WorkTypeOK
  <2> QED  BY <2>3, <2>4
<1>2. \A d \in 1 .. descriptor :
        /\ descs'[d].size = descs[d].size /\ descs[d].size \in Nat
        /\ descs'[d].pending <=> d # x /\ descs[d].pending
  <2>1. descs' = [descs EXCEPT ![x].pending = FALSE]  BY DEF ClearPending
  <2>2. descs \in [1 .. descriptor -> Desc]  BY <1>0 DEF TypeOK, SharedTypeOK
  <2> HIDE <1>0
  <2> SUFFICES ASSUME NEW d \in 1 .. descriptor
               PROVE  /\ descs'[d].size = descs[d].size /\ descs[d].size \in Nat
                      /\ descs'[d].pending <=> d # x /\ descs[d].pending
    OBVIOUS
  <2>3. descs[d] \in Desc  BY <2>2
  <2>4. CASE d # x
    <3>1. descs'[d] = descs[d]  BY <2>1, <2>2, <2>4
    <3> QED  BY <2>3, <2>4, <3>1 DEF Desc
  <2>5. CASE d = x
    <3>1. descs'[d] = [descs[d] EXCEPT !.pending = FALSE]  BY <2>1, <2>2, <2>5
    <3> QED  BY <2>3, <2>5, <3>1 DEF Desc
  <2> QED  BY <2>4, <2>5
<1>3. descs[x].pending => x = descriptor
  BY <1>0 DEF ReplacedCleared
<1>4. wd[t] < x => ~descs[wd[t]].pending
  BY <1>0 DEF ReplacedCleared
<1>5. ~Own(t)' /\ (Own(t) <=> ret[t] = "idle")
  BY <1>1 DEF Own, AfterHelping, InWrite
<1>6. \A u \in Threads \ {t} : (Own(u)' <=> Own(u)) /\ wd'[u] = wd[u]
  <2> SUFFICES ASSUME NEW u \in Threads \ {t} PROVE (Own(u)' <=> Own(u)) /\ wd'[u] = wd[u]
    OBVIOUS
  <2>1. UNCHANGED <<pc[u], op[u], wd[u], ret[u]>>  BY <1>1 DEF OthersStay, Locals
  <2> QED  BY <2>1 DEF Own
<1>7. SizesStay
  <2> SUFFICES ASSUME NEW d \in 1 .. descriptor
               PROVE  SizeOf(d)' = SizeOf(d) \/ SizeOf(d)' = len'
    BY DEF SizesStay
  <2>1. CASE d = x /\ descs[x].pending
    BY <1>1, <1>3, <2>1 DEF len, SizeOf
  <2>2. CASE ~(d = x /\ descs[x].pending)
    BY <1>2, <2>2 DEF SizeOf
  <2> QED  BY <2>1, <2>2
<1>8. OneOwner'
  <2>1. ~descs'[wd[t]].pending
    <3>1. CASE wd[t] = x  BY <1>0, <1>2, <3>1
    <3>2. CASE wd[t] < x  BY <1>0, <1>2, <1>4, <3>2
    <3> QED  BY <1>0, <1>1, <3>1, <3>2
  <2>2. OwnersStay  BY <1>1, <1>2, <1>5, <1>6, <2>1 DEF OwnersStay
  <2> QED  BY <1>0, <2>2, OwnersKeep
<1>9. CountInv'
  <2>1. LoadStays(t)
    <3>1. Loaded(t)' => ret[t] # "idle"  BY <1>1 DEF Loaded, InWrite
    <3> QED  BY <1>1, <3>1 DEF LoadStays, Loaded, InWrite
  <2>2. pc'[t] \notin InWrite /\ (pc'[t] \in {"check_bucket", "allocate_bucket"} => op'[t] = "push")
    BY <1>1 DEF InWrite, AfterHelping
  <2> QED  BY <1>1, <1>7, <1>8, <2>1, <2>2, StepCounts
<1>10. Counter!Pushes
  <2> SUFFICES ASSUME NEW effect, NEW return,
                 effect = {u \in Threads : Own(u) /\ wd[u] = x /\ descs[x].pending},
                 return = {u \in Threads : u = t /\ Own(t)}
               PROVE  Counter!Pushes
    OBVIOUS
  <2>1. \A u \in Threads : Own(u) => Method(u) = "push"  BY DEF Own, Method, InWrite
  <2>2. effect = {} \/ \E u \in Threads : Method(u) = "push" /\ effect = {u}
    <3>1. CASE effect # {}
      <4>1. PICK u : u \in effect  BY <3>1
      <4>2. u \in Threads /\ Own(u) /\ effect = {u}
        BY <1>0, <4>1 DEF OneOwner
      <4> QED  BY <2>1, <4>2
    <3> QED  BY <3>1
  <2>3. return = {} \/ \E u \in Threads : Method(u) = "push" /\ return = {u}
    BY <2>1
  <2>4. len' = len + Cardinality(effect)
    <3>1. CASE descs[x].pending
      <4>1. PICK u \in Threads : Own(u) /\ wd[u] = x
        BY <1>0, <3>1 DEF OneOwner
      <4>2. u \in effect  BY <3>1, <4>1
      <4>3. Cardinality(effect) = 1
        BY <2>2, <4>2, FS_Singleton
      <4>4. x = descriptor /\ descs[x].size \in Nat /\ descs[x].size > 0
        BY <1>0, <1>2, <1>3, <3>1 DEF PendingIsLast
      <4>5. len = descs[x].size - 1  BY <3>1, <4>4 DEF len, SizeOf
      <4>6. len' = descs[x].size  BY <1>0, <1>1, <1>2, <4>4 DEF len, SizeOf
      <4> QED  BY <4>3, <4>4, <4>5, <4>6
    <3>2. CASE ~descs[x].pending
      <4>1. Cardinality(effect) = 0  BY <3>2, FS_EmptySet
      <4>2. descriptor \in 1 .. descriptor  BY <1>0
      <4>3. len' = len  BY <1>1, <1>2, <3>2, <4>2 DEF len, SizeOf
      <4> QED  BY <4>1, <4>3, LenType
    <3> QED  BY <3>1, <3>2
  <2>5. \A u \in effect : ~Took(u)  BY DEF Took
  <2>6. \A u \in return : Took(u) \/ u \in effect
    <3> SUFFICES ASSUME Own(t) PROVE Took(t) \/ t \in effect
      OBVIOUS
    <3>1. CASE wd[t] = x  BY <3>1 DEF Took
    <3>2. CASE wd[t] < x  BY <1>4, <3>2 DEF Took
    <3> QED  BY <1>0, <1>1, <3>1, <3>2
  <2>7. \A u \in Threads : Method(u)' = IF u \in return THEN "idle" ELSE Method(u)
    <3>1. Method(t)' = IF t \in return THEN "idle" ELSE Method(t)
      BY <1>1, <1>5 DEF Method, AfterHelping
    <3>2. ASSUME NEW u \in Threads \ {t}  PROVE Method(u)' = Method(u)
      BY <1>1 DEF OthersStay, Locals, Method
    <3> QED  BY <3>1, <3>2
  <2>8. \A u \in Threads : Took(u)' = ((Took(u) \/ u \in effect) /\ u \notin return)
    <3> SUFFICES ASSUME NEW u \in Threads
                 PROVE  Took(u)' <=> (Took(u) \/ u \in effect) /\ u \notin return
      BY Zenon DEF Took
    <3>1. CASE u = t  BY <1>5, <3>1 DEF Took
    <3>2. CASE u # t
      <4>1. u \notin return  BY <3>2
      <4>2. wd[u] \in 1 .. descriptor  BY <1>0 DEF TypeOK, WorkTypeOK
      <4>3. descs'[wd'[u]].pending <=> wd[u] # x /\ descs[wd[u]].pending
        BY <1>2, <1>6, <3>2, <4>2
      <4> QED  BY <1>6, <3>2, <4>1, <4>3 DEF Took
    <3> QED  BY <3>1, <3>2
  <2>9. \A u \in Threads : Told(u)' = Told(u)
    <3>1. Told(t)' = Told(t)  BY <1>1 DEF Told
    <3>2. ASSUME NEW u \in Threads \ {t}  PROVE Told(u)' = Told(u)
      BY <1>1 DEF OthersStay, Locals, Told
    <3> QED  BY <3>1, <3>2
  <2> QED  BY <2>2, <2>3, <2>4, <2>5, <2>6, <2>7, <2>8, <2>9, PushesMap, Zenon
<1> QED  BY <1>9, <1>10, ObserveMaps DEF Counter!Next

-----------------------------------------------------------------------------

LEMMA NextCounts ==
  ASSUME IInv, IInv', CountInv, SizeNext
  PROVE  CountInv' /\ Counter!Next
<1>0. Next /\ Observed  BY DEF SizeNext, Observed
<1>1. ASSUME NEW t \in Threads, Calls(t)  PROVE CountInv' /\ Counter!Next
  BY <1>0, <1>1, CallMaps DEF Calls, CallPush, CallPop, CallSize, CallReserve
<1>2. ASSUME NEW t \in Threads, Step(t)  PROVE CountInv' /\ Counter!Next
  <2>1. CASE \/ LoadDescriptor(t) \/ LoadPending(t) \/ WriteCell(t) \/ LoadTarget(t)
             \/ RetrySwap(t) \/ CheckBucket(t) \/ ReadOld(t) \/ ReadLast(t)
             \/ ReserveSize(t) \/ ReserveFirst(t)
    <3> HIDE <1>2
    <3>1. /\ OthersStay(t) /\ UNCHANGED <<descriptor, descs>>
          /\ op'[t] = op[t] /\ res'[t] = res[t]
          /\ pc[t] \notin {"idle", "panicked"} /\ pc'[t] \notin {"idle", "panicked"}
          /\ Own(t)' <=> Own(t)
          /\ Own(t) => wd'[t] = wd[t]
          /\ LoadStays(t)
          /\ pc'[t] \in InWrite /\ ret'[t] = "idle" => op'[t] = "push"
          /\ pc'[t] \in {"check_bucket", "allocate_bucket"} => op'[t] = "push"
      BY <2>1, Moves
    <3> QED  BY <1>0, <3>1, MovesOn
  <2>2. CASE ClearPending(t)  BY <1>0, <2>2, ClearMaps
  <2>3. CASE PushSwaps(t)     BY <1>0, <2>3, PushSwapsMaps
  <2>4. CASE PopSwaps(t)      BY <1>0, <2>4, PopSwapsMaps
  <2>5. CASE PopEmpty(t)      BY <1>0, <2>5, PopEmptyMaps
  <2>6. CASE Size(t)          BY <1>0, <2>6, SizeMaps
  <2>7. CASE PushAllocates(t) \/ ReserveNext(t)  BY <1>0, <2>7, AllocatesMaps
  <2>8. CASE ReserveDone(t)
    <3>1. op[t] = "reserve" /\ Return(t, None) /\ UNCHANGED shared /\ pc[t] = "reserve_next"
      BY <2>8 DEF ReserveDone, IInv, ThreadInv, ReserveKnown
    <3> QED  BY <1>0, <3>1, NoEffectMaps
  <2> QED
    BY <1>2, <2>1, <2>2, <2>3, <2>4, <2>5, <2>6, <2>7, <2>8
    DEF Step, CompleteWrite, Push, Pop, Reserve
<1>3. CASE AllQuiescent
  <2>1. UNCHANGED vars /\ \A t \in Threads : pc[t] \in {"idle", "panicked"}
    BY <1>3 DEF AllQuiescent, Quiescent
  <2>2. CountInv'
    BY <2>1 DEF CountInv, OneOwner, CallCounts, Own, Loaded, vars, shared, call, work, InWrite
  <2>3. len' = len /\ \A u \in Threads : Same(u)
    BY <2>1 DEF len, SizeOf, Same, Method, Took, Own, Told, vars, shared, call, work
  <2> QED  BY <1>0, <2>2, <2>3, LenType, Silent
<1> QED  BY <1>0, <1>1, <1>2, <1>3 DEF Next

LEMMA InitCounts ==
  ASSUME SizeInit PROVE CountInv /\ Counter!Init
<1> USE DEF SizeInit, Init
<1>1. CountInv
  BY DEF CountInv, OneOwner, CallCounts, Own, Loaded, NoWrite, InWrite
<1>2. len = 0  BY DEF len, SizeOf, NoWrite
<1>3. \A t \in Threads : Method(t) = "idle" /\ Told(t) = 0 /\ Took(t) = FALSE
  BY DEF Method, Told, Took, Own
<1> QED  BY <1>1, <1>2, <1>3 DEF Counter!Init

LEMMA StutterCounts ==
  ASSUME CountInv, UNCHANGED <<vars, seen>>
  PROVE  CountInv' /\ UNCHANGED Counter!vars
<1> USE DEF vars, shared, call, work
<1>1. CountInv'  BY DEF CountInv, OneOwner, CallCounts, Own, Loaded, SizeOf
<1>2. len' = len /\ \A t \in Threads : Same(t)
  BY DEF len, SizeOf, Same, Method, Told, Took, Own
<1>3. UNCHANGED Counter!vars  BY <1>2 DEF Same, Counter!vars
<1> QED  BY <1>1, <1>3

\* Each pending element belongs to one push that has not returned, and each
\* thread has seen the size it decides on at an instant of its call.
THEOREM CountInvariance == SizeSpecification => []CountInv
<1>1. SizeInit => CountInv  BY InitCounts
<1>2. IInv /\ IInv' /\ CountInv /\ [SizeNext]_<<vars, seen>> => CountInv'
  BY NextCounts, StutterCounts
<1> QED  BY <1>1, <1>2, SizeInvariance, PTL DEF SizeSpecification

\* leaky::SecVec has the length of a linearizable counter: no push or pop is
\* counted twice or not at all, whoever completes it, and size() and a pop
\* that finds nothing report what was true at an instant of the call.
THEOREM CountsLinearizably == SizeSpecification => ImplementsCounter
<1>1. SizeInit => Counter!Init  BY InitCounts
<1>2. IInv /\ IInv' /\ CountInv /\ [SizeNext]_<<vars, seen>> => [Counter!Next]_(Counter!vars)
  BY NextCounts, StutterCounts
<1> QED
  BY <1>1, <1>2, SizeInvariance, CountInvariance, PTL
  DEF SizeSpecification, ImplementsCounter, Counter!Spec

-----------------------------------------------------------------------------
(* The elements *)

\* Keeping pushes and pops apart takes steps away: the invariant of Leaky holds.
LEMMA ApartInvariance == ApartSpec => []IInv
<1>1. IInv /\ [ApartNext]_vars => IInv'
  <2>1. ASSUME IInv, Next  PROVE IInv'
    BY <2>1, NextTypeOK, NextKnown DEF IInv, Known
  <2> QED  BY <2>1, StutterKeeps DEF ApartNext
<1> QED  BY <1>1, InitIInv, PTL DEF ApartSpec

-----------------------------------------------------------------------------
(* What a step leaves as it is *)

ThreadStays(u) == UNCHANGED <<Locals(u), elem[u], res[u]>>

\* What was swapped in stays what it is, except for what is pending.
DescsStay ==
  /\ descriptor' >= descriptor
  /\ \A d \in 1 .. descriptor :
       /\ descs'[d].size = descs[d].size /\ descs'[d].location = descs[d].location
       /\ descs'[d].new = descs[d].new /\ descs'[d].old = descs[d].old

GrowthStays  == \A d \in 1 .. descriptor : GrownSince(d) => GrownSince(d)'
CellsStay    == \A i : Backed(i) => cells'[i] = cells[i]
WritersStay  == \A u \in Threads : ToWrite(u) => ToWrite(u)' /\ wd'[u] = wd[u]
SizeShrinks  == descs'[descriptor'].size <= descs[descriptor].size

LEMMA SizeTyped ==
  /\ TypeOK  => \A d \in 1 .. descriptor  : descs[d].size \in Nat
  /\ TypeOK' => \A d \in 1 .. descriptor' : descs'[d].size \in Nat
  /\ TypeOK  => descs[descriptor].size \in Nat
  /\ TypeOK' => descs'[descriptor'].size \in Nat
<1>1. \A n \in Nat \ {0} : n \in 1 .. n  OBVIOUS
<1> QED  BY <1>1 DEF TypeOK, SharedTypeOK, Desc

LEMMA PushKnownStays ==
  ASSUME IInv, DescsStay, GrowthStays, CellsStay, WritersStay,
         NEW u \in Threads, In(u, "push"), PushKnown(u), ThreadStays(u)
  PROVE  PushKnown(u)'
<1>0. /\ cur[u] \in 1 .. descriptor /\ wd[u] \in 1 .. descriptor /\ op[u] = "push"
      /\ WriteKnown(u) /\ LoopKnown(u) /\ descriptor \in Nat /\ descriptor' >= descriptor
  BY DEF IInv, TypeOK, SharedTypeOK, WorkTypeOK, ThreadInv, In, DescsStay
<1>1. /\ pc'[u] = pc[u] /\ op'[u] = op[u] /\ arg'[u] = arg[u] /\ cur'[u] = cur[u]
      /\ wd'[u] = wd[u] /\ ret'[u] = ret[u] /\ elem'[u] = elem[u]
  BY DEF ThreadStays, Locals
<1>2. /\ descs'[wd[u]].size = descs[wd[u]].size /\ descs'[wd[u]].location = descs[wd[u]].location
      /\ descs'[wd[u]].new = descs[wd[u]].new /\ descs'[wd[u]].old = descs[wd[u]].old
      /\ descs'[cur[u]].size = descs[cur[u]].size
  BY <1>0 DEF DescsStay
<1>3. pc[u] # "load_descriptor" => GrownSince(Held(u))'
  <2>1. Held(u) \in 1 .. descriptor /\ Held(u)' = Held(u)  BY <1>0, <1>1 DEF Held
  <2> QED  BY <2>1 DEF PushKnown, GrowthStays, GrownSince
<1>4. pc[u] \in InWrite => cells'[descs[wd[u]].location] = cells[descs[wd[u]].location]
  BY <1>0 DEF WriteKnown, CellsStay
<1>5. pc[u] = "swap_descriptor" => cells'[descs[cur[u]].size] = cells[descs[cur[u]].size]
  BY <1>0 DEF LoopKnown, CellsStay
<1>6. pc[u] = "swap_descriptor" /\ cur[u] = descriptor' => cur[u] = descriptor
  BY <1>0
<1>7. Own(u)' = Own(u) /\ ToWrite(u)' = ToWrite(u)  BY <1>1 DEF Own, ToWrite
<1>8. pc[u] = "write_cell" => pc[u] \in InWrite  BY DEF InWrite
<1>9. Own(u) => pc[u] \in InWrite  BY DEF Own
<1>a. (\E v \in Threads : ToWrite(v) /\ wd[v] = wd[u])
        => \E v \in Threads : ToWrite(v)' /\ wd'[v] = wd[u]
  BY DEF WritersStay
<1> QED
  BY <1>1, <1>2, <1>3, <1>4, <1>5, <1>6, <1>7, <1>8, <1>9, <1>a DEF PushKnown

LEMMA PopKnownStays ==
  ASSUME IInv, IInv', DescsStay, CellsStay, SizeShrinks,
         NEW u \in Threads, In(u, "pop"), PopKnown(u), ThreadStays(u)
  PROVE  PopKnown(u)'
<1>0. /\ cur[u] \in 1 .. descriptor /\ op[u] = "pop" /\ LoopKnown(u)
      /\ descs[cur[u]].size \in Nat /\ descs[descriptor].size \in Nat
      /\ descs'[descriptor'].size \in Nat
  BY SizeTyped DEF IInv, TypeOK, WorkTypeOK, ThreadInv, In
<1>1. /\ pc'[u] = pc[u] /\ cur'[u] = cur[u] /\ elem'[u] = elem[u]
      /\ descs'[cur[u]].size = descs[cur[u]].size
  BY <1>0 DEF ThreadStays, Locals, DescsStay
<1>2. pc[u] = "swap_descriptor" =>
        cells'[descs[cur[u]].size - 1] = cells[descs[cur[u]].size - 1]
  <2> SUFFICES ASSUME pc[u] = "swap_descriptor" PROVE Backed(descs[cur[u]].size - 1)
    BY DEF CellsStay
  <2>1. descs[cur[u]].size - 1 \in 0 .. descs[cur[u]].size - 1  BY <1>0 DEF LoopKnown
  <2> QED  BY <1>0, <2>1 DEF IInv, SharedInv, ElementsBacked
<1>3. pc[u] # "load_descriptor" => descs'[descriptor'].size <= descs[cur[u]].size
  <2>1. SizeShrinks /\ (pc[u] # "load_descriptor" => descs[descriptor].size <= descs[cur[u]].size)
    BY DEF PopKnown
  <2> QED  BY <1>0, <2>1 DEF SizeShrinks
<1> QED  BY <1>1, <1>2, <1>3 DEF PopKnown

\* A step of t has to be looked at from t, if it does not write.
LEMMA StackStays ==
  ASSUME IInv, IInv', StackInv, Apart', OneOwner', DescsStay, CellsStay, WritersStay,
         GrowthStays \/ \A u \in Threads : ~In(u, "push"),
         SizeShrinks \/ \A u \in Threads : ~In(u, "pop"),
         NEW t \in Threads, \A u \in Threads \ {t} : ThreadStays(u),
         In(t, "push")' => PushKnown(t)', In(t, "pop")' => PopKnown(t)'
  PROVE  StackInv'
<1>1. ASSUME NEW u \in Threads \ {t}
      PROVE  (In(u, "push")' => PushKnown(u)') /\ (In(u, "pop")' => PopKnown(u)')
  <2>1. In(u, "push")' = In(u, "push") /\ In(u, "pop")' = In(u, "pop")
    BY DEF ThreadStays, Locals, In
  <2>2. CASE In(u, "push")
    BY <2>1, <2>2, PushKnownStays DEF StackInv, In
  <2>3. CASE In(u, "pop")
    BY <2>1, <2>3, PopKnownStays DEF StackInv, In
  <2> QED  BY <2>1, <2>2, <2>3
<1> QED  BY <1>1 DEF StackInv

-----------------------------------------------------------------------------
(* What is the element at an index *)

Writes(t, i) == ToWrite(t) /\ descs[wd[t]].location = i

\* Two threads that are at work on the same cell have the same write.
LEMMA SameWrite ==
  ASSUME IInv, NEW t \in Threads, NEW u \in Threads, PushKnown(t), PushKnown(u),
         pc[t] \in InWrite, pc[u] \in InWrite,
         descs[wd[t]].location = descs[wd[u]].location
  PROVE  wd[t] = wd[u]
<1>0. /\ wd[t] \in 1 .. descriptor /\ wd[u] \in 1 .. descriptor
      /\ descs[wd[t]].size \in Nat /\ descs[wd[u]].size \in Nat /\ descriptor \in Nat
  BY SizeTyped DEF IInv, TypeOK, SharedTypeOK, WorkTypeOK
<1>1. descs[wd[t]].size = descs[wd[u]].size  BY DEF PushKnown
<1>2. GrownSince(wd[t]) /\ GrownSince(wd[u])  BY DEF PushKnown, Held, InWrite
<1>3. CASE wd[t] <= wd[u]
  <2>1. wd[u] \in wd[t] .. descriptor  BY <1>0, <1>3
  <2> QED  BY <1>0, <1>1, <1>2, <2>1 DEF GrownSince
<1>4. CASE wd[u] <= wd[t]
  <2>1. wd[t] \in wd[u] .. descriptor  BY <1>0, <1>4
  <2> QED  BY <1>0, <1>1, <1>2, <2>1 DEF GrownSince
<1> QED  BY <1>0, <1>3, <1>4

IsElement(i, v) ==
  /\ \A u \in Threads : Writes(u, i) => v = arg[u]
  /\ (\A u \in Threads : ~Writes(u, i)) => v = cells[i]

LEMMA ElementIs ==
  ASSUME IInv, StackInv, NEW i
  PROVE  IsElement(i, Element(i))
<1> DEFINE writers == {t \in Threads : ToWrite(t) /\ descs[wd[t]].location = i}
<1>1. ASSUME NEW t \in Threads, NEW u \in Threads, Writes(t, i), Writes(u, i)
      PROVE  t = u
  <2>1. /\ In(t, "push") /\ In(u, "push") /\ pc[t] \in InWrite /\ pc[u] \in InWrite
        /\ Own(t) /\ Own(u)
    BY <1>1 DEF Writes, ToWrite, Own, In, InWrite
  <2>2. wd[t] = wd[u]  BY <1>1, <2>1, SameWrite DEF StackInv, Writes
  <2> QED  BY <2>1, <2>2 DEF StackInv, OneOwner
<1>2. CASE writers = {}  BY <1>2 DEF Element, IsElement, Writes
<1>3. CASE writers # {}
  <2>1. (CHOOSE t \in writers : TRUE) \in writers  BY <1>3
  <2> QED  BY <1>1, <1>3, <2>1 DEF Element, IsElement, Writes
<1> QED  BY <1>2, <1>3

LEMMA IsTheElement ==
  ASSUME NEW i, NEW v, IsElement(i, v)'
  PROVE  Element(i)' = v
<1> DEFINE writers == {t \in Threads : ToWrite(t)' /\ descs'[wd'[t]].location = i}
<1>1. CASE writers = {}  BY <1>1 DEF Element, IsElement, Writes
<1>2. CASE writers # {}
  <2>1. (CHOOSE t \in writers : TRUE) \in writers  BY <1>2
  <2> QED  BY <1>2, <2>1 DEF Element, IsElement, Writes
<1> QED  BY <1>1, <1>2

LEMMA ElementStays ==
  ASSUME IInv, StackInv, NEW i, cells'[i] = cells[i],
         \A u \in Threads : (Writes(u, i)' <=> Writes(u, i)) /\ (Writes(u, i) => arg'[u] = arg[u])
  PROVE  Element(i)' = Element(i)
<1>1. IsElement(i, Element(i))  BY ElementIs
<1> SUFFICES ASSUME NEW v, v = Element(i) PROVE IsElement(i, v)'
  BY IsTheElement
<1> QED  BY <1>1 DEF IsElement

LEMMA Indices ==
  ASSUME IInv
  PROVE  /\ SizeOf(descriptor) \in Nat
         /\ \A i \in 1 .. SizeOf(descriptor) :
              i - 1 \in 0 .. descs[descriptor].size - 1 /\ Backed(i - 1)
<1>1. /\ TypeOK /\ PendingIsLast /\ ElementsBacked /\ descriptor \in 1 .. descriptor
      /\ descs[descriptor].size \in Nat
  BY SizeTyped DEF IInv, SharedInv, TypeOK, SharedTypeOK
<1>2. SizeOf(descriptor) \in Nat /\ SizeOf(descriptor) <= descs[descriptor].size
  BY <1>1, SizeOfType
<1>3. \A i \in 1 .. SizeOf(descriptor) : i - 1 \in 0 .. descs[descriptor].size - 1
  BY <1>1, <1>2
<1> QED  BY <1>1, <1>2, <1>3 DEF ElementsBacked

\* A step of t that neither swaps nor writes changes no element.
LEMMA QuietStep ==
  ASSUME IInv, IInv', StackInv, Apart', NEW t \in Threads,
         \A u \in Threads \ {t} : ThreadStays(u),
         UNCHANGED <<descriptor, descs>>, CellsStay,
         Own(t)' <=> Own(t), ToWrite(t)' <=> ToWrite(t),
         Own(t) => wd'[t] = wd[t] /\ arg'[t] = arg[t],
         In(t, "push")' => PushKnown(t)', In(t, "pop")' => PopKnown(t)'
  PROVE  /\ StackInv' /\ Elements' = Elements
         /\ \A u \in Threads : Took(u)' = Took(u)
         /\ \A u \in Threads \ {t} : Doing(u)' = Doing(u) /\ Popped(u)' = Popped(u)
<1>1. ASSUME NEW u \in Threads
      PROVE  /\ Own(u)' <=> Own(u)
             /\ ToWrite(u)' <=> ToWrite(u)
             /\ Own(u) => wd'[u] = wd[u] /\ arg'[u] = arg[u]
  <2>1. CASE u = t  BY <2>1
  <2>2. CASE u # t
    <3>1. UNCHANGED Locals(u)  BY <2>2 DEF ThreadStays
    <3> QED  BY <3>1 DEF Locals, Own, ToWrite
  <2> QED  BY <2>1, <2>2
<1>2. ASSUME NEW u \in Threads \ {t}
      PROVE  Doing(u)' = Doing(u) /\ Popped(u)' = Popped(u)
  BY DEF ThreadStays, Locals, Doing, Popped, In
<1>3. ASSUME NEW u \in Threads  PROVE Took(u)' = Took(u)
  BY <1>1, Zenon DEF Took
<1>4. WritersStay  BY <1>1 DEF WritersStay, ToWrite
<1>5. OneOwner'
  <2>1. OwnersStay  BY <1>1 DEF OwnersStay
  <2> QED  BY <2>1, OwnersKeep DEF IInv, StackInv
<1>6. DescsStay /\ GrowthStays /\ SizeShrinks
  <2>1. descriptor \in Nat /\ descs[descriptor].size \in Nat
    BY SizeTyped DEF IInv, TypeOK, SharedTypeOK
  <2> QED  BY <2>1 DEF DescsStay, GrowthStays, GrownSince, SizeShrinks
<1>7. StackInv'  BY <1>4, <1>5, <1>6, StackStays
<1>8. Elements' = Elements
  <2>1. SizeOf(descriptor)' = SizeOf(descriptor)  BY DEF SizeOf
  <2>2. ASSUME NEW i \in 1 .. SizeOf(descriptor)  PROVE Element(i - 1)' = Element(i - 1)
    <3>1. Backed(i - 1)  BY Indices
    <3>2. cells'[i - 1] = cells[i - 1]  BY <3>1 DEF CellsStay
    <3>3. \A u \in Threads : /\ Writes(u, i - 1)' <=> Writes(u, i - 1)
                             /\ Writes(u, i - 1) => arg'[u] = arg[u]
      BY <1>1 DEF Writes, ToWrite
    <3> QED  BY <3>2, <3>3, ElementStays
  <2> QED  BY <2>1, <2>2 DEF Elements
<1> QED  BY <1>2, <1>3, <1>7, <1>8

\* If it stays inside its call, the stack sees nothing.
LEMMA StackMovesOn ==
  ASSUME IInv, IInv', StackInv, Apart', NEW t \in Threads,
         \A u \in Threads \ {t} : ThreadStays(u),
         UNCHANGED <<descriptor, descs>>, CellsStay,
         pc[t] \notin {"idle", "panicked"}, pc'[t] \notin {"idle", "panicked"},
         op'[t] = op[t], arg'[t] = arg[t], res'[t] = res[t],
         Own(t)' <=> Own(t), ToWrite(t)' <=> ToWrite(t), Own(t) => wd'[t] = wd[t],
         In(t, "push") => PushKnown(t)', In(t, "pop") => PopKnown(t)'
  PROVE  StackInv' /\ UNCHANGED Stack!vars
<1>1. \A m : In(t, m)' <=> In(t, m)  BY DEF In
<1>2. /\ StackInv' /\ Elements' = Elements
      /\ \A u \in Threads : Took(u)' = Took(u)
      /\ \A u \in Threads \ {t} : Doing(u)' = Doing(u) /\ Popped(u)' = Popped(u)
  BY <1>1, QuietStep
<1>3. Doing(t)' = Doing(t) /\ Popped(t)' = Popped(t)  BY <1>1 DEF Doing, Popped
<1> QED  BY <1>2, <1>3 DEF Stack!vars

-----------------------------------------------------------------------------
(* The steps of which the stack sees nothing *)

LEMMA LoadPendingOnStack ==
  ASSUME IInv, IInv', StackInv, Apart', NEW t \in Threads, LoadPending(t)
  PROVE  StackInv' /\ UNCHANGED Stack!vars
<1>0. /\ TypeOK /\ cur[t] \in 1 .. descriptor /\ op[t] \in {"push", "pop"}
      /\ pc[t] = "load_pending"
  BY DEF IInv, TypeOK, WorkTypeOK, LoadPending
<1>1. /\ \A u \in Threads \ {t} : ThreadStays(u)
      /\ UNCHANGED <<descriptor, descs, cells>>
      /\ op'[t] = op[t] /\ arg'[t] = arg[t] /\ res'[t] = res[t] /\ cur'[t] = cur[t]
  BY <1>0 DEF LoadPending, Goto, ThreadStays, Locals, TypeOK, CallTypeOK, WorkTypeOK,
     shared, call
<1>2. \/ /\ descs[cur[t]].pending /\ pc'[t] = "write_cell" /\ wd'[t] = cur[t]
         /\ ret'[t] = AfterHelping(t)
      \/ pc'[t] = AfterHelping(t)
  BY <1>0 DEF LoadPending, Goto, TypeOK, CallTypeOK, WorkTypeOK
<1>3. CellsStay  BY <1>1 DEF CellsStay
<1>4. ~Own(t) /\ ~Own(t)' /\ ~ToWrite(t) /\ ~ToWrite(t)'
  BY <1>0, <1>2 DEF ToWrite, Own, InWrite, AfterHelping
<1>5. ASSUME In(t, "push")  PROVE PushKnown(t)'
  <2>1. GrownSince(cur[t]) /\ op[t] = "push"
    BY <1>0, <1>5 DEF StackInv, PushKnown, Held, InWrite, In
  <2>2. GrownSince(cur[t])'  BY <1>1, <2>1 DEF GrownSince
  <2>3. CASE pc'[t] = AfterHelping(t)
    BY <1>1, <1>4, <2>1, <2>2, <2>3 DEF PushKnown, Held, InWrite, AfterHelping
  <2>4. CASE /\ descs[cur[t]].pending /\ pc'[t] = "write_cell" /\ wd'[t] = cur[t]
    <3>1. PICK u \in Threads : Own(u) /\ wd[u] = cur[t]
      BY <1>0, <2>4 DEF StackInv, OneOwner
    <3>2. PushKnown(u) /\ pc[u] \in InWrite  BY <3>1 DEF StackInv, Own, In, InWrite
    <3>3. ASSUME NEW v \in Threads, ToWrite(v)  PROVE ToWrite(v)' /\ wd'[v] = wd[v]
      <4>1. v # t  BY <1>4, <3>3
      <4>2. UNCHANGED Locals(v)  BY <1>1, <4>1 DEF ThreadStays
      <4> QED  BY <3>3, <4>2 DEF Locals, ToWrite, Own
    <3>4. \/ cells[descs[cur[t]].location] = descs[cur[t]].new
          \/ /\ cells[descs[cur[t]].location] = descs[cur[t]].old
             /\ \E v \in Threads : ToWrite(v) /\ wd[v] = cur[t]
      <4>1. CASE ToWrite(u)  BY <3>1, <3>2, <4>1 DEF PushKnown, ToWrite
      <4>2. CASE ~ToWrite(u)  BY <3>1, <3>2, <4>2 DEF PushKnown
      <4> QED  BY <4>1, <4>2
    <3>5. descs[cur[t]].size = descs[cur[t]].location + 1
      BY <3>1, <3>2 DEF PushKnown
    <3> QED
      BY <1>1, <1>4, <2>2, <2>4, <3>3, <3>4, <3>5 DEF PushKnown, Held, InWrite
  <2> QED  BY <1>2, <2>3, <2>4
<1>6. ASSUME In(t, "pop")  PROVE PopKnown(t)'
  <2>1. PopKnown(t) /\ op[t] = "pop"  BY <1>6 DEF StackInv, In
  <2>2. ~descs[cur[t]].pending
    <3>1. \A u \in Threads : Own(u) => In(u, "push")  BY DEF Own, In, InWrite
    <3> QED  BY <1>0, <1>6, <3>1 DEF StackInv, OneOwner, Apart
  <2> QED  BY <1>0, <1>1, <1>2, <2>1, <2>2 DEF PopKnown, AfterHelping
<1>7. pc'[t] \notin {"idle", "panicked"}  BY <1>2 DEF AfterHelping
<1> QED  BY <1>0, <1>1, <1>3, <1>4, <1>5, <1>6, <1>7, StackMovesOn

LEMMA LoadsOnStack ==
  ASSUME IInv, IInv', StackInv, Apart', NEW t \in Threads,
         \/ LoadDescriptor(t) \/ LoadTarget(t) \/ RetrySwap(t) \/ CheckBucket(t)
         \/ ReadOld(t) \/ ReadLast(t) \/ ReserveSize(t)
  PROVE  StackInv' /\ UNCHANGED Stack!vars
<1>0. TypeOK /\ WriteKnown(t) /\ LoopKnown(t)  BY DEF IInv, ThreadInv
<1>a. /\ cur[t] \in 1 .. descriptor /\ descriptor \in Nat
      /\ descs[descriptor].size \in Nat /\ descs[cur[t]].size \in Nat
      /\ In(t, "pop") => PopKnown(t)
      /\ In(t, "push") => PushKnown(t)
  BY <1>0, SizeTyped DEF TypeOK, SharedTypeOK, WorkTypeOK, StackInv
<1> DEFINE Facts ==
      /\ \A u \in Threads \ {t} : ThreadStays(u)
      /\ UNCHANGED <<descriptor, descs, cells>>
      /\ pc[t] \notin {"idle", "panicked"} /\ pc'[t] \notin {"idle", "panicked"}
      /\ op'[t] = op[t] /\ arg'[t] = arg[t] /\ res'[t] = res[t]
      /\ (Own(t)' <=> Own(t)) /\ (ToWrite(t)' <=> ToWrite(t)) /\ (Own(t) => wd'[t] = wd[t])
<1>1. SUFFICES Facts /\ (In(t, "push") => PushKnown(t)') /\ (In(t, "pop") => PopKnown(t)')
  BY StackMovesOn DEF CellsStay
<1> USE DEF TypeOK, SharedTypeOK, CallTypeOK, WorkTypeOK, Goto, ThreadStays, Locals, Own,
            ToWrite, InWrite, shared, call, work, In
<1>2. CASE LoadDescriptor(t)
  <2>1. Facts /\ cur'[t] = descriptor /\ pc'[t] = "load_pending"
    BY <1>0, <1>2 DEF LoadDescriptor
  <2>2. GrownSince(descriptor)'  BY <1>a, <2>1 DEF GrownSince
  <2> QED  BY <1>a, <2>1, <2>2 DEF PushKnown, PopKnown, Held
<1>3. CASE LoadTarget(t)
  <2>1. /\ Facts /\ pc[t] = "load_target" /\ pc'[t] = "clear_pending" /\ wd'[t] = wd[t]
        /\ ret'[t] = ret[t]
    BY <1>0, <1>3 DEF LoadTarget
  <2>2. ~In(t, "pop")  BY <1>a, <2>1 DEF PopKnown
  <2>3. In(t, "push") => PushKnown(t)'
    BY <1>a, <2>1 DEF PushKnown, Held, GrownSince
  <2> QED  BY <2>1, <2>2, <2>3
<1>4. CASE RetrySwap(t)
  <2>1. Facts /\ pc'[t] = "load_descriptor"  BY <1>0, <1>4 DEF RetrySwap, EndOfScope
  <2> QED  BY <2>1 DEF PushKnown, PopKnown
<1>5. CASE CheckBucket(t)
  <2>1. /\ Facts /\ pc[t] = "check_bucket" /\ pc'[t] \in {"read_elem", "allocate_bucket"}
        /\ cur'[t] = cur[t]
    BY <1>0, <1>5 DEF CheckBucket
  <2>2. ~In(t, "pop")  BY <1>a, <2>1 DEF PopKnown
  <2>3. In(t, "push") => PushKnown(t)'
    BY <1>a, <2>1 DEF PushKnown, Held, GrownSince
  <2> QED  BY <2>1, <2>2, <2>3
<1>6. CASE ReadOld(t)
  <2>1. /\ Facts /\ op[t] = "push" /\ pc[t] = "read_elem" /\ pc'[t] = "swap_descriptor"
        /\ cur'[t] = cur[t] /\ elem'[t] = cells[descs[cur[t]].size]
    BY <1>0, <1>6 DEF ReadOld
  <2>2. In(t, "push") => PushKnown(t)'
    BY <1>a, <2>1 DEF PushKnown, Held, GrownSince
  <2> QED  BY <2>1, <2>2
<1>7. CASE ReadLast(t)
  <2>1. /\ Facts /\ op[t] = "pop" /\ pc[t] = "read_elem" /\ pc'[t] = "swap_descriptor"
        /\ cur'[t] = cur[t] /\ elem'[t] = cells[descs[cur[t]].size - 1]
    BY <1>0, <1>7 DEF ReadLast
  <2>2. In(t, "pop") => PopKnown(t)'  BY <1>a, <2>1 DEF PopKnown
  <2> QED  BY <2>1, <2>2
<1>8. CASE ReserveSize(t)
  <2>1. Facts /\ op[t] = "reserve"  BY <1>0, <1>8 DEF ReserveSize
  <2> QED  BY <2>1
<1> QED  BY <1>2, <1>3, <1>4, <1>5, <1>6, <1>7, <1>8

\* A bucket that is installed has no element yet.
LEMMA InstallStays ==
  ASSUME IInv, NEW b, InstallBucket(b)
  PROVE  CellsStay
<1>1. CASE buffers[b]  BY <1>1 DEF InstallBucket, CellsStay
<1>2. CASE ~buffers[b]
  BY <1>2 DEF InstallBucket, CellsStay, Backed
<1> QED  BY <1>1, <1>2

LEMMA AllocatesOnStack ==
  ASSUME IInv, IInv', StackInv, Apart', NEW t \in Threads, NEW b, AllocateBucket(t, b),
         \A u \in Threads \ {t} : allocs'[u] = allocs[u],
         \/ pc[t] = "allocate_bucket" /\ Goto(t, "read_elem")
         \/ pc[t] \in {"reserve_first", "reserve_next"} /\ Goto(t, "reserve_next")
  PROVE  StackInv' /\ UNCHANGED Stack!vars
<1>0. TypeOK /\ LoopKnown(t) /\ ReserveKnown(t)  BY DEF IInv, ThreadInv
<1>1. /\ UNCHANGED <<descriptor, descs, op, arg, res, cur, wd, target, ret, elem>>
      /\ CellsStay
  BY InstallStays DEF AllocateBucket, call
<1>2. \A u \in Threads \ {t} : ThreadStays(u)
  BY <1>0, <1>1 DEF ThreadStays, Locals, Goto, TypeOK, CallTypeOK
<1>3. /\ pc[t] \notin {"idle", "panicked"} /\ pc'[t] \notin {"idle", "panicked"}
      /\ ~Own(t) /\ ~Own(t)' /\ ~ToWrite(t) /\ ~ToWrite(t)'
      /\ pc[t] \notin InWrite /\ pc'[t] \notin InWrite
      /\ pc[t] # "load_descriptor" /\ pc'[t] # "swap_descriptor"
  BY <1>0 DEF Own, ToWrite, InWrite, Goto, TypeOK, CallTypeOK
<1>4. ~In(t, "pop")
  BY <1>0 DEF StackInv, PopKnown, ReserveKnown, In
<1>5. In(t, "push") => PushKnown(t)'
  <2>1. In(t, "push") => GrownSince(cur[t])'
    BY <1>1, <1>3 DEF StackInv, PushKnown, Held, GrownSince
  <2>2. pc'[t] # "write_cell"  BY <1>3 DEF InWrite
  <2> QED  BY <1>1, <1>3, <2>1, <2>2 DEF PushKnown, Held
<1> QED  BY <1>1, <1>2, <1>3, <1>4, <1>5, StackMovesOn

\* size and reserve end, and so does an allocation that fails.
LEMMA EndsOnStack ==
  ASSUME IInv, IInv', StackInv, Apart', NEW t \in Threads,
         UNCHANGED shared, op[t] \in {"size", "reserve"},
         \/ \E n : Return(t, n)
         \/ PanicIn(t)
  PROVE  StackInv' /\ UNCHANGED Stack!vars
<1>0. TypeOK /\ WriteKnown(t)  BY DEF IInv, ThreadInv
<1>1. /\ UNCHANGED <<descriptor, descs, op, arg>> /\ CellsStay
      /\ \A u \in Threads \ {t} : ThreadStays(u)
  BY <1>0 DEF Return, PanicIn, EndOfScope, Goto, ThreadStays, Locals, shared, call,
     CellsStay, TypeOK, CallTypeOK, WorkTypeOK
<1>2. /\ ~In(t, "push") /\ ~In(t, "pop") /\ ~In(t, "push")' /\ ~In(t, "pop")'
      /\ ~Own(t) /\ ~Own(t)' /\ ~ToWrite(t) /\ ~ToWrite(t)'
  BY <1>1 DEF In, Own, ToWrite
<1>3. /\ StackInv' /\ Elements' = Elements
      /\ \A u \in Threads : Took(u)' = Took(u)
      /\ \A u \in Threads \ {t} : Doing(u)' = Doing(u) /\ Popped(u)' = Popped(u)
  BY <1>1, <1>2, QuietStep
<1>4. Doing(t)' = Doing(t) /\ Popped(t)' = Popped(t)
  BY <1>1, <1>2 DEF Doing, Popped
<1> QED  BY <1>3, <1>4 DEF Stack!vars

-----------------------------------------------------------------------------
(* Calls and panics *)

LEMMA CallsOnStack ==
  ASSUME IInv, IInv', StackInv, Apart', NEW t \in Threads, Calls(t)
  PROVE  StackInv' /\ Stack!Next
<1>0. TypeOK  BY DEF IInv
<1>a. PICK method \in {"push", "pop", "size", "reserve"} :
        \E n : Call(t, method, n) /\ (method = "push" => n \in Values)
  BY DEF Calls, CallPush, CallPop, CallSize, CallReserve
<1>1. PICK n : Call(t, method, n) /\ (method = "push" => n \in Values)
  BY <1>a
<1>2. /\ UNCHANGED <<descriptor, descs, cells, cur, wd, target, ret, elem, allocs>>
      /\ pc[t] = "idle" /\ pc'[t] = "load_descriptor" /\ op'[t] = method /\ arg'[t] = n
      /\ res'[t] = None /\ \A u \in Threads \ {t} : ThreadStays(u)
  BY <1>0, <1>1 DEF Call, Goto, ThreadStays, Locals, shared, work, TypeOK, CallTypeOK
<1>3. /\ CellsStay /\ PushKnown(t)' /\ PopKnown(t)'
      /\ ~Own(t) /\ ~Own(t)' /\ ~ToWrite(t) /\ ~ToWrite(t)'
  BY <1>2 DEF CellsStay, PushKnown, PopKnown, Own, ToWrite, InWrite
<1>4. /\ StackInv' /\ Elements' = Elements
      /\ \A u \in Threads : Took(u)' = Took(u)
      /\ \A u \in Threads \ {t} : Doing(u)' = Doing(u) /\ Popped(u)' = Popped(u)
  BY <1>2, <1>3, QuietStep
<1>5. Doing(t) = Stack!Idle /\ Popped(t)' = None
  BY <1>2 DEF Doing, Popped, In, Stack!Idle
<1> DEFINE doing == [u \in Threads |-> Doing(u)]
           told  == [u \in Threads |-> Popped(u)]
<1>6. /\ doing[t] = Stack!Idle
      /\ told' = [told EXCEPT ![t] = None]
      /\ doing' = [doing EXCEPT ![t] = Doing(t)']
      /\ UNCHANGED <<Elements, [u \in Threads |-> Took(u)]>>
  BY <1>4, <1>5, Zenon
<1>7. CASE method = "push"
  <2>1. Doing(t)' = Stack!Push(n)  BY <1>2, <1>7 DEF Doing, In, Stack!Push
  <2>2. Stack!Push(n) \in {Stack!Pop} \cup {Stack!Push(v) : v \in Values}
    BY <1>1, <1>7
  <2>3. Stack!Begin(t)  BY <1>6, <2>1, <2>2 DEF Stack!Begin
  <2> QED  BY <1>4, <2>3 DEF Stack!Next
<1>8. CASE method = "pop"
  <2>1. Doing(t)' = Stack!Pop  BY <1>2, <1>8 DEF Doing, In, Stack!Pop
  <2>2. Stack!Pop \in {Stack!Pop} \cup {Stack!Push(v) : v \in Values}
    OBVIOUS
  <2>3. Stack!Begin(t)  BY <1>6, <2>1, <2>2 DEF Stack!Begin
  <2> QED  BY <1>4, <2>3 DEF Stack!Next
<1>9. CASE method \in {"size", "reserve"}
  <2>1. Doing(t)' = Doing(t)  BY <1>2, <1>5, <1>9 DEF Doing, In, Stack!Idle
  <2>2. doing' = doing  BY <1>4, <2>1
  <2>3. Stack!Forget(t)  BY <1>6, <2>2 DEF Stack!Forget
  <2> QED  BY <1>4, <2>3 DEF Stack!Next
<1> QED  BY <1>7, <1>8, <1>9

\* A push that panics has announced nothing.
LEMMA PanicsOnStack ==
  ASSUME IInv, IInv', StackInv, Apart', NEW t \in Threads, op[t] = "push",
         pc[t] = "allocate_bucket", PanicIn(t)
  PROVE  StackInv' /\ Stack!Next
<1>0. TypeOK  BY DEF IInv
<1>1. /\ UNCHANGED <<descriptor, descs, op, arg>> /\ CellsStay
      /\ \A u \in Threads \ {t} : ThreadStays(u)
      /\ pc'[t] = "panicked"
  BY <1>0 DEF PanicIn, EndOfScope, Goto, ThreadStays, Locals, shared, call, CellsStay,
     TypeOK, CallTypeOK, WorkTypeOK
<1>2. /\ ~In(t, "push")' /\ ~In(t, "pop")'
      /\ ~Own(t) /\ ~Own(t)' /\ ~ToWrite(t) /\ ~ToWrite(t)'
  BY <1>1 DEF In, Own, ToWrite, InWrite
<1>3. /\ StackInv' /\ Elements' = Elements
      /\ \A u \in Threads : Took(u)' = Took(u)
      /\ \A u \in Threads \ {t} : Doing(u)' = Doing(u) /\ Popped(u)' = Popped(u)
  BY <1>1, <1>2, QuietStep
<1>4. /\ Doing(t).method = "push" /\ Doing(t)' = Stack!Idle
      /\ Popped(t)' = Popped(t) /\ ~Took(t)
  BY <1>1, <1>2 DEF Doing, Popped, In, Stack!Idle, Took
<1> DEFINE doing == [u \in Threads |-> Doing(u)]
<1>5. /\ doing[t].method = "push" /\ ~[u \in Threads |-> Took(u)][t]
      /\ doing' = [doing EXCEPT ![t] = Stack!Idle]
      /\ UNCHANGED <<Elements, [u \in Threads |-> Took(u)], [u \in Threads |-> Popped(u)]>>
  <2>1. \A u \in Threads : Popped(u)' = Popped(u)  BY <1>3, <1>4
  <2> QED  BY <1>3, <1>4, <2>1, Zenon
<1>6. Stack!Panics(t)  BY <1>5 DEF Stack!Panics
<1> QED  BY <1>3, <1>6 DEF Stack!Next

-----------------------------------------------------------------------------
(* A cell is written, or is found to be written already *)

LEMMA WriteCellOnStack ==
  ASSUME IInv, IInv', StackInv, Apart', NEW t \in Threads, WriteCell(t)
  PROVE  StackInv' /\ UNCHANGED Stack!vars
<1> SUFFICES ASSUME NEW w, w = descs[wd[t]] PROVE StackInv' /\ UNCHANGED Stack!vars
  OBVIOUS
<1> DEFINE loc == w.location
<1>0. /\ TypeOK /\ WriteKnown(t) /\ pc[t] = "write_cell" /\ wd[t] \in 1 .. descriptor
      /\ descriptor \in Nat /\ pc[t] \in InWrite
  BY DEF IInv, TypeOK, SharedTypeOK, WorkTypeOK, ThreadInv, WriteCell, InWrite
<1>1. /\ UNCHANGED <<descriptor, descs, op, arg, res, cur, wd, ret, elem>>
      /\ \A u \in Threads \ {t} : ThreadStays(u)
      /\ pc'[t] = "load_target"
  BY <1>0 DEF WriteCell, Goto, ThreadStays, Locals, call, work, TypeOK, CallTypeOK
<1>2. In(t, "push") /\ ~In(t, "pop")
  BY <1>0 DEF WriteKnown, StackInv, PopKnown, In
<1>3. PushKnown(t)  BY <1>2 DEF StackInv
<1>4. /\ loc \in Slots /\ \A i : i # loc => cells'[i] = cells[i]
      /\ cells'[loc] = w.new
  <2>1. loc \in Slots  BY <1>0 DEF WriteKnown, Backed
  <2>2. cells[loc] = w.new \/ cells[loc] = w.old  BY <1>0, <1>3 DEF PushKnown
  <2>3. cells' = [cells EXCEPT ![loc] = IF cells[loc] = w.old THEN w.new ELSE cells[loc]]
    BY DEF WriteCell
  <2>4. cells \in [Slots -> Nat]  BY <1>0 DEF TypeOK, SharedTypeOK
  <2> QED  BY <2>1, <2>2, <2>3, <2>4
<1>5. ASSUME NEW u \in Threads, In(u, "push"), pc[u] \in InWrite,
             descs[wd[u]].location = loc
      PROVE  wd[u] = wd[t] /\ descs[wd[u]] = w
  BY <1>0, <1>3, <1>5, SameWrite DEF StackInv
<1>6. ASSUME NEW u \in Threads
      PROVE  /\ Own(u)' <=> Own(u)
             /\ In(u, "push")' <=> In(u, "push")
             /\ ToWrite(u)' <=> ToWrite(u) /\ u # t
  <2>1. CASE u = t  BY <1>0, <1>1, <2>1 DEF Own, ToWrite, In, InWrite
  <2>2. CASE u # t
    <3>1. UNCHANGED Locals(u)  BY <1>1, <2>2 DEF ThreadStays
    <3> QED  BY <2>2, <3>1 DEF Locals, Own, ToWrite, In
  <2> QED  BY <2>1, <2>2
<1>7. ASSUME NEW u \in Threads, ToWrite(u)
      PROVE  In(u, "push") /\ pc[u] \in InWrite /\ arg[u] = descs[wd[u]].new
  BY <1>7 DEF ToWrite, Own, In, InWrite, StackInv, PushKnown
<1>8. OneOwner'
  <2>1. OwnersStay  BY <1>1, <1>6 DEF OwnersStay
  <2> QED  BY <1>0, <2>1, OwnersKeep DEF StackInv
<1>9. \A u \in Threads : In(u, "pop")' <=> FALSE
  BY <1>2, <1>6 DEF Apart
<1>10. ASSUME NEW u \in Threads \ {t}, In(u, "push")  PROVE PushKnown(u)'
  <2>0. /\ PushKnown(u) /\ UNCHANGED <<Locals(u), elem[u]>> /\ op[u] = "push"
        /\ wd[u] \in 1 .. descriptor /\ LoopKnown(u)
    BY <1>0, <1>1, <1>10 DEF StackInv, ThreadStays, In, IInv, TypeOK, WorkTypeOK, ThreadInv
  <2>1. pc[u] # "load_descriptor" => GrownSince(Held(u))'
    BY <1>1, <2>0 DEF PushKnown, Held, GrownSince, Locals
  <2>2. pc[u] \in InWrite => descs[wd[u]].size = descs[wd[u]].location + 1
    BY <2>0 DEF PushKnown
  <2>3. ASSUME pc[u] = "write_cell"
        PROVE  \/ cells'[descs[wd[u]].location] = descs[wd[u]].new
               \/ /\ cells'[descs[wd[u]].location] = descs[wd[u]].old
                  /\ \E v \in Threads : ToWrite(v)' /\ wd'[v] = wd[u]
    <3>0. pc[u] \in InWrite  BY <2>3 DEF InWrite
    <3>1. CASE descs[wd[u]].location = loc  BY <1>4, <1>5, <1>10, <3>0, <3>1
    <3>2. CASE descs[wd[u]].location # loc
      <4>1. cells'[descs[wd[u]].location] = cells[descs[wd[u]].location]
        BY <1>4, <3>2
      <4>2. CASE cells[descs[wd[u]].location] = descs[wd[u]].new  BY <4>1, <4>2
      <4>3. CASE /\ cells[descs[wd[u]].location] = descs[wd[u]].old
                 /\ \E v \in Threads : ToWrite(v) /\ wd[v] = wd[u]
        <5>1. PICK v \in Threads : ToWrite(v) /\ wd[v] = wd[u]  BY <4>3
        <5>2. v # t  BY <3>2, <5>1
        <5> QED  BY <1>1, <1>6, <4>1, <4>3, <5>1, <5>2
      <4> QED  BY <2>0, <2>3, <4>2, <4>3 DEF PushKnown
    <3> QED  BY <3>1, <3>2
  <2>4. ASSUME Own(u), ~ToWrite(u)
        PROVE  descs[wd[u]].new = arg[u] /\ cells'[descs[wd[u]].location] = arg[u]
    <3>0. pc[u] \in InWrite  BY <2>4 DEF Own
    <3>1. CASE descs[wd[u]].location = loc
      BY <1>4, <1>5, <1>10, <2>0, <2>4, <3>0, <3>1 DEF PushKnown
    <3>2. CASE descs[wd[u]].location # loc
      BY <1>4, <2>0, <2>4, <3>2 DEF PushKnown
    <3> QED  BY <3>1, <3>2
  <2>5. ASSUME pc[u] = "swap_descriptor", cur[u] = descriptor
        PROVE  elem[u] = cells'[descs[cur[u]].size]
    <3>1. GrownSince(wd[t]) /\ w.size = loc + 1
      BY <1>0, <1>3 DEF PushKnown, Held, InWrite
    <3>2. w.size \in Nat /\ descriptor \in wd[t] .. descriptor  BY <1>0, SizeTyped
    <3>3. descs[descriptor].size = w.size + (descriptor - wd[t])
      BY <3>1, <3>2 DEF GrownSince
    <3>4. loc \in Nat  BY <1>0 DEF TypeOK, SharedTypeOK, Desc
    <3>5. descs[descriptor].size # loc  BY <1>0, <3>1, <3>2, <3>3, <3>4
    <3> QED  BY <1>4, <2>0, <2>5, <3>5 DEF PushKnown
  <2>6. Own(u) => descs[wd[u]].new = arg[u]  BY <2>0 DEF PushKnown
  <2> HIDE <1>10
  <2> QED
    BY <1>1, <1>6, <2>0, <2>1, <2>2, <2>3, <2>4, <2>5, <2>6 DEF PushKnown, Locals
<1>11. PushKnown(t)'
  <2>1. Own(t) => w.new = arg[t]  BY <1>3 DEF PushKnown
  <2>2. w.size = loc + 1 /\ GrownSince(wd[t])  BY <1>0, <1>3 DEF PushKnown, Held
  <2>3. GrownSince(wd[t])' /\ Held(t)' = wd[t]
    BY <1>1, <2>2 DEF GrownSince, Held, InWrite
  <2>4. GrownSince(Held(t))'  BY <1>1, <2>3 DEF GrownSince
  <2> QED  BY <1>1, <1>4, <1>6, <2>1, <2>2, <2>4 DEF PushKnown
<1>12. StackInv'
  BY <1>6, <1>8, <1>9, <1>10, <1>11 DEF StackInv
<1>13. Element(loc)' = Element(loc)
  <2> SUFFICES ASSUME NEW v, v = Element(loc) PROVE IsElement(loc, v)'
    BY IsTheElement
  <2>1. IsElement(loc, v)  BY ElementIs
  <2>2. v = w.new
    <3>1. CASE \E u \in Threads : Writes(u, loc)
      <4>1. PICK u \in Threads : Writes(u, loc)  BY <3>1
      <4>2. v = arg[u] /\ ToWrite(u) /\ descs[wd[u]].location = loc
        BY <2>1, <4>1 DEF IsElement, Writes
      <4> QED  BY <1>5, <1>7, <4>2
    <3>2. CASE \A u \in Threads : ~Writes(u, loc)
      <4>1. v = cells[loc]  BY <2>1, <3>2 DEF IsElement
      <4>2. ~\E u \in Threads : ToWrite(u) /\ wd[u] = wd[t]  BY <3>2 DEF Writes
      <4> QED  BY <1>0, <1>3, <4>1, <4>2 DEF PushKnown
    <3> QED  BY <3>1, <3>2
  <2>3. ASSUME NEW u \in Threads, Writes(u, loc)'  PROVE v = arg'[u]
    <3>1. ToWrite(u) /\ descs[wd[u]].location = loc
      BY <1>1, <1>6, <2>3 DEF Writes
    <3> QED  BY <1>1, <1>5, <1>7, <2>2, <3>1
  <2> QED  BY <1>4, <2>2, <2>3 DEF IsElement
<1>14. Elements' = Elements
  <2>1. ASSUME NEW i, i # loc  PROVE Element(i)' = Element(i)
    <3>1. \A u \in Threads : (Writes(u, i)' <=> Writes(u, i)) /\ arg'[u] = arg[u]
      BY <1>1, <1>6, <2>1 DEF Writes
    <3> QED  BY <1>4, <2>1, <3>1, ElementStays
  <2>2. SizeOf(descriptor)' = SizeOf(descriptor)  BY <1>1 DEF SizeOf
  <2> QED  BY <1>13, <2>1, <2>2 DEF Elements
<1>15. ASSUME NEW u \in Threads
       PROVE  Took(u)' = Took(u) /\ Doing(u)' = Doing(u) /\ Popped(u)' = Popped(u)
  <2>1. Took(u)' = Took(u)  BY <1>1, <1>6, Zenon DEF Took
  <2>2. In(u, "pop")' <=> In(u, "pop")  BY <1>2, <1>9 DEF StackInv, Apart
  <2>3. Doing(u)' = Doing(u) /\ Popped(u)' = Popped(u)
    BY <1>1, <1>6, <2>2 DEF Doing, Popped
  <2> QED  BY <2>1, <2>3
<1> QED  BY <1>12, <1>14, <1>15 DEF Stack!vars

-----------------------------------------------------------------------------
(* The swaps *)

\* A push announces its element: it is not on the stack yet.
LEMMA PushSwapsOnStack ==
  ASSUME IInv, IInv', StackInv, Apart', NEW t \in Threads, PushSwaps(t)
  PROVE  StackInv' /\ UNCHANGED Stack!vars
<1> SUFFICES ASSUME NEW last, last = descriptor PROVE StackInv' /\ UNCHANGED Stack!vars
  OBVIOUS
<1> DEFINE size == descs[last].size
           new  == [size |-> size + 1, pending |-> TRUE,
                    new |-> arg[t], old |-> elem[t], location |-> size]
<1>0. /\ TypeOK /\ LoopKnown(t) /\ last \in Nat \ {0} /\ size \in Nat
      /\ cur[t] = last /\ pc[t] = "swap_descriptor" /\ op[t] = "push"
  BY SizeTyped DEF IInv, ThreadInv, TypeOK, SharedTypeOK, PushSwaps, SwapDescriptor
<1>1. /\ \A u \in Threads \ {t} : ThreadStays(u)
      /\ descriptor' = last + 1 /\ UNCHANGED <<cells, op, arg, res>>
      /\ pc'[t] = "write_cell" /\ wd'[t] = last + 1 /\ ret'[t] = "idle"
  BY <1>0 DEF PushSwaps, SwapDescriptor, Goto, ThreadStays, Locals, call, TypeOK, CallTypeOK,
     WorkTypeOK
<1>2. /\ \A d \in 1 .. last : descs'[d] = descs[d]
      /\ descs'[last + 1] = new
  BY <1>0 DEF PushSwaps, SwapDescriptor
<1>3. In(t, "push") /\ PushKnown(t) /\ \A u \in Threads : ~In(u, "pop")
  BY <1>0 DEF In, StackInv, Apart
<1>4. ~Own(t) /\ ~ToWrite(t) /\ Own(t)' /\ ToWrite(t)'
  BY <1>0, <1>1 DEF Own, ToWrite, InWrite
<1>5. ASSUME NEW u \in Threads \ {t}
      PROVE  /\ Own(u)' <=> Own(u)
             /\ ToWrite(u)' <=> ToWrite(u)
             /\ wd'[u] = wd[u] /\ wd[u] \in 1 .. last
  <2>1. UNCHANGED Locals(u)  BY <1>1, <1>5 DEF ThreadStays
  <2> QED  BY <1>0, <2>1 DEF Locals, Own, ToWrite, TypeOK, WorkTypeOK
<1>6. DescsStay /\ CellsStay /\ WritersStay
  <2>1. DescsStay  BY <1>0, <1>1, <1>2 DEF DescsStay
  <2>2. WritersStay  BY <1>4, <1>5 DEF WritersStay
  <2> QED  BY <1>1, <2>1, <2>2 DEF CellsStay
<1>7. GrowthStays
  <2> SUFFICES ASSUME NEW d \in 1 .. last, GrownSince(d),
                      NEW e \in d .. last + 1
               PROVE  descs'[e].size = descs'[d].size + (e - d)
    BY <1>1 DEF GrowthStays, GrownSince
  <2>1. descs'[d].size = descs[d].size /\ descs[d].size \in Nat  BY <1>0, <1>2, SizeTyped
  <2>2. CASE e = last + 1
    <3>1. last \in d .. last  BY <1>0
    <3>2. size = descs[d].size + (last - d)  BY <3>1 DEF GrownSince
    <3> QED  BY <1>0, <1>2, <2>1, <2>2, <3>2
  <2>3. CASE e \in d .. last
    <3>1. descs[e].size = descs[d].size + (e - d)  BY <2>3 DEF GrownSince
    <3> QED  BY <1>0, <1>2, <2>1, <2>3, <3>1
  <2> QED  BY <1>0, <2>2, <2>3
<1>8. OneOwner'
  <2>1. ASSUME NEW d \in 1 .. last + 1, descs'[d].pending
        PROVE  \E u \in Threads : Own(u)' /\ wd'[u] = d
    <3>1. CASE d = last + 1  BY <1>1, <1>4, <3>1
    <3>2. CASE d \in 1 .. last
      <4>1. descs[d].pending  BY <1>2, <2>1, <3>2
      <4>2. PICK u \in Threads : Own(u) /\ wd[u] = d
        BY <3>2, <4>1 DEF StackInv, OneOwner
      <4>3. u # t  BY <1>4, <4>2
      <4> QED  BY <1>5, <4>2, <4>3
    <3> QED  BY <1>0, <3>1, <3>2
  <2>2. ASSUME NEW v \in Threads, NEW u \in Threads, Own(v)', Own(u)', wd'[v] = wd'[u]
        PROVE  v = u
    <3>1. CASE v # t /\ u # t  BY <1>5, <2>2, <3>1 DEF StackInv, OneOwner
    <3>2. CASE v = t /\ u # t  BY <1>0, <1>1, <1>5, <2>2, <3>2
    <3>3. CASE v # t /\ u = t  BY <1>0, <1>1, <1>5, <2>2, <3>3
    <3> QED  BY <3>1, <3>2, <3>3
  <2> QED  BY <1>1, <2>1, <2>2 DEF OneOwner
<1>9. PushKnown(t)'
  <2>1. GrownSince(last + 1)'
    <3>1. \A e \in last + 1 .. last + 1 : e = last + 1 /\ e - (last + 1) = 0  BY <1>0
    <3> QED  BY <1>0, <1>1, <1>2, <3>1 DEF GrownSince
  <2>2. Held(t)' = last + 1  BY <1>1 DEF Held, InWrite
  <2>3. GrownSince(Held(t))'  BY <2>1, <2>2 DEF GrownSince
  <2>4. elem[t] = cells[size]  BY <1>0, <1>3 DEF PushKnown
  <2> QED  BY <1>1, <1>2, <1>4, <2>3, <2>4 DEF PushKnown
<1>10. StackInv'
  <2>1. ~In(t, "pop")'  BY <1>0, <1>1 DEF In
  <2> QED  BY <1>1, <1>3, <1>6, <1>7, <1>8, <1>9, <2>1, StackStays
<1>11. Elements' = Elements
  <2>1. SizeOf(descriptor)' = SizeOf(descriptor)
    <3>1. ~descs[last].pending  BY <1>0 DEF LoopKnown, InLoop
    <3>2. SizeOf(descriptor) = size  BY <3>1 DEF SizeOf
    <3>3. SizeOf(descriptor)' = (size + 1) - 1  BY <1>1, <1>2 DEF SizeOf
    <3> QED  BY <1>0, <3>2, <3>3
  <2>2. ASSUME NEW i \in 1 .. SizeOf(descriptor)  PROVE Element(i - 1)' = Element(i - 1)
    <3>1. i - 1 # size  BY <1>0, Indices
    <3>2. ASSUME NEW u \in Threads
          PROVE  Writes(u, i - 1)' <=> Writes(u, i - 1)
      <4>1. CASE u = t  BY <1>1, <1>2, <1>4, <3>1, <4>1 DEF Writes
      <4>2. CASE u # t  BY <1>2, <1>5, <4>2 DEF Writes
      <4> QED  BY <4>1, <4>2
    <3> QED  BY <1>1, <3>2, ElementStays
  <2> QED  BY <2>1, <2>2 DEF Elements
<1>12. ASSUME NEW u \in Threads
       PROVE  Took(u)' = Took(u) /\ Doing(u)' = Doing(u) /\ Popped(u)' = Popped(u)
  <2>1. CASE u = t
    <3>1. Took(t) = FALSE /\ Took(t)' = FALSE  BY <1>1, <1>2, <1>4 DEF Took
    <3>2. Doing(t)' = Doing(t) /\ Popped(t)' = Popped(t)
      BY <1>0, <1>1 DEF Doing, Popped, In
    <3> QED  BY <2>1, <3>1, <3>2
  <2>2. CASE u # t
    <3>1. descs'[wd'[u]].pending = descs[wd[u]].pending  BY <1>2, <1>5, <2>2
    <3>2. Took(u)' = Took(u)  BY <1>5, <2>2, <3>1, Zenon DEF Took
    <3>3. Doing(u)' = Doing(u) /\ Popped(u)' = Popped(u)
      BY <1>1, <2>2 DEF ThreadStays, Locals, Doing, Popped, In
    <3> QED  BY <3>2, <3>3
  <2> QED  BY <2>1, <2>2
<1> QED  BY <1>10, <1>11, <1>12 DEF Stack!vars

-----------------------------------------------------------------------------
(* The sequence *)

LEMMA SequenceTyped ==
  ASSUME NEW n \in Nat, NEW S, NEW s \in [1 .. n -> S]
  PROVE  s \in Seq(S) /\ Len(s) = n
OBVIOUS

LEMMA SequenceOf ==
  ASSUME NEW n \in Nat, NEW s, s = [i \in 1 .. n |-> s[i]]
  PROVE  \E S : s \in Seq(S) /\ Len(s) = n
<1> DEFINE S == {s[i] : i \in 1 .. n}
<1>1. s \in [1 .. n -> S]  OBVIOUS
<1>2. s \in Seq(S) /\ Len(s) = n  BY <1>1
<1> QED  BY <1>2

LEMMA FrontAndLast ==
  ASSUME NEW n \in Nat \ {0}, NEW s, s = [i \in 1 .. n |-> s[i]],
         NEW r, r = [i \in 1 .. n - 1 |-> s[i]]
  PROVE  s # <<>> /\ Stack!Last(s) = s[n] /\ Stack!Front(s) = r
<1>1. PICK S : s \in Seq(S) /\ Len(s) = n  BY SequenceOf
<1>2. s # <<>>  BY <1>1, EmptySeq
<1>3. Stack!Last(s) = s[n]  BY <1>1 DEF Stack!Last
<1>4. Stack!Front(s) = r
  <2>1. Stack!Front(s) = SubSeq(s, 1, n - 1)  BY <1>1 DEF Stack!Front
  <2>2. \A i \in 1 .. n - 1 : s[i] \in S  BY <1>1, ElementOfSeq
  <2>3. /\ SubSeq(s, 1, n - 1) \in Seq(S) /\ Len(SubSeq(s, 1, n - 1)) = n - 1
        /\ \A i \in 1 .. n - 1 : SubSeq(s, 1, n - 1)[i] = s[i]
    <3>0. 1 \in Int /\ n - 1 \in Int /\ (n - 1) - 1 + 1 = n - 1  OBVIOUS
    <3>1. SubSeq(s, 1, n - 1) \in Seq(S)  BY <2>2, <3>0, SubSeqProperties
    <3>2. Len(SubSeq(s, 1, n - 1)) = IF 1 <= n - 1 THEN (n - 1) - 1 + 1 ELSE 0
      BY <2>2, <3>0, SubSeqProperties
    <3>3. \A i \in 1 .. (n - 1) - 1 + 1 : SubSeq(s, 1, n - 1)[i] = s[1 + i - 1]
      BY <2>2, <3>0, SubSeqProperties
    <3>4. \A i \in 1 .. n - 1 : 1 + i - 1 = i  OBVIOUS
    <3>5. Len(SubSeq(s, 1, n - 1)) = n - 1  BY <3>0, <3>2
    <3> QED  BY <3>0, <3>1, <3>3, <3>4, <3>5
  <2>4. r \in Seq(S) /\ Len(r) = n - 1
    <3>1. r \in [1 .. n - 1 -> S]  BY <2>2
    <3>2. n - 1 \in Nat  OBVIOUS
    <3> QED  BY <3>1, <3>2, SequenceTyped
  <2>5. \A i \in 1 .. n - 1 : r[i] = s[i]  OBVIOUS
  <2> QED  BY <2>1, <2>3, <2>4, <2>5, SeqEqual
<1> QED  BY <1>2, <1>3, <1>4

\* One element more, or none.
LEMMA Appends ==
  ASSUME NEW n \in Nat, NEW s, s = [i \in 1 .. n |-> s[i]], NEW v,
         NEW r, r = [i \in 1 .. n + 1 |-> IF i = n + 1 THEN v ELSE s[i]]
  PROVE  r = s \o Stack!SetToSeq({v})
<1> DEFINE S == {s[i] : i \in 1 .. n} \cup {v}
           one == Stack!SetToSeq({v})
<1>1. s \in Seq(S) /\ Len(s) = n
  <2>1. s \in [1 .. n -> S]  OBVIOUS
  <2> QED  BY <2>1, SequenceTyped
<1>2. one \in Seq(S) /\ Len(one) = 1 /\ one[1] = v
  <2>1. Stack!Cardinality({v}) = 1
    <3>1. Stack!Cardinality({v}) = Cardinality({v})  BY DEF Stack!Cardinality, Cardinality
    <3> QED  BY <3>1, FS_Singleton
  <2>2. Stack!IsInjective([i \in 1 .. 1 |-> v])  BY DEF Stack!IsInjective
  <2>3. one \in [1 .. 1 -> {v}]
    BY <2>1, <2>2 DEF Stack!SetToSeq
  <2>4. one \in [1 .. 1 -> S] /\ one[1] = v  BY <2>3
  <2> HIDE DEF one, S
  <2> QED  BY <2>4, SequenceTyped
<1> HIDE DEF one, S
<1>3. r \in Seq(S) /\ Len(r) = n + 1
  <2>1. \A i \in 1 .. n : s[i] \in S  BY <1>1, ElementOfSeq
  <2>2. v \in S  BY DEF S
  <2>3. r \in [1 .. n + 1 -> S]
    <3> SUFFICES ASSUME NEW i \in 1 .. n + 1
                 PROVE  (IF i = n + 1 THEN v ELSE s[i]) \in S
      OBVIOUS
    <3>1. i = n + 1 \/ i \in 1 .. n  OBVIOUS
    <3> QED  BY <2>1, <2>2, <3>1
  <2>4. n + 1 \in Nat  OBVIOUS
  <2> QED  BY <2>3, <2>4, SequenceTyped
<1>4. /\ s \o one \in Seq(S) /\ Len(s \o one) = n + 1
      /\ \A i \in 1 .. n + 1 : (s \o one)[i] = IF i <= n THEN s[i] ELSE one[i - n]
  <2>1. /\ s \o one \in Seq(S) /\ Len(s \o one) = Len(s) + Len(one)
        /\ \A i \in 1 .. Len(s) + Len(one) :
             (s \o one)[i] = IF i <= Len(s) THEN s[i] ELSE one[i - Len(s)]
    BY <1>1, <1>2, ConcatProperties
  <2> QED  BY <1>1, <1>2, <2>1
<1>5. ASSUME NEW i \in 1 .. n + 1  PROVE r[i] = (s \o one)[i]
  <2>1. CASE i = n + 1
    <3>1. i - n = 1 /\ ~(i <= n)  BY <2>1
    <3> QED  BY <1>2, <1>4, <2>1, <3>1
  <2>2. CASE i \in 1 .. n
    <3>1. i <= n /\ i # n + 1  BY <2>2
    <3>2. (s \o one)[i] = s[i]  BY <1>4, <3>1
    <3>3. r[i] = s[i]  BY <3>1
    <3> QED  BY <3>2, <3>3, Zenon
  <2>3. i = n + 1 \/ i \in 1 .. n  OBVIOUS
  <2> QED  BY <2>1, <2>2, <2>3
<1>6. r = s \o one  BY <1>3, <1>4, <1>5, SeqEqual
<1> QED  BY <1>6 DEF one

LEMMA AppendsNothing ==
  ASSUME NEW n \in Nat, NEW s, s = [i \in 1 .. n |-> s[i]]
  PROVE  s = s \o Stack!SetToSeq({})
<1>1. PICK S : s \in Seq(S) /\ Len(s) = n  BY SequenceOf
<1>2. Stack!Cardinality({}) = 0
  <2>1. Stack!Cardinality({}) = Cardinality({})  BY DEF Stack!Cardinality, Cardinality
  <2> QED  BY <2>1, FS_EmptySet
<1>3. Stack!IsInjective([i \in 1 .. 0 |-> i])  BY DEF Stack!IsInjective
<1>4. [i \in 1 .. 0 |-> i] \in [1 .. 0 -> {}]  OBVIOUS
<1>5. Stack!SetToSeq({}) \in [1 .. 0 -> {}]
  BY <1>2, <1>3, <1>4 DEF Stack!SetToSeq
<1>6. Stack!SetToSeq({}) = <<>>
  <2>1. Stack!SetToSeq({}) \in Seq({}) /\ Len(Stack!SetToSeq({})) = 0
    BY <1>5, SequenceTyped
  <2> QED  BY <2>1, EmptySeq
<1> QED  BY <1>1, <1>6, ConcatEmptySeq

-----------------------------------------------------------------------------
(* The pops *)

\* While a pop is in progress, what the cells hold is all there is.
LEMMA PopSees ==
  ASSUME IInv, StackInv, NEW t \in Threads, In(t, "pop")
  PROVE  /\ \A u \in Threads : ~In(u, "push") /\ ~Own(u) /\ ~ToWrite(u)
         /\ \A i : Element(i) = cells[i]
         /\ \A d \in 1 .. descriptor : ~descs[d].pending
         /\ SizeOf(descriptor) = descs[descriptor].size
<1>1. \A u \in Threads : ~In(u, "push")  BY DEF StackInv, Apart
<1>2. \A u \in Threads : ~Own(u) /\ ~ToWrite(u)
  BY <1>1 DEF Own, ToWrite, In, InWrite
<1>3. ASSUME NEW i  PROVE Element(i) = cells[i]
  BY <1>2, ElementIs DEF IsElement, Writes
<1>4. \A d \in 1 .. descriptor : ~descs[d].pending
  BY <1>2 DEF StackInv, OneOwner
<1>5. descriptor \in 1 .. descriptor  BY DEF IInv, TypeOK, SharedTypeOK
<1>6. SizeOf(descriptor) = descs[descriptor].size  BY <1>4, <1>5 DEF SizeOf
<1> QED  BY <1>1, <1>2, <1>3, <1>4, <1>6

\* What the stack sees of a pop that returns v.
LEMMA PopReturns ==
  ASSUME StackInv, NEW t \in Threads, In(t, "pop"), ~In(t, "push"), NEW v,
         pc'[t] = "idle", op'[t] = "pop", res'[t] = v,
         \A u \in Threads \ {t} : Doing(u)' = Doing(u) /\ Popped(u)' = Popped(u),
         \A u \in Threads : Took(u)' = Took(u),
         IF Elements = <<>>
         THEN v = None /\ Elements' = Elements
         ELSE v = Stack!Last(Elements) /\ Elements' = Stack!Front(Elements)
  PROVE  Stack!Next
<1> DEFINE doing == [u \in Threads |-> Doing(u)]
           told  == [u \in Threads |-> Popped(u)]
<1>1. doing[t] = Stack!Pop  BY DEF Doing, Stack!Pop
<1>2. Doing(t)' = Stack!Idle /\ Popped(t)' = v
  BY DEF Doing, Popped, In, Stack!Idle
<1>3. doing' = [doing EXCEPT ![t] = Stack!Idle]  BY <1>2, Zenon
<1>4. told' = [told EXCEPT ![t] = v]  BY <1>2, Zenon
<1>5. UNCHANGED [u \in Threads |-> Took(u)]  BY Zenon
<1>6. Stack!Pops(t)
  <2>1. CASE Elements = <<>>
    <3>1. v = None /\ Elements' = Elements  BY <2>1
    <3> QED  BY <1>1, <1>3, <1>4, <1>5, <2>1, <3>1, Zenon DEF Stack!Pops
  <2>2. CASE Elements # <<>>
    <3>1. v = Stack!Last(Elements) /\ Elements' = Stack!Front(Elements)  BY <2>2
    <3> QED  BY <1>1, <1>3, <1>4, <1>5, <2>2, <3>1, Zenon DEF Stack!Pops
  <2> QED  BY <2>1, <2>2
<1> QED  BY <1>6 DEF Stack!Next

\* A pop that finds nothing: pops only shrink the vector, so it is still empty.
LEMMA PopEmptyOnStack ==
  ASSUME IInv, IInv', StackInv, Apart', NEW t \in Threads, PopEmpty(t)
  PROVE  StackInv' /\ Stack!Next
<1>0. TypeOK /\ descs[descriptor].size \in Nat  BY SizeTyped DEF IInv
<1>1. /\ UNCHANGED <<descriptor, descs, op, arg>> /\ CellsStay
      /\ \A u \in Threads \ {t} : ThreadStays(u)
      /\ pc[t] = "read_elem" /\ pc'[t] = "idle" /\ op[t] = "pop" /\ res'[t] = None
      /\ descs[cur[t]].size = 0
  BY <1>0 DEF PopEmpty, Return, EndOfScope, Goto, ThreadStays, Locals, shared, CellsStay,
     TypeOK, CallTypeOK, WorkTypeOK
<1>2. /\ In(t, "pop") /\ ~In(t, "push") /\ ~In(t, "push")' /\ ~In(t, "pop")'
      /\ ~Own(t) /\ ~Own(t)' /\ ~ToWrite(t) /\ ~ToWrite(t)'
  BY <1>1 DEF In, Own, ToWrite
<1>3. /\ StackInv' /\ Elements' = Elements
      /\ \A u \in Threads : Took(u)' = Took(u)
      /\ \A u \in Threads \ {t} : Doing(u)' = Doing(u) /\ Popped(u)' = Popped(u)
  BY <1>1, <1>2, QuietStep
<1>4. Elements = <<>>
  <2>1. descs[descriptor].size <= 0  BY <1>1, <1>2 DEF StackInv, PopKnown
  <2>2. SizeOf(descriptor) = 0  BY <1>0, <1>2, <2>1, PopSees
  <2>3. PICK S : Elements \in Seq(S) /\ Len(Elements) = 0
    <3>1. Elements = [i \in 1 .. 0 |-> Elements[i]]  BY <2>2 DEF Elements
    <3> QED  BY <3>1, SequenceOf
  <2> QED  BY <2>3, EmptySeq
<1> QED  BY <1>1, <1>2, <1>3, <1>4, PopReturns

LEMMA PopSwapsOnStack ==
  ASSUME IInv, IInv', StackInv, Apart', NEW t \in Threads, PopSwaps(t)
  PROVE  StackInv' /\ Stack!Next
<1> SUFFICES ASSUME NEW last, last = descriptor PROVE StackInv' /\ Stack!Next
  OBVIOUS
<1> DEFINE size == descs[last].size
<1>0. /\ TypeOK /\ LoopKnown(t) /\ last \in Nat \ {0} /\ size \in Nat \ {0}
      /\ cur[t] = last /\ pc[t] = "swap_descriptor" /\ op[t] = "pop"
  BY SizeTyped
  DEF IInv, ThreadInv, TypeOK, SharedTypeOK, PopSwaps, SwapDescriptor, LoopKnown
<1>1. /\ \A u \in Threads \ {t} : ThreadStays(u)
      /\ descriptor' = last + 1 /\ UNCHANGED <<cells, op, arg>>
      /\ pc'[t] = "idle" /\ res'[t] = elem[t]
  BY <1>0 DEF PopSwaps, SwapDescriptor, Return, EndOfScope, Goto, ThreadStays, Locals, call,
     TypeOK, CallTypeOK, WorkTypeOK
<1>2. /\ \A d \in 1 .. last : descs'[d] = descs[d]
      /\ descs'[last + 1].size = size - 1 /\ descs'[last + 1].pending = FALSE
  BY <1>0 DEF PopSwaps, SwapDescriptor, NoWrite
<1>3. /\ In(t, "pop") /\ ~In(t, "push") /\ ~In(t, "push")' /\ ~In(t, "pop")'
      /\ ~Own(t)' /\ ~ToWrite(t)'
  BY <1>0, <1>1 DEF In, Own, ToWrite
<1>4. /\ \A u \in Threads : ~In(u, "push") /\ ~Own(u) /\ ~ToWrite(u)
      /\ \A i : Element(i) = cells[i]
      /\ \A d \in 1 .. descriptor : ~descs[d].pending
      /\ SizeOf(descriptor) = size
  BY <1>3, PopSees
<1>5. ASSUME NEW u \in Threads  PROVE ~Own(u)' /\ ~ToWrite(u)'
  <2>1. CASE u = t  BY <1>3, <2>1
  <2>2. CASE u # t
    <3>1. UNCHANGED Locals(u)  BY <1>1, <2>2 DEF ThreadStays
    <3> QED  BY <1>4, <3>1 DEF Locals, Own, ToWrite
  <2> QED  BY <2>1, <2>2
<1>6. \A d \in 1 .. descriptor' : ~descs'[d].pending
  <2>1. \A d \in 1 .. last + 1 : d = last + 1 \/ d \in 1 .. last  BY <1>0
  <2> QED  BY <1>1, <1>2, <1>4, <2>1
<1>7. OneOwner'  BY <1>5, <1>6 DEF OneOwner
<1>8. StackInv'
  <2>1. DescsStay /\ SizeShrinks
    BY <1>0, <1>1, <1>2 DEF DescsStay, SizeShrinks
  <2>2. CellsStay /\ WritersStay  BY <1>1, <1>4 DEF CellsStay, WritersStay
  <2> QED  BY <1>1, <1>3, <1>4, <1>7, <2>1, <2>2, StackStays
<1>9. \A i : Element(i)' = cells[i]
  <2> SUFFICES ASSUME NEW i PROVE IsElement(i, cells[i])'
    BY <1>1, IsTheElement
  <2> QED  BY <1>1, <1>5 DEF IsElement, Writes
<1>10. SizeOf(descriptor)' = size - 1  BY <1>1, <1>2 DEF SizeOf
<1>11. /\ Elements # <<>> /\ Stack!Last(Elements) = elem[t]
       /\ Stack!Front(Elements) = Elements'
  <2>1. elem[t] = cells[size - 1]  BY <1>0, <1>3 DEF StackInv, PopKnown
  <2>2. Elements = [i \in 1 .. size |-> cells[i - 1]]  BY <1>4 DEF Elements
  <2>3. Elements' = [i \in 1 .. size - 1 |-> cells[i - 1]]  BY <1>9, <1>10 DEF Elements
  <2>4. Elements = [i \in 1 .. size |-> Elements[i]]  BY <2>2
  <2>5. Elements' = [i \in 1 .. size - 1 |-> Elements[i]]
    <3>1. \A i \in 1 .. size - 1 : i \in 1 .. size  BY <1>0
    <3> QED  BY <2>2, <2>3, <3>1
  <2>6. Elements[size] = elem[t]  BY <1>0, <2>1, <2>2
  <2> QED  BY <1>0, <2>4, <2>5, <2>6, FrontAndLast
<1>12. \A u \in Threads : Took(u)' = Took(u)  BY <1>4, <1>5, Zenon DEF Took
<1>13. \A u \in Threads \ {t} : Doing(u)' = Doing(u) /\ Popped(u)' = Popped(u)
  BY <1>1 DEF ThreadStays, Locals, Doing, Popped, In
<1> QED  BY <1>0, <1>1, <1>3, <1>8, <1>11, <1>12, <1>13, PopReturns

-----------------------------------------------------------------------------
(* The pushes take effect *)

LEMMA PushesOnStack ==
  ASSUME NEW effect, NEW return,
         effect = {} \/ \E u \in Threads : In(u, "push") /\ effect = {u},
         return = {} \/ \E u \in Threads : In(u, "push") /\ return = {u},
         \A t \in effect : ~Took(t),
         \A t \in return : Took(t) \/ t \in effect,
         Elements' = Elements \o Stack!SetToSeq({Doing(t).value : t \in effect}),
         \A t \in Threads : Doing(t)' = IF t \in return THEN Stack!Idle ELSE Doing(t),
         \A t \in Threads : Took(t)' = ((Took(t) \/ t \in effect) /\ t \notin return),
         \A t \in Threads : Popped(t)' = Popped(t)
  PROVE  Stack!Pushes
<1> DEFINE P == {t \in Threads : [u \in Threads |-> Doing(u)][t].method = "push"}
<1>1. effect \in Stack!AtMostOne(P) /\ return \in Stack!AtMostOne(P)
  <2>1. \A u \in Threads : In(u, "push") => u \in P  BY DEF Doing, In
  <2> HIDE DEF P
  <2> QED  BY <2>1 DEF Stack!AtMostOne
<1>2. effect \subseteq Threads /\ return \subseteq Threads  OBVIOUS
<1>3. /\ \A t \in effect : ~[u \in Threads |-> Took(u)][t]
      /\ \A t \in return : [u \in Threads |-> Took(u)][t] \/ t \in effect
  BY <1>2, Zenon
<1>4. {Doing(t).value : t \in effect} = {[u \in Threads |-> Doing(u)][t].value : t \in effect}
  BY <1>2, Zenon
<1>5. [t \in Threads |-> Doing(t)]' = [t \in Threads |->
        IF t \in return THEN Stack!Idle ELSE [u \in Threads |-> Doing(u)][t]]
  BY Zenon
<1>6. [t \in Threads |-> Took(t)]' = [t \in Threads |->
        ([u \in Threads |-> Took(u)][t] \/ t \in effect) /\ t \notin return]
  BY Zenon
<1>7. [t \in Threads |-> Popped(t)]' = [t \in Threads |-> Popped(t)]  BY Zenon
<1> QED  BY <1>1, <1>3, <1>4, <1>5, <1>6, <1>7, Zenon DEF Stack!Pushes

\* complete_write clears a pending write, if it still is one: then the element
\* of its owner is on top of the stack, in its cell or about to be written.
LEMMA ClearOnStack ==
  ASSUME IInv, IInv', StackInv, Apart', NEW t \in Threads, ClearPending(t)
  PROVE  StackInv' /\ Stack!Next
<1> SUFFICES ASSUME NEW x, x = target[t] PROVE StackInv' /\ Stack!Next
  OBVIOUS
<1>0. /\ TypeOK /\ ReplacedCleared /\ PendingIsLast /\ OneOwner /\ WriteKnown(t)
      /\ x \in 1 .. descriptor /\ wd[t] \in 1 .. descriptor /\ cur[t] \in 1 .. descriptor
      /\ descriptor \in Nat \ {0}
  BY DEF IInv, SharedInv, ThreadInv, StackInv, TypeOK, SharedTypeOK, WorkTypeOK
<1>1. /\ pc[t] = "clear_pending" /\ pc[t] \in InWrite /\ wd[t] <= x
      /\ op[t] \in {"push", "pop"} /\ In(t, op[t])
  BY <1>0 DEF ClearPending, WriteKnown, InWrite, In
<1>2. In(t, "push") /\ op[t] = "push" /\ PushKnown(t) /\ \A u \in Threads : ~In(u, "pop")
  BY <1>1 DEF StackInv, Apart, PopKnown, In
<1>3. /\ \A u \in Threads \ {t} : ThreadStays(u)
      /\ UNCHANGED <<descriptor, cells, op, arg>>
      /\ ret[t] = "idle" => pc'[t] = "idle"
      /\ ret[t] # "idle" => /\ wd[t] = cur[t] /\ pc'[t] = "check_bucket" /\ cur'[t] = cur[t]
  <2>1. /\ UNCHANGED <<descriptor, cells>> /\ op[t] = "push"
        /\ ret[t] # "idle" => ret[t] = "check_bucket" /\ wd[t] = cur[t]
    BY <1>0, <1>1, <1>2 DEF ClearPending, WriteKnown, AfterHelping
  <2>2. CASE ret[t] = "idle"
    BY <1>0, <2>1, <2>2 DEF ClearPending, Return, EndOfScope, Goto, ThreadStays, Locals,
       TypeOK, CallTypeOK, WorkTypeOK
  <2>3. CASE ret[t] # "idle"
    BY <1>0, <2>1, <2>3 DEF ClearPending, Goto, ThreadStays, Locals, call, TypeOK,
       CallTypeOK, WorkTypeOK
  <2> QED  BY <2>2, <2>3
<1>4. \A d \in 1 .. descriptor :
        /\ descs'[d].size = descs[d].size /\ descs[d].size \in Nat
        /\ descs'[d].location = descs[d].location
        /\ descs'[d].new = descs[d].new /\ descs'[d].old = descs[d].old
        /\ descs'[d].pending <=> d # x /\ descs[d].pending
  <2>1. descs' = [descs EXCEPT ![x].pending = FALSE]  BY DEF ClearPending
  <2>2. descs \in [1 .. descriptor -> Desc]  BY <1>0 DEF TypeOK, SharedTypeOK
  <2> HIDE <1>0
  <2> SUFFICES ASSUME NEW d \in 1 .. descriptor
               PROVE  /\ descs'[d].size = descs[d].size /\ descs[d].size \in Nat
                      /\ descs'[d].location = descs[d].location
                      /\ descs'[d].new = descs[d].new /\ descs'[d].old = descs[d].old
                      /\ descs'[d].pending <=> d # x /\ descs[d].pending
    OBVIOUS
  <2>3. descs[d] \in Desc  BY <2>2
  <2>4. CASE d # x
    <3>1. descs'[d] = descs[d]  BY <2>1, <2>2, <2>4
    <3> QED  BY <2>3, <2>4, <3>1 DEF Desc
  <2>5. CASE d = x
    <3>1. descs'[d] = [descs[d] EXCEPT !.pending = FALSE]  BY <2>1, <2>2, <2>5
    <3> QED  BY <2>3, <2>5, <3>1 DEF Desc
  <2> QED  BY <2>4, <2>5
<1>5. descs[x].pending => x = descriptor  BY <1>0 DEF ReplacedCleared
<1>6. wd[t] < x => ~descs[wd[t]].pending  BY <1>0 DEF ReplacedCleared
<1>7. /\ ~Own(t)' /\ ~ToWrite(t) /\ ~ToWrite(t)' /\ pc'[t] \notin InWrite
      /\ Own(t) <=> ret[t] = "idle"
  BY <1>1, <1>2, <1>3 DEF Own, ToWrite, InWrite
<1>8. ASSUME NEW u \in Threads \ {t}
      PROVE  /\ Own(u)' <=> Own(u)
             /\ ToWrite(u)' <=> ToWrite(u)
             /\ wd'[u] = wd[u]
  <2>1. UNCHANGED Locals(u)  BY <1>3 DEF ThreadStays
  <2> QED  BY <2>1 DEF Locals, Own, ToWrite
<1>9. OneOwner'
  <2>1. ~descs'[wd[t]].pending
    <3>1. CASE wd[t] = x  BY <1>0, <1>4, <3>1
    <3>2. CASE wd[t] < x  BY <1>0, <1>4, <1>6, <3>2
    <3> QED  BY <1>0, <1>1, <3>1, <3>2
  <2>2. OwnersStay  BY <1>3, <1>4, <1>7, <1>8, <2>1 DEF OwnersStay
  <2> QED  BY <1>0, <2>2, OwnersKeep
<1>10. StackInv'
  <2>1. DescsStay  BY <1>0, <1>3, <1>4 DEF DescsStay
  <2>2. GrowthStays
    <3> SUFFICES ASSUME NEW d \in 1 .. descriptor, GrownSince(d) PROVE GrownSince(d)'
      BY DEF GrowthStays
    <3>1. \A e \in d .. descriptor : e \in 1 .. descriptor  BY <1>0
    <3> QED  BY <1>3, <1>4, <3>1 DEF GrownSince
  <2>3. CellsStay /\ WritersStay  BY <1>3, <1>7, <1>8 DEF CellsStay, WritersStay
  <2>4. In(t, "push")' => PushKnown(t)'
    <3> SUFFICES ASSUME In(t, "push")' PROVE PushKnown(t)'
      OBVIOUS
    <3>1. ret[t] # "idle"  BY <1>3 DEF In
    <3>2. GrownSince(cur[t])  BY <1>1, <1>2, <1>3, <3>1 DEF PushKnown, Held, InWrite
    <3>3. GrownSince(Held(t))'
      <4>1. GrownSince(cur[t])'  BY <1>0, <1>3, <2>2, <3>1, <3>2 DEF GrowthStays, GrownSince
      <4>2. Held(t)' = cur[t] /\ cur'[t] = cur[t]  BY <1>3, <1>7, <3>1 DEF Held
      <4> QED  BY <4>1, <4>2 DEF GrownSince
    <3>4. pc'[t] # "write_cell" /\ pc'[t] # "swap_descriptor"  BY <1>3, <3>1
    <3> QED  BY <1>7, <3>3, <3>4 DEF PushKnown
  <2>5. ~In(t, "pop")'  BY <1>2, <1>3 DEF In
  <2> QED  BY <1>2, <1>3, <1>9, <2>1, <2>2, <2>3, <2>4, <2>5, StackStays
<1>11. \A u \in Threads : ToWrite(u)' <=> ToWrite(u)  BY <1>7, <1>8
<1>12. ASSUME NEW u \in Threads, ToWrite(u)  PROVE descs'[wd'[u]].location = descs[wd[u]].location
  <2>1. u # t /\ wd[u] \in 1 .. descriptor  BY <1>0, <1>7, <1>12 DEF TypeOK, WorkTypeOK
  <2> QED  BY <1>4, <1>8, <2>1
<1>13. \A u \in Threads : \A i : Writes(u, i)' <=> Writes(u, i)
  BY <1>11, <1>12 DEF Writes
<1>14. \A i : Element(i)' = Element(i)  BY <1>3, <1>13, ElementStays
<1>15. Stack!Pushes
  <2> SUFFICES ASSUME NEW effect, NEW return,
                 effect = {u \in Threads : Own(u) /\ wd[u] = x /\ descs[x].pending},
                 return = {u \in Threads : u = t /\ Own(t)}
               PROVE  Stack!Pushes
    OBVIOUS
  <2>1. \A u \in Threads : Own(u) => In(u, "push") /\ pc[u] \in InWrite
    BY DEF Own, In, InWrite
  <2>2. effect = {} \/ \E u \in Threads : In(u, "push") /\ effect = {u}
    <3>1. CASE effect # {}
      <4>1. PICK u : u \in effect  BY <3>1
      <4>2. u \in Threads /\ Own(u) /\ effect = {u}
        BY <1>0, <4>1 DEF OneOwner
      <4> QED  BY <2>1, <4>2
    <3> QED  BY <3>1
  <2>3. return = {} \/ \E u \in Threads : In(u, "push") /\ return = {u}
    BY <2>1
  <2>4. Elements' = Elements \o Stack!SetToSeq({Doing(u).value : u \in effect})
    <3>0. SizeOf(descriptor) \in Nat  BY Indices
    <3>1. CASE descs[x].pending
      <4>1. PICK u \in Threads : Own(u) /\ wd[u] = x
        BY <1>0, <3>1 DEF OneOwner
      <4>2. In(u, "push") /\ pc[u] \in InWrite /\ PushKnown(u)
        BY <2>1, <4>1 DEF StackInv
      <4>3. effect = {u}  BY <2>2, <3>1, <4>1
      <4>4. {Doing(v).value : v \in effect} = {arg[u]}
        <5>1. Doing(u).value = arg[u]  BY <4>2 DEF Doing, In
        <5> QED  BY <4>3, <5>1
      <4>5. /\ x = descriptor /\ descs[x].size \in Nat /\ descs[x].size > 0
            /\ descs[x].location = descs[x].size - 1
        BY <1>0, <1>4, <1>5, <3>1 DEF PendingIsLast
      <4> DEFINE n == descs[x].size - 1
      <4>6. n \in Nat /\ SizeOf(descriptor) = n /\ SizeOf(descriptor)' = n + 1
        BY <1>0, <1>3, <1>4, <3>1, <4>5 DEF SizeOf
      <4>7. Element(n) = arg[u]
        <5>1. IsElement(n, Element(n))  BY ElementIs
        <5>2. CASE ToWrite(u)  BY <4>1, <4>5, <5>1, <5>2 DEF IsElement, Writes
        <5>3. CASE ~ToWrite(u)
          <6>1. cells[n] = arg[u]  BY <4>1, <4>2, <4>5, <5>3 DEF PushKnown
          <6>2. ASSUME NEW v \in Threads, Writes(v, n)  PROVE FALSE
            <7>1. Own(v) /\ ToWrite(v) /\ descs[wd[v]].location = n
              BY <6>2 DEF Writes, ToWrite
            <7>2. In(v, "push") /\ pc[v] \in InWrite /\ PushKnown(v)
              BY <2>1, <7>1 DEF StackInv
            <7>3. wd[v] = wd[u]  BY <4>1, <4>2, <4>5, <7>1, <7>2, SameWrite
            <7> QED  BY <1>0, <4>1, <5>3, <7>1, <7>3 DEF OneOwner
          <6> QED  BY <5>1, <6>1, <6>2 DEF IsElement
        <5> QED  BY <5>2, <5>3
      <4> HIDE DEF n
      <4>8. Elements = [i \in 1 .. n |-> Elements[i]]  BY <4>6 DEF Elements
      <4>9. Elements' = [i \in 1 .. n + 1 |-> IF i = n + 1 THEN arg[u] ELSE Elements[i]]
        <5>1. Elements' = [i \in 1 .. n + 1 |-> Element(i - 1)]
          BY <1>14, <4>6 DEF Elements
        <5>2. ASSUME NEW i \in 1 .. n + 1
              PROVE  Element(i - 1) = IF i = n + 1 THEN arg[u] ELSE Elements[i]
          <6>1. CASE i = n + 1
            <7>1. i - 1 = n  BY <4>6, <6>1
            <7> QED  BY <4>7, <6>1, <7>1
          <6>2. CASE i \in 1 .. n
            <7>1. i # n + 1  BY <4>6, <6>2
            <7> QED  BY <4>6, <6>2, <7>1 DEF Elements
          <6>3. i = n + 1 \/ i \in 1 .. n  BY <4>6
          <6> QED  BY <6>1, <6>2, <6>3
        <5> QED  BY <5>1, <5>2
      <4>10. Elements' = Elements \o Stack!SetToSeq({arg[u]})
        BY <4>6, <4>8, <4>9, Appends
      <4> QED  BY <4>4, <4>10, Zenon
    <3>2. CASE ~descs[x].pending
      <4>1. {Doing(u).value : u \in effect} = {}  BY <3>2
      <4>2. descriptor \in 1 .. descriptor  BY <1>0
      <4>3. SizeOf(descriptor)' = SizeOf(descriptor)
        BY <1>3, <1>4, <3>2, <4>2 DEF SizeOf
      <4>4. Elements' = Elements  BY <1>14, <4>3 DEF Elements
      <4>5. Elements = [i \in 1 .. SizeOf(descriptor) |-> Elements[i]]  BY DEF Elements
      <4> QED  BY <3>0, <4>1, <4>4, <4>5, AppendsNothing
    <3> QED  BY <3>1, <3>2
  <2>5. \A u \in effect : ~Took(u)  BY DEF Took
  <2>6. \A u \in return : Took(u) \/ u \in effect
    <3> SUFFICES ASSUME Own(t) PROVE Took(t) \/ t \in effect
      OBVIOUS
    <3>1. CASE wd[t] = x  BY <3>1 DEF Took
    <3>2. CASE wd[t] < x  BY <1>6, <3>2 DEF Took
    <3> QED  BY <1>0, <1>1, <3>1, <3>2
  <2>7. \A u \in Threads : Doing(u)' = IF u \in return THEN Stack!Idle ELSE Doing(u)
    <3>1. Doing(t)' = IF t \in return THEN Stack!Idle ELSE Doing(t)
      BY <1>1, <1>2, <1>3, <1>7 DEF Doing, In, Stack!Idle
    <3>2. ASSUME NEW u \in Threads \ {t}  PROVE Doing(u)' = Doing(u)
      BY <1>3 DEF ThreadStays, Locals, Doing, In
    <3> QED  BY <3>1, <3>2
  <2>8. \A u \in Threads : Took(u)' = ((Took(u) \/ u \in effect) /\ u \notin return)
    <3> SUFFICES ASSUME NEW u \in Threads
                 PROVE  Took(u)' <=> (Took(u) \/ u \in effect) /\ u \notin return
      BY Zenon DEF Took
    <3>1. CASE u = t  BY <1>7, <3>1 DEF Took
    <3>2. CASE u # t
      <4>1. u \notin return  BY <3>2
      <4>2. wd[u] \in 1 .. descriptor  BY <1>0 DEF TypeOK, WorkTypeOK
      <4>3. descs'[wd'[u]].pending <=> wd[u] # x /\ descs[wd[u]].pending
        BY <1>4, <1>8, <3>2, <4>2
      <4> QED  BY <1>8, <3>2, <4>1, <4>3 DEF Took
    <3> QED  BY <3>1, <3>2
  <2>9. \A u \in Threads : Popped(u)' = Popped(u)
    <3>1. Popped(t)' = Popped(t)  BY <1>2, <1>3 DEF Popped
    <3>2. ASSUME NEW u \in Threads \ {t}  PROVE Popped(u)' = Popped(u)
      BY <1>3 DEF ThreadStays, Locals, Popped
    <3> QED  BY <3>1, <3>2
  <2> QED  BY <2>2, <2>3, <2>4, <2>5, <2>6, <2>7, <2>8, <2>9, PushesOnStack, Zenon
<1> QED  BY <1>10, <1>15 DEF Stack!Next

-----------------------------------------------------------------------------
(* Every step *)

LEMMA AllocationsOnStack ==
  ASSUME IInv, IInv', StackInv, Apart', NEW t \in Threads,
         PushAllocates(t) \/ ReserveFirst(t) \/ ReserveNext(t)
  PROVE  StackInv' /\ [Stack!Next]_(Stack!vars)
<1>0. TypeOK /\ LoopKnown(t) /\ ReserveKnown(t)  BY DEF IInv, ThreadInv
<1>1. CASE PushAllocates(t)
  <2> DEFINE b == bucket_of(descs[cur[t]].size)
  <2>1. pc[t] = "allocate_bucket" /\ op[t] = "push"
    BY <1>0, <1>1 DEF PushAllocates, LoopKnown, StackInv, In, PopKnown, InLoop
  <2>2. CASE AllocateBucket(t, b) /\ Goto(t, "read_elem") /\ UNCHANGED allocs
    <3> HIDE DEF b
    <3> QED  BY <2>1, <2>2, AllocatesOnStack
  <2>3. CASE PanicIn(t)  BY <2>1, <2>3, PanicsOnStack
  <2> QED  BY <1>1, <2>2, <2>3 DEF PushAllocates, CapacityOverflow
<1>2. CASE ReserveFirst(t)
  <2>1. /\ pc[t] = "reserve_first" /\ AllocateBucket(t, 0) /\ Goto(t, "reserve_next")
        /\ UNCHANGED allocs
    BY <1>2 DEF ReserveFirst
  <2> QED  BY <2>1, AllocatesOnStack
<1>3. CASE ReserveNext(t)
  <2>1. pc[t] = "reserve_next" /\ op[t] = "reserve"
    BY <1>0, <1>3 DEF ReserveNext, ReserveKnown
  <2>2. CASE AllocateBucket(t, allocs[t] + 1) /\ allocs' = [allocs EXCEPT ![t] = @ + 1]
             /\ Goto(t, "reserve_next")
    <3>1. \A u \in Threads \ {t} : allocs'[u] = allocs[u]
      BY <1>0, <2>2 DEF TypeOK, WorkTypeOK
    <3> QED  BY <2>1, <2>2, <3>1, AllocatesOnStack
  <2>3. CASE PanicIn(t)
    <3>1. UNCHANGED shared  BY <2>3 DEF PanicIn
    <3> QED  BY <2>1, <2>3, <3>1, EndsOnStack
  <2> QED  BY <1>3, <2>2, <2>3 DEF ReserveNext, CapacityOverflow
<1> QED  BY <1>1, <1>2, <1>3

LEMMA StutterStack ==
  ASSUME IInv, StackInv, UNCHANGED vars
  PROVE  StackInv' /\ UNCHANGED Stack!vars
<1> USE DEF vars, shared, call, work
<1>1. \A t \in Threads : /\ Own(t)' = Own(t) /\ ToWrite(t)' = ToWrite(t)
                         /\ In(t, "push")' = In(t, "push") /\ In(t, "pop")' = In(t, "pop")
  BY DEF Own, ToWrite, In
<1>2. Apart' /\ OneOwner'  BY <1>1 DEF StackInv, Apart, OneOwner
<1>3. \A t \in Threads : PushKnown(t)' = PushKnown(t)
  BY <1>1 DEF PushKnown, GrownSince, Held
<1>4. \A t \in Threads : PopKnown(t)' = PopKnown(t)  BY DEF PopKnown
<1>5. Elements' = Elements
  <2>1. \A i : Element(i)' = Element(i)
    <3>1. \A u \in Threads : \A i : Writes(u, i)' = Writes(u, i)  BY <1>1 DEF Writes
    <3> QED  BY <3>1, ElementStays
  <2> QED  BY <2>1 DEF Elements, SizeOf
<1>6. \A t \in Threads : Took(t)' = Took(t) /\ Doing(t)' = Doing(t) /\ Popped(t)' = Popped(t)
  BY <1>1, Zenon DEF Took, Doing, Popped
<1>7. StackInv'  BY <1>1, <1>2, <1>3, <1>4 DEF StackInv
<1> QED  BY <1>5, <1>6, <1>7 DEF Stack!vars

LEMMA NextStack ==
  ASSUME IInv, IInv', StackInv, [ApartNext]_vars
  PROVE  StackInv' /\ [Stack!Next]_(Stack!vars)
<1>1. CASE UNCHANGED vars  BY <1>1, StutterStack
<1>2. CASE ApartNext
  <2>0. Next /\ Apart'  BY <1>2 DEF ApartNext
  <2>1. ASSUME NEW t \in Threads, Calls(t)  PROVE StackInv' /\ Stack!Next
    BY <2>0, <2>1, CallsOnStack
  <2>2. ASSUME NEW t \in Threads, Step(t)  PROVE StackInv' /\ [Stack!Next]_(Stack!vars)
    <3>1. CASE LoadPending(t)   BY <2>0, <3>1, LoadPendingOnStack
    <3>2. CASE \/ LoadDescriptor(t) \/ LoadTarget(t) \/ RetrySwap(t) \/ CheckBucket(t)
               \/ ReadOld(t) \/ ReadLast(t) \/ ReserveSize(t)
      BY <2>0, <3>2, LoadsOnStack
    <3>3. CASE WriteCell(t)     BY <2>0, <3>3, WriteCellOnStack
    <3>4. CASE ClearPending(t)  BY <2>0, <3>4, ClearOnStack
    <3>5. CASE PushSwaps(t)     BY <2>0, <3>5, PushSwapsOnStack
    <3>6. CASE PopSwaps(t)      BY <2>0, <3>6, PopSwapsOnStack
    <3>7. CASE PopEmpty(t)      BY <2>0, <3>7, PopEmptyOnStack
    <3>8. CASE PushAllocates(t) \/ ReserveFirst(t) \/ ReserveNext(t)
      BY <2>0, <3>8, AllocationsOnStack
    <3>9. CASE Size(t) \/ ReserveDone(t)
      <4>1. op[t] \in {"size", "reserve"} /\ UNCHANGED shared /\ \E n : Return(t, n)
        BY <3>9 DEF Size, ReserveDone, IInv, ThreadInv, ReserveKnown
      <4> QED  BY <2>0, <4>1, EndsOnStack
    <3> QED
      BY <2>2, <3>1, <3>2, <3>3, <3>4, <3>5, <3>6, <3>7, <3>8, <3>9
      DEF Step, CompleteWrite, Push, Pop, Reserve
  <2>3. CASE AllQuiescent
    BY <2>3, StutterStack DEF AllQuiescent
  <2> QED  BY <2>0, <2>1, <2>2, <2>3 DEF Next
<1> QED  BY <1>1, <1>2

LEMMA InitStack ==
  ASSUME Init PROVE StackInv /\ Stack!Init
<1> USE DEF Init
<1>1. \A t \in Threads : /\ ~In(t, "push") /\ ~In(t, "pop") /\ ~Own(t)
                         /\ Doing(t) = Stack!Idle /\ Popped(t) = None /\ Took(t) = FALSE
  BY DEF In, Own, Doing, Popped, Took, Stack!Idle
<1>2. StackInv  BY <1>1 DEF StackInv, Apart, OneOwner, NoWrite
<1>3. Elements = <<>>
  <2>1. SizeOf(descriptor) = 0  BY DEF SizeOf, NoWrite
  <2>2. Elements = [i \in 1 .. 0 |-> Elements[i]]  BY <2>1 DEF Elements
  <2>3. PICK S : Elements \in Seq(S) /\ Len(Elements) = 0  BY <2>2, SequenceOf
  <2> QED  BY <2>3, EmptySeq
<1> QED  BY <1>1, <1>2, <1>3 DEF Stack!Init

\* While pushes are in progress each announced element has a cell of its own,
\* which nobody but its owner or a helper with the same write changes; while
\* pops are in progress nothing is pending and no cell changes.
THEOREM StackInvariance == ApartSpec => []StackInv
<1>1. Init => StackInv  BY InitStack
<1>2. IInv /\ IInv' /\ StackInv /\ [ApartNext]_vars => StackInv'  BY NextStack
<1> QED  BY <1>1, <1>2, ApartInvariance, PTL DEF ApartSpec

\* As long as pushes and pops do not overlap, leaky::SecVec is a linearizable
\* stack, for any number of threads: what pops return was pushed, last in, first
\* out, nothing lost and nothing twice, whoever completes the pushes.
THEOREM ActsAsAStack == ApartSpec => ImplementsStack
<1>1. Init => Stack!Init  BY InitStack
<1>2. IInv /\ IInv' /\ StackInv /\ [ApartNext]_vars => [Stack!Next]_(Stack!vars)
  BY NextStack
<1> QED
  BY <1>1, <1>2, ApartInvariance, StackInvariance, PTL
  DEF ApartSpec, ImplementsStack, Stack!Spec
=============================================================================
