---------------------------- MODULE SealedProofs -----------------------------
(***************************************************************************)
(* The memory of sealed::SecVec, for every number of threads, of calls and *)
(* of addresses, and whenever the domain frees what was retired.  First    *)
(* the boxes: MemoryInv is an inductive invariant of Sealed, in which      *)
(* elements, buckets and sizes play no part.  Then the buckets: BucketInv  *)
(* is one on the strength of MemoryInv, and it implies what the runs check *)
(* of types, elements, reserve and the layouts that Drop gives back.       *)
(***************************************************************************)
EXTENDS SealedInv, BucketsProofs, FiniteSetTheorems

\* What the invariant is about: of the vector, and of a thread.
memory == <<descriptor, descs, heap, dropped>>
locals == <<pc, op, hazards, cur, wd, target, fresh, ret, next>>

OthersStay(t) == \A u \in Threads \ {t} :
  /\ pc'[u] = pc[u] /\ op'[u] = op[u] /\ ret'[u] = ret[u]
  /\ hazards'[u] = hazards[u] /\ cur'[u] = cur[u] /\ wd'[u] = wd[u]
  /\ target'[u] = target[u] /\ fresh'[u] = fresh[u] /\ next'[u] = next[u]

ThreadOK(t) == Scopes(t) /\ Protected(t) /\ Private(t)

-----------------------------------------------------------------------------
(* The initial state *)

LEMMA InitMemory == Init => MemoryInv
<1> SUFFICES ASSUME Init PROVE MemoryInv
  OBVIOUS
<1> USE SealedAssumption DEF Init
<1>1. PICK d \in DAddrs, w \in WAddrs :
        /\ descriptor = d
        /\ descs = [[a \in DAddrs |-> Blank] EXCEPT ![d].pending = w]
        /\ heap  = [a \in Addrs |-> IF a \in {d, w} THEN "used" ELSE "free"]
  <2> DEFINE d == CHOOSE a \in DAddrs : TRUE
             w == CHOOSE a \in WAddrs : TRUE
  <2>1. d \in DAddrs /\ w \in WAddrs  OBVIOUS
  <2>2. /\ descriptor = d
        /\ descs = [[a \in DAddrs |-> Blank] EXCEPT ![d].pending = w]
        /\ heap  = [a \in Addrs |-> IF a \in {d, w} THEN "used" ELSE "free"]
    OBVIOUS
  <2> HIDE DEF d, w, Init
  <2> QED  BY <2>1, <2>2
<1>2. /\ descs[d].pending = w
      /\ \A e \in DAddrs : e # d => heap[e] = "free"
      /\ heap[d] = "used" /\ \A a \in WAddrs : heap[a] = "used" <=> a = w
      /\ \A a \in WAddrs : heap[a] # "used" => heap[a] = "free"
  <2> HIDE DEF Init
  <2>1. descs[d] = [Blank EXCEPT !.pending = w]  BY <1>1
  <2>2. \A a \in Addrs : heap[a] = IF a \in {d, w} THEN "used" ELSE "free"  BY <1>1
  <2> QED  BY <2>1, <2>2 DEF Addrs, Blank
<1>3. MemoryTypeOK
  <2>1. descs \in [DAddrs -> [size : Int, pending : WAddrs \cup {Null}]]
    <3>1. Blank \in [size : Int, pending : WAddrs \cup {Null}]  BY DEF Blank
    <3>2. [Blank EXCEPT !.pending = w] \in [size : Int, pending : WAddrs \cup {Null}]
      BY DEF Blank
    <3> QED  BY <1>1, <3>1, <3>2
  <2>2. heap \in [Addrs -> {"free", "used", "retired"}]  BY <1>1
  <2>3. descriptor \in DAddrs /\ dropped \in BOOLEAN  BY <1>1
  <2> QED  BY <2>1, <2>2, <2>3 DEF MemoryTypeOK, Labels
<1>4. DescriptorsOwned
  BY <1>1, <1>2 DEF DescriptorsOwned, VectorOwns, Owns, Completing, Addrs
<1>5. WritesOwned
  <2>1. \A e \in DAddrs, a \in WAddrs : PendingIn(e, a) <=> e = d /\ a = w
    BY <1>2 DEF PendingIn
  <2>2. \A t \in Threads, a \in WAddrs : fresh[t] # a  BY DEF Addrs
  <2> HIDE DEF Init
  <2>3. \A a \in WAddrs : heap[a] = "used" <=>
          (\E t \in Threads : fresh[t] = a) \/ \E e \in DAddrs : PendingIn(e, a)
    BY <1>2, <2>1, <2>2
  <2>4. \A e, g \in DAddrs, a \in WAddrs : PendingIn(e, a) /\ PendingIn(g, a) => e = g
    BY <2>1
  <2> QED  BY <2>2, <2>3, <2>4 DEF WritesOwned
<1>6. AlwaysPending /\ AfterDrop
  BY <1>1, <1>2 DEF AlwaysPending, AfterDrop, Addrs
<1>7. ASSUME NEW t \in Threads  PROVE ThreadOK(t)
  BY DEF ThreadOK, Scopes, Protected, Private, Helping, HasDesc, Writing
<1> QED  BY <1>3, <1>4, <1>5, <1>6, <1>7 DEF MemoryInv, SingleOwner, ThreadOK

-----------------------------------------------------------------------------
(* Steps that leave the memory as it is *)

\* A thread in a call: the vector was not dropped, and its Descriptor is in use.
LEMMA InACall ==
  ASSUME MemoryInv, NEW t \in Threads, pc[t] \notin Resting
  PROVE  /\ ~dropped /\ heap[descriptor] = "used"
         /\ \A u \in Threads : next[u] # descriptor
<1>1. ~dropped  BY DEF MemoryInv, AfterDrop
<1> QED  BY <1>1
         DEF MemoryInv, MemoryTypeOK, SingleOwner, DescriptorsOwned, VectorOwns, Owns

LEMMA LocalKeeps ==
  ASSUME MemoryInv, NEW t \in Threads, ~dropped, UNCHANGED memory,
         OthersStay(t), MemoryTypeOK', Scopes(t)', Protected(t)',
         {pc[t], pc'[t]} \cap {"swap_descriptor", "clear_pending"} = {},
         Completing(t)' <=> Completing(t),
         cur'[t] \in {cur[t], descriptor, Null}, Completing(t) => cur'[t] = cur[t]
  PROVE  MemoryInv'
<1> USE DEF memory
<1>1. /\ next[t] = Null /\ next'[t] = Null /\ fresh[t] = Null /\ fresh'[t] = Null
      /\ target[t] = Null /\ target'[t] = Null
  BY DEF MemoryInv, Scopes
<1>2. \A u \in Threads : next'[u] = next[u] /\ fresh'[u] = fresh[u] /\ target'[u] = target[u]
  BY <1>1 DEF OthersStay
<1>3. \A u \in Threads, d \in DAddrs : Owns(u, d)' <=> Owns(u, d)
  BY <1>2 DEF Owns, Completing, Own, OthersStay
<1>4. DescriptorsOwned'
  BY <1>3 DEF MemoryInv, SingleOwner, DescriptorsOwned, VectorOwns
<1>5. WritesOwned'
  BY <1>2 DEF MemoryInv, SingleOwner, WritesOwned, PendingIn
<1>6. AlwaysPending' /\ AfterDrop'  BY DEF MemoryInv, AlwaysPending, AfterDrop
<1>7. \A u \in Threads : next[u] # Null => next[u] # descriptor
  BY DEF MemoryInv, MemoryTypeOK, SingleOwner, DescriptorsOwned, VectorOwns, Owns
<1>8. ASSUME NEW u \in Threads  PROVE Private(u)'
  BY <1>2, <1>7 DEF MemoryInv, Private, OthersStay
<1>9. ASSUME NEW u \in Threads \ {t}  PROVE Scopes(u)' /\ Protected(u)'
  <2>1. Scopes(u) /\ Protected(u)  BY DEF MemoryInv
  <2> QED  BY <2>1, <1>9 DEF OthersStay, Scopes, Protected, Helping, Own, PendingIn
<1> QED  BY <1>4, <1>5, <1>6, <1>8, <1>9 DEF MemoryInv, SingleOwner

\* How a call that returns, or panics, leaves the locals of its thread.
LEMMA EndLocals ==
  ASSUME MemoryInv, NEW t \in Threads, EndOfScope(t),
         Goto(t, "idle") \/ Goto(t, "panicked") \/ Goto(t, "load_descriptor"),
         UNCHANGED op
  PROVE  /\ OthersStay(t)
         /\ pc' \in [Threads -> Labels] /\ op' \in [Threads -> {"new", "push", "pop", "size", "reserve"}]
         /\ hazards' \in [Threads -> SUBSET Addrs]
         /\ cur' \in [Threads -> DAddrs \cup {Null}] /\ wd' \in [Threads -> WAddrs \cup {Null}]
         /\ target' \in [Threads -> DAddrs \cup {Null}]
         /\ fresh' \in [Threads -> WAddrs \cup {Null}]
         /\ ret' \in [Threads -> {"idle", "check_bucket", "read_elem"}]
         /\ next' \in [Threads -> DAddrs \cup {Null}]
         /\ cur'[t] = Null /\ next'[t] = Null /\ fresh'[t] = Null
         /\ pc'[t] \in {"idle", "panicked", "load_descriptor"}
         /\ ThreadOK(t)'
<1> USE DEF EndOfScope, Goto
<1>1. MemoryTypeOK  BY DEF MemoryInv
<1>2. OthersStay(t)  BY <1>1 DEF OthersStay, MemoryTypeOK
<1>3. /\ cur'[t] = Null /\ wd'[t] = Null /\ target'[t] = Null /\ fresh'[t] = Null
      /\ next'[t] = Null /\ ret'[t] = "idle"
      /\ pc'[t] \in {"idle", "panicked", "load_descriptor"}
  BY <1>1 DEF MemoryTypeOK
<1>4. ThreadOK(t)'
  BY <1>3 DEF ThreadOK, Scopes, Protected, Private, Helping, HasDesc, Writing, Own
<1> QED  BY <1>1, <1>2, <1>3, <1>4 DEF MemoryTypeOK, Labels

\* A call that ends, in any state outside complete_write and the swap.
LEMMA EndKeeps ==
  ASSUME MemoryInv, NEW t \in Threads, ~dropped, UNCHANGED memory, UNCHANGED op,
         EndOfScope(t), Goto(t, "idle") \/ Goto(t, "panicked"),
         pc[t] \notin Writing \cup {"swap_descriptor"}
  PROVE  MemoryInv'
<1>1. MemoryTypeOK'  BY EndLocals DEF MemoryInv, MemoryTypeOK, memory
<1>2. ~Completing(t) /\ ~Completing(t)'
  BY EndLocals DEF Completing, Writing
<1> QED  BY <1>1, <1>2, EndLocals, LocalKeeps DEF ThreadOK, Writing

LEMMA CallKeeps ==
  ASSUME MemoryInv, NEW t \in Threads, Calls(t)
  PROVE  MemoryInv'
<1>0. PICK m \in {"push", "pop", "size", "reserve"} : \E a : Call(t, m, a)
  BY DEF Calls, CallPush, CallPop, CallSize, CallReserve
<1>1. PICK a : Call(t, m, a)  BY <1>0
<1> USE <1>1 DEF Call, Goto, shared, vector, work
<1>2. MemoryTypeOK  BY DEF MemoryInv
<1>3. MemoryTypeOK'  BY <1>2 DEF MemoryTypeOK, Labels
<1>4. OthersStay(t) /\ UNCHANGED memory  BY <1>2 DEF OthersStay, MemoryTypeOK, memory
<1>5. Scopes(t) /\ pc'[t] = "load_descriptor"  BY <1>2 DEF MemoryInv, MemoryTypeOK
<1>6. cur[t] = Null /\ wd[t] = Null /\ target[t] = Null /\ fresh[t] = Null
      /\ next[t] = Null /\ ret[t] = "idle"
  BY <1>5 DEF Scopes, HasDesc, Writing
<1>7. Scopes(t)' /\ Protected(t)'
  BY <1>5, <1>6 DEF Scopes, Protected, HasDesc, Writing, Helping
<1>8. ~Completing(t) /\ ~Completing(t)'  BY <1>5 DEF Completing, Writing
<1> QED  BY <1>3, <1>4, <1>5, <1>7, <1>8, LocalKeeps

LEMMA LoadDescriptorKeeps ==
  ASSUME MemoryInv, NEW t \in Threads, LoadDescriptor(t)
  PROVE  MemoryInv'
<1> USE DEF LoadDescriptor, Goto, shared, vector, call, work
<1>1. MemoryTypeOK /\ Scopes(t)  BY DEF MemoryInv
<1>2. ~dropped /\ heap[descriptor] = "used"  BY InACall DEF Resting
<1>3. MemoryTypeOK'  BY <1>1 DEF MemoryTypeOK, Labels, Addrs
<1>4. OthersStay(t) /\ UNCHANGED memory  BY <1>1 DEF OthersStay, MemoryTypeOK, memory
<1>5. /\ pc'[t] = "load_pending" /\ cur'[t] = descriptor /\ cur'[t] # Null
      /\ hazards'[t] = {descriptor}
  BY <1>1, SealedAssumption DEF MemoryTypeOK, Addrs
<1>6. wd[t] = Null /\ target[t] = Null /\ fresh[t] = Null /\ next[t] = Null /\ ret[t] = "idle"
  BY <1>1 DEF Scopes, HasDesc, Writing
<1>7. Scopes(t)' /\ Protected(t)'
  BY <1>2, <1>5, <1>6 DEF Scopes, Protected, HasDesc, Writing, Helping
<1>8. ~Completing(t) /\ ~Completing(t)'  BY <1>5 DEF Completing
<1> QED  BY <1>2, <1>3, <1>4, <1>5, <1>7, <1>8, LocalKeeps

\* The write descriptor that a helper takes on is pending in the Descriptor
\* that it protects.
LEMMA LoadPendingKeeps ==
  ASSUME MemoryInv, NEW t \in Threads, LoadPending(t)
  PROVE  MemoryInv'
<1> USE DEF LoadPending, Goto, shared, vector, call, AfterHelping
<1> DEFINE w == descs[cur[t]].pending
<1>1. MemoryTypeOK /\ Scopes(t) /\ Protected(t) /\ AlwaysPending  BY DEF MemoryInv
<1>2. ~dropped  BY InACall DEF Resting
<1>3. cur[t] \in DAddrs /\ cur[t] # Null /\ heap[cur[t]] # "free" /\ cur[t] \in hazards[t]
  BY <1>1 DEF Scopes, HasDesc, Protected, MemoryTypeOK
<1>4. w \in WAddrs /\ w # Null  BY <1>1, <1>3 DEF AlwaysPending, MemoryTypeOK
<1>5. MemoryTypeOK'
  <2>1. hazards' \in [Threads -> SUBSET Addrs]  BY <1>1, <1>4 DEF MemoryTypeOK, Addrs
  <2>2. wd' \in [Threads -> WAddrs \cup {Null}]  BY <1>1, <1>4 DEF MemoryTypeOK
  <2>3. pc' \in [Threads -> Labels] /\ ret' \in [Threads -> {"idle", "check_bucket", "read_elem"}]
    BY <1>1 DEF MemoryTypeOK, Labels
  <2> QED  BY <1>1, <2>1, <2>2, <2>3 DEF MemoryTypeOK
<1>6. OthersStay(t) /\ UNCHANGED memory  BY <1>1 DEF OthersStay, MemoryTypeOK, memory
<1>7. wd[t] = Null /\ target[t] = Null /\ fresh[t] = Null /\ next[t] = Null /\ ret[t] = "idle"
  BY <1>1 DEF Scopes, HasDesc, Writing
<1>8. pc'[t] \in {"write_cell", "check_bucket", "read_elem"} /\ cur'[t] = cur[t]
  BY <1>1 DEF MemoryTypeOK
<1>9. CASE writes[w].some /\ pc'[t] = "write_cell" /\ wd'[t] = w
           /\ hazards'[t] = hazards[t] \cup {w} /\ ret'[t] \in {"check_bucket", "read_elem"}
  <2>1. Scopes(t)'  BY <1>3, <1>4, <1>7, <1>8, <1>9 DEF Scopes, HasDesc, Writing, Own
  <2>2. Protected(t)'
    BY <1>3, <1>7, <1>8, <1>9 DEF Protected, Helping, PendingIn
  <2>3. ~Completing(t) /\ ~Completing(t)'  BY <1>9 DEF Completing, Own
  <2> QED  BY <1>2, <1>5, <1>6, <1>8, <2>1, <2>2, <2>3, LocalKeeps
<1>10. CASE pc'[t] \in {"check_bucket", "read_elem"} /\ UNCHANGED <<hazards, wd, ret>>
  <2>1. Scopes(t)'  BY <1>3, <1>7, <1>8, <1>10 DEF Scopes, HasDesc, Writing, Own
  <2>2. Protected(t)'  BY <1>3, <1>7, <1>8, <1>10 DEF Protected, Helping
  <2>3. ~Completing(t) /\ ~Completing(t)'  BY <1>10 DEF Completing
  <2> QED  BY <1>2, <1>5, <1>6, <1>8, <2>1, <2>2, <2>3, LocalKeeps
<1> QED  BY <1>1, <1>9, <1>10 DEF MemoryTypeOK

LEMMA WriteCellKeeps ==
  ASSUME MemoryInv, NEW t \in Threads, WriteCell(t)
  PROVE  MemoryInv'
<1> USE DEF WriteCell, Goto, call, work
<1>1. MemoryTypeOK /\ Scopes(t) /\ Protected(t)  BY DEF MemoryInv
<1>2. ~dropped  BY InACall DEF Resting
<1>3. MemoryTypeOK'  BY <1>1 DEF MemoryTypeOK, Labels
<1>4. OthersStay(t) /\ UNCHANGED memory  BY <1>1 DEF OthersStay, MemoryTypeOK, memory
<1>5. pc'[t] = "load_target"  BY <1>1 DEF MemoryTypeOK
<1>6. Scopes(t)'  BY <1>1, <1>5 DEF Scopes, HasDesc, Writing, Own
<1>7. Protected(t)'  BY <1>1, <1>4, <1>5 DEF Protected, Helping, memory
<1>8. Completing(t)' <=> Completing(t)  BY <1>5 DEF Completing, Own
<1> QED  BY <1>2, <1>3, <1>4, <1>5, <1>6, <1>7, <1>8, LocalKeeps

LEMMA CheckBucketKeeps ==
  ASSUME MemoryInv, NEW t \in Threads, CheckBucket(t)
  PROVE  MemoryInv'
<1> USE DEF CheckBucket, Goto, shared, vector, call, work
<1>1. MemoryTypeOK /\ Scopes(t) /\ Protected(t)  BY DEF MemoryInv
<1>2. ~dropped  BY InACall DEF Resting
<1>3. MemoryTypeOK'  BY <1>1 DEF MemoryTypeOK, Labels
<1>4. OthersStay(t) /\ UNCHANGED memory  BY <1>1 DEF OthersStay, MemoryTypeOK, memory
<1>5. pc'[t] \in {"read_elem", "allocate_bucket"}  BY <1>1 DEF MemoryTypeOK
<1>6. Scopes(t)'  BY <1>1, <1>5 DEF Scopes, HasDesc, Writing, Own
<1>7. Protected(t)'  BY <1>1, <1>4, <1>5 DEF Protected, Helping, memory
<1>8. ~Completing(t) /\ ~Completing(t)'  BY <1>5 DEF Completing
<1> QED  BY <1>2, <1>3, <1>4, <1>5, <1>6, <1>7, <1>8, LocalKeeps

\* A step of allocate_bucket that goes on, in push or in reserve.
LEMMA AllocateKeeps ==
  ASSUME MemoryInv, NEW t \in Threads, NEW b, AllocateBucket(t, b),
         \/ pc[t] = "allocate_bucket" /\ Goto(t, "read_elem")
         \/ pc[t] \in {"reserve_first", "reserve_next"} /\ Goto(t, "reserve_next")
  PROVE  MemoryInv'
<1> USE DEF AllocateBucket, Goto, call
<1>1. MemoryTypeOK /\ Scopes(t) /\ Protected(t)  BY DEF MemoryInv
<1>2. ~dropped  BY InACall DEF Resting
<1>3. MemoryTypeOK'  BY <1>1 DEF MemoryTypeOK, Labels
<1>4. OthersStay(t) /\ UNCHANGED memory  BY <1>1 DEF OthersStay, MemoryTypeOK, memory
<1>5. \/ pc[t] = "allocate_bucket" /\ pc'[t] = "read_elem"
      \/ pc[t] \in {"reserve_first", "reserve_next"} /\ pc'[t] = "reserve_next"
  BY <1>1 DEF MemoryTypeOK
<1>6. Scopes(t)'  BY <1>1, <1>5 DEF Scopes, HasDesc, Writing, Own
<1>7. Protected(t)'  BY <1>1, <1>4, <1>5 DEF Protected, Helping, memory
<1>8. ~Completing(t) /\ ~Completing(t)'  BY <1>5 DEF Completing
<1> QED  BY <1>2, <1>3, <1>4, <1>5, <1>6, <1>7, <1>8, LocalKeeps

LEMMA OverflowKeeps ==
  ASSUME MemoryInv, NEW t \in Threads, NEW b, CapacityOverflow(t, b),
         pc[t] \in {"allocate_bucket", "reserve_next"}
  PROVE  MemoryInv'
<1>1. ~dropped  BY InACall DEF Resting
<1> QED  BY <1>1, EndKeeps
         DEF CapacityOverflow, PanicIn, shared, vector, call, memory, Writing

LEMMA PushAllocatesKeeps ==
  ASSUME MemoryInv, NEW t \in Threads, PushAllocates(t)
  PROVE  MemoryInv'
BY AllocateKeeps, OverflowKeeps DEF PushAllocates

LEMMA ReserveFirstKeeps ==
  ASSUME MemoryInv, NEW t \in Threads, ReserveFirst(t)
  PROVE  MemoryInv'
BY AllocateKeeps DEF ReserveFirst

LEMMA ReserveNextKeeps ==
  ASSUME MemoryInv, NEW t \in Threads, ReserveNext(t)
  PROVE  MemoryInv'
BY AllocateKeeps, OverflowKeeps DEF ReserveNext

\* size() has read what it returns, and its Descriptor is protected no more.
LEMMA ReserveSizeKeeps ==
  ASSUME MemoryInv, NEW t \in Threads, ReserveSize(t)
  PROVE  MemoryInv'
<1> USE DEF ReserveSize, Goto, shared, vector, call
<1>1. MemoryTypeOK /\ Scopes(t)  BY DEF MemoryInv
<1>2. ~dropped  BY InACall DEF Resting
<1>3. MemoryTypeOK'  BY <1>1 DEF MemoryTypeOK, Labels
<1>4. OthersStay(t) /\ UNCHANGED memory  BY <1>1 DEF OthersStay, MemoryTypeOK, memory
<1>5. pc'[t] \in {"reserve_first", "reserve_next"} /\ cur'[t] = Null
  BY <1>1 DEF MemoryTypeOK
<1>6. wd[t] = Null /\ target[t] = Null /\ fresh[t] = Null /\ next[t] = Null /\ ret[t] = "idle"
  BY <1>1 DEF Scopes, HasDesc, Writing
<1>7. Scopes(t)' /\ Protected(t)'
  BY <1>5, <1>6 DEF Scopes, Protected, HasDesc, Writing, Helping
<1>8. ~Completing(t) /\ ~Completing(t)'  BY <1>5 DEF Completing
<1> QED  BY <1>2, <1>3, <1>4, <1>5, <1>7, <1>8, LocalKeeps

\* The calls that end without having replaced a Descriptor.
LEMMA ReturnKeeps ==
  ASSUME MemoryInv, NEW t \in Threads, PopEmpty(t) \/ Size(t) \/ ReserveDone(t)
  PROVE  MemoryInv'
<1>1. ~dropped  BY InACall DEF Resting, PopEmpty, Size, ReserveDone
<1> QED  BY <1>1, EndKeeps
         DEF PopEmpty, Size, ReserveDone, Return, vector, memory, Writing

-----------------------------------------------------------------------------
(* Steps that replace, retire or free a box *)

\* What a thread has the address of.
LEMMA Holds ==
  ASSUME MemoryInv, NEW u \in Threads
  PROVE  /\ cur[u] # Null =>
              cur[u] \in DAddrs /\ cur[u] \in hazards[u] /\ heap[cur[u]] # "free"
         /\ target[u] # Null =>
              target[u] \in DAddrs /\ target[u] \in hazards[u] /\ heap[target[u]] # "free"
         /\ Helping(u) =>
              /\ wd[u] \in WAddrs /\ wd[u] \in hazards[u]
              /\ cur[u] \in DAddrs /\ cur[u] # Null
              /\ heap[wd[u]] = "retired" \/ PendingIn(cur[u], wd[u])
         /\ next[u] # Null =>
              /\ next[u] \in DAddrs /\ heap[next[u]] = "used" /\ Owns(u, next[u])
              /\ \A v \in Threads : cur[v] # next[u] /\ target[v] # next[u]
<1>1. MemoryTypeOK /\ Scopes(u) /\ Protected(u) /\ Private(u) /\ DescriptorsOwned
  BY DEF MemoryInv, SingleOwner
<1>2. Helping(u) => wd[u] \in WAddrs /\ cur[u] \in DAddrs /\ cur[u] # Null
  BY <1>1 DEF Helping, Scopes, HasDesc, Writing, MemoryTypeOK
<1>3. next[u] # Null => next[u] \in DAddrs /\ heap[next[u]] = "used" /\ Owns(u, next[u])
  BY <1>1 DEF DescriptorsOwned, Owns, MemoryTypeOK
<1> QED  BY <1>1, <1>2, <1>3 DEF Protected, Private, MemoryTypeOK

\* What the memory must satisfy after a step of t for the other threads to
\* hold on to what they use.
LEMMA OthersKeep ==
  ASSUME MemoryInv, NEW t \in Threads, OthersStay(t),
         \A u \in Threads \ {t} :
           /\ cur[u] # Null => heap'[cur[u]] # "free"
           /\ target[u] # Null => heap'[target[u]] # "free"
           /\ Helping(u) => heap'[wd[u]] = "retired" \/ PendingIn(cur[u], wd[u])',
         \A u \in Threads \ {t} : next[u] # Null =>
           cur'[t] # next[u] /\ target'[t] # next[u]
  PROVE  \A u \in Threads \ {t} : ThreadOK(u)'
<1> SUFFICES ASSUME NEW u \in Threads \ {t}  PROVE ThreadOK(u)'
  OBVIOUS
<1>1. Scopes(u) /\ Protected(u) /\ Private(u)  BY DEF MemoryInv
<1>2. Helping(u)' <=> Helping(u)  BY DEF OthersStay, Helping, Own
<1>3. Scopes(u)'  BY <1>1 DEF OthersStay, Scopes, Own
<1>4. Protected(u)'  BY <1>1, <1>2 DEF OthersStay, Protected
<1>5. Private(u)'  BY <1>1 DEF OthersStay, Private
<1> QED  BY <1>3, <1>4, <1>5 DEF ThreadOK

\* The thread that owns a Descriptor, and what it owns before its swap.
LEMMA OwnerOfOld ==
  ASSUME MemoryInv, NEW t \in Threads, Completing(t)
  PROVE  /\ cur[t] \in DAddrs /\ heap[cur[t]] = "used" /\ cur[t] # descriptor
         /\ next[t] = Null
         /\ \A u \in Threads, d \in DAddrs : Owns(u, d) /\ d = cur[t] => u = t
<1>1. MemoryTypeOK /\ Scopes(t) /\ DescriptorsOwned  BY DEF MemoryInv, SingleOwner
<1>2. cur[t] \in DAddrs /\ Owns(t, cur[t])
  BY <1>1 DEF Completing, Scopes, HasDesc, Writing, Owns, MemoryTypeOK
<1>3. ~dropped  BY InACall DEF Completing, Resting
<1>4. next[t] = Null  BY <1>1 DEF Completing, Scopes
<1> QED  BY <1>1, <1>2, <1>3, <1>4 DEF DescriptorsOwned, VectorOwns

\* Push returns and has retired the Descriptor that it replaced, and perhaps
\* a write descriptor w.
LEMMA RetireOldDescriptors ==
  ASSUME MemoryInv, NEW t \in Threads, Completing(t), OthersStay(t), MemoryTypeOK',
         UNCHANGED <<descriptor, dropped>>, next'[t] = Null, ~Completing(t)',
         \A d \in DAddrs : heap'[d] = IF d = cur[t] THEN "retired" ELSE heap[d]
  PROVE  DescriptorsOwned'
<1>1. \A u \in Threads, d \in DAddrs : Owns(u, d)' <=> Owns(u, d) /\ u # t
  BY OwnerOfOld, SealedAssumption DEF Owns, Completing, Own, OthersStay, Addrs
<1>2. \A d \in DAddrs : Owns(t, d) <=> d = cur[t]
  BY OwnerOfOld, SealedAssumption DEF Owns, Addrs
<1>3. DescriptorsOwned  BY DEF MemoryInv, SingleOwner
<1>4. \A d \in DAddrs : VectorOwns(d)' <=> VectorOwns(d)  BY DEF VectorOwns
<1> QED  BY <1>1, <1>2, <1>3, <1>4, OwnerOfOld DEF DescriptorsOwned, VectorOwns

LEMMA OwnWriteGoneKeeps ==
  ASSUME MemoryInv, NEW t \in Threads, OwnWriteGone(t)
  PROVE  MemoryInv'
<1> USE DEF OwnWriteGone, Return
<1>1. MemoryTypeOK /\ Scopes(t)  BY DEF MemoryInv
<1>2. Completing(t)  BY <1>1 DEF Completing, Scopes, Writing
<1>3. ~dropped  BY InACall DEF Resting
<1>4. EndOfScope(t) /\ Goto(t, "idle") /\ UNCHANGED <<op, descriptor, descs, dropped>>
  OBVIOUS
<1>5. MemoryTypeOK'
  <2>1. heap' \in [Addrs -> {"free", "used", "retired"}]  BY <1>1 DEF MemoryTypeOK
  <2> QED  BY <1>1, <1>4, <2>1, EndLocals DEF MemoryTypeOK
<1>6. \A a \in Addrs : heap'[a] = IF a = cur[t] THEN "retired" ELSE heap[a]
  BY <1>1 DEF MemoryTypeOK
<1>7. DescriptorsOwned'
  <2>1. ~Completing(t)'  BY <1>1 DEF Completing, MemoryTypeOK, Goto
  <2> QED  BY <1>2, <1>4, <1>5, <1>6, <2>1, EndLocals, RetireOldDescriptors DEF Addrs
<1>8. \A a \in Addrs : (heap'[a] = "free" <=> heap[a] = "free")
  BY <1>2, <1>6, OwnerOfOld DEF Addrs
<1>9. \A w \in WAddrs : heap'[w] = heap[w]
  BY <1>2, <1>6, OwnerOfOld, SealedAssumption DEF Addrs
<1>10. \A d \in DAddrs, w \in WAddrs : PendingIn(d, w)' <=> PendingIn(d, w)
  BY <1>8 DEF PendingIn, Addrs
<1>11. WritesOwned'
  <2>1. \A u \in Threads : fresh'[u] = fresh[u]
    BY <1>1, <1>4, EndLocals DEF OthersStay, Scopes
  <2> QED  BY <1>9, <1>10, <2>1 DEF MemoryInv, SingleOwner, WritesOwned
<1>12. AlwaysPending' /\ AfterDrop'
  BY <1>3, <1>8 DEF MemoryInv, AlwaysPending, AfterDrop, Addrs
<1>13. \A u \in Threads \ {t} : ThreadOK(u)'
  <2>1. ASSUME NEW u \in Threads \ {t}
        PROVE  /\ cur[u] # Null => heap'[cur[u]] # "free"
               /\ target[u] # Null => heap'[target[u]] # "free"
               /\ Helping(u) => heap'[wd[u]] = "retired" \/ PendingIn(cur[u], wd[u])'
    <3>1. cur[u] # Null => cur[u] \in Addrs /\ heap[cur[u]] # "free"
      BY Holds DEF Addrs
    <3>2. target[u] # Null => target[u] \in Addrs /\ heap[target[u]] # "free"
      BY Holds DEF Addrs
    <3>3. Helping(u) => heap'[wd[u]] = "retired" \/ PendingIn(cur[u], wd[u])'
      BY <1>4, <1>9, <1>10, Holds, EndLocals DEF OthersStay
    <3> QED  BY <1>8, <3>1, <3>2, <3>3
  <2>2. cur'[t] = Null /\ target'[t] = Null
    BY <1>1, <1>4 DEF EndOfScope, MemoryTypeOK
  <2> QED  BY <1>4, <2>1, <2>2, EndLocals, OthersKeep
<1> QED  BY <1>4, <1>5, <1>7, <1>11, <1>12, <1>13, EndLocals
         DEF MemoryInv, SingleOwner, ThreadOK

\* The None that is to be swapped in is a box of nobody else's.
LEMMA LoadTargetKeeps ==
  ASSUME MemoryInv, NEW t \in Threads, LoadTarget(t)
  PROVE  MemoryInv'
<1> USE DEF LoadTarget, Goto, call
<1>1. MemoryTypeOK /\ Scopes(t) /\ Protected(t) /\ WritesOwned /\ DescriptorsOwned
  BY DEF MemoryInv, SingleOwner
<1>2. PICK n \in WAddrs :
        /\ heap[n] = "free"
        /\ heap' = [heap EXCEPT ![n] = "used"]
        /\ fresh' = [fresh EXCEPT ![t] = n]
  BY DEF FreeAmong
<1>3. /\ ~dropped /\ heap[descriptor] = "used" /\ descriptor \in DAddrs
      /\ \A u \in Threads : next[u] # descriptor
  BY <1>1, InACall DEF Resting, MemoryTypeOK
<1>4. /\ \A a \in Addrs : a # n => heap'[a] = heap[a]
      /\ heap'[n] = "used" /\ \A d \in DAddrs : d # n /\ heap'[d] = heap[d]
  BY <1>1, <1>2, SealedAssumption DEF MemoryTypeOK, Addrs
<1>5. MemoryTypeOK'
  <2>1. heap' \in [Addrs -> {"free", "used", "retired"}]  BY <1>1, <1>2 DEF MemoryTypeOK
  <2>2. fresh' \in [Threads -> WAddrs \cup {Null}]  BY <1>1, <1>2 DEF MemoryTypeOK
  <2>3. hazards' \in [Threads -> SUBSET Addrs]  BY <1>1 DEF MemoryTypeOK, Addrs
  <2>4. target' \in [Threads -> DAddrs \cup {Null}]  BY <1>1 DEF MemoryTypeOK
  <2>5. pc' \in [Threads -> Labels]  BY <1>1 DEF MemoryTypeOK, Labels
  <2> QED  BY <1>1, <2>1, <2>2, <2>3, <2>4, <2>5 DEF MemoryTypeOK
<1>6. OthersStay(t)  BY <1>1, <1>2 DEF OthersStay, MemoryTypeOK
<1>7. /\ pc'[t] = "clear_pending" /\ fresh'[t] = n /\ target'[t] = descriptor
      /\ hazards'[t] = hazards[t] \cup {descriptor}
  BY <1>1, <1>2 DEF MemoryTypeOK
<1>8. \A u \in Threads, d \in DAddrs : Owns(u, d)' <=> Owns(u, d)
  BY <1>6, <1>7 DEF Owns, Completing, Own, OthersStay, Writing
<1>9. DescriptorsOwned'  BY <1>1, <1>4, <1>8 DEF DescriptorsOwned, VectorOwns
<1>10. \A d \in DAddrs, w \in WAddrs : /\ PendingIn(d, w)' <=> PendingIn(d, w)
                                       /\ PendingIn(d, w) => w # n
  BY <1>1, <1>2, <1>4 DEF PendingIn, WritesOwned
<1>11. WritesOwned'
  <2>1. \A u \in Threads, w \in WAddrs : /\ fresh'[u] = w <=> fresh[u] = w \/ (u = t /\ w = n)
                                         /\ fresh[u] = w => w # n
    BY <1>1, <1>2, <1>6, <1>7, SealedAssumption DEF OthersStay, WritesOwned, Scopes, Addrs
  <2>2. \A w \in WAddrs : heap'[w] = "used" <=> heap[w] = "used" \/ w = n
    BY <1>4 DEF Addrs
  <2> QED  BY <1>1, <1>10, <2>1, <2>2 DEF WritesOwned
<1>12. AlwaysPending' /\ AfterDrop'
  BY <1>3, <1>4 DEF MemoryInv, AlwaysPending, AfterDrop
<1>13. ThreadOK(t)'
  <2>1. descriptor # Null /\ n # Null  BY <1>2, <1>3, SealedAssumption DEF Addrs
  <2>2. Scopes(t)'  BY <1>1, <1>7, <2>1 DEF Scopes, HasDesc, Writing, Own
  <2>3. Protected(t)'
    <3>1. cur[t] # Null => cur[t] \in DAddrs /\ cur[t] \in hazards[t] /\ heap[cur[t]] # "free"
      BY Holds
    <3> QED  BY <1>3, <1>4, <1>7, <3>1 DEF Protected, Helping
  <2>4. Private(t)'  BY <1>1, <2>1 DEF Private, Scopes
  <2> QED  BY <2>2, <2>3, <2>4 DEF ThreadOK
<1>14. \A u \in Threads \ {t} : ThreadOK(u)'
  <2>1. ASSUME NEW u \in Threads \ {t}
        PROVE  /\ cur[u] # Null => heap'[cur[u]] # "free"
               /\ target[u] # Null => heap'[target[u]] # "free"
               /\ Helping(u) => heap'[wd[u]] = "retired" \/ PendingIn(cur[u], wd[u])'
    <3>1. cur[u] # Null => heap'[cur[u]] # "free"  BY <1>4, Holds
    <3>2. target[u] # Null => heap'[target[u]] # "free"  BY <1>4, Holds
    <3>3. Helping(u) => heap'[wd[u]] = "retired" \/ PendingIn(cur[u], wd[u])'
      <4>1. CASE heap[wd[u]] = "retired"  BY <1>2, <1>4, <4>1, Holds DEF Addrs
      <4>2. CASE PendingIn(cur[u], wd[u])
        BY <1>6, <1>10, <4>2, Holds DEF OthersStay
      <4> QED  BY <4>1, <4>2, Holds
    <3> QED  BY <3>1, <3>2, <3>3
  <2>2. \A u \in Threads \ {t} : next[u] # Null => cur'[t] # next[u] /\ target'[t] # next[u]
    BY <1>3, <1>7, Holds
  <2> QED  BY <1>6, <2>1, <2>2, OthersKeep
<1> QED  BY <1>5, <1>9, <1>11, <1>12, <1>13, <1>14 DEF MemoryInv, SingleOwner, ThreadOK

\* The swap takes the write descriptor out of the only Descriptor that has it,
\* and puts one in that nobody else has. A helper of the one that was swapped
\* out has it protected.
LEMMA ClearPendingKeeps ==
  ASSUME MemoryInv, NEW t \in Threads, ClearPending(t)
  PROVE  MemoryInv'
<1> DEFINE c == cur[t]
           T == target[t]
           W == descs[T].pending
           F == fresh[t]
<1>1. MemoryTypeOK /\ Scopes(t) /\ WritesOwned /\ DescriptorsOwned /\ AlwaysPending
  BY DEF MemoryInv, SingleOwner
<1>2. pc[t] = "clear_pending"  BY DEF ClearPending
<1>3. ~dropped  BY <1>2, InACall DEF Resting
<1>4. /\ c \in DAddrs /\ T \in DAddrs /\ F \in WAddrs /\ next[t] = Null
      /\ heap[c] # "free" /\ heap[T] # "free" /\ c \in hazards[t]
  BY <1>1, <1>2, Holds DEF Scopes, HasDesc, Writing, MemoryTypeOK
<1>5. W \in WAddrs /\ PendingIn(T, W)
  BY <1>1, <1>4 DEF AlwaysPending, PendingIn, MemoryTypeOK
<1>6. heap[W] = "used" /\ heap[F] = "used" /\ W # F  BY <1>1, <1>4, <1>5 DEF WritesOwned
<1>7. /\ descs' = [descs EXCEPT ![T].pending = F]
      /\ heap' = [a \in Addrs |-> IF a = W \/ (Own(t) /\ a = c) THEN "retired" ELSE heap[a]]
      /\ UNCHANGED <<op, descriptor, dropped>>
  BY DEF ClearPending, SwappedOut, Return, call
<1>8. /\ \A d \in DAddrs : descs'[d].pending = IF d = T THEN F ELSE descs[d].pending
      /\ descs' \in [DAddrs -> [size : Int, pending : WAddrs \cup {Null}]]
  <2>1. descs[T] \in [size : Int, pending : WAddrs \cup {Null}]  BY <1>1, <1>4 DEF MemoryTypeOK
  <2>2. [descs[T] EXCEPT !.pending = F] \in [size : Int, pending : WAddrs \cup {Null}]
    BY <1>4, <2>1
  <2> QED  BY <1>1, <1>4, <1>7, <2>2 DEF MemoryTypeOK
<1>9. heap' \in [Addrs -> {"free", "used", "retired"}]  BY <1>1, <1>7 DEF MemoryTypeOK
<1>10. /\ \A d \in DAddrs : heap'[d] = IF Own(t) /\ d = c THEN "retired" ELSE heap[d]
       /\ \A w \in WAddrs : heap'[w] = IF w = W THEN "retired" ELSE heap[w]
  BY <1>4, <1>5, <1>7, SealedAssumption DEF Addrs
<1>11. /\ OthersStay(t) /\ MemoryTypeOK' /\ ThreadOK(t)'
       /\ cur'[t] \in {c, Null} /\ target'[t] = Null /\ fresh'[t] = Null /\ next'[t] = Null
       /\ ~Completing(t)'
  <2>1. CASE Own(t)
    <3>1. EndOfScope(t) /\ Goto(t, "idle")  BY <2>1 DEF ClearPending, Return
    <3>2. target'[t] = Null /\ pc'[t] = "idle"
      BY <1>1, <3>1 DEF EndOfScope, Goto, MemoryTypeOK
    <3>3. ~Completing(t)'  BY <3>2 DEF Completing
    <3>4. MemoryTypeOK'  BY <1>1, <1>7, <1>8, <1>9, <3>1, EndLocals DEF MemoryTypeOK
    <3> QED  BY <1>7, <3>1, <3>2, <3>3, <3>4, EndLocals
  <2>2. CASE ~Own(t)
    <3>1. /\ Goto(t, ret[t])
          /\ hazards' = [hazards EXCEPT ![t] = {cur[t]}]
          /\ wd'     = [wd EXCEPT ![t] = Null]
          /\ target' = [target EXCEPT ![t] = Null]
          /\ fresh'  = [fresh EXCEPT ![t] = Null]
          /\ ret'    = [ret EXCEPT ![t] = "idle"]
          /\ UNCHANGED <<cur, next>>
      BY <2>2 DEF ClearPending
    <3>2. ret[t] \in {"check_bucket", "read_elem"}  BY <1>1, <2>2 DEF Own, MemoryTypeOK
    <3>3. OthersStay(t)  BY <1>1, <1>7, <3>1 DEF OthersStay, MemoryTypeOK, Goto
    <3>4. MemoryTypeOK'
      <4>1. pc' \in [Threads -> Labels]  BY <1>1, <3>1, <3>2 DEF MemoryTypeOK, Goto, Labels
      <4>2. hazards' \in [Threads -> SUBSET Addrs]  BY <1>1, <1>4, <3>1 DEF MemoryTypeOK, Addrs
      <4> QED  BY <1>1, <1>7, <1>8, <1>9, <3>1, <4>1, <4>2 DEF MemoryTypeOK
    <3>5. /\ pc'[t] \in {"check_bucket", "read_elem"} /\ hazards'[t] = {c} /\ cur'[t] = c
          /\ wd'[t] = Null /\ target'[t] = Null /\ fresh'[t] = Null /\ next'[t] = Null
          /\ ret'[t] = "idle"
      BY <1>1, <1>4, <3>1, <3>2 DEF MemoryTypeOK, Goto
    <3>6. heap'[c] # "free" /\ c # Null  BY <1>4, <1>10, SealedAssumption DEF Addrs
    <3>7. Scopes(t)' /\ Protected(t)' /\ Private(t)'
      BY <3>5, <3>6 DEF Scopes, Protected, Private, Helping, HasDesc, Writing, Own
    <3>8. ~Completing(t)'  BY <3>5 DEF Completing
    <3> QED  BY <3>3, <3>4, <3>5, <3>7, <3>8 DEF ThreadOK
  <2> QED  BY <2>1, <2>2
<1> HIDE DEF c, T, W, F
<1>12. DescriptorsOwned'
  <2>1. CASE Own(t)
    <3>1. Completing(t)  BY <1>1, <1>2, <2>1 DEF Completing, Scopes, Writing
    <3> QED  BY <1>7, <1>10, <1>11, <2>1, <3>1, RetireOldDescriptors DEF c
  <2>2. CASE ~Own(t)
    <3>1. \A u \in Threads, d \in DAddrs : Owns(u, d)' <=> Owns(u, d)
      BY <1>4, <1>11, <2>2 DEF Owns, Completing, Own, OthersStay
    <3> QED  BY <1>1, <1>7, <1>10, <2>2, <3>1 DEF DescriptorsOwned, VectorOwns
  <2> QED  BY <2>1, <2>2
<1>13. \A d \in DAddrs, w \in WAddrs :
         PendingIn(d, w)' <=> (d = T /\ w = F) \/ (d # T /\ PendingIn(d, w))
  BY <1>4, <1>8, <1>10 DEF PendingIn
<1>14. WritesOwned'
  <2>1. \A u \in Threads, w \in WAddrs : fresh'[u] = w <=> fresh[u] = w /\ u # t
    BY <1>11, SealedAssumption DEF OthersStay, Addrs
  <2>2. \A d \in DAddrs : ~PendingIn(d, F)  BY <1>1, <1>4 DEF WritesOwned, F
  <2>3. \A u \in Threads : (fresh[u] = F <=> u = t) /\ fresh[u] # W
    BY <1>1, <1>4, <1>5 DEF WritesOwned, F
  <2>4. \A d \in DAddrs : PendingIn(d, W) <=> d = T
    BY <1>1, <1>4, <1>5 DEF WritesOwned
  <2>5. \A w \in WAddrs : heap'[w] = "used" <=>
          (\E u \in Threads : fresh'[u] = w) \/ \E d \in DAddrs : PendingIn(d, w)'
    <3> SUFFICES ASSUME NEW w \in WAddrs
                 PROVE  heap'[w] = "used" <=>
                          (\E u \in Threads : fresh'[u] = w) \/ \E d \in DAddrs : PendingIn(d, w)'
      OBVIOUS
    <3>1. CASE w = W  BY <1>6, <1>10, <1>13, <2>1, <2>3, <2>4, <3>1
    <3>2. CASE w = F  BY <1>4, <1>6, <1>10, <1>13, <3>2
    <3>3. CASE w # W /\ w # F
      <4>1. heap'[w] = heap[w]  BY <1>10, <3>3
      <4>2. \A d \in DAddrs : PendingIn(d, w)' <=> PendingIn(d, w)
        BY <1>5, <1>13, <2>4, <3>3 DEF PendingIn
      <4>3. \A u \in Threads : fresh'[u] = w <=> fresh[u] = w  BY <2>1, <2>3, <3>3 DEF F
      <4> QED  BY <1>1, <4>1, <4>2, <4>3 DEF WritesOwned
    <3> QED  BY <3>1, <3>2, <3>3
  <2>6. \A d, e \in DAddrs, w \in WAddrs : PendingIn(d, w)' /\ PendingIn(e, w)' => e = d
    BY <1>1, <1>13, <2>2 DEF WritesOwned
  <2>7. \A u \in Threads, w \in WAddrs : fresh'[u] = w =>
          /\ ~\E d \in DAddrs : PendingIn(d, w)'
          /\ \A v \in Threads : fresh'[v] = w => v = u
    BY <1>1, <1>13, <2>1, <2>3 DEF WritesOwned
  <2> QED  BY <2>5, <2>6, <2>7 DEF WritesOwned
<1>15. AlwaysPending' /\ AfterDrop'
  <2>1. F # Null  BY <1>4, SealedAssumption DEF Addrs
  <2> QED  BY <1>1, <1>3, <1>4, <1>7, <1>8, <1>10, <2>1 DEF AlwaysPending, AfterDrop
<1>16. \A u \in Threads \ {t} : ThreadOK(u)'
  <2>1. ASSUME NEW u \in Threads \ {t}
        PROVE  /\ cur[u] # Null => heap'[cur[u]] # "free"
               /\ target[u] # Null => heap'[target[u]] # "free"
               /\ Helping(u) => heap'[wd[u]] = "retired" \/ PendingIn(cur[u], wd[u])'
    <3>1. cur[u] # Null => heap'[cur[u]] # "free"  BY <1>10, Holds
    <3>2. target[u] # Null => heap'[target[u]] # "free"  BY <1>10, Holds
    <3>3. Helping(u) => heap'[wd[u]] = "retired" \/ PendingIn(cur[u], wd[u])'
      <4> SUFFICES ASSUME Helping(u)
                   PROVE  heap'[wd[u]] = "retired" \/ PendingIn(cur[u], wd[u])'
        OBVIOUS
      <4>1. wd[u] \in WAddrs /\ cur[u] \in DAddrs
        BY Holds
      <4>2. CASE heap[wd[u]] = "retired" \/ wd[u] = W  BY <1>10, <4>1, <4>2
      <4>3. CASE PendingIn(cur[u], wd[u]) /\ wd[u] # W
        <5>1. cur[u] # T  BY <4>3 DEF PendingIn, W
        <5> QED  BY <1>11, <1>13, <4>1, <4>3, <5>1 DEF OthersStay
      <4> QED  BY <4>2, <4>3, Holds
    <3> QED  BY <3>1, <3>2, <3>3
  <2>2. \A u \in Threads \ {t} : next[u] # Null => cur'[t] # next[u] /\ target'[t] # next[u]
    BY <1>11, Holds DEF c
  <2> QED  BY <1>11, <2>1, <2>2, OthersKeep
<1> QED  BY <1>11, <1>12, <1>14, <1>15, <1>16 DEF MemoryInv, SingleOwner, ThreadOK

\* The boxes of the next Descriptor are nobody else's.
LEMMA MakeNextKeeps ==
  ASSUME MemoryInv, NEW t \in Threads, pc[t] = "read_elem", NEW size \in Int, NEW write,
         MakeNext(t, size, write)
  PROVE  MemoryInv'
<1> USE DEF MakeNext, Goto, call
<1>1. MemoryTypeOK /\ Scopes(t) /\ WritesOwned /\ DescriptorsOwned /\ AlwaysPending
  BY DEF MemoryInv, SingleOwner
<1>2. PICK n \in DAddrs : \E m \in WAddrs :
        /\ heap[n] = "free" /\ heap[m] = "free"
        /\ heap'  = [heap EXCEPT ![n] = "used", ![m] = "used"]
        /\ descs' = [descs EXCEPT ![n] = [size |-> size, pending |-> m]]
        /\ next'  = [next EXCEPT ![t] = n]
  BY DEF FreeAmong
<1>3. PICK m \in WAddrs :
        /\ heap[n] = "free" /\ heap[m] = "free"
        /\ heap'  = [heap EXCEPT ![n] = "used", ![m] = "used"]
        /\ descs' = [descs EXCEPT ![n] = [size |-> size, pending |-> m]]
        /\ next'  = [next EXCEPT ![t] = n]
  BY <1>2
<1>4. ~dropped  BY InACall DEF Resting
<1>5. /\ \A d \in DAddrs : heap'[d] = IF d = n THEN "used" ELSE heap[d]
      /\ \A w \in WAddrs : heap'[w] = IF w = m THEN "used" ELSE heap[w]
      /\ \A d \in DAddrs : descs'[d].pending = IF d = n THEN m ELSE descs[d].pending
  BY <1>1, <1>3, SealedAssumption DEF MemoryTypeOK, Addrs
<1>6. MemoryTypeOK'
  <2>1. heap' \in [Addrs -> {"free", "used", "retired"}]  BY <1>1, <1>3 DEF MemoryTypeOK
  <2>2. descs' \in [DAddrs -> [size : Int, pending : WAddrs \cup {Null}]]
    BY <1>1, <1>3 DEF MemoryTypeOK
  <2>3. next' \in [Threads -> DAddrs \cup {Null}]  BY <1>1, <1>3 DEF MemoryTypeOK
  <2>4. pc' \in [Threads -> Labels]  BY <1>1 DEF MemoryTypeOK, Labels
  <2> QED  BY <1>1, <2>1, <2>2, <2>3, <2>4 DEF MemoryTypeOK
<1>7. OthersStay(t)  BY <1>1, <1>3 DEF OthersStay, MemoryTypeOK
<1>8. /\ pc'[t] = "swap_descriptor" /\ next'[t] = n /\ hazards'[t] = hazards[t]
      /\ cur'[t] = cur[t] /\ wd'[t] = Null /\ target'[t] = Null /\ fresh'[t] = Null
      /\ ret'[t] = "idle" /\ next[t] = Null /\ fresh[t] = Null /\ cur[t] # Null
  BY <1>1, <1>3 DEF MemoryTypeOK, Scopes, HasDesc, Writing
<1>9. /\ n # Null /\ m # Null /\ n # descriptor
      /\ \A u \in Threads : cur[u] # n /\ target[u] # n /\ next[u] # n
  <2>1. n # Null /\ m # Null  BY SealedAssumption DEF Addrs
  <2>2. heap[descriptor] = "used"  BY InACall DEF Resting
  <2> QED  BY <1>3, <2>1, <2>2, Holds
<1>10. DescriptorsOwned'
  <2>1. \A u \in Threads, d \in DAddrs : Owns(u, d)' <=> Owns(u, d) \/ (u = t /\ d = n)
    BY <1>7, <1>8, SealedAssumption DEF Owns, Completing, Own, OthersStay, Writing, Addrs
  <2>2. \A u \in Threads : ~Owns(u, n)  BY <1>1, <1>3 DEF DescriptorsOwned
  <2>3. \A d \in DAddrs : VectorOwns(d)' <=> VectorOwns(d)  BY DEF VectorOwns
  <2>4. ~VectorOwns(n)  BY <1>9 DEF VectorOwns
  <2>5. \A d \in DAddrs :
          heap'[d] = "used" <=> VectorOwns(d)' \/ \E u \in Threads : Owns(u, d)'
    BY <1>1, <1>5, <2>1, <2>3 DEF DescriptorsOwned
  <2>6. \A d \in DAddrs, u \in Threads : Owns(u, d)' =>
          ~VectorOwns(d)' /\ \A v \in Threads : Owns(v, d)' => v = u
    BY <1>1, <2>1, <2>2, <2>3, <2>4 DEF DescriptorsOwned
  <2> QED  BY <2>5, <2>6 DEF DescriptorsOwned
<1>11. \A d \in DAddrs, w \in WAddrs :
         PendingIn(d, w)' <=> (d = n /\ w = m) \/ (d # n /\ PendingIn(d, w))
  BY <1>5 DEF PendingIn
<1>12. WritesOwned'
  <2>1. \A u \in Threads : fresh'[u] = fresh[u]  BY <1>7, <1>8 DEF OthersStay
  <2>2. \A d \in DAddrs : ~PendingIn(d, m)  BY <1>1, <1>3 DEF WritesOwned
  <2>3. \A u \in Threads : fresh[u] # m  BY <1>1, <1>3 DEF WritesOwned
  <2>4. \A w \in WAddrs : ~PendingIn(n, w)  BY <1>3 DEF PendingIn
  <2>5. \A d \in DAddrs, w \in WAddrs : PendingIn(d, w)' <=> PendingIn(d, w) \/ (d = n /\ w = m)
    BY <1>11, <2>4
  <2>6. \A w \in WAddrs : heap'[w] = "used" <=>
          (\E u \in Threads : fresh'[u] = w) \/ \E d \in DAddrs : PendingIn(d, w)'
    <3> SUFFICES ASSUME NEW w \in WAddrs
                 PROVE  heap'[w] = "used" <=>
                          (\E u \in Threads : fresh'[u] = w) \/ \E d \in DAddrs : PendingIn(d, w)'
      OBVIOUS
    <3>1. CASE w = m  BY <1>5, <2>5, <3>1
    <3>2. CASE w # m
      <4>1. heap'[w] = heap[w] /\ \A d \in DAddrs : PendingIn(d, w)' <=> PendingIn(d, w)
        BY <1>5, <2>5, <3>2
      <4> QED  BY <1>1, <2>1, <4>1 DEF WritesOwned
    <3> QED  BY <3>1, <3>2
  <2>7. \A d, e \in DAddrs, w \in WAddrs : PendingIn(d, w)' /\ PendingIn(e, w)' => e = d
    BY <1>1, <2>2, <2>5 DEF WritesOwned
  <2>8. \A u \in Threads, w \in WAddrs : fresh'[u] = w =>
          /\ ~\E d \in DAddrs : PendingIn(d, w)'
          /\ \A v \in Threads : fresh'[v] = w => v = u
    BY <1>1, <2>1, <2>3, <2>5 DEF WritesOwned
  <2> QED  BY <2>6, <2>7, <2>8 DEF WritesOwned
<1>13. AlwaysPending' /\ AfterDrop'
  BY <1>1, <1>4, <1>5, <1>9 DEF AlwaysPending, AfterDrop
<1>14. ThreadOK(t)'
  <2>1. cur[t] \in DAddrs /\ cur[t] \in hazards[t] /\ heap[cur[t]] # "free"
    BY <1>8, Holds
  <2>2. Scopes(t)'  BY <1>8, <1>9 DEF Scopes, HasDesc, Writing, Own
  <2>3. Protected(t)'  BY <1>5, <1>8, <2>1 DEF Protected, Helping
  <2>4. Private(t)'  BY <1>7, <1>8, <1>9 DEF Private, OthersStay
  <2> QED  BY <2>2, <2>3, <2>4 DEF ThreadOK
<1>15. \A u \in Threads \ {t} : ThreadOK(u)'
  <2>1. ASSUME NEW u \in Threads \ {t}
        PROVE  /\ cur[u] # Null => heap'[cur[u]] # "free"
               /\ target[u] # Null => heap'[target[u]] # "free"
               /\ Helping(u) => heap'[wd[u]] = "retired" \/ PendingIn(cur[u], wd[u])'
    <3>1. cur[u] # Null => heap'[cur[u]] # "free"  BY <1>5, Holds
    <3>2. target[u] # Null => heap'[target[u]] # "free"  BY <1>5, Holds
    <3>3. Helping(u) => heap'[wd[u]] = "retired" \/ PendingIn(cur[u], wd[u])'
      <4> SUFFICES ASSUME Helping(u)
                   PROVE  heap'[wd[u]] = "retired" \/ PendingIn(cur[u], wd[u])'
        OBVIOUS
      <4>0. wd[u] \in WAddrs /\ cur[u] \in DAddrs /\ cur[u] # n  BY <1>9, Holds
      <4>1. CASE heap[wd[u]] = "retired"
        <5>1. wd[u] # m  BY <1>3, <4>1
        <5> QED  BY <1>5, <4>0, <4>1, <5>1
      <4>2. CASE PendingIn(cur[u], wd[u])
        BY <1>7, <1>11, <4>0, <4>2 DEF OthersStay
      <4> QED  BY <4>1, <4>2, Holds
    <3> QED  BY <3>1, <3>2, <3>3
  <2>2. \A u \in Threads \ {t} : next[u] # Null => cur'[t] # next[u] /\ target'[t] # next[u]
    BY <1>8, Holds
  <2> QED  BY <1>7, <2>1, <2>2, OthersKeep
<1> QED  BY <1>6, <1>10, <1>12, <1>13, <1>14, <1>15 DEF MemoryInv, SingleOwner, ThreadOK

LEMMA MakesKeep ==
  ASSUME MemoryInv, NEW t \in Threads, ReadOld(t) \/ ReadLast(t)
  PROVE  MemoryInv'
<1>1. MemoryTypeOK /\ Scopes(t) /\ pc[t] = "read_elem"  BY DEF MemoryInv, ReadOld, ReadLast
<1>2. cur[t] \in DAddrs /\ descs[cur[t]].size \in Int
  BY <1>1 DEF Scopes, HasDesc, MemoryTypeOK
<1>3. \E size \in Int : \E write : MakeNext(t, size, write)
  <2>1. CASE ReadOld(t)
    <3>1. descs[cur[t]].size + 1 \in Int  BY <1>2
    <3> QED  BY <2>1, <3>1 DEF ReadOld
  <2>2. CASE ReadLast(t)
    <3>1. descs[cur[t]].size - 1 \in Int  BY <1>2
    <3> QED  BY <2>2, <3>1 DEF ReadLast
  <2> QED  BY <2>1, <2>2
<1> QED  BY <1>1, <1>3, MakeNextKeeps

\* What was current, and what takes its place.
LEMMA Swapping ==
  ASSUME MemoryInv, NEW t \in Threads, SwapDescriptor(t)
  PROVE  /\ ~dropped /\ cur[t] = descriptor /\ descriptor \in DAddrs /\ heap[descriptor] = "used"
         /\ descriptor' = next[t] /\ next[t] \in DAddrs /\ heap[next[t]] = "used"
         /\ next[t] # descriptor
         /\ \A u \in Threads : ~Owns(u, descriptor) /\ (Owns(u, next[t]) => u = t)
         /\ wd[t] = Null /\ target[t] = Null /\ fresh[t] = Null /\ ret[t] = "idle"
         /\ \A u \in Threads : next[u] # Null => next[u] # descriptor
<1>1. MemoryTypeOK /\ Scopes(t) /\ DescriptorsOwned  BY DEF MemoryInv, SingleOwner
<1>2. pc[t] = "swap_descriptor" /\ cur[t] = descriptor /\ descriptor' = next[t]
  BY DEF SwapDescriptor
<1>3. ~dropped /\ heap[descriptor] = "used" /\ \A u \in Threads : next[u] # descriptor
  BY <1>2, InACall DEF Resting
<1>4. next[t] \in DAddrs /\ heap[next[t]] = "used" /\ Owns(t, next[t])
  BY <1>1, <1>2, Holds DEF Scopes
<1>5. descriptor \in DAddrs /\ VectorOwns(descriptor)
  BY <1>1, <1>3 DEF VectorOwns, MemoryTypeOK
<1>6. \A u \in Threads : ~Owns(u, descriptor) /\ (Owns(u, next[t]) => u = t)
  BY <1>1, <1>4, <1>5 DEF DescriptorsOwned
<1>7. wd[t] = Null /\ target[t] = Null /\ fresh[t] = Null /\ ret[t] = "idle"
  BY <1>1, <1>2 DEF Scopes, Writing
<1> QED  BY <1>2, <1>3, <1>4, <1>5, <1>6, <1>7

\* Push owns the Descriptor that it has replaced until it retires it.
LEMMA PushSwapsKeeps ==
  ASSUME MemoryInv, NEW t \in Threads, PushSwaps(t)
  PROVE  MemoryInv'
<1> USE DEF PushSwaps, Goto, call
<1> DEFINE n == next[t]
<1>1. MemoryTypeOK /\ Scopes(t) /\ AlwaysPending /\ DescriptorsOwned
  BY DEF MemoryInv, SingleOwner
<1>2. descs[n].pending \in WAddrs /\ descs[n].pending # Null
  BY <1>1, Swapping DEF AlwaysPending, MemoryTypeOK
<1>3. MemoryTypeOK'
  <2>1. wd' \in [Threads -> WAddrs \cup {Null}]  BY <1>1, <1>2 DEF MemoryTypeOK
  <2>2. pc' \in [Threads -> Labels]  BY <1>1 DEF MemoryTypeOK, Labels
  <2>3. next' \in [Threads -> DAddrs \cup {Null}]
        /\ ret' \in [Threads -> {"idle", "check_bucket", "read_elem"}]
    BY <1>1 DEF MemoryTypeOK
  <2>4. descriptor' \in DAddrs  BY Swapping
  <2> QED  BY <1>1, <2>1, <2>2, <2>3, <2>4 DEF MemoryTypeOK
<1>4. OthersStay(t)  BY <1>1 DEF OthersStay, MemoryTypeOK
<1>5. /\ pc'[t] = "write_cell" /\ next'[t] = Null /\ ret'[t] = "idle" /\ op'[t] = "push"
      /\ wd'[t] = descs[n].pending /\ cur'[t] = cur[t] /\ hazards'[t] = hazards[t]
      /\ target'[t] = Null /\ fresh'[t] = Null /\ fresh[t] = Null
  BY <1>1, Swapping DEF MemoryTypeOK
<1>6. DescriptorsOwned'
  <2>1. \A u \in Threads, d \in DAddrs :
          Owns(u, d)' <=> (u # t /\ Owns(u, d)) \/ (u = t /\ d = cur[t])
    BY <1>4, <1>5, SealedAssumption DEF Owns, Completing, Own, OthersStay, Writing, Addrs
  <2>2. \A d \in DAddrs : VectorOwns(d)' <=> d = n
    BY Swapping DEF VectorOwns
  <2>3. \A d \in DAddrs : Owns(t, d) <=> d = n
    BY Swapping, SealedAssumption DEF Owns, Completing, SwapDescriptor, Writing
  <2>4. \A d \in DAddrs : VectorOwns(d) <=> d = descriptor  BY Swapping DEF VectorOwns
  <2> QED  BY <1>1, <2>1, <2>2, <2>3, <2>4, Swapping DEF DescriptorsOwned
<1>7. WritesOwned'
  <2>1. \A u \in Threads : fresh'[u] = fresh[u]  BY <1>4, <1>5 DEF OthersStay
  <2> QED  BY <2>1 DEF MemoryInv, SingleOwner, WritesOwned, PendingIn
<1>8. AlwaysPending' /\ AfterDrop'
  BY <1>1, Swapping DEF AlwaysPending, AfterDrop
<1>9. ThreadOK(t)'
  <2>1. cur[t] # Null /\ cur[t] \in hazards[t] /\ heap[cur[t]] # "free"
    BY Holds, Swapping, SealedAssumption DEF Addrs
  <2>2. Scopes(t)'  BY <1>2, <1>5, <2>1 DEF Scopes, HasDesc, Writing, Own
  <2>3. Protected(t)'  BY <1>5, <2>1 DEF Protected, Helping, Own
  <2>4. Private(t)'  BY <1>5 DEF Private
  <2> QED  BY <2>2, <2>3, <2>4 DEF ThreadOK
<1>10. \A u \in Threads \ {t} : ThreadOK(u)'
  <2>1. ASSUME NEW u \in Threads \ {t}
        PROVE  /\ cur[u] # Null => heap'[cur[u]] # "free"
               /\ target[u] # Null => heap'[target[u]] # "free"
               /\ Helping(u) => heap'[wd[u]] = "retired" \/ PendingIn(cur[u], wd[u])'
    BY <1>4, Holds DEF OthersStay, PendingIn
  <2>2. \A u \in Threads \ {t} : next[u] # Null => cur'[t] # next[u] /\ target'[t] # next[u]
    BY <1>5, Swapping
  <2> QED  BY <1>4, <2>1, <2>2, OthersKeep
<1> QED  BY <1>3, <1>6, <1>7, <1>8, <1>9, <1>10 DEF MemoryInv, SingleOwner, ThreadOK

LEMMA PopSwapsKeeps ==
  ASSUME MemoryInv, NEW t \in Threads, PopSwaps(t)
  PROVE  MemoryInv'
<1> USE DEF PopSwaps, Return
<1> DEFINE n == next[t]
<1>1. MemoryTypeOK /\ Scopes(t) /\ AlwaysPending /\ DescriptorsOwned
  BY DEF MemoryInv, SingleOwner
<1>2. EndOfScope(t) /\ Goto(t, "idle") /\ UNCHANGED <<op, descs, dropped>>
  OBVIOUS
<1>3. MemoryTypeOK'
  <2>1. heap' \in [Addrs -> {"free", "used", "retired"}]  BY <1>1 DEF MemoryTypeOK
  <2>2. descriptor' \in DAddrs  BY Swapping
  <2> QED  BY <1>1, <1>2, <2>1, <2>2, EndLocals DEF MemoryTypeOK
<1>4. OthersStay(t) /\ next'[t] = Null /\ fresh'[t] = Null /\ pc'[t] = "idle"
      /\ cur'[t] = Null /\ target'[t] = Null /\ ThreadOK(t)'
  <2>1. pc'[t] = "idle" /\ target'[t] = Null
    BY <1>1, <1>2 DEF Goto, EndOfScope, MemoryTypeOK
  <2> QED  BY <1>2, <2>1, EndLocals
<1>5. /\ \A d \in DAddrs : heap'[d] = IF d = descriptor THEN "retired" ELSE heap[d]
      /\ \A w \in WAddrs : heap'[w] = heap[w]
  BY <1>1, Swapping, SealedAssumption DEF MemoryTypeOK, Addrs
<1>6. DescriptorsOwned'
  <2>1. \A u \in Threads, d \in DAddrs : Owns(u, d)' <=> u # t /\ Owns(u, d)
    BY <1>4, SealedAssumption DEF Owns, Completing, Own, OthersStay, Writing, Addrs
  <2>2. \A d \in DAddrs : VectorOwns(d)' <=> d = n
    BY Swapping DEF VectorOwns
  <2>3. \A d \in DAddrs : Owns(t, d) <=> d = n
    BY Swapping, SealedAssumption DEF Owns, Completing, SwapDescriptor, Writing
  <2>4. \A d \in DAddrs : VectorOwns(d) <=> d = descriptor  BY Swapping DEF VectorOwns
  <2> QED  BY <1>1, <1>5, <2>1, <2>2, <2>3, <2>4, Swapping DEF DescriptorsOwned
<1>7. \A d \in DAddrs, w \in WAddrs : PendingIn(d, w)' <=> PendingIn(d, w)
  BY <1>5, Swapping DEF PendingIn
<1>8. WritesOwned'
  <2>1. \A u \in Threads : fresh'[u] = fresh[u]  BY <1>4, Swapping DEF OthersStay
  <2> QED  BY <1>5, <1>7, <2>1 DEF MemoryInv, SingleOwner, WritesOwned
<1>9. AlwaysPending' /\ AfterDrop'
  BY <1>1, <1>5, Swapping DEF AlwaysPending, AfterDrop
<1>10. \A u \in Threads \ {t} : ThreadOK(u)'
  <2>1. ASSUME NEW u \in Threads \ {t}
        PROVE  /\ cur[u] # Null => heap'[cur[u]] # "free"
               /\ target[u] # Null => heap'[target[u]] # "free"
               /\ Helping(u) => heap'[wd[u]] = "retired" \/ PendingIn(cur[u], wd[u])'
    <3>1. cur[u] # Null => heap'[cur[u]] # "free"  BY <1>5, Holds
    <3>2. target[u] # Null => heap'[target[u]] # "free"  BY <1>5, Holds
    <3>3. Helping(u) => heap'[wd[u]] = "retired" \/ PendingIn(cur[u], wd[u])'
      BY <1>4, <1>5, <1>7, Holds DEF OthersStay
    <3> QED  BY <3>1, <3>2, <3>3
  <2>2. \A u \in Threads \ {t} : next[u] # Null => cur'[t] # next[u] /\ target'[t] # next[u]
    BY <1>4
  <2> QED  BY <1>4, <2>1, <2>2, OthersKeep
<1> QED  BY <1>3, <1>4, <1>6, <1>8, <1>9, <1>10 DEF MemoryInv, SingleOwner, ThreadOK

-----------------------------------------------------------------------------
(* Steps that free a Descriptor *)

\* Its write descriptor goes with it: that one was pending nowhere else, so
\* that no helper has it but by a Descriptor that it protects.
LEMMA FreedKeeps ==
  ASSUME MemoryInv, NEW d \in DAddrs, heap[d] # "free", FreeDescriptor(d),
         \A u \in Threads : fresh'[u] = fresh[u],
         NEW S, S \subseteq Threads, \A u \in S : cur[u] # d /\ target[u] # d /\ cur'[u] = cur[u]
                                                /\ wd'[u] = wd[u]
  PROVE  /\ heap' \in [Addrs -> {"free", "used", "retired"}]
         /\ descs' \in [DAddrs -> [size : Int, pending : WAddrs \cup {Null}]]
         /\ \A e \in DAddrs : heap'[e] = IF e = d THEN "free" ELSE heap[e]
         /\ \A a \in Addrs : heap[a] = "free" => heap'[a] = "free"
         /\ WritesOwned' /\ AlwaysPending'
         /\ \A u \in S : /\ cur[u] # Null => heap'[cur[u]] # "free"
                         /\ target[u] # Null => heap'[target[u]] # "free"
                         /\ Helping(u) => heap'[wd[u]] = "retired" \/ PendingIn(cur[u], wd[u])'
<1> DEFINE p == descs[d].pending
<1>1. MemoryTypeOK /\ WritesOwned /\ AlwaysPending  BY DEF MemoryInv, SingleOwner
<1>2. p \in WAddrs /\ PendingIn(d, p)
  BY <1>1 DEF AlwaysPending, PendingIn, MemoryTypeOK
<1>3. heap[p] = "used" /\ \A u \in Threads : fresh[u] # p
  BY <1>1, <1>2 DEF WritesOwned
<1>4. \A a \in Addrs : heap'[a] = IF a \in {d, p} THEN "free" ELSE heap[a]
  BY DEF FreeDescriptor, FreedWith
<1>5. heap' \in [Addrs -> {"free", "used", "retired"}]
  BY <1>1 DEF FreeDescriptor, MemoryTypeOK
<1>6. descs' \in [DAddrs -> [size : Int, pending : WAddrs \cup {Null}]]
  <2>1. Blank \in [size : Int, pending : WAddrs \cup {Null}]  BY DEF Blank
  <2> QED  BY <1>1, <2>1 DEF FreeDescriptor, MemoryTypeOK
<1>7. \A e \in DAddrs : e # d => descs'[e] = descs[e]
  BY <1>1 DEF FreeDescriptor, MemoryTypeOK
<1> HIDE DEF p
<1>8. /\ \A e \in DAddrs : heap'[e] = IF e = d THEN "free" ELSE heap[e]
      /\ \A w \in WAddrs : heap'[w] = IF w = p THEN "free" ELSE heap[w]
  BY <1>2, <1>4, SealedAssumption DEF Addrs
<1>9. \A e \in DAddrs, w \in WAddrs : PendingIn(e, w)' <=> e # d /\ PendingIn(e, w)
  BY <1>7, <1>8 DEF PendingIn
<1>10. /\ \A e \in DAddrs : PendingIn(e, p) <=> e = d
       /\ \A w \in WAddrs : PendingIn(d, w) <=> w = p
  BY <1>1, <1>2 DEF WritesOwned, PendingIn
<1>11. WritesOwned'
  <2>1. \A w \in WAddrs : heap'[w] = "used" <=>
          (\E u \in Threads : fresh'[u] = w) \/ \E e \in DAddrs : PendingIn(e, w)'
    <3> SUFFICES ASSUME NEW w \in WAddrs
                 PROVE  heap'[w] = "used" <=>
                          (\E u \in Threads : fresh'[u] = w) \/ \E e \in DAddrs : PendingIn(e, w)'
      OBVIOUS
    <3>1. CASE w = p  BY <1>3, <1>8, <1>9, <1>10, <3>1
    <3>2. CASE w # p
      <4>1. heap'[w] = heap[w] /\ \A e \in DAddrs : PendingIn(e, w)' <=> PendingIn(e, w)
        BY <1>8, <1>9, <1>10, <3>2
      <4> QED  BY <1>1, <4>1 DEF WritesOwned
    <3> QED  BY <3>1, <3>2
  <2>2. \A e, g \in DAddrs, w \in WAddrs : PendingIn(e, w)' /\ PendingIn(g, w)' => g = e
    BY <1>1, <1>9 DEF WritesOwned
  <2>3. \A u \in Threads, w \in WAddrs : fresh'[u] = w =>
          /\ ~\E e \in DAddrs : PendingIn(e, w)'
          /\ \A v \in Threads : fresh'[v] = w => v = u
    BY <1>1, <1>9 DEF WritesOwned
  <2> QED  BY <2>1, <2>2, <2>3 DEF WritesOwned
<1>12. AlwaysPending'  BY <1>1, <1>7, <1>8 DEF AlwaysPending
<1>13. ASSUME NEW u \in S
       PROVE  /\ cur[u] # Null => heap'[cur[u]] # "free"
              /\ target[u] # Null => heap'[target[u]] # "free"
              /\ Helping(u) => heap'[wd[u]] = "retired" \/ PendingIn(cur[u], wd[u])'
  <2>1. u \in Threads  BY <1>13
  <2>2. cur[u] # Null => heap'[cur[u]] # "free"  BY <1>8, <2>1, Holds
  <2>3. target[u] # Null => heap'[target[u]] # "free"  BY <1>8, <2>1, Holds
  <2>4. ASSUME Helping(u)  PROVE heap'[wd[u]] = "retired" \/ PendingIn(cur[u], wd[u])'
    <3>1. wd[u] \in WAddrs /\ cur[u] \in DAddrs  BY <2>1, <2>4, Holds
    <3>2. CASE heap[wd[u]] = "retired"  BY <1>3, <1>8, <3>1, <3>2
    <3>3. CASE PendingIn(cur[u], wd[u])  BY <1>9, <3>1, <3>3
    <3> QED  BY <2>1, <2>4, <3>2, <3>3, Holds
  <2> QED  BY <2>2, <2>3, <2>4
<1>14. \A a \in Addrs : heap[a] = "free" => heap'[a] = "free"  BY <1>4
<1> QED  BY <1>5, <1>6, <1>8, <1>11, <1>12, <1>13, <1>14

\* A Descriptor that was not swapped in is freed: nobody has seen it.
LEMMA RetrySwapKeeps ==
  ASSUME MemoryInv, NEW t \in Threads, RetrySwap(t)
  PROVE  MemoryInv'
<1> USE DEF RetrySwap, call
<1>1. MemoryTypeOK /\ Scopes(t) /\ DescriptorsOwned  BY DEF MemoryInv, SingleOwner
<1>0. PICK n \in DAddrs : n = next[t]  BY <1>1, Holds DEF Scopes
<1>2. /\ heap[n] = "used" /\ Owns(t, n)
      /\ \A u \in Threads : cur[u] # n /\ target[u] # n
  BY <1>0, <1>1, Holds DEF Scopes
<1>3. fresh[t] = Null /\ ~dropped  BY <1>1, InACall DEF Scopes, Resting
<1>4. OthersStay(t) /\ fresh'[t] = Null /\ next'[t] = Null /\ cur'[t] = Null /\ ThreadOK(t)'
      /\ pc'[t] \in {"idle", "panicked", "load_descriptor"}
  BY EndLocals
<1>5. target'[t] = Null  BY <1>1 DEF EndOfScope, MemoryTypeOK
<1>6. \A u \in Threads : fresh'[u] = fresh[u]  BY <1>3, <1>4 DEF OthersStay
<1>7. /\ heap' \in [Addrs -> {"free", "used", "retired"}]
      /\ descs' \in [DAddrs -> [size : Int, pending : WAddrs \cup {Null}]]
      /\ \A e \in DAddrs : heap'[e] = IF e = n THEN "free" ELSE heap[e]
      /\ WritesOwned' /\ AlwaysPending'
      /\ \A u \in Threads \ {t} :
           /\ cur[u] # Null => heap'[cur[u]] # "free"
           /\ target[u] # Null => heap'[target[u]] # "free"
           /\ Helping(u) => heap'[wd[u]] = "retired" \/ PendingIn(cur[u], wd[u])'
  <2>1. PICK S : S = Threads \ {t}  OBVIOUS
  <2>2. S \subseteq Threads /\ heap[n] # "free" /\ FreeDescriptor(n)  BY <1>0, <1>2, <2>1
  <2>3. \A u \in S : cur[u] # n /\ target[u] # n /\ cur'[u] = cur[u] /\ wd'[u] = wd[u]
    BY <1>2, <1>4, <2>1 DEF OthersStay
  <2> HIDE DEF RetrySwap
  <2> QED  BY <1>6, <2>1, <2>2, <2>3, FreedKeeps
<1>8. MemoryTypeOK'  BY <1>1, <1>7, EndLocals DEF MemoryTypeOK
<1>9. DescriptorsOwned'
  <2>1. \A u \in Threads, d \in DAddrs : Owns(u, d)' <=> u # t /\ Owns(u, d)
    BY <1>4, SealedAssumption DEF Owns, Completing, Own, OthersStay, Writing, Addrs
  <2>2. \A d \in DAddrs : VectorOwns(d)' <=> VectorOwns(d)  BY DEF VectorOwns
  <2>3. \A d \in DAddrs : Owns(t, d) <=> d = n
    BY <1>0, <1>2 DEF Owns, Completing, Writing
  <2>4. ~VectorOwns(n) /\ \A u \in Threads : Owns(u, n) => u = t
    BY <1>1, <1>2 DEF DescriptorsOwned
  <2> QED  BY <1>1, <1>7, <2>1, <2>2, <2>3, <2>4 DEF DescriptorsOwned
<1>10. AfterDrop'  BY <1>3 DEF AfterDrop
<1>11. \A u \in Threads \ {t} : ThreadOK(u)'
  <2>1. \A u \in Threads \ {t} : next[u] # Null => cur'[t] # next[u] /\ target'[t] # next[u]
    BY <1>4, <1>5
  <2> QED  BY <1>4, <1>7, <2>1, OthersKeep
<1> QED  BY <1>4, <1>7, <1>8, <1>9, <1>10, <1>11 DEF MemoryInv, SingleOwner, ThreadOK

\* Nothing but the memory changes.
LEMMA DomainKeeps ==
  ASSUME MemoryInv, UNCHANGED locals, UNCHANGED <<descriptor, dropped>>,
         descs' \in [DAddrs -> [size : Int, pending : WAddrs \cup {Null}]],
         heap' \in [Addrs -> {"free", "used", "retired"}],
         \A d \in DAddrs : heap'[d] = "used" <=> heap[d] = "used",
         \A a \in Addrs : heap[a] = "free" => heap'[a] = "free",
         WritesOwned', AlwaysPending',
         \A u \in Threads :
           /\ cur[u] # Null => heap'[cur[u]] # "free"
           /\ target[u] # Null => heap'[target[u]] # "free"
           /\ Helping(u) => heap'[wd[u]] = "retired" \/ PendingIn(cur[u], wd[u])'
  PROVE  MemoryInv'
<1> USE DEF locals
<1>1. MemoryTypeOK'  BY DEF MemoryInv, MemoryTypeOK
<1>2. DescriptorsOwned'
  BY DEF MemoryInv, SingleOwner, DescriptorsOwned, VectorOwns, Owns, Completing, Own
<1>3. AfterDrop'  BY DEF MemoryInv, AfterDrop
<1>4. ASSUME NEW u \in Threads  PROVE Scopes(u)' /\ Protected(u)' /\ Private(u)'
  <2>1. Scopes(u) /\ Protected(u) /\ Private(u)  BY DEF MemoryInv
  <2> QED  BY <2>1 DEF Scopes, Protected, Private, Helping, Own
<1> QED  BY <1>1, <1>2, <1>3, <1>4 DEF MemoryInv, SingleOwner

LEMMA ReclaimDescriptorKeeps ==
  ASSUME MemoryInv, ReclaimDescriptor
  PROVE  MemoryInv'
<1>1. PICK d \in DAddrs : heap[d] = "retired" /\ Unprotected(d) /\ FreeDescriptor(d)
  BY DEF ReclaimDescriptor
<1>2. UNCHANGED locals /\ UNCHANGED <<descriptor, dropped>>
  BY DEF ReclaimDescriptor, locals, call, work
<1>3. \A u \in Threads : cur[u] # d /\ target[u] # d /\ cur'[u] = cur[u] /\ wd'[u] = wd[u]
                         /\ fresh'[u] = fresh[u]
  BY <1>1, <1>2, Holds, SealedAssumption DEF Unprotected, locals, Addrs
<1>4. /\ heap' \in [Addrs -> {"free", "used", "retired"}]
      /\ descs' \in [DAddrs -> [size : Int, pending : WAddrs \cup {Null}]]
      /\ \A e \in DAddrs : heap'[e] = IF e = d THEN "free" ELSE heap[e]
      /\ \A a \in Addrs : heap[a] = "free" => heap'[a] = "free"
      /\ WritesOwned' /\ AlwaysPending'
      /\ \A u \in Threads :
           /\ cur[u] # Null => heap'[cur[u]] # "free"
           /\ target[u] # Null => heap'[target[u]] # "free"
           /\ Helping(u) => heap'[wd[u]] = "retired" \/ PendingIn(cur[u], wd[u])'
  <2>1. heap[d] # "free" /\ FreeDescriptor(d) /\ Threads \subseteq Threads  BY <1>1
  <2> QED  BY <1>3, <2>1, FreedKeeps
<1>5. \A e \in DAddrs : heap'[e] = "used" <=> heap[e] = "used"  BY <1>1, <1>4
<1> QED  BY <1>2, <1>4, <1>5, DomainKeeps

\* A write descriptor that was retired is pending nowhere, and a helper that
\* still has it protects it.
LEMMA ReclaimWriteKeeps ==
  ASSUME MemoryInv, ReclaimWrite
  PROVE  MemoryInv'
<1>1. PICK w \in WAddrs : heap[w] = "retired" /\ Unprotected(w) /\ heap' = [heap EXCEPT ![w] = "free"]
  BY DEF ReclaimWrite
<1>2. UNCHANGED locals /\ UNCHANGED <<descriptor, dropped, descs>>
  BY DEF ReclaimWrite, locals, call, work
<1>3. MemoryTypeOK /\ WritesOwned /\ AlwaysPending  BY DEF MemoryInv, SingleOwner
<1>4. /\ heap' \in [Addrs -> {"free", "used", "retired"}]
      /\ \A d \in DAddrs : heap'[d] = heap[d]
      /\ \A v \in WAddrs : heap'[v] = IF v = w THEN "free" ELSE heap[v]
      /\ \A a \in Addrs : heap[a] = "free" => heap'[a] = "free"
  BY <1>1, <1>3, SealedAssumption DEF MemoryTypeOK, Addrs
<1>5. \A d \in DAddrs, v \in WAddrs : PendingIn(d, v)' <=> PendingIn(d, v)
  BY <1>2, <1>4 DEF PendingIn
<1>6. WritesOwned'  BY <1>1, <1>2, <1>3, <1>4, <1>5 DEF WritesOwned, locals
<1>7. AlwaysPending'  BY <1>2, <1>3, <1>4 DEF AlwaysPending
<1>8. ASSUME NEW u \in Threads
      PROVE  /\ cur[u] # Null => heap'[cur[u]] # "free"
             /\ target[u] # Null => heap'[target[u]] # "free"
             /\ Helping(u) => heap'[wd[u]] = "retired" \/ PendingIn(cur[u], wd[u])'
  <2>1. cur[u] # Null => heap'[cur[u]] # "free"  BY <1>4, Holds
  <2>2. target[u] # Null => heap'[target[u]] # "free"  BY <1>4, Holds
  <2>3. ASSUME Helping(u)  PROVE heap'[wd[u]] = "retired" \/ PendingIn(cur[u], wd[u])'
    <3>1. wd[u] \in WAddrs /\ cur[u] \in DAddrs /\ wd[u] # w
      BY <1>1, <2>3, Holds DEF Unprotected
    <3> QED  BY <1>2, <1>4, <1>5, <2>3, <3>1, Holds DEF locals
  <2> QED  BY <2>1, <2>2, <2>3
<1>9. descs' \in [DAddrs -> [size : Int, pending : WAddrs \cup {Null}]]
  BY <1>2, <1>3 DEF MemoryTypeOK
<1>10. \A d \in DAddrs : heap'[d] = "used" <=> heap[d] = "used"  BY <1>4
<1> QED  BY <1>2, <1>4, <1>6, <1>7, <1>8, <1>9, <1>10, DomainKeeps

-----------------------------------------------------------------------------

\* With no call in progress only the vector owns a Descriptor, and only a
\* Descriptor has a write descriptor: everything goes.
LEMMA DropKeeps ==
  ASSUME MemoryInv, Drop
  PROVE  MemoryInv'
<1> USE DEF Drop, call, work
<1>1. MemoryTypeOK /\ DescriptorsOwned /\ WritesOwned  BY DEF MemoryInv, SingleOwner
<1>2. \A t \in Threads : pc[t] \in Resting /\ Scopes(t)  BY DEF MemoryInv, Resting
<1>3. \A t \in Threads :
        /\ cur[t] = Null /\ target[t] = Null /\ fresh[t] = Null /\ next[t] = Null
        /\ ~Completing(t) /\ ~Helping(t)
  BY <1>2 DEF Scopes, Resting, HasDesc, Writing, Completing, Helping
<1>4. \A a \in Addrs : heap'[a] = "free"
  <2>1. ASSUME NEW d \in DAddrs, heap[d] # "free"
        PROVE  heap[d] = "retired" \/ d = descriptor
    BY <1>1, <1>3, <2>1, SealedAssumption
       DEF DescriptorsOwned, VectorOwns, Owns, MemoryTypeOK, Addrs
  <2>2. ASSUME NEW a \in Addrs, NEW d \in DAddrs, heap[d] # "free", a \in FreedWith(d)
        PROVE  heap'[a] = "free"
    BY <2>1, <2>2
  <2>3. ASSUME NEW d \in DAddrs  PROVE heap'[d] = "free"
    BY <1>1, <2>2, <2>3 DEF FreedWith, MemoryTypeOK, Addrs
  <2>4. ASSUME NEW w \in WAddrs  PROVE heap'[w] = "free"
    <3>1. CASE heap[w] = "used"
      <4>1. PICK d \in DAddrs : PendingIn(d, w)
        BY <1>1, <1>3, <3>1, SealedAssumption DEF WritesOwned, Addrs
      <4>2. heap[d] # "free" /\ w \in FreedWith(d) /\ w \in Addrs
        BY <4>1 DEF PendingIn, FreedWith, Addrs
      <4> HIDE DEF Drop
      <4> QED  BY <2>2, <4>2
    <3>2. CASE heap[w] # "used"  BY <1>1, <3>2 DEF MemoryTypeOK, Addrs
    <3> QED  BY <3>1, <3>2
  <2> QED  BY <2>3, <2>4 DEF Addrs
<1>5. MemoryTypeOK'
  <2>1. heap' = [a \in Addrs |-> heap'[a]]  OBVIOUS
  <2>2. heap' \in [Addrs -> {"free", "used", "retired"}]  BY <1>4, <2>1
  <2> QED  BY <1>1, <2>2 DEF MemoryTypeOK
<1>6. DescriptorsOwned'
  BY <1>3, <1>4, SealedAssumption DEF DescriptorsOwned, VectorOwns, Owns, Completing, Own, Addrs
<1>7. WritesOwned'
  <2>1. \A d \in DAddrs, w \in WAddrs : ~PendingIn(d, w)'  BY <1>4 DEF PendingIn, Addrs
  <2>2. \A t \in Threads, w \in WAddrs : fresh'[t] # w  BY <1>3, SealedAssumption DEF Addrs
  <2> QED  BY <1>4, <2>1, <2>2 DEF WritesOwned, Addrs
<1>8. AlwaysPending' /\ AfterDrop'  BY <1>2, <1>4 DEF AlwaysPending, AfterDrop, Addrs
<1>9. ASSUME NEW t \in Threads  PROVE Scopes(t)' /\ Protected(t)' /\ Private(t)'
  BY <1>2, <1>3 DEF Scopes, Protected, Private, Helping, Own
<1> QED  BY <1>5, <1>6, <1>7, <1>8, <1>9 DEF MemoryInv, SingleOwner

LEMMA StutterKeeps == ASSUME MemoryInv, UNCHANGED vars PROVE MemoryInv'
<1> USE DEF vars, shared, vector, call, work
<1>1. MemoryTypeOK' /\ AlwaysPending' /\ AfterDrop'
  BY DEF MemoryInv, MemoryTypeOK, AlwaysPending, AfterDrop
<1>2. SingleOwner'
  BY DEF MemoryInv, SingleOwner, DescriptorsOwned, WritesOwned, VectorOwns, Owns, Completing,
         Own, PendingIn
<1>3. ASSUME NEW t \in Threads  PROVE Scopes(t)' /\ Protected(t)' /\ Private(t)'
  <2>1. Scopes(t) /\ Protected(t) /\ Private(t)  BY DEF MemoryInv
  <2> QED  BY <2>1 DEF Scopes, Protected, Private, Helping, Own, PendingIn
<1> QED  BY <1>1, <1>2, <1>3 DEF MemoryInv

LEMMA StepKeeps ==
  ASSUME MemoryInv, NEW t \in Threads, Step(t)
  PROVE  MemoryInv'
<1>1. CASE CompleteWrite(t)
  BY <1>1, LoadPendingKeeps, WriteCellKeeps, OwnWriteGoneKeeps, LoadTargetKeeps,
     ClearPendingKeeps DEF CompleteWrite
<1>2. CASE Push(t)
  BY <1>2, CheckBucketKeeps, PushAllocatesKeeps, MakesKeep, PushSwapsKeeps DEF Push
<1>3. CASE Pop(t)  BY <1>3, ReturnKeeps, MakesKeep, PopSwapsKeeps DEF Pop
<1>4. CASE Reserve(t)
  BY <1>4, ReserveSizeKeeps, ReserveFirstKeeps, ReserveNextKeeps, ReturnKeeps DEF Reserve
<1> QED
  BY <1>1, <1>2, <1>3, <1>4, LoadDescriptorKeeps, RetrySwapKeeps, ReturnKeeps DEF Step

\* The memory of the vector is in order at every step of every thread and of
\* the domain.
THEOREM MemoryInvariance == Spec => []MemoryInv
<1>1. MemoryInv /\ [Next]_vars => MemoryInv'
  BY CallKeeps, StepKeeps, ReclaimDescriptorKeeps, ReclaimWriteKeeps, DropKeeps, StutterKeeps
     DEF Next, Reclaim, AllDropped
<1> QED  BY <1>1, InitMemory, PTL DEF Spec

\* Every box that is in use has one owner: none is retired or freed twice, and
\* none is forgotten, in whatever order threads swap, help and retry.
THEOREM BoxesHaveOneOwner == Spec => []SingleOwner
<1>1. MemoryInv => SingleOwner  BY DEF MemoryInv
<1> QED  BY <1>1, MemoryInvariance, PTL

\* The hazard pointers do what they are for: no thread uses a Descriptor, or
\* the write descriptor of another thread, that was freed.
THEOREM HeldAreNotFreed == Spec => []HeldIsNotFreed
<1>1. ASSUME MemoryInv  PROVE HeldIsNotFreed
  <2>1. ASSUME NEW t \in Threads, Helping(t)  PROVE heap[wd[t]] # "free"
    BY <1>1, <2>1, Holds DEF MemoryInv, SingleOwner, WritesOwned
  <2> QED  BY <1>1, <2>1, Holds DEF HeldIsNotFreed
<1>2. MemoryInv => HeldIsNotFreed  BY <1>1
<1> QED  BY <1>2, MemoryInvariance, PTL

\* A vector that was dropped leaves no box behind, wherever its threads have
\* stopped or panicked.
THEOREM EverythingIsGivenBack == Spec => []AllGivenBack
<1>1. MemoryInv => AllGivenBack  BY DEF MemoryInv, AfterDrop, AllGivenBack
<1> QED  BY <1>1, MemoryInvariance, PTL

-----------------------------------------------------------------------------
(* Buckets and sizes *)

\* The part of TypeOK that MemoryInv says nothing of.
DataTypeOK ==
  /\ buffers \in [Buffers -> Nat]
  /\ cells \in [Slots -> Nat]
  /\ \A d \in DAddrs : descs[d].size \in Nat
  /\ writes \in [WAddrs -> WriteDescriptor]
  /\ returned \in [Buffers -> Nat]
  /\ arg \in [Threads -> Nat]
  /\ res \in [Threads -> Nat \cup {None}]
  /\ calls \in [Threads -> 0 .. MaxCalls]
  /\ elem \in [Threads -> Nat]
  /\ allocs \in [Threads -> Nat]

\* What no step undoes: buckets stay, and what a box holds is not changed
\* where a thread may rely on it.
Grows ==
  /\ \A b \in Buffers : buffers[b] # 0 => buffers'[b] # 0
  /\ \A d \in DAddrs : heap[d] # "free" /\ heap'[d] # "free" => descs'[d].size = descs[d].size
  /\ \A w \in WAddrs : heap[w] # "free" => writes'[w] = writes[w]
  /\ dropped => dropped'

\* The variables of a thread that BucketKnown speaks of.
Knows(u) == <<pc[u], op[u], arg[u], cur[u], fresh[u], ret[u], allocs[u]>>

-----------------------------------------------------------------------------
(* Sizes and indices *)

LEMMA BucketOfSlot ==
  ASSUME NEW i \in Slots
  PROVE  /\ i \in 0 .. UsizeMax - FIRST_BUCKET_SIZE
         /\ bucket_of(i) \in Buffers /\ bucket_of(i) \in Nat /\ layout_ok(bucket_of(i))
<1>1. i \in 0 .. UsizeMax - FIRST_BUCKET_SIZE /\ layout_ok(bucket_of(i))  BY DEF Slots
<1>2. bucket_of(i) \in 0 .. USIZE_BITS - K
  BY <1>1, BucketOf, FirstBucket, BucketsAssumption
<1> QED  BY <1>1, <1>2, BucketsThatFit

LEMMA BackedGrows ==
  ASSUME Grows, NEW i, Backed(i)  PROVE Backed(i)'
BY BucketOfSlot DEF Backed, Grows

\* What an element count that is backed by memory means for the arithmetic.
LEMMA SizesInRange ==
  ASSUME BucketInv, NEW d \in DAddrs
  PROVE  LET size == descs[d].size IN
         /\ size \in 0 .. UsizeMax - FIRST_BUCKET_SIZE
         /\ bucket_of(size) \in Buffers
         /\ \A i \in 0 .. size - 1 : Backed(i)
         /\ layout_ok(bucket_of(size)) => size \in Slots
<1> DEFINE size == descs[d].size
<1>1. size \in Nat  BY DEF BucketInv, TypeOK, VectorTypeOK, Descriptor
<1>2. \A i \in 0 .. size - 1 : Backed(i)  BY DEF BucketInv, VectorInv, ElementsBacked
<1> HIDE DEF size
<1>3. size = 0 \/ size - 1 \in Slots  BY <1>1, <1>2 DEF Backed
<1>4. size \in 0 .. UsizeMax - FIRST_BUCKET_SIZE /\ bucket_of(size) \in Buffers
  BY <1>1, <1>3, NextIndex
<1>5. layout_ok(bucket_of(size)) => size \in Slots  BY <1>4 DEF Slots
<1> QED  BY <1>2, <1>4, <1>5 DEF size

\* size - 1 of size() and reserve() does not underflow: of a Descriptor that
\* was not freed, the pending write is that of an element that it counts.
LEMMA SizeOfType ==
  ASSUME MemoryInv, BucketInv, NEW d \in DAddrs, heap[d] # "free"
  PROVE  SizeOf(d) \in Nat /\ SizeOf(d) <= descs[d].size
<1> DEFINE w == descs[d].pending
<1>1. descs[d].size \in Nat /\ w \in WAddrs \cup {Null}
  BY DEF BucketInv, TypeOK, VectorTypeOK, Descriptor
<1>2. w \in WAddrs /\ PendingIn(d, w)
  BY <1>1 DEF MemoryInv, AlwaysPending, PendingIn
<1>3. writes[w].some => descs[d].size = writes[w].location + 1 /\ writes[w].location \in Nat
  BY <1>2 DEF BucketInv, VectorInv, PendingIsLast, TypeOK, VectorTypeOK, WriteDescriptor
<1> QED  BY <1>1, <1>3 DEF SizeOf

-----------------------------------------------------------------------------
(* The initial state *)

LEMMA InitBuckets == Init => BucketInv
<1> SUFFICES ASSUME Init PROVE BucketInv
  OBVIOUS
<1>1. MemoryInv  BY InitMemory
<1>2. /\ buffers = [b \in Buffers |-> 0] /\ returned = [b \in Buffers |-> 0]
      /\ cells = [i \in Slots |-> 0]
      /\ writes = [a \in WAddrs |-> NoWrite]
      /\ arg = [t \in Threads |-> 0] /\ res = [t \in Threads |-> None]
      /\ calls = [t \in Threads |-> 0] /\ elem = [t \in Threads |-> 0]
      /\ allocs = [t \in Threads |-> 0] /\ dropped = FALSE
      /\ pc = [t \in Threads |-> "idle"] /\ op = [t \in Threads |-> "new"]
      /\ ret = [t \in Threads |-> "idle"] /\ fresh = [t \in Threads |-> Null]
  BY Zenon DEF Init, Zero
<1>3. \A d \in DAddrs : descs[d].size = 0
  <2>1. PICK d : descs = [[a \in DAddrs |-> Blank] EXCEPT ![d].pending = CHOOSE a \in WAddrs : TRUE]
    BY DEF Init
  <2> QED  BY <2>1 DEF Blank
<1>4. /\ NoWrite \in WriteDescriptor /\ ~NoWrite.some /\ 0 \in Nat /\ 0 \in 0 .. MaxCalls
  BY SealedAssumption DEF NoWrite, WriteDescriptor, Zero
<1>5. TypeOK
  <2>1. MemoryTypeOK  BY <1>1 DEF MemoryInv
  <2>2. descs \in [DAddrs -> Descriptor]
    <3>1. \A d \in DAddrs : descs[d] \in Descriptor
      BY <1>3, <2>1 DEF MemoryTypeOK, Descriptor
    <3> QED  BY <2>1, <3>1 DEF MemoryTypeOK
  <2> QED  BY <1>2, <1>4, <2>1, <2>2 DEF TypeOK, VectorTypeOK, CallTypeOK, WorkTypeOK, MemoryTypeOK
<1>6. VectorInv
  BY <1>2, <1>3, <1>4 DEF VectorInv, BucketsPrefix, BlocksFit, ElementsBacked, WritesBacked,
     PendingIsLast
<1>7. SameLayout  BY <1>2 DEF SameLayout
<1>8. ASSUME NEW t \in Threads  PROVE BucketKnown(t)
  BY <1>2 DEF BucketKnown, LoopKnown, ReserveKnown, Delivered, Writing
<1> QED  BY <1>5, <1>6, <1>7, <1>8 DEF BucketInv

-----------------------------------------------------------------------------
(* What a step leaves as it is *)

LEMMA TypesTogether ==
  ASSUME MemoryInv', DataTypeOK'  PROVE TypeOK'
<1>1. MemoryTypeOK'  BY DEF MemoryInv
<1>2. descs' \in [DAddrs -> Descriptor]
  <2>1. \A d \in DAddrs : descs'[d] \in Descriptor
    BY <1>1 DEF DataTypeOK, MemoryTypeOK, Descriptor
  <2> QED  BY <1>1, <2>1 DEF MemoryTypeOK
<1> QED  BY <1>1, <1>2 DEF DataTypeOK, TypeOK, VectorTypeOK, CallTypeOK, WorkTypeOK, MemoryTypeOK

\* What a thread knows stays true while other threads and the domain make
\* their steps: they neither free nor change what it has the address of.
LEMMA OthersKnow ==
  ASSUME MemoryInv, MemoryInv', Grows, NEW u \in Threads, BucketKnown(u), UNCHANGED Knows(u)
  PROVE  BucketKnown(u)'
<1>0. /\ pc'[u] = pc[u] /\ op'[u] = op[u] /\ arg'[u] = arg[u] /\ cur'[u] = cur[u]
      /\ fresh'[u] = fresh[u] /\ ret'[u] = ret[u] /\ allocs'[u] = allocs[u]
  BY DEF Knows
<1>1. LoopKnown(u)'
  <2>1. fresh[u] # Null => writes'[fresh[u]] = writes[fresh[u]]
    <3>1. fresh[u] # Null => fresh[u] \in WAddrs /\ heap[fresh[u]] = "used"
      BY DEF MemoryInv, MemoryTypeOK, SingleOwner, WritesOwned
    <3> QED  BY <3>1 DEF Grows
  <2>2. pc[u] = "read_elem" => descs'[cur[u]].size = descs[cur[u]].size
    <3>1. pc[u] = "read_elem" => cur[u] # Null  BY DEF MemoryInv, Scopes, HasDesc
    <3>2. cur[u] # Null => cur[u] \in DAddrs /\ heap[cur[u]] # "free"  BY Holds
    <3>3. cur'[u] # Null => heap'[cur'[u]] # "free"  BY DEF MemoryInv, Protected
    <3> QED  BY <1>0, <3>1, <3>2, <3>3 DEF Grows
  <2>3. \A i : Backed(i) => Backed(i)'  BY BackedGrows
  <2>4. Own(u)' <=> Own(u)  BY <1>0 DEF Own
  <2>5. AfterHelping(u)' = AfterHelping(u)  BY <1>0 DEF AfterHelping
  <2> QED  BY <1>0, <2>1, <2>2, <2>3, <2>4, <2>5 DEF BucketKnown, LoopKnown
<1>2. ReserveKnown(u)'
  <2>1. USIZE_BITS \in Nat /\ K \in Nat /\ Buffers = 0 .. USIZE_BITS - 2 - K
    BY BucketsAssumption, FirstBucket, BucketsThatFit
  <2>2. allocs[u] \in Buffers => 0 .. allocs[u] \subseteq Buffers  BY <2>1
  <2> QED  BY <1>0, <2>2 DEF BucketKnown, ReserveKnown, Grows
<1>3. Delivered(u)'
  <2>1. \A i : Backed(i) => Backed(i)'  BY BackedGrows
  <2> QED  BY <1>0, <2>1 DEF BucketKnown, Delivered, Grows
<1> QED  BY <1>1, <1>2, <1>3 DEF BucketKnown

\* A step of one thread needs to be looked at from this thread only.
LEMMA StepOfOne ==
  ASSUME MemoryInv, MemoryInv', BucketInv, Grows, VectorInv', DataTypeOK', ~dropped',
         NEW t \in Threads, BucketKnown(t)', \A u \in Threads \ {t} : UNCHANGED Knows(u)
  PROVE  BucketInv'
BY OthersKnow, TypesTogether DEF BucketInv, SameLayout

\* Steps that make no box and allocate no bucket: they may free boxes, and put
\* a None where none is pending.
LEMMA QuietKeeps ==
  ASSUME MemoryInv, BucketInv, UNCHANGED buffers, dropped => dropped',
         \A d \in DAddrs : \/ descs'[d].size = descs[d].size
                           \/ descs'[d].size = 0 /\ heap'[d] = "free",
         \A w \in WAddrs : \/ /\ writes'[w] = writes[w]
                              /\ heap[w] = "free" => heap'[w] = "free"
                           \/ heap[w] = "free" /\ ~writes'[w].some,
         \A d \in DAddrs, w \in WAddrs :
           PendingIn(d, w)' /\ writes'[w].some => PendingIn(d, w)
  PROVE  VectorInv' /\ Grows /\ \A d \in DAddrs : descs'[d].size \in Nat
<1>1. Grows  BY DEF Grows
<1>2. \A d \in DAddrs : descs'[d].size \in Nat
  BY DEF BucketInv, TypeOK, VectorTypeOK, Descriptor
<1>3. BlocksFit' /\ BucketsPrefix'  BY DEF BucketInv, VectorInv, BlocksFit, BucketsPrefix
<1>4. \A i : Backed(i) => Backed(i)'  BY <1>1, BackedGrows
<1>5. ElementsBacked'
  <2> SUFFICES ASSUME NEW d \in DAddrs, NEW i \in 0 .. descs'[d].size - 1  PROVE Backed(i)'
    BY DEF ElementsBacked
  <2>1. descs'[d].size = descs[d].size  OBVIOUS
  <2> QED  BY <1>4, <2>1 DEF BucketInv, VectorInv, ElementsBacked
<1>6. WritesBacked'  BY <1>4 DEF BucketInv, VectorInv, WritesBacked
<1>7. PendingIsLast'
  <2> SUFFICES ASSUME NEW d \in DAddrs, NEW w \in WAddrs, PendingIn(d, w)', writes'[w].some
               PROVE  descs'[d].size = writes'[w].location + 1
    BY DEF PendingIsLast
  <2>1. PendingIn(d, w) /\ writes'[w] = writes[w]  OBVIOUS
  <2>2. descs'[d].size = descs[d].size  BY DEF PendingIn
  <2> QED  BY <2>1, <2>2 DEF BucketInv, VectorInv, PendingIsLast
<1> QED  BY <1>1, <1>2, <1>3, <1>5, <1>6, <1>7 DEF VectorInv

\* Loads, the compare_exchanges of cells and of the Descriptor, retirements.
LEMMA StillKeeps ==
  ASSUME MemoryInv, BucketInv, UNCHANGED <<buffers, descs, writes>>, dropped => dropped',
         \A a \in Addrs : heap[a] = "free" => heap'[a] = "free"
  PROVE  VectorInv' /\ Grows /\ \A d \in DAddrs : descs'[d].size \in Nat
<1>1. \A d \in DAddrs, w \in WAddrs : PendingIn(d, w)' => PendingIn(d, w)
  BY DEF PendingIn, Addrs
<1> QED  BY <1>1, QuietKeeps DEF Addrs

\* How a call that returns or panics, or an attempt that starts over, leaves
\* what its thread knows.
LEMMA EndKnows ==
  ASSUME MemoryInv', BucketInv, NEW t \in Threads, EndOfScope(t),
         Goto(t, "idle") \/ Goto(t, "panicked") \/ Goto(t, "load_descriptor"),
         UNCHANGED <<op, arg, calls>>,
         op[t] = "reserve" =>
           /\ pc'[t] = "idle" => \A i \in 0 .. arg[t] - 1 : Backed(i)'
           /\ pc'[t] = "panicked" => arg[t] - 1 \notin Slots
  PROVE  /\ BucketKnown(t)' /\ \A u \in Threads \ {t} : UNCHANGED Knows(u)
         /\ arg' \in [Threads -> Nat] /\ calls' \in [Threads -> 0 .. MaxCalls]
         /\ elem' \in [Threads -> Nat] /\ allocs' \in [Threads -> Nat]
<1> USE DEF EndOfScope, Goto
<1>1. TypeOK /\ BucketKnown(t)  BY DEF BucketInv
<1>2. /\ arg' \in [Threads -> Nat] /\ calls' \in [Threads -> 0 .. MaxCalls]
      /\ elem' \in [Threads -> Nat] /\ allocs' \in [Threads -> Nat]
  BY <1>1 DEF TypeOK, CallTypeOK, WorkTypeOK, Zero
<1>3. \A u \in Threads \ {t} : UNCHANGED Knows(u)
  BY <1>1 DEF TypeOK, CallTypeOK, WorkTypeOK, Knows
<1>4. /\ pc'[t] \in {"idle", "panicked", "load_descriptor"} /\ fresh'[t] = Null
      /\ op'[t] = op[t] /\ arg'[t] = arg[t]
  BY <1>1 DEF TypeOK, CallTypeOK, WorkTypeOK
<1>5. BucketKnown(t)'
  BY <1>1, <1>4 DEF BucketKnown, LoopKnown, ReserveKnown, Delivered, Writing
<1> QED  BY <1>2, <1>3, <1>5

\* A call that returns, having done no more than free or retire.
LEMMA ReturnKeepsBuckets ==
  ASSUME MemoryInv, MemoryInv', BucketInv, NEW t \in Threads, pc[t] \notin Resting,
         NEW value \in Nat \cup {None}, Return(t, value), UNCHANGED <<buffers, cells>>,
         VectorInv', Grows, \A d \in DAddrs : descs'[d].size \in Nat,
         writes' \in [WAddrs -> WriteDescriptor],
         op[t] = "reserve" => \A i \in 0 .. arg[t] - 1 : Backed(i)'
  PROVE  BucketInv'
<1> USE DEF Return
<1>1. ~dropped'  BY InACall
<1>2. pc'[t] = "idle"  BY DEF BucketInv, TypeOK, CallTypeOK, Goto
<1>3. /\ BucketKnown(t)' /\ \A u \in Threads \ {t} : UNCHANGED Knows(u)
      /\ arg' \in [Threads -> Nat] /\ calls' \in [Threads -> 0 .. MaxCalls]
      /\ elem' \in [Threads -> Nat] /\ allocs' \in [Threads -> Nat]
  BY <1>2, EndKnows
<1>4. DataTypeOK'
  BY <1>3 DEF DataTypeOK, BucketInv, TypeOK, VectorTypeOK, CallTypeOK
<1> QED  BY <1>1, <1>3, <1>4, StepOfOne

\* A panic, of a push or of a reserve that asks for more than can be had.
LEMMA PanicKeepsBuckets ==
  ASSUME MemoryInv, MemoryInv', BucketInv, NEW t \in Threads, pc[t] \notin Resting, PanicIn(t),
         op[t] = "reserve" => arg[t] - 1 \notin Slots
  PROVE  BucketInv'
<1> USE DEF PanicIn, shared, vector, call
<1>1. ~dropped'  BY InACall
<1>2. pc'[t] = "panicked"  BY DEF BucketInv, TypeOK, CallTypeOK, Goto
<1>3. /\ BucketKnown(t)' /\ \A u \in Threads \ {t} : UNCHANGED Knows(u)
      /\ arg' \in [Threads -> Nat] /\ calls' \in [Threads -> 0 .. MaxCalls]
      /\ elem' \in [Threads -> Nat] /\ allocs' \in [Threads -> Nat]
  BY <1>2, EndKnows
<1>4. VectorInv' /\ Grows /\ \A d \in DAddrs : descs'[d].size \in Nat
  BY StillKeeps
<1>5. DataTypeOK'
  BY <1>3, <1>4 DEF DataTypeOK, BucketInv, TypeOK, VectorTypeOK, CallTypeOK
<1> QED  BY <1>1, <1>3, <1>4, <1>5, StepOfOne

\* Freed boxes: of a Descriptor, with the write descriptor that is pending in
\* it, or of a write descriptor alone.
LEMMA FreedKeepsBuckets ==
  ASSUME MemoryInv, BucketInv, UNCHANGED <<buffers, writes, dropped>>,
         NEW d, FreeDescriptor(d)
  PROVE  VectorInv' /\ Grows /\ \A e \in DAddrs : descs'[e].size \in Nat
<1> USE DEF FreeDescriptor
<1>1. descs \in [DAddrs -> Descriptor]  BY DEF BucketInv, TypeOK, VectorTypeOK
<1>2. \A e \in DAddrs : e # d => descs'[e] = descs[e]  BY <1>1
<1>3. d \in DAddrs => descs'[d].size = 0 /\ heap'[d] = "free"
  BY <1>1 DEF Blank, FreedWith, Addrs
<1>4. \A e \in DAddrs, w \in WAddrs : PendingIn(e, w)' => PendingIn(e, w)
  BY <1>2, <1>3 DEF PendingIn, Addrs
<1>5. \A w \in WAddrs : heap[w] = "free" => heap'[w] = "free"  BY DEF Addrs
<1>6. \A e \in DAddrs : \/ descs'[e].size = descs[e].size
                        \/ descs'[e].size = 0 /\ heap'[e] = "free"
  BY <1>2, <1>3
<1> HIDE DEF FreeDescriptor
<1> QED  BY <1>4, <1>5, <1>6, QuietKeeps

-----------------------------------------------------------------------------
(* The steps of a thread *)

LEMMA CallKeepsBuckets ==
  ASSUME MemoryInv, MemoryInv', BucketInv, NEW t \in Threads, Calls(t)
  PROVE  BucketInv'
<1>0. Values \subseteq Nat /\ ReserveArgs \subseteq 0 .. UsizeMax /\ UsizeMax \in Nat
  BY SealedAssumption, FirstBucket
<1>1. PICK m \in {"push", "pop", "size", "reserve"}, a \in Nat :
        Call(t, m, a) /\ (m = "reserve" => a \in 0 .. UsizeMax)
  BY <1>0 DEF Calls, CallPush, CallPop, CallSize, CallReserve
<1> USE DEF Call, Goto, shared, vector, work
<1>2. TypeOK /\ BucketKnown(t)  BY DEF BucketInv
<1>3. VectorInv' /\ Grows /\ \A d \in DAddrs : descs'[d].size \in Nat
  BY <1>1, StillKeeps
<1>4. DataTypeOK'
  <2>1. calls' \in [Threads -> 0 .. MaxCalls]
    BY <1>1, <1>2, SealedAssumption DEF TypeOK, CallTypeOK
  <2>2. arg' \in [Threads -> Nat] /\ res' \in [Threads -> Nat \cup {None}]
    BY <1>1, <1>2 DEF TypeOK, CallTypeOK
  <2> QED  BY <1>1, <1>2, <1>3, <2>1, <2>2 DEF DataTypeOK, TypeOK, VectorTypeOK, WorkTypeOK
<1>5. \A u \in Threads \ {t} : UNCHANGED Knows(u)
  BY <1>1, <1>2 DEF TypeOK, CallTypeOK, Knows
<1>6. BucketKnown(t)'
  <2>1. /\ pc[t] = "idle" /\ pc'[t] = "load_descriptor" /\ op'[t] = m /\ arg'[t] = a
        /\ fresh'[t] = fresh[t]
    BY <1>1, <1>2 DEF TypeOK, CallTypeOK
  <2>2. fresh[t] = Null  BY <2>1 DEF MemoryInv, Scopes
  <2> QED  BY <1>1, <2>1, <2>2 DEF BucketKnown, LoopKnown, ReserveKnown, Delivered, Writing
<1> QED  BY <1>1, <1>3, <1>4, <1>5, <1>6, StepOfOne

\* The loads of a call, and the look at the bucket.
LEMMA LoadKeepsBuckets ==
  ASSUME MemoryInv, MemoryInv', BucketInv, NEW t \in Threads,
         LoadDescriptor(t) \/ LoadPending(t) \/ CheckBucket(t)
  PROVE  BucketInv'
<1> USE DEF LoadDescriptor, LoadPending, CheckBucket, Goto, shared, vector, call, work
<1>1. TypeOK /\ BucketKnown(t)  BY DEF BucketInv
<1>2. ~dropped  BY InACall DEF Resting
<1>3. VectorInv' /\ Grows /\ \A d \in DAddrs : descs'[d].size \in Nat
  BY StillKeeps
<1>4. DataTypeOK'
  BY <1>1, <1>3 DEF DataTypeOK, TypeOK, VectorTypeOK, CallTypeOK, WorkTypeOK
<1>5. \A u \in Threads \ {t} : UNCHANGED Knows(u)
  BY <1>1 DEF TypeOK, CallTypeOK, WorkTypeOK, Knows
<1>6. fresh[t] = Null /\ ret[t] = "idle"
  BY DEF MemoryInv, Scopes, Writing
<1>7. CASE LoadDescriptor(t)
  <2>1. pc'[t] = "load_pending"  BY <1>1, <1>7 DEF TypeOK, CallTypeOK
  <2>2. BucketKnown(t)'
    BY <1>1, <1>6, <1>7, <2>1 DEF BucketKnown, LoopKnown, ReserveKnown, Delivered, Writing
  <2> QED  BY <1>2, <1>3, <1>4, <1>5, <2>2, StepOfOne
<1>8. CASE LoadPending(t)
  <2>1. \/ pc'[t] = "write_cell" /\ ret'[t] = AfterHelping(t)
        \/ pc'[t] = AfterHelping(t) /\ ret'[t] = "idle"
    BY <1>1, <1>6, <1>8 DEF TypeOK, CallTypeOK, WorkTypeOK
  <2>2. BucketKnown(t)'
    BY <1>1, <1>6, <1>8, <2>1 DEF BucketKnown, LoopKnown, ReserveKnown, Delivered, Writing,
       AfterHelping, Own
  <2> QED  BY <1>2, <1>3, <1>4, <1>5, <2>2, StepOfOne
<1>9. CASE CheckBucket(t)
  <2>1. cur[t] \in DAddrs /\ descs'[cur'[t]].size = descs[cur[t]].size /\ UNCHANGED buffers
    BY <1>1, <1>9, Holds DEF MemoryInv, Scopes, HasDesc
  <2>2. pc'[t] = "allocate_bucket" \/ (pc'[t] = "read_elem" /\ Backed(descs[cur[t]].size))
    <3>1. buffers[bucket_of(descs[cur[t]].size)] # 0 => Backed(descs[cur[t]].size)
      BY <2>1, SizesInRange DEF BucketInv, VectorInv, BlocksFit, Backed
    <3> QED  BY <1>1, <1>9, <3>1 DEF TypeOK, CallTypeOK
  <2>3. Backed(descs[cur[t]].size) => Backed(descs[cur[t]].size)'
    BY <2>1 DEF Backed
  <2>4. BucketKnown(t)'
    BY <1>1, <1>6, <1>9, <2>1, <2>2, <2>3 DEF BucketKnown, LoopKnown, ReserveKnown, Delivered,
       Writing
  <2> QED  BY <1>2, <1>3, <1>4, <1>5, <2>4, StepOfOne
<1> QED  BY <1>7, <1>8, <1>9

\* The cell that is written may be any: it is a cell of the vector.
LEMMA WriteCellKeepsBuckets ==
  ASSUME MemoryInv, MemoryInv', BucketInv, NEW t \in Threads, WriteCell(t)
  PROVE  BucketInv'
<1> USE DEF WriteCell, Goto, call, work
<1>1. TypeOK /\ BucketKnown(t) /\ MemoryTypeOK  BY DEF BucketInv, MemoryInv
<1>2. ~dropped  BY InACall DEF Resting
<1>3. VectorInv' /\ Grows /\ \A d \in DAddrs : descs'[d].size \in Nat
  BY StillKeeps
<1>4. wd[t] \in WAddrs
  BY <1>1 DEF MemoryInv, MemoryTypeOK, Scopes, Writing
<1>5. PICK w \in WriteDescriptor :
        cells' = [i \in Slots |->
          IF i = w.location /\ cells[i] = w.old THEN w.new ELSE cells[i]]
  <2>1. Garbage \subseteq WriteDescriptor
    <3>1. UsizeMax \in Nat /\ Slots \subseteq Nat  BY FirstBucket DEF Slots
    <3>2. Values \cup {Zero} \subseteq Nat  BY SealedAssumption DEF Zero
    <3>3. {i \in Slots : Backed(i)} \cup {Elsewhere} \subseteq Nat  BY <3>1 DEF Elsewhere
    <3> QED  BY <3>2, <3>3 DEF Garbage, WriteDescriptor
  <2>2. Contents(wd[t]) \subseteq WriteDescriptor
    BY <1>1, <1>4, <2>1 DEF Contents, TypeOK, VectorTypeOK
  <2> QED  BY <2>2
<1>6. cells' \in [Slots -> Nat]
  BY <1>1, <1>5 DEF TypeOK, VectorTypeOK, WriteDescriptor
<1>7. DataTypeOK'
  BY <1>1, <1>3, <1>6 DEF DataTypeOK, TypeOK, VectorTypeOK, CallTypeOK, WorkTypeOK
<1>8. \A u \in Threads \ {t} : UNCHANGED Knows(u)
  BY <1>1 DEF TypeOK, CallTypeOK, Knows
<1>9. pc'[t] = "load_target" /\ fresh'[t] = Null
  BY <1>1 DEF TypeOK, CallTypeOK, MemoryInv, Scopes
<1>10. BucketKnown(t)'
  BY <1>1, <1>9 DEF BucketKnown, LoopKnown, ReserveKnown, Delivered, Writing, Own, AfterHelping
<1> QED  BY <1>2, <1>3, <1>7, <1>8, <1>10, StepOfOne

\* A None is put into a box that was free.
LEMMA LoadTargetKeepsBuckets ==
  ASSUME MemoryInv, MemoryInv', BucketInv, NEW t \in Threads, LoadTarget(t)
  PROVE  BucketInv'
<1> USE DEF LoadTarget, Goto, call
<1>1. TypeOK /\ BucketKnown(t) /\ MemoryTypeOK  BY DEF BucketInv, MemoryInv
<1>2. ~dropped  BY InACall DEF Resting
<1>3. PICK n \in WAddrs : /\ heap[n] = "free"
                          /\ heap'   = [heap EXCEPT ![n] = "used"]
                          /\ writes' = [writes EXCEPT ![n] = NoWrite]
                          /\ fresh'  = [fresh EXCEPT ![t] = n]
  BY DEF FreeAmong
<1>4. /\ NoWrite \in WriteDescriptor /\ ~NoWrite.some
      /\ writes' \in [WAddrs -> WriteDescriptor] /\ writes'[n] = NoWrite
      /\ \A w \in WAddrs : w # n => writes'[w] = writes[w]
      /\ \A d \in DAddrs : heap'[d] = heap[d]
      /\ \A w \in WAddrs : w # n => heap'[w] = heap[w]
  <2>1. NoWrite \in WriteDescriptor /\ ~NoWrite.some  BY DEF NoWrite, WriteDescriptor, Zero
  <2> QED  BY <1>1, <1>3, <2>1, SealedAssumption DEF TypeOK, VectorTypeOK, Addrs
<1>5. VectorInv' /\ Grows /\ \A d \in DAddrs : descs'[d].size \in Nat
  <2>1. \A w \in WAddrs : \/ /\ writes'[w] = writes[w]
                             /\ heap[w] = "free" => heap'[w] = "free"
                          \/ heap[w] = "free" /\ ~writes'[w].some
    BY <1>3, <1>4
  <2>2. \A d \in DAddrs, w \in WAddrs :
          PendingIn(d, w)' /\ writes'[w].some => PendingIn(d, w)
    BY <1>4 DEF PendingIn
  <2> QED  BY <2>1, <2>2, QuietKeeps
<1>6. DataTypeOK'
  BY <1>1, <1>4, <1>5 DEF DataTypeOK, TypeOK, VectorTypeOK, CallTypeOK, WorkTypeOK
<1>7. \A u \in Threads \ {t} : UNCHANGED Knows(u)
  BY <1>1, <1>3 DEF TypeOK, CallTypeOK, WorkTypeOK, Knows
<1>8. pc'[t] = "clear_pending" /\ fresh'[t] = n
  BY <1>1, <1>3 DEF TypeOK, CallTypeOK, WorkTypeOK
<1>9. BucketKnown(t)'
  BY <1>1, <1>4, <1>8 DEF BucketKnown, LoopKnown, ReserveKnown, Delivered, Writing, Own,
     AfterHelping
<1> QED  BY <1>2, <1>5, <1>6, <1>7, <1>9, StepOfOne

\* The None is swapped in: no write is pending in that Descriptor any more.
LEMMA ClearPendingKeepsBuckets ==
  ASSUME MemoryInv, MemoryInv', BucketInv, NEW t \in Threads, ClearPending(t)
  PROVE  BucketInv'
<1> DEFINE T == target[t]
           F == fresh[t]
<1>1. TypeOK /\ BucketKnown(t) /\ MemoryTypeOK  BY DEF BucketInv, MemoryInv
<1>2. pc[t] = "clear_pending" /\ ~dropped  BY InACall DEF ClearPending, Resting
<1>3. T \in DAddrs /\ F \in WAddrs /\ ~writes[F].some
  BY <1>1, <1>2, Holds DEF MemoryInv, MemoryTypeOK, Scopes, BucketKnown, LoopKnown
<1>4. /\ UNCHANGED <<buffers, cells, writes, dropped>>
      /\ descs' = [descs EXCEPT ![T].pending = F]
  BY <1>2 DEF ClearPending, Return, call
<1>5. \A d \in DAddrs : /\ descs'[d].size = descs[d].size
                        /\ descs'[d].pending = IF d = T THEN F ELSE descs[d].pending
  BY <1>1, <1>3, <1>4 DEF TypeOK, VectorTypeOK, Descriptor
<1>6. \A a \in Addrs : heap'[a] # "free" => heap[a] # "free"
  <2>1. heap[cur[t]] # "free" /\ cur[t] \in DAddrs
    BY <1>2, Holds DEF MemoryInv, Scopes, HasDesc, Writing
  <2>2. heap[T] # "free"  BY <1>2, Holds DEF MemoryInv, Scopes
  <2>3. SwappedOut(t) \in WAddrs
    BY <1>1, <1>3, <2>2 DEF SwappedOut, MemoryInv, MemoryTypeOK, AlwaysPending
  <2>4. heap' = [a \in Addrs |->
          IF a = SwappedOut(t) \/ (Own(t) /\ a = cur[t]) THEN "retired" ELSE heap[a]]
    BY DEF ClearPending
  <2>5. heap[SwappedOut(t)] # "free"
    <3>1. PendingIn(T, SwappedOut(t))  BY <2>2 DEF PendingIn, SwappedOut
    <3> QED  BY <1>3, <2>3, <3>1 DEF MemoryInv, SingleOwner, WritesOwned
  <2> QED  BY <2>1, <2>4, <2>5
<1>7. VectorInv' /\ Grows /\ \A d \in DAddrs : descs'[d].size \in Nat
  <2>1. \A d \in DAddrs, w \in WAddrs :
          PendingIn(d, w)' /\ writes'[w].some => PendingIn(d, w)
    BY <1>3, <1>4, <1>5, <1>6 DEF PendingIn, Addrs
  <2>2. \A w \in WAddrs : heap[w] = "free" => heap'[w] = "free"  BY <1>6 DEF Addrs
  <2> QED  BY <1>4, <1>5, <2>1, <2>2, QuietKeeps
<1>8. CASE Own(t)
  <2>1. Return(t, None)  BY <1>8 DEF ClearPending
  <2>2. op[t] # "reserve"  BY <1>2, <1>8 DEF MemoryInv, Scopes, Writing
  <2>3. writes' \in [WAddrs -> WriteDescriptor]  BY <1>1, <1>4 DEF TypeOK, VectorTypeOK
  <2> QED  BY <1>2, <1>4, <1>7, <2>1, <2>2, <2>3, ReturnKeepsBuckets DEF Resting
<1>9. CASE ~Own(t)
  <2>1. /\ Goto(t, ret[t]) /\ UNCHANGED <<call, cur, elem, next, allocs, returned, dropped>>
        /\ fresh' = [fresh EXCEPT ![t] = Null] /\ ret' = [ret EXCEPT ![t] = "idle"]
    BY <1>9 DEF ClearPending
  <2>2. ret[t] = AfterHelping(t) /\ op[t] \in {"push", "pop"}
    BY <1>1, <1>2, <1>9 DEF BucketKnown, LoopKnown, Writing
  <2>3. DataTypeOK'
    BY <1>1, <1>4, <1>7, <2>1 DEF DataTypeOK, TypeOK, VectorTypeOK, CallTypeOK, WorkTypeOK, call
  <2>4. \A u \in Threads \ {t} : UNCHANGED Knows(u)
    BY <1>1, <2>1 DEF TypeOK, CallTypeOK, WorkTypeOK, Knows, Goto, call
  <2>5. pc'[t] = AfterHelping(t) /\ fresh'[t] = Null
    BY <1>1, <2>1, <2>2 DEF TypeOK, CallTypeOK, WorkTypeOK, Goto
  <2>6. BucketKnown(t)'
    BY <1>1, <2>1, <2>2, <2>5 DEF BucketKnown, LoopKnown, ReserveKnown, Delivered, Writing,
       AfterHelping, call
  <2> QED  BY <1>2, <1>4, <1>7, <2>3, <2>4, <2>6, StepOfOne
<1> QED  BY <1>8, <1>9

\* The compare_exchange of the Descriptor changes no box and no bucket.
LEMMA PushSwapsKeepsBuckets ==
  ASSUME MemoryInv, MemoryInv', BucketInv, NEW t \in Threads, PushSwaps(t)
  PROVE  BucketInv'
<1> USE DEF PushSwaps, SwapDescriptor, Goto, call
<1>1. TypeOK /\ BucketKnown(t)  BY DEF BucketInv
<1>2. ~dropped  BY InACall DEF Resting
<1>3. VectorInv' /\ Grows /\ \A d \in DAddrs : descs'[d].size \in Nat
  BY StillKeeps
<1>4. DataTypeOK'
  BY <1>1, <1>3 DEF DataTypeOK, TypeOK, VectorTypeOK, CallTypeOK, WorkTypeOK
<1>5. \A u \in Threads \ {t} : UNCHANGED Knows(u)
  BY <1>1 DEF TypeOK, CallTypeOK, WorkTypeOK, Knows
<1>6. pc'[t] = "write_cell" /\ ret'[t] = "idle" /\ fresh'[t] = Null
  BY <1>1 DEF TypeOK, CallTypeOK, WorkTypeOK, MemoryInv, Scopes
<1>7. BucketKnown(t)'
  BY <1>1, <1>6 DEF BucketKnown, LoopKnown, ReserveKnown, Delivered, Writing, Own
<1> QED  BY <1>2, <1>3, <1>4, <1>5, <1>7, StepOfOne

\* A failed compare_exchange frees the boxes that were made for it.
LEMMA RetrySwapKeepsBuckets ==
  ASSUME MemoryInv, MemoryInv', BucketInv, NEW t \in Threads, RetrySwap(t)
  PROVE  BucketInv'
<1> USE DEF RetrySwap, call
<1>1. TypeOK /\ BucketKnown(t) /\ MemoryTypeOK  BY DEF BucketInv, MemoryInv
<1>2. ~dropped  BY InACall DEF Resting
<1>3. VectorInv' /\ Grows /\ \A d \in DAddrs : descs'[d].size \in Nat
  BY FreedKeepsBuckets
<1>4. pc'[t] = "load_descriptor"  BY <1>1 DEF TypeOK, CallTypeOK, Goto
<1>5. /\ BucketKnown(t)' /\ \A u \in Threads \ {t} : UNCHANGED Knows(u)
      /\ arg' \in [Threads -> Nat] /\ calls' \in [Threads -> 0 .. MaxCalls]
      /\ elem' \in [Threads -> Nat] /\ allocs' \in [Threads -> Nat]
  BY <1>4, EndKnows
<1>6. DataTypeOK'
  BY <1>1, <1>3, <1>5 DEF DataTypeOK, TypeOK, VectorTypeOK, CallTypeOK
<1> QED  BY <1>2, <1>3, <1>5, <1>6, StepOfOne

\* The boxes of the next Descriptor: its size is that of elements that have
\* their memory, and what is pending in it is the write of the last of them.
LEMMA MakeNextKeepsBuckets ==
  ASSUME MemoryInv, MemoryInv', BucketInv, NEW t \in Threads,
         pc[t] = "read_elem", op[t] \in {"push", "pop"},
         NEW size \in Nat, NEW write \in WriteDescriptor, MakeNext(t, size, write),
         \A i \in 0 .. size - 1 : Backed(i),
         write.some => Backed(write.location) /\ size = write.location + 1,
         elem' \in [Threads -> Nat]
  PROVE  BucketInv'
<1> USE DEF MakeNext, Goto, call
<1>1. TypeOK /\ BucketKnown(t) /\ MemoryTypeOK /\ WritesOwned
  BY DEF BucketInv, MemoryInv, SingleOwner
<1>2. ~dropped  BY InACall DEF Resting
<1>3. PICK n \in DAddrs, m \in WAddrs :
        /\ heap[n] = "free" /\ heap[m] = "free"
        /\ heap'   = [heap EXCEPT ![n] = "used", ![m] = "used"]
        /\ descs'  = [descs EXCEPT ![n] = [size |-> size, pending |-> m]]
        /\ writes' = [writes EXCEPT ![m] = write]
  BY DEF FreeAmong
<1>4. /\ \A d \in DAddrs : d # n => descs'[d] = descs[d] /\ heap'[d] = heap[d]
      /\ descs'[n].size = size /\ descs'[n].pending = m
      /\ writes' \in [WAddrs -> WriteDescriptor] /\ writes'[m] = write
      /\ \A w \in WAddrs : w # m => writes'[w] = writes[w] /\ heap'[w] = heap[w]
  <2>2. \A d \in DAddrs : d # n => descs'[d] = descs[d] /\ heap'[d] = heap[d]
    BY <1>1, <1>3, SealedAssumption DEF MemoryTypeOK, Addrs
  <2>3. descs'[n] = [size |-> size, pending |-> m]  BY <1>1, <1>3 DEF MemoryTypeOK
  <2>4. /\ writes' \in [WAddrs -> WriteDescriptor] /\ writes'[m] = write
        /\ \A w \in WAddrs : w # m => writes'[w] = writes[w]
    BY <1>1, <1>3 DEF TypeOK, VectorTypeOK
  <2>6. \A w \in WAddrs : w # m => heap'[w] = heap[w]
    BY <1>1, <1>3, SealedAssumption DEF MemoryTypeOK, Addrs
  <2>5. descs'[n].size = size /\ descs'[n].pending = m  BY <2>3
  <2> HIDE DEF MakeNext, Goto, call
  <2> QED  BY <2>2, <2>4, <2>5, <2>6
<1>5. Grows  BY <1>2, <1>3, <1>4 DEF Grows
<1>6. \A i : Backed(i) => Backed(i)'  BY <1>5, BackedGrows
<1>7. \A d \in DAddrs : descs'[d].size \in Nat
  BY <1>1, <1>4 DEF TypeOK, VectorTypeOK, Descriptor
<1>8. VectorInv'
  <2>1. BlocksFit' /\ BucketsPrefix'  BY DEF BucketInv, VectorInv, BlocksFit, BucketsPrefix
  <2>2. ElementsBacked'
    <3> SUFFICES ASSUME NEW d \in DAddrs, NEW i \in 0 .. descs'[d].size - 1  PROVE Backed(i)'
      BY DEF ElementsBacked
    <3>1. CASE d = n  BY <1>4, <1>6, <3>1
    <3>2. CASE d # n  BY <1>4, <1>6, <3>2 DEF BucketInv, VectorInv, ElementsBacked
    <3> QED  BY <3>1, <3>2
  <2>3. WritesBacked'
    <3> SUFFICES ASSUME NEW w \in WAddrs, heap'[w] # "free", writes'[w].some
                 PROVE  Backed(writes[w].location)'
      BY DEF WritesBacked
    <3>1. CASE w = m  BY <1>4, <1>6, <3>1
    <3>2. CASE w # m  BY <1>4, <1>6, <3>2 DEF BucketInv, VectorInv, WritesBacked
    <3> QED  BY <3>1, <3>2
  <2>4. PendingIsLast'
    <3> SUFFICES ASSUME NEW d \in DAddrs, NEW w \in WAddrs, PendingIn(d, w)', writes'[w].some
                 PROVE  descs'[d].size = writes'[w].location + 1
      BY DEF PendingIsLast
    <3>1. CASE d = n  BY <1>4, <3>1 DEF PendingIn
    <3>2. CASE d # n
      <4>1. PendingIn(d, w)  BY <1>4, <3>2 DEF PendingIn
      <4>2. w # m  BY <1>1, <1>3, <4>1 DEF WritesOwned
      <4> QED  BY <1>4, <3>2, <4>1, <4>2 DEF BucketInv, VectorInv, PendingIsLast
    <3> QED  BY <3>1, <3>2
  <2> QED  BY <2>1, <2>2, <2>3, <2>4 DEF VectorInv
<1>9. DataTypeOK'
  BY <1>1, <1>4, <1>7 DEF DataTypeOK, TypeOK, VectorTypeOK, CallTypeOK, WorkTypeOK
<1>10. \A u \in Threads \ {t} : UNCHANGED Knows(u)
  BY <1>1 DEF TypeOK, CallTypeOK, WorkTypeOK, Knows
<1>11. pc'[t] = "swap_descriptor" /\ fresh'[t] = Null
  BY <1>1 DEF TypeOK, CallTypeOK, MemoryInv, Scopes
<1>12. BucketKnown(t)'
  BY <1>1, <1>11 DEF BucketKnown, LoopKnown, ReserveKnown, Delivered, Writing
<1> QED  BY <1>2, <1>5, <1>8, <1>9, <1>10, <1>12, StepOfOne

LEMMA ReadsKeepBuckets ==
  ASSUME MemoryInv, MemoryInv', BucketInv, NEW t \in Threads, ReadOld(t) \/ ReadLast(t)
  PROVE  BucketInv'
<1> DEFINE s == descs[cur[t]].size
<1>1. TypeOK /\ BucketKnown(t) /\ pc[t] = "read_elem" /\ cur[t] \in DAddrs
  BY Holds DEF BucketInv, ReadOld, ReadLast, MemoryInv, Scopes, HasDesc
<1>2. s \in Nat /\ \A i \in 0 .. s - 1 : Backed(i)
  BY <1>1, SizesInRange DEF TypeOK, VectorTypeOK, Descriptor
<1>3. CASE ReadOld(t)
  <2> SUFFICES ASSUME NEW size, size = s  PROVE BucketInv'
    OBVIOUS
  <2> DEFINE write == [some |-> TRUE, new |-> arg[t], old |-> cells[size], location |-> size]
  <2>1. Backed(size)  BY <1>1, <1>3 DEF ReadOld, BucketKnown, LoopKnown
  <2>2. write \in WriteDescriptor
    BY <1>1, <1>2, <2>1 DEF WriteDescriptor, Backed, TypeOK, VectorTypeOK, CallTypeOK
  <2>3. MakeNext(t, size + 1, write) /\ op[t] = "push" /\ elem' \in [Threads -> Nat]
    BY <1>1, <1>3 DEF ReadOld, TypeOK, WorkTypeOK
  <2>4. write.some /\ write.location = size  OBVIOUS
  <2> HIDE DEF write, s
  <2>5. size + 1 \in Nat /\ \A i \in 0 .. (size + 1) - 1 : Backed(i)  BY <1>2, <2>1
  <2> QED  BY <1>1, <2>1, <2>2, <2>3, <2>4, <2>5, MakeNextKeepsBuckets
<1>4. CASE ReadLast(t)
  <2> SUFFICES ASSUME NEW size, size = s  PROVE BucketInv'
    OBVIOUS
  <2>1. MakeNext(t, size - 1, NoWrite) /\ op[t] = "pop" /\ size # 0
        /\ elem' = [elem EXCEPT ![t] = cells[size - 1]]
    BY <1>4 DEF ReadLast
  <2> HIDE DEF s
  <2>2. size - 1 \in Nat /\ Backed(size - 1) /\ \A i \in 0 .. (size - 1) - 1 : Backed(i)
    BY <1>2, <2>1
  <2>3. elem' \in [Threads -> Nat]
    BY <1>1, <2>1, <2>2 DEF Backed, TypeOK, VectorTypeOK, WorkTypeOK
  <2>4. NoWrite \in WriteDescriptor /\ ~NoWrite.some  BY DEF NoWrite, WriteDescriptor, Zero
  <2> QED  BY <1>1, <2>1, <2>2, <2>3, <2>4, MakeNextKeepsBuckets
<1> QED  BY <1>3, <1>4

\* The calls that end, other than a push that completed its own write: what
\* size() and pop return is in range.
LEMMA ReturnsKeepBuckets ==
  ASSUME MemoryInv, MemoryInv', BucketInv, NEW t \in Threads,
         PopEmpty(t) \/ PopSwaps(t) \/ Size(t) \/ OwnWriteGone(t)
  PROVE  BucketInv'
<1> USE DEF PopEmpty, PopSwaps, SwapDescriptor, Size, OwnWriteGone, vector
<1>1. TypeOK  BY DEF BucketInv
<1>2. pc[t] \notin Resting /\ UNCHANGED <<buffers, cells, descs, writes, dropped>>
  BY DEF Resting, Return
<1>3. op[t] # "reserve"  BY DEF MemoryInv, Scopes, Writing
<1>4. \A a \in Addrs : heap[a] = "free" => heap'[a] = "free"
  <2>1. heap' = heap \/ (heap' = [heap EXCEPT ![cur[t]] = "retired"] /\ pc[t] \in HasDesc)
    BY DEF HasDesc, Writing
  <2>2. pc[t] \in HasDesc => cur[t] \in DAddrs /\ heap[cur[t]] # "free"
    BY Holds DEF MemoryInv, Scopes
  <2>3. heap \in [Addrs -> {"free", "used", "retired"}]  BY <1>1 DEF TypeOK, VectorTypeOK
  <2> HIDE DEF PopEmpty, PopSwaps, SwapDescriptor, Size, OwnWriteGone, vector
  <2> QED  BY <2>1, <2>2, <2>3 DEF Addrs
<1>5. VectorInv' /\ Grows /\ \A d \in DAddrs : descs'[d].size \in Nat
  <2> HIDE DEF PopEmpty, PopSwaps, SwapDescriptor, Size, OwnWriteGone, vector
  <2> QED  BY <1>2, <1>4, StillKeeps
<1>6. writes' \in [WAddrs -> WriteDescriptor]  BY <1>1, <1>2 DEF TypeOK, VectorTypeOK
<1>7. PICK value \in Nat \cup {None} : Return(t, value)
  <2>1. pc[t] = "load_pending" => SizeOf(cur[t]) \in Nat
    BY Holds, SizeOfType DEF MemoryInv, Scopes, HasDesc
  <2>2. elem[t] \in Nat  BY <1>1 DEF TypeOK, WorkTypeOK
  <2> QED  BY <2>1, <2>2
<1> HIDE DEF PopEmpty, PopSwaps, SwapDescriptor, Size, OwnWriteGone, vector
<1> QED  BY <1>2, <1>3, <1>5, <1>6, <1>7, ReturnKeepsBuckets

\* allocate_bucket, called for a bucket that all of the smaller ones precede.
LEMMA AllocateKeepsBuckets ==
  ASSUME BucketInv, NEW t, NEW b \in Buffers, AllocateBucket(t, b),
         \A c \in 0 .. b - 1 : buffers[c] # 0
  PROVE  /\ VectorInv' /\ Grows /\ buffers'[b] # 0
         /\ buffers' \in [Buffers -> Nat] /\ cells' \in [Slots -> Nat]
         /\ \A d \in DAddrs : descs'[d].size \in Nat
<1>0. /\ TypeOK /\ layout_ok(b) /\ UNCHANGED <<descs, writes, heap, dropped>>
  BY DEF AllocateBucket, BucketInv
<1>1. bucket_len(b) \in Nat /\ bucket_len(b) # 0
  <2>1. b \in 0 .. USIZE_BITS /\ 2^b \in Nat \ {0} /\ FIRST_BUCKET_SIZE \in Nat \ {0}
    BY BucketsThatFit, FirstBucket, BucketsAssumption, PowersOfTwo
  <2> QED  BY <2>1 DEF bucket_len
<1>2. /\ \A c \in Buffers : buffers'[c] = IF c = b THEN bucket_len(b) ELSE buffers[c]
      /\ buffers' \in [Buffers -> Nat] /\ cells' \in [Slots -> Nat]
  <2>1. CASE buffers[b] # 0
    BY <1>0, <2>1 DEF AllocateBucket, InstallBucket, BucketInv, VectorInv, BlocksFit, TypeOK,
       VectorTypeOK
  <2>2. CASE buffers[b] = 0
    BY <1>0, <1>1, <2>2 DEF AllocateBucket, InstallBucket, TypeOK, VectorTypeOK, Zero
  <2> QED  BY <2>1, <2>2
<1>3. Grows  BY <1>0, <1>1, <1>2 DEF Grows
<1>4. BlocksFit'  BY <1>0, <1>2 DEF BucketInv, VectorInv, BlocksFit
<1>5. BucketsPrefix'
  <2> SUFFICES ASSUME NEW e \in Buffers, buffers'[e] # 0, NEW c \in 0 .. e - 1
               PROVE  buffers'[c] # 0
    BY DEF BucketsPrefix
  <2>1. USIZE_BITS \in Nat /\ K \in Nat /\ Buffers = 0 .. USIZE_BITS - 2 - K
    BY BucketsAssumption, FirstBucket, BucketsThatFit
  <2>2. c \in Buffers  BY <2>1
  <2>3. buffers[c] # 0  BY <1>2 DEF BucketInv, VectorInv, BucketsPrefix
  <2> QED  BY <1>3, <2>2, <2>3 DEF Grows
<1>6. ElementsBacked' /\ WritesBacked'
  BY <1>0, <1>3, BackedGrows DEF BucketInv, VectorInv, ElementsBacked, WritesBacked
<1>7. PendingIsLast'
  BY <1>0 DEF BucketInv, VectorInv, PendingIsLast, PendingIn
<1>8. \A d \in DAddrs : descs'[d].size \in Nat
  BY <1>0 DEF TypeOK, VectorTypeOK, Descriptor
<1> QED  BY <1>1, <1>2, <1>3, <1>4, <1>5, <1>6, <1>7, <1>8 DEF VectorInv

\* The steps of allocate_bucket that go on.
LEMMA AllocatesKeepBuckets ==
  ASSUME MemoryInv, MemoryInv', BucketInv, NEW t \in Threads, NEW b \in Buffers,
         AllocateBucket(t, b), \A c \in 0 .. b - 1 : buffers[c] # 0,
         \/ /\ pc[t] = "allocate_bucket" /\ Goto(t, "read_elem") /\ allocs' = allocs
            /\ b = bucket_of(descs[cur[t]].size)
         \/ /\ pc[t] \in {"reserve_first", "reserve_next"} /\ Goto(t, "reserve_next")
            /\ allocs' = [allocs EXCEPT ![t] = b]
  PROVE  BucketInv'
<1> USE DEF AllocateBucket, Goto, call
<1>1. TypeOK /\ BucketKnown(t)  BY DEF BucketInv
<1>2. ~dropped  BY InACall DEF Resting
<1>0. b \in Nat /\ USIZE_BITS \in Nat /\ K \in Nat /\ Buffers = 0 .. USIZE_BITS - 2 - K
  BY BucketsAssumption, FirstBucket, BucketsThatFit
<1>3. /\ VectorInv' /\ Grows /\ buffers'[b] # 0
      /\ buffers' \in [Buffers -> Nat] /\ cells' \in [Slots -> Nat]
      /\ \A d \in DAddrs : descs'[d].size \in Nat
  BY AllocateKeepsBuckets
<1>4. DataTypeOK'
  BY <1>0, <1>1, <1>3 DEF DataTypeOK, TypeOK, VectorTypeOK, CallTypeOK, WorkTypeOK
<1>5. \A u \in Threads \ {t} : UNCHANGED Knows(u)
  BY <1>1 DEF TypeOK, CallTypeOK, WorkTypeOK, Knows
<1>6. fresh'[t] = Null  BY DEF MemoryInv, Scopes
<1>7. BucketKnown(t)'
  <2>1. CASE pc[t] = "allocate_bucket"
    <3>1. cur[t] \in DAddrs  BY <2>1, Holds DEF MemoryInv, Scopes, HasDesc
    <3>2. descs[cur[t]].size \in Slots
      BY <2>1, <3>1, SizesInRange
    <3>3. Backed(descs[cur[t]].size)'
      BY <1>3, <2>1, <3>2 DEF Backed
    <3>4. pc'[t] = "read_elem" /\ op[t] \in {"push", "pop"}
      BY <1>1, <2>1 DEF TypeOK, CallTypeOK, BucketKnown, LoopKnown
    <3> QED  BY <1>6, <3>3, <3>4 DEF BucketKnown, LoopKnown, ReserveKnown, Delivered, Writing
  <2>2. CASE pc[t] \in {"reserve_first", "reserve_next"}
    <3>1. pc'[t] = "reserve_next" /\ allocs'[t] = b
      BY <1>1, <2>2 DEF TypeOK, CallTypeOK, WorkTypeOK
    <3>2. \A c \in 0 .. b : buffers'[c] # 0
      <4>1. \A c \in 0 .. b - 1 : c \in Buffers  BY <1>0
      <4>2. \A c \in 0 .. b - 1 : buffers'[c] # 0  BY <1>3, <4>1 DEF Grows
      <4> QED  BY <1>0, <1>3, <4>2
    <3>3. op[t] = "reserve" /\ arg[t] \in 0 .. UsizeMax
      BY <1>1, <2>2 DEF BucketKnown, ReserveKnown
    <3> QED  BY <1>6, <3>1, <3>2, <3>3 DEF BucketKnown, LoopKnown, ReserveKnown, Delivered,
             Writing
  <2> QED  BY <2>1, <2>2
<1> QED  BY <1>2, <1>3, <1>4, <1>5, <1>7, StepOfOne

\* push takes the bucket of the next element: all of the smaller ones are in
\* use by the elements that precede it.
LEMMA PushAllocatesKeepsBuckets ==
  ASSUME MemoryInv, MemoryInv', BucketInv, NEW t \in Threads, PushAllocates(t)
  PROVE  BucketInv'
<1> DEFINE s == descs[cur[t]].size
           b == bucket_of(s)
<1>1. /\ pc[t] = "allocate_bucket" /\ cur[t] \in DAddrs /\ op[t] # "reserve"
  BY Holds DEF PushAllocates, BucketInv, BucketKnown, LoopKnown, MemoryInv, Scopes, HasDesc
<1>2. /\ s \in 0 .. UsizeMax - FIRST_BUCKET_SIZE /\ b \in Buffers
      /\ \A i \in 0 .. s - 1 : Backed(i)
  BY <1>1, SizesInRange
<1>3. \A c \in 0 .. b - 1 : buffers[c] # 0
  BY <1>2, SmallerBucketsAreUsed DEF Backed
<1>4. CASE CapacityOverflow(t, b)
  BY <1>1, <1>4, PanicKeepsBuckets DEF CapacityOverflow, Resting
<1>5. CASE AllocateBucket(t, b) /\ Goto(t, "read_elem") /\ UNCHANGED allocs
  <2> HIDE DEF b
  <2> QED  BY <1>1, <1>2, <1>3, <1>5, AllocatesKeepBuckets DEF b
<1> QED  BY <1>4, <1>5 DEF PushAllocates

\* reserve starts where the size says and takes the buckets in order, so that
\* it can say in the end that it has all of them up to the last.
LEMMA ReserveKeepsBuckets ==
  ASSUME MemoryInv, MemoryInv', BucketInv, NEW t \in Threads, Reserve(t)
  PROVE  BucketInv'
<1>0. /\ TypeOK /\ VectorInv /\ BucketKnown(t) /\ allocs[t] \in Nat
      /\ op[t] = "reserve" /\ arg[t] \in 0 .. UsizeMax
      /\ pc[t] \in {"load_pending", "reserve_first", "reserve_next"}
  <2>1. TypeOK /\ VectorInv /\ BucketKnown(t)  BY DEF BucketInv
  <2>2. allocs[t] \in Nat  BY <2>1 DEF TypeOK, WorkTypeOK
  <2> QED  BY <2>1, <2>2, Zenon DEF Reserve, ReserveSize, ReserveFirst, ReserveNext, ReserveDone,
           BucketKnown, ReserveKnown
<1>u. /\ USIZE_BITS \in Nat /\ K \in Nat /\ Buffers = 0 .. USIZE_BITS - 2 - K
      /\ UsizeMax \in Nat /\ FIRST_BUCKET_SIZE \in 1 .. UsizeMax
  BY BucketsAssumption, FirstBucket, BucketsThatFit
<1>c. ~dropped /\ pc[t] \notin Resting /\ fresh[t] = Null
  BY <1>0, InACall DEF Resting, MemoryInv, Scopes
<1> DEFINE n == arg[t]
<1>1. /\ last_bucket(n) \in 0 .. USIZE_BITS - 1 - K
      /\ n = 0 => last_bucket(n) = 0
      /\ n # 0 /\ n - 1 <= UsizeMax - FIRST_BUCKET_SIZE => last_bucket(n) = bucket_of(n - 1)
      /\ n - 1 > UsizeMax - FIRST_BUCKET_SIZE => ~layout_ok(last_bucket(n))
  BY <1>0, <1>u, LastBucket
<1>2. CASE ReserveSize(t)
  <2> DEFINE s == SizeOf(cur[t])
  <2>1. /\ cur[t] \in DAddrs /\ s \in Nat /\ s <= descs[cur[t]].size
        /\ descs[cur[t]].size \in 0 .. UsizeMax - FIRST_BUCKET_SIZE
        /\ \A i \in 0 .. descs[cur[t]].size - 1 : Backed(i)
    <3>1. cur[t] \in DAddrs /\ heap[cur[t]] # "free"
      BY <1>2, Holds DEF ReserveSize, MemoryInv, Scopes, HasDesc
    <3> QED  BY <3>1, SizeOfType, SizesInRange
  <2> USE DEF ReserveSize, Goto, shared, vector, call
  <2>2. VectorInv' /\ Grows /\ \A d \in DAddrs : descs'[d].size \in Nat
    BY <1>2, StillKeeps
  <2>3. \A u \in Threads \ {t} : UNCHANGED Knows(u)
    BY <1>0, <1>2 DEF TypeOK, CallTypeOK, WorkTypeOK, Knows
  <2>4. /\ allocs'[t] = last_bucket(s) /\ pc'[t] = IF s = 0 THEN "reserve_first" ELSE "reserve_next"
        /\ UNCHANGED <<op, arg, fresh, ret, buffers, dropped>>
    BY <1>0, <1>2 DEF TypeOK, CallTypeOK, WorkTypeOK
  <2>5. s \in 0 .. UsizeMax
    <3> HIDE DEF s, n
    <3> QED  BY <1>u, <2>1
  <2>6. last_bucket(s) \in Nat  BY <2>5, LastBucket
  <2>7. DataTypeOK'
    BY <1>0, <1>2, <2>2, <2>6 DEF DataTypeOK, TypeOK, VectorTypeOK, CallTypeOK, WorkTypeOK
  <2> HIDE DEF s
  <2>8. s # 0 => last_bucket(s) \in Buffers /\ \A c \in 0 .. last_bucket(s) : buffers[c] # 0
    <3> SUFFICES ASSUME s # 0
                 PROVE  last_bucket(s) \in Buffers /\ \A c \in 0 .. last_bucket(s) : buffers[c] # 0
      OBVIOUS
    <3>1. s - 1 <= UsizeMax - FIRST_BUCKET_SIZE /\ Backed(s - 1)  BY <1>u, <2>1
    <3>2. last_bucket(s) = bucket_of(s - 1)  BY <2>5, <3>1, LastBucket
    <3>3. bucket_of(s - 1) \in Buffers /\ buffers[bucket_of(s - 1)] # 0
      BY <3>1, BucketOfSlot DEF Backed
    <3> QED  BY <1>0, <1>u, <3>2, <3>3 DEF VectorInv, BucketsPrefix
  <2>9. s = 0 => last_bucket(s) = 0  BY <2>5, LastBucket
  <2>10. BucketKnown(t)'
    BY <1>0, <1>c, <2>4, <2>8, <2>9 DEF BucketKnown, LoopKnown, ReserveKnown, Delivered, Writing
  <2> QED  BY <1>c, <2>2, <2>3, <2>4, <2>7, <2>10, StepOfOne
<1>3. CASE ReserveFirst(t)
  <2>1. /\ AllocateBucket(t, 0) /\ pc[t] = "reserve_first" /\ Goto(t, "reserve_next")
        /\ allocs' = allocs /\ allocs[t] = 0
    BY <1>0, <1>3 DEF ReserveFirst, BucketKnown, ReserveKnown
  <2>2. allocs' = [allocs EXCEPT ![t] = 0]  BY <1>0, <2>1 DEF TypeOK, WorkTypeOK
  <2>3. PICK b \in Buffers : b = 0  BY BucketsThatFit
  <2>4. \A c \in 0 .. b - 1 : buffers[c] # 0  BY <2>3
  <2> QED  BY <2>1, <2>2, <2>3, <2>4, AllocatesKeepBuckets
<1>4. CASE ReserveNext(t)
  <2> DEFINE b == allocs[t] + 1
  <2>1. /\ b <= last_bucket(n) /\ allocs[t] \in Buffers /\ pc[t] = "reserve_next"
        /\ \A c \in 0 .. b - 1 : buffers[c] # 0
        /\ b \in 0 .. USIZE_BITS - 1 - K
    BY <1>0, <1>u, <1>1, <1>4 DEF ReserveNext, BucketKnown, ReserveKnown
  <2>2. CASE CapacityOverflow(t, b)
    <3>1. ~layout_ok(b)  BY <2>2 DEF CapacityOverflow
    <3>2. ~layout_ok(last_bucket(n))
      <4>1. last_bucket(n) \in 0 .. USIZE_BITS - K /\ b \in 0 .. last_bucket(n)
        BY <1>0, <1>u, <1>1, <2>1
      <4> QED  BY <3>1, <4>1, BucketsThatFit
    <3>3. n - 1 \notin Slots
      <4> SUFFICES ASSUME n - 1 \in Slots PROVE FALSE
        OBVIOUS
      <4>1. layout_ok(bucket_of(n - 1)) /\ n - 1 \in 0 .. UsizeMax - FIRST_BUCKET_SIZE
        BY DEF Slots
      <4> QED  BY <1>0, <1>u, <1>1, <3>2, <4>1
    <3> QED  BY <1>c, <2>2, <3>3, PanicKeepsBuckets DEF CapacityOverflow
  <2>3. CASE /\ AllocateBucket(t, b)
             /\ allocs' = [allocs EXCEPT ![t] = @ + 1]
             /\ Goto(t, "reserve_next")
    <3>1. b \in Buffers
      <4>1. layout_ok(b) /\ b \in 0 .. USIZE_BITS - K  BY <1>u, <2>1, <2>3 DEF AllocateBucket
      <4> QED  BY <4>1, BucketsThatFit
    <3>2. allocs' = [allocs EXCEPT ![t] = b]  BY <2>3
    <3> HIDE DEF b
    <3> QED  BY <2>1, <2>3, <3>1, <3>2, AllocatesKeepBuckets
  <2> QED  BY <1>4, <2>2, <2>3 DEF ReserveNext
<1>5. CASE ReserveDone(t)
  <2>1. /\ UNCHANGED <<buffers, cells, descs, writes, heap, dropped>> /\ Return(t, None)
        /\ last_bucket(n) <= allocs[t] /\ allocs[t] \in Buffers
        /\ \A c \in 0 .. allocs[t] : buffers[c] # 0
    BY <1>0, <1>u, <1>1, <1>5 DEF ReserveDone, Return, vector, BucketKnown, ReserveKnown
  <2>2. VectorInv' /\ Grows /\ \A d \in DAddrs : descs'[d].size \in Nat
    BY <2>1, StillKeeps
  <2>3. last_bucket(n) \in Buffers /\ layout_ok(last_bucket(n))
    <3>1. last_bucket(n) \in 0 .. allocs[t] /\ last_bucket(n) \in Buffers
      BY <1>0, <1>u, <1>1, <2>1
    <3> QED  BY <1>0, <2>1, <3>1 DEF VectorInv, BlocksFit
  <2>4. ASSUME NEW i \in 0 .. n - 1  PROVE Backed(i)'
    <3>1. n - 1 <= UsizeMax - FIRST_BUCKET_SIZE  BY <1>0, <1>u, <1>1, <2>3
    <3>2. /\ i \in 0 .. UsizeMax - FIRST_BUCKET_SIZE
          /\ n - 1 \in 0 .. UsizeMax - FIRST_BUCKET_SIZE /\ i <= n - 1
      BY <1>0, <1>u, <2>4, <3>1
    <3>3. bucket_of(i) <= last_bucket(n)  BY <1>0, <1>u, <1>1, <2>4, <3>2, BucketMonotone
    <3>4. bucket_of(i) \in 0 .. USIZE_BITS - 1 - K  BY <3>2, BucketOf
    <3>5. buffers[bucket_of(i)] # 0 /\ bucket_of(i) \in Buffers
      BY <1>0, <1>u, <1>1, <2>1, <2>3, <3>3, <3>4
    <3>6. layout_ok(bucket_of(i))  BY <1>0, <3>5 DEF VectorInv, BlocksFit
    <3> QED  BY <2>1, <3>2, <3>5, <3>6 DEF Backed, Slots
  <2>5. writes' \in [WAddrs -> WriteDescriptor]  BY <1>0, <2>1 DEF TypeOK, VectorTypeOK
  <2> QED  BY <1>c, <2>1, <2>2, <2>4, <2>5, ReturnKeepsBuckets
<1> QED  BY <1>2, <1>3, <1>4, <1>5 DEF Reserve

-----------------------------------------------------------------------------
(* The domain, and Drop *)

\* Nothing but boxes changes, and what a thread has is not freed.
LEMMA ReclaimKeepsBuckets ==
  ASSUME MemoryInv, MemoryInv', BucketInv, Reclaim
  PROVE  BucketInv'
<1> USE DEF call, work
<1>1. TypeOK  BY DEF BucketInv
<1>2. /\ UNCHANGED <<buffers, cells, writes, returned, dropped, pc, call, cur, work>>
      /\ VectorInv' /\ Grows /\ \A d \in DAddrs : descs'[d].size \in Nat
  <2>1. CASE ReclaimDescriptor
    <3>1. PICK d \in DAddrs : FreeDescriptor(d)  BY <2>1 DEF ReclaimDescriptor
    <3> QED  BY <2>1, <3>1, FreedKeepsBuckets DEF ReclaimDescriptor
  <2>2. CASE ReclaimWrite
    <3>1. PICK w \in WAddrs : heap' = [heap EXCEPT ![w] = "free"]  BY <2>2 DEF ReclaimWrite
    <3>2. \A d \in DAddrs : heap'[d] = heap[d]
      BY <1>1, <3>1, SealedAssumption DEF TypeOK, VectorTypeOK, Addrs
    <3> QED  BY <2>2, <3>2, StillKeeps DEF ReclaimWrite
  <2> QED  BY <2>1, <2>2 DEF Reclaim
<1>3. DataTypeOK'
  BY <1>1, <1>2 DEF DataTypeOK, TypeOK, VectorTypeOK, CallTypeOK, WorkTypeOK
<1>4. \A u \in Threads : BucketKnown(u)'
  BY <1>2, OthersKnow DEF BucketInv, Knows
<1>5. SameLayout'  BY <1>2 DEF BucketInv, SameLayout
<1> QED  BY <1>2, <1>3, <1>4, <1>5, TypesTogether DEF BucketInv

\* The position of a block among those that are there is its bucket: there is
\* no hole before it.
LEMMA PositionIsBucket ==
  ASSUME BucketInv, NEW b \in Buffers, buffers[b] # 0
  PROVE  Position(b) = b
<1>1. USIZE_BITS \in Nat /\ K \in Nat /\ Buffers = 0 .. USIZE_BITS - 2 - K
  BY BucketsAssumption, FirstBucket, BucketsThatFit
<1>2. {c \in Buffers : c < b /\ buffers[c] # 0} = 0 .. b - 1
  BY <1>1 DEF BucketInv, VectorInv, BucketsPrefix
<1>3. b \in Nat /\ b - 1 \in Int /\ 0 \in Int  BY <1>1
<1>4. Cardinality(0 .. b - 1) = IF 0 > b - 1 THEN 0 ELSE (b - 1) - 0 + 1
  BY <1>3, FS_Interval
<1>5. Cardinality(0 .. b - 1) = b  BY <1>3, <1>4
<1> QED  BY <1>2, <1>5 DEF Position

LEMMA DropKeepsBuckets ==
  ASSUME MemoryInv, MemoryInv', BucketInv, Drop
  PROVE  BucketInv'
<1> USE DEF call, work
<1>1. TypeOK  BY DEF BucketInv
<1>2. UNCHANGED <<buffers, cells, descs, writes, pc, call, cur, work>> /\ dropped'
  BY DEF Drop
<1>3. \A a \in Addrs : heap[a] = "free" => heap'[a] = "free"
  BY <1>2 DEF MemoryInv, AfterDrop
<1>4. VectorInv' /\ Grows /\ \A d \in DAddrs : descs'[d].size \in Nat
  BY <1>2, <1>3, StillKeeps
<1>5. returned' = buffers
  <2>1. returned' = [b \in Buffers |-> IF buffers[b] # 0 THEN bucket_len(Position(b)) ELSE 0]
    BY DEF Drop
  <2>2. \A b \in Buffers :
          buffers[b] = IF buffers[b] # 0 THEN bucket_len(Position(b)) ELSE 0
    BY PositionIsBucket DEF BucketInv, VectorInv, BlocksFit
  <2>3. buffers = [b \in Buffers |-> buffers[b]]  BY <1>1 DEF TypeOK, VectorTypeOK
  <2> QED  BY <2>1, <2>2, <2>3
<1>6. DataTypeOK'
  BY <1>1, <1>2, <1>4, <1>5 DEF DataTypeOK, TypeOK, VectorTypeOK, CallTypeOK, WorkTypeOK
<1>7. \A u \in Threads : BucketKnown(u)'
  BY <1>2, <1>4, OthersKnow DEF BucketInv, Knows
<1>8. SameLayout'  BY <1>2, <1>5 DEF SameLayout
<1> QED  BY <1>4, <1>6, <1>7, <1>8, TypesTogether DEF BucketInv

LEMMA StutterKeepsBuckets ==
  ASSUME MemoryInv, MemoryInv', BucketInv, UNCHANGED vars
  PROVE  BucketInv'
<1> USE DEF vars, shared, vector, call, work
<1>1. VectorInv' /\ Grows /\ \A d \in DAddrs : descs'[d].size \in Nat  BY StillKeeps
<1>2. DataTypeOK'
  BY <1>1 DEF BucketInv, DataTypeOK, TypeOK, VectorTypeOK, CallTypeOK, WorkTypeOK
<1>3. \A u \in Threads : BucketKnown(u)'  BY <1>1, OthersKnow DEF BucketInv, Knows
<1>4. SameLayout'  BY DEF BucketInv, SameLayout
<1> QED  BY <1>1, <1>2, <1>3, <1>4, TypesTogether DEF BucketInv

LEMMA StepKeepsBuckets ==
  ASSUME MemoryInv, MemoryInv', BucketInv, NEW t \in Threads, Step(t)
  PROVE  BucketInv'
<1>1. CASE CompleteWrite(t)
  BY <1>1, LoadKeepsBuckets, WriteCellKeepsBuckets, ReturnsKeepBuckets,
     LoadTargetKeepsBuckets, ClearPendingKeepsBuckets DEF CompleteWrite
<1>2. CASE Push(t)
  BY <1>2, LoadKeepsBuckets, PushAllocatesKeepsBuckets, ReadsKeepBuckets,
     PushSwapsKeepsBuckets DEF Push
<1>3. CASE Pop(t)  BY <1>3, ReturnsKeepBuckets, ReadsKeepBuckets DEF Pop
<1>4. CASE Reserve(t)  BY <1>4, ReserveKeepsBuckets
<1> QED
  BY <1>1, <1>2, <1>3, <1>4, LoadKeepsBuckets, RetrySwapKeepsBuckets, ReturnsKeepBuckets DEF Step

-----------------------------------------------------------------------------
(* The invariant and its consequences *)

\* What sizes say of buckets stays true at every step of every thread and of
\* the domain.
THEOREM BucketInvariance == Spec => []BucketInv
<1>1. MemoryInv /\ MemoryInv' /\ BucketInv /\ [Next]_vars => BucketInv'
  BY CallKeepsBuckets, StepKeepsBuckets, ReclaimKeepsBuckets, DropKeepsBuckets,
     StutterKeepsBuckets DEF Next, AllDropped
<1> QED  BY <1>1, InitBuckets, MemoryInvariance, PTL DEF Spec

\* The types hold for any number of threads, calls and addresses: no address
\* is null where a box is read, and "size - 1" of size() and reserve() does
\* not underflow.
THEOREM TypeCorrect == Spec => []TypeOK
<1>1. BucketInv => TypeOK  BY DEF BucketInv
<1> QED  BY <1>1, BucketInvariance, PTL

\* Drop gives every block back with the length it was allocated with, although
\* it numbers the blocks by their position among those that are there.
THEOREM LayoutsAreTheSame == Spec => []SameLayout
<1>1. BucketInv => SameLayout  BY DEF BucketInv
<1> QED  BY <1>1, BucketInvariance, PTL

\* When reserve(n) has returned, the n elements have their memory while the
\* vector lives; when it has panicked, no memory can hold them.
THEOREM ReserveHasDelivered == Spec => []ReserveDelivers
<1>1. BucketInv => ReserveDelivers  BY DEF BucketInv, BucketKnown, ReserveDelivers
<1> QED  BY <1>1, BucketInvariance, PTL

\* No thread offsets the null pointer of a bucket that is not allocated, in
\* push or pop, nor in complete_write unless its write descriptor was freed
\* before it read it.
THEOREM NoNullIsOffset == Spec => []NoNullDeref
<1>1. ASSUME MemoryInv, BucketInv  PROVE NoNullDeref
  <2> SUFFICES ASSUME NEW t \in Threads
               PROVE  /\ pc[t] = "write_cell" /\ heap[wd[t]] # "free" /\ writes[wd[t]].some
                           => Backed(writes[wd[t]].location)
                      /\ pc[t] = "read_elem" /\ op[t] = "push" => Backed(descs[cur[t]].size)
                      /\ pc[t] = "read_elem" /\ op[t] = "pop" /\ descs[cur[t]].size # 0
                           => Backed(descs[cur[t]].size - 1)
    BY DEF NoNullDeref
  <2>1. pc[t] = "write_cell" /\ heap[wd[t]] # "free" /\ writes[wd[t]].some
          => Backed(writes[wd[t]].location)
    <3>1. pc[t] = "write_cell" => wd[t] \in WAddrs
      BY <1>1 DEF MemoryInv, MemoryTypeOK, Scopes, Writing
    <3> QED  BY <1>1, <3>1 DEF BucketInv, VectorInv, WritesBacked
  <2>2. pc[t] = "read_elem" => cur[t] \in DAddrs
    BY <1>1, Holds DEF MemoryInv, Scopes, HasDesc
  <2>3. pc[t] = "read_elem" /\ descs[cur[t]].size # 0 => Backed(descs[cur[t]].size - 1)
    <3>1. pc[t] = "read_elem" => descs[cur[t]].size \in Nat
      BY <1>1, <2>2 DEF BucketInv, TypeOK, VectorTypeOK, Descriptor
    <3> QED  BY <1>1, <2>2, <3>1 DEF BucketInv, VectorInv, ElementsBacked
  <2> QED  BY <1>1, <2>1, <2>3 DEF BucketInv, BucketKnown, LoopKnown
<1>2. MemoryInv /\ BucketInv => NoNullDeref  BY <1>1
<1> QED  BY <1>2, MemoryInvariance, BucketInvariance, PTL
=============================================================================
