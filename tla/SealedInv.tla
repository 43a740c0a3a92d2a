------------------------------ MODULE SealedInv ------------------------------
(***************************************************************************)
(* The two inductive invariants of Sealed.  MemoryInv, behind SingleOwner  *)
(* and HeldIsNotFreed: what a thread knows, at each position in the code,  *)
(* of the boxes it has the address of.  BucketInv, behind SameLayout,      *)
(* NoNullDeref and ReserveDelivers: what the sizes in those boxes say of   *)
(* the buckets; it holds on the strength of MemoryInv, since a size means  *)
(* something only while nobody frees or reuses the box that it is in.      *)
(***************************************************************************)
EXTENDS Sealed, Integers

\* The types that the argument needs; sizes may be any integer.
MemoryTypeOK ==
  /\ descriptor \in DAddrs
  /\ descs \in [DAddrs -> [size : Int, pending : WAddrs \cup {Null}]]
  /\ heap \in [Addrs -> {"free", "used", "retired"}]
  /\ dropped \in BOOLEAN
  /\ pc \in [Threads -> Labels]
  /\ op \in [Threads -> {"new", "push", "pop", "size", "reserve"}]
  /\ hazards \in [Threads -> SUBSET Addrs]
  /\ cur \in [Threads -> DAddrs \cup {Null}]
  /\ wd \in [Threads -> WAddrs \cup {Null}]
  /\ target \in [Threads -> DAddrs \cup {Null}]
  /\ fresh \in [Threads -> WAddrs \cup {Null}]
  /\ ret \in [Threads -> {"idle", "check_bucket", "read_elem"}]
  /\ next \in [Threads -> DAddrs \cup {Null}]

Writing  == {"write_cell", "load_target", "clear_pending"}
HasDesc  == Writing \cup
  {"load_pending", "check_bucket", "allocate_bucket", "read_elem", "swap_descriptor"}
Resting  == {"idle", "panicked"}

\* Which addresses a thread has where: the rest are null.
Scopes(t) ==
  /\ cur[t] # Null <=> pc[t] \in HasDesc
  /\ wd[t] # Null <=> pc[t] \in Writing
  /\ target[t] # Null <=> pc[t] = "clear_pending"
  /\ fresh[t] # Null <=> pc[t] = "clear_pending"
  /\ next[t] # Null <=> pc[t] = "swap_descriptor"
  /\ ret[t] # "idle" => pc[t] \in Writing
  /\ pc[t] \in Writing /\ Own(t) => op[t] = "push"

\* What a thread uses is protected and was not freed. A helper's write
\* descriptor is still pending in the Descriptor that the helper protects, or
\* it was retired; it goes free neither with another Descriptor nor alone.
Protected(t) ==
  /\ cur[t] # Null => cur[t] \in hazards[t] /\ heap[cur[t]] # "free"
  /\ target[t] # Null => target[t] \in hazards[t] /\ heap[target[t]] # "free"
  /\ Helping(t) => /\ wd[t] \in hazards[t]
                   /\ heap[wd[t]] = "retired" \/ PendingIn(cur[t], wd[t])

\* Nobody else has the address of a Descriptor that is not swapped in yet.
Private(t) == next[t] # Null =>
  \A u \in Threads : cur[u] # next[t] /\ target[u] # next[t]

\* A Descriptor always has a write descriptor, if only a None.
AlwaysPending == \A d \in DAddrs : heap[d] # "free" => descs[d].pending # Null

AfterDrop == dropped =>
  /\ \A a \in Addrs : heap[a] = "free"
  /\ \A t \in Threads : pc[t] \in Resting

\* The memory of the vector is in order: every box has one owner, and threads
\* hold on to what they use.
MemoryInv ==
  /\ MemoryTypeOK /\ SingleOwner /\ AlwaysPending /\ AfterDrop
  /\ \A t \in Threads : Scopes(t) /\ Protected(t) /\ Private(t)

-----------------------------------------------------------------------------
(* Buckets and sizes *)

\* The buckets that are allocated are the first ones, with no hole; each has
\* the length of its number.
BucketsPrefix ==
  \A b \in Buffers : buffers[b] # 0 => \A c \in 0 .. b - 1 : buffers[c] # 0
BlocksFit ==
  \A b \in Buffers : buffers[b] # 0 => buffers[b] = bucket_len(b) /\ layout_ok(b)

\* What a Descriptor counts as elements, and what a write descriptor that was
\* not freed wants to write, lies in buckets that exist.
ElementsBacked == \A d \in DAddrs : \A i \in 0 .. descs[d].size - 1 : Backed(i)
WritesBacked   == \A w \in WAddrs :
  heap[w] # "free" /\ writes[w].some => Backed(writes[w].location)

\* A pending write is that of the last element.
PendingIsLast == \A d \in DAddrs, w \in WAddrs :
  PendingIn(d, w) /\ writes[w].some => descs[d].size = writes[w].location + 1

VectorInv == BlocksFit /\ BucketsPrefix /\ ElementsBacked /\ WritesBacked /\ PendingIsLast

\* A helper goes on where its own method does, with a None to swap in; push
\* reads the old value of an element that it has seen the bucket of.
LoopKnown(t) ==
  /\ pc[t] \in Writing /\ ~Own(t) => op[t] \in {"push", "pop"} /\ ret[t] = AfterHelping(t)
  /\ fresh[t] # Null => ~writes[fresh[t]].some
  /\ pc[t] \in {"check_bucket", "allocate_bucket", "read_elem", "swap_descriptor"} =>
       op[t] \in {"push", "pop"}
  /\ pc[t] = "read_elem" /\ op[t] = "push" => Backed(descs[cur[t]].size)

\* reserve has the buckets up to num_current_allocs when it comes to the loop.
ReserveKnown(t) ==
  /\ op[t] = "reserve" => arg[t] \in 0 .. UsizeMax
  /\ pc[t] \in {"reserve_first", "reserve_next"} => op[t] = "reserve"
  /\ pc[t] = "reserve_first" => allocs[t] = 0
  /\ pc[t] = "reserve_next" =>
       allocs[t] \in Buffers /\ \A c \in 0 .. allocs[t] : buffers[c] # 0

BucketKnown(t) == LoopKnown(t) /\ ReserveKnown(t) /\ Delivered(t)

\* The memory of the elements is in order: whatever a thread may still count,
\* write or reserve by has its bucket, and Drop finds the buckets by position.
BucketInv == TypeOK /\ VectorInv /\ SameLayout /\ \A t \in Threads : BucketKnown(t)
=============================================================================
