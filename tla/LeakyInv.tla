------------------------------ MODULE LeakyInv -------------------------------
(***************************************************************************)
(* The inductive invariant of Leaky: what holds of the shared state, and   *)
(* what each thread knows of it from where it is in the code.              *)
(***************************************************************************)
EXTENDS Leaky

InWrite == {"write_cell", "load_target", "clear_pending"}
InLoop  == {"check_bucket", "allocate_bucket", "read_elem", "swap_descriptor"}

\* The buckets that exist could be allocated, and all that a Descriptor counts
\* as elements lie in buckets that exist.
AllocatedFit   == \A b \in Buffers : buffers[b] => layout_ok(b)
ElementsBacked == \A d \in 1 .. descriptor : \A i \in 0 .. descs[d].size - 1 : Backed(i)

\* A pending write is that of the last element.
PendingIsLast ==
  \A d \in 1 .. descriptor :
    descs[d].pending => descs[d].size > 0 /\ descs[d].location = descs[d].size - 1

SharedInv ==
  ReplacedCleared /\ BucketsPrefix /\ AllocatedFit /\ ElementsBacked /\ PendingIsLast

\* Inside complete_write, a thread has the write descriptor of the Descriptor
\* it loaded or its own; the Descriptor it clears is that one or a later one.
WriteKnown(t) ==
  /\ pc[t] \in InWrite =>
       /\ op[t] \in {"push", "pop"}
       /\ ret[t] # "idle" => wd[t] = cur[t] /\ ret[t] = AfterHelping(t)
       /\ Backed(descs[wd[t]].location)
  /\ pc[t] = "clear_pending" => wd[t] <= target[t]

\* After it, the Descriptor that was loaded has no pending write, whether it
\* is still the current one or not.
LoopKnown(t) ==
  /\ pc[t] \in InLoop => op[t] \in {"push", "pop"} /\ ~descs[cur[t]].pending
  /\ pc[t] \in {"read_elem", "swap_descriptor"} /\ op[t] = "push" =>
       Backed(descs[cur[t]].size)
  /\ pc[t] = "swap_descriptor" /\ op[t] = "pop" => descs[cur[t]].size # 0

\* reserve has the buckets up to num_current_allocs when it comes to the loop.
ReserveKnown(t) ==
  /\ op[t] = "reserve" => arg[t] \in 0 .. UsizeMax
  /\ pc[t] \in {"reserve_first", "reserve_next"} => op[t] = "reserve"
  /\ pc[t] = "reserve_first" => allocs[t] = 0
  /\ pc[t] = "reserve_next" =>
       allocs[t] \in Buffers /\ \A c \in 0 .. allocs[t] : buffers[c]

ThreadInv(t) == WriteKnown(t) /\ LoopKnown(t) /\ ReserveKnown(t) /\ Delivered(t)

\* The inductive invariant: together, what is shared and what every thread
\* knows of it are enough for the next step of any thread, so that neither a
\* helper that is late nor a Descriptor that was replaced can mislead push,
\* pop and reserve about the memory.
IInv == TypeOK /\ SharedInv /\ \A t \in Threads : ThreadInv(t)

\* A thread is in complete_write for its own write.
Own(t) == op[t] = "push" /\ ret[t] = "idle" /\ pc[t] \in InWrite

\* A pending write has an owner that waits for its end: exactly one, so that
\* the push that counts is the one that has announced the element.
OneOwner ==
  /\ \A d \in 1 .. descriptor : descs[d].pending => \E t \in Threads : Own(t) /\ wd[t] = d
  /\ \A t, u \in Threads : Own(t) /\ Own(u) /\ wd[t] = wd[u] => t = u

\* The write of t has been cleared already, by t or by a helper.
Took(t) == Own(t) /\ ~descs[wd[t]].pending
=============================================================================
