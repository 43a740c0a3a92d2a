------------------------------ MODULE LeakySize ------------------------------
(***************************************************************************)
(* leaky::SecVec implements a linearizable length.  The length is the size *)
(* of the current Descriptor without the element whose write is pending:   *)
(* a push takes effect when its pending write is cleared, by its own       *)
(* thread or by another one, and a pop when it swaps its Descriptor in.    *)
(*                                                                         *)
(* size() and pop() decide on a Descriptor that may have been replaced     *)
(* since they loaded it.  So the mapping needs to know what the length has *)
(* been during the call: the history variable seen.                        *)
(***************************************************************************)
EXTENDS LeakyInv

VARIABLE seen   \* the lengths since the call in progress of each thread began

len == SizeOf(descriptor)

Method(t) == IF pc[t] \in {"idle", "panicked"} THEN "idle" ELSE op[t]

Told(t) ==
  CASE res[t] = None                     -> 0
    [] res[t] # None /\ op[t] = "pop"    -> 1
    [] res[t] # None /\ op[t] # "pop"    -> res[t]

SizeInit == Init /\ seen = [t \in Threads |-> {}]
SizeNext ==
  /\ Next
  /\ seen' = [t \in Threads |->
                IF Method(t)' = "idle" THEN {} ELSE seen[t] \cup {len'}]
SizeSpecification == SizeInit /\ [][SizeNext]_<<vars, seen>>

Counter == INSTANCE SizeSpec WITH
  Methods <- {"push", "pop", "size", "reserve"},
  doing <- [t \in Threads |-> Method(t)],
  took  <- [t \in Threads |-> Took(t)],
  told  <- [t \in Threads |-> Told(t)]

\* A thread holds a Descriptor that it has loaded in this attempt of its loop.
Loaded(t) ==
  \/ pc[t] \in {"load_pending", "check_bucket", "allocate_bucket", "read_elem", "swap_descriptor"}
  \/ pc[t] \in InWrite /\ ret[t] # "idle"

CallCounts(t) ==
  /\ pc[t] \in InWrite /\ ret[t] = "idle" => op[t] = "push"
  /\ pc[t] \in {"check_bucket", "allocate_bucket"} => op[t] = "push"
  /\ pc[t] # "idle" => res[t] = None
  /\ Loaded(t) => SizeOf(cur[t]) \in seen[t]

\* What ImplementsCounter rests on: each element that is not counted yet
\* belongs to one push, which has not returned; and the size that a thread has
\* loaded was the length at an instant of its call, also after its Descriptor
\* was replaced or its pending write was completed by somebody else.
CountInv == OneOwner /\ \A t \in Threads : CallCounts(t)

\* Every behaviour of the threads is one of the linearizable counter: no push
\* or pop is counted twice or not at all, whoever completes it, and size() and
\* pop() = None report what was true at an instant of the call.
ImplementsCounter == Counter!Spec
=============================================================================
