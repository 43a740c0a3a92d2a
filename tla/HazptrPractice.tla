--------------------------- MODULE HazptrPractice ----------------------------
(***************************************************************************)
(* hazptr_practice::DataPtr: a value behind one pointer, which readers     *)
(* protect with a hazard pointer and writers replace in a compare_exchange *)
(* loop.  A box that was replaced is retired to the domain, which frees    *)
(* it, at any time, when no hazard pointer protects it; the allocator may  *)
(* then give its address to another box.                                   *)
(***************************************************************************)
EXTENDS Naturals

CONSTANTS
  Threads,  \* the threads that share the DataPtr
  Values,   \* what is stored
  Addrs,    \* bound: the addresses a box can get
  Null,     \* the null pointer
  None,     \* "no result", of store and of a call that goes on
  MaxCalls  \* bound: calls that one thread makes

ASSUME DataPtrAssumption ==
  /\ Addrs # {} /\ Values # {}
  /\ Null \notin Addrs
  /\ None \notin Values
  /\ MaxCalls \in Nat

VARIABLES
  data,     \* DataPtr.data
  boxes,    \* the value each address holds
  heap,     \* what the allocator and the domain know of each address
  pc,       \* where each thread is
  res,      \* what the last call of each thread returned
  hazards,  \* the addresses that a thread's hazard pointer protects
  cur,      \* the pointer it has loaded
  new,      \* the box that store is to swap in
  calls     \* the calls each thread has made (bounded by MaxCalls)

vars == <<data, boxes, heap, pc, res, hazards, cur, new, calls>>

dropped == data = Null

\* DataPtr::new
Init ==
  /\ data \in Addrs
  /\ \E v \in Values : boxes = [a \in Addrs |-> v]
  /\ heap = [a \in Addrs |-> IF a = data THEN "used" ELSE "free"]
  /\ pc      = [t \in Threads |-> "idle"]
  /\ res     = [t \in Threads |-> None]
  /\ hazards = [t \in Threads |-> {}]
  /\ cur     = [t \in Threads |-> Null]
  /\ new     = [t \in Threads |-> Null]
  /\ calls   = [t \in Threads |-> 0]

Goto(t, label) == pc' = [pc EXCEPT ![t] = label]

Return(t, value) ==
  /\ Goto(t, "idle")
  /\ res' = [res EXCEPT ![t] = value]
  /\ hazards' = [hazards EXCEPT ![t] = {}]
  /\ cur' = [cur EXCEPT ![t] = Null]
  /\ new' = [new EXCEPT ![t] = Null]
  /\ UNCHANGED calls

Unprotected(a) == \A t \in Threads : a \notin hazards[t]

\* The domain frees a retired box, at a retire_in of any thread.
Reclaim ==
  /\ \E a \in Addrs : /\ heap[a] = "retired" /\ Unprotected(a)
                      /\ heap' = [heap EXCEPT ![a] = "free"]
  /\ UNCHANGED <<data, boxes, pc, res, hazards, cur, new, calls>>

-----------------------------------------------------------------------------
(* load *)

CallLoad(t) ==
  /\ pc[t] = "idle" /\ ~dropped
  /\ calls[t] < MaxCalls
  /\ calls' = [calls EXCEPT ![t] = @ + 1]
  /\ res'  = [res EXCEPT ![t] = None]
  /\ Goto(t, "load")
  /\ UNCHANGED <<data, boxes, heap, hazards, cur, new>>

\* Mutated: load_ptr, which protects nothing.
LoadUnprotected(t) ==
  /\ pc[t] = "load"
  /\ cur' = [cur EXCEPT ![t] = data]
  /\ Goto(t, "deref")
  /\ UNCHANGED <<data, boxes, heap, res, hazards, new, calls>>

\* self.data.load(&mut hp): haphazard repeats it until the pointer was
\* protected while it was still the current one.
Load(t) ==
  /\ pc[t] = "load"
  /\ cur' = [cur EXCEPT ![t] = data]
  /\ hazards' = [hazards EXCEPT ![t] = {data}]
  /\ Goto(t, "deref")
  /\ UNCHANGED <<data, boxes, heap, res, new, calls>>

\* *data.unwrap(), copied while the hazard pointer lasts.
Deref(t) ==
  /\ pc[t] = "deref"
  /\ Return(t, boxes[cur[t]])
  /\ UNCHANGED <<data, boxes, heap>>

-----------------------------------------------------------------------------
(* store *)

CallStore(t) ==
  /\ pc[t] = "idle" /\ ~dropped
  /\ calls[t] < MaxCalls
  /\ \E a \in Addrs, v \in Values :
       /\ heap[a] = "free"
       /\ heap'  = [heap EXCEPT ![a] = "used"]
       /\ boxes' = [boxes EXCEPT ![a] = v]
       /\ new'   = [new EXCEPT ![t] = a]
  /\ calls' = [calls EXCEPT ![t] = @ + 1]
  /\ res'  = [res EXCEPT ![t] = None]
  /\ Goto(t, "load_ptr")
  /\ UNCHANGED <<data, hazards, cur>>

\* load_ptr does not protect: the box may be freed, and its address used
\* again, before the compare_exchange.
LoadPtr(t) ==
  /\ pc[t] = "load_ptr"
  /\ cur' = [cur EXCEPT ![t] = data]
  /\ Goto(t, "swap")
  /\ UNCHANGED <<data, boxes, heap, res, hazards, new, calls>>

\* compare_exchange succeeds: the addresses are the same. What it returns is
\* never null, so that "None => continue" does not occur.
Swap(t) ==
  /\ pc[t] = "swap"
  /\ data = cur[t]
  /\ data' = new[t]
  /\ heap' = [heap EXCEPT ![cur[t]] = "retired"]
  /\ Return(t, None)
  /\ UNCHANGED boxes

\* Mutated: compares with the pointer that was loaded at first.
RetryStale(t) ==
  /\ pc[t] = "swap"
  /\ UNCHANGED vars

\* Mutated: the box that was not swapped in is freed, as push of sealed.rs does.
RetryFrees(t) ==
  /\ pc[t] = "swap"
  /\ cur' = [cur EXCEPT ![t] = Null]
  /\ heap' = [heap EXCEPT ![new[t]] = "free"]
  /\ Goto(t, "load_ptr")
  /\ UNCHANGED <<data, boxes, res, hazards, new, calls>>

\* compare_exchange_weak fails, perhaps spuriously.
Retry(t) ==
  /\ pc[t] = "swap"
  /\ cur' = [cur EXCEPT ![t] = Null]
  /\ Goto(t, "load_ptr")
  /\ UNCHANGED <<data, boxes, heap, res, hazards, new, calls>>

-----------------------------------------------------------------------------

\* Mutated: the pointer is swapped for null, and what it pointed to forgotten.
DropForgets ==
  /\ ~dropped /\ \A t \in Threads : pc[t] = "idle"
  /\ data' = Null
  /\ heap' = [a \in Addrs |-> IF heap[a] = "retired" THEN "free" ELSE heap[a]]
  /\ UNCHANGED <<boxes, pc, res, hazards, cur, new, calls>>

\* Drop retires the box of the pointer; the domain, dropped with its DataPtr,
\* frees whatever is retired.
Drop ==
  /\ ~dropped /\ \A t \in Threads : pc[t] = "idle"
  /\ data' = Null
  /\ heap' = [a \in Addrs |->
                IF a = data \/ heap[a] = "retired" THEN "free" ELSE heap[a]]
  /\ UNCHANGED <<boxes, pc, res, hazards, cur, new, calls>>

Calls(t) == CallLoad(t) \/ CallStore(t)
Step(t)  == Load(t) \/ Deref(t) \/ LoadPtr(t) \/ Swap(t) \/ Retry(t)

AllDropped == dropped /\ UNCHANGED vars

Next == (\E t \in Threads : Calls(t) \/ Step(t)) \/ Reclaim \/ Drop \/ AllDropped

Spec == Init /\ [][Next]_vars

\* The scheduler runs every thread, and compare_exchange_weak does not fail
\* spuriously for ever. Nobody has to call, and the domain need not free.
FairSpec == Spec /\ \A t \in Threads : WF_vars(Step(t)) /\ SF_vars(Swap(t))

-----------------------------------------------------------------------------
(* Properties *)

TypeOK ==
  /\ data \in Addrs \cup {Null}
  /\ boxes \in [Addrs -> Values]
  /\ heap \in [Addrs -> {"free", "used", "retired"}]
  /\ pc \in [Threads -> {"idle", "load", "deref", "load_ptr", "swap"}]
  /\ res \in [Threads -> Values \cup {None}]
  /\ hazards \in [Threads -> SUBSET Addrs]
  /\ cur \in [Threads -> Addrs \cup {Null}]
  /\ new \in [Threads -> Addrs \cup {Null}]
  /\ calls \in [Threads -> 0 .. MaxCalls]

\* Every box in use has one owner, the DataPtr or the store that is to swap it
\* in, and boxes that are retired or free have none: each is retired once,
\* although what store compares with may have been freed and used again.
SingleOwner == \A a \in Addrs :
  /\ heap[a] = "used" <=> data = a \/ \E t \in Threads : new[t] = a
  /\ \A t \in Threads : new[t] = a =>
       data # a /\ \A u \in Threads : new[u] = a => u = t

\* A load reads a box that nobody has freed.
LoadedIsNotFreed == \A t \in Threads : pc[t] = "deref" => heap[cur[t]] # "free"

\* "all the old ones will already have been dealt with"
\* (hazptr_practice.rs:87): when the DataPtr was dropped, no box of it is left.
AllGivenBack == dropped => \A a \in Addrs : heap[a] = "free"

\* What makes the three of them inductive: which addresses a thread has where,
\* that a box that is read is protected, and that a call has no result yet.
DataPtrInv ==
  /\ TypeOK /\ SingleOwner /\ LoadedIsNotFreed /\ AllGivenBack
  /\ dropped => \A t \in Threads : pc[t] = "idle"
  /\ \A t \in Threads :
       /\ new[t] # Null <=> pc[t] \in {"load_ptr", "swap"}
       /\ cur[t] # Null <=> pc[t] \in {"deref", "swap"}
       /\ pc[t] = "deref" => cur[t] \in hazards[t]
       /\ pc[t] # "idle" => res[t] = None

\* The call that has not taken effect, and the value that a load has taken.
Doing(t) == CASE pc[t] = "load"                 -> [method |-> "load", value |-> None]
              [] pc[t] \in {"load_ptr", "swap"} -> [method |-> "store", value |-> boxes[new[t]]]
              [] OTHER                          -> None
Got(t) == IF pc[t] = "deref" THEN boxes[cur[t]] ELSE None

Register == INSTANCE RegisterSpec WITH
  value <- IF dropped THEN None ELSE boxes[data],
  doing <- [t \in Threads |-> Doing(t)],
  got   <- [t \in Threads |-> Got(t)],
  told  <- res

\* Loads and stores are those of an atomic register. The unprotected pointer
\* with which store compares does no harm: a box at the same address is
\* replaced like any other.
ImplementsRegister == Register!Spec

\* Every load and every store ends, however often others replace the pointer
\* meanwhile, as long as there is an end to that.
CallsEnd == \A t \in Threads : pc[t] # "idle" ~> pc[t] = "idle"
=============================================================================
