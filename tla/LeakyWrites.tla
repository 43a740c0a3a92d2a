----------------------------- MODULE LeakyWrites -----------------------------
(***************************************************************************)
(* How often the write descriptor of each push is executed, and what the   *)
(* comments of the code and the book say about it.  They are right about a *)
(* helper that runs through complete_write in one go.  A helper that is    *)
(* late by one push and one pop is not covered by them: its store clears   *)
(* the pending write of a Descriptor it knows nothing of, and its          *)
(* compare_exchange can find the old value in the cell once more.          *)
(***************************************************************************)
EXTENDS Leaky

VARIABLE writes   \* how often the write of each Descriptor changed its cell

\* A thread that executes the write of d finds the old value in the cell.
Executes(t, d) ==
  /\ pc[t] = "write_cell" /\ pc'[t] = "load_target"
  /\ wd[t] = d
  /\ cells' # cells

WritesInit == Init /\ writes = [d \in 1 .. 1 |-> 0]
WritesNext ==
  /\ Next
  /\ writes' = [d \in 1 .. descriptor' |->
                  IF d > descriptor THEN 0
                  ELSE IF \E t \in Threads : Executes(t, d) THEN writes[d] + 1
                  ELSE writes[d]]
WritesSpec == WritesInit /\ [][WritesNext]_<<vars, writes>>

\* mdbook/src/paper/algorithm.md:41 of the threads that complete a write:
\* "Only one of them can succeed".
WriteOnce == \A d \in 1 .. descriptor : writes[d] <= 1

\* leaky.rs:320: what pop returns "is a valid T because it was transmuted into
\* a usize from a valid T", that is, it is a value that some push was given.
PoppedWasPushed == \A t \in Threads :
  op[t] = "pop" /\ res[t] # None => res[t] \in Values
=============================================================================
