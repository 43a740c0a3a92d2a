----------------------------- MODULE LeakyStack ------------------------------
(***************************************************************************)
(* What the elements themselves do.  Pushes may overlap pushes and pops    *)
(* may overlap pops, as in the benchmark of leaky::SecVec (and in main.rs, *)
(* which uses sealed::SecVec), where the pushing threads are joined before *)
(* any starts to pop; then leaky::SecVec is a linearizable stack.  Without *)
(* that restriction on its callers it is not: see LeakyWrites.             *)
(***************************************************************************)
EXTENDS LeakyInv

In(t, method) == op[t] = method /\ pc[t] \notin {"idle", "panicked"}

\* No push and no pop are in progress at the same time.
Apart == ~\E t, u \in Threads : In(t, "push") /\ In(u, "pop")

ApartNext == Next /\ Apart'
ApartSpec == Init /\ [][ApartNext]_vars

-----------------------------------------------------------------------------

\* A push has announced its element and is yet to write it.
ToWrite(t) == Own(t) /\ pc[t] = "write_cell"

\* The element at index i: what its cell will hold when the thread that
\* pushes it has come to write it.
Element(i) ==
  LET writers == {t \in Threads : ToWrite(t) /\ descs[wd[t]].location = i}
  IN  IF writers # {} THEN arg[CHOOSE t \in writers : TRUE] ELSE cells[i]

Elements == [i \in 1 .. SizeOf(descriptor) |-> Element(i - 1)]

Doing(t) ==
  CASE In(t, "push") -> [method |-> "push", value |-> arg[t]]
    [] In(t, "pop")  -> [method |-> "pop",  value |-> 0]
    [] OTHER         -> [method |-> "idle", value |-> 0]

Popped(t) == IF op[t] = "pop" THEN res[t] ELSE None

Stack == INSTANCE StackSpec WITH
  stack <- Elements,
  doing <- [t \in Threads |-> Doing(t)],
  took  <- [t \in Threads |-> Took(t)],
  told  <- [t \in Threads |-> Popped(t)]

\* As long as pushes and pops do not overlap, the vector is a linearizable
\* stack: pops return what was pushed, last in, first out, and none is lost or
\* returned twice, although a helper may clear the pending write of a push
\* whose element is not in its cell yet.
ImplementsStack == Stack!Spec

-----------------------------------------------------------------------------
(* Why *)

\* Since Descriptor d was swapped in, there were pushes only.
GrownSince(d) == \A e \in d .. descriptor : descs[e].size = descs[d].size + (e - d)

\* The Descriptor that t goes by.
Held(t) == IF pc[t] \in InWrite THEN wd[t] ELSE cur[t]

\* While pushes are in progress each element has a cell of its own. It holds
\* what push found there until owner or helper write it, and the new element
\* from then on: a late helper finds no other value to compare with.
PushKnown(t) ==
  LET w == descs[wd[t]] IN
  /\ pc[t] # "load_descriptor" => GrownSince(Held(t))
  /\ pc[t] \in InWrite => w.size = w.location + 1
  /\ pc[t] = "write_cell" =>
       \/ cells[w.location] = w.new
       \/ /\ cells[w.location] = w.old
          /\ \E u \in Threads : ToWrite(u) /\ wd[u] = wd[t]
  /\ Own(t) => w.new = arg[t] /\ (~ToWrite(t) => cells[w.location] = arg[t])
  /\ pc[t] = "swap_descriptor" /\ cur[t] = descriptor =>
       elem[t] = cells[descs[cur[t]].size]

\* While pops are in progress nothing is pending, no cell changes and the size
\* only shrinks.
PopKnown(t) ==
  /\ pc[t] \in {"load_descriptor", "load_pending", "read_elem", "swap_descriptor"}
  /\ pc[t] # "load_descriptor" => descs[descriptor].size <= descs[cur[t]].size
  /\ pc[t] = "swap_descriptor" => elem[t] = cells[descs[cur[t]].size - 1]

\* The inductive invariant of the stack: who is yet to write which cell, and
\* what is in it meanwhile.
StackInv ==
  /\ Apart /\ OneOwner
  /\ \A t \in Threads : /\ In(t, "push") => PushKnown(t)
                        /\ In(t, "pop")  => PopKnown(t)
=============================================================================
