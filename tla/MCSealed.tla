------------------------------ MODULE MCSealed -------------------------------
EXTENDS SealedInv, TLC

\* A thread is still to use the address, and may tell one box there from another.
Held(a) == \E t \in Threads :
  a \in {cur[t], target[t]} \/ (pc[t] = "write_cell" /\ a = wd[t])

\* Addresses that no thread uses are interchangeable: the allocator may as well
\* give the lowest of them that is free. Whether it gives one that a thread
\* still has, and which boxes are used again, is left open.
LowestFirst == \A b \in Addrs : heap[b] = "free" /\ heap'[b] = "used" /\ ~Held(b) =>
  \A a \in IF b \in DAddrs THEN DAddrs ELSE WAddrs :
    a < b => ~(heap[a] = "free" /\ heap'[a] = "free" /\ ~Held(a))

\* Nobody can tell when a box is freed whose address no thread uses: it may as
\* well be freed at once, the lowest first. The domain has its choice with the
\* others.
Forgotten == {a \in Addrs : heap[a] = "retired" /\ Unprotected(a) /\ ~Held(a)}
ReclaimForgotten ==
  /\ Reclaim
  /\ \A a \in Forgotten : heap'[a] = "free" \/ \E b \in Forgotten : b < a /\ heap'[b] = "free"

MCNext == IF Forgotten # {} THEN ReclaimForgotten ELSE Next /\ LowestFirst
MCSpec == Init /\ [][MCNext]_vars

\* Nor can anybody tell which bits are left at a free address that no thread uses.
View ==
  <<buffers, cells, descriptor, descs, heap, returned, dropped, pc, call, hazards, cur, work,
    [w \in WAddrs |-> IF heap[w] = "free" /\ ~Held(w) THEN NoWrite ELSE writes[w]]>>

Symmetry == Permutations(Threads)
=============================================================================
