------------------------- MODULE SealedLeakyProofs ---------------------------
(***************************************************************************)
(* sealed::SecVec implements leaky::SecVec, for every number of threads,   *)
(* of calls and of addresses: as long as the domain leaves the write       *)
(* descriptor of a push alone until push has read it, HistoryInv is an     *)
(* inductive invariant on the strength of MemoryInv and BucketInv, and     *)
(* with it every step of Sealed is a step of Leaky or changes nothing of   *)
(* it.                                                                     *)
(***************************************************************************)
EXTENDS SealedLeaky, SealedProofs, SequenceTheorems

LEMMA NumbersType ==
  ASSUME HistoryTypeOK
  PROVE  /\ Len(log) \in Nat \ {0} /\ Len(log) \in 1 .. Len(log)
         /\ \A n \in 1 .. Len(log) : log[n].size \in Nat /\ log[n].write \in WriteDescriptor
         /\ \A d \in DAddrs : number[d] \in 1 .. Len(log)
         /\ \A t \in Threads : curnum[t] \in 1 .. Len(log) /\ wdnum[t] \in 1 .. Len(log)
<1>1. Len(log) \in Nat \ {0}  BY DEF HistoryTypeOK
<1>2. \A n \in 1 .. Len(log) : log[n] \in [size : Nat, write : WriteDescriptor]
  BY ElementOfSeq DEF HistoryTypeOK
<1> QED  BY <1>1, <1>2 DEF HistoryTypeOK

\* The Descriptors that the vector and the threads have are swapped in or, while
\* a thread makes them, its own; their write descriptors are in use.
HeldIsLive ==
  /\ ~dropped => Live(descriptor)
  /\ \A t \in Threads :
       /\ cur[t] # Null => cur[t] \in DAddrs /\ Live(cur[t])
       /\ target[t] # Null => target[t] \in DAddrs /\ Live(target[t])
       /\ next[t] # Null => next[t] \in DAddrs /\ heap[next[t]] = "used" /\ cur[t] # Null
       /\ Helping(t) => wd[t] \in WAddrs /\ heap[wd[t]] # "free"
  /\ \A d \in DAddrs : heap[d] # "free" =>
       descs[d].pending \in WAddrs /\ heap[descs[d].pending] = "used"

LEMMA Held == MemoryInv => HeldIsLive
<1> SUFFICES ASSUME MemoryInv PROVE HeldIsLive
  OBVIOUS
<1>0. MemoryTypeOK /\ DescriptorsOwned /\ WritesOwned  BY DEF MemoryInv, SingleOwner
<1>1. descriptor \in DAddrs  BY DEF MemoryInv, MemoryTypeOK
<1>2. ~dropped => Live(descriptor)
  BY <1>0, <1>1 DEF DescriptorsOwned, VectorOwns, Owns, Live
<1>3. ASSUME NEW t \in Threads, cur[t] # Null  PROVE cur[t] \in DAddrs /\ Live(cur[t])
  BY <1>3 DEF MemoryInv, MemoryTypeOK, Protected, Private, Live
<1>4. ASSUME NEW t \in Threads, target[t] # Null  PROVE target[t] \in DAddrs /\ Live(target[t])
  BY <1>4 DEF MemoryInv, MemoryTypeOK, Protected, Private, Live
<1>5. ASSUME NEW t \in Threads, next[t] # Null
      PROVE  next[t] \in DAddrs /\ heap[next[t]] = "used" /\ cur[t] # Null
  <2>1. next[t] \in DAddrs  BY <1>0, <1>5 DEF MemoryTypeOK
  <2>2. heap[next[t]] = "used"  BY <1>0, <2>1 DEF DescriptorsOwned, Owns
  <2>3. cur[t] # Null  BY <1>5 DEF MemoryInv, Scopes, HasDesc
  <2> QED  BY <2>1, <2>2, <2>3
<1>6. ASSUME NEW d \in DAddrs, heap[d] # "free"
      PROVE  descs[d].pending \in WAddrs /\ heap[descs[d].pending] = "used"
  <2>1. descs[d].pending # Null  BY <1>6 DEF MemoryInv, AlwaysPending
  <2>2. descs[d].pending \in WAddrs  BY <1>0, <2>1 DEF MemoryTypeOK
  <2> QED  BY <1>0, <1>6, <2>2 DEF WritesOwned, PendingIn
<1>7. ASSUME NEW t \in Threads, Helping(t)  PROVE wd[t] \in WAddrs /\ heap[wd[t]] # "free"
  <2>1. wd[t] # Null /\ cur[t] # Null  BY <1>7 DEF MemoryInv, Scopes, Helping, Writing, HasDesc
  <2>2. wd[t] \in WAddrs  BY <1>0, <2>1 DEF MemoryTypeOK
  <2>3. heap[wd[t]] = "retired" \/ PendingIn(cur[t], wd[t])  BY <1>7 DEF MemoryInv, Protected
  <2>4. cur[t] \in DAddrs  BY <2>1, <1>3
  <2> QED  BY <1>6, <2>2, <2>3, <2>4 DEF PendingIn
<1> QED  BY <1>2, <1>3, <1>4, <1>5, <1>6, <1>7 DEF HeldIsLive

LEMMA HeldNext == MemoryInv' => HeldIsLive'
BY Held, PTL

-----------------------------------------------------------------------------
(* What a step leaves as it is *)

\* Nothing that the mapping says of u comes from variables that are changed.
Same(u) ==
  UNCHANGED <<pc[u], op[u], arg[u], cur[u], wd[u], target[u], ret[u], elem[u], next[u]>>

\* No Descriptor is swapped in, and what is live was and is what it was, but
\* its write may be completed.
Keeps ==
  /\ UNCHANGED <<log, number, descriptor, dropped>>
  /\ \A d \in DAddrs : Live(d)' =>
       /\ Live(d) /\ descs'[d].size = descs[d].size
       /\ WriteAt(d)'.some => WriteAt(d)' = WriteAt(d)

\* A box that is in use is not written.
BoxesStay == \A w \in WAddrs : heap[w] # "free" => writes'[w] = writes[w]

LEMMA LiveKnownKeeps ==
  ASSUME LiveKnown, Keeps
  PROVE  LiveKnown'
<1>1. log' = log /\ number' = number /\ descriptor' = descriptor /\ dropped' = dropped
  BY DEF Keeps
<1>2. \A d \in DAddrs : Live(d)' =>
       /\ Live(d) /\ descs'[d].size = descs[d].size
       /\ WriteAt(d)'.some => WriteAt(d)' = WriteAt(d)
  BY DEF Keeps
<1>3. ASSUME NEW d \in DAddrs, Live(d)'
      PROVE  /\ descs'[d].size = log[number[d]].size
             /\ WriteAt(d)'.some => WriteAt(d)' = log[number[d]].write /\ d = descriptor
             /\ \A e \in DAddrs : Live(e)' /\ number[e] = number[d] => e = d
  BY <1>2, <1>3 DEF LiveKnown
<1> QED  BY <1>1, <1>3 DEF LiveKnown

LEMMA DescsKeep ==
  ASSUME Keeps, \A d \in DAddrs : Live(d) /\ WriteAt(d).some => Live(d)' /\ WriteAt(d)'.some
  PROVE  LeakyDescs' = LeakyDescs
<1>1. log' = log /\ number' = number  BY DEF Keeps
<1>2. \A d \in DAddrs : Live(d) /\ WriteAt(d).some <=> Live(d)' /\ WriteAt(d)'.some
  BY DEF Keeps
<1>3. \A n : Pending(n)' <=> Pending(n)  BY <1>1, <1>2 DEF Pending
<1> QED  BY <1>1, <1>3 DEF LeakyDescs

\* The history of a thread that does nothing.
LEMMA HistoryStays ==
  ASSUME KeepHistory, NEW u \in Threads, Same(u), NumbersKnown(u)
  PROVE  curnum'[u] = curnum[u] /\ wdnum'[u] = wdnum[u]
<1>1. pc'[u] = pc[u] /\ wd'[u] = wd[u]  BY DEF Same
<1>2. curnum'[u] = curnum[u]
  <2>1. curnum'[u] = IF pc'[u] \in {"idle", "panicked", "load_descriptor"} THEN 1
                     ELSE IF pc[u] = "load_descriptor" THEN Len(log) ELSE curnum[u]
    BY DEF KeepHistory
  <2>2. CASE pc[u] \in {"idle", "panicked", "load_descriptor"}
    BY <1>1, <2>1, <2>2 DEF NumbersKnown
  <2>3. CASE pc[u] \notin {"idle", "panicked", "load_descriptor"}
    BY <1>1, <2>1, <2>3
  <2> QED  BY <2>2, <2>3
<1>3. wdnum'[u] = wdnum[u]
  <2>1. wdnum'[u] = IF wd'[u] = Null THEN 1
                    ELSE IF wd[u] # Null THEN wdnum[u]
                    ELSE IF Swapped THEN Len(log) + 1 ELSE curnum[u]
    BY DEF KeepHistory
  <2>2. CASE wd[u] = Null  BY <1>1, <2>1, <2>2 DEF NumbersKnown
  <2>3. CASE wd[u] # Null  BY <1>1, <2>1, <2>3
  <2> QED  BY <2>2, <2>3
<1> QED  BY <1>2, <1>3

\* What such a thread knows stays true as long as nobody writes or frees its
\* boxes.
LEMMA NumbersKeep ==
  ASSUME MemoryInv, MemoryInv', InTime, Keeps, BoxesStay,
         NEW u \in Threads, Same(u), NumbersKnown(u),
         curnum'[u] = curnum[u], wdnum'[u] = wdnum[u],
         next[u] # Null => descs'[next[u]] = descs[next[u]]
  PROVE  NumbersKnown(u)'
<1>1. /\ pc'[u] = pc[u] /\ op'[u] = op[u] /\ arg'[u] = arg[u] /\ cur'[u] = cur[u] /\ wd'[u] = wd[u]
      /\ target'[u] = target[u] /\ ret'[u] = ret[u] /\ next'[u] = next[u]
  BY DEF Same
<1>2. log' = log /\ number' = number  BY DEF Keeps
<1>3. cur[u] # Null => /\ descs'[cur[u]].size = descs[cur[u]].size
                       /\ WriteAt(cur[u])'.some => WriteAt(cur[u]).some
  <2>1. cur[u] # Null => cur[u] \in DAddrs /\ (Live(cur[u]))'
    BY <1>1, HeldNext DEF HeldIsLive
  <2> QED  BY <1>1, <2>1 DEF Keeps, WriteAt, Live
<1>4. pc[u] = "write_cell" => heap'[wd[u]] # "free" /\ writes'[wd[u]] = writes[wd[u]]
  <2> SUFFICES ASSUME pc[u] = "write_cell"
               PROVE  heap'[wd[u]] # "free" /\ writes'[wd[u]] = writes[wd[u]]
    OBVIOUS
  <2>1. wd[u] \in WAddrs  BY DEF MemoryInv, MemoryTypeOK, Scopes, Writing
  <2>2. heap[wd[u]] # "free"  BY DEF NumbersKnown
  <2>3. CASE Own(u)
    BY <1>1, <2>1, <2>2, <2>3 DEF InTime, OwnWriteIsNotFreed, Own, BoxesStay
  <2>4. CASE ~Own(u)
    <3>1. Helping(u)'  BY <1>1, <2>4 DEF Helping, Own
    <3>3. (heap[wd[u]])' # "free"  BY <3>1, HeldNext DEF HeldIsLive
    <3> QED  BY <1>1, <2>1, <2>2, <3>3 DEF BoxesStay
  <2> QED  BY <2>3, <2>4
<1>5. next[u] # Null => MadeNext(u)'
  <2> SUFFICES ASSUME next[u] # Null PROVE MadeNext(u)'
    OBVIOUS
  <2>1. next[u] \in DAddrs /\ heap[next[u]] # "free" /\ cur[u] # Null
    BY Held DEF HeldIsLive
  <2>2. WriteAt(next[u])' = WriteAt(next[u])
    BY <1>1, <2>1, Held DEF HeldIsLive, WriteAt, BoxesStay
  <2>3. MadeNext(u)  BY DEF NumbersKnown
  <2> QED  BY <1>1, <1>3, <2>1, <2>2, <2>3 DEF MadeNext
<1>6. (cur[u] # Null)' => (curnum[u] = number[cur[u]])'  BY <1>1, <1>2 DEF NumbersKnown
<1>7. pc[u] \in {"check_bucket", "allocate_bucket", "read_elem", "swap_descriptor"} =>
        ~WriteAt(cur[u])'.some
  BY <1>3 DEF NumbersKnown, MemoryInv, Scopes, HasDesc
<1> QED  BY <1>1, <1>2, <1>4, <1>5, <1>6, <1>7 DEF NumbersKnown, Own

-----------------------------------------------------------------------------
(* A step of one thread *)

\* The other threads do nothing, and keep the Descriptors they are making.
OthersIdle(t) == \A u \in Threads \ {t} :
  Same(u) /\ (next[u] # Null => descs'[next[u]] = descs[next[u]])

\* So Leaky sees nothing of them.
OthersMapped(t) == \A u \in Threads \ {t} :
  /\ curnum'[u] = curnum[u] /\ wdnum'[u] = wdnum[u]
  /\ LeakyTarget'[u] = LeakyTarget[u] /\ LeakyElem'[u] = LeakyElem[u]

LEMMA NumbersEnd ==
  ASSUME KeepHistory, NEW t \in Threads,
         pc'[t] \in {"idle", "panicked", "load_descriptor"}, wd'[t] = Null
  PROVE  curnum'[t] = 1 /\ wdnum'[t] = 1
<1>1. curnum'[t] = 1  BY DEF KeepHistory
<1>2. wdnum'[t] = 1  BY DEF KeepHistory
<1> QED  BY <1>1, <1>2

LEMMA NoSwap ==
  ASSUME KeepHistory, UNCHANGED descriptor  PROVE UNCHANGED <<log, number>>
BY DEF KeepHistory, Swapped

LEMMA TypeKeeps ==
  ASSUME HistoryTypeOK, KeepHistory, UNCHANGED descriptor  PROVE HistoryTypeOK'
<1>1. log' = log /\ number' = number  BY NoSwap
<1>2. ~Swapped  BY DEF Swapped
<1>3. curnum' \in [Threads -> 1 .. Len(log)]
  <2>1. curnum' = [t \in Threads |->
          IF pc'[t] \in {"idle", "panicked", "load_descriptor"} THEN 1
          ELSE IF pc[t] = "load_descriptor" THEN Len(log) ELSE curnum[t]]
    BY DEF KeepHistory
  <2> QED  BY <2>1, NumbersType
<1>4. wdnum' \in [Threads -> 1 .. Len(log)]
  <2>1. wdnum' = [t \in Threads |->
          IF wd'[t] = Null THEN 1
          ELSE IF wd[t] # Null THEN wdnum[t] ELSE curnum[t]]
    BY <1>2 DEF KeepHistory
  <2> QED  BY <2>1, NumbersType
<1> QED  BY <1>1, <1>3, <1>4 DEF HistoryTypeOK

\* What Leaky sees of a thread that does nothing.
LEMMA SameMaps ==
  ASSUME MemoryInv, HistoryInv, KeepHistory, BoxesStay,
         \A n \in 1 .. Len(log) : log'[n] = log[n],
         NEW u \in Threads, Same(u), next[u] # Null => descs'[next[u]] = descs[next[u]],
         target[u] # Null => number'[target[u]] = number[target[u]]
  PROVE  /\ curnum'[u] = curnum[u] /\ wdnum'[u] = wdnum[u]
         /\ LeakyTarget'[u] = LeakyTarget[u] /\ LeakyElem'[u] = LeakyElem[u]
<1>1. NumbersKnown(u) /\ HistoryTypeOK  BY DEF HistoryInv
<1>2. curnum'[u] = curnum[u] /\ wdnum'[u] = wdnum[u]  BY <1>1, HistoryStays
<1>3. /\ pc'[u] = pc[u] /\ op'[u] = op[u] /\ target'[u] = target[u] /\ ret'[u] = ret[u]
      /\ elem'[u] = elem[u] /\ next'[u] = next[u]
  BY DEF Same
<1>4. log'[wdnum[u]] = log[wdnum[u]]  BY <1>1, NumbersType
<1>5. next[u] # Null => WriteAt(next[u])' = WriteAt(next[u])
  <2>1. next[u] # Null => next[u] \in DAddrs /\ heap[next[u]] # "free"  BY Held DEF HeldIsLive
  <2> QED  BY <1>3, <2>1, Held DEF HeldIsLive, WriteAt, BoxesStay
<1>6. Completing(u)' = Completing(u)  BY <1>3 DEF Completing, Own
<1>7. ElemOf(u)' = ElemOf(u)  BY <1>2, <1>3, <1>4, <1>5, <1>6 DEF ElemOf
<1>8. LeakyTarget'[u] = LeakyTarget[u]  BY <1>3 DEF LeakyTarget
<1>9. LeakyElem'[u] = LeakyElem[u]  BY <1>7 DEF LeakyElem
<1> QED  BY <1>2, <1>8, <1>9

\* A step in which no Descriptor is swapped in.
LEMMA StepOfHistory ==
  ASSUME MemoryInv, MemoryInv', HistoryInv, InTime, KeepHistory, Keeps, BoxesStay,
         NEW t \in Threads, OthersIdle(t), NumbersKnown(t)',
         Completing(t) => \/ Completing(t)' /\ wd'[t] = wd[t]
                          \/ wdnum[t] = Len(log) => ~WriteAt(descriptor)'.some
  PROVE  HistoryInv' /\ OthersMapped(t)
<1>0. /\ log' = log /\ number' = number /\ descriptor' = descriptor /\ dropped' = dropped
      /\ HistoryTypeOK /\ LiveKnown /\ PendingOwned /\ \A u \in Threads : NumbersKnown(u)
  BY DEF Keeps, HistoryInv
<1>1. HistoryTypeOK'  BY <1>0, TypeKeeps
<1>2. LiveKnown'  BY <1>0, LiveKnownKeeps
<1>3. ASSUME NEW u \in Threads \ {t}
      PROVE  /\ curnum'[u] = curnum[u] /\ wdnum'[u] = wdnum[u]
             /\ LeakyTarget'[u] = LeakyTarget[u] /\ LeakyElem'[u] = LeakyElem[u]
  BY <1>0, SameMaps DEF OthersIdle
<1>4. ASSUME NEW u \in Threads  PROVE NumbersKnown(u)'
  <2>1. CASE u = t  BY <2>1
  <2>2. CASE u # t  BY <1>0, <1>3, <2>2, NumbersKeep DEF OthersIdle
  <2> QED  BY <2>1, <2>2
<1>5. PendingOwned'
  <2> SUFFICES ASSUME ~dropped, WriteAt(descriptor)'.some
               PROVE  \E u \in Threads : Completing(u)' /\ wdnum'[u] = Len(log)
    BY <1>0 DEF PendingOwned, WriteAt
  <2>1. descriptor \in DAddrs /\ Live(descriptor)'
    BY <1>0, HeldNext DEF HeldIsLive, MemoryInv, MemoryTypeOK, Live
  <2>2. WriteAt(descriptor).some  BY <2>1 DEF Keeps
  <2>3. PICK u \in Threads : Completing(u) /\ wdnum[u] = Len(log)  BY <1>0, <2>2 DEF PendingOwned
  <2>4. CASE u = t
    <3>1. Completing(t)' /\ wd'[t] = wd[t]  BY <2>3, <2>4
    <3>2. wd[t] # Null  BY <2>3, <2>4 DEF MemoryInv, Scopes, Completing, Writing
    <3>3. wdnum'[t] = wdnum[t]  BY <3>1, <3>2 DEF KeepHistory
    <3> QED  BY <2>3, <2>4, <3>1, <3>3
  <2>5. CASE u # t
    <3>1. Completing(u)' = Completing(u)  BY <2>5 DEF OthersIdle, Same, Completing, Own
    <3> QED  BY <1>3, <2>3, <2>5, <3>1
  <2> QED  BY <2>4, <2>5
<1> QED  BY <1>1, <1>2, <1>3, <1>4, <1>5 DEF HistoryInv, OthersMapped

\* One in which nothing happens to a box.
LEMMA QuietStep ==
  ASSUME MemoryInv, MemoryInv', HistoryInv, InTime, KeepHistory,
         UNCHANGED <<descriptor, descs, writes, heap, dropped, next>>,
         NEW t \in Threads, \A u \in Threads \ {t} : Same(u), NumbersKnown(t)',
         Completing(t) => Completing(t)' /\ wd'[t] = wd[t]
  PROVE  HistoryInv' /\ OthersMapped(t) /\ UNCHANGED <<log, LeakyDescs>>
<1>1. log' = log /\ number' = number  BY NoSwap
<1>2. \A d \in DAddrs : Live(d)' = Live(d) /\ WriteAt(d)' = WriteAt(d)  BY DEF Live, WriteAt
<1>3. Keeps  BY <1>1, <1>2 DEF Keeps
<1>4. BoxesStay /\ OthersIdle(t)  BY DEF BoxesStay, OthersIdle
<1>5. LeakyDescs' = LeakyDescs  BY <1>2, <1>3, DescsKeep
<1> QED  BY <1>1, <1>3, <1>4, <1>5, StepOfHistory

\* As functions.
LEMMA OneMapped ==
  ASSUME HistoryInv, HistoryInv', NEW t \in Threads, OthersMapped(t)
  PROVE  /\ curnum' = [curnum EXCEPT ![t] = curnum'[t]]
         /\ wdnum' = [wdnum EXCEPT ![t] = wdnum'[t]]
         /\ LeakyTarget' = [LeakyTarget EXCEPT ![t] = LeakyTarget'[t]]
         /\ LeakyElem' = [LeakyElem EXCEPT ![t] = LeakyElem'[t]]
         /\ curnum'[t] = curnum[t] => curnum' = curnum
         /\ wdnum'[t] = wdnum[t] => wdnum' = wdnum
         /\ LeakyTarget'[t] = LeakyTarget[t] => LeakyTarget' = LeakyTarget
         /\ LeakyElem'[t] = LeakyElem[t] => LeakyElem' = LeakyElem
<1>1. /\ \E S : curnum \in [Threads -> S]
      /\ \E S : curnum' \in [Threads -> S]
      /\ \E S : wdnum \in [Threads -> S]
      /\ \E S : wdnum' \in [Threads -> S]
  BY DEF HistoryInv, HistoryTypeOK
<1>2. curnum' = [curnum EXCEPT ![t] = curnum'[t]] /\ wdnum' = [wdnum EXCEPT ![t] = wdnum'[t]]
  BY <1>1 DEF OthersMapped
<1>3. /\ DOMAIN LeakyTarget = Threads /\ LeakyTarget = [u \in Threads |-> LeakyTarget[u]]
      /\ LeakyTarget' = [u \in Threads |-> LeakyTarget'[u]]
  BY DEF LeakyTarget
<1>4. /\ DOMAIN LeakyElem = Threads /\ LeakyElem = [u \in Threads |-> LeakyElem[u]]
      /\ LeakyElem' = [u \in Threads |-> LeakyElem'[u]]
  BY DEF LeakyElem
<1>5. LeakyTarget' = [LeakyTarget EXCEPT ![t] = LeakyTarget'[t]]  BY <1>3 DEF OthersMapped
<1>6. LeakyElem' = [LeakyElem EXCEPT ![t] = LeakyElem'[t]]  BY <1>4 DEF OthersMapped
<1> QED  BY <1>1, <1>2, <1>3, <1>4, <1>5, <1>6

-----------------------------------------------------------------------------
(* What Leaky reads *)

\* The arithmetic of the two is the same code.
LEMMA SameArithmetic ==
  /\ \A x : Leaky!bucket_of(x) = bucket_of(x)
  /\ \A x : Leaky!layout_ok(x) <=> layout_ok(x)
  /\ \A x : Leaky!last_bucket(x) = last_bucket(x)
  /\ Leaky!Buffers = Buffers /\ Leaky!Slots = Slots
<1>1. \A x : Leaky!highest_bit(x) = highest_bit(x)
  BY DEF Leaky!highest_bit, highest_bit, Leaky!leading_zeros, leading_zeros
<1>2. \A x : Leaky!bucket_of(x) = bucket_of(x)  BY <1>1 DEF Leaky!bucket_of, bucket_of
<1>3. Leaky!UsizeMax = UsizeMax /\ Leaky!IsizeMax = IsizeMax
  BY DEF Leaky!UsizeMax, UsizeMax, Leaky!IsizeMax, IsizeMax
<1>4. \A x : Leaky!layout_ok(x) <=> layout_ok(x)
  BY <1>3 DEF Leaky!layout_ok, layout_ok, Leaky!bucket_len, bucket_len
<1>5. \A x : Leaky!last_bucket(x) = last_bucket(x)
  BY <1>1, <1>3 DEF Leaky!last_bucket, last_bucket, Leaky!saturating_add, saturating_add,
                    Leaky!saturating_sub, saturating_sub
<1>6. Leaky!Buffers = Buffers
  BY <1>1 DEF Leaky!Buffers, Buffers, Leaky!NBUFFERS, NBUFFERS
<1>7. Leaky!Slots = Slots  BY <1>2, <1>3, <1>4 DEF Leaky!Slots, Slots
<1> QED  BY <1>2, <1>4, <1>5, <1>6, <1>7

\* A live Descriptor holds what is logged under its number, and its write is
\* pending if that of its number is.
LEMMA LiveSeen ==
  ASSUME HistoryInv, NEW d \in DAddrs, Live(d)
  PROVE  /\ number[d] \in 1 .. Len(log)
         /\ LeakyDescs[number[d]].size = descs[d].size
         /\ LeakyDescs[number[d]].pending <=> WriteAt(d).some
<1>1. number[d] \in 1 .. Len(log)  BY NumbersType DEF HistoryInv
<1>2. Pending(number[d]) <=> WriteAt(d).some
  BY DEF HistoryInv, LiveKnown, Pending
<1>3. descs[d].size = log[number[d]].size  BY DEF HistoryInv, LiveKnown
<1> QED  BY <1>1, <1>2, <1>3 DEF LeakyDescs

LEMMA CurSeen ==
  ASSUME MemoryInv, HistoryInv, NEW t \in Threads, cur[t] # Null
  PROVE  /\ LeakyDescs[curnum[t]].size = descs[cur[t]].size
         /\ LeakyDescs[curnum[t]].pending <=> WriteAt(cur[t]).some
         /\ Leaky!SizeOf(curnum[t]) = SizeOf(cur[t])
<1>1. curnum[t] = number[cur[t]]  BY DEF HistoryInv, NumbersKnown
<1>2. cur[t] \in DAddrs /\ Live(cur[t])  BY Held DEF HeldIsLive
<1> QED  BY <1>1, <1>2, LiveSeen DEF Leaky!SizeOf, SizeOf, WriteAt

LEMMA BucketSeen ==
  ASSUME NEW b \in Buffers
  PROVE  LeakyBuffers[b] <=> buffers[b] # 0
BY DEF LeakyBuffers

-----------------------------------------------------------------------------
(* Loading, and the calls *)

LEMMA CallHistory ==
  ASSUME MemoryInv, MemoryInv', BucketInv, BucketInv', HistoryInv, InTime, KeepHistory,
         NEW t \in Threads, Calls(t)
  PROVE  HistoryInv' /\ Leaky!Calls(t)
<1> USE DEF shared, vector, call, work
<1>0. TypeOK /\ TypeOK'  BY DEF BucketInv
<1>1. PICK m, a : Call(t, m, a) /\ \/ m = "push" /\ a \in Values
                                   \/ m \in {"pop", "size"} /\ a = 0
                                   \/ m = "reserve" /\ a \in ReserveArgs
  BY DEF Calls, CallPush, CallPop, CallSize, CallReserve
<1>2. \A u \in Threads \ {t} : Same(u)
  BY <1>0, <1>1 DEF Same, Call, Goto, TypeOK, CallTypeOK, WorkTypeOK
<1>3. /\ pc[t] = "idle" /\ pc'[t] = "load_descriptor" /\ op'[t] = m
      /\ cur' = cur /\ wd' = wd /\ target' = target /\ ret' = ret /\ elem' = elem /\ next' = next
  BY <1>0, <1>1 DEF Call, Goto, TypeOK, CallTypeOK, WorkTypeOK
<1>4. cur[t] = Null /\ wd[t] = Null /\ target[t] = Null /\ next[t] = Null
  BY <1>3 DEF MemoryInv, Scopes, HasDesc, Writing
<1>5. curnum[t] = 1 /\ wdnum[t] = 1  BY <1>3, <1>4 DEF HistoryInv, NumbersKnown
<1>6. curnum'[t] = 1 /\ wdnum'[t] = 1  BY <1>3, <1>4 DEF KeepHistory
<1>7. NumbersKnown(t)'  BY <1>3, <1>4, <1>6 DEF NumbersKnown
<1>8. HistoryInv' /\ OthersMapped(t) /\ UNCHANGED <<log, LeakyDescs>>
  BY <1>1, <1>2, <1>3, <1>7, QuietStep DEF Call, Completing
<1>9. LeakyTarget'[t] = LeakyTarget[t]  BY <1>3, <1>4 DEF LeakyTarget
<1>10. LeakyElem'[t] = LeakyElem[t]
  BY <1>3, <1>4 DEF LeakyElem, ElemOf, Completing
<1>11. UNCHANGED <<curnum, wdnum, LeakyTarget, LeakyElem>>
  BY <1>5, <1>6, <1>8, <1>9, <1>10, OneMapped
<1>12. UNCHANGED LeakyBuffers  BY <1>1 DEF Call, LeakyBuffers
<1>13. Leaky!Call(t, m, a)
  BY <1>1, <1>8, <1>11, <1>12
     DEF Call, Goto, Leaky!Call, Leaky!Goto, Leaky!shared, Leaky!work
<1> QED  BY <1>1, <1>8, <1>13
         DEF Leaky!Calls, Leaky!CallPush, Leaky!CallPop, Leaky!CallSize, Leaky!CallReserve

LEMMA LoadDescriptorHistory ==
  ASSUME MemoryInv, MemoryInv', BucketInv, BucketInv', HistoryInv, InTime, KeepHistory,
         NEW t \in Threads, LoadDescriptor(t)
  PROVE  HistoryInv' /\ Leaky!LoadDescriptor(t)
<1> USE DEF shared, vector, call, work, LoadDescriptor, Goto
<1>0. TypeOK /\ TypeOK' /\ HistoryTypeOK /\ log' = log /\ number' = number
  BY NoSwap DEF BucketInv, HistoryInv
<1>2. \A u \in Threads \ {t} : Same(u)
  BY <1>0 DEF Same, TypeOK, CallTypeOK, WorkTypeOK
<1>3. /\ pc[t] = "load_descriptor" /\ pc'[t] = "load_pending" /\ cur'[t] = descriptor
      /\ ~dropped /\ descriptor \in DAddrs
  BY <1>0, InACall DEF Resting, TypeOK, VectorTypeOK, CallTypeOK, WorkTypeOK
<1>4. wd[t] = Null /\ target[t] = Null /\ next[t] = Null
  BY <1>3 DEF MemoryInv, Scopes, HasDesc, Writing
<1>5. curnum[t] = 1 /\ wdnum[t] = 1  BY <1>3, <1>4 DEF HistoryInv, NumbersKnown
<1>6. curnum'[t] = Len(log) /\ wdnum'[t] = 1  BY <1>3, <1>4 DEF KeepHistory
<1>7. NumbersKnown(t)'
  <2>1. number[descriptor] = Len(log)  BY <1>3 DEF HistoryInv, LiveKnown
  <2> QED  BY <1>0, <1>3, <1>4, <1>6, <2>1 DEF NumbersKnown
<1>8. HistoryInv' /\ OthersMapped(t) /\ UNCHANGED <<log, LeakyDescs>>
  BY <1>2, <1>3, <1>7, QuietStep DEF Completing
<1>9. LeakyTarget'[t] = LeakyTarget[t]  BY <1>3, <1>4 DEF LeakyTarget
<1>10. LeakyElem'[t] = LeakyElem[t]
  BY <1>3, <1>4 DEF LeakyElem, ElemOf, Completing
<1>11. UNCHANGED <<wdnum, LeakyTarget, LeakyElem>> /\ curnum' = [curnum EXCEPT ![t] = Len(log)]
  BY <1>5, <1>6, <1>8, <1>9, <1>10, OneMapped
<1>12. UNCHANGED LeakyBuffers  BY DEF LeakyBuffers
<1> QED
  BY <1>8, <1>11, <1>12
     DEF Leaky!LoadDescriptor, Leaky!Goto, Leaky!shared, Leaky!call, Leaky!work

LEMMA LoadPendingHistory ==
  ASSUME MemoryInv, MemoryInv', BucketInv, BucketInv', HistoryInv, InTime, KeepHistory,
         NEW t \in Threads, LoadPending(t)
  PROVE  HistoryInv' /\ Leaky!LoadPending(t)
<1> USE DEF shared, vector, call, Goto
<1> DEFINE w == descs[cur[t]].pending
<1>0. TypeOK /\ TypeOK' /\ HistoryTypeOK /\ log' = log /\ number' = number
  BY NoSwap DEF LoadPending, BucketInv, HistoryInv
<1>1. UNCHANGED <<descriptor, descs, writes, heap, dropped, next, op, arg, cur, target, elem>>
  BY DEF LoadPending
<1>2. \A u \in Threads \ {t} : Same(u)
  BY <1>0 DEF LoadPending, Same, TypeOK, CallTypeOK, WorkTypeOK
<1>3. /\ pc[t] = "load_pending" /\ op[t] \in {"push", "pop"}
      /\ \/ /\ writes[w].some
            /\ pc'[t] = "write_cell" /\ wd'[t] = w /\ ret'[t] = AfterHelping(t)
            /\ pc' = [pc EXCEPT ![t] = "write_cell"] /\ ret' = [ret EXCEPT ![t] = AfterHelping(t)]
         \/ /\ ~writes[w].some /\ wd' = wd /\ ret' = ret
            /\ pc'[t] = AfterHelping(t) /\ pc' = [pc EXCEPT ![t] = AfterHelping(t)]
  BY <1>0 DEF LoadPending, TypeOK, CallTypeOK, WorkTypeOK
<1>4. /\ wd[t] = Null /\ target[t] = Null /\ next[t] = Null /\ cur[t] # Null
      /\ cur[t] \in DAddrs /\ Live(cur[t]) /\ w \in WAddrs /\ heap[w] # "free"
  BY <1>3, Held DEF MemoryInv, Scopes, HasDesc, Writing, HeldIsLive, Live
<1>5. /\ curnum[t] = number[cur[t]] /\ wdnum[t] = 1
      /\ writes[w].some => log[curnum[t]].write = writes[w]
  BY <1>4 DEF HistoryInv, NumbersKnown, LiveKnown, WriteAt
<1>6. AfterHelping(t) \in {"check_bucket", "read_elem"} /\ w # Null /\ cur[t] \notin {Null}
  BY <1>4, SealedAssumption DEF AfterHelping, Addrs
<1>7. curnum'[t] = curnum[t] /\ wdnum'[t] = IF writes[w].some THEN curnum[t] ELSE 1
  <2>1. curnum'[t] = curnum[t]  BY <1>3, <1>6 DEF KeepHistory
  <2>2. wdnum'[t] = IF writes[w].some THEN curnum[t] ELSE 1
    BY <1>1, <1>3, <1>4, <1>6 DEF KeepHistory, Swapped
  <2> QED  BY <2>1, <2>2
<1>8. NumbersKnown(t)'
  BY <1>0, <1>1, <1>3, <1>4, <1>5, <1>6, <1>7 DEF NumbersKnown, Own, WriteAt
<1>9. HistoryInv' /\ OthersMapped(t) /\ UNCHANGED <<log, LeakyDescs>>
  BY <1>1, <1>2, <1>3, <1>8, QuietStep DEF Completing
<1>10. LeakyTarget'[t] = LeakyTarget[t]  BY <1>0, <1>1 DEF LeakyTarget
<1>11. LeakyElem'[t] = LeakyElem[t]
  BY <1>1, <1>3, <1>4, <1>6 DEF LeakyElem, ElemOf, Completing, Own
<1>12. UNCHANGED <<curnum, LeakyTarget, LeakyElem>>
       /\ (wdnum' = IF writes[w].some THEN [wdnum EXCEPT ![t] = curnum[t]] ELSE wdnum)
  BY <1>5, <1>7, <1>9, <1>10, <1>11, OneMapped
<1>13. UNCHANGED <<LeakyBuffers, cells, res, calls, allocs>>  BY DEF LoadPending, LeakyBuffers
<1>14. LeakyDescs[curnum[t]].pending <=> writes[w].some  BY <1>4, CurSeen DEF WriteAt
<1>15. Leaky!AfterHelping(t) = AfterHelping(t)  BY DEF Leaky!AfterHelping, AfterHelping
<1> HIDE DEF w
<1> QED
  BY <1>1, <1>3, <1>9, <1>12, <1>13, <1>14, <1>15
     DEF Leaky!LoadPending, Leaky!Goto, Leaky!shared, Leaky!call

-----------------------------------------------------------------------------
(* complete_write executes the write *)

LEMMA WriteCellHistory ==
  ASSUME MemoryInv, MemoryInv', BucketInv, BucketInv', HistoryInv, InTime, KeepHistory,
         NEW t \in Threads, WriteCell(t)
  PROVE  HistoryInv' /\ Leaky!WriteCell(t)
<1> USE DEF call, work, Goto
<1> DEFINE w == log[wdnum[t]].write
<1>0. TypeOK /\ TypeOK' /\ HistoryTypeOK /\ log' = log /\ number' = number /\ NumbersKnown(t)
  BY NoSwap DEF WriteCell, BucketInv, HistoryInv
<1>1. /\ pc[t] = "write_cell" /\ pc' = [pc EXCEPT ![t] = "load_target"]
      /\ UNCHANGED <<buffers, descriptor, descs, writes, heap, dropped, call, hazards, cur, work>>
  BY DEF WriteCell
<1>2. \A u \in Threads \ {t} : Same(u)
  BY <1>0, <1>1 DEF Same, TypeOK, CallTypeOK, WorkTypeOK
<1>3. pc'[t] = "load_target"  BY <1>0, <1>1 DEF TypeOK, CallTypeOK
<1>4. Contents(wd[t]) = {w}  BY <1>0, <1>1 DEF NumbersKnown, Contents
<1>5. cells' = [cells EXCEPT ![w.location] = IF @ = w.old THEN w.new ELSE @]
  <2>1. cells' = [i \in Slots |-> IF i = w.location /\ cells[i] = w.old THEN w.new ELSE cells[i]]
    BY <1>4 DEF WriteCell
  <2>2. cells \in [Slots -> Nat]  BY <1>0 DEF TypeOK, VectorTypeOK
  <2> HIDE DEF w
  <2> QED  BY <2>1, <2>2
<1>6. cur[t] # Null /\ wd[t] # Null /\ next[t] = Null
  BY <1>1 DEF MemoryInv, Scopes, HasDesc, Writing
<1>7. curnum'[t] = curnum[t] /\ wdnum'[t] = wdnum[t]
  <2>1. curnum'[t] = curnum[t]  BY <1>1, <1>3 DEF KeepHistory
  <2>2. wdnum'[t] = wdnum[t]  BY <1>1, <1>6 DEF KeepHistory
  <2> QED  BY <2>1, <2>2
<1>8. NumbersKnown(t)'
  BY <1>0, <1>1, <1>3, <1>6, <1>7 DEF NumbersKnown, Own
<1>9. HistoryInv' /\ OthersMapped(t) /\ UNCHANGED <<log, LeakyDescs>>
  BY <1>1, <1>2, <1>3, <1>8, QuietStep DEF Completing, Own
<1>10. LeakyTarget'[t] = LeakyTarget[t]  BY <1>0, <1>1 DEF LeakyTarget
<1>11. LeakyElem'[t] = LeakyElem[t]
  BY <1>0, <1>1, <1>3, <1>6, <1>7 DEF LeakyElem, ElemOf, Completing, Own
<1>12. UNCHANGED <<curnum, wdnum, LeakyTarget, LeakyElem, LeakyBuffers>>
  <2>1. UNCHANGED LeakyBuffers  BY <1>1 DEF LeakyBuffers
  <2> QED  BY <1>7, <1>9, <1>10, <1>11, <2>1, OneMapped
<1>13. /\ LeakyDescs[wdnum[t]].location = w.location
       /\ LeakyDescs[wdnum[t]].old = w.old /\ LeakyDescs[wdnum[t]].new = w.new
  BY <1>0, NumbersType DEF LeakyDescs
<1> HIDE DEF w
<1> QED
  BY <1>1, <1>5, <1>9, <1>12, <1>13
     DEF Leaky!WriteCell, Leaky!Goto, Leaky!call, Leaky!work

\* HistoryInv leaves nothing to find but the write itself.
LEMMA OwnWriteStays ==
  ASSUME MemoryInv, HistoryInv, NEW t \in Threads, OwnWriteGone(t)  PROVE FALSE
<1>1. pc[t] = "write_cell" /\ (\E w \in Contents(wd[t]) : ~w.some)  BY DEF OwnWriteGone
<1>2. NumbersKnown(t) /\ HistoryTypeOK  BY DEF HistoryInv
<1>3. heap[wd[t]] # "free" /\ writes[wd[t]] = log[wdnum[t]].write  BY <1>1, <1>2 DEF NumbersKnown
<1>4. ~log[wdnum[t]].write.some  BY <1>1, <1>3 DEF Contents
<1>5. wd[t] # Null  BY <1>1 DEF MemoryInv, Scopes, Writing
<1> QED  BY <1>2, <1>4, <1>5 DEF NumbersKnown

-----------------------------------------------------------------------------
(* Returns and panics *)

\* A call that ends without a change to the vector.
LEMMA QuietEnd ==
  ASSUME MemoryInv, MemoryInv', BucketInv, BucketInv', HistoryInv, InTime, KeepHistory,
         NEW t \in Threads, EndOfScope(t), UNCHANGED <<vector, dropped, op, arg>>,
         Goto(t, "idle") \/ Goto(t, "panicked"),
         wd[t] = Null, target[t] = Null, next[t] = Null
  PROVE  /\ HistoryInv'
         /\ UNCHANGED <<log, LeakyDescs, LeakyBuffers>>
         /\ Leaky!EndOfScope(t)
<1> USE DEF EndOfScope, Goto, vector
<1>0. TypeOK /\ TypeOK' /\ HistoryTypeOK  BY DEF BucketInv, HistoryInv
<1>1. \A u \in Threads \ {t} : Same(u)
  BY <1>0 DEF Same, TypeOK, CallTypeOK, WorkTypeOK
<1>2. /\ pc'[t] \in {"idle", "panicked"} /\ cur'[t] = Null /\ wd'[t] = Null
      /\ target'[t] = Null /\ next'[t] = Null /\ elem'[t] = 0 /\ next' = next /\ ret'[t] = "idle"
  BY <1>0 DEF TypeOK, CallTypeOK, WorkTypeOK, Zero
<1>3. curnum'[t] = 1 /\ wdnum'[t] = 1
  BY <1>2, NumbersEnd
<1>4. NumbersKnown(t)'  BY <1>2, <1>3 DEF NumbersKnown
<1>5. ~Completing(t)
  BY DEF MemoryInv, Scopes, Completing, Writing
<1>6. HistoryInv' /\ OthersMapped(t) /\ UNCHANGED <<log, LeakyDescs>>
  BY <1>1, <1>2, <1>4, <1>5, QuietStep
<1>7. LeakyTarget'[t] = 1  BY <1>2 DEF LeakyTarget
<1>8. LeakyElem'[t] = 0
  BY <1>2 DEF LeakyElem, ElemOf, Completing
<1>9. /\ curnum' = [curnum EXCEPT ![t] = 1] /\ wdnum' = [wdnum EXCEPT ![t] = 1]
      /\ LeakyTarget' = [LeakyTarget EXCEPT ![t] = 1]
      /\ LeakyElem' = [LeakyElem EXCEPT ![t] = 0]
  BY <1>3, <1>6, <1>7, <1>8, OneMapped
<1>10. UNCHANGED LeakyBuffers  BY DEF LeakyBuffers
<1> QED  BY <1>6, <1>9, <1>10 DEF Leaky!EndOfScope, Leaky!Zero

LEMMA ReturnsHistory ==
  ASSUME MemoryInv, MemoryInv', BucketInv, BucketInv', HistoryInv, InTime, KeepHistory,
         NEW t \in Threads
  PROVE  /\ PopEmpty(t) => HistoryInv' /\ Leaky!PopEmpty(t)
         /\ Size(t) => HistoryInv' /\ Leaky!Size(t)
         /\ ReserveDone(t) => HistoryInv' /\ Leaky!ReserveDone(t)
<1> USE DEF Leaky!Return, Leaky!Goto, Leaky!shared, Return, Goto, vector
<1>1. pc[t] \notin Writing \cup {"swap_descriptor"} =>
        wd[t] = Null /\ target[t] = Null /\ next[t] = Null
  BY DEF MemoryInv, Scopes, Writing
<1>2. pc[t] \in HasDesc => cur[t] # Null  BY DEF MemoryInv, Scopes
<1>3. ASSUME PopEmpty(t)  PROVE HistoryInv' /\ Leaky!PopEmpty(t)
  <2>1. /\ HistoryInv' /\ UNCHANGED <<log, LeakyDescs, LeakyBuffers>> /\ Leaky!EndOfScope(t)
    BY <1>1, <1>3, QuietEnd DEF PopEmpty, Writing
  <2>2. LeakyDescs[curnum[t]].size = descs[cur[t]].size
    BY <1>2, <1>3, CurSeen DEF PopEmpty, HasDesc
  <2> QED  BY <1>3, <2>1, <2>2 DEF PopEmpty, Leaky!PopEmpty
<1>4. ASSUME Size(t)  PROVE HistoryInv' /\ Leaky!Size(t)
  <2>1. /\ HistoryInv' /\ UNCHANGED <<log, LeakyDescs, LeakyBuffers>> /\ Leaky!EndOfScope(t)
    BY <1>1, <1>4, QuietEnd DEF Size, Writing
  <2>2. Leaky!SizeOf(curnum[t]) = SizeOf(cur[t])
    BY <1>2, <1>4, CurSeen DEF Size, HasDesc
  <2> QED  BY <1>4, <2>1, <2>2 DEF Size, Leaky!Size
<1>5. ASSUME ReserveDone(t)  PROVE HistoryInv' /\ Leaky!ReserveDone(t)
  <2>1. /\ HistoryInv' /\ UNCHANGED <<log, LeakyDescs, LeakyBuffers>> /\ Leaky!EndOfScope(t)
    BY <1>1, <1>5, QuietEnd DEF ReserveDone, Writing
  <2>2. Leaky!last_bucket(arg[t]) = last_bucket(arg[t])  BY SameArithmetic
  <2> QED  BY <1>5, <2>1, <2>2 DEF ReserveDone, Leaky!ReserveDone
<1> QED  BY <1>3, <1>4, <1>5

-----------------------------------------------------------------------------
(* Steps inside a call that leave the boxes alone *)

LEMMA QuietOn ==
  ASSUME MemoryInv, MemoryInv', BucketInv, BucketInv', HistoryInv, InTime, KeepHistory,
         NEW t \in Threads,
         UNCHANGED <<descriptor, descs, writes, heap, dropped, op, arg, wd, target, ret, elem, next>>,
         \A u \in Threads \ {t} : Same(u),
         \/ pc[t] \in {"check_bucket", "allocate_bucket"} /\ cur'[t] = cur[t]
            /\ pc'[t] \in {"allocate_bucket", "read_elem"}
         \/ pc[t] \in {"load_pending", "reserve_first", "reserve_next"} /\ cur'[t] = Null
            /\ pc'[t] \in {"reserve_first", "reserve_next"}
  PROVE  HistoryInv' /\ UNCHANGED <<log, LeakyDescs, curnum, wdnum, LeakyTarget, LeakyElem>>
<1>0. HistoryTypeOK /\ NumbersKnown(t) /\ log' = log /\ number' = number  BY NoSwap DEF HistoryInv
<1>1. wd[t] = Null /\ target[t] = Null /\ next[t] = Null  BY DEF MemoryInv, Scopes, Writing
<1>2. curnum'[t] = curnum[t]  BY DEF KeepHistory
<1>3. wdnum'[t] = 1 /\ wdnum[t] = 1
  <2>1. wdnum'[t] = 1  BY <1>1 DEF KeepHistory
  <2> QED  BY <1>0, <1>1, <2>1 DEF NumbersKnown
<1>4. NumbersKnown(t)'
  BY <1>0, <1>1, <1>2, <1>3 DEF NumbersKnown, WriteAt
<1>5. ~Completing(t)  BY DEF Completing
<1>6. HistoryInv' /\ OthersMapped(t) /\ UNCHANGED <<log, LeakyDescs>>
  BY <1>4, <1>5, QuietStep
<1>7. LeakyTarget'[t] = LeakyTarget[t]  BY <1>1 DEF LeakyTarget
<1>8. LeakyElem'[t] = LeakyElem[t]  BY <1>1 DEF LeakyElem, ElemOf, Completing
<1> QED  BY <1>2, <1>3, <1>6, <1>7, <1>8, OneMapped

LEMMA AllocateMapped ==
  ASSUME NEW t, NEW b \in Buffers, AllocateBucket(t, b), BucketInv
  PROVE  Leaky!layout_ok(b) /\ Leaky!InstallBucket(b)
<1>1. layout_ok(b) /\ InstallBucket(b) /\ buffers \in [Buffers -> Nat]
  BY DEF AllocateBucket, BucketInv, TypeOK, VectorTypeOK
<1>2. bucket_len(b) # 0
  <2>1. b \in 0 .. USIZE_BITS /\ 2^b \in Nat \ {0} /\ FIRST_BUCKET_SIZE \in Nat \ {0}
    BY BucketsThatFit, FirstBucket, BucketsAssumption, PowersOfTwo
  <2> QED  BY <2>1 DEF bucket_len
<1>3. LeakyBuffers[b] <=> buffers[b] # 0  BY BucketSeen
<1>4. CASE buffers[b] # 0
  BY <1>1, <1>3, <1>4, SameArithmetic DEF InstallBucket, LeakyBuffers, Leaky!InstallBucket
<1>5. CASE buffers[b] = 0
  <2>1. buffers' = [buffers EXCEPT ![b] = bucket_len(b)]
    BY <1>1, <1>5 DEF InstallBucket
  <2>2. \A c \in Buffers : buffers'[c] # 0 <=> c = b \/ buffers[c] # 0
    BY <1>1, <1>2, <2>1
  <2>3. LeakyBuffers' = [LeakyBuffers EXCEPT ![b] = TRUE]
    BY <1>2, <2>2 DEF LeakyBuffers
  <2>4. cells' = [i \in Slots |-> IF bucket_of(i) = b THEN 0 ELSE cells[i]]
    BY <1>1, <1>5 DEF InstallBucket, Zero
  <2> QED
    BY <1>1, <1>3, <1>5, <2>3, <2>4, SameArithmetic DEF Leaky!InstallBucket, Leaky!Zero
<1> QED  BY <1>4, <1>5

LEMMA CheckBucketHistory ==
  ASSUME MemoryInv, MemoryInv', BucketInv, BucketInv', HistoryInv, InTime, KeepHistory,
         NEW t \in Threads, CheckBucket(t)
  PROVE  HistoryInv' /\ Leaky!CheckBucket(t)
<1> USE DEF CheckBucket, shared, vector, call, work, Goto
<1> DEFINE b == bucket_of(descs[cur[t]].size)
<1>1. cur[t] # Null /\ cur[t] \in DAddrs  BY DEF MemoryInv, MemoryTypeOK, Scopes, HasDesc
<1>2. b \in Buffers  BY <1>1, SizesInRange
<1>3. /\ \A u \in Threads \ {t} : Same(u)
      /\ pc'[t] \in {"allocate_bucket", "read_elem"}
  BY DEF Same, BucketInv, TypeOK, CallTypeOK, WorkTypeOK
<1>4. HistoryInv' /\ UNCHANGED <<log, LeakyDescs, curnum, wdnum, LeakyTarget, LeakyElem>>
  BY <1>3, QuietOn
<1>5. UNCHANGED LeakyBuffers  BY DEF LeakyBuffers
<1>6. Leaky!bucket_of(LeakyDescs[curnum[t]].size) = b  BY <1>1, CurSeen, SameArithmetic
<1>7. LeakyBuffers[b] <=> buffers[b] # 0  BY <1>2, BucketSeen
<1> HIDE DEF b
<1> QED
  BY <1>4, <1>5, <1>6, <1>7
     DEF b, Leaky!CheckBucket, Leaky!Goto, Leaky!shared, Leaky!call, Leaky!work

LEMMA PushAllocatesHistory ==
  ASSUME MemoryInv, MemoryInv', BucketInv, BucketInv', HistoryInv, InTime, KeepHistory,
         NEW t \in Threads, PushAllocates(t)
  PROVE  HistoryInv' /\ Leaky!PushAllocates(t)
<1> DEFINE b == bucket_of(descs[cur[t]].size)
<1>0. pc[t] = "allocate_bucket"  BY DEF PushAllocates
<1>1. /\ cur[t] # Null /\ cur[t] \in DAddrs
      /\ wd[t] = Null /\ target[t] = Null /\ next[t] = Null
  BY <1>0 DEF MemoryInv, MemoryTypeOK, Scopes, HasDesc, Writing
<1>2. b \in Buffers  BY <1>1, SizesInRange
<1>3. Leaky!bucket_of(LeakyDescs[curnum[t]].size) = b  BY <1>1, CurSeen, SameArithmetic
<1>4. CASE AllocateBucket(t, b) /\ Goto(t, "read_elem") /\ UNCHANGED allocs
  <2>1. /\ \A u \in Threads \ {t} : Same(u)
        /\ pc'[t] = "read_elem"
    BY <1>4 DEF AllocateBucket, Goto, call, Same, BucketInv, TypeOK, CallTypeOK, WorkTypeOK
  <2>2. HistoryInv' /\ UNCHANGED <<log, LeakyDescs, curnum, wdnum, LeakyTarget, LeakyElem>>
    BY <1>0, <1>4, <2>1, QuietOn DEF AllocateBucket, call
  <2>3. Leaky!layout_ok(b) /\ Leaky!InstallBucket(b)  BY <1>2, <1>4, AllocateMapped
  <2> HIDE DEF b
  <2> QED
    BY <1>0, <1>3, <1>4, <2>2, <2>3
       DEF AllocateBucket, Goto, call, Leaky!PushAllocates, Leaky!AllocateBucket, Leaky!Goto, Leaky!call
<1>5. CASE CapacityOverflow(t, b)
  <2>1. HistoryInv' /\ UNCHANGED <<log, LeakyDescs, LeakyBuffers>> /\ Leaky!EndOfScope(t)
    BY <1>1, <1>5, QuietEnd DEF CapacityOverflow, PanicIn, shared, call
  <2>2. ~Leaky!layout_ok(b)  BY <1>5, SameArithmetic DEF CapacityOverflow
  <2> HIDE DEF b
  <2> QED
    BY <1>0, <1>3, <1>5, <2>1, <2>2
       DEF CapacityOverflow, PanicIn, Goto, shared, vector, call, Leaky!PushAllocates,
           Leaky!CapacityOverflow, Leaky!PanicIn, Leaky!Goto, Leaky!shared, Leaky!call
<1> QED  BY <1>4, <1>5 DEF PushAllocates

LEMMA ReserveSizeHistory ==
  ASSUME MemoryInv, MemoryInv', BucketInv, BucketInv', HistoryInv, InTime, KeepHistory,
         NEW t \in Threads, ReserveSize(t)
  PROVE  HistoryInv' /\ Leaky!ReserveSize(t)
<1> USE DEF ReserveSize, shared, vector, call, Goto
<1>1. cur[t] # Null /\ cur[t] \in DAddrs  BY DEF MemoryInv, MemoryTypeOK, Scopes, HasDesc
<1>2. /\ \A u \in Threads \ {t} : Same(u)
      /\ pc'[t] \in {"reserve_first", "reserve_next"} /\ cur'[t] = Null
  BY DEF Same, BucketInv, TypeOK, CallTypeOK, WorkTypeOK
<1>3. HistoryInv' /\ UNCHANGED <<log, LeakyDescs, curnum, wdnum, LeakyTarget, LeakyElem>>
  BY <1>2, QuietOn
<1>4. UNCHANGED LeakyBuffers  BY DEF LeakyBuffers
<1>5. Leaky!SizeOf(curnum[t]) = SizeOf(cur[t])  BY <1>1, CurSeen
<1>6. Leaky!last_bucket(SizeOf(cur[t])) = last_bucket(SizeOf(cur[t]))  BY SameArithmetic
<1> QED
  BY <1>3, <1>4, <1>5, <1>6 DEF Leaky!ReserveSize, Leaky!Goto, Leaky!shared, Leaky!call

LEMMA ReserveFirstHistory ==
  ASSUME MemoryInv, MemoryInv', BucketInv, BucketInv', HistoryInv, InTime, KeepHistory,
         NEW t \in Threads, ReserveFirst(t)
  PROVE  HistoryInv' /\ Leaky!ReserveFirst(t)
<1> USE DEF ReserveFirst, AllocateBucket, call, Goto
<1>1. /\ \A u \in Threads \ {t} : Same(u)
      /\ pc'[t] = "reserve_next" /\ cur'[t] = Null
  BY DEF Same, BucketInv, TypeOK, CallTypeOK, WorkTypeOK, MemoryInv, Scopes, HasDesc, Writing
<1>2. HistoryInv' /\ UNCHANGED <<log, LeakyDescs, curnum, wdnum, LeakyTarget, LeakyElem>>
  BY <1>1, QuietOn
<1>3. 0 \in Buffers  BY BucketsThatFit, BucketsAssumption, FirstBucket
<1>4. Leaky!layout_ok(0) /\ Leaky!InstallBucket(0)  BY <1>3, AllocateMapped
<1> QED
  BY <1>2, <1>4 DEF Leaky!ReserveFirst, Leaky!AllocateBucket, Leaky!Goto, Leaky!call

LEMMA ReserveNextHistory ==
  ASSUME MemoryInv, MemoryInv', BucketInv, BucketInv', HistoryInv, InTime, KeepHistory,
         NEW t \in Threads, ReserveNext(t)
  PROVE  HistoryInv' /\ Leaky!ReserveNext(t)
<1> DEFINE b == allocs[t] + 1
<1>0. pc[t] = "reserve_next" /\ allocs[t] < last_bucket(arg[t])  BY DEF ReserveNext
<1>1. cur[t] = Null /\ wd[t] = Null /\ target[t] = Null /\ next[t] = Null
  BY <1>0 DEF MemoryInv, Scopes, HasDesc, Writing
<1>2. allocs[t] < Leaky!last_bucket(arg[t])  BY <1>0, SameArithmetic
<1>4. CASE AllocateBucket(t, b) /\ allocs' = [allocs EXCEPT ![t] = @ + 1] /\ Goto(t, "reserve_next")
  <2>0. allocs' = [allocs EXCEPT ![t] = allocs[t] + 1]  BY <1>4
  <2>1. /\ \A u \in Threads \ {t} : Same(u)
        /\ pc'[t] = "reserve_next" /\ cur'[t] = Null
    BY <1>1, <1>4 DEF AllocateBucket, Goto, call, Same, BucketInv, TypeOK, CallTypeOK, WorkTypeOK
  <2>2. HistoryInv' /\ UNCHANGED <<log, LeakyDescs, curnum, wdnum, LeakyTarget, LeakyElem>>
    BY <1>0, <1>4, <2>1, QuietOn DEF AllocateBucket, call
  <2>3. b \in Buffers
    <3>1. arg[t] \in 0 .. UsizeMax /\ allocs[t] \in Buffers
      BY <1>0 DEF BucketInv, BucketKnown, ReserveKnown
    <3>2. last_bucket(arg[t]) \in 0 .. USIZE_BITS - 1 - K  BY <3>1, LastBucket
    <3>3. USIZE_BITS \in Nat /\ K \in Nat /\ Buffers = 0 .. USIZE_BITS - 2 - K
      BY BucketsAssumption, FirstBucket, BucketsThatFit
    <3>4. b \in 0 .. USIZE_BITS - K  BY <1>0, <3>1, <3>2, <3>3
    <3>5. layout_ok(b)  BY <1>4 DEF AllocateBucket
    <3> HIDE DEF b
    <3> QED  BY <3>4, <3>5, BucketsThatFit
  <2>4. Leaky!layout_ok(b) /\ Leaky!InstallBucket(b)  BY <1>4, <2>3, AllocateMapped
  <2> QED
    BY <1>0, <1>2, <1>4, <2>0, <2>2, <2>4
       DEF AllocateBucket, Goto, call, Leaky!ReserveNext, Leaky!AllocateBucket, Leaky!Goto, Leaky!call
<1>5. CASE CapacityOverflow(t, b)
  <2>1. HistoryInv' /\ UNCHANGED <<log, LeakyDescs, LeakyBuffers>> /\ Leaky!EndOfScope(t)
    BY <1>1, <1>5, QuietEnd DEF CapacityOverflow, PanicIn, shared, call
  <2>2. ~Leaky!layout_ok(b)  BY <1>5, SameArithmetic DEF CapacityOverflow
  <2> QED
    BY <1>0, <1>2, <1>5, <2>1, <2>2
       DEF CapacityOverflow, PanicIn, Goto, shared, vector, call, Leaky!ReserveNext,
           Leaky!CapacityOverflow, Leaky!PanicIn, Leaky!Goto, Leaky!shared, Leaky!call
<1> QED  BY <1>4, <1>5 DEF ReserveNext

-----------------------------------------------------------------------------
(* Steps that take or give back a box *)

\* The end of a call, or of an attempt of its loop.
LEMMA EndKnown ==
  ASSUME TypeOK, KeepHistory, NEW t \in Threads, EndOfScope(t),
         Goto(t, "idle") \/ Goto(t, "load_descriptor")
  PROVE  /\ NumbersKnown(t)' /\ curnum'[t] = 1 /\ wdnum'[t] = 1
         /\ LeakyTarget'[t] = 1 /\ LeakyElem'[t] = 0
         /\ next'[t] = Null
<1>1. /\ pc'[t] \in {"idle", "panicked", "load_descriptor"} /\ cur'[t] = Null /\ wd'[t] = Null
      /\ target'[t] = Null /\ next'[t] = Null /\ elem'[t] = 0
  BY DEF EndOfScope, Goto, TypeOK, CallTypeOK, WorkTypeOK, Zero
<1>2. curnum'[t] = 1 /\ wdnum'[t] = 1  BY <1>1, NumbersEnd
<1>3. NumbersKnown(t)'  BY <1>1, <1>2 DEF NumbersKnown
<1>4. LeakyTarget'[t] = 1  BY <1>1 DEF LeakyTarget
<1>5. LeakyElem'[t] = 0
  BY <1>1 DEF LeakyElem, ElemOf, Completing
<1> QED  BY <1>1, <1>2, <1>3, <1>4, <1>5

LEMMA EndMapped ==
  ASSUME TypeOK, KeepHistory, NEW t \in Threads, EndOfScope(t),
         Goto(t, "idle") \/ Goto(t, "load_descriptor"),
         HistoryInv, HistoryInv', OthersMapped(t)
  PROVE  Leaky!EndOfScope(t)
<1>1. /\ curnum' = [curnum EXCEPT ![t] = 1] /\ wdnum' = [wdnum EXCEPT ![t] = 1]
      /\ LeakyTarget' = [LeakyTarget EXCEPT ![t] = 1]
      /\ LeakyElem' = [LeakyElem EXCEPT ![t] = 0]
  BY EndKnown, OneMapped
<1> QED  BY <1>1 DEF EndOfScope, Leaky!EndOfScope, Leaky!Zero

LEMMA LoadTargetHistory ==
  ASSUME MemoryInv, MemoryInv', BucketInv, BucketInv', HistoryInv, InTime, KeepHistory,
         NEW t \in Threads, LoadTarget(t)
  PROVE  HistoryInv' /\ Leaky!LoadTarget(t)
<1> USE DEF call, Goto
<1>0. /\ TypeOK /\ TypeOK' /\ HistoryTypeOK /\ NumbersKnown(t) /\ LiveKnown
      /\ log' = log /\ number' = number /\ HeldIsLive /\ DAddrs \cap WAddrs = {}
  BY NoSwap, Held, SealedAssumption DEF LoadTarget, BucketInv, HistoryInv
<1>1. /\ pc[t] = "load_target" /\ pc' = [pc EXCEPT ![t] = "clear_pending"]
      /\ target' = [target EXCEPT ![t] = descriptor]
      /\ UNCHANGED <<buffers, cells, descriptor, descs, dropped, call, cur, wd, ret, elem, next, allocs>>
  BY DEF LoadTarget
<1>2. PICK n \in WAddrs : /\ heap[n] = "free" /\ heap' = [heap EXCEPT ![n] = "used"]
                          /\ writes' = [writes EXCEPT ![n] = NoWrite]
  BY DEF LoadTarget, FreeAmong
<1>3. \A u \in Threads \ {t} : Same(u)
  BY <1>0, <1>1 DEF Same, TypeOK, CallTypeOK, WorkTypeOK
<1>4. pc'[t] = "clear_pending" /\ target'[t] = descriptor /\ ~dropped /\ descriptor \in DAddrs
  BY <1>0, <1>1, InACall DEF Resting, TypeOK, VectorTypeOK, CallTypeOK, WorkTypeOK
<1>5. \A d \in DAddrs : heap'[d] = heap[d]
  BY <1>0, <1>2 DEF TypeOK, VectorTypeOK
<1>6. \A d \in DAddrs : Live(d)' <=> Live(d)  BY <1>1, <1>5 DEF Live
<1>7. BoxesStay  BY <1>0, <1>2 DEF BoxesStay, TypeOK, VectorTypeOK
<1>8. \A d \in DAddrs : heap[d] # "free" => WriteAt(d)' = WriteAt(d)
  BY <1>0, <1>1, <1>7 DEF BoxesStay, HeldIsLive, WriteAt
<1>9. Keeps  BY <1>0, <1>1, <1>6, <1>8 DEF Keeps, Live
<1>10. OthersIdle(t)  BY <1>1, <1>3 DEF OthersIdle
<1>11. cur[t] # Null /\ wd[t] # Null /\ next[t] = Null  BY <1>1 DEF MemoryInv, Scopes, HasDesc, Writing
<1>12. curnum'[t] = curnum[t] /\ wdnum'[t] = wdnum[t]
  <2>1. curnum'[t] = curnum[t]  BY <1>1, <1>4 DEF KeepHistory
  <2>2. wdnum'[t] = wdnum[t]  BY <1>1, <1>11 DEF KeepHistory
  <2> QED  BY <2>1, <2>2
<1>13. wdnum[t] <= number[descriptor]  BY <1>0, <1>4, NumbersType DEF LiveKnown
<1>14. NumbersKnown(t)'
  BY <1>0, <1>1, <1>4, <1>11, <1>12, <1>13 DEF NumbersKnown, Own
<1>15. HistoryInv' /\ OthersMapped(t)
  BY <1>1, <1>4, <1>7, <1>9, <1>10, <1>14, StepOfHistory DEF Completing, Own
<1>16. LeakyDescs' = LeakyDescs  BY <1>6, <1>8, <1>9, DescsKeep DEF Live
<1>17. LeakyTarget'[t] = Len(log)
  <2>1. descriptor # Null  BY <1>4, SealedAssumption DEF Addrs
  <2> QED  BY <1>0, <1>4, <2>1 DEF LeakyTarget, LiveKnown
<1>18. LeakyElem'[t] = LeakyElem[t]
  BY <1>0, <1>1, <1>4, <1>11, <1>12 DEF LeakyElem, ElemOf, Completing, Own
<1>19. /\ UNCHANGED <<curnum, wdnum, LeakyElem, LeakyBuffers>>
       /\ LeakyTarget' = [LeakyTarget EXCEPT ![t] = Len(log)]
  <2>1. UNCHANGED LeakyBuffers  BY <1>1 DEF LeakyBuffers
  <2> QED  BY <1>12, <1>15, <1>17, <1>18, <2>1, OneMapped
<1> QED
  BY <1>0, <1>1, <1>15, <1>16, <1>19
     DEF Leaky!LoadTarget, Leaky!Goto, Leaky!shared, Leaky!call

\* Push and pop make the next Descriptor.
LEMMA MakeNextHistory ==
  ASSUME MemoryInv, MemoryInv', BucketInv, BucketInv', HistoryInv, InTime, KeepHistory,
         NEW t \in Threads, NEW size, NEW w \in WriteDescriptor, MakeNext(t, size, w),
         pc[t] = "read_elem",
         \A u \in Threads \ {t} : elem'[u] = elem[u],
         \/ /\ op[t] = "push" /\ size = descs[cur[t]].size + 1
            /\ w = [some |-> TRUE, new |-> arg[t], old |-> w.old, location |-> descs[cur[t]].size]
         \/ /\ op[t] = "pop" /\ descs[cur[t]].size # 0 /\ size = descs[cur[t]].size - 1
            /\ w = NoWrite
  PROVE  /\ HistoryInv' /\ OthersMapped(t)
         /\ UNCHANGED <<log, LeakyDescs, LeakyBuffers, curnum, wdnum, LeakyTarget>>
         /\ LeakyElem' = [LeakyElem EXCEPT ![t] = IF op[t] = "push" THEN w.old ELSE elem'[t]]
<1> USE DEF call, Goto
<1>0. /\ TypeOK /\ TypeOK' /\ HistoryTypeOK /\ NumbersKnown(t) /\ LiveKnown
      /\ log' = log /\ number' = number /\ HeldIsLive
      /\ DAddrs \cap WAddrs = {} /\ Null \notin DAddrs
  BY NoSwap, Held, SealedAssumption DEF MakeNext, BucketInv, HistoryInv, Addrs
<1>1. /\ pc' = [pc EXCEPT ![t] = "swap_descriptor"]
      /\ UNCHANGED <<buffers, cells, descriptor, dropped, call, cur, wd, target, ret, allocs>>
  BY DEF MakeNext
<1>2. PICK d \in DAddrs, a \in WAddrs :
        /\ heap[d] = "free" /\ heap[a] = "free"
        /\ heap' = [heap EXCEPT ![d] = "used", ![a] = "used"]
        /\ descs' = [descs EXCEPT ![d] = [size |-> size, pending |-> a]]
        /\ writes' = [writes EXCEPT ![a] = w] /\ next' = [next EXCEPT ![t] = d]
  BY DEF MakeNext, FreeAmong
<1>3. \A u \in Threads \ {t} : Same(u)
  BY <1>0, <1>1, <1>2 DEF Same, TypeOK, CallTypeOK, WorkTypeOK
<1>4. /\ pc'[t] = "swap_descriptor" /\ next'[t] = d /\ next[t] = Null /\ wd[t] = Null /\ target[t] = Null
      /\ cur[t] # Null /\ cur[t] \in DAddrs /\ Live(cur[t])
  BY <1>0, <1>1, <1>2 DEF HeldIsLive, MemoryInv, Scopes, HasDesc, Writing, TypeOK, CallTypeOK,
     WorkTypeOK
<1>5. /\ \A e \in DAddrs : e # d => heap'[e] = heap[e] /\ descs'[e] = descs[e]
      /\ descs'[d].size = size /\ descs'[d].pending = a /\ writes'[a] = w
  BY <1>0, <1>2 DEF TypeOK, VectorTypeOK, Addrs
<1>6. \A e \in DAddrs : /\ Live(e)' <=> Live(e)
                        /\ Live(e) => e # d
  <2>1. ~Live(d) /\ ~Live(d)'  BY <1>2, <1>4 DEF Live
  <2>2. ASSUME NEW e \in DAddrs, e # d  PROVE Live(e)' <=> Live(e)
    <3>1. \A u \in Threads : next'[u] = e <=> next[u] = e
      BY <1>0, <1>3, <1>4, <2>2 DEF Same
    <3> QED  BY <1>5, <2>2, <3>1 DEF Live
  <2> QED  BY <2>1, <2>2
<1>7. BoxesStay  BY <1>0, <1>2 DEF BoxesStay, TypeOK, VectorTypeOK
<1>8. \A e \in DAddrs : heap[e] # "free" => descs'[e] = descs[e] /\ WriteAt(e)' = WriteAt(e)
  BY <1>0, <1>2, <1>5, <1>7 DEF BoxesStay, HeldIsLive, WriteAt
<1>9. Keeps  BY <1>0, <1>1, <1>6, <1>8 DEF Keeps, Live
<1>10. OthersIdle(t)  BY <1>0, <1>3, <1>8 DEF OthersIdle, HeldIsLive
<1>11. curnum'[t] = curnum[t] /\ wdnum'[t] = 1 /\ wdnum[t] = 1
  <2>1. curnum'[t] = curnum[t]  BY <1>4 DEF KeepHistory
  <2>2. wdnum'[t] = 1  BY <1>1, <1>4 DEF KeepHistory
  <2>3. wdnum[t] = 1  BY <1>0, <1>4 DEF NumbersKnown
  <2> QED  BY <2>1, <2>2, <2>3
<1>12. WriteAt(d)' = w  BY <1>5 DEF WriteAt
<1>13. WriteAt(cur[t])' = WriteAt(cur[t]) /\ descs'[cur[t]] = descs[cur[t]]
  BY <1>1, <1>4, <1>8 DEF Live, WriteAt
<1>14. MadeNext(t)'
  BY <1>1, <1>4, <1>5, <1>12, <1>13 DEF MadeNext
<1>15. NumbersKnown(t)'
  BY <1>0, <1>1, <1>4, <1>11, <1>13, <1>14 DEF NumbersKnown
<1>16. HistoryInv' /\ OthersMapped(t)
  BY <1>7, <1>9, <1>10, <1>15, StepOfHistory DEF Completing
<1>17. LeakyDescs' = LeakyDescs  BY <1>6, <1>8, <1>9, DescsKeep DEF Live
<1>18. LeakyTarget'[t] = LeakyTarget[t]  BY <1>1, <1>4 DEF LeakyTarget
<1>19. LeakyElem'[t] = IF op[t] = "push" THEN w.old ELSE elem'[t]
  BY <1>0, <1>1, <1>4, <1>12 DEF LeakyElem, ElemOf, Completing
<1>20. UNCHANGED LeakyBuffers  BY <1>1 DEF LeakyBuffers
<1> QED  BY <1>0, <1>11, <1>16, <1>17, <1>18, <1>19, <1>20, OneMapped

LEMMA ReadOldHistory ==
  ASSUME MemoryInv, MemoryInv', BucketInv, BucketInv', HistoryInv, InTime, KeepHistory,
         NEW t \in Threads, ReadOld(t)
  PROVE  HistoryInv' /\ Leaky!ReadOld(t)
<1> DEFINE size == descs[cur[t]].size
           w    == [some |-> TRUE, new |-> arg[t], old |-> cells[size], location |-> size]
<1>1. /\ pc[t] = "read_elem" /\ op[t] = "push" /\ elem' = elem /\ MakeNext(t, size + 1, w)
  BY DEF ReadOld
<1>2. cur[t] # Null  BY <1>1 DEF MemoryInv, Scopes, HasDesc
<1>3. w \in WriteDescriptor
  <2>1. Backed(size)  BY <1>1 DEF BucketInv, BucketKnown, LoopKnown
  <2>2. size \in Nat /\ cells[size] \in Nat /\ arg[t] \in Nat
    BY <1>2, <2>1 DEF BucketInv, TypeOK, VectorTypeOK, CallTypeOK, WorkTypeOK, Descriptor, Backed
  <2> QED  BY <2>2 DEF WriteDescriptor
<1>4. w.old = cells[size] /\ w = [some |-> TRUE, new |-> arg[t], old |-> w.old, location |-> size]
  OBVIOUS
<1> HIDE DEF w
<1>5. /\ HistoryInv' /\ OthersMapped(t)
      /\ UNCHANGED <<log, LeakyDescs, LeakyBuffers, curnum, wdnum, LeakyTarget>>
      /\ LeakyElem' = [LeakyElem EXCEPT ![t] = w.old]
  <2>1. LeakyElem' = [LeakyElem EXCEPT ![t] = IF op[t] = "push" THEN w.old ELSE elem'[t]]
        /\ HistoryInv' /\ OthersMapped(t)
        /\ UNCHANGED <<log, LeakyDescs, LeakyBuffers, curnum, wdnum, LeakyTarget>>
    BY <1>1, <1>3, <1>4, MakeNextHistory
  <2> QED  BY <1>1, <2>1
<1>6. LeakyDescs[curnum[t]].size = size  BY <1>2, CurSeen
<1> HIDE DEF size
<1> QED
  BY <1>1, <1>4, <1>5, <1>6
     DEF MakeNext, Goto, call, Leaky!ReadOld, Leaky!Goto, Leaky!shared, Leaky!call

LEMMA ReadLastHistory ==
  ASSUME MemoryInv, MemoryInv', BucketInv, BucketInv', HistoryInv, InTime, KeepHistory,
         NEW t \in Threads, ReadLast(t)
  PROVE  HistoryInv' /\ Leaky!ReadLast(t)
<1> DEFINE size == descs[cur[t]].size
<1>1. /\ pc[t] = "read_elem" /\ op[t] = "pop" /\ size # 0
      /\ elem' = [elem EXCEPT ![t] = cells[size - 1]] /\ MakeNext(t, size - 1, NoWrite)
  BY DEF ReadLast
<1>2. cur[t] # Null  BY <1>1 DEF MemoryInv, Scopes, HasDesc
<1>3. NoWrite \in WriteDescriptor  BY DEF NoWrite, WriteDescriptor, Zero
<1>4. elem'[t] = cells[size - 1] /\ \A u \in Threads \ {t} : elem'[u] = elem[u]
  BY <1>1 DEF BucketInv, TypeOK, WorkTypeOK
<1>5. /\ HistoryInv' /\ OthersMapped(t)
      /\ UNCHANGED <<log, LeakyDescs, LeakyBuffers, curnum, wdnum, LeakyTarget>>
      /\ LeakyElem' = [LeakyElem EXCEPT ![t] = elem'[t]]
  <2>1. LeakyElem' = [LeakyElem EXCEPT ![t] = IF op[t] = "push" THEN NoWrite.old ELSE elem'[t]]
        /\ HistoryInv' /\ OthersMapped(t)
        /\ UNCHANGED <<log, LeakyDescs, LeakyBuffers, curnum, wdnum, LeakyTarget>>
    BY <1>1, <1>3, <1>4, MakeNextHistory
  <2> QED  BY <1>1, <2>1
<1>6. LeakyDescs[curnum[t]].size = size  BY <1>2, CurSeen
<1> HIDE DEF size
<1> QED
  BY <1>1, <1>4, <1>5, <1>6
     DEF MakeNext, Goto, call, Leaky!ReadLast, Leaky!Goto, Leaky!shared, Leaky!call

\* The swap failed: the next Descriptor is freed.
LEMMA RetrySwapHistory ==
  ASSUME MemoryInv, MemoryInv', BucketInv, BucketInv', HistoryInv, InTime, KeepHistory,
         NEW t \in Threads, RetrySwap(t)
  PROVE  HistoryInv' /\ Leaky!RetrySwap(t)
<1> USE DEF call, Goto
<1> DEFINE d == next[t]
<1>0. /\ TypeOK /\ TypeOK' /\ HistoryTypeOK /\ log' = log /\ number' = number /\ HeldIsLive
      /\ DAddrs \cap WAddrs = {} /\ Null \notin DAddrs
  BY NoSwap, Held, SealedAssumption DEF RetrySwap, BucketInv, HistoryInv, Addrs
<1>1. /\ pc[t] = "swap_descriptor" /\ pc' = [pc EXCEPT ![t] = "load_descriptor"]
      /\ FreeDescriptor(d) /\ EndOfScope(t) /\ Goto(t, "load_descriptor")
      /\ UNCHANGED <<buffers, cells, descriptor, writes, dropped, call>>
  BY DEF RetrySwap
<1>2. d \in DAddrs /\ d # Null /\ heap[d] = "used" /\ descs[d].pending \in WAddrs
  BY <1>0, <1>1 DEF MemoryInv, Scopes, HeldIsLive
<1>3. \A u \in Threads \ {t} : Same(u)
  BY <1>0, <1>1 DEF EndOfScope, Same, TypeOK, CallTypeOK, WorkTypeOK
<1>4. NumbersKnown(t)' /\ next'[t] = Null  BY <1>0, <1>1, EndKnown
<1>5. /\ \A e \in DAddrs : e # d => heap'[e] = heap[e] /\ descs'[e] = descs[e]
      /\ heap'[d] = "free"
  BY <1>0, <1>1, <1>2 DEF FreeDescriptor, FreedWith, TypeOK, VectorTypeOK, Addrs
<1>6. ASSUME NEW e \in DAddrs
      PROVE  /\ Live(e)' <=> Live(e)
             /\ Live(e) => descs'[e] = descs[e] /\ WriteAt(e)' = WriteAt(e)
  <2>1. CASE e = d  BY <1>5, <2>1 DEF Live
  <2>2. CASE e # d
    <3>1. \A u \in Threads : next'[u] = e <=> next[u] = e
      BY <1>0, <1>3, <1>4, <2>2 DEF Same
    <3> QED  BY <1>1, <1>5, <2>2, <3>1 DEF Live, WriteAt
  <2> QED  BY <2>1, <2>2
<1>7. BoxesStay  BY <1>1 DEF BoxesStay
<1>8. Keeps  BY <1>0, <1>1, <1>6 DEF Keeps
<1>9. OthersIdle(t)
  <2> SUFFICES ASSUME NEW u \in Threads \ {t}, next[u] # Null  PROVE descs'[next[u]] = descs[next[u]]
    BY <1>3 DEF OthersIdle
  <2>1. next[u] \in DAddrs  BY <1>0 DEF HeldIsLive
  <2>2. next[u] # d
    BY <1>2 DEF MemoryInv, SingleOwner, DescriptorsOwned, Owns
  <2> QED  BY <1>5, <2>1, <2>2
<1>10. HistoryInv' /\ OthersMapped(t)
  BY <1>1, <1>4, <1>7, <1>8, <1>9, StepOfHistory DEF Completing
<1>11. LeakyDescs' = LeakyDescs  BY <1>6, <1>8, DescsKeep
<1>12. Leaky!EndOfScope(t)  BY <1>0, <1>1, <1>10, EndMapped
<1>13. UNCHANGED LeakyBuffers  BY <1>1 DEF LeakyBuffers
<1> QED
  BY <1>0, <1>1, <1>10, <1>11, <1>12, <1>13
     DEF Leaky!RetrySwap, Leaky!Goto, Leaky!shared, Leaky!call

\* complete_write has executed the write and clears it.
LEMMA ClearPendingHistory ==
  ASSUME MemoryInv, MemoryInv', BucketInv, BucketInv', HistoryInv, InTime, KeepHistory,
         NEW t \in Threads, ClearPending(t)
  PROVE  HistoryInv' /\ Leaky!ClearPending(t)
<1> USE DEF Goto
<1>0. /\ TypeOK /\ TypeOK' /\ HistoryTypeOK /\ log' = log /\ number' = number /\ HeldIsLive
      /\ LiveKnown /\ PendingOwned /\ NumbersKnown(t)
      /\ DAddrs \cap WAddrs = {} /\ Null \notin DAddrs
  BY NoSwap, Held, SealedAssumption DEF ClearPending, BucketInv, HistoryInv, Addrs
<1>d. PICK d : d = target[t]  OBVIOUS
<1>n. PICK n : n = number[d]  OBVIOUS
<1>1. /\ pc[t] = "clear_pending"
      /\ descs' = [descs EXCEPT ![d].pending = fresh[t]]
      /\ heap' = [a \in Addrs |->
           IF a = SwappedOut(t) \/ (Own(t) /\ a = cur[t]) THEN "retired" ELSE heap[a]]
      /\ UNCHANGED <<buffers, cells, descriptor, writes, dropped>>
  BY <1>d DEF ClearPending, Return
<1>2. \/ Own(t) /\ Return(t, None)
      \/ /\ ~Own(t) /\ pc' = [pc EXCEPT ![t] = ret[t]]
         /\ wd' = [wd EXCEPT ![t] = Null] /\ target' = [target EXCEPT ![t] = Null]
         /\ ret' = [ret EXCEPT ![t] = "idle"]
         /\ UNCHANGED <<call, cur, elem, next, allocs>>
  BY DEF ClearPending
<1>3. /\ d \in DAddrs /\ Live(d) /\ cur[t] # Null /\ cur[t] \in DAddrs /\ Live(cur[t])
      /\ wd[t] # Null /\ next[t] = Null /\ fresh[t] # Null /\ ~dropped /\ descriptor \in DAddrs
      /\ Live(descriptor)
  BY <1>0, <1>1, <1>d, InACall
     DEF MemoryInv, MemoryTypeOK, Scopes, HasDesc, Writing, HeldIsLive, Resting
<1>4. \A u \in Threads \ {t} : Same(u)
  BY <1>0, <1>2 DEF Return, EndOfScope, call, Same, TypeOK, CallTypeOK, WorkTypeOK
<1>5. /\ \A e \in DAddrs : /\ heap'[e] # "free" <=> heap[e] # "free"
                           /\ descs'[e].size = descs[e].size
                           /\ e # d => descs'[e] = descs[e]
      /\ descs'[d].pending = fresh[t]
  <2>1. \A e \in DAddrs : heap'[e] # "free" <=> heap[e] # "free"
    <3>1. \A e \in DAddrs : heap'[e] = IF e = SwappedOut(t) \/ (Own(t) /\ e = cur[t])
                                       THEN "retired" ELSE heap[e]
      BY <1>1 DEF Addrs
    <3>2. \A e \in DAddrs : e # SwappedOut(t)  BY <1>0, <1>d, <1>3 DEF SwappedOut, HeldIsLive, Live
    <3> QED  BY <1>3, <3>1, <3>2 DEF Live
  <2> QED  BY <1>0, <1>1, <1>3, <2>1 DEF TypeOK, VectorTypeOK, Descriptor
<1>6. next' = next
  BY <1>0, <1>2, <1>3 DEF Return, EndOfScope, TypeOK, WorkTypeOK
<1>7. \A e \in DAddrs : /\ Live(e)' <=> Live(e)
                        /\ e # d => WriteAt(e)' = WriteAt(e)
  BY <1>1, <1>5, <1>6 DEF Live, WriteAt
<1>8. ~WriteAt(d)'.some
  <2>1. ~writes[fresh[t]].some  BY <1>3 DEF BucketInv, BucketKnown, LoopKnown
  <2> QED  BY <1>1, <1>3, <1>5, <2>1 DEF WriteAt
\* The current Descriptor is the target if the number of the write is its own.
<1>9. wdnum[t] = Len(log) => d = descriptor
  <2>1. wdnum[t] <= n  BY <1>0, <1>1, <1>d, <1>n DEF NumbersKnown
  <2>2. number[descriptor] = Len(log) /\ n \in 1 .. Len(log)  BY <1>0, <1>n, <1>3, NumbersType DEF LiveKnown
  <2>3. wdnum[t] = Len(log) => n = Len(log)  BY <1>0, <2>1, <2>2, NumbersType
  <2> QED  BY <1>0, <1>n, <1>3, <2>2, <2>3 DEF LiveKnown
<1>10. Keeps  BY <1>0, <1>1, <1>5, <1>7, <1>8 DEF Keeps
<1>11. BoxesStay  BY <1>1 DEF BoxesStay
<1>12. OthersIdle(t)
  <2> SUFFICES ASSUME NEW u \in Threads \ {t}, next[u] # Null  PROVE descs'[next[u]] = descs[next[u]]
    BY <1>4 DEF OthersIdle
  <2>1. next[u] \in DAddrs /\ next[u] # d  BY <1>0, <1>d DEF HeldIsLive, MemoryInv, Private
  <2> QED  BY <1>5, <2>1
<1>13. Completing(t) => (wdnum[t] = Len(log) => ~WriteAt(descriptor)'.some)
  BY <1>1, <1>8, <1>9
<1>14. ASSUME NumbersKnown(t)'  PROVE HistoryInv' /\ OthersMapped(t)
  BY <1>10, <1>11, <1>12, <1>13, <1>14, StepOfHistory
<1>15. LeakyDescs' = [LeakyDescs EXCEPT ![n].pending = FALSE]
  <2>1. n \in 1 .. Len(log)  BY <1>0, <1>n, <1>3, NumbersType
  <2>2. ~Pending(n)'
    <3>1. \A e \in DAddrs : Live(e) /\ number[e] = n => e = d  BY <1>0, <1>n, <1>3 DEF LiveKnown
    <3> QED  BY <1>0, <1>7, <1>8, <3>1 DEF Pending
  <2>3. ASSUME NEW m \in 1 .. Len(log), m # n  PROVE Pending(m)' <=> Pending(m)
    BY <1>0, <1>n, <1>7, <2>3 DEF Pending
  <2>4. \A m \in 1 .. Len(log) :
          LeakyDescs'[m] = IF m = n THEN [LeakyDescs[m] EXCEPT !.pending = FALSE] ELSE LeakyDescs[m]
    <3> TAKE m \in 1 .. Len(log)
    <3>1. /\ LeakyDescs[m] = [size |-> log[m].size, pending |-> Pending(m),
              new |-> log[m].write.new, old |-> log[m].write.old, location |-> log[m].write.location]
          /\ LeakyDescs'[m] = [size |-> log[m].size, pending |-> Pending(m)',
              new |-> log[m].write.new, old |-> log[m].write.old, location |-> log[m].write.location]
      BY <1>0 DEF LeakyDescs
    <3>2. CASE m = n
      <4> DEFINE cleared == [size |-> log[m].size, pending |-> FALSE, new |-> log[m].write.new,
                             old |-> log[m].write.old, location |-> log[m].write.location]
      <4>1. Pending(m)' = FALSE  BY <2>2, <3>2 DEF Pending
      <4>2. LeakyDescs'[m] = cleared  BY <3>1, <4>1
      <4>3. [LeakyDescs[m] EXCEPT !.pending = FALSE] = cleared
        <5>1. \A p, q : [[size |-> log[m].size, pending |-> p, new |-> log[m].write.new,
                          old |-> log[m].write.old, location |-> log[m].write.location]
                         EXCEPT !.pending = q] =
                [size |-> log[m].size, pending |-> q, new |-> log[m].write.new,
                 old |-> log[m].write.old, location |-> log[m].write.location]
          OBVIOUS
        <5>2. \A p : [[size |-> log[m].size, pending |-> p, new |-> log[m].write.new,
                       old |-> log[m].write.old, location |-> log[m].write.location]
                      EXCEPT !.pending = FALSE] = cleared
          BY <5>1, Zenon
        <5> HIDE DEF cleared
        <5> QED  BY <3>1, <5>2, Zenon
      <4> QED  BY <3>2, <4>2, <4>3
    <3>3. CASE m # n
      <4>1. Pending(m)' = Pending(m)  BY <2>3, <3>3 DEF Pending
      <4> QED  BY <3>1, <3>3, <4>1
    <3> QED  BY <3>2, <3>3
  <2>5. /\ LeakyDescs = [m \in 1 .. Len(log) |-> LeakyDescs[m]]
        /\ LeakyDescs' = [m \in 1 .. Len(log) |-> LeakyDescs'[m]]
    BY <1>0 DEF LeakyDescs
  <2> QED  BY <2>1, <2>4, <2>5
<1>16. LeakyTarget[t] = n  BY <1>0, <1>3, <1>d, <1>n DEF LeakyTarget
<1>17. UNCHANGED LeakyBuffers  BY <1>1 DEF LeakyBuffers
<1>18. CASE Own(t) /\ Return(t, None)
  <2>1. EndOfScope(t) /\ Goto(t, "idle")  BY <1>18 DEF Return
  <2>2. NumbersKnown(t)'  BY <1>0, <2>1, EndKnown
  <2>3. HistoryInv' /\ OthersMapped(t)  BY <1>14, <2>2
  <2>4. Leaky!EndOfScope(t)  BY <1>0, <2>1, <2>3, EndMapped
  <2> QED
    BY <1>0, <1>1, <1>15, <1>16, <1>17, <1>18, <2>3, <2>4
       DEF Own, Return, Leaky!ClearPending, Leaky!Return, Leaky!Goto
<1>19. CASE /\ ~Own(t) /\ pc' = [pc EXCEPT ![t] = ret[t]]
            /\ wd' = [wd EXCEPT ![t] = Null] /\ target' = [target EXCEPT ![t] = Null]
            /\ ret' = [ret EXCEPT ![t] = "idle"]
            /\ UNCHANGED <<call, cur, elem, next, allocs>>
  <2>1. /\ pc'[t] = ret[t] /\ ret[t] \in {"check_bucket", "read_elem"}
        /\ wd'[t] = Null /\ target'[t] = Null /\ ret'[t] = "idle"
    BY <1>0, <1>19 DEF Own, TypeOK, CallTypeOK, WorkTypeOK
  <2>2. curnum'[t] = curnum[t] /\ wdnum'[t] = 1
    <3>1. curnum'[t] = curnum[t]  BY <1>1, <2>1 DEF KeepHistory
    <3>2. wdnum'[t] = 1  BY <2>1 DEF KeepHistory
    <3> QED  BY <3>1, <3>2
  <2>3. ~WriteAt(cur[t])'.some
    <3> SUFFICES ASSUME cur[t] # d, WriteAt(cur[t]).some  PROVE FALSE
      BY <1>3, <1>7, <1>8, <1>19 DEF WriteAt
    <3>1. cur[t] = descriptor  BY <1>0, <1>3 DEF LiveKnown
    <3>2. wdnum[t] = curnum[t] /\ curnum[t] = number[cur[t]]  BY <1>0, <1>3, <1>19 DEF NumbersKnown
    <3>3. wdnum[t] = Len(log)  BY <1>0, <1>3, <3>1, <3>2 DEF LiveKnown
    <3> QED  BY <1>9, <3>1, <3>3
  <2>4. NumbersKnown(t)'
    BY <1>0, <1>3, <1>6, <1>19, <2>1, <2>2, <2>3 DEF NumbersKnown
  <2>5. HistoryInv' /\ OthersMapped(t)  BY <1>14, <2>4
  <2>6. LeakyTarget'[t] = 1  BY <2>1 DEF LeakyTarget
  <2>7. LeakyElem'[t] = LeakyElem[t]
    BY <1>3, <1>6, <1>19, <2>1 DEF LeakyElem, ElemOf, Completing
  <2>8. /\ UNCHANGED <<curnum, LeakyElem>> /\ wdnum' = [wdnum EXCEPT ![t] = 1]
        /\ LeakyTarget' = [LeakyTarget EXCEPT ![t] = 1]
    BY <2>2, <2>5, <2>6, <2>7, OneMapped
  <2> QED
    BY <1>0, <1>1, <1>15, <1>16, <1>17, <1>19, <2>5, <2>8
       DEF Own, call, Leaky!ClearPending, Leaky!Goto, Leaky!call
<1> QED  BY <1>2, <1>18, <1>19

-----------------------------------------------------------------------------
(* The swap: a Descriptor gets its number *)

\* What the compare_exchange does to the history, whatever becomes of the
\* Descriptor that it replaces.
Swap(t) ==
  /\ SwapDescriptor(t) /\ UNCHANGED <<descs, dropped>>
  /\ \A e \in DAddrs : heap'[e] # "free" <=> heap[e] # "free"
  /\ \A w \in WAddrs : heap'[w] = heap[w]
  /\ next'[t] = Null /\ \A u \in Threads \ {t} : Same(u)

LEMMA SwapLog ==
  ASSUME MemoryInv, BucketInv, HistoryInv, KeepHistory, NEW t \in Threads, Swap(t),
         NEW d, d = next[t]
  PROVE  /\ d \in DAddrs /\ d # descriptor /\ descriptor' = d /\ ~dropped /\ d # Null
         /\ descs[d].pending \in WAddrs /\ heap[descs[d].pending] = "used"
         /\ log' = Append(log, [size |-> descs[d].size, write |-> WriteAt(d)])
         /\ Len(log') = Len(log) + 1
         /\ log'[Len(log) + 1] = [size |-> descs[d].size, write |-> WriteAt(d)]
         /\ \A n \in 1 .. Len(log) : log'[n] = log[n]
         /\ number' = [number EXCEPT ![d] = Len(log) + 1] /\ number'[d] = Len(log) + 1
         /\ \A e \in DAddrs : e # d => number'[e] = number[e]
         /\ \A e \in DAddrs : Live(e)' <=> Live(e) \/ e = d
         /\ ~Live(d) /\ \A e \in DAddrs : WriteAt(e)' = WriteAt(e)
         /\ cur[t] = descriptor /\ cur[t] \in DAddrs /\ Live(cur[t])
         /\ HistoryTypeOK'
<1>1. /\ pc[t] = "swap_descriptor" /\ descriptor = cur[t] /\ descriptor' = d
      /\ UNCHANGED <<descs, writes, dropped>>
  BY DEF Swap, SwapDescriptor
<1>2. HeldIsLive /\ HistoryTypeOK /\ TypeOK /\ \A u \in Threads : next[u] # descriptor
  BY <1>1, Held, InACall DEF HistoryInv, BucketInv, Resting
<1>3. d # Null /\ cur[t] # Null /\ ~dropped
  BY <1>1, InACall DEF MemoryInv, Scopes, HasDesc, Resting
<1>4. /\ d \in DAddrs /\ d # descriptor /\ heap[d] = "used" /\ cur[t] \in DAddrs /\ Live(cur[t])
      /\ descs[d].pending \in WAddrs /\ heap[descs[d].pending] = "used"
  BY <1>1, <1>2, <1>3 DEF HeldIsLive
<1>5. Swapped  BY <1>1, <1>4 DEF Swapped
<1> DEFINE entry == [size |-> descs[d].size, write |-> WriteAt(d)]
<1>6. log' = Append(log, entry)  BY <1>1, <1>5 DEF KeepHistory, WriteAt
<1>7. number' = [number EXCEPT ![d] = Len(log) + 1]  BY <1>1, <1>5 DEF KeepHistory
<1>8. entry \in [size : Nat, write : WriteDescriptor]
  BY <1>2, <1>4 DEF TypeOK, VectorTypeOK, Descriptor, WriteAt
<1>9. log \in Seq([size : Nat, write : WriteDescriptor]) /\ Len(log) \in Nat \ {0}
  BY <1>2, NumbersType DEF HistoryTypeOK
<1> HIDE DEF entry
<1>10. /\ log' \in Seq([size : Nat, write : WriteDescriptor]) /\ Len(log') = Len(log) + 1
       /\ log'[Len(log) + 1] = entry /\ \A n \in 1 .. Len(log) : log'[n] = log[n]
  BY <1>6, <1>8, <1>9
<1>11. /\ number'[d] = Len(log) + 1
       /\ \A e \in DAddrs : e # d => number'[e] = number[e]
       /\ number' \in [DAddrs -> 1 .. Len(log')]
  BY <1>2, <1>4, <1>7, <1>9, <1>10 DEF HistoryTypeOK
<1>12. \A e \in DAddrs : WriteAt(e)' = WriteAt(e)  BY <1>1 DEF WriteAt
<1>13. ~Live(d)  BY DEF Live
<1>14. ASSUME NEW e \in DAddrs  PROVE Live(e)' <=> Live(e) \/ e = d
  <2>1. CASE e = d
    <3>1. \A u \in Threads : u # t => next[u] # d
      BY <1>4 DEF MemoryInv, SingleOwner, DescriptorsOwned, Owns
    <3>2. \A u \in Threads : next'[u] # d
      BY <1>3, <3>1 DEF Swap, Same
    <3>3. heap'[d] # "free"  BY <1>4 DEF Swap
    <3> QED  BY <2>1, <3>2, <3>3 DEF Live
  <2>2. CASE e # d
    <3>0. Null \notin DAddrs  BY SealedAssumption DEF Addrs
    <3>1. \A u \in Threads : next'[u] = e <=> next[u] = e
      BY <2>2, <3>0 DEF Swap, Same
    <3> QED  BY <2>2, <3>1 DEF Live, Swap
  <2> QED  BY <2>1, <2>2
<1>15. curnum' \in [Threads -> 1 .. Len(log')]
  <2>1. curnum' = [u \in Threads |->
          IF pc'[u] \in {"idle", "panicked", "load_descriptor"} THEN 1
          ELSE IF pc[u] = "load_descriptor" THEN Len(log) ELSE curnum[u]]
    BY DEF KeepHistory
  <2> QED  BY <1>2, <1>9, <1>10, <2>1, NumbersType
<1>16. wdnum' \in [Threads -> 1 .. Len(log')]
  <2>1. wdnum' = [u \in Threads |->
          IF wd'[u] = Null THEN 1
          ELSE IF wd[u] # Null THEN wdnum[u] ELSE Len(log) + 1]
    BY <1>5 DEF KeepHistory
  <2> QED  BY <1>2, <1>9, <1>10, <2>1, NumbersType
<1>17. HistoryTypeOK'  BY <1>9, <1>10, <1>11, <1>15, <1>16 DEF HistoryTypeOK
<1> QED
  BY <1>1, <1>3, <1>4, <1>6, <1>7, <1>10, <1>11, <1>12, <1>13, <1>14, <1>17 DEF entry

LEMMA SwapHistory ==
  ASSUME MemoryInv, MemoryInv', BucketInv, HistoryInv, KeepHistory, NEW t \in Threads, Swap(t),
         NumbersKnown(t)',
         WriteAt(next[t]).some => Completing(t)' /\ wdnum'[t] = Len(log) + 1
  PROVE  HistoryInv' /\ OthersMapped(t)
<1>d. PICK d : d = next[t]  OBVIOUS
<1>0. /\ HistoryTypeOK /\ LiveKnown /\ \A u \in Threads : NumbersKnown(u)
      /\ HeldIsLive /\ pc[t] = "swap_descriptor" /\ writes' = writes /\ descs' = descs /\ dropped' = dropped
      /\ \A u \in Threads \ {t} : Same(u)
  BY Held DEF HistoryInv, Swap, SwapDescriptor
<1>1. /\ d \in DAddrs /\ d # descriptor /\ descriptor' = d
      /\ Len(log') = Len(log) + 1
      /\ log'[Len(log) + 1] = [size |-> descs[d].size, write |-> WriteAt(d)]
      /\ \A n \in 1 .. Len(log) : log'[n] = log[n]
      /\ number'[d] = Len(log) + 1
      /\ \A e \in DAddrs : e # d => number'[e] = number[e]
      /\ \A e \in DAddrs : Live(e)' <=> Live(e) \/ e = d
      /\ ~Live(d) /\ \A e \in DAddrs : WriteAt(e)' = WriteAt(e)
      /\ cur[t] = descriptor /\ HistoryTypeOK'
  BY <1>d, SwapLog
<1>n. Len(log) \in Nat /\ \A e \in DAddrs : number[e] \in 1 .. Len(log)  BY <1>0, NumbersType
<1>2. ~WriteAt(descriptor).some
  BY <1>0, <1>1 DEF NumbersKnown
<1>3. LiveKnown'
  <2>1. ASSUME NEW e \in DAddrs, Live(e)'
        PROVE  /\ descs'[e].size = log'[number'[e]].size
               /\ WriteAt(e)'.some => WriteAt(e)' = log'[number'[e]].write /\ e = descriptor'
               /\ \A f \in DAddrs : Live(f)' /\ number'[f] = number'[e] => f = e
    <3>1. CASE e = d
      <4>1. \A f \in DAddrs : f # d => number'[f] # number'[d]
        BY <1>1, <1>n
      <4> QED  BY <1>0, <1>1, <3>1, <4>1
    <3>2. CASE e # d
      <4>1. Live(e) /\ number'[e] = number[e] /\ log'[number[e]] = log[number[e]]
        BY <1>1, <1>n, <2>1, <3>2
      <4>2. ~WriteAt(e)'.some  BY <1>0, <1>1, <1>2, <4>1 DEF LiveKnown
      <4>3. descs'[e].size = log[number[e]].size  BY <1>0, <4>1 DEF LiveKnown
      <4>4. \A f \in DAddrs : Live(f)' /\ number'[f] = number[e] => f = e
        BY <1>0, <1>1, <1>n, <4>1 DEF LiveKnown
      <4> QED  BY <4>1, <4>2, <4>3, <4>4
    <3> QED  BY <3>1, <3>2
  <2> QED  BY <1>1, <2>1 DEF LiveKnown
<1>4. PendingOwned'
  BY <1>1, <1>d DEF PendingOwned
<1>5. BoxesStay  BY <1>0 DEF BoxesStay
<1>6. ASSUME NEW u \in Threads \ {t}
      PROVE  /\ curnum'[u] = curnum[u] /\ wdnum'[u] = wdnum[u]
             /\ LeakyTarget'[u] = LeakyTarget[u] /\ LeakyElem'[u] = LeakyElem[u]
             /\ cur[u] # d /\ target[u] # d
  <2>1. cur[u] # d /\ target[u] # d
    BY <1>d, <1>1, SealedAssumption DEF MemoryInv, Private, Addrs
  <2>2. target[u] # Null => number'[target[u]] = number[target[u]]
    BY <1>0, <1>1, <2>1 DEF HeldIsLive
  <2> QED  BY <1>0, <1>1, <1>5, <2>1, <2>2, SameMaps
<1>7. ASSUME NEW u \in Threads \ {t}  PROVE NumbersKnown(u)'
  <2>1. /\ pc'[u] = pc[u] /\ op'[u] = op[u] /\ arg'[u] = arg[u] /\ cur'[u] = cur[u] /\ wd'[u] = wd[u]
        /\ target'[u] = target[u] /\ ret'[u] = ret[u] /\ next'[u] = next[u]
    BY <1>0 DEF Same
  <2>2. NumbersKnown(u) /\ wdnum[u] \in 1 .. Len(log)  BY <1>0, NumbersType
  <2>3. log'[wdnum[u]] = log[wdnum[u]]  BY <1>1, <2>2
  <2>4. /\ cur[u] # Null => number'[cur[u]] = number[cur[u]]
        /\ target[u] # Null => number'[target[u]] = number[target[u]]
    BY <1>0, <1>1, <1>6 DEF HeldIsLive
  <2>5. pc[u] = "write_cell" => heap'[wd[u]] = heap[wd[u]]
    <3>1. pc[u] = "write_cell" => wd[u] \in WAddrs
      BY DEF MemoryInv, MemoryTypeOK, Scopes, Writing
    <3> QED  BY <3>1 DEF Swap
  <2>6. pc[u] = "clear_pending" => target[u] # Null  BY DEF MemoryInv, Scopes
  <2>7. next[u] # Null => MadeNext(u)'
    BY <1>0, <2>1, <2>2 DEF NumbersKnown, MadeNext, WriteAt
  <2>8. WriteAt(cur[u])' = WriteAt(cur[u])  BY <1>0, <2>1 DEF WriteAt
  <2> QED
    BY <1>0, <1>6, <2>1, <2>2, <2>3, <2>4, <2>5, <2>6, <2>7, <2>8 DEF NumbersKnown, Own
<1>8. \A u \in Threads : NumbersKnown(u)'  BY <1>7
<1> QED  BY <1>1, <1>3, <1>4, <1>6, <1>8 DEF HistoryInv, OthersMapped

\* Leaky sees the boxes of the next Descriptor appear as the last one's fields.
LEMMA SwapDescs ==
  ASSUME MemoryInv, BucketInv, HistoryInv, KeepHistory, NEW t \in Threads, Swap(t),
         NEW d, d = next[t], NEW new,
         new = [size |-> descs[d].size, pending |-> WriteAt(d).some, new |-> WriteAt(d).new,
                old |-> WriteAt(d).old, location |-> WriteAt(d).location]
  PROVE  LeakyDescs' = [n \in 1 .. Len(log) + 1 |->
                          IF n = Len(log) + 1 THEN new ELSE LeakyDescs[n]]
<1> DEFINE N == Len(log) + 1
<1>1. /\ d \in DAddrs /\ Len(log') = N
      /\ log'[N] = [size |-> descs[d].size, write |-> WriteAt(d)]
      /\ \A n \in 1 .. Len(log) : log'[n] = log[n]
      /\ number'[d] = N
      /\ \A e \in DAddrs : e # d => number'[e] = number[e]
      /\ \A e \in DAddrs : Live(e)' <=> Live(e) \/ e = d
      /\ ~Live(d) /\ \A e \in DAddrs : WriteAt(e)' = WriteAt(e)
  BY SwapLog
<1>2. Len(log) \in Nat /\ \A e \in DAddrs : number[e] \in 1 .. Len(log)
  BY NumbersType DEF HistoryInv
<1>3. N \notin 1 .. Len(log) /\ 1 .. N = 1 .. Len(log) \cup {N}  BY <1>2
<1>n. PICK m : m = N  OBVIOUS
<1> HIDE DEF N
<1>4. Pending(m)' = WriteAt(d).some
  <2>1. ASSUME NEW e \in DAddrs, number'[e] = m  PROVE e = d  BY <1>1, <1>2, <1>3, <1>n, <2>1
  <2>2. Pending(m)' <=> WriteAt(d).some  BY <1>1, <1>n, <2>1 DEF Pending
  <2>3. WriteAt(d).some \in BOOLEAN
    BY <1>1, SwapLog
       DEF BucketInv, TypeOK, VectorTypeOK, WriteDescriptor, WriteAt
  <2> QED  BY <2>2, <2>3 DEF Pending
<1>5. ASSUME NEW n \in 1 .. Len(log)  PROVE Pending(n)' = Pending(n)
  <2>1. \A e \in DAddrs : number'[e] = n => e # d  BY <1>1, <1>3
  <2>2. \A e \in DAddrs : Live(e) => e # d  BY <1>1
  <2>3. Pending(n)' <=> Pending(n)
    BY <1>1, <2>1, <2>2 DEF Pending
  <2> QED  BY <2>3 DEF Pending
<1>6. LeakyDescs' = [n \in 1 .. N |->
                       [size |-> log'[n].size, pending |-> Pending(n)',
                        new |-> log'[n].write.new, old |-> log'[n].write.old,
                        location |-> log'[n].write.location]]
  BY <1>1 DEF LeakyDescs
<1>7. ASSUME NEW n \in 1 .. N
      PROVE  LeakyDescs'[n] = IF n = N THEN new ELSE LeakyDescs[n]
  <2>0. LeakyDescs'[n] = [size |-> log'[n].size, pending |-> Pending(n)',
                          new |-> log'[n].write.new, old |-> log'[n].write.old,
                          location |-> log'[n].write.location]
    BY <1>6
  <2>1. CASE n = N
    <3>1. Pending(n)' = WriteAt(d).some  BY <1>4, <1>n, <2>1
    <3>2. log'[n].size = descs[d].size /\ log'[n].write = WriteAt(d)  BY <1>1, <2>1
    <3>3. LeakyDescs'[n] = new  BY <2>0, <3>1, <3>2, Zenon
    <3> QED  BY <2>1, <3>3
  <2>2. CASE n # N
    <3>1. n \in 1 .. Len(log)  BY <1>3, <2>2
    <3>2. Pending(n)' = Pending(n) /\ log'[n] = log[n]  BY <1>1, <1>5, <3>1
    <3>3. LeakyDescs[n] = [size |-> log[n].size, pending |-> Pending(n),
                           new |-> log[n].write.new, old |-> log[n].write.old,
                           location |-> log[n].write.location]
      BY <3>1 DEF LeakyDescs
    <3>4. LeakyDescs'[n] = LeakyDescs[n]  BY <2>0, <3>2, <3>3, Zenon
    <3> QED  BY <2>2, <3>4
  <2> QED  BY <2>1, <2>2
<1>8. LeakyDescs' = [n \in 1 .. N |-> LeakyDescs'[n]]  BY <1>1 DEF LeakyDescs
<1> QED  BY <1>7, <1>8 DEF N

LEMMA PushSwapsHistory ==
  ASSUME MemoryInv, MemoryInv', BucketInv, BucketInv', HistoryInv, InTime, KeepHistory,
         NEW t \in Threads, PushSwaps(t)
  PROVE  HistoryInv' /\ Leaky!PushSwaps(t)
<1>d. PICK d : d = next[t]  OBVIOUS
<1> DEFINE N == Len(log) + 1
           size == descs[cur[t]].size
<1>0. TypeOK /\ TypeOK' /\ NumbersKnown(t) /\ HistoryTypeOK  BY DEF BucketInv, HistoryInv
<1>1. /\ op[t] = "push" /\ pc[t] = "swap_descriptor" /\ descriptor = cur[t] /\ descriptor' = d
      /\ wd' = [wd EXCEPT ![t] = descs[d].pending] /\ next' = [next EXCEPT ![t] = Null]
      /\ ret' = [ret EXCEPT ![t] = "idle"] /\ pc' = [pc EXCEPT ![t] = "write_cell"]
      /\ UNCHANGED <<buffers, cells, writes, descs, heap, dropped, op, arg, res, calls>>
      /\ UNCHANGED <<cur, target, elem, allocs>>
  BY <1>d DEF PushSwaps, SwapDescriptor, Goto, call
<1>2. /\ pc'[t] = "write_cell" /\ wd'[t] = descs[d].pending /\ ret'[t] = "idle" /\ next'[t] = Null
      /\ \A u \in Threads \ {t} : Same(u)
  BY <1>0, <1>1 DEF Same, TypeOK, CallTypeOK, WorkTypeOK
<1>3. Swap(t)
  <2>1. SwapDescriptor(t)  BY DEF PushSwaps
  <2> QED  BY <1>1, <1>2, <2>1 DEF Swap
<1>4. /\ d \in DAddrs /\ d # descriptor /\ d # Null /\ Len(log') = N
      /\ descs[d].pending \in WAddrs /\ heap[descs[d].pending] = "used"
      /\ log'[N] = [size |-> descs[d].size, write |-> WriteAt(d)]
      /\ \A e \in DAddrs : e # d => number'[e] = number[e]
      /\ cur[t] \in DAddrs
  BY <1>d, <1>3, SwapLog
<1>5. Null \notin WAddrs /\ Null \notin DAddrs  BY SealedAssumption DEF Addrs
<1>6. /\ wd[t] = Null /\ target[t] = Null /\ curnum[t] = number[cur[t]]
  BY <1>0, <1>1, <1>4, <1>5 DEF MemoryInv, Scopes, Writing, NumbersKnown
<1>7. curnum'[t] = curnum[t] /\ wdnum'[t] = N
  <2>1. curnum'[t] = curnum[t]  BY <1>1, <1>2 DEF KeepHistory
  <2>2. wd'[t] # Null /\ Swapped  BY <1>1, <1>2, <1>4, <1>5 DEF Swapped
  <2>3. wdnum'[t] = N  BY <1>6, <2>2 DEF KeepHistory
  <2> QED  BY <2>1, <2>3
<1>8. /\ descs[d].size = size + 1
      /\ WriteAt(d) = [some |-> TRUE, new |-> arg[t], old |-> WriteAt(d).old, location |-> size]
  BY <1>0, <1>1, <1>4, <1>d DEF NumbersKnown, MadeNext
<1>9. WriteAt(d).some /\ WriteAt(d).new = arg[t] /\ WriteAt(d).location = size
  <2>1. \A b : b = [some |-> TRUE, new |-> arg[t], old |-> WriteAt(d).old, location |-> size]
               => b.some /\ b.new = arg[t] /\ b.location = size
    OBVIOUS
  <2> QED  BY <1>8, <2>1
<1>10. NumbersKnown(t)'
  <2>1. heap'[wd'[t]] # "free" /\ writes'[wd'[t]] = log'[N].write
    BY <1>1, <1>2, <1>4 DEF WriteAt
  <2>2. number'[cur[t]] = curnum[t]  BY <1>1, <1>4, <1>6
  <2>3. log'[N].write.some  BY <1>4, <1>9
  <2> HIDE DEF N
  <2> QED
    BY <1>1, <1>2, <1>4, <1>5, <1>7, <2>1, <2>2, <2>3 DEF NumbersKnown, Own
<1>11. Completing(t)'  BY <1>1, <1>2 DEF Completing, Own
<1>12. HistoryInv' /\ OthersMapped(t)  BY <1>3, <1>7, <1>10, <1>11, SwapHistory
<1>13. LeakyElem[t] = WriteAt(d).old
  BY <1>1, <1>4, <1>d DEF LeakyElem, ElemOf, Completing
<1>14. LeakyElem'[t] = LeakyElem[t]
  BY <1>1, <1>2, <1>4, <1>7, <1>11, <1>13 DEF LeakyElem, ElemOf
<1>15. LeakyTarget'[t] = LeakyTarget[t]  BY <1>1, <1>6 DEF LeakyTarget
<1>16. /\ UNCHANGED <<curnum, LeakyTarget, LeakyElem, LeakyBuffers>>
       /\ wdnum' = [wdnum EXCEPT ![t] = N]
  <2>1. UNCHANGED LeakyBuffers  BY <1>1 DEF LeakyBuffers
  <2> QED  BY <1>7, <1>12, <1>14, <1>15, <2>1, OneMapped
<1>17. LeakyDescs[curnum[t]].size = size  BY <1>4, <1>5, CurSeen
<1> DEFINE new == [size |-> size + 1, pending |-> TRUE, new |-> arg[t], old |-> LeakyElem[t],
                   location |-> size]
<1>18. new = [size |-> descs[d].size, pending |-> WriteAt(d).some, new |-> WriteAt(d).new,
              old |-> WriteAt(d).old, location |-> WriteAt(d).location]
  <2>1. WriteAt(d).some = TRUE  BY <1>8
  <2> QED  BY <1>8, <1>9, <1>13, <2>1
<1>19. LeakyDescs' = [n \in 1 .. N |-> IF n = N THEN new ELSE LeakyDescs[n]]
  <2> HIDE DEF new
  <2> QED  BY <1>3, <1>d, <1>18, SwapDescs
<1>20. Len(log) = curnum[t]
  <2>1. ~dropped /\ cur[t] = descriptor  BY <1>1, <1>d, <1>3, SwapLog
  <2> QED  BY <1>6, <2>1 DEF HistoryInv, LiveKnown
<1> HIDE DEF size
<1> QED
  BY <1>1, <1>4, <1>12, <1>16, <1>17, <1>19, <1>20
     DEF Leaky!PushSwaps, Leaky!SwapDescriptor, Leaky!Goto, Leaky!call

LEMMA PopSwapsHistory ==
  ASSUME MemoryInv, MemoryInv', BucketInv, BucketInv', HistoryInv, InTime, KeepHistory,
         NEW t \in Threads, PopSwaps(t)
  PROVE  HistoryInv' /\ Leaky!PopSwaps(t)
<1>d. PICK d : d = next[t]  OBVIOUS
<1> DEFINE N == Len(log) + 1
           size == descs[cur[t]].size
<1>0. TypeOK /\ TypeOK' /\ NumbersKnown(t) /\ HistoryTypeOK  BY DEF BucketInv, HistoryInv
<1>1. /\ op[t] = "pop" /\ SwapDescriptor(t) /\ Return(t, elem[t])
      /\ pc[t] = "swap_descriptor" /\ descriptor = cur[t] /\ descriptor' = d
      /\ heap' = [heap EXCEPT ![cur[t]] = "retired"]
      /\ UNCHANGED <<buffers, cells, writes, descs, dropped, op, arg, calls>>
  BY <1>d DEF PopSwaps, SwapDescriptor, Return
<1>2. /\ next'[t] = Null /\ NumbersKnown(t)' /\ EndOfScope(t) /\ Goto(t, "idle")
      /\ \A u \in Threads \ {t} : Same(u)
  <2>1. EndOfScope(t) /\ Goto(t, "idle")  BY <1>1 DEF Return
  <2>2. next'[t] = Null /\ NumbersKnown(t)'  BY <1>0, <2>1, EndKnown
  <2>3. \A u \in Threads \ {t} : Same(u)
    BY <1>0, <1>1, <2>1 DEF EndOfScope, Goto, Same, TypeOK, CallTypeOK, WorkTypeOK
  <2> QED  BY <2>1, <2>2, <2>3
<1>3. /\ cur[t] \in DAddrs /\ heap[cur[t]] # "free" /\ d # Null /\ cur[t] # Null /\ ~dropped
  BY <1>1, <1>d, Held, InACall DEF MemoryInv, Scopes, HasDesc, HeldIsLive, Live, Resting
<1>4. Swap(t)
  <2>1. \A e \in DAddrs : heap'[e] # "free" <=> heap[e] # "free"
    BY <1>0, <1>1, <1>3 DEF TypeOK, VectorTypeOK
  <2>2. \A w \in WAddrs : heap'[w] = heap[w]
    BY <1>0, <1>1, <1>3, SealedAssumption DEF TypeOK, VectorTypeOK
  <2> QED  BY <1>1, <1>2, <2>1, <2>2 DEF Swap
<1>5. descs[d].size = size - 1 /\ WriteAt(d) = NoWrite
  BY <1>0, <1>1, <1>3, <1>d DEF NumbersKnown, MadeNext
<1>6. HistoryInv' /\ OthersMapped(t)
  <2>1. ~WriteAt(d).some  BY <1>5 DEF NoWrite
  <2> QED  BY <1>2, <1>4, <1>d, <2>1, SwapHistory
<1>7. Leaky!EndOfScope(t)  BY <1>0, <1>2, <1>6, EndMapped
<1>8. LeakyElem[t] = elem[t]  BY <1>1 DEF LeakyElem, ElemOf, Completing
<1>9. LeakyDescs[curnum[t]].size = size  BY <1>3, CurSeen
<1>10. LeakyDescs' = [n \in 1 .. N |-> IF n = N THEN Leaky!NoWrite(size - 1) ELSE LeakyDescs[n]]
  <2> DEFINE new == Leaky!NoWrite(size - 1)
  <2>1. new = [size |-> descs[d].size, pending |-> WriteAt(d).some, new |-> WriteAt(d).new,
               old |-> WriteAt(d).old, location |-> WriteAt(d).location]
    BY <1>5 DEF NoWrite, Leaky!NoWrite, Zero, Leaky!Zero
  <2> HIDE DEF new
  <2>2. LeakyDescs' = [n \in 1 .. N |-> IF n = N THEN new ELSE LeakyDescs[n]]
    BY <1>4, <1>d, <2>1, SwapDescs
  <2> QED  BY <2>2 DEF new
<1>11. Len(log') = N /\ Len(log) = curnum[t]
  <2>1. Len(log') = N  BY <1>4, <1>d, SwapLog
  <2>2. curnum[t] = number[descriptor] /\ number[descriptor] = Len(log)
    BY <1>0, <1>1, <1>3 DEF NumbersKnown, HistoryInv, LiveKnown
  <2> QED  BY <2>1, <2>2
<1>12. UNCHANGED LeakyBuffers  BY <1>1 DEF LeakyBuffers
<1> HIDE DEF size
<1> QED
  BY <1>1, <1>6, <1>7, <1>8, <1>9, <1>10, <1>11, <1>12
     DEF Return, Goto, Leaky!PopSwaps, Leaky!SwapDescriptor, Leaky!Return, Leaky!Goto

-----------------------------------------------------------------------------
(* The domain, and the end of the vector *)

\* Nothing of a thread changes, and no Descriptor that is being made.
AllIdle == \A u \in Threads :
  Same(u) /\ (next[u] # Null => descs'[next[u]] = descs[next[u]])

\* Leaky sees nothing of a step that changes nothing here.
Unseen == UNCHANGED <<buffers, cells, pc, call, ret, allocs>>

LEMMA LeakyStutters ==
  ASSUME Unseen, UNCHANGED <<log, LeakyDescs>>, HistoryTypeOK, HistoryTypeOK',
         \A u \in Threads :
           /\ curnum'[u] = curnum[u] /\ wdnum'[u] = wdnum[u]
           /\ LeakyTarget'[u] = LeakyTarget[u] /\ LeakyElem'[u] = LeakyElem[u]
  PROVE  UNCHANGED Leaky!vars
<1>1. curnum' = curnum /\ wdnum' = wdnum  BY DEF HistoryTypeOK
<1>2. /\ LeakyTarget = [u \in Threads |-> LeakyTarget[u]]
      /\ LeakyTarget' = [u \in Threads |-> LeakyTarget'[u]]
      /\ LeakyElem = [u \in Threads |-> LeakyElem[u]]
      /\ LeakyElem' = [u \in Threads |-> LeakyElem'[u]]
  BY DEF LeakyTarget, LeakyElem
<1>3. LeakyTarget' = LeakyTarget /\ LeakyElem' = LeakyElem  BY <1>2
<1>4. LeakyBuffers' = LeakyBuffers  BY DEF Unseen, LeakyBuffers
<1> QED
  BY <1>1, <1>3, <1>4 DEF Unseen, call, Leaky!vars, Leaky!shared, Leaky!call, Leaky!work

LEMMA StepOfNone ==
  ASSUME MemoryInv, MemoryInv', HistoryInv, InTime, KeepHistory, Keeps, BoxesStay, AllIdle,
         Unseen, LeakyDescs' = LeakyDescs
  PROVE  HistoryInv' /\ UNCHANGED Leaky!vars
<1>0. /\ log' = log /\ number' = number /\ descriptor' = descriptor /\ dropped' = dropped
      /\ HistoryTypeOK /\ LiveKnown /\ PendingOwned /\ \A u \in Threads : NumbersKnown(u)
  BY DEF Keeps, HistoryInv
<1>1. HistoryTypeOK'  BY <1>0, TypeKeeps
<1>2. LiveKnown'  BY <1>0, LiveKnownKeeps
<1>3. ASSUME NEW u \in Threads
      PROVE  /\ curnum'[u] = curnum[u] /\ wdnum'[u] = wdnum[u]
             /\ LeakyTarget'[u] = LeakyTarget[u] /\ LeakyElem'[u] = LeakyElem[u]
  BY <1>0, SameMaps DEF AllIdle
<1>4. ASSUME NEW u \in Threads  PROVE NumbersKnown(u)'
  BY <1>0, <1>3, NumbersKeep DEF AllIdle
<1>5. PendingOwned'
  <2> SUFFICES ASSUME ~dropped, WriteAt(descriptor)'.some
               PROVE  \E u \in Threads : Completing(u)' /\ wdnum'[u] = Len(log)
    BY <1>0 DEF PendingOwned, WriteAt
  <2>1. descriptor \in DAddrs /\ Live(descriptor)'
    BY <1>0, HeldNext DEF HeldIsLive, MemoryInv, MemoryTypeOK, Live
  <2>2. WriteAt(descriptor).some  BY <2>1 DEF Keeps
  <2>3. PICK u \in Threads : Completing(u) /\ wdnum[u] = Len(log)  BY <1>0, <2>2 DEF PendingOwned
  <2>4. Completing(u)' = Completing(u)  BY DEF AllIdle, Same, Completing, Own
  <2> QED  BY <1>3, <2>3, <2>4
<1>6. HistoryInv'  BY <1>1, <1>2, <1>4, <1>5 DEF HistoryInv
<1> QED  BY <1>0, <1>1, <1>3, <1>6, LeakyStutters

LEMMA ReclaimHistory ==
  ASSUME MemoryInv, MemoryInv', BucketInv, HistoryInv, InTime, KeepHistory, Reclaim
  PROVE  HistoryInv' /\ UNCHANGED Leaky!vars
<1>0. /\ UNCHANGED <<buffers, cells, descriptor, writes, dropped, pc, call, cur, work>>
      /\ log' = log /\ number' = number
      /\ TypeOK /\ HeldIsLive /\ DAddrs \cap WAddrs = {} /\ HistoryTypeOK /\ LiveKnown
  BY NoSwap, Held, SealedAssumption
     DEF Reclaim, ReclaimDescriptor, ReclaimWrite, HistoryInv, BucketInv
<1>1. BoxesStay /\ Unseen  BY <1>0 DEF BoxesStay, Unseen, work
<1>2. \A u \in Threads : Same(u)  BY <1>0 DEF Same, call, work
<1>3. CASE ReclaimDescriptor
  <2>1. PICK d \in DAddrs : heap[d] = "retired" /\ FreeDescriptor(d)
    BY <1>3 DEF ReclaimDescriptor
  <2>2. /\ \A e \in DAddrs : e # d => heap'[e] = heap[e] /\ descs'[e] = descs[e]
        /\ heap'[d] = "free"
    BY <1>0, <2>1 DEF FreeDescriptor, FreedWith, TypeOK, VectorTypeOK, Addrs, HeldIsLive
  <2>3. d # descriptor /\ ~dropped /\ \A u \in Threads : next[u] # d
    BY <1>0, <2>1 DEF MemoryInv, SingleOwner, DescriptorsOwned, VectorOwns, Owns, AfterDrop, Addrs
  <2>4. \A e \in DAddrs : /\ Live(e)' => Live(e) /\ e # d
                          /\ Live(e) /\ e # d => Live(e)'
                          /\ e # d => descs'[e] = descs[e] /\ WriteAt(e)' = WriteAt(e)
    BY <1>0, <2>2 DEF Live, WriteAt, work
  <2>5. Keeps  BY <1>0, <2>4 DEF Keeps
  <2>6. AllIdle
    <3>1. \A u \in Threads : next[u] # Null => descs'[next[u]] = descs[next[u]]
      BY <1>0, <2>2, <2>3 DEF HeldIsLive
    <3> QED  BY <1>2, <3>1 DEF AllIdle
  <2>7. \A e \in DAddrs : Live(e) /\ WriteAt(e).some => Live(e)' /\ WriteAt(e)'.some
    BY <1>0, <2>3, <2>4 DEF LiveKnown
  <2>8. LeakyDescs' = LeakyDescs  BY <2>5, <2>7, DescsKeep
  <2> QED  BY <1>1, <2>5, <2>6, <2>8, StepOfNone
<1>4. CASE ReclaimWrite
  <2>1. PICK w \in WAddrs : heap[w] = "retired" /\ heap' = [heap EXCEPT ![w] = "free"]
    BY <1>4 DEF ReclaimWrite
  <2>2. descs' = descs /\ \A e \in DAddrs : heap'[e] = heap[e]
    BY <1>0, <1>4, <2>1 DEF ReclaimWrite, TypeOK, VectorTypeOK
  <2>3. \A e \in DAddrs : (Live(e)' <=> Live(e)) /\ WriteAt(e)' = WriteAt(e)
    BY <1>0, <2>2 DEF Live, WriteAt, work
  <2>4. Keeps  BY <1>0, <2>2, <2>3 DEF Keeps
  <2>5. AllIdle  BY <1>2, <2>2 DEF AllIdle
  <2>6. LeakyDescs' = LeakyDescs  BY <2>3, <2>4, DescsKeep
  <2> QED  BY <1>1, <2>4, <2>5, <2>6, StepOfNone
<1> QED  BY <1>3, <1>4 DEF Reclaim

\* Nothing is pending when the last reference goes.
LEMMA DropHistory ==
  ASSUME MemoryInv, MemoryInv', BucketInv, HistoryInv, KeepHistory, Drop
  PROVE  HistoryInv' /\ UNCHANGED Leaky!vars
<1>0. /\ UNCHANGED <<buffers, cells, descriptor, descs, writes, pc, call, cur, work>>
      /\ ~dropped /\ dropped' /\ \A u \in Threads : pc[u] \in Resting
      /\ log' = log /\ number' = number
      /\ HistoryTypeOK /\ LiveKnown /\ PendingOwned /\ \A u \in Threads : NumbersKnown(u)
  BY NoSwap DEF Drop, HistoryInv, Resting
<1>1. HistoryTypeOK'  BY <1>0, TypeKeeps
<1>2. \A e \in DAddrs : ~Live(e)'
  <2>1. \A e \in DAddrs : heap'[e] = "free"  BY <1>0 DEF MemoryInv, AfterDrop, Addrs
  <2> QED  BY <2>1 DEF Live
<1>3. LiveKnown' /\ PendingOwned'  BY <1>0, <1>2 DEF LiveKnown, PendingOwned
<1>4. ASSUME NEW u \in Threads
      PROVE  /\ curnum'[u] = curnum[u] /\ wdnum'[u] = wdnum[u]
             /\ NumbersKnown(u)'
             /\ LeakyTarget'[u] = LeakyTarget[u] /\ LeakyElem'[u] = LeakyElem[u]
  <2>1. cur[u] = Null /\ wd[u] = Null /\ target[u] = Null /\ next[u] = Null /\ pc[u] \in Resting
    BY <1>0 DEF MemoryInv, Scopes, HasDesc, Writing, Resting
  <2>2. Same(u)  BY <1>0 DEF Same, call, work
  <2>3. curnum'[u] = curnum[u] /\ wdnum'[u] = wdnum[u]  BY <1>0, <2>2, HistoryStays
  <2>4. NumbersKnown(u)'
    BY <1>0, <2>1, <2>2, <2>3 DEF NumbersKnown, Same, Resting
  <2>5. LeakyTarget'[u] = LeakyTarget[u]  BY <2>1, <2>2 DEF Same, LeakyTarget
  <2>6. LeakyElem'[u] = LeakyElem[u]
    BY <2>1, <2>2 DEF Same, LeakyElem, ElemOf, Completing, Resting
  <2> QED  BY <2>3, <2>4, <2>5, <2>6
<1>5. LeakyDescs' = LeakyDescs
  <2>1. ASSUME NEW n  PROVE ~Pending(n)
    <3>1. ~WriteAt(descriptor).some
      BY <1>0 DEF PendingOwned, Completing, Resting
    <3> QED  BY <1>0, <3>1 DEF Pending, LiveKnown
  <2>2. ASSUME NEW n  PROVE ~Pending(n)'  BY <1>2 DEF Pending
  <2>3. \A n : Pending(n)' <=> Pending(n)  BY <2>1, <2>2
  <2> QED  BY <1>0, <2>3 DEF LeakyDescs
<1>6. HistoryInv'  BY <1>1, <1>3, <1>4 DEF HistoryInv
<1>7. Unseen  BY <1>0 DEF Unseen, work
<1> QED  BY <1>0, <1>1, <1>4, <1>5, <1>6, <1>7, LeakyStutters

LEMMA AllDroppedHistory ==
  ASSUME MemoryInv, MemoryInv', BucketInv, HistoryInv, InTime, KeepHistory, AllDropped
  PROVE  HistoryInv' /\ UNCHANGED Leaky!vars
<1> USE DEF vars, shared, vector, call, work
<1>0. UNCHANGED vars /\ log' = log /\ number' = number  BY NoSwap DEF AllDropped
<1>1. \A e \in DAddrs : (Live(e)' <=> Live(e)) /\ WriteAt(e)' = WriteAt(e)
  BY <1>0 DEF Live, WriteAt
<1>2. Keeps  BY <1>0, <1>1 DEF Keeps
<1>3. BoxesStay /\ AllIdle /\ Unseen  BY <1>0 DEF BoxesStay, AllIdle, Same, Unseen
<1>4. LeakyDescs' = LeakyDescs  BY <1>1, <1>2, DescsKeep
<1> QED  BY <1>2, <1>3, <1>4, StepOfNone

LEMMA StutterHistory ==
  ASSUME HistoryInv, UNCHANGED <<vars, history>>
  PROVE  HistoryInv' /\ UNCHANGED Leaky!vars
<1> USE DEF vars, shared, vector, call, work, history
<1>1. \A d \in DAddrs : (Live(d)' <=> Live(d)) /\ WriteAt(d)' = WriteAt(d)
  BY DEF Live, WriteAt
<1>2. HistoryTypeOK' /\ LiveKnown' /\ PendingOwned'
  BY <1>1 DEF HistoryInv, HistoryTypeOK, LiveKnown, PendingOwned, Completing, Own, WriteAt
<1>3. ASSUME NEW u \in Threads  PROVE NumbersKnown(u)'
  <2>1. NumbersKnown(u)  BY DEF HistoryInv
  <2> QED  BY <2>1 DEF NumbersKnown, MadeNext, WriteAt, Own
<1>4. \A n : Pending(n)' <=> Pending(n)  BY <1>1 DEF Pending
<1>5. LeakyDescs' = LeakyDescs  BY <1>4 DEF LeakyDescs
<1>6. /\ LeakyBuffers' = LeakyBuffers /\ LeakyTarget' = LeakyTarget
      /\ LeakyElem' = LeakyElem
  BY DEF LeakyBuffers, LeakyTarget, LeakyElem, ElemOf, Completing, Own, WriteAt
<1> QED
  BY <1>2, <1>3, <1>5, <1>6 DEF HistoryInv, Leaky!vars, Leaky!shared, Leaky!call, Leaky!work

-----------------------------------------------------------------------------
(* The refinement *)

LEMMA InitHistory ==
  ASSUME HistoryInit  PROVE HistoryInv /\ Leaky!Init
<1>0. Init /\ MemoryInv /\ BucketInv  BY InitMemory, InitBuckets DEF HistoryInit
<1>1. /\ log = << [size |-> 0, write |-> NoWrite] >>
      /\ number = [d \in DAddrs |-> 1]
      /\ curnum = [t \in Threads |-> 1] /\ wdnum = [t \in Threads |-> 1]
  BY DEF HistoryInit
<1>2. /\ buffers = [b \in Buffers |-> 0] /\ cells = [i \in Slots |-> 0]
      /\ writes = [a \in WAddrs |-> NoWrite]
      /\ pc = [t \in Threads |-> "idle"] /\ op = [t \in Threads |-> "new"]
      /\ arg = [t \in Threads |-> 0] /\ res = [t \in Threads |-> None]
      /\ cur = [t \in Threads |-> Null] /\ wd = [t \in Threads |-> Null]
      /\ target = [t \in Threads |-> Null] /\ next = [t \in Threads |-> Null]
      /\ ret = [t \in Threads |-> "idle"] /\ elem = [t \in Threads |-> 0]
      /\ allocs = [t \in Threads |-> 0] /\ calls = [t \in Threads |-> 0]
  BY <1>0, Zenon DEF Init, Zero
<1>3. PICK d \in DAddrs, w \in WAddrs :
        /\ descriptor = d
        /\ descs = [[a \in DAddrs |-> Blank] EXCEPT ![d].pending = w]
        /\ heap  = [a \in Addrs |-> IF a \in {d, w} THEN "used" ELSE "free"]
  <2> DEFINE d == CHOOSE a \in DAddrs : TRUE
             w == CHOOSE a \in WAddrs : TRUE
  <2>1. d \in DAddrs /\ w \in WAddrs  BY SealedAssumption
  <2>2. /\ descriptor = d
        /\ descs = [[a \in DAddrs |-> Blank] EXCEPT ![d].pending = w]
        /\ heap  = [a \in Addrs |-> IF a \in {d, w} THEN "used" ELSE "free"]
    BY <1>0 DEF Init
  <2> HIDE DEF d, w
  <2> QED  BY <2>1, <2>2
<1>4. /\ NoWrite \in WriteDescriptor /\ ~NoWrite.some /\ NoWrite.new = 0 /\ NoWrite.old = 0
      /\ NoWrite.location = 0
  BY DEF NoWrite, WriteDescriptor, Zero
<1>5. Len(log) = 1 /\ log[1].size = 0 /\ log[1].write = NoWrite  BY <1>1
<1>6. HistoryTypeOK
  <2>1. [size |-> 0, write |-> NoWrite] \in [size : Nat, write : WriteDescriptor]  BY <1>4
  <2>2. log \in Seq([size : Nat, write : WriteDescriptor])  BY <1>1, <2>1
  <2> QED  BY <1>1, <1>5, <2>2 DEF HistoryTypeOK
<1>7. ASSUME NEW e \in DAddrs, Live(e)
      PROVE  e = d /\ descs[e].size = 0 /\ WriteAt(e) = NoWrite
  <2>1. e = d
    BY <1>3, <1>7, SealedAssumption DEF Live, Addrs
  <2>2. descs[d].size = 0 /\ descs[d].pending = w  BY <1>3 DEF Blank
  <2> QED  BY <1>2, <2>1, <2>2 DEF WriteAt
<1>8. LiveKnown  BY <1>1, <1>3, <1>4, <1>5, <1>7 DEF LiveKnown
<1>9. PendingOwned
  <2>1. ~dropped => Live(descriptor)  BY <1>0, Held DEF HeldIsLive
  <2> QED  BY <1>3, <1>4, <1>7, <2>1 DEF PendingOwned
<1>10. ASSUME NEW t \in Threads  PROVE NumbersKnown(t)
  BY <1>1, <1>2 DEF NumbersKnown
<1>11. HistoryInv  BY <1>6, <1>8, <1>9, <1>10 DEF HistoryInv
<1>12. LeakyBuffers = [b \in Buffers |-> FALSE]  BY <1>2 DEF LeakyBuffers
<1>13. LeakyDescs = [n \in 1 .. 1 |-> Leaky!NoWrite(0)]
  <2>1. \A n : Pending(n) = FALSE  BY <1>4, <1>7 DEF Pending
  <2>2. ASSUME NEW n \in 1 .. 1  PROVE LeakyDescs[n] = Leaky!NoWrite(0)
    <3>1. LeakyDescs[n] = [size |-> 0, pending |-> FALSE, new |-> 0, old |-> 0, location |-> 0]
      <4>1. n = 1  OBVIOUS
      <4>2. LeakyDescs[n] = [size |-> log[n].size, pending |-> Pending(n),
                             new |-> log[n].write.new, old |-> log[n].write.old,
                             location |-> log[n].write.location]
        BY <1>5 DEF LeakyDescs
      <4> QED  BY <1>4, <1>5, <2>1, <4>1, <4>2, Zenon
    <3> QED  BY <3>1 DEF Leaky!NoWrite, Leaky!Zero
  <2>3. LeakyDescs = [n \in 1 .. 1 |-> LeakyDescs[n]]  BY <1>5 DEF LeakyDescs
  <2> QED  BY <2>2, <2>3
<1>14. LeakyTarget = [t \in Threads |-> 1] /\ LeakyElem = [t \in Threads |-> 0]
  BY <1>2 DEF LeakyTarget, LeakyElem, ElemOf, Completing
<1>15. Leaky!Init
  BY <1>1, <1>2, <1>5, <1>12, <1>13, <1>14, SameArithmetic DEF Leaky!Init, Leaky!Zero
<1> QED  BY <1>11, <1>15

LEMMA StepHistory ==
  ASSUME MemoryInv, MemoryInv', BucketInv, BucketInv', HistoryInv, InTime, KeepHistory,
         NEW t \in Threads, Step(t)
  PROVE  HistoryInv' /\ Leaky!Step(t)
<1>1. CASE CompleteWrite(t)
  BY <1>1, LoadPendingHistory, WriteCellHistory, OwnWriteStays, LoadTargetHistory,
     ClearPendingHistory DEF CompleteWrite, Leaky!CompleteWrite, Leaky!Step
<1>2. CASE Push(t)
  BY <1>2, CheckBucketHistory, PushAllocatesHistory, ReadOldHistory, PushSwapsHistory
     DEF Push, Leaky!Push, Leaky!Step
<1>3. CASE Pop(t)
  BY <1>3, ReturnsHistory, ReadLastHistory, PopSwapsHistory DEF Pop, Leaky!Pop, Leaky!Step
<1>4. CASE Reserve(t)
  BY <1>4, ReserveSizeHistory, ReserveFirstHistory, ReserveNextHistory, ReturnsHistory
     DEF Reserve, Leaky!Reserve, Leaky!Step
<1>5. CASE LoadDescriptor(t)  BY <1>5, LoadDescriptorHistory DEF Leaky!Step
<1>6. CASE RetrySwap(t)  BY <1>6, RetrySwapHistory DEF Leaky!Step
<1>7. CASE Size(t)  BY <1>7, ReturnsHistory DEF Leaky!Step
<1> QED  BY <1>1, <1>2, <1>3, <1>4, <1>5, <1>6, <1>7 DEF Step

LEMMA NextHistory ==
  ASSUME MemoryInv, MemoryInv', BucketInv, BucketInv', HistoryInv, InTimeNext
  PROVE  HistoryInv' /\ (Leaky!Next \/ UNCHANGED Leaky!vars)
<1>0. Next /\ InTime /\ KeepHistory  BY DEF InTimeNext
<1>1. CASE \E t \in Threads : Calls(t) \/ Step(t)
  <2>1. PICK t \in Threads : Calls(t) \/ Step(t)  BY <1>1
  <2>2. HistoryInv' /\ (Leaky!Calls(t) \/ Leaky!Step(t))
    BY <1>0, <2>1, CallHistory, StepHistory
  <2> QED  BY <2>2 DEF Leaky!Next
<1>2. CASE Reclaim  BY <1>0, <1>2, ReclaimHistory
<1>3. CASE Drop  BY <1>0, <1>3, DropHistory
<1>4. CASE AllDropped  BY <1>0, <1>4, AllDroppedHistory
<1> QED  BY <1>0, <1>1, <1>2, <1>3, <1>4 DEF Next

\* The history adds nothing to what Sealed may do.
LEMMA HistoryIsSealed == HistorySpec => Spec
<1>1. HistoryInit => Init  BY DEF HistoryInit
<1>2. [InTimeNext]_<<vars, history>> => [Next]_vars  BY DEF InTimeNext
<1> QED  BY <1>1, <1>2, PTL DEF HistorySpec, Spec

\* As long as anybody can tell, an address stands for one number: what a thread
\* loaded, and what compare_exchange finds equal, is the Descriptor it takes it
\* for, however often the address was freed and used again.
THEOREM HistoryInvariance == HistorySpec => []HistoryInv
<1>1. HistoryInit => HistoryInv  BY InitHistory
<1>2. MemoryInv /\ MemoryInv' /\ BucketInv /\ BucketInv' /\ HistoryInv
        /\ [InTimeNext]_<<vars, history>> => HistoryInv'
  BY NextHistory, StutterHistory
<1> QED
  BY <1>1, <1>2, HistoryIsSealed, MemoryInvariance, BucketInvariance, PTL DEF HistorySpec

\* sealed::SecVec, with addresses that are used again, boxes that are freed and
\* a compare_exchange by address, implements leaky::SecVec, which never frees
\* anything: in every run in which push finds its own write descriptor.
THEOREM SealedImplementsLeaky == HistorySpec => ImplementsLeaky
<1>1. HistoryInit => Leaky!Init  BY InitHistory
<1>2. MemoryInv /\ MemoryInv' /\ BucketInv /\ BucketInv' /\ HistoryInv
        /\ [InTimeNext]_<<vars, history>> => [Leaky!Next]_(Leaky!vars)
  BY NextHistory, StutterHistory
<1> QED
  BY <1>1, <1>2, HistoryIsSealed, MemoryInvariance, BucketInvariance, HistoryInvariance, PTL
     DEF HistorySpec, ImplementsLeaky, Leaky!Spec
=============================================================================
