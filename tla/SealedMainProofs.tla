-------------------------- MODULE SealedMainProofs ---------------------------
(***************************************************************************)
(* The program of main.rs adds up what it has pushed, for every number of  *)
(* workers and of elements, and whenever the domain frees what was         *)
(* retired, as long as it leaves the write descriptor of a push alone      *)
(* until push has read it: MainInv is an inductive invariant on the        *)
(* strength of MemoryInv and BucketInv.                                    *)
(***************************************************************************)
EXTENDS SealedMain, SealedProofs

\* The program restricts what the threads call: the memory is in order.
LEMMA MainMemory == InTimeSpec => [](MemoryInv /\ BucketInv)
<1>1. MainInit => Init  BY DEF MainInit
<1>2. [MainNext /\ InTime]_MainVars => [Next]_vars
  <2>1. MainReserves => Next  BY MainAssumption DEF MainReserves, Next, Calls
  <2>2. Join \/ End \/ UNCHANGED MainVars => UNCHANGED vars  BY DEF Join, End, MainVars
  <2>3. MainDrops \/ MainDomain => Next  BY DEF MainDrops, MainDomain, Next
  <2>4. ASSUME NEW t \in Workers, WorkerCalls(t)  PROVE Next
    BY <2>4 DEF Workers, WorkerCalls, Next, Calls
  <2>5. ASSUME NEW t \in Threads, MainStep(t)  PROVE Next
    BY <2>5 DEF MainStep, Next
  <2> QED  BY <2>1, <2>2, <2>3, <2>4, <2>5 DEF MainNext
<1>3. InTimeSpec => Spec  BY <1>1, <1>2, PTL DEF InTimeSpec, Spec
<1> QED  BY <1>3, MemoryInvariance, BucketInvariance, PTL

-----------------------------------------------------------------------------
(* What is announced *)

LEMMA Numbers ==
  /\ PerWorker \in Nat /\ FIVE \in Nat /\ FIVE # None
  /\ PerWorker * 0 = 0 /\ PerWorker * 1 = PerWorker /\ PerWorker * 2 = PerWorker + PerWorker
BY MainAssumption, SealedAssumption

LEMMA AnnouncedType ==
  ASSUME phase \in 0 .. 2, NEW t \in Workers, WorkerCalled(t)
  PROVE  /\ Announced(t) \in Nat /\ Announced(t) <= PerWorker
         /\ Unannounced(t) => phase > 0 /\ Announced(t) + 1 \in 1 .. PerWorker
         /\ calls[t] \in Nat /\ Before \in Nat
<1> DEFINE B == Before
           I == PerWorker * phase
           c == calls[t]
           P == PerWorker
<1>1. /\ B \in Nat /\ I \in Nat /\ P \in Nat
      /\ (phase = 0 /\ B = 0 /\ I = 0) \/ (phase > 0 /\ I = B + P)
  BY Numbers DEF Before
<1>2. c \in B .. I /\ (Unannounced(t) => c > B)  BY DEF WorkerCalled
<1>3. Announced(t) = c - B - (IF Unannounced(t) THEN 1 ELSE 0)  BY DEF Announced
<1> HIDE DEF B, I, c, P
<1>4. CASE Unannounced(t)  BY <1>1, <1>2, <1>3, <1>4 DEF c, B, P
<1>5. CASE ~Unannounced(t)  BY <1>1, <1>2, <1>3, <1>5 DEF c, B, P
<1> QED  BY <1>4, <1>5

AllElements == Workers \X (1 .. PerWorker)

LEMMA ElementsFinite ==
  /\ IsFiniteSet(AllElements) /\ Cardinality(AllElements) = Total
  /\ Present \subseteq AllElements /\ IsFiniteSet(Present)
  /\ Cardinality(Present) \in Nat /\ Cardinality(Present) <= Total
  /\ Total \in Nat
<1>1. PerWorker \in Nat /\ IsFiniteSet(Workers)
  BY MainAssumption, FS_Subset DEF Workers
<1>2. IsFiniteSet(1 .. PerWorker) /\ Cardinality(1 .. PerWorker) = PerWorker
  BY <1>1, FS_Interval
<1>3. Cardinality(Workers) \in Nat  BY <1>1, FS_CardinalityType
<1>4. IsFiniteSet(AllElements) /\ Cardinality(AllElements) = Cardinality(Workers) * PerWorker
  BY <1>1, <1>2, FS_Product DEF AllElements
<1>5. Present \subseteq AllElements  BY DEF Present, AllElements
<1>6. Cardinality(Workers) * PerWorker = Total /\ Total \in Nat  BY <1>1, <1>3 DEF Total
<1>7. IsFiniteSet(Present) /\ Cardinality(Present) <= Cardinality(AllElements)
  BY <1>4, <1>5, FS_Subset
<1>8. Cardinality(Present) \in Nat  BY <1>7, FS_CardinalityType
<1> QED  BY <1>4, <1>5, <1>6, <1>7, <1>8

\* The elements depend on the phase and on what each worker has announced.
LEMMA SameElements ==
  ASSUME UNCHANGED phase, \A t \in Workers : Announced(t)' = Announced(t)
  PROVE  Present' = Present
BY DEF Present

\* While a pop is to be announced there is an element for it.
LEMMA Supply ==
  ASSUME phase = 2, NEW t \in Workers, WorkerCalled(t), Unannounced(t)
  PROVE  Cardinality(Present) > 0
<1> DEFINE e == <<t, Announced(t) + 1>>
<1>1. Announced(t) \in Nat /\ Announced(t) + 1 \in 1 .. PerWorker  BY AnnouncedType
<1>2. e \in Workers \X (1 .. PerWorker)  BY <1>1
<1>3. e[1] = t /\ e[2] = Announced(t) + 1  OBVIOUS
<1>4. e \in Present  BY <1>1, <1>2, <1>3 DEF Present
<1>5. Cardinality(Present) # 0  BY <1>4, ElementsFinite, FS_EmptySet
<1> QED  BY <1>5, ElementsFinite

\* A swap announces one element, or takes one away.
LEMMA OneElement ==
  ASSUME UNCHANGED phase, phase \in 0 .. 2, NEW t \in Workers, WorkerCalled(t),
         Unannounced(t), calls'[t] = calls[t], ~Unannounced(t)',
         \A u \in Workers \ {t} : Announced(u)' = Announced(u)
  PROVE  /\ phase = 1 => Cardinality(Present') = Cardinality(Present) + 1
         /\ phase = 2 => Cardinality(Present') = Cardinality(Present) - 1
<1> DEFINE a == Announced(t)
           e == <<t, a + 1>>
<1>1. a \in Nat /\ a + 1 \in 1 .. PerWorker /\ calls[t] \in Nat /\ Before \in Nat
  BY AnnouncedType
<1>2. Before' = Before  BY DEF Before
<1>3. Announced(t)' = a + 1
  <2>1. a = calls[t] - Before - 1 /\ Announced(t)' = calls[t] - Before - 0
    BY <1>2 DEF Announced
  <2> QED  BY <1>1, <2>1
<1> HIDE DEF a
<1>4. e \in AllElements /\ e[1] = t /\ e[2] = a + 1  BY <1>1 DEF AllElements
<1>5. IsFiniteSet(Present) /\ Cardinality(Present) \in Nat  BY ElementsFinite
<1>6. \A f \in AllElements : f # e => (f[1] # t \/ f[2] # a + 1)
  BY DEF AllElements
<1>7. ASSUME NEW f \in AllElements  PROVE f[1] \in Workers /\ f[2] \in 1 .. PerWorker
  BY DEF AllElements
<1>8. CASE phase = 1
  <2>1. e \notin Present  BY <1>1, <1>4, <1>8 DEF Present, a
  <2>2. ASSUME NEW f \in AllElements  PROVE f \in Present' <=> f \in Present \/ f = e
    <3>1. f[1] \in Workers /\ f[2] \in 1 .. PerWorker  BY <1>7
    <3>2. f \in Present' <=> f[2] <= Announced(f[1])'
      BY <1>8, <2>2 DEF Present, AllElements
    <3>3. f \in Present <=> f[2] <= Announced(f[1])
      BY <1>8, <2>2 DEF Present, AllElements
    <3>4. CASE f[1] # t  BY <3>1, <3>2, <3>3, <3>4, <1>4
    <3>5. CASE f[1] = t
      <4>1. f \in Present' <=> f[2] <= a + 1  BY <1>3, <3>2, <3>5
      <4>2. f \in Present <=> f[2] <= a  BY <3>3, <3>5 DEF a
      <4>3. f = e <=> f[2] = a + 1  BY <1>4, <1>6, <3>5
      <4> QED  BY <1>1, <3>1, <4>1, <4>2, <4>3
    <3> QED  BY <3>4, <3>5
  <2>3. Present' \subseteq AllElements /\ Present \subseteq AllElements
    BY DEF Present, AllElements
  <2>4. Present' = Present \cup {e}  BY <1>4, <2>2, <2>3
  <2>5. Cardinality(Present \cup {e}) = Cardinality(Present) + 1
    BY <1>5, <2>1, FS_AddElement
  <2> QED  BY <1>8, <2>4, <2>5
<1>9. CASE phase = 2
  <2>1. e \in Present  BY <1>1, <1>4, <1>9 DEF Present, AllElements, a
  <2>2. ASSUME NEW f \in AllElements  PROVE f \in Present' <=> f \in Present /\ f # e
    <3>1. f[1] \in Workers /\ f[2] \in 1 .. PerWorker  BY <1>7
    <3>2. f \in Present' <=> f[2] > Announced(f[1])'
      BY <1>9, <2>2 DEF Present, AllElements
    <3>3. f \in Present <=> f[2] > Announced(f[1])
      BY <1>9, <2>2 DEF Present, AllElements
    <3>4. CASE f[1] # t  BY <3>1, <3>2, <3>3, <3>4, <1>4
    <3>5. CASE f[1] = t
      <4>1. f \in Present' <=> f[2] > a + 1  BY <1>3, <3>2, <3>5
      <4>2. f \in Present <=> f[2] > a  BY <3>3, <3>5 DEF a
      <4>3. f = e <=> f[2] = a + 1  BY <1>4, <1>6, <3>5
      <4> QED  BY <1>1, <3>1, <4>1, <4>2, <4>3
    <3> QED  BY <3>4, <3>5
  <2>3. Present' \subseteq AllElements /\ Present \subseteq AllElements
    BY DEF Present, AllElements
  <2>4. Present' = Present \ {e}  BY <1>4, <2>2, <2>3
  <2>5. Cardinality(Present \ {e}) = Cardinality(Present) - 1
    BY <1>5, <2>1, FS_RemoveElement
  <2> QED  BY <1>9, <2>4, <2>5
<1> QED  BY <1>8, <1>9

-----------------------------------------------------------------------------
(* What a step leaves as it is *)

\* Sizes are natural numbers, and a Descriptor that exists has a write
\* descriptor that exists.
DescsInOrder ==
  /\ descriptor \in DAddrs
  /\ \A d \in DAddrs : /\ Count(d) \in Nat
                       /\ heap[d] # "free" => /\ descs[d].pending \in WAddrs
                                              /\ heap[descs[d].pending] = "used"

LEMMA InOrder == MemoryInv /\ BucketInv => DescsInOrder
<1> SUFFICES ASSUME MemoryInv, BucketInv PROVE DescsInOrder
  OBVIOUS
<1>1. descriptor \in DAddrs /\ \A d \in DAddrs : Count(d) \in Nat
  BY DEF BucketInv, TypeOK, VectorTypeOK, Descriptor, Count
<1>2. ASSUME NEW d \in DAddrs, heap[d] # "free"
      PROVE  descs[d].pending \in WAddrs /\ heap[descs[d].pending] = "used"
  <2>1. descs[d].pending \in WAddrs
    BY <1>2 DEF MemoryInv, MemoryTypeOK, AlwaysPending
  <2> QED  BY <1>2, <2>1 DEF MemoryInv, SingleOwner, WritesOwned, PendingIn
<1> QED  BY <1>1, <1>2 DEF DescsInOrder

LEMMA InOrderNext == MemoryInv' /\ BucketInv' => DescsInOrder'
BY InOrder, PTL

\* What is in memory stays, until it is freed; but a pending write may be
\* completed.
Steady ==
  /\ \A d \in DAddrs : heap[d] # "free" /\ heap'[d] # "free" =>
       /\ descs'[d].size = descs[d].size
       /\ WriteOf(d)'.some => WriteOf(d)' = WriteOf(d)
  /\ \A w \in WAddrs : heap[w] # "free" => writes'[w] = writes[w]

\* What u knows, and what it has the address of, stays.
Mine(u) == <<pc[u], op[u], arg[u], calls[u], cur[u], wd[u], target[u], ret[u], elem[u], next[u]>>

Undisturbed(u) ==
  /\ UNCHANGED Mine(u)
  /\ pc[u] \in HasDesc => /\ Count(cur[u])' = Count(cur[u])
                          /\ WriteOf(cur[u])'.some => WriteOf(cur[u])' = WriteOf(cur[u])
  /\ pc[u] = "write_cell" => writes'[wd[u]] = writes[wd[u]]
  /\ pc[u] = "clear_pending" => Count(target[u])' = Count(target[u])
  /\ pc[u] = "swap_descriptor" => /\ Count(next[u])' = Count(next[u])
                                  /\ WriteOf(next[u])' = WriteOf(next[u])

LEMMA SteadyForOthers ==
  ASSUME MemoryInv, MemoryInv', BucketInv, OwnWriteIsNotFreed, Steady,
         NEW u \in Threads, UNCHANGED Mine(u),
         next[u] # Null => descs'[next[u]] = descs[next[u]]
  PROVE  Undisturbed(u)
<1>1. /\ pc'[u] = pc[u] /\ op'[u] = op[u] /\ cur'[u] = cur[u] /\ wd'[u] = wd[u]
      /\ target'[u] = target[u] /\ ret'[u] = ret[u] /\ next'[u] = next[u]
  BY DEF Mine
<1>2. Scopes(u) /\ DescsInOrder  BY InOrder DEF MemoryInv
<1>3. cur[u] # Null => cur[u] \in DAddrs /\ heap[cur[u]] # "free" /\ heap'[cur[u]] # "free"
  BY <1>1, Holds DEF MemoryInv, Protected
<1>4. target[u] # Null =>
        target[u] \in DAddrs /\ heap[target[u]] # "free" /\ heap'[target[u]] # "free"
  BY <1>1, Holds DEF MemoryInv, Protected
<1>5. next[u] # Null => next[u] \in DAddrs /\ heap[next[u]] = "used"  BY Holds
<1>6. pc[u] = "write_cell" => wd[u] \in WAddrs /\ heap[wd[u]] # "free"
  <2>1. pc[u] = "write_cell" => wd[u] \in WAddrs
    BY <1>2 DEF Scopes, Writing, MemoryInv, MemoryTypeOK
  <2>2. pc[u] = "write_cell" /\ Own(u) => heap[wd[u]] # "free"  BY DEF OwnWriteIsNotFreed
  <2>3. Helping(u) => heap[wd[u]] # "free"
    <3>1. Helping(u) /\ PendingIn(cur[u], wd[u]) => heap[wd[u]] = "used"
      BY <1>2, Holds DEF DescsInOrder, PendingIn
    <3> QED  BY <3>1, Holds
  <2> QED  BY <2>1, <2>2, <2>3 DEF Helping
<1>7. pc[u] \in HasDesc => /\ Count(cur[u])' = Count(cur[u])
                           /\ WriteOf(cur[u])'.some => WriteOf(cur[u])' = WriteOf(cur[u])
  BY <1>1, <1>2, <1>3 DEF Scopes, Steady, Count, WriteOf
<1>8. pc[u] = "write_cell" => writes'[wd[u]] = writes[wd[u]]  BY <1>6 DEF Steady
<1>9. pc[u] = "clear_pending" => Count(target[u])' = Count(target[u])
  BY <1>1, <1>2, <1>4 DEF Scopes, Steady, Count
<1>10. pc[u] = "swap_descriptor" => /\ Count(next[u])' = Count(next[u])
                                    /\ WriteOf(next[u])' = WriteOf(next[u])
  BY <1>1, <1>2, <1>5 DEF Scopes, Steady, Count, WriteOf, DescsInOrder
<1> QED  BY <1>7, <1>8, <1>9, <1>10 DEF Undisturbed

\* The size moves in the direction of the phase, and by a swap only.
Onward ==
  /\ phase = 1 => \/ UNCHANGED descriptor /\ Count(descriptor)' = Count(descriptor)
                  \/ Count(descriptor)' > Count(descriptor)
  /\ phase = 2 => Count(descriptor)' <= Count(descriptor)

\* Of another worker everything stays.
LEMMA OthersKnown ==
  ASSUME MemoryInv, BucketInv, MemoryInv', BucketInv', phase \in 0 .. 2, UNCHANGED phase,
         Onward, NEW u \in Workers, WorkerKnown(u), Undisturbed(u)
  PROVE  /\ WorkerKnown(u)' /\ Announced(u)' = Announced(u)
         /\ Completing(u)' <=> Completing(u)
         /\ Completing(u) => Count(cur[u])' = Count(cur[u])
         /\ \A i : ToWrite(u, i)' <=> ToWrite(u, i)
<1>0. DescsInOrder /\ DescsInOrder' /\ u \in Threads  BY InOrder, InOrderNext DEF Workers
<1>1. /\ pc'[u] = pc[u] /\ op'[u] = op[u] /\ arg'[u] = arg[u] /\ calls'[u] = calls[u]
      /\ cur'[u] = cur[u] /\ wd'[u] = wd[u] /\ target'[u] = target[u] /\ ret'[u] = ret[u]
      /\ elem'[u] = elem[u] /\ next'[u] = next[u]
  BY DEF Undisturbed, Mine
<1>2. /\ Before' = Before /\ Own(u)' = Own(u) /\ Unannounced(u)' = Unannounced(u)
      /\ Completing(u)' = Completing(u)
  BY <1>1 DEF Before, Own, Unannounced, Completing
<1>3. Announced(u)' = Announced(u)  BY <1>1, <1>2 DEF Announced
<1>4. WorkerCalled(u)'  BY <1>1, <1>2 DEF WorkerKnown, WorkerCalled
<1>5. Completing(u) => pc[u] \in HasDesc  BY DEF Completing, HasDesc, Writing
<1>6. \A i : ToWrite(u, i)' <=> ToWrite(u, i)
  BY <1>1, <1>2, <1>5 DEF ToWrite, Undisturbed
<1>7. pc[u] \in HasDesc => Count(cur[u]) \in Nat
  BY <1>0, Holds DEF DescsInOrder, MemoryInv, Scopes
<1>8. Count(descriptor) \in Nat /\ Count(descriptor)' \in Nat
  BY <1>0 DEF DescsInOrder
<1>9. Writing \subseteq HasDesc /\ "swap_descriptor" \in HasDesc  BY DEF Writing, HasDesc
<1>10. pc[u] \in Writing => Made(u)' = Made(u) /\ Made(u) \in Nat
  BY <1>1, <1>2, <1>7, <1>9 DEF Made, Undisturbed
<1>11. ASSUME phase = 1  PROVE PushKnown(u)'
  <2>1. PushKnown(u)  BY <1>11 DEF WorkerKnown
  <2>2. /\ Count(descriptor)' >= Count(descriptor)
        /\ Count(descriptor)' = Count(descriptor) => descriptor' = descriptor
    BY <1>8, <1>11 DEF Onward
  <2>3. pc[u] \in HasDesc =>
          /\ (Count(cur[u]) <= Count(descriptor))'
          /\ WriteOf(cur[u])'.some => IsWrite(WriteOf(cur[u]), Count(cur[u]))'
    <3>1. pc[u] \in HasDesc => Count(cur[u])' = Count(cur[u])  BY DEF Undisturbed
    <3>2. ASSUME pc[u] \in HasDesc, WriteOf(cur[u])'.some
          PROVE  IsWrite(WriteOf(cur[u]), Count(cur[u]))'
      <4>1. WriteOf(cur[u])' = WriteOf(cur[u])  BY <3>2 DEF Undisturbed
      <4>2. WriteOf(cur[u]).some  BY <3>2, <4>1
      <4>3. IsWrite(WriteOf(cur[u]), Count(cur[u]))  BY <2>1, <3>2, <4>2 DEF PushKnown
      <4> QED  BY <3>1, <3>2, <4>1, <4>3 DEF IsWrite
    <3>3. pc[u] \in HasDesc => (Count(cur[u]) <= Count(descriptor))'
      BY <1>7, <1>8, <2>1, <2>2, <3>1 DEF PushKnown
    <3> QED  BY <3>2, <3>3
  <2>4. pc[u] \in Writing => (Made(u) <= Count(descriptor))'
    BY <1>8, <1>10, <2>1, <2>2 DEF PushKnown
  <2>5. pc[u] = "write_cell" => IsWrite(writes[wd[u]], Made(u))'
    BY <1>1, <1>10, <2>1 DEF PushKnown, Undisturbed, IsWrite, Writing
  <2>6. pc[u] = "clear_pending" =>
          (/\ Made(u) <= Count(target[u]) /\ Count(target[u]) <= Count(descriptor)
           /\ Count(target[u]) = Count(descriptor) => target[u] = descriptor)'
    <3>1. pc[u] = "clear_pending" => Count(target[u]) \in Nat
      BY <1>0, Holds DEF DescsInOrder, MemoryInv, Scopes
    <3>2. pc[u] = "clear_pending" => Count(target[u])' = Count(target[u])  BY DEF Undisturbed
    <3> QED  BY <1>1, <1>8, <1>10, <2>1, <2>2, <3>1, <3>2 DEF PushKnown, Writing
  <2>7. pc[u] = "swap_descriptor" =>
          (/\ Count(next[u]) = Count(cur[u]) + 1
           /\ WriteOf(next[u]) = [some |-> TRUE, new |-> FIVE, old |-> WriteOf(next[u]).old,
                                  location |-> Count(cur[u])]
           /\ Count(cur[u]) = Count(descriptor) => WriteOf(next[u]).old = Zero)'
    <3>1. pc[u] = "swap_descriptor" => /\ Count(next[u])' = Count(next[u])
                                       /\ WriteOf(next[u])' = WriteOf(next[u])
                                       /\ Count(cur[u])' = Count(cur[u])
      BY <1>9 DEF Undisturbed
    <3>2. pc[u] = "swap_descriptor" => Count(cur[u]) <= Count(descriptor)
      BY <1>9, <2>1 DEF PushKnown
    <3>3. ASSUME pc[u] = "swap_descriptor"
          PROVE  WriteOf(next[u])' = [some |-> TRUE, new |-> FIVE, old |-> WriteOf(next[u])'.old,
                                      location |-> Count(cur[u])']
      <4>1. WriteOf(next[u]) = [some |-> TRUE, new |-> FIVE, old |-> WriteOf(next[u]).old,
                                location |-> Count(cur[u])]
        BY <2>1, <3>3 DEF PushKnown
      <4> QED  BY <3>1, <3>3, <4>1
    <3>4. ASSUME pc[u] = "swap_descriptor", Count(cur[u])' = Count(descriptor)'
          PROVE  WriteOf(next[u])'.old = Zero
      <4>1. Count(cur[u]) = Count(descriptor)
        BY <1>7, <1>8, <1>9, <2>2, <3>1, <3>2, <3>4
      <4>2. WriteOf(next[u]).old = Zero  BY <2>1, <3>4, <4>1 DEF PushKnown
      <4> QED  BY <3>1, <3>4, <4>2
    <3>5. pc[u] = "swap_descriptor" => (Count(next[u]) = Count(cur[u]) + 1)'
      BY <2>1, <3>1 DEF PushKnown
    <3> QED  BY <3>3, <3>4, <3>5
  <2> QED  BY <1>1, <2>3, <2>4, <2>5, <2>6, <2>7 DEF PushKnown
<1>12. ASSUME phase = 2  PROVE PopKnown(u)'
  <2>1. PopKnown(u) /\ Count(descriptor)' <= Count(descriptor)
    BY <1>12 DEF WorkerKnown, Onward
  <2>2. Total' = Total /\ Total \in Nat  BY ElementsFinite DEF Total, Workers
  <2>3. pc[u] \in HasDesc =>
          (Count(cur[u]) \in Count(descriptor) .. Total /\ ~WriteOf(cur[u]).some)'
    BY <1>7, <1>8, <2>1, <2>2 DEF PopKnown, Undisturbed
  <2> QED  BY <1>1, <1>9, <2>1, <2>3 DEF PopKnown, Undisturbed
<1> QED  BY <1>2, <1>3, <1>4, <1>5, <1>6, <1>11, <1>12 DEF WorkerKnown, Undisturbed

-----------------------------------------------------------------------------
(* The steps of a thread *)

\* What a thread does changes the locals of that thread only.
LEMMA EndMine ==
  ASSUME BucketInv, NEW t \in Threads, EndOfScope(t), UNCHANGED <<op, arg, calls>>,
         Goto(t, "idle") \/ Goto(t, "panicked") \/ Goto(t, "load_descriptor")
  PROVE  \A u \in Threads \ {t} : UNCHANGED Mine(u)
BY DEF BucketInv, TypeOK, CallTypeOK, WorkTypeOK, EndOfScope, Goto, Mine

LEMMA MineOnly ==
  ASSUME BucketInv, NEW t \in Threads, Step(t)
  PROVE  UNCHANGED <<op, arg, calls>> /\ \A u \in Threads \ {t} : UNCHANGED Mine(u)
<1> USE DEF Goto, call, work
<1>1. CASE LoadDescriptor(t) \/ LoadPending(t) \/ WriteCell(t) \/ LoadTarget(t)
  BY <1>1 DEF BucketInv, TypeOK, CallTypeOK, WorkTypeOK, LoadDescriptor, LoadPending,
     WriteCell, LoadTarget, Mine
<1>2. CASE OwnWriteGone(t) \/ PopEmpty(t) \/ PopSwaps(t) \/ Size(t) \/ ReserveDone(t)
  BY <1>2, EndMine DEF OwnWriteGone, PopEmpty, PopSwaps, Size, ReserveDone, Return
<1>3. CASE ClearPending(t)
  <2>1. CASE Own(t)  BY <1>3, <2>1, EndMine DEF ClearPending, Return
  <2>2. CASE ~Own(t)
    BY <1>3, <2>2 DEF BucketInv, TypeOK, CallTypeOK, WorkTypeOK, ClearPending, Mine
  <2> QED  BY <2>1, <2>2
<1>4. CASE RetrySwap(t)  BY <1>4, EndMine DEF RetrySwap
<1>5. CASE CheckBucket(t) \/ PushSwaps(t) \/ ReserveSize(t)
  BY <1>5 DEF BucketInv, TypeOK, CallTypeOK, WorkTypeOK, CheckBucket, PushSwaps, ReserveSize,
     Mine
<1>6. ASSUME NEW b, CapacityOverflow(t, b)
      PROVE  UNCHANGED <<op, arg, calls>> /\ \A u \in Threads \ {t} : UNCHANGED Mine(u)
  BY <1>6, EndMine DEF CapacityOverflow, PanicIn
<1>7. ASSUME NEW b, AllocateBucket(t, b), NEW l, Goto(t, l)
      PROVE  UNCHANGED <<op, arg, calls>> /\ \A u \in Threads \ {t} : UNCHANGED Mine(u)
  BY <1>7 DEF BucketInv, TypeOK, CallTypeOK, WorkTypeOK, AllocateBucket, Mine
<1>8. CASE PushAllocates(t) \/ ReserveFirst(t) \/ ReserveNext(t)
  <2> HIDE DEF Goto
  <2> QED  BY <1>6, <1>7, <1>8 DEF PushAllocates, ReserveFirst, ReserveNext
<1>9. CASE ReadOld(t) \/ ReadLast(t)
  BY <1>9 DEF BucketInv, TypeOK, CallTypeOK, WorkTypeOK, ReadOld, ReadLast, MakeNext, Mine
<1> QED
  BY <1>1, <1>2, <1>3, <1>4, <1>5, <1>8, <1>9 DEF Step, CompleteWrite, Push, Pop, Reserve

\* The boxes that a retry gives back are those of its next Descriptor.
LEMMA FreesItsNext ==
  ASSUME MemoryInv, NEW t \in Threads, RetrySwap(t)
  PROVE  /\ next[t] \in DAddrs /\ next[t] # descriptor /\ heap[descriptor] = "used"
         /\ heap'[next[t]] = "free" /\ heap'[descs[next[t]].pending] = "free"
         /\ \A d \in DAddrs : d # next[t] => descs'[d] = descs[d] /\ heap'[d] = heap[d]
         /\ \A u \in Threads \ {t} : next[u] # Null => next[u] # next[t]
<1>1. MemoryTypeOK /\ Scopes(t) /\ DescriptorsOwned /\ pc[t] = "swap_descriptor"
  BY DEF MemoryInv, SingleOwner, RetrySwap
<1>2. next[t] \in DAddrs /\ heap[next[t]] = "used" /\ Owns(t, next[t])
  BY <1>1, Holds DEF Scopes
<1>3. next[t] # descriptor /\ heap[descriptor] = "used"  BY <1>1, InACall DEF Resting
<1>4. \A u \in Threads \ {t} : next[u] # Null => next[u] # next[t]
  BY <1>1, <1>2 DEF DescriptorsOwned, Owns
<1>5. descs[next[t]].pending \in WAddrs
  BY <1>1, <1>2 DEF MemoryInv, MemoryTypeOK, AlwaysPending
<1>6. \A d \in DAddrs : d # next[t] => descs'[d] = descs[d] /\ heap'[d] = heap[d]
  BY <1>1, <1>2, <1>5, SealedAssumption
     DEF RetrySwap, FreeDescriptor, FreedWith, MemoryTypeOK, Addrs
<1>7. heap'[next[t]] = "free" /\ heap'[descs[next[t]].pending] = "free"
  BY <1>2, <1>5 DEF RetrySwap, FreeDescriptor, FreedWith, Addrs
<1> QED  BY <1>2, <1>3, <1>4, <1>6, <1>7

\* The boxes that are made are at addresses that were free.
LEMMA MakesAtFree ==
  ASSUME MemoryInv, BucketInv, NEW t \in Threads, NEW size, NEW write, MakeNext(t, size, write)
  PROVE  /\ next'[t] \in DAddrs /\ heap[next'[t]] = "free"
         /\ descs'[next'[t]].size = size /\ descs'[next'[t]].pending \in WAddrs
         /\ writes'[descs'[next'[t]].pending] = write
         /\ \A d \in DAddrs : heap[d] # "free" => descs'[d] = descs[d]
         /\ \A w \in WAddrs : heap[w] # "free" => writes'[w] = writes[w]
<1>1. TypeOK /\ MemoryTypeOK  BY DEF BucketInv, MemoryInv
<1>2. PICK n \in DAddrs : \E m \in WAddrs :
        /\ heap[n] = "free" /\ heap[m] = "free"
        /\ writes' = [writes EXCEPT ![m] = write]
        /\ descs' = [descs EXCEPT ![n] = [size |-> size, pending |-> m]]
        /\ next'  = [next EXCEPT ![t] = n]
  BY DEF MakeNext, FreeAmong
<1>3. PICK m \in WAddrs :
        /\ heap[n] = "free" /\ heap[m] = "free"
        /\ writes' = [writes EXCEPT ![m] = write]
        /\ descs' = [descs EXCEPT ![n] = [size |-> size, pending |-> m]]
        /\ next'  = [next EXCEPT ![t] = n]
  BY <1>2
<1>4. next'[t] = n /\ descs'[n] = [size |-> size, pending |-> m] /\ writes'[m] = write
  BY <1>1, <1>3 DEF MemoryTypeOK, TypeOK, VectorTypeOK
<1> QED  BY <1>1, <1>3, <1>4 DEF MemoryTypeOK, TypeOK, VectorTypeOK

\* No step changes a box that it does not free, but for the write descriptor
\* that complete_write takes out.
LEMMA StepIsSteady ==
  ASSUME MemoryInv, BucketInv, NEW t \in Threads, Step(t)
  PROVE  /\ Steady
         /\ \A u \in Threads \ {t} : next[u] # Null => descs'[next[u]] = descs[next[u]]
<1> DEFINE Kept == /\ Steady
                   /\ \A u \in Threads \ {t} : next[u] # Null => descs'[next[u]] = descs[next[u]]
<1>0. MemoryTypeOK /\ Scopes(t) /\ DescsInOrder  BY InOrder DEF MemoryInv
<1>1. ASSUME UNCHANGED <<descs, writes>>  PROVE Kept  BY <1>1 DEF Steady, Count, WriteOf
<1>2. CASE \/ LoadDescriptor(t) \/ LoadPending(t) \/ WriteCell(t) \/ OwnWriteGone(t)
           \/ CheckBucket(t) \/ PushSwaps(t) \/ PopEmpty(t) \/ PopSwaps(t) \/ Size(t)
           \/ PushAllocates(t) \/ Reserve(t)
  <2> UNCHANGED <<descs, writes>>
    BY <1>2 DEF shared, vector, LoadDescriptor, LoadPending, WriteCell, OwnWriteGone,
       CheckBucket, PushSwaps, PopEmpty, PopSwaps, SwapDescriptor, Size, PushAllocates, Reserve,
       ReserveSize, ReserveFirst, ReserveNext, ReserveDone, AllocateBucket, CapacityOverflow,
       PanicIn
  <2> QED  BY <1>1
<1>3. CASE LoadTarget(t)
  <2>1. PICK n \in WAddrs : heap[n] = "free" /\ writes' = [writes EXCEPT ![n] = NoWrite]
    BY <1>3 DEF LoadTarget, FreeAmong
  <2>2. \A w \in WAddrs : heap[w] # "free" => writes'[w] = writes[w]
    BY <2>1 DEF BucketInv, TypeOK, VectorTypeOK
  <2>3. UNCHANGED descs  BY <1>3 DEF LoadTarget
  <2>4. \A d \in DAddrs : heap[d] # "free" => WriteOf(d)' = WriteOf(d) /\ Count(d)' = Count(d)
    BY <1>0, <2>2, <2>3 DEF DescsInOrder, WriteOf, Count
  <2> QED  BY <2>2, <2>3, <2>4 DEF Steady
<1>4. CASE ClearPending(t)
  <2>1. /\ descs' = [descs EXCEPT ![target[t]].pending = fresh[t]] /\ UNCHANGED writes
        /\ target[t] # Null /\ fresh[t] # Null
    BY <1>0, <1>4 DEF ClearPending, Scopes
  <2>2. target[t] \in DAddrs /\ ~writes[fresh[t]].some
    BY <2>1, Holds DEF BucketInv, BucketKnown, LoopKnown
  <2>3. /\ \A d \in DAddrs : d # target[t] => descs'[d] = descs[d]
        /\ descs'[target[t]].size = descs[target[t]].size
        /\ descs'[target[t]].pending = fresh[t]
    BY <1>0, <2>1, <2>2 DEF MemoryTypeOK
  <2>4. \A d \in DAddrs : /\ descs'[d].size = descs[d].size
                          /\ WriteOf(d)'.some => WriteOf(d)' = WriteOf(d)
    <3> TAKE d \in DAddrs
    <3>1. CASE d = target[t]
      <4>1. WriteOf(d)' = writes[fresh[t]]  BY <2>1, <2>3, <3>1 DEF WriteOf
      <4> QED  BY <2>2, <2>3, <3>1, <4>1
    <3>2. CASE d # target[t]
      <4>1. WriteOf(d)' = WriteOf(d)  BY <2>1, <2>3, <3>2 DEF WriteOf
      <4> QED  BY <2>3, <3>2, <4>1
    <3> QED  BY <3>1, <3>2
  <2>5. \A u \in Threads : next[u] # Null => next[u] \in DAddrs /\ next[u] # target[t]
    BY <2>2, Holds
  <2> QED  BY <2>1, <2>3, <2>4, <2>5 DEF Steady
<1>5. CASE RetrySwap(t)
  <2>1. UNCHANGED writes  BY <1>5 DEF RetrySwap
  <2>2. \A d \in DAddrs : heap'[d] # "free" => WriteOf(d)' = WriteOf(d) /\ descs'[d] = descs[d]
    BY <1>5, <2>1, FreesItsNext DEF WriteOf
  <2>3. \A u \in Threads \ {t} : next[u] # Null => next[u] \in DAddrs /\ next[u] # next[t]
    BY <1>5, FreesItsNext, Holds
  <2>4. \A u \in Threads \ {t} : next[u] # Null => descs'[next[u]] = descs[next[u]]
    BY <1>5, <2>3, FreesItsNext
  <2> QED  BY <2>1, <2>2, <2>4 DEF Steady
<1>6. CASE ReadOld(t) \/ ReadLast(t)
  <2>1. PICK size, write : MakeNext(t, size, write)  BY <1>6 DEF ReadOld, ReadLast
  <2>2. /\ \A d \in DAddrs : heap[d] # "free" => descs'[d] = descs[d]
        /\ \A w \in WAddrs : heap[w] # "free" => writes'[w] = writes[w]
    BY <2>1, MakesAtFree
  <2>3. \A d \in DAddrs : heap[d] # "free" => WriteOf(d)' = WriteOf(d)
    BY <1>0, <2>2 DEF DescsInOrder, WriteOf
  <2>4. \A u \in Threads : next[u] # Null => next[u] \in DAddrs /\ heap[next[u]] = "used"
    BY Holds
  <2> QED  BY <2>2, <2>3, <2>4 DEF Steady
<1> QED
  BY <1>2, <1>3, <1>4, <1>5, <1>6 DEF Step, CompleteWrite, Push, Pop

\* So the others are not disturbed.
LEMMA OthersUndisturbed ==
  ASSUME MemoryInv, MemoryInv', BucketInv, OwnWriteIsNotFreed, NEW t \in Threads, Step(t)
  PROVE  \A u \in Threads \ {t} : Undisturbed(u)
<1> TAKE u \in Threads \ {t}
<1>1. UNCHANGED Mine(u)  BY MineOnly
<1>2. Steady /\ (next[u] # Null => descs'[next[u]] = descs[next[u]])  BY StepIsSteady
<1> QED  BY <1>1, <1>2, SteadyForOthers

-----------------------------------------------------------------------------
(* From what one worker does to the invariant *)

LEMMA StepInCall ==
  ASSUME MemoryInv, BucketInv, NEW t \in Threads, Step(t)
  PROVE  pc[t] \notin Resting /\ UNCHANGED dropped
<1> USE DEF shared, vector, Resting, SwapDescriptor, PanicIn, Return
<1>1. CASE LoadDescriptor(t) \/ RetrySwap(t) \/ Size(t)
  BY <1>1 DEF LoadDescriptor, RetrySwap, Size
<1>2. CASE CompleteWrite(t)
  BY <1>2 DEF CompleteWrite, LoadPending, WriteCell, OwnWriteGone, LoadTarget, ClearPending
<1>3. CASE Push(t)
  BY <1>3 DEF Push, CheckBucket, PushAllocates, AllocateBucket, CapacityOverflow, ReadOld,
     MakeNext, PushSwaps
<1>4. CASE Pop(t)  BY <1>4 DEF Pop, PopEmpty, ReadLast, MakeNext, PopSwaps
<1>5. CASE Reserve(t)
  BY <1>5 DEF Reserve, ReserveSize, ReserveFirst, ReserveNext, ReserveDone, AllocateBucket,
     CapacityOverflow
<1> QED  BY <1>1, <1>2, <1>3, <1>4, <1>5 DEF Step

\* A worker in a call pushes in phase 1 and pops in phase 2.
LEMMA AtWork ==
  ASSUME MainInv, NEW t \in Workers, pc[t] # "idle"
  PROVE  /\ t \in Threads /\ t # Main /\ WorkerKnown(t)
         /\ \/ phase = 1 /\ op[t] = "push" /\ arg[t] = FIVE /\ PushKnown(t)
            \/ phase = 2 /\ op[t] = "pop" /\ PopKnown(t)
<1>1. phase \in 0 .. 2 /\ phase # 0  BY DEF MainInv, MainFirst
<1>2. WorkerKnown(t) /\ WorkerCalled(t)  BY DEF MainInv, WorkerKnown
<1>3. phase = 1 \/ phase = 2  BY <1>1
<1> QED  BY <1>2, <1>3 DEF WorkerKnown, WorkerCalled, Workers

\* What a state and a step of worker t must satisfy for the rest to follow.
LEMMA Assembled ==
  ASSUME MemoryInv, BucketInv, MainInv, MemoryInv', BucketInv', OwnWriteIsNotFreed',
         NEW t \in Workers, UNCHANGED phase, phase \in {1, 2}, Onward,
         \A u \in Threads \ {t} : Undisturbed(u),
         WorkerKnown(t)', PendingOwned', CellsKnown',
         Count(descriptor)' = Cardinality(Present'),
         sum' = IF phase = 2 THEN FIVE * (Total - Count(descriptor)') ELSE 0
  PROVE  MainInv'
<1>1. Main \in Threads \ {t}  BY MainAssumption DEF Workers
<1>2. MainFirst'  BY <1>1 DEF MainInv, MainFirst, Undisturbed, Mine
<1>3. ASSUME NEW u \in Workers \ {t}  PROVE WorkerKnown(u)'
  <2>1. u \in Threads \ {t} /\ WorkerKnown(u)  BY DEF Workers, MainInv
  <2> QED  BY <2>1, OthersKnown
<1>4. Total' = Total  BY DEF Total, Workers
<1> QED  BY <1>2, <1>3, <1>4 DEF MainInv

\* A call goes on, and has announced as much as before.
LEMMA StillCalled ==
  ASSUME NEW t \in Workers, WorkerCalled(t), pc[t] # "idle", UNCHANGED <<phase, op, arg, calls>>,
         Unannounced(t)' <=> Unannounced(t)
  PROVE  WorkerCalled(t)' /\ Announced(t)' = Announced(t)
<1>1. Before' = Before  BY DEF Before
<1>2. Announced(t)' = Announced(t)  BY <1>1 DEF Announced
<1>3. WorkerCalled(t)'  BY <1>1 DEF WorkerCalled
<1> QED  BY <1>2, <1>3

\* The Descriptor that stays current keeps its size.
LEMMA StaysCurrent ==
  ASSUME MemoryInv, BucketInv, MemoryInv', NEW t \in Threads, Step(t), UNCHANGED descriptor
  PROVE  /\ Count(descriptor)' = Count(descriptor)
         /\ WriteOf(descriptor)'.some => WriteOf(descriptor)' = WriteOf(descriptor)
<1>1. ~dropped /\ ~dropped' /\ heap[descriptor] = "used"
  BY StepInCall, InACall
<1>2. descriptor \in DAddrs /\ heap'[descriptor] = "used"
  BY <1>1 DEF MemoryInv, MemoryTypeOK, SingleOwner, DescriptorsOwned, VectorOwns
<1>3. Steady  BY StepIsSteady
<1> QED  BY <1>1, <1>2, <1>3 DEF Steady, Count, WriteOf

\* A step other than a swap: what is left to show is what t knows after it,
\* and that its write, and the cells, are not lost.
LEMMA Quietly ==
  ASSUME MemoryInv, BucketInv, MainInv, MemoryInv', BucketInv', OwnWriteIsNotFreed',
         NEW t \in Workers, MainStep(t), UNCHANGED descriptor,
         op[t] = "push" \/ pc'[t] # "idle", Unannounced(t)' <=> Unannounced(t),
         phase = 1 => PushKnown(t)', phase = 2 => PopKnown(t)',
         Completing(t) /\ Count(cur[t]) + 1 = Count(descriptor) /\ WriteOf(descriptor)'.some
           => Completing(t)' /\ Count(cur[t])' = Count(cur[t]),
         CellsKnown' \/ (UNCHANGED cells /\ pc[t] # "write_cell")
  PROVE  MainInv'
<1>1. t \in Threads /\ Step(t) /\ UNCHANGED <<phase, sum>>
  BY DEF MainStep, Workers
<1>2. UNCHANGED <<op, arg, calls>> /\ \A u \in Threads \ {t} : Undisturbed(u)
  BY <1>1, MineOnly, OthersUndisturbed DEF MainInv
<1>3. pc[t] # "idle" /\ WorkerKnown(t) /\ WorkerCalled(t) /\ phase \in {1, 2}
  BY <1>1, StepInCall, AtWork DEF Resting, WorkerKnown
<1>4. WorkerCalled(t)' /\ Announced(t)' = Announced(t)
  BY <1>1, <1>2, <1>3, StillCalled
<1>5. /\ Count(descriptor)' = Count(descriptor)
      /\ WriteOf(descriptor)'.some => WriteOf(descriptor)' = WriteOf(descriptor)
  BY <1>1, StaysCurrent
<1>6. Count(descriptor) \in Nat  BY InOrder DEF DescsInOrder
<1>7. Onward  BY <1>5, <1>6 DEF Onward
<1>8. ASSUME NEW u \in Workers \ {t}
      PROVE  /\ Announced(u)' = Announced(u)
             /\ Completing(u) => Completing(u)' /\ Count(cur[u])' = Count(cur[u])
             /\ \A i : ToWrite(u, i)' <=> ToWrite(u, i)
  <2>1. u \in Threads \ {t} /\ WorkerKnown(u) /\ phase \in 0 .. 2
    BY DEF Workers, MainInv, MainFirst
  <2> QED  BY <1>1, <1>2, <1>7, <2>1, OthersKnown
<1>9. Present' = Present  BY <1>1, <1>4, <1>8, SameElements
<1>10. Total' = Total  BY DEF Total, Workers
<1>11. PendingOwned'
  <2> SUFFICES ASSUME WriteOf(descriptor)'.some
               PROVE  /\ IsWrite(WriteOf(descriptor), Count(descriptor))'
                      /\ (\E u \in Workers :
                              Completing(u) /\ Count(cur[u]) + 1 = Count(descriptor))'
    BY DEF PendingOwned
  <2>1. WriteOf(descriptor)' = WriteOf(descriptor)  BY <1>5
  <2>2. WriteOf(descriptor).some  BY <2>1
  <2>3. IsWrite(WriteOf(descriptor), Count(descriptor))  BY <2>2 DEF MainInv, PendingOwned
  <2>4. PICK u \in Workers : Completing(u) /\ Count(cur[u]) + 1 = Count(descriptor)
    BY <2>2 DEF MainInv, PendingOwned
  <2>5. Completing(u)' /\ Count(cur[u])' = Count(cur[u])
    BY <1>8, <2>4
  <2>6. IsWrite(WriteOf(descriptor), Count(descriptor))'
    BY <1>5, <2>1, <2>3 DEF IsWrite
  <2>7. Completing(u)' /\ Count(cur[u])' + 1 = Count(descriptor)'
    BY <1>5, <2>4, <2>5
  <2>8. Workers' = Workers  BY DEF Workers
  <2> QED  BY <2>6, <2>7, <2>8
<1>12. CellsKnown'
  <2> SUFFICES ASSUME UNCHANGED cells, pc[t] # "write_cell"  PROVE CellsKnown'
    OBVIOUS
  <2>1. \A i : ~ToWrite(t, i)  BY DEF ToWrite
  <2>2. \A u \in Workers : \A i : ToWrite(u, i) => ToWrite(u, i)'
    BY <1>8, <2>1
  <2>3. CellsKnown  BY DEF MainInv
  <2> HIDE DEF ToWrite
  <2> QED  BY <1>1, <1>5, <1>10, <2>2, <2>3 DEF CellsKnown, Workers
<1>13. Count(descriptor)' = Cardinality(Present')  BY <1>5, <1>9 DEF MainInv
<1>14. sum' = IF phase = 2 THEN FIVE * (Total - Count(descriptor)') ELSE 0
  BY <1>1, <1>5 DEF MainInv
<1> QED
  BY <1>1, <1>2, <1>3, <1>4, <1>7, <1>11, <1>12, <1>13, <1>14, Assembled DEF WorkerKnown

\* What t knew of its Descriptor it still knows while it has it.
LEMMA SameDesc ==
  ASSUME MemoryInv, BucketInv, MainInv, MemoryInv', BucketInv',
         NEW t \in Workers, MainStep(t), UNCHANGED descriptor,
         pc[t] \in HasDesc, pc'[t] \in HasDesc, cur'[t] = cur[t]
  PROVE  /\ Count(cur[t]) \in Nat /\ Count(cur[t])' = Count(cur[t])
         /\ Count(descriptor) \in Nat /\ Count(descriptor)' = Count(descriptor)
         /\ phase = 1 => /\ Count(cur[t])' <= Count(descriptor)'
                         /\ WriteOf(cur[t])'.some => IsWrite(WriteOf(cur[t]), Count(cur[t]))'
         /\ phase = 2 => Count(cur[t])' \in Count(descriptor)' .. Total' /\ ~WriteOf(cur[t])'.some
<1>1. t \in Threads /\ Step(t) /\ DescsInOrder /\ pc[t] # "idle"
  BY InOrder, StepInCall DEF MainStep, Workers, Resting
<1>2. cur[t] \in DAddrs /\ heap[cur[t]] # "free" /\ heap'[cur[t]] # "free"
  <2>1. cur[t] # Null  BY <1>1 DEF MemoryInv, Scopes
  <2> QED  BY <1>1, <2>1, Holds DEF MemoryInv, Protected
<1>3. /\ Count(cur[t])' = Count(cur[t])
      /\ WriteOf(cur[t])'.some => WriteOf(cur[t])' = WriteOf(cur[t])
  BY <1>1, <1>2, StepIsSteady DEF Steady, Count, WriteOf
<1>4. /\ Count(cur[t]) \in Nat /\ Count(descriptor) \in Nat
      /\ Count(descriptor)' = Count(descriptor)
  BY <1>1, <1>2, StaysCurrent DEF DescsInOrder
<1>5. ASSUME phase = 1
      PROVE  /\ Count(cur[t])' <= Count(descriptor)'
             /\ WriteOf(cur[t])'.some => IsWrite(WriteOf(cur[t]), Count(cur[t]))'
  <2>1. PushKnown(t)  BY <1>1, <1>5, AtWork
  <2>2. Count(cur[t])' <= Count(descriptor)'  BY <1>3, <1>4, <2>1 DEF PushKnown
  <2>3. WriteOf(cur[t]).some => IsWrite(WriteOf(cur[t]), Count(cur[t]))
    BY <2>1 DEF PushKnown
  <2>4. ASSUME WriteOf(cur[t])'.some  PROVE IsWrite(WriteOf(cur[t]), Count(cur[t]))'
    <3>1. WriteOf(cur[t])' = WriteOf(cur[t])  BY <1>3, <2>4
    <3>2. WriteOf(cur[t]).some  BY <2>4, <3>1
    <3> QED  BY <1>3, <2>3, <3>1, <3>2 DEF IsWrite
  <2> QED  BY <2>2, <2>4
<1>6. ASSUME phase = 2
      PROVE  Count(cur[t])' \in Count(descriptor)' .. Total' /\ ~WriteOf(cur[t])'.some
  <2>1. PopKnown(t)  BY <1>1, <1>6, AtWork
  <2>2. Count(cur[t]) \in Count(descriptor) .. Total /\ ~WriteOf(cur[t]).some
    BY <2>1 DEF PopKnown
  <2>3. Total' = Total  BY DEF Total, Workers
  <2>4. ~WriteOf(cur[t])'.some  BY <1>3, <2>2
  <2> QED  BY <1>3, <1>4, <2>2, <2>3, <2>4
<1> QED  BY <1>3, <1>4, <1>5, <1>6

\* Of the current Descriptor.
LEMMA CurrentKnown ==
  ASSUME MemoryInv, BucketInv, MainInv
  PROVE  /\ Count(descriptor) \in Nat /\ Total \in Nat /\ Count(descriptor) <= Total
         /\ WriteOf(descriptor).some => IsWrite(WriteOf(descriptor), Count(descriptor))
         /\ phase = 2 => ~WriteOf(descriptor).some
<1>1. Count(descriptor) \in Nat /\ Total \in Nat /\ Count(descriptor) <= Total
  BY InOrder, ElementsFinite DEF DescsInOrder, MainInv
<1>2. WriteOf(descriptor).some => IsWrite(WriteOf(descriptor), Count(descriptor))
  BY DEF MainInv, PendingOwned
<1>3. ASSUME phase = 2, WriteOf(descriptor).some  PROVE FALSE
  <2>1. PICK u \in Workers : Completing(u)  BY <1>3 DEF MainInv, PendingOwned
  <2>2. PopKnown(u)  BY <1>3 DEF MainInv, WorkerKnown
  <2> QED  BY <2>1, <2>2 DEF PopKnown, Completing
<1> QED  BY <1>1, <1>2, <1>3

LEMMA LoadsDescriptor ==
  ASSUME MemoryInv, BucketInv, MainInv, MemoryInv', BucketInv', OwnWriteIsNotFreed',
         NEW t \in Workers, MainStep(t), LoadDescriptor(t)
  PROVE  MainInv'
<1>1. t \in Threads /\ pc[t] = "load_descriptor" /\ TypeOK
  BY DEF Workers, LoadDescriptor, BucketInv
<1>2. /\ pc'[t] = "load_pending" /\ cur'[t] = descriptor
      /\ UNCHANGED <<descriptor, descs, writes, cells, ret>>
  BY <1>1 DEF LoadDescriptor, Goto, TypeOK, CallTypeOK, WorkTypeOK, shared, vector, work
<1>3. Unannounced(t) /\ Unannounced(t)'  BY <1>1, <1>2 DEF Unannounced
<1>4. /\ Count(cur[t])' = Count(descriptor) /\ WriteOf(cur[t])' = WriteOf(descriptor)
      /\ Count(descriptor)' = Count(descriptor)
  BY <1>2 DEF Count, WriteOf
<1>5. PushKnown(t)'
  <2>1. WriteOf(cur[t])'.some => IsWrite(WriteOf(cur[t]), Count(cur[t]))'
    BY <1>4, CurrentKnown DEF IsWrite
  <2>2. Count(cur[t])' <= Count(descriptor)'  BY <1>4, CurrentKnown
  <2> QED  BY <1>2, <2>1, <2>2 DEF PushKnown, Writing
<1>6. phase = 2 => PopKnown(t)'
  <2>1. Total' = Total  BY DEF Total, Workers
  <2>2. Count(cur[t])' \in Count(descriptor)' .. Total'
    BY <1>4, <2>1, CurrentKnown
  <2>3. phase = 2 => ~WriteOf(cur[t])'.some  BY <1>4, CurrentKnown
  <2> QED  BY <1>2, <2>2, <2>3 DEF PopKnown
<1>7. ~Completing(t)  BY <1>1 DEF Completing
<1> QED  BY <1>1, <1>2, <1>3, <1>5, <1>6, <1>7, Quietly

LEMMA LoadsPending ==
  ASSUME MemoryInv, BucketInv, MainInv, MemoryInv', BucketInv', OwnWriteIsNotFreed',
         NEW t \in Workers, MainStep(t), LoadPending(t)
  PROVE  MainInv'
<1>1. t \in Threads /\ pc[t] = "load_pending" /\ TypeOK
  BY DEF Workers, LoadPending, BucketInv
<1>2. /\ cur'[t] = cur[t] /\ UNCHANGED <<descriptor, descs, writes, cells, op>>
      /\ pc'[t] = IF WriteOf(cur[t]).some THEN "write_cell" ELSE AfterHelping(t)
      /\ WriteOf(cur[t]).some => wd'[t] = descs[cur[t]].pending /\ ret'[t] = AfterHelping(t)
  BY <1>1 DEF LoadPending, Goto, TypeOK, CallTypeOK, WorkTypeOK, shared, vector, call, WriteOf
<1>3. \/ phase = 1 /\ op[t] = "push" /\ AfterHelping(t) = "check_bucket" /\ PushKnown(t)
      \/ phase = 2 /\ op[t] = "pop" /\ AfterHelping(t) = "read_elem" /\ PopKnown(t)
  BY <1>1, AtWork DEF AfterHelping
<1>4. ~Completing(t) /\ Unannounced(t)  BY <1>1 DEF Completing, Unannounced
<1>5. pc[t] \in HasDesc /\ pc'[t] \in HasDesc  BY <1>1, <1>2, <1>3 DEF HasDesc, Writing
<1>6. /\ Count(cur[t]) \in Nat /\ Count(cur[t])' = Count(cur[t])
      /\ Count(descriptor) \in Nat /\ Count(descriptor)' = Count(descriptor)
      /\ phase = 1 => /\ Count(cur[t])' <= Count(descriptor)'
                      /\ WriteOf(cur[t])'.some => IsWrite(WriteOf(cur[t]), Count(cur[t]))'
      /\ phase = 2 => Count(cur[t])' \in Count(descriptor)' .. Total' /\ ~WriteOf(cur[t])'.some
  BY <1>2, <1>5, SameDesc
<1>7. ret'[t] \in {"check_bucket", "read_elem"} => ~Own(t)'  BY DEF Own
<1>8. Unannounced(t)'  BY <1>2, <1>3, <1>7 DEF Unannounced, Writing
<1>9. ASSUME phase = 1  PROVE PushKnown(t)'
  <2>1. pc'[t] \in {"write_cell", "check_bucket"} /\ AfterHelping(t) = "check_bucket"
    BY <1>2, <1>3, <1>9
  <2>2. CASE pc'[t] = "write_cell"
    <3>1. WriteOf(cur[t]).some /\ ~Own(t)'  BY <1>2, <1>7, <2>1, <2>2
    <3>2. Made(t)' = Count(cur[t])'  BY <3>1 DEF Made
    <3>3. writes'[wd'[t]] = WriteOf(cur[t])  BY <1>2, <3>1 DEF WriteOf
    <3>4. IsWrite(WriteOf(cur[t]), Count(cur[t]))
      BY <1>3, <1>5, <1>9, <3>1 DEF PushKnown
    <3>5. IsWrite(writes[wd[t]], Made(t))'  BY <1>6, <3>2, <3>3, <3>4 DEF IsWrite
    <3> QED  BY <1>6, <1>9, <2>2, <3>2, <3>5 DEF PushKnown
  <2>3. CASE pc'[t] = "check_bucket"  BY <1>6, <1>9, <2>3 DEF PushKnown, Writing
  <2> QED  BY <2>1, <2>2, <2>3
<1>10. ASSUME phase = 2  PROVE PopKnown(t)'
  <2>1. ~WriteOf(cur[t]).some  BY <1>3, <1>5, <1>10 DEF PopKnown
  <2>2. pc'[t] = "read_elem"  BY <1>2, <1>3, <1>10, <2>1
  <2> QED  BY <1>6, <1>10, <2>2 DEF PopKnown
<1> QED  BY <1>1, <1>2, <1>3, <1>4, <1>5, <1>8, <1>9, <1>10, Quietly DEF HasDesc, Writing

\* What complete_write reads of the write descriptor: neither push's own one
\* nor, to a helper, one that it protects was freed.
LEMMA WriteIsThere ==
  ASSUME MemoryInv, MainInv, NEW t \in Threads, pc[t] = "write_cell"
  PROVE  wd[t] \in WAddrs /\ heap[wd[t]] # "free" /\ Contents(wd[t]) = {writes[wd[t]]}
<1>1. MemoryTypeOK /\ Scopes(t) /\ AlwaysPending  BY DEF MemoryInv
<1>2. wd[t] \in WAddrs  BY <1>1 DEF MemoryTypeOK, Scopes, Writing
<1>3. CASE Own(t)  BY <1>2, <1>3 DEF MainInv, OwnWriteIsNotFreed, Contents
<1>4. CASE ~Own(t)
  <2>1. Helping(t)  BY <1>4 DEF Helping
  <2>2. heap[wd[t]] # "free"
    <3>1. PendingIn(cur[t], wd[t]) => heap[wd[t]] = "used"
      BY <1>2, <2>1, Holds DEF MemoryInv, SingleOwner, WritesOwned
    <3> QED  BY <2>1, <3>1, Holds
  <2> QED  BY <1>2, <2>2 DEF Contents
<1> QED  BY <1>3, <1>4

\* A thread in complete_write: it is in a push.
LEMMA InCompleteWrite ==
  ASSUME MemoryInv, BucketInv, MainInv, NEW t \in Workers, pc[t] \in Writing
  PROVE  /\ t \in Threads /\ phase = 1 /\ op[t] = "push" /\ PushKnown(t)
         /\ Completing(t) <=> Own(t)
         /\ Count(cur[t]) \in Nat /\ Made(t) \in Nat /\ Made(t) <= Count(descriptor)
         /\ Made(t) = IF Own(t) THEN Count(cur[t]) + 1 ELSE Count(cur[t])
<1>1. t \in Threads /\ phase = 1 /\ op[t] = "push" /\ PushKnown(t)
  BY AtWork DEF Writing, PopKnown
<1>2. Completing(t) <=> Own(t)  BY <1>1 DEF Completing, Writing
<1>3. cur[t] \in DAddrs  BY <1>1, Holds DEF MemoryInv, Scopes, HasDesc
<1>4. Count(cur[t]) \in Nat  BY <1>3, InOrder DEF DescsInOrder
<1>5. Made(t) \in Nat /\ Made(t) <= Count(descriptor)  BY <1>1, <1>4 DEF Made, PushKnown
<1> QED  BY <1>1, <1>2, <1>4, <1>5 DEF Made

LEMMA OwnWriteStays ==
  ASSUME MemoryInv, BucketInv, MainInv, NEW t \in Workers
  PROVE  ~OwnWriteGone(t)
<1> SUFFICES ASSUME OwnWriteGone(t)  PROVE FALSE
  OBVIOUS
<1>1. pc[t] = "write_cell" /\ \E w \in Contents(wd[t]) : ~w.some  BY DEF OwnWriteGone
<1>2. PushKnown(t) /\ t \in Threads  BY <1>1, InCompleteWrite DEF Writing
<1>3. ~writes[wd[t]].some  BY <1>1, <1>2, WriteIsThere
<1>4. IsWrite(writes[wd[t]], Made(t))  BY <1>1, <1>2 DEF PushKnown
<1> QED  BY <1>3, <1>4 DEF IsWrite

LEMMA WritesCell ==
  ASSUME MemoryInv, BucketInv, MainInv, MemoryInv', BucketInv', OwnWriteIsNotFreed',
         NEW t \in Workers, MainStep(t), WriteCell(t)
  PROVE  MainInv'
<1>1. pc[t] = "write_cell" /\ pc[t] \in Writing /\ pc[t] \in HasDesc /\ TypeOK
  BY DEF WriteCell, Writing, HasDesc, BucketInv
<1>2. /\ t \in Threads /\ phase = 1 /\ op[t] = "push" /\ PushKnown(t)
      /\ Completing(t) <=> Own(t)
      /\ Count(cur[t]) \in Nat /\ Made(t) \in Nat /\ Made(t) <= Count(descriptor)
      /\ Made(t) = IF Own(t) THEN Count(cur[t]) + 1 ELSE Count(cur[t])
  BY <1>1, InCompleteWrite
<1>3. /\ pc'[t] = "load_target" /\ UNCHANGED <<descriptor, descs, writes, op, cur, ret, wd>>
  BY <1>1, <1>2 DEF WriteCell, Goto, TypeOK, CallTypeOK, call, work
<1>4. pc'[t] \in HasDesc /\ pc'[t] \in Writing  BY <1>3 DEF HasDesc, Writing
<1>5. /\ Count(cur[t])' = Count(cur[t])
      /\ Count(descriptor) \in Nat /\ Count(descriptor)' = Count(descriptor)
      /\ Count(cur[t])' <= Count(descriptor)'
      /\ WriteOf(cur[t])'.some => IsWrite(WriteOf(cur[t]), Count(cur[t]))'
  BY <1>1, <1>2, <1>3, <1>4, SameDesc
<1>6. Own(t)' <=> Own(t)  BY <1>3 DEF Own
<1>7. Made(t)' = Made(t)  BY <1>5, <1>6 DEF Made
<1>8. PushKnown(t)'
  BY <1>2, <1>3, <1>5, <1>7 DEF PushKnown
<1>9. Unannounced(t)' <=> Unannounced(t)  BY <1>1, <1>3, <1>4, <1>6 DEF Unannounced
<1>10. Completing(t)' <=> Completing(t)  BY <1>2, <1>3, <1>6 DEF Completing
<1> DEFINE n == Made(t) - 1
<1>11. n \in Slots /\ cells' = [cells EXCEPT ![n] = IF @ = Zero THEN FIVE ELSE @]
  <2>1. IsWrite(writes[wd[t]], Made(t))  BY <1>1, <1>2 DEF PushKnown
  <2>2. wd[t] \in WAddrs /\ Contents(wd[t]) = {writes[wd[t]]}
    BY <1>1, <1>2, WriteIsThere
  <2>3. /\ writes[wd[t]].some /\ writes[wd[t]].location = n
        /\ writes[wd[t]].old = Zero /\ writes[wd[t]].new = FIVE
    BY <2>1 DEF IsWrite
  <2>4. n \in Slots
    <3>1. heap[wd[t]] # "free"  BY <1>1, <1>2, WriteIsThere
    <3> QED  BY <2>2, <2>3, <3>1 DEF BucketInv, VectorInv, WritesBacked, Backed
  <2>5. cells' = [i \in Slots |-> IF i = n /\ cells[i] = Zero THEN FIVE ELSE cells[i]]
    BY <2>2, <2>3 DEF WriteCell
  <2>6. cells \in [Slots -> Nat]  BY DEF BucketInv, TypeOK, VectorTypeOK
  <2> HIDE DEF n
  <2> QED  BY <2>4, <2>5, <2>6
<1>12. cells \in [Slots -> Nat] /\ n \in Int /\ n < Count(descriptor)
  BY <1>1, <1>2, <1>5 DEF TypeOK, VectorTypeOK
<1>13. \A i : ToWrite(t, i) => i = n
  BY <1>2 DEF ToWrite
<1>14. ASSUME NEW u \in Workers \ {t}, NEW i, ToWrite(u, i)  PROVE ToWrite(u, i)'
  <2>1. u \in Threads \ {t} /\ WorkerKnown(u) /\ Step(t) /\ UNCHANGED phase
    BY DEF Workers, MainInv, MainStep
  <2>2. Undisturbed(u)  BY <1>2, <2>1, OthersUndisturbed DEF MainInv
  <2>3. Onward  BY <1>3, <1>5 DEF Onward
  <2> QED  BY <1>2, <1>14, <2>1, <2>2, <2>3, OthersKnown
<1>15. CellsKnown'
  <2>1. CellsKnown /\ phase' = 1  BY <1>2 DEF MainInv, MainStep
  <2> HIDE DEF n
  <2>2. ASSUME NEW i \in 0 .. Count(descriptor)' - 1
        PROVE  cells'[i] = FIVE \/ (cells'[i] = Zero /\ \E u \in Workers : ToWrite(u, i)')
    <3>1. i \in 0 .. Count(descriptor) - 1  BY <1>5
    <3>2. cells[i] = FIVE \/ (cells[i] = Zero /\ \E u \in Workers : ToWrite(u, i))
      BY <1>2, <2>1, <3>1 DEF CellsKnown
    <3>3. CASE i = n  BY <1>11, <1>12, <3>2, <3>3
    <3>4. CASE i # n
      <4>1. cells'[i] = cells[i]  BY <1>11, <1>12, <3>4
      <4> QED  BY <1>13, <1>14, <3>2, <3>4, <4>1
    <3> QED  BY <3>3, <3>4
  <2>3. ASSUME NEW i \in Slots, i >= Count(descriptor)'  PROVE cells'[i] = Zero
    <3>1. i # n  BY <1>5, <1>12, <2>3
    <3>2. cells'[i] = cells[i]  BY <1>11, <1>12, <3>1
    <3> QED  BY <1>2, <1>5, <2>1, <2>3, <3>2 DEF CellsKnown
  <2>4. Workers' = Workers  BY DEF Workers
  <2> QED  BY <2>1, <2>2, <2>3, <2>4 DEF CellsKnown
<1> QED  BY <1>2, <1>3, <1>5, <1>8, <1>9, <1>10, <1>15, Quietly

LEMMA LoadsTarget ==
  ASSUME MemoryInv, BucketInv, MainInv, MemoryInv', BucketInv', OwnWriteIsNotFreed',
         NEW t \in Workers, MainStep(t), LoadTarget(t)
  PROVE  MainInv'
<1>1. pc[t] = "load_target" /\ pc[t] \in Writing /\ pc[t] \in HasDesc /\ TypeOK
  BY DEF LoadTarget, Writing, HasDesc, BucketInv
<1>2. /\ t \in Threads /\ phase = 1 /\ op[t] = "push" /\ PushKnown(t)
      /\ Completing(t) <=> Own(t)
      /\ Count(cur[t]) \in Nat /\ Made(t) \in Nat /\ Made(t) <= Count(descriptor)
      /\ Made(t) = IF Own(t) THEN Count(cur[t]) + 1 ELSE Count(cur[t])
  BY <1>1, InCompleteWrite
<1>3. /\ pc'[t] = "clear_pending" /\ target'[t] = descriptor
      /\ UNCHANGED <<descriptor, descs, cells, op, cur, ret>>
  BY <1>1, <1>2 DEF LoadTarget, Goto, TypeOK, CallTypeOK, WorkTypeOK, call
<1>4. pc'[t] \in HasDesc /\ pc'[t] \in Writing  BY <1>3 DEF HasDesc, Writing
<1>5. /\ Count(cur[t])' = Count(cur[t])
      /\ Count(descriptor) \in Nat /\ Count(descriptor)' = Count(descriptor)
      /\ Count(cur[t])' <= Count(descriptor)'
      /\ WriteOf(cur[t])'.some => IsWrite(WriteOf(cur[t]), Count(cur[t]))'
  BY <1>1, <1>2, <1>3, <1>4, SameDesc
<1>6. Own(t)' <=> Own(t)  BY <1>3 DEF Own
<1>7. Made(t)' = Made(t)  BY <1>5, <1>6 DEF Made
<1>8. Count(target[t])' = Count(descriptor)'  BY <1>3 DEF Count
<1>9. PushKnown(t)'
  BY <1>2, <1>3, <1>5, <1>7, <1>8 DEF PushKnown
<1>10. Unannounced(t)' <=> Unannounced(t)  BY <1>1, <1>3, <1>4, <1>6 DEF Unannounced
<1>11. Completing(t)' <=> Completing(t)  BY <1>2, <1>3, <1>6 DEF Completing
<1> QED  BY <1>1, <1>2, <1>3, <1>5, <1>9, <1>10, <1>11, Quietly

\* A push does not leave before its write is taken out: the Descriptor that it
\* takes it from is at least as new as its own.
LEMMA ClearsPending ==
  ASSUME MemoryInv, BucketInv, MainInv, MemoryInv', BucketInv', OwnWriteIsNotFreed',
         NEW t \in Workers, MainStep(t), ClearPending(t)
  PROVE  MainInv'
<1>1. pc[t] = "clear_pending" /\ pc[t] \in Writing /\ pc[t] \in HasDesc /\ TypeOK
  BY DEF ClearPending, Writing, HasDesc, BucketInv
<1>2. /\ t \in Threads /\ phase = 1 /\ op[t] = "push" /\ PushKnown(t)
      /\ Completing(t) <=> Own(t)
      /\ Count(cur[t]) \in Nat /\ Made(t) \in Nat /\ Made(t) <= Count(descriptor)
      /\ Made(t) = IF Own(t) THEN Count(cur[t]) + 1 ELSE Count(cur[t])
  BY <1>1, InCompleteWrite
<1>3. UNCHANGED <<descriptor, writes, cells, op>>  BY DEF ClearPending, Return, call
<1>4. target[t] \in DAddrs /\ fresh[t] # Null
  BY <1>1, <1>2, Holds DEF MemoryInv, Scopes
<1>5. ~writes'[descs'[target[t]].pending].some
  <2>1. descs'[target[t]].pending = fresh[t]
    BY <1>4 DEF ClearPending, MemoryInv, MemoryTypeOK
  <2>2. ~writes[fresh[t]].some  BY <1>2, <1>4 DEF BucketInv, BucketKnown, LoopKnown
  <2> QED  BY <1>3, <2>1, <2>2
<1>6. Count(cur[t]) + 1 = Count(descriptor) /\ Completing(t) => ~WriteOf(descriptor)'.some
  <2> SUFFICES ASSUME Count(cur[t]) + 1 = Count(descriptor), Completing(t)
               PROVE  ~WriteOf(descriptor)'.some
    OBVIOUS
  <2>1. Made(t) = Count(descriptor)  BY <1>2
  <2>2. /\ Made(t) <= Count(target[t]) /\ Count(target[t]) <= Count(descriptor)
        /\ Count(target[t]) = Count(descriptor) => target[t] = descriptor
    BY <1>1, <1>2 DEF PushKnown
  <2>3. Count(target[t]) \in Nat  BY <1>4, InOrder DEF DescsInOrder
  <2>4. target[t] = descriptor  BY <1>2, <2>1, <2>2, <2>3
  <2> QED  BY <1>3, <1>5, <2>4 DEF WriteOf
<1>7. CASE Own(t)
  <2>1. pc'[t] = "idle"
    BY <1>1, <1>2, <1>7 DEF ClearPending, Return, Goto, TypeOK, CallTypeOK
  <2>2. PushKnown(t)'  BY <2>1 DEF PushKnown, HasDesc, Writing
  <2>3. ~Unannounced(t) /\ ~Unannounced(t)'
    BY <1>1, <1>7, <2>1 DEF Unannounced, Writing
  <2> QED  BY <1>1, <1>2, <1>3, <1>6, <2>2, <2>3, Quietly
<1>8. CASE ~Own(t)
  <2>1. ret[t] = "check_bucket"
    BY <1>1, <1>2, <1>8 DEF BucketInv, BucketKnown, LoopKnown, AfterHelping
  <2>2. pc'[t] = "check_bucket" /\ cur'[t] = cur[t]
    BY <1>1, <1>2, <1>8, <2>1 DEF ClearPending, Goto, TypeOK, CallTypeOK
  <2>3. pc'[t] \in HasDesc  BY <2>2 DEF HasDesc
  <2>4. /\ Count(cur[t])' <= Count(descriptor)'
        /\ WriteOf(cur[t])'.some => IsWrite(WriteOf(cur[t]), Count(cur[t]))'
    BY <1>1, <1>2, <1>3, <2>2, <2>3, SameDesc
  <2>5. PushKnown(t)'  BY <2>2, <2>4 DEF PushKnown, Writing
  <2>6. Unannounced(t) /\ Unannounced(t)'
    BY <1>1, <1>8, <2>2 DEF Unannounced
  <2> QED  BY <1>1, <1>2, <1>3, <1>8, <2>5, <2>6, Quietly
<1> QED  BY <1>7, <1>8

LEMMA Retries ==
  ASSUME MemoryInv, BucketInv, MainInv, MemoryInv', BucketInv', OwnWriteIsNotFreed',
         NEW t \in Workers, MainStep(t), RetrySwap(t)
  PROVE  MainInv'
<1>1. t \in Threads /\ pc[t] = "swap_descriptor" /\ TypeOK
  BY DEF Workers, RetrySwap, BucketInv
<1>2. pc'[t] = "load_descriptor" /\ UNCHANGED <<descriptor, cells, writes, op>>
  BY <1>1 DEF RetrySwap, Goto, TypeOK, CallTypeOK, call
<1>3. Unannounced(t) /\ Unannounced(t)'  BY <1>1, <1>2 DEF Unannounced
<1>4. PushKnown(t)' /\ PopKnown(t)'  BY <1>2 DEF PushKnown, PopKnown, HasDesc, Writing
<1>5. ~Completing(t)  BY <1>1 DEF Completing
<1> QED  BY <1>1, <1>2, <1>3, <1>4, <1>5, Quietly

LEMMA ChecksBucket ==
  ASSUME MemoryInv, BucketInv, MainInv, MemoryInv', BucketInv', OwnWriteIsNotFreed',
         NEW t \in Workers, MainStep(t), CheckBucket(t)
  PROVE  MainInv'
<1>1. t \in Threads /\ pc[t] = "check_bucket" /\ pc[t] \in HasDesc /\ TypeOK
  BY DEF Workers, CheckBucket, BucketInv, HasDesc
<1>2. /\ pc'[t] \in {"read_elem", "allocate_bucket"} /\ cur'[t] = cur[t]
      /\ UNCHANGED <<descriptor, cells, op>>
  BY <1>1 DEF CheckBucket, Goto, TypeOK, CallTypeOK, call, shared, vector
<1>3. phase = 1 /\ PushKnown(t)  BY <1>1, AtWork DEF PopKnown
<1>4. Unannounced(t) /\ Unannounced(t)' /\ pc'[t] \in HasDesc
  BY <1>1, <1>2 DEF Unannounced, HasDesc
<1>5. /\ Count(cur[t])' <= Count(descriptor)'
      /\ WriteOf(cur[t])'.some => IsWrite(WriteOf(cur[t]), Count(cur[t]))'
  BY <1>1, <1>2, <1>3, <1>4, SameDesc
<1>6. PushKnown(t)'  BY <1>2, <1>5 DEF PushKnown, Writing
<1>7. ~Completing(t)  BY <1>1 DEF Completing
<1> QED  BY <1>1, <1>2, <1>3, <1>4, <1>6, <1>7, Quietly

\* A bucket that is installed has none of the elements that are counted.
LEMMA InstallKeepsCells ==
  ASSUME BucketInv, NEW b, InstallBucket(b)
  PROVE  /\ \A i \in 0 .. Count(descriptor) - 1 : cells'[i] = cells[i]
         /\ \A i \in Slots : cells'[i] = cells[i] \/ cells'[i] = Zero
<1>1. cells \in [Slots -> Nat] /\ descriptor \in DAddrs
  BY DEF BucketInv, TypeOK, VectorTypeOK
<1>2. \A i \in 0 .. Count(descriptor) - 1 : i \in Slots /\ buffers[bucket_of(i)] # 0
  BY <1>1 DEF BucketInv, VectorInv, ElementsBacked, Backed, Count
<1> QED  BY <1>1, <1>2 DEF InstallBucket

LEMMA AllocatesInPush ==
  ASSUME MemoryInv, BucketInv, MainInv, MemoryInv', BucketInv', OwnWriteIsNotFreed',
         NEW t \in Workers, MainStep(t), PushAllocates(t)
  PROVE  MainInv'
<1>1. t \in Threads /\ pc[t] = "allocate_bucket" /\ pc[t] \in HasDesc /\ TypeOK
  BY DEF Workers, PushAllocates, BucketInv, HasDesc
<1>2. phase = 1 /\ op[t] = "push" /\ PushKnown(t)  BY <1>1, AtWork DEF PopKnown
<1>3. ~Completing(t) /\ Unannounced(t)  BY <1>1 DEF Completing, Unannounced
<1> DEFINE b == bucket_of(descs[cur[t]].size)
<1>4. CASE CapacityOverflow(t, b)
  <2>1. pc'[t] = "panicked" /\ UNCHANGED <<descriptor, cells>>
    BY <1>1, <1>4 DEF CapacityOverflow, PanicIn, Goto, TypeOK, CallTypeOK, shared, vector
  <2>2. PushKnown(t)' /\ Unannounced(t)'
    BY <2>1 DEF PushKnown, HasDesc, Writing, Unannounced
  <2> QED  BY <1>1, <1>2, <1>3, <2>1, <2>2, Quietly
<1>5. CASE AllocateBucket(t, b) /\ Goto(t, "read_elem")
  <2>1. /\ pc'[t] = "read_elem" /\ cur'[t] = cur[t] /\ InstallBucket(b)
        /\ UNCHANGED <<descriptor, descs>>
    BY <1>1, <1>5 DEF AllocateBucket, Goto, TypeOK, CallTypeOK
  <2>2. Unannounced(t)' /\ pc'[t] \in HasDesc  BY <2>1 DEF Unannounced, HasDesc
  <2>3. /\ Count(cur[t])' <= Count(descriptor)'
        /\ WriteOf(cur[t])'.some => IsWrite(WriteOf(cur[t]), Count(cur[t]))'
    BY <1>1, <1>2, <2>1, <2>2, SameDesc
  <2>4. PushKnown(t)'  BY <2>1, <2>3 DEF PushKnown, Writing
  <2>5. \A i : ~ToWrite(t, i)  BY <1>1 DEF ToWrite
  <2>6. ASSUME NEW u \in Workers, NEW i, ToWrite(u, i)  PROVE ToWrite(u, i)'
    <3>1. u \in Threads \ {t} /\ WorkerKnown(u) /\ Step(t) /\ UNCHANGED phase
      BY <2>5, <2>6 DEF Workers, MainInv, MainStep
    <3>2. Undisturbed(u)  BY <1>1, <3>1, OthersUndisturbed DEF MainInv
    <3>3. Onward  BY <1>2, <2>1 DEF Onward, Count
    <3> QED  BY <1>2, <2>6, <3>1, <3>2, <3>3, OthersKnown
  <2>7. CellsKnown'
    <3>1. /\ \A i \in 0 .. Count(descriptor) - 1 : cells'[i] = cells[i]
          /\ \A i \in Slots : cells'[i] = cells[i] \/ cells'[i] = Zero
      <4> HIDE DEF b
      <4> QED  BY <2>1, InstallKeepsCells
    <3>2. Count(descriptor)' = Count(descriptor) /\ UNCHANGED phase /\ CellsKnown
      BY <2>1 DEF Count, MainStep, MainInv
    <3>3. Workers' = Workers  BY DEF Workers
    <3> HIDE DEF b
    <3> QED  BY <1>2, <2>6, <3>1, <3>2, <3>3 DEF CellsKnown
  <2> QED  BY <1>1, <1>2, <1>3, <2>1, <2>2, <2>4, <2>7, Quietly
<1> QED  BY <1>4, <1>5 DEF PushAllocates

\* The old value of a push is that of a cell where nothing was written, if
\* the Descriptor is still current.
LEMMA ReadsOld ==
  ASSUME MemoryInv, BucketInv, MainInv, MemoryInv', BucketInv', OwnWriteIsNotFreed',
         NEW t \in Workers, MainStep(t), ReadOld(t)
  PROVE  MainInv'
<1>1. /\ t \in Threads /\ pc[t] = "read_elem" /\ pc[t] \in HasDesc /\ op[t] = "push"
      /\ TypeOK
  BY DEF Workers, ReadOld, BucketInv, HasDesc
<1>2. phase = 1 /\ PushKnown(t) /\ arg[t] = FIVE  BY <1>1, AtWork
<1> DEFINE s == Count(cur[t])
           w == [some |-> TRUE, new |-> arg[t], old |-> cells[s], location |-> s]
<1>3. MakeNext(t, s + 1, w)  BY DEF ReadOld, Count
<1>4. /\ next'[t] \in DAddrs /\ descs'[next'[t]].size = s + 1
      /\ writes'[descs'[next'[t]].pending] = w
  <2> HIDE DEF s, w
  <2> QED  BY <1>1, <1>3, MakesAtFree
<1>5. /\ pc'[t] = "swap_descriptor" /\ cur'[t] = cur[t] /\ UNCHANGED <<descriptor, cells, op>>
  BY <1>1, <1>3 DEF MakeNext, Goto, TypeOK, CallTypeOK, call
<1>6. pc'[t] \in HasDesc /\ Unannounced(t) /\ Unannounced(t)'
  BY <1>1, <1>5 DEF HasDesc, Unannounced
<1>7. /\ Count(cur[t])' = s /\ Count(descriptor)' = Count(descriptor)
      /\ Count(cur[t])' <= Count(descriptor)'
      /\ WriteOf(cur[t])'.some => IsWrite(WriteOf(cur[t]), Count(cur[t]))'
      /\ s \in Nat
  BY <1>1, <1>2, <1>5, <1>6, SameDesc
<1>8. Count(next[t])' = s + 1 /\ WriteOf(next[t])' = w  BY <1>4 DEF Count, WriteOf
<1>9. s = Count(descriptor) => cells[s] = Zero
  <2>1. s \in Slots  BY <1>1 DEF BucketInv, BucketKnown, LoopKnown, Backed, Count
  <2> HIDE DEF s
  <2> QED  BY <1>2, <1>7, <2>1 DEF MainInv, CellsKnown
<1>10. PushKnown(t)'
  <2> HIDE DEF s
  <2>1. WriteOf(next[t])' = [some |-> TRUE, new |-> FIVE, old |-> WriteOf(next[t])'.old,
                             location |-> Count(cur[t])']
    BY <1>2, <1>7, <1>8
  <2>2. Count(cur[t])' = Count(descriptor)' => WriteOf(next[t])'.old = Zero
    BY <1>7, <1>8, <1>9
  <2> QED  BY <1>5, <1>7, <1>8, <2>1, <2>2 DEF PushKnown, Writing
<1>11. ~Completing(t)  BY <1>1 DEF Completing
<1> QED  BY <1>1, <1>2, <1>5, <1>6, <1>10, <1>11, Quietly

LEMMA ReadsLast ==
  ASSUME MemoryInv, BucketInv, MainInv, MemoryInv', BucketInv', OwnWriteIsNotFreed',
         NEW t \in Workers, MainStep(t), ReadLast(t)
  PROVE  MainInv'
<1>1. /\ t \in Threads /\ pc[t] = "read_elem" /\ pc[t] \in HasDesc /\ op[t] = "pop"
      /\ TypeOK
  BY DEF Workers, ReadLast, BucketInv, HasDesc
<1>2. phase = 2 /\ PopKnown(t)  BY <1>1, AtWork
<1> DEFINE s == Count(cur[t])
<1>3. MakeNext(t, s - 1, NoWrite) /\ s # 0 /\ elem'[t] = cells[s - 1]
  BY <1>1 DEF ReadLast, Count, TypeOK, WorkTypeOK
<1>4. /\ next'[t] \in DAddrs /\ descs'[next'[t]].size = s - 1
      /\ writes'[descs'[next'[t]].pending] = NoWrite
  <2> HIDE DEF s
  <2> QED  BY <1>1, <1>3, MakesAtFree
<1>5. /\ pc'[t] = "swap_descriptor" /\ cur'[t] = cur[t] /\ UNCHANGED <<descriptor, cells, op>>
  BY <1>1, <1>3 DEF MakeNext, Goto, TypeOK, CallTypeOK, call
<1>6. pc'[t] \in HasDesc /\ Unannounced(t) /\ Unannounced(t)'
  BY <1>1, <1>5 DEF HasDesc, Unannounced
<1>7. /\ Count(cur[t])' = s /\ s \in Nat
      /\ Count(cur[t])' \in Count(descriptor)' .. Total' /\ ~WriteOf(cur[t])'.some
  BY <1>1, <1>2, <1>5, <1>6, SameDesc
<1>8. Count(next[t])' = s - 1 /\ ~WriteOf(next[t])'.some
  BY <1>4 DEF Count, WriteOf, NoWrite
<1>9. cells[s - 1] = FIVE
  <2>1. Total' = Total /\ Total \in Nat  BY CurrentKnown DEF Total, Workers
  <2> HIDE DEF s
  <2>2. s - 1 \in 0 .. Total - 1  BY <1>3, <1>7, <2>1
  <2>3. ASSUME NEW u \in Workers  PROVE ~ToWrite(u, s - 1)
    <3>1. PopKnown(u)  BY <1>2 DEF MainInv, WorkerKnown
    <3> QED  BY <3>1 DEF PopKnown, ToWrite
  <2> QED  BY <1>2, <2>2, <2>3 DEF MainInv, CellsKnown
<1>10. PopKnown(t)'
  <2> HIDE DEF s
  <2> QED  BY <1>3, <1>5, <1>7, <1>8, <1>9 DEF PopKnown
<1>11. ~Completing(t)  BY <1>1 DEF Completing
<1> QED  BY <1>1, <1>2, <1>5, <1>6, <1>10, <1>11, Quietly

\* As long as a pop is under way there is an element for it.
LEMMA NeverEmpty ==
  ASSUME MemoryInv, BucketInv, MainInv, NEW t \in Workers
  PROVE  ~PopEmpty(t)
<1> SUFFICES ASSUME PopEmpty(t)  PROVE FALSE
  OBVIOUS
<1>1. pc[t] = "read_elem" /\ op[t] = "pop" /\ Count(cur[t]) = 0  BY DEF PopEmpty, Count
<1>2. phase = 2 /\ PopKnown(t) /\ WorkerCalled(t)  BY <1>1, AtWork DEF WorkerKnown
<1>3. Unannounced(t)  BY <1>1 DEF Unannounced
<1>4. Cardinality(Present) > 0  BY <1>2, <1>3, Supply
<1>5. Count(cur[t]) \in Count(descriptor) .. Total  BY <1>1, <1>2 DEF PopKnown, HasDesc
<1>6. Count(descriptor) \in Nat /\ Count(descriptor) = Cardinality(Present)
  BY CurrentKnown DEF MainInv
<1> QED  BY <1>1, <1>4, <1>5, <1>6

-----------------------------------------------------------------------------
(* The swaps *)

\* What the others have announced when t swaps.
LEMMA OthersAtSwap ==
  ASSUME MemoryInv, BucketInv, MainInv, MemoryInv', BucketInv', NEW t \in Workers, MainStep(t),
         Onward
  PROVE  \A u \in Workers \ {t} : /\ Undisturbed(u) /\ Announced(u)' = Announced(u)
                                  /\ \A i : ToWrite(u, i)' <=> ToWrite(u, i)
<1> TAKE u \in Workers \ {t}
<1>1. /\ t \in Threads /\ u \in Threads \ {t} /\ WorkerKnown(u) /\ Step(t) /\ UNCHANGED phase
      /\ phase \in 0 .. 2
  BY DEF Workers, MainInv, MainStep, MainFirst
<1>2. Undisturbed(u)  BY <1>1, OthersUndisturbed DEF MainInv
<1> QED  BY <1>1, <1>2, OthersKnown

\* A push is announced: its element is the last one, with its write pending
\* and the push at work on it.
LEMMA SwapsInPush ==
  ASSUME MemoryInv, BucketInv, MainInv, MemoryInv', BucketInv', OwnWriteIsNotFreed',
         NEW t \in Workers, MainStep(t), PushSwaps(t)
  PROVE  MainInv'
<1>1. /\ t \in Threads /\ pc[t] = "swap_descriptor" /\ pc[t] \in HasDesc /\ op[t] = "push"
      /\ TypeOK /\ Step(t) /\ UNCHANGED phase
  BY DEF Workers, PushSwaps, SwapDescriptor, BucketInv, HasDesc, MainStep
<1>2. phase = 1 /\ PushKnown(t) /\ WorkerCalled(t)  BY <1>1, AtWork DEF WorkerKnown
<1>3. /\ cur[t] = descriptor /\ descriptor' = next[t] /\ next[t] \in DAddrs
      /\ UNCHANGED <<descs, writes, cells, op, arg, calls, cur>>
  BY <1>1, Swapping DEF PushSwaps, SwapDescriptor, call
<1>4. /\ pc'[t] = "write_cell" /\ wd'[t] = descs[next[t]].pending /\ Own(t)'
  BY <1>1 DEF PushSwaps, Goto, Own, TypeOK, CallTypeOK, WorkTypeOK
<1>0. PICK n \in Nat : n = Count(descriptor)  BY CurrentKnown
<1>5. Count(cur[t]) = n /\ Count(cur[t])' = n  BY <1>0, <1>3 DEF Count
<1>6. /\ Count(next[t]) = n + 1 /\ Count(descriptor)' = n + 1
      /\ WriteOf(descriptor)' = WriteOf(next[t]) /\ writes'[wd'[t]] = WriteOf(next[t])
  BY <1>0, <1>1, <1>2, <1>3, <1>4, <1>5 DEF PushKnown, Count, WriteOf
<1>7. WriteOf(next[t]) = [some |-> TRUE, new |-> FIVE, old |-> Zero, location |-> n]
  <2>1. /\ WriteOf(next[t]) = [some |-> TRUE, new |-> FIVE, old |-> WriteOf(next[t]).old,
                               location |-> Count(cur[t])]
        /\ WriteOf(next[t]).old = Zero
    BY <1>0, <1>1, <1>2, <1>5 DEF PushKnown
  <2> QED  BY <1>5, <2>1
<1>8. WriteOf(cur[t])' = WriteOf(descriptor)  BY <1>3 DEF WriteOf
<1>9. Completing(t)' /\ Made(t)' = n + 1 /\ ~Unannounced(t)' /\ Unannounced(t)
  BY <1>1, <1>3, <1>4, <1>5 DEF Completing, Made, Unannounced, Writing
<1>10. Onward  BY <1>0, <1>2, <1>6 DEF Onward
<1>11. IsWrite(WriteOf(descriptor), Count(descriptor))' /\ IsWrite(writes[wd[t]], Made(t))'
  <2>1. n = (n + 1) - 1  OBVIOUS
  <2> QED  BY <1>6, <1>7, <1>9, <2>1 DEF IsWrite
<1>12. PushKnown(t)'
  <2>1. WriteOf(cur[t])'.some => IsWrite(WriteOf(cur[t]), Count(cur[t]))'
    <3>1. WriteOf(descriptor).some => IsWrite(WriteOf(descriptor), n)
      BY <1>0, CurrentKnown
    <3> QED  BY <1>5, <1>8, <3>1 DEF IsWrite
  <2> QED  BY <1>4, <1>5, <1>6, <1>9, <1>11, <2>1 DEF PushKnown
<1>13. \A u \in Workers \ {t} : /\ Undisturbed(u) /\ Announced(u)' = Announced(u)
                                /\ \A i : ToWrite(u, i)' <=> ToWrite(u, i)
  BY <1>10, OthersAtSwap
<1>14. Cardinality(Present') = n + 1
  <2>1. phase \in 0 .. 2 /\ calls'[t] = calls[t] /\ n = Cardinality(Present)
    BY <1>0, <1>2, <1>3 DEF MainInv
  <2> QED  BY <1>1, <1>2, <1>9, <1>13, <2>1, OneElement
<1>15. PendingOwned'
  <2>1. Workers' = Workers  BY DEF Workers
  <2> QED  BY <1>5, <1>6, <1>9, <1>11, <2>1 DEF PendingOwned
<1>16. WorkerCalled(t)'
  <2>1. Before' = Before  BY <1>1 DEF Before
  <2> QED  BY <1>1, <1>2, <1>3, <1>9, <2>1 DEF WorkerCalled
<1>17. CellsKnown'
  <2>1. /\ \A i \in 0 .. n - 1 :
              cells[i] = FIVE \/ (cells[i] = Zero /\ \E u \in Workers : ToWrite(u, i))
        /\ \A i \in Slots : i >= n => cells[i] = Zero
    BY <1>0, <1>2 DEF MainInv, CellsKnown
  <2>2. \A u \in Workers : \A i : ToWrite(u, i) => ToWrite(u, i)'
    <3>1. \A i : ~ToWrite(t, i)  BY <1>1 DEF ToWrite
    <3> QED  BY <1>13, <3>1
  <2>3. n \in Slots
    <3>1. Backed(n)'
      BY <1>3, <1>6 DEF BucketInv, VectorInv, ElementsBacked, Count
    <3> QED  BY <3>1 DEF Backed
  <2>4. ToWrite(t, n)'  BY <1>4, <1>5, <1>9 DEF ToWrite
  <2>5. ASSUME NEW i \in 0 .. n
        PROVE  cells'[i] = FIVE \/ (cells'[i] = Zero /\ \E u \in Workers : ToWrite(u, i)')
    <3>1. CASE i = n  BY <1>3, <1>5, <2>1, <2>3, <2>4, <3>1
    <3>2. CASE i # n
      <4>1. i \in 0 .. n - 1  BY <1>5, <3>2
      <4> QED  BY <1>3, <2>1, <2>2, <4>1
    <3> QED  BY <3>1, <3>2
  <2>6. \A i \in Slots : i >= n + 1 => cells'[i] = Zero
    <3>1. Slots \subseteq Nat  BY DEF Slots
    <3> QED  BY <1>3, <1>5, <2>1, <3>1
  <2>7. Workers' = Workers /\ (n + 1) - 1 = n  BY <1>5 DEF Workers
  <2>8. (IF phase = 2 THEN Total ELSE Count(descriptor))' - 1 = n
    BY <1>1, <1>2, <1>6, <2>7
  <2> QED  BY <1>1, <1>2, <1>6, <2>5, <2>6, <2>7, <2>8 DEF CellsKnown
<1>18. sum' = 0  BY <1>1, <1>2 DEF MainStep, MainInv
<1>19. \A u \in Threads \ {t} : Undisturbed(u)
  BY <1>1, OthersUndisturbed DEF MainInv
<1>20. WorkerKnown(t)'  BY <1>1, <1>2, <1>12, <1>16 DEF WorkerKnown
<1> QED
  BY <1>1, <1>2, <1>6, <1>10, <1>14, <1>15, <1>17, <1>18, <1>19, <1>20, Assembled

\* A pop is announced, and its element is in the sum.
LEMMA SwapsInPop ==
  ASSUME MemoryInv, BucketInv, MainInv, MemoryInv', BucketInv', OwnWriteIsNotFreed',
         NEW t \in Workers, MainStep(t), PopSwaps(t)
  PROVE  MainInv'
<1>1. /\ t \in Threads /\ pc[t] = "swap_descriptor" /\ pc[t] \in HasDesc /\ op[t] = "pop"
      /\ TypeOK /\ Step(t) /\ UNCHANGED phase
  BY DEF Workers, PopSwaps, SwapDescriptor, BucketInv, HasDesc, MainStep
<1>2. phase = 2 /\ PopKnown(t) /\ WorkerCalled(t)  BY <1>1, AtWork DEF WorkerKnown
<1>3. /\ cur[t] = descriptor /\ descriptor' = next[t] /\ next[t] \in DAddrs
      /\ UNCHANGED <<descs, writes, cells, op, arg, calls>>
  BY <1>1, Swapping DEF PopSwaps, SwapDescriptor, Return
<1>4. pc'[t] = "idle" /\ res'[t] = elem[t]
  BY <1>1 DEF PopSwaps, Return, Goto, TypeOK, CallTypeOK
<1> DEFINE n == Count(descriptor)
<1>5. n \in Nat /\ Count(cur[t]) = n /\ Total \in Nat  BY <1>3, CurrentKnown
<1>6. /\ Count(descriptor)' + 1 = n /\ Count(descriptor)' \in Nat
      /\ ~WriteOf(descriptor)'.some /\ elem[t] = FIVE
  <2>1. Count(descriptor)' = Count(next[t]) /\ WriteOf(descriptor)' = WriteOf(next[t])
    BY <1>3 DEF Count, WriteOf
  <2>2. Count(next[t]) \in Nat  BY <1>3, InOrder DEF DescsInOrder
  <2> QED  BY <1>1, <1>2, <1>5, <2>1, <2>2 DEF PopKnown
<1> HIDE DEF n
<1>7. Unannounced(t) /\ ~Unannounced(t)'  BY <1>1, <1>4 DEF Unannounced, Writing
<1>8. Onward  BY <1>2, <1>5, <1>6 DEF Onward, n
<1>9. \A u \in Workers \ {t} : /\ Undisturbed(u) /\ Announced(u)' = Announced(u)
                               /\ \A i : ToWrite(u, i)' <=> ToWrite(u, i)
  BY <1>8, OthersAtSwap
<1>10. Cardinality(Present') = n - 1
  <2>1. phase \in 0 .. 2 /\ calls'[t] = calls[t] /\ n = Cardinality(Present)
    BY <1>2, <1>3 DEF MainInv, n
  <2> QED  BY <1>1, <1>2, <1>7, <1>9, <2>1, OneElement
<1>11. sum' = FIVE * (Total - Count(descriptor)')
  <2>1. sum = FIVE * (Total - n) /\ FIVE \in Nat /\ FIVE # None
    BY <1>2, Numbers DEF MainInv, n
  <2>2. sum' = sum + FIVE
    BY <1>1, <1>4, <1>6, <2>1 DEF MainStep, UnwrapOr
  <2>3. Total - Count(descriptor)' = (Total - n) + 1  BY <1>5, <1>6
  <2>4. \A k \in Int : FIVE * (k + 1) = FIVE * k + FIVE  BY <2>1
  <2>5. FIVE * ((Total - n) + 1) = FIVE * (Total - n) + FIVE  BY <1>5, <2>4
  <2> QED  BY <2>1, <2>2, <2>3, <2>5
<1>12. PendingOwned'  BY <1>6 DEF PendingOwned
<1>13. CellsKnown'
  <2>1. \A u \in Workers : \A i : ToWrite(u, i) => ToWrite(u, i)'
    <3>1. \A i : ~ToWrite(t, i)  BY <1>1 DEF ToWrite
    <3> QED  BY <1>9, <3>1
  <2>2. Total' = Total /\ Workers' = Workers  BY DEF Total, Workers
  <2>3. CellsKnown  BY DEF MainInv
  <2> QED  BY <1>1, <1>2, <1>3, <2>1, <2>2, <2>3 DEF CellsKnown
<1>14. WorkerKnown(t)'
  <2>1. Before' = Before  BY <1>1 DEF Before
  <2>2. WorkerCalled(t)'  BY <1>1, <1>2, <1>3, <1>4, <1>7, <2>1 DEF WorkerCalled
  <2>3. PopKnown(t)'  BY <1>4 DEF PopKnown, HasDesc, Writing
  <2> QED  BY <1>1, <1>2, <2>2, <2>3 DEF WorkerKnown
<1>15. \A u \in Threads \ {t} : Undisturbed(u)
  BY <1>1, OthersUndisturbed DEF MainInv
<1>16. Count(descriptor)' = Cardinality(Present')  BY <1>5, <1>6, <1>10
<1> QED  BY <1>1, <1>2, <1>8, <1>11, <1>12, <1>13, <1>14, <1>15, <1>16, Assembled

\* A worker neither asks for the size nor reserves.
LEMMA WorkerSteps ==
  ASSUME MemoryInv, BucketInv, MainInv, MemoryInv', BucketInv', OwnWriteIsNotFreed',
         NEW t \in Workers, MainStep(t)
  PROVE  MainInv'
<1>1. t \in Threads /\ Step(t)  BY DEF MainStep, Workers
<1>2. op[t] \in {"push", "pop"}
  BY <1>1, StepInCall, AtWork DEF Resting
<1>3. ~Size(t) /\ ~Reserve(t)
  BY <1>1, <1>2 DEF Size, Reserve, ReserveSize, ReserveFirst, ReserveNext, ReserveDone,
     BucketInv, BucketKnown, ReserveKnown
<1>4. CASE CompleteWrite(t)
  BY <1>4, LoadsPending, WritesCell, OwnWriteStays, LoadsTarget, ClearsPending
     DEF CompleteWrite
<1>5. CASE Push(t)
  BY <1>5, ChecksBucket, AllocatesInPush, ReadsOld, SwapsInPush DEF Push
<1>6. CASE Pop(t)  BY <1>6, NeverEmpty, ReadsLast, SwapsInPop DEF Pop
<1> QED  BY <1>1, <1>3, <1>4, <1>5, <1>6, LoadsDescriptor, Retries DEF Step

-----------------------------------------------------------------------------
(* The main thread, the domain, and the calls *)

\* A step that leaves the elements, and all that a worker knows, as they are.
LEMMA Unmoved ==
  ASSUME MemoryInv, BucketInv, MainInv, MemoryInv', BucketInv', OwnWriteIsNotFreed',
         UNCHANGED <<phase, sum, descriptor>>, MainFirst',
         \A u \in Workers : Undisturbed(u),
         Count(descriptor)' = Count(descriptor), WriteOf(descriptor)' = WriteOf(descriptor),
         \A i \in 0 .. Count(descriptor) - 1 : cells'[i] = cells[i],
         phase = 2 => UNCHANGED cells,
         \A i \in Slots : cells'[i] = cells[i] \/ cells'[i] = Zero
  PROVE  MainInv'
<1>1. Onward /\ phase \in 0 .. 2 /\ Workers \subseteq Threads
  <2>1. Count(descriptor) \in Nat  BY CurrentKnown
  <2> QED  BY <2>1 DEF Onward, MainInv, MainFirst, Workers
<1>2. \A u \in Workers : /\ WorkerKnown(u)' /\ Announced(u)' = Announced(u)
                         /\ Completing(u)' <=> Completing(u)
                         /\ Completing(u) => Count(cur[u])' = Count(cur[u])
                         /\ \A i : ToWrite(u, i)' <=> ToWrite(u, i)
  BY <1>1, OthersKnown DEF MainInv
<1>3. Present' = Present  BY <1>2, SameElements
<1>4. Total' = Total /\ Workers' = Workers  BY DEF Total, Workers
<1>5. PendingOwned'
  <2> SUFFICES ASSUME WriteOf(descriptor)'.some
               PROVE  /\ IsWrite(WriteOf(descriptor), Count(descriptor))'
                      /\ (\E u \in Workers :
                              Completing(u) /\ Count(cur[u]) + 1 = Count(descriptor))'
    BY DEF PendingOwned
  <2>1. IsWrite(WriteOf(descriptor), Count(descriptor))  BY CurrentKnown
  <2>2. IsWrite(WriteOf(descriptor), Count(descriptor))'  BY <2>1 DEF IsWrite
  <2>3. WriteOf(descriptor).some  OBVIOUS
  <2>4. PICK u \in Workers : Completing(u) /\ Count(cur[u]) + 1 = Count(descriptor)
    BY <2>3 DEF MainInv, PendingOwned
  <2>5. Completing(u)' /\ Count(cur[u])' + 1 = Count(descriptor)'  BY <1>2, <2>4
  <2> QED  BY <1>4, <2>2, <2>5
<1>6. CellsKnown'
  <2>1. CellsKnown /\ \A u \in Workers : \A i : ToWrite(u, i)' <=> ToWrite(u, i)
    BY <1>2 DEF MainInv
  <2>2. CASE phase = 2  BY <1>4, <2>1, <2>2 DEF CellsKnown
  <2>3. CASE phase # 2  BY <1>4, <2>1, <2>3 DEF CellsKnown
  <2> QED  BY <2>2, <2>3
<1> QED  BY <1>2, <1>3, <1>4, <1>5, <1>6 DEF MainInv

\* The main thread only reserves, and before the workers are spawned.
LEMMA MainSteps ==
  ASSUME MemoryInv, BucketInv, MainInv, MemoryInv', BucketInv', OwnWriteIsNotFreed',
         MainStep(Main)
  PROVE  MainInv'
<1>1. /\ Main \in Threads /\ Step(Main) /\ UNCHANGED phase /\ TypeOK
      /\ pc[Main] # "idle" /\ op[Main] = "reserve" /\ phase = 0
  BY MainAssumption, StepInCall DEF MainStep, MainInv, MainFirst, Resting, BucketInv
<1>2. LoopKnown(Main) /\ Scopes(Main)
  BY <1>1 DEF BucketInv, BucketKnown, MemoryInv
<1>3. pc[Main] \notin
          Writing \cup {"check_bucket", "allocate_bucket", "read_elem", "swap_descriptor"}
  BY <1>1, <1>2 DEF LoopKnown, Scopes
<1>4. LoadDescriptor(Main) \/ Reserve(Main)
  BY <1>1, <1>3 DEF Step, CompleteWrite, LoadPending, WriteCell, OwnWriteGone, LoadTarget,
     ClearPending, RetrySwap, Push, CheckBucket, PushAllocates, ReadOld, PushSwaps, Pop, PopEmpty,
     ReadLast, PopSwaps, SwapDescriptor, Size, Writing
<1>5. UNCHANGED <<descriptor, descs, writes>>
  BY <1>4 DEF LoadDescriptor, Reserve, ReserveSize, ReserveFirst, ReserveNext, ReserveDone,
     AllocateBucket, CapacityOverflow, PanicIn, shared, vector
<1>6. UNCHANGED cells \/ \E b : InstallBucket(b)
  BY <1>4 DEF LoadDescriptor, Reserve, ReserveSize, ReserveFirst, ReserveNext, ReserveDone,
     AllocateBucket, CapacityOverflow, PanicIn, shared, vector
<1>7. /\ \A i \in 0 .. Count(descriptor) - 1 : cells'[i] = cells[i]
      /\ \A i \in Slots : cells'[i] = cells[i] \/ cells'[i] = Zero
  BY <1>6, InstallKeepsCells
<1>8. UNCHANGED <<op, arg, calls>> /\ \A u \in Threads \ {Main} : Undisturbed(u)
  BY <1>1, MineOnly, OthersUndisturbed DEF MainInv
<1>9. \A u \in Workers : Undisturbed(u) /\ pc'[u] = pc[u]
  BY <1>8 DEF Workers, Undisturbed, Mine
<1>10. MainFirst'
  <2>1. Workers' = Workers  BY DEF Workers
  <2> QED  BY <1>1, <1>8, <1>9, <2>1 DEF MainInv, MainFirst
<1>11. Count(descriptor)' = Count(descriptor) /\ WriteOf(descriptor)' = WriteOf(descriptor)
  BY <1>5 DEF Count, WriteOf
<1>12. sum' = sum  BY <1>1 DEF MainStep
<1> QED  BY <1>1, <1>5, <1>7, <1>9, <1>10, <1>11, <1>12, Unmoved

LEMMA MainCalls ==
  ASSUME MemoryInv, BucketInv, MainInv, MemoryInv', BucketInv', OwnWriteIsNotFreed',
         MainReserves
  PROVE  MainInv'
<1>1. PICK n : Call(Main, "reserve", n)  BY DEF MainReserves, CallReserve
<1>2. Main \in Threads /\ TypeOK /\ phase = 0 /\ UNCHANGED <<phase, sum>>
  BY MainAssumption DEF BucketInv, MainReserves
<1>3. UNCHANGED <<descriptor, descs, writes, heap, cells>> /\ UNCHANGED <<cur, work>>
  BY <1>1 DEF Call, shared, vector
<1>4. \A u \in Workers : UNCHANGED Mine(u)
  BY <1>1, <1>2, <1>3 DEF Call, Goto, Mine, Workers, TypeOK, CallTypeOK, work
<1>5. \A u \in Workers : Undisturbed(u) /\ pc'[u] = pc[u]
  BY <1>3, <1>4 DEF Undisturbed, Mine, Count, WriteOf
<1>6. op'[Main] = "reserve"  BY <1>1, <1>2 DEF Call, TypeOK, CallTypeOK
<1>7. MainFirst'
  <2>1. Workers' = Workers  BY DEF Workers
  <2> QED  BY <1>2, <1>5, <1>6, <2>1 DEF MainInv, MainFirst
<1>8. Count(descriptor)' = Count(descriptor) /\ WriteOf(descriptor)' = WriteOf(descriptor)
  BY <1>3 DEF Count, WriteOf
<1> QED  BY <1>2, <1>3, <1>5, <1>7, <1>8, Unmoved

\* What the domain and Drop free is nothing that a worker uses.
LEMMA FreesNothing ==
  ASSUME MemoryInv, BucketInv, MainInv, MemoryInv', BucketInv', OwnWriteIsNotFreed',
         MainDomain \/ MainDrops \/ End \/ UNCHANGED MainVars
  PROVE  MainInv'
<1>1. CASE MainDomain /\ ReclaimDescriptor
  <2>1. PICK d \in DAddrs : heap[d] = "retired" /\ FreeDescriptor(d)
    BY <1>1 DEF ReclaimDescriptor
  <2>2. /\ UNCHANGED <<phase, sum, descriptor, writes, cells>> /\ UNCHANGED <<pc, call, cur, work>>
    BY <1>1 DEF MainDomain, ReclaimDescriptor
  <2>3. ~dropped /\ descriptor # d /\ descriptor \in DAddrs
    <3>1. d \in Addrs  BY DEF Addrs
    <3>2. ~dropped  BY <2>1, <3>1 DEF MemoryInv, AfterDrop
    <3> QED  BY <2>1, <3>2
         DEF MemoryInv, MemoryTypeOK, SingleOwner, DescriptorsOwned, VectorOwns
  <2>4. /\ \A e \in DAddrs : e # d => descs'[e] = descs[e]
        /\ heap'[d] = "free"
    BY <2>1 DEF FreeDescriptor, FreedWith, Addrs, MemoryInv, MemoryTypeOK
  <2>5. /\ Count(descriptor)' = Count(descriptor) /\ WriteOf(descriptor)' = WriteOf(descriptor)
    BY <2>2, <2>3, <2>4 DEF Count, WriteOf
  <2>6. Steady
    <3>1. \A e \in DAddrs : e # d => WriteOf(e)' = WriteOf(e)
      BY <2>2, <2>4 DEF WriteOf
    <3> QED  BY <2>2, <2>4, <3>1 DEF Steady
  <2>7. ASSUME NEW u \in Workers  PROVE Undisturbed(u)
    <3>1. u \in Threads /\ UNCHANGED Mine(u)  BY <2>2 DEF Workers, Mine, call, work
    <3>2. next[u] # Null => next[u] \in DAddrs /\ next[u] # d
      <4>1. u \in Threads  BY <3>1
      <4> QED  BY <2>1, <4>1, Holds
    <3>3. next[u] # Null => descs'[next[u]] = descs[next[u]]  BY <2>4, <3>2
    <3> QED  BY <2>6, <3>1, <3>3, SteadyForOthers DEF MainInv
  <2>8. MainFirst'  BY <2>2 DEF MainInv, MainFirst, Workers, call
  <2> QED  BY <2>2, <2>5, <2>7, <2>8, Unmoved
<1>2. CASE (MainDomain /\ ReclaimWrite) \/ MainDrops \/ End \/ UNCHANGED MainVars
  <2>1. /\ UNCHANGED <<phase, sum, descriptor, descs, writes, cells>>
        /\ UNCHANGED <<pc, call, cur, work>>
    BY <1>2 DEF MainDomain, ReclaimWrite, MainDrops, Drop, End, MainVars, vars, shared, vector
  <2>2. Count(descriptor)' = Count(descriptor) /\ WriteOf(descriptor)' = WriteOf(descriptor)
    BY <2>1 DEF Count, WriteOf
  <2>3. \A u \in Workers : Undisturbed(u)
    BY <2>1 DEF Undisturbed, Mine, Count, WriteOf, call, work
  <2>4. MainFirst'  BY <2>1 DEF MainInv, MainFirst, Workers, call
  <2> QED  BY <2>1, <2>2, <2>3, <2>4, Unmoved
<1> QED  BY <1>1, <1>2 DEF MainDomain, Reclaim

\* A call is counted, and has announced nothing yet.
LEMMA WorkerCallsOne ==
  ASSUME MemoryInv, BucketInv, MainInv, MemoryInv', BucketInv', OwnWriteIsNotFreed',
         NEW t \in Workers, WorkerCalls(t)
  PROVE  MainInv'
<1>1. /\ t \in Threads /\ TypeOK /\ UNCHANGED <<phase, sum>> /\ phase \in {1, 2}
      /\ calls[t] < PerWorker * phase /\ WorkerKnown(t) /\ WorkerCalled(t)
  BY DEF Workers, WorkerCalls, BucketInv, MainInv, WorkerKnown
<1>2. PICK a : /\ Call(t, IF phase = 1 THEN "push" ELSE "pop", a)
               /\ phase = 1 => a = FIVE
  <2>1. CASE phase = 1 /\ CallPush(t)  BY <2>1, MainAssumption DEF CallPush
  <2>2. CASE phase = 2 /\ CallPop(t)  BY <2>2 DEF CallPop
  <2> QED  BY <2>1, <2>2 DEF WorkerCalls
<1>3. /\ UNCHANGED <<descriptor, descs, writes, heap, cells>> /\ UNCHANGED <<cur, work>>
      /\ pc[t] = "idle"
  BY <1>2 DEF Call, shared, vector
<1>4. /\ pc'[t] = "load_descriptor" /\ calls'[t] = calls[t] + 1
      /\ op'[t] = (IF phase = 1 THEN "push" ELSE "pop") /\ (phase = 1 => arg'[t] = FIVE)
  BY <1>1, <1>2 DEF Call, Goto, TypeOK, CallTypeOK
<1>5. \A u \in Threads \ {t} : Undisturbed(u)
  <2>1. \A u \in Threads \ {t} : UNCHANGED Mine(u)
    BY <1>1, <1>2, <1>3 DEF Call, Goto, Mine, TypeOK, CallTypeOK, work
  <2> QED  BY <1>3, <2>1 DEF Undisturbed, Mine, Count, WriteOf
<1>6. /\ Count(descriptor)' = Count(descriptor) /\ WriteOf(descriptor)' = WriteOf(descriptor)
      /\ Count(descriptor) \in Nat
  BY <1>3, CurrentKnown DEF Count, WriteOf
<1>7. Onward  BY <1>3, <1>6 DEF Onward
<1>8. \A u \in Workers \ {t} : /\ Announced(u)' = Announced(u)
                               /\ Completing(u)' <=> Completing(u)
                               /\ Completing(u) => Count(cur[u])' = Count(cur[u])
                               /\ \A i : ToWrite(u, i)' <=> ToWrite(u, i)
  <2> TAKE u \in Workers \ {t}
  <2>1. u \in Threads \ {t} /\ WorkerKnown(u) /\ phase \in 0 .. 2
    BY <1>1 DEF Workers, MainInv
  <2> QED  BY <1>1, <1>5, <1>7, <2>1, OthersKnown
<1>9. ~Unannounced(t) /\ Unannounced(t)' /\ ~Completing(t)
  BY <1>3, <1>4 DEF Unannounced, Completing, Writing
<1>10. calls[t] \in Nat /\ Before \in Nat /\ Before' = Before /\ calls[t] >= Before
  BY <1>1, AnnouncedType DEF WorkerCalled, Before
<1>11. Announced(t)' = Announced(t)  BY <1>4, <1>9, <1>10 DEF Announced
<1>12. Present' = Present  BY <1>1, <1>8, <1>11, SameElements
<1>13. WorkerKnown(t)'
  <2>1. PerWorker * phase \in Nat  BY <1>1, Numbers
  <2>2. calls'[t] \in Before' .. PerWorker * phase /\ calls'[t] > Before'
    BY <1>1, <1>4, <1>10, <2>1
  <2>3. WorkerCalled(t)'  BY <1>1, <1>4, <2>2 DEF WorkerCalled
  <2>4. PushKnown(t)' /\ PopKnown(t)'  BY <1>4 DEF PushKnown, PopKnown, HasDesc, Writing
  <2> QED  BY <2>3, <2>4 DEF WorkerKnown
<1>14. Total' = Total /\ Workers' = Workers  BY DEF Total, Workers
<1>15. PendingOwned'
  <2> SUFFICES ASSUME WriteOf(descriptor)'.some
               PROVE  /\ IsWrite(WriteOf(descriptor), Count(descriptor))'
                      /\ (\E u \in Workers :
                              Completing(u) /\ Count(cur[u]) + 1 = Count(descriptor))'
    BY DEF PendingOwned
  <2>1. WriteOf(descriptor).some  BY <1>6
  <2>2. IsWrite(WriteOf(descriptor), Count(descriptor))'
    BY <1>6, <2>1, CurrentKnown DEF IsWrite
  <2>3. PICK u \in Workers : Completing(u) /\ Count(cur[u]) + 1 = Count(descriptor)
    BY <2>1 DEF MainInv, PendingOwned
  <2>4. Completing(u)' /\ Count(cur[u])' + 1 = Count(descriptor)'
    BY <1>6, <1>8, <1>9, <2>3
  <2> QED  BY <1>14, <2>2, <2>4
<1>16. CellsKnown'
  <2>1. \A i : ~ToWrite(t, i)  BY <1>9 DEF ToWrite
  <2>2. CellsKnown /\ \A u \in Workers : \A i : ToWrite(u, i) => ToWrite(u, i)'
    BY <1>8, <2>1 DEF MainInv
  <2> QED  BY <1>1, <1>3, <1>6, <1>14, <2>2 DEF CellsKnown
<1>17. /\ Count(descriptor)' = Cardinality(Present')
       /\ sum' = IF phase = 2 THEN FIVE * (Total - Count(descriptor)') ELSE 0
  BY <1>1, <1>6, <1>12 DEF MainInv
<1> QED  BY <1>1, <1>5, <1>7, <1>13, <1>15, <1>16, <1>17, Assembled

\* The main thread joins: every push has announced its element, and so has
\* every pop, and nobody is at work on a write.
LEMMA JoinedKnown ==
  ASSUME MainInv, Joined
  PROVE  /\ ~WriteOf(descriptor).some /\ \A t \in Workers : \A i : ~ToWrite(t, i)
         /\ \A t \in Workers : Announced(t) = calls[t] - Before /\ calls[t] = PerWorker * phase
<1>1. \A t \in Workers : pc[t] = "idle" /\ calls[t] = PerWorker * phase
  BY DEF Joined, Workers
<1>2. \A t \in Workers : ~Completing(t) /\ ~Unannounced(t)
  BY <1>1 DEF Completing, Unannounced, Writing
<1>3. ~WriteOf(descriptor).some  BY <1>2 DEF MainInv, PendingOwned
<1>4. ASSUME NEW t \in Workers  PROVE Announced(t) = calls[t] - Before
  <2>1. phase \in 0 .. 2 /\ WorkerCalled(t)  BY DEF MainInv, MainFirst, WorkerKnown
  <2>2. calls[t] \in Nat /\ Before \in Nat  BY <2>1, AnnouncedType
  <2> QED  BY <1>2, <2>2 DEF Announced
<1> QED  BY <1>1, <1>2, <1>3, <1>4 DEF ToWrite

LEMMA Joins ==
  ASSUME MemoryInv, BucketInv, MainInv, MemoryInv', BucketInv', OwnWriteIsNotFreed', Join
  PROVE  MainInv'
<1>1. /\ Joined /\ phase' = phase + 1 /\ phase \in {0, 1} /\ sum = 0 /\ sum' = 0
      /\ UNCHANGED vars
  BY DEF Join, MainInv, MainFirst
<1>2. /\ ~WriteOf(descriptor).some /\ \A t \in Workers : \A i : ~ToWrite(t, i)
      /\ \A t \in Workers : Announced(t) = calls[t] - Before /\ calls[t] = PerWorker * phase
  BY <1>1, JoinedKnown
<1>3. /\ UNCHANGED <<descriptor, descs, writes, cells, pc, op, arg, calls, cur, ret>>
  BY <1>1 DEF vars, shared, vector, call, work
<1>4. /\ Count(descriptor)' = Count(descriptor) /\ WriteOf(descriptor)' = WriteOf(descriptor)
      /\ Workers' = Workers /\ Total' = Total
  BY <1>3 DEF Count, WriteOf, Workers, Total
<1>5. PerWorker \in Nat /\ PerWorker * 0 = 0 /\ PerWorker * 1 = PerWorker
      /\ PerWorker * 2 = PerWorker + PerWorker
  BY Numbers
<1>6. \A t \in Workers : pc'[t] = "idle" /\ calls'[t] = Before' /\ Announced(t)' = 0
  <2> TAKE t \in Workers
  <2>1. pc'[t] = "idle"  BY <1>1, <1>3 DEF Joined, Workers
  <2>2. ~Unannounced(t)'  BY <2>1 DEF Unannounced, Writing
  <2>3. calls'[t] = Before' /\ Before' \in Nat  BY <1>1, <1>2, <1>3, <1>5 DEF Before
  <2>4. Announced(t)' = calls'[t] - Before' - 0  BY <2>2 DEF Announced
  <2>5. \A b \in Nat : b - b - 0 = 0  OBVIOUS
  <2>6. Announced(t)' = Before' - Before' - 0  BY <2>3, <2>4
  <2> QED  BY <2>1, <2>3, <2>5, <2>6
<1>7. Present' = Present /\ Count(descriptor) = Cardinality(Present)
      /\ (phase = 1 => Present = AllElements)
  <2>1. \A e \in AllElements : e[1] \in Workers /\ e[2] \in 1 .. PerWorker  BY DEF AllElements
  <2>2. CASE phase = 0
    <3>1. Present = {}  BY <2>2 DEF Present
    <3>2. Present' = {}  BY <1>1, <1>6, <2>1, <2>2 DEF Present, AllElements
    <3> QED  BY <2>2, <3>1, <3>2 DEF MainInv
  <2>3. CASE phase = 1
    <3>1. \A t \in Workers : Announced(t) = PerWorker
      BY <1>2, <1>5, <2>3 DEF Before
    <3>2. Present = AllElements  BY <1>5, <2>1, <2>3, <3>1 DEF Present, AllElements
    <3>3. Present' = AllElements
      BY <1>1, <1>6, <2>1, <2>3 DEF Present, AllElements
    <3> QED  BY <3>2, <3>3 DEF MainInv
  <2> QED  BY <1>1, <2>2, <2>3
<1>8. Count(descriptor) \in Nat /\ Total \in Nat /\ (phase = 1 => Count(descriptor) = Total)
  BY <1>7, CurrentKnown, ElementsFinite
<1>9. MainFirst'
  BY <1>1, <1>3, <1>4, MainAssumption DEF MainInv, MainFirst, Joined
<1>10. PendingOwned'  BY <1>2, <1>4 DEF PendingOwned
<1>11. CellsKnown'
  <2>1. CellsKnown  BY DEF MainInv
  <2>2. CASE phase = 0  BY <1>1, <1>2, <1>3, <1>4, <2>1, <2>2 DEF CellsKnown
  <2>3. CASE phase = 1  BY <1>1, <1>2, <1>3, <1>4, <1>8, <2>1, <2>3 DEF CellsKnown
  <2> QED  BY <1>1, <2>2, <2>3
<1>12. sum' = IF phase' = 2 THEN FIVE * (Total - Count(descriptor)') ELSE 0
  <2>1. FIVE * 0 = 0  BY Numbers
  <2> QED  BY <1>1, <1>4, <1>8, <2>1
<1>13. ASSUME NEW t \in Workers  PROVE WorkerKnown(t)'
  <2>1. pc'[t] = "idle" /\ calls'[t] = Before'  BY <1>6
  <2>2. Before' \in Before' .. PerWorker * phase'  BY <1>1, <1>5 DEF Before
  <2>3. op'[t] = "push" => arg'[t] = FIVE
    BY <1>3 DEF MainInv, WorkerKnown, WorkerCalled
  <2>4. WorkerCalled(t)'
    BY <2>1, <2>2, <2>3 DEF WorkerCalled, Unannounced, Writing
  <2>5. PushKnown(t)' /\ PopKnown(t)'  BY <2>1 DEF PushKnown, PopKnown, HasDesc, Writing
  <2> QED  BY <2>4, <2>5 DEF WorkerKnown
<1> QED  BY <1>4, <1>7, <1>9, <1>10, <1>11, <1>12, <1>13 DEF MainInv

LEMMA MainStarts == MainInit /\ MemoryInv /\ BucketInv => MainInv
<1> SUFFICES ASSUME MainInit, MemoryInv, BucketInv  PROVE MainInv
  OBVIOUS
<1>1. /\ phase = 0 /\ sum = 0
      /\ \A t \in Threads : pc[t] = "idle" /\ op[t] = "new" /\ calls[t] = 0
      /\ \A i \in Slots : cells[i] = Zero
  BY DEF MainInit, Init
<1>2. Count(descriptor) = 0 /\ ~WriteOf(descriptor).some
  <2>1. \A d \in DAddrs : descs[d].size = 0
    <3>1. PICK w \in WAddrs, d \in DAddrs :
              descs = [[a \in DAddrs |-> Blank] EXCEPT ![d].pending = w]
      BY SealedAssumption DEF MainInit, Init
    <3> QED  BY <3>1 DEF Blank
  <2>2. \A w \in WAddrs : ~writes[w].some  BY DEF MainInit, Init, NoWrite
  <2>3. descriptor \in DAddrs /\ heap[descriptor] # "free"
    BY SealedAssumption DEF MainInit, Init, Addrs
  <2>4. descs[descriptor].pending \in WAddrs  BY <2>3, InOrder DEF DescsInOrder
  <2> QED  BY <2>1, <2>2, <2>3, <2>4 DEF Count, WriteOf
<1>3. MainFirst /\ OwnWriteIsNotFreed /\ PendingOwned
  BY <1>1, <1>2, MainAssumption DEF MainFirst, OwnWriteIsNotFreed, PendingOwned, Workers
<1>4. CellsKnown  BY <1>1, <1>2 DEF CellsKnown
<1>5. Present = {}  BY <1>1 DEF Present
<1>6. Count(descriptor) = Cardinality(Present)  BY <1>2, <1>5, FS_EmptySet
<1>7. ASSUME NEW t \in Workers  PROVE WorkerKnown(t)
  <2>1. t \in Threads  BY DEF Workers
  <2>2. PerWorker * 0 = 0  BY Numbers
  <2>3. WorkerCalled(t)
    BY <1>1, <2>1, <2>2 DEF WorkerCalled, Before, Unannounced, Writing
  <2> QED  BY <1>1, <2>3 DEF WorkerKnown
<1> QED  BY <1>1, <1>3, <1>4, <1>6, <1>7 DEF MainInv

LEMMA MainKeeps ==
  ASSUME MemoryInv, BucketInv, MainInv, MemoryInv', BucketInv', [MainNext /\ InTime]_MainVars
  PROVE  MainInv'
<1>1. OwnWriteIsNotFreed'
  <2>1. CASE UNCHANGED MainVars
    BY <2>1 DEF MainVars, vars, shared, vector, work, MainInv, OwnWriteIsNotFreed, Own
  <2> QED  BY <2>1 DEF InTime
<1>2. CASE MainReserves  BY <1>1, <1>2, MainCalls
<1>3. CASE Join  BY <1>1, <1>3, Joins
<1>4. CASE MainDrops \/ MainDomain \/ End \/ UNCHANGED MainVars
  BY <1>1, <1>4, FreesNothing
<1>5. ASSUME NEW t \in Workers, WorkerCalls(t)  PROVE MainInv'
  BY <1>1, <1>5, WorkerCallsOne
<1>6. ASSUME NEW t \in Threads, MainStep(t)  PROVE MainInv'
  <2>1. CASE t = Main  BY <1>1, <1>6, <2>1, MainSteps
  <2>2. CASE t \in Workers  BY <1>1, <1>6, <2>2, WorkerSteps
  <2> QED  BY <2>1, <2>2 DEF Workers
<1> QED  BY <1>2, <1>3, <1>4, <1>5, <1>6 DEF MainNext

-----------------------------------------------------------------------------
(* The invariant and its consequence *)

\* At every step of the main thread, the workers and the domain: the size is
\* the number of elements that were pushed and not yet popped, each in its cell
\* or about to be written there, and the sum is that of the popped ones.
THEOREM MainInvariance == InTimeSpec => []MainInv
<1>1. MemoryInv /\ MemoryInv' /\ BucketInv /\ BucketInv' /\ MainInv
        /\ [MainNext /\ InTime]_MainVars => MainInv'
  BY MainKeeps
<1> QED  BY <1>1, MainStarts, MainMemory, PTL DEF InTimeSpec

\* What the workers have added up when the last of them is joined is what was
\* pushed, for every number of workers and of elements: no element is lost,
\* popped twice or read before it was written, as long as the domain leaves
\* the write descriptor of a push alone until push has read it.
THEOREM SumsUp == InTimeSpec => []SumIsPushed
<1>1. MemoryInv /\ BucketInv /\ MainInv => SumIsPushed
  <2> SUFFICES ASSUME MemoryInv, BucketInv, MainInv, Done  PROVE sum = FIVE * Total
    BY DEF SumIsPushed
  <2>1. phase = 2 /\ Joined  BY DEF Done
  <2>2. \A t \in Workers : Announced(t) = calls[t] - Before /\ calls[t] = PerWorker * phase
    BY <2>1, JoinedKnown
  <2>3. \A t \in Workers : Announced(t) = PerWorker  BY <2>1, <2>2, Numbers DEF Before
  <2>4. Present = {}
    <3>1. PerWorker \in Nat  BY Numbers
    <3>2. \A e \in AllElements : e[1] \in Workers /\ e[2] \in 1 .. PerWorker  BY DEF AllElements
    <3> QED  BY <2>1, <2>3, <3>1, <3>2 DEF Present, AllElements
  <2>5. Count(descriptor) = 0  BY <2>4, FS_EmptySet DEF MainInv
  <2>6. sum = FIVE * (Total - 0) /\ Total \in Nat
    BY <2>1, <2>5, CurrentKnown DEF MainInv
  <2> QED  BY <2>6
<1> QED  BY <1>1, MainInvariance, MainMemory, PTL
=============================================================================
