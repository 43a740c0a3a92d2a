-------------------------- MODULE LeakyBenchProofs ---------------------------
(***************************************************************************)
(* The benchmark never allocates after reserve, never unwraps a None, and  *)
(* leaves the right number of elements at each join, for every number of   *)
(* threads, elements and iterations.                                       *)
(*                                                                         *)
(* The proof counts without a sum: the elements that are announced and not *)
(* popped form a set of pairs (worker, number of its push), to which a     *)
(* push adds one pair and from which a pop takes one.                      *)
(***************************************************************************)
EXTENDS LeakyBench, LeakyProofs, FiniteSetTheorems

\* The benchmark restricts what the threads call: the invariant of Leaky holds.
LEMMA BenchIInv == BenchSpec => []IInv
<1>1. BenchInit => IInv  BY InitIInv DEF BenchInit
<1>2. IInv /\ [BenchNext]_<<vars, phase>> => IInv'
  <2>1. ASSUME IInv, Next  PROVE IInv'
    BY <2>1, NextTypeOK, NextKnown DEF IInv, Known
  <2>2. CASE MainReserves  BY <2>1, <2>2, BenchAssumption DEF MainReserves, Next, Calls
  <2>3. CASE Join \/ End \/ UNCHANGED <<vars, phase>>
    BY <2>3, StutterKeeps DEF Join, End
  <2>4. ASSUME NEW t \in Workers, WorkerCalls(t)  PROVE IInv /\ TRUE => IInv'
    BY <2>1, <2>4 DEF Workers, WorkerCalls, Next, Calls
  <2>5. ASSUME NEW t \in Threads, BenchStep(t)  PROVE IInv => IInv'
    BY <2>1, <2>5 DEF BenchStep, Next
  <2> QED  BY <2>2, <2>3, <2>4, <2>5 DEF BenchNext
<1> QED  BY <1>1, <1>2, PTL DEF BenchSpec

-----------------------------------------------------------------------------
(* The phases, and what is announced in them *)

LEMMA Phases ==
  ASSUME phase \in Nat
  PROVE  /\ ~(Pushing /\ Popping)
         /\ phase > 0 <=> (Pushing \/ Popping)
         /\ Iters * phase \in Nat /\ Before \in Nat
         /\ Iters * phase = Before + (IF phase = 0 THEN 0 ELSE Iters)
<1>1. Iters \in Nat  BY BenchAssumption
<1>2. phase % 2 = 0 \/ phase % 2 = 1  OBVIOUS
<1>3. phase = 0 => phase % 2 = 0  OBVIOUS
<1>4. Iters * phase \in Nat  BY <1>1
<1>5. ASSUME phase # 0
      PROVE Iters * (phase - 1) \in Nat /\ Iters * phase = Iters * (phase - 1) + Iters
  <2>1. PICK p \in Nat : phase = p + 1  BY <1>5
  <2>2. Iters * (p + 1) = Iters * p + Iters /\ Iters * p \in Nat  BY <1>1
  <2> QED  BY <2>1, <2>2
<1>6. Iters * 0 = 0  BY <1>1
<1> QED  BY <1>1, <1>2, <1>3, <1>4, <1>5, <1>6 DEF Pushing, Popping, Before

\* Of a worker that is to announce an element, that is counted below Iters.
LEMMA AnnouncedType ==
  ASSUME phase \in Nat, NEW t \in Workers, WorkerKnown(t)
  PROVE  /\ Announced(t) \in Nat /\ Announced(t) <= Iters
         /\ Unannounced(t) => phase > 0 /\ Announced(t) + 1 \in 1 .. Iters
<1> DEFINE B == Before
           I == Iters * phase
           c == calls[t]
<1>1. /\ B \in Nat /\ I \in Nat /\ I = B + (IF phase = 0 THEN 0 ELSE Iters) /\ Iters \in Nat
  BY Phases, BenchAssumption
<1>2. c \in B .. I /\ (Unannounced(t) => c > B)  BY DEF WorkerKnown
<1>3. Announced(t) = c - B - (IF Unannounced(t) THEN 1 ELSE 0)  BY DEF Announced
<1> HIDE DEF B, I, c
<1>4. CASE Unannounced(t)  BY <1>1, <1>2, <1>3, <1>4
<1>5. CASE ~Unannounced(t)  BY <1>1, <1>2, <1>3, <1>5
<1> QED  BY <1>4, <1>5

AllElements == Workers \X (1 .. Iters)

LEMMA ElementsFinite ==
  /\ IsFiniteSet(AllElements) /\ Cardinality(AllElements) = Total
  /\ Present \subseteq AllElements /\ IsFiniteSet(Present)
  /\ Cardinality(Present) \in Nat
  /\ Total \in Nat
<1>1. Iters \in Nat /\ IsFiniteSet(Workers)
  BY BenchAssumption, FS_Subset DEF Workers
<1>2. IsFiniteSet(1 .. Iters) /\ Cardinality(1 .. Iters) = Iters
  BY <1>1, FS_Interval
<1>3. Cardinality(Workers) \in Nat  BY <1>1, FS_CardinalityType
<1>4. IsFiniteSet(AllElements) /\ Cardinality(AllElements) = Cardinality(Workers) * Iters
  BY <1>1, <1>2, FS_Product DEF AllElements
<1>5. Present \subseteq AllElements  BY DEF Present, AllElements
<1>6. Cardinality(Workers) * Iters = Total /\ Total \in Nat  BY <1>1, <1>3 DEF Total
<1>7. IsFiniteSet(Present)  BY <1>4, <1>5, FS_Subset
<1>8. Cardinality(Present) \in Nat  BY <1>7, FS_CardinalityType
<1> QED  BY <1>4, <1>5, <1>6, <1>7, <1>8

\* While a push is to be announced there is room for it, and while a pop is
\* there is an element for it.
LEMMA RoomAndSupply ==
  ASSUME phase \in Nat, NEW t \in Workers, WorkerKnown(t), Unannounced(t)
  PROVE  /\ Pushing => Cardinality(Present) < Total
         /\ Popping => Cardinality(Present) > 0
<1> DEFINE e == <<t, Announced(t) + 1>>
<1>1. Announced(t) \in Nat /\ Announced(t) + 1 \in 1 .. Iters  BY AnnouncedType
<1>2. e \in AllElements  BY <1>1 DEF AllElements
<1>3. e[1] = t /\ e[2] = Announced(t) + 1  OBVIOUS
<1>4. ASSUME Pushing  PROVE Cardinality(Present) < Total
  <2>1. ~Popping  BY <1>4, Phases
  <2>2. e \notin Present  BY <1>1, <1>3, <2>1 DEF Present
  <2>3. Present # AllElements  BY <1>2, <2>2
  <2>4. /\ Cardinality(Present) <= Cardinality(AllElements)
        /\ Cardinality(AllElements) = Cardinality(Present) => AllElements = Present
    BY ElementsFinite, FS_Subset
  <2> QED  BY <2>3, <2>4, ElementsFinite
<1>5. ASSUME Popping  PROVE Cardinality(Present) > 0
  <2>1. e \in Present  BY <1>1, <1>2, <1>3, <1>5 DEF Present, AllElements
  <2>2. Cardinality(Present) # 0  BY <2>1, ElementsFinite, FS_EmptySet
  <2> QED  BY <2>2, ElementsFinite
<1> QED  BY <1>4, <1>5

-----------------------------------------------------------------------------
(* What a step leaves as it is *)

\* A step of t concerns the local variables of t alone.
OthersUntouched(t) ==
  \A u \in Threads \ {t} :
    UNCHANGED <<pc[u], op[u], arg[u], res[u], calls[u], cur[u], wd[u], ret[u]>>

\* No element is announced, and no write becomes pending.
Quiet ==
  /\ UNCHANGED <<phase, descriptor>>
  /\ \A d \in 1 .. descriptor :
       descs'[d].size = descs[d].size /\ (descs'[d].pending => descs[d].pending)

\* The elements depend on the phase and on what each worker has announced.
LEMMA SameElements ==
  ASSUME UNCHANGED phase, \A t \in Workers : Announced(t)' = Announced(t)
  PROVE  Present' = Present
BY DEF Present, Pushing, Popping

\* Of another worker everything stays, as long as the size moves in the
\* direction of the phase.
LEMMA OthersKnown ==
  ASSUME TypeOK, BenchInv, UNCHANGED phase, NEW t \in Threads, OthersUntouched(t),
         NEW u \in Workers \ {t},
         \A d \in 1 .. descriptor : descs'[d].size = descs[d].size,
         descs[descriptor].size \in Nat, descs'[descriptor'].size \in Nat,
         Pushing => descs[descriptor].size <= descs'[descriptor'].size,
         Popping => descs[descriptor].size >= descs'[descriptor'].size
  PROVE  /\ Announced(u)' = Announced(u) /\ Unannounced(u)' = Unannounced(u)
         /\ WorkerKnown(u)' /\ LoadedThisPhase(u)'
<1>1. /\ pc'[u] = pc[u] /\ op'[u] = op[u] /\ res'[u] = res[u] /\ calls'[u] = calls[u]
      /\ cur'[u] = cur[u] /\ ret'[u] = ret[u]
  BY DEF OthersUntouched, Workers
<1>2. Unannounced(u)' = Unannounced(u)  BY <1>1 DEF Unannounced
<1>3. Before' = Before /\ Pushing' = Pushing /\ Popping' = Popping
  BY DEF Before, Pushing, Popping
<1>4. Announced(u)' = Announced(u)  BY <1>1, <1>2, <1>3 DEF Announced
<1>5. WorkerKnown(u) /\ LoadedThisPhase(u)  BY DEF BenchInv
<1>6. WorkerKnown(u)'  BY <1>1, <1>2, <1>3, <1>5 DEF WorkerKnown
<1>7. LoadedThisPhase(u)'
  <2>1. cur[u] \in 1 .. descriptor /\ descs[cur[u]].size \in Nat
    BY DEF TypeOK, WorkTypeOK, SharedTypeOK, Desc, Workers
  <2>2. descs'[cur[u]].size = descs[cur[u]].size  BY <2>1
  <2>3. Unannounced(u) => Pushing \/ Popping
    BY <1>5, AnnouncedType, Phases DEF BenchInv
  <2> QED  BY <1>1, <1>2, <1>3, <1>5, <2>1, <2>2, <2>3, Phases
           DEF LoadedThisPhase, BenchInv
<1> QED  BY <1>2, <1>4, <1>6, <1>7

\* A pending write keeps its owner.
OwnerStays(t) ==
  pc[t] \in InWrite /\ ret[t] = "idle" /\ wd[t] = descriptor =>
    \/ pc'[t] \in InWrite /\ ret'[t] = "idle" /\ wd'[t] = wd[t]
    \/ ~descs'[descriptor].pending

\* Such a step has to be looked at from t only.
LEMMA QuietKeeps ==
  ASSUME TypeOK, BenchInv, Quiet, MainFirst', NEW t \in Threads, OthersUntouched(t),
         OwnerStays(t),
         t \in Workers => /\ Announced(t)' = Announced(t)
                         /\ WorkerKnown(t)' /\ LoadedThisPhase(t)'
  PROVE  BenchInv'
<1>1. /\ descriptor' = descriptor /\ phase' = phase
      /\ \A d \in 1 .. descriptor :
           descs'[d].size = descs[d].size /\ (descs'[d].pending => descs[d].pending)
  BY DEF Quiet
<1>2. descriptor \in 1 .. descriptor /\ descs[descriptor].size \in Nat
  BY DEF TypeOK, SharedTypeOK, Desc
<1>3. \A u \in Workers \ {t} :
        /\ Announced(u)' = Announced(u)
        /\ WorkerKnown(u)' /\ LoadedThisPhase(u)'
  BY <1>1, <1>2, OthersKnown
<1>4. \A u \in Workers : Announced(u)' = Announced(u)  BY <1>3
<1>5. Present' = Present  BY <1>1, <1>4, SameElements
<1>6. PendingOwned'
  <2> SUFFICES ASSUME descs'[descriptor].pending
               PROVE  \E u \in Workers : pc'[u] \in InWrite /\ ret'[u] = "idle" /\ wd'[u] = descriptor
    BY <1>1 DEF PendingOwned
  <2>1. PICK u \in Workers : pc[u] \in InWrite /\ ret[u] = "idle" /\ wd[u] = descriptor
    BY <1>1, <1>2 DEF BenchInv, PendingOwned
  <2>2. CASE u = t  BY <2>1, <2>2 DEF OwnerStays
  <2>3. CASE u # t
    <3>1. pc'[u] = pc[u] /\ ret'[u] = ret[u] /\ wd'[u] = wd[u]
      BY <2>3 DEF OthersUntouched, Workers
    <3> QED  BY <2>1, <3>1
  <2> QED  BY <2>2, <2>3
<1> QED  BY <1>1, <1>2, <1>3, <1>5, <1>6 DEF BenchInv

-----------------------------------------------------------------------------
(* A worker in a call *)

LEMMA LoadedType ==
  ASSUME TypeOK, NEW t \in Threads
  PROVE  /\ cur[t] \in 1 .. descriptor /\ descriptor \in 1 .. descriptor
         /\ descs[cur[t]].size \in Nat /\ descs[descriptor].size \in Nat
<1>1. cur[t] \in 1 .. descriptor /\ descriptor \in Nat \ {0}
  BY DEF TypeOK, WorkTypeOK, SharedTypeOK
<1>2. descriptor \in 1 .. descriptor  BY <1>1
<1>3. descs[cur[t]] \in Desc /\ descs[descriptor] \in Desc
  BY <1>1, <1>2 DEF TypeOK, SharedTypeOK
<1> QED  BY <1>1, <1>2, <1>3 DEF Desc

\* It is in the call that the phase is for, and main has reserved and waits.
LEMMA InCall ==
  ASSUME IInv, BenchInv, NEW t \in Workers, pc[t] # "idle"
  PROVE  /\ t \in Threads /\ t # Main /\ phase \in Nat /\ phase > 0
         /\ \/ op[t] = "push" /\ Pushing /\ ~Popping
            \/ op[t] = "pop" /\ Popping /\ ~Pushing
         /\ \A i \in 0 .. Total - 1 : Backed(i)
<1>1. phase \in Nat /\ phase > 0  BY DEF BenchInv, MainFirst
<1>2. op[t] = IF Pushing THEN "push" ELSE "pop"  BY DEF BenchInv, WorkerKnown
<1>3. (Pushing \/ Popping) /\ ~(Pushing /\ Popping)  BY <1>1, Phases
<1>4. op[Main] = "reserve" /\ pc[Main] = "idle" /\ arg[Main] = Total
  BY <1>1 DEF BenchInv, MainFirst
<1>5. Delivered(Main)  BY BenchAssumption DEF IInv, ThreadInv
<1>6. \A i \in 0 .. Total - 1 : Backed(i)  BY <1>4, <1>5 DEF Delivered
<1> QED  BY <1>1, <1>2, <1>3, <1>6, Phases DEF Workers

\* What it has loaded leaves room for a push, and an element for a pop.
LEMMA LoadedSizes ==
  ASSUME IInv, BenchInv, NEW t \in Workers, Unannounced(t), pc[t] # "load_descriptor"
  PROVE  /\ descs[cur[t]].size \in Nat
         /\ op[t] = "push" => Backed(descs[cur[t]].size)
         /\ op[t] = "pop" => descs[cur[t]].size # 0
<1>1. pc[t] # "idle"  BY DEF Unannounced, InLoop, InWrite
<1>2. /\ t \in Threads /\ phase \in Nat
      /\ \/ op[t] = "push" /\ Pushing /\ ~Popping
         \/ op[t] = "pop" /\ Popping /\ ~Pushing
      /\ \A i \in 0 .. Total - 1 : Backed(i)
  BY <1>1, InCall
<1>3. cur[t] \in 1 .. descriptor /\ descs[cur[t]].size \in Nat /\ descs[descriptor].size \in Nat
  BY <1>2, LoadedType DEF IInv
<1>4. WorkerKnown(t) /\ LoadedThisPhase(t) /\ descs[descriptor].size = Cardinality(Present)
  BY DEF BenchInv
<1>5. Cardinality(Present) \in Nat /\ Total \in Nat  BY ElementsFinite
<1>6. CASE Pushing
  <2>1. descs[cur[t]].size <= descs[descriptor].size  BY <1>4, <1>6 DEF LoadedThisPhase
  <2>2. descs[descriptor].size < Total  BY <1>2, <1>4, <1>6, RoomAndSupply
  <2> QED  BY <1>2, <1>3, <1>5, <1>6, <2>1, <2>2
<1>7. CASE ~Pushing
  <2>1. descs[cur[t]].size >= descs[descriptor].size  BY <1>4, <1>7 DEF LoadedThisPhase
  <2>2. descs[descriptor].size > 0  BY <1>2, <1>4, <1>7, RoomAndSupply
  <2> QED  BY <1>2, <1>3, <1>5, <1>7, <2>1, <2>2
<1> QED  BY <1>6, <1>7

LEMMA MainStays ==
  ASSUME BenchInv, phase \in Nat, phase > 0, UNCHANGED phase,
         NEW t \in Workers, OthersUntouched(t)
  PROVE  MainFirst'
<1>1. pc'[Main] = pc[Main] /\ op'[Main] = op[Main] /\ arg'[Main] = arg[Main]
  BY BenchAssumption DEF OthersUntouched, Workers
<1> QED  BY <1>1 DEF BenchInv, MainFirst, Total, Workers

\* A step by which the worker announces nothing.
LEMMA WorkerStep ==
  ASSUME IInv, BenchInv, Quiet, NEW t \in Workers, pc[t] # "idle",
        OthersUntouched(t), OwnerStays(t),
         op'[t] = op[t], calls'[t] = calls[t],
         Unannounced(t)' = Unannounced(t),
         pc'[t] \notin {"panicked", "allocate_bucket"},
         pc'[t] \in {"idle", "check_bucket"} => op[t] = "push",
         pc'[t] \in InWrite /\ ret'[t] = "idle" => op[t] = "push",
         \/ pc'[t] \in {"idle", "load_descriptor"} \/ cur'[t] = descriptor
         \/ cur'[t] = cur[t] /\ pc[t] # "load_descriptor"
  PROVE  BenchInv'
<1>1. phase' = phase /\ descriptor' = descriptor  BY DEF Quiet
<1>2. Before' = Before /\ Pushing' = Pushing /\ Popping' = Popping
  BY <1>1 DEF Before, Pushing, Popping
<1>3. Announced(t)' = Announced(t)  BY <1>2 DEF Announced
<1>4. WorkerKnown(t)' 
  <2>1. WorkerKnown(t)  BY DEF BenchInv
  <2> QED  BY <1>1, <1>2, <2>1 DEF WorkerKnown
<1>5. LoadedThisPhase(t)'
  <2>1. /\ cur[t] \in 1 .. descriptor /\ descriptor \in 1 .. descriptor
        /\ descs[descriptor].size \in Nat
    BY LoadedType DEF IInv, Workers
  <2>2. \A d \in 1 .. descriptor : descs'[d].size = descs[d].size  BY DEF Quiet
  <2>3. LoadedThisPhase(t)  BY DEF BenchInv
  <2>4. CASE pc'[t] \in {"idle", "load_descriptor"}
    BY <2>4 DEF LoadedThisPhase, Unannounced, InWrite, InLoop
  <2>5. CASE cur'[t] = descriptor  BY <1>1, <2>1, <2>2, <2>5 DEF LoadedThisPhase
  <2>6. CASE cur'[t] = cur[t] /\ pc[t] # "load_descriptor"
    BY <1>1, <1>2, <2>1, <2>2, <2>3, <2>6 DEF LoadedThisPhase
  <2> QED  BY <2>4, <2>5, <2>6
<1>6. MainFirst'  BY <1>1, InCall, MainStays
<1> QED  BY <1>3, <1>4, <1>5, <1>6, QuietKeeps DEF IInv, Workers

LEMMA WorkerLoads ==
  ASSUME IInv, BenchInv, UNCHANGED phase, NEW t \in Workers,
         LoadDescriptor(t) \/ LoadPending(t) \/ RetrySwap(t)
  PROVE  BenchInv'
<1> USE DEF Goto, shared, call, work
<1>0. TypeOK /\ t \in Threads  BY DEF IInv, Workers
<1>1. Quiet  BY DEF Quiet, LoadDescriptor, LoadPending, RetrySwap
<1>2. CASE LoadDescriptor(t)
  <2>1. OthersUntouched(t)
        BY <1>0, <1>2 DEF LoadDescriptor, OthersUntouched, TypeOK, CallTypeOK, WorkTypeOK
  <2>2. /\ pc[t] = "load_descriptor" /\ pc'[t] = "load_pending" /\ cur'[t] = descriptor
        /\ op'[t] = op[t] /\ calls'[t] = calls[t]
    BY <1>0, <1>2 DEF LoadDescriptor, TypeOK, CallTypeOK, WorkTypeOK
  <2> QED  BY <1>1, <2>1, <2>2, WorkerStep DEF OwnerStays, Unannounced, InWrite
<1>3. CASE LoadPending(t)
  <2>1. OthersUntouched(t)
        BY <1>0, <1>3 DEF LoadPending, OthersUntouched, TypeOK, CallTypeOK, WorkTypeOK
  <2>2. /\ pc[t] = "load_pending"
        /\ \/ pc'[t] = "write_cell" /\ ret'[t] = AfterHelping(t)
           \/ pc'[t] = AfterHelping(t)
        /\ cur'[t] = cur[t] /\ op'[t] = op[t] /\ calls'[t] = calls[t]
    BY <1>0, <1>3 DEF LoadPending, TypeOK, CallTypeOK, WorkTypeOK
  <2>3. AfterHelping(t) = "read_elem" \/ (AfterHelping(t) = "check_bucket" /\ op[t] = "push")
    BY DEF AfterHelping
  <2> QED  BY <1>1, <2>1, <2>2, <2>3, WorkerStep DEF OwnerStays, Unannounced, InWrite, InLoop
<1>4. CASE RetrySwap(t)
  <2>1. OthersUntouched(t)
    BY <1>0, <1>4 DEF RetrySwap, EndOfScope, OthersUntouched, TypeOK, CallTypeOK, WorkTypeOK
  <2>2. /\ pc[t] = "swap_descriptor" /\ pc'[t] = "load_descriptor"
        /\ op'[t] = op[t] /\ calls'[t] = calls[t]
    BY <1>0, <1>4 DEF RetrySwap, EndOfScope, TypeOK, CallTypeOK, WorkTypeOK
  <2> QED  BY <1>1, <2>1, <2>2, WorkerStep DEF OwnerStays, Unannounced, InWrite, InLoop
<1> QED  BY <1>2, <1>3, <1>4

LEMMA WorkerWrites ==
  ASSUME IInv, BenchInv, UNCHANGED phase, NEW t \in Workers,
         WriteCell(t) \/ LoadTarget(t) \/ ClearPending(t)
  PROVE  BenchInv'
<1> USE DEF Goto, shared, call, work
<1>0. TypeOK /\ t \in Threads  BY DEF IInv, Workers
<1>1. WriteKnown(t) /\ WorkerKnown(t)  BY <1>0 DEF IInv, ThreadInv, BenchInv
<1>2. CASE WriteCell(t) \/ LoadTarget(t)
  <2>1. Quiet  BY <1>2 DEF Quiet, WriteCell, LoadTarget
  <2>2. OthersUntouched(t)
    BY <1>0, <1>2 DEF WriteCell, LoadTarget, OthersUntouched, TypeOK, CallTypeOK, WorkTypeOK
  <2>3. /\ pc[t] \in InWrite /\ pc'[t] \in InWrite /\ ret'[t] = ret[t] /\ wd'[t] = wd[t]
        /\ cur'[t] = cur[t] /\ op'[t] = op[t] /\ calls'[t] = calls[t]
    BY <1>0, <1>2 DEF WriteCell, LoadTarget, InWrite, TypeOK, CallTypeOK, WorkTypeOK
  <2> QED  BY <1>1, <2>1, <2>2, <2>3, WorkerStep
           DEF OwnerStays, Unannounced, InWrite, InLoop, WorkerKnown
<1>3. CASE ClearPending(t)
  <2>1. /\ target[t] \in 1 .. descriptor /\ wd[t] \in 1 .. descriptor
        /\ descs \in [1 .. descriptor -> Desc]
    BY <1>0 DEF TypeOK, WorkTypeOK, SharedTypeOK
  <2>2. \A d \in 1 .. descriptor :
          descs'[d] = IF d = target[t] THEN [descs[d] EXCEPT !.pending = FALSE] ELSE descs[d]
    BY <1>3, <2>1 DEF ClearPending
  <2>3. Quiet  BY <1>3, <2>1, <2>2 DEF Quiet, ClearPending, Desc
  <2>4. OthersUntouched(t)
    BY <1>0, <1>3 DEF ClearPending, Return, EndOfScope, OthersUntouched,
          TypeOK, CallTypeOK, WorkTypeOK
  <2>5. OwnerStays(t)
    <3>1. wd[t] = descriptor => target[t] = descriptor
      BY <1>1, <1>3, <2>1 DEF WriteKnown, ClearPending
    <3>2. descriptor \in 1 .. descriptor  BY <1>0 DEF TypeOK, SharedTypeOK
    <3> QED  BY <2>1, <2>2, <3>1, <3>2 DEF OwnerStays, Desc
  <2>6. /\ pc[t] = "clear_pending" /\ op'[t] = op[t] /\ calls'[t] = calls[t]
        /\ \/ ret[t] = "idle" /\ pc'[t] = "idle"
           \/ ret[t] # "idle" /\ pc'[t] = ret[t] /\ cur'[t] = cur[t]
    BY <1>0, <1>3 DEF ClearPending, Return, EndOfScope, TypeOK, CallTypeOK, WorkTypeOK
  <2>7. ret[t] # "idle" => ret[t] = "read_elem" \/ (ret[t] = "check_bucket" /\ op[t] = "push")
    BY <1>1, <2>6 DEF WriteKnown, InWrite, AfterHelping
  <2> QED  BY <1>1, <2>3, <2>4, <2>5, <2>6, <2>7, WorkerStep
           DEF Unannounced, InWrite, InLoop, WorkerKnown
<1> QED  BY <1>2, <1>3

LEMMA WorkerLoops ==
  ASSUME IInv, BenchInv, UNCHANGED phase, NEW t \in Workers,
         CheckBucket(t) \/ ReadOld(t) \/ ReadLast(t)
  PROVE  BenchInv'
<1> USE DEF Goto, shared, call, work
<1>0. TypeOK /\ t \in Threads  BY DEF IInv, Workers
<1>1. Quiet /\ pc[t] \in {"check_bucket", "read_elem"} /\ pc[t] # "idle"
  BY DEF Quiet, CheckBucket, ReadOld, ReadLast
<1>2. OthersUntouched(t)
  BY <1>0 DEF CheckBucket, ReadOld, ReadLast, OthersUntouched, TypeOK, CallTypeOK, WorkTypeOK
<1>3. cur'[t] = cur[t] /\ op'[t] = op[t] /\ calls'[t] = calls[t]
  BY <1>0 DEF CheckBucket, ReadOld, ReadLast, TypeOK, CallTypeOK, WorkTypeOK
<1>4. pc'[t] \in {"read_elem", "swap_descriptor"}
  <2>1. CASE CheckBucket(t)
    <3>1. pc[t] = "check_bucket" /\ Unannounced(t)
      BY <2>1 DEF CheckBucket, Unannounced, InLoop
    <3>2. op[t] = "push"  BY <3>1 DEF BenchInv, WorkerKnown
    <3>3. Backed(descs[cur[t]].size)  BY <3>1, <3>2, LoadedSizes
    <3> QED  BY <1>0, <2>1, <3>3 DEF CheckBucket, Backed, TypeOK, CallTypeOK
  <2>2. CASE ReadOld(t) \/ ReadLast(t)
    BY <1>0, <2>2 DEF ReadOld, ReadLast, TypeOK, CallTypeOK
  <2> QED  BY <2>1, <2>2
<1> QED  BY <1>1, <1>2, <1>3, <1>4, WorkerStep DEF OwnerStays, Unannounced, InWrite, InLoop

-----------------------------------------------------------------------------
(* Announcing an element *)

\* What a compare_exchange that succeeds does, whatever it swaps in: it adds
\* an element to Present, or takes one away.
LEMMA SwapKeepsBench ==
  ASSUME IInv, IInv', BenchInv, UNCHANGED phase, NEW t \in Workers, OthersUntouched(t),
         pc[t] = "swap_descriptor", NEW next \in Desc, SwapDescriptor(t, next),
         next.size = IF Pushing THEN descs[cur[t]].size + 1 ELSE descs[cur[t]].size - 1,
         next.pending => pc'[t] \in InWrite /\ ret'[t] = "idle" /\ wd'[t] = descriptor',
         ~Unannounced(t)', op'[t] = op[t], calls'[t] = calls[t],
         pc'[t] = "idle" \/ (pc'[t] = "write_cell" /\ op[t] = "push"),
         op[t] = "pop" => res'[t] # None
  PROVE  BenchInv'
<1>1. TypeOK /\ TypeOK' /\ t \in Threads /\ phase \in Nat /\ phase > 0
  BY InCall DEF IInv, Workers
<1>2. Unannounced(t) /\ WorkerKnown(t)  BY DEF Unannounced, InLoop, BenchInv
<1>3. /\ descriptor \in Nat \ {0} /\ descriptor' = descriptor + 1 /\ cur[t] = descriptor
      /\ descs'[descriptor'] = next
      /\ \A d \in 1 .. descriptor : descs'[d] = descs[d]
  BY <1>1 DEF SwapDescriptor, TypeOK, SharedTypeOK
<1>4. Before' = Before /\ Pushing' = Pushing /\ Popping' = Popping
  BY DEF Before, Pushing, Popping
<1>5. descs[descriptor].size \in Nat /\ descs'[descriptor'].size \in Nat
  BY <1>1, <1>3, LoadedType DEF Desc
<1>6. Announced(t) \in Nat /\ Announced(t) + 1 \in 1 .. Iters  BY <1>1, <1>2, AnnouncedType
<1>7. Announced(t)' = Announced(t) + 1
  <2>1. Announced(t)' = calls[t] - Before - 0  BY <1>4 DEF Announced
  <2>2. Announced(t) = calls[t] - Before - 1  BY <1>2 DEF Announced
  <2>3. calls[t] \in Nat /\ Before \in Nat
    BY <1>1, Phases DEF TypeOK, CallTypeOK
  <2> QED  BY <2>1, <2>2, <2>3
<1>8. Pushing \/ (Popping /\ ~Pushing)  BY <1>1, Phases
<1>9. \A u \in Workers \ {t} :
        /\ Announced(u)' = Announced(u)
        /\ WorkerKnown(u)' /\ LoadedThisPhase(u)'
  <2>1. \A d \in 1 .. descriptor : descs'[d].size = descs[d].size  BY <1>3
  <2>2. Pushing => descs[descriptor].size <= descs'[descriptor'].size  BY <1>3, <1>5
  <2>3. Popping => descs[descriptor].size >= descs'[descriptor'].size
    BY <1>1, <1>3, <1>5, Phases
  <2> QED  BY <1>1, <1>5, <2>1, <2>2, <2>3, OthersKnown
<1>10. WorkerKnown(t)' /\ LoadedThisPhase(t)'
  <2>1. WorkerKnown(t)'  BY <1>2, <1>4 DEF WorkerKnown, InWrite
  <2>2. LoadedThisPhase(t)'  BY DEF LoadedThisPhase
  <2> QED  BY <2>1, <2>2
<1>11. PendingOwned'  BY <1>3 DEF PendingOwned
<1>12. MainFirst'  BY <1>1, MainStays
<1>13. descs'[descriptor'].size = Cardinality(Present)'
  <2> DEFINE e == <<t, Announced(t) + 1>>
  <2>0. e \in AllElements  BY <1>6 DEF AllElements
  <2>1. \A x \in AllElements : x = <<x[1], x[2]>> /\ x[1] \in Workers /\ x[2] \in 1 .. Iters
    BY DEF AllElements
  <2>2. \A u \in Workers : Announced(u) \in Nat /\ Announced(u)' \in Nat
    BY <1>1, <1>6, <1>7, <1>9, AnnouncedType DEF BenchInv
  <2>3. CASE Pushing
    <3>1. ~Popping  BY <1>1, <2>3, Phases
    <3>2. ASSUME NEW x \in AllElements  PROVE x \in Present' <=> x \in Present \/ x = e
      <4>1. /\ x \in Present' <=> x[2] <= Announced(x[1])'
            /\ x \in Present <=> x[2] <= Announced(x[1])
        BY <1>4, <2>3, <3>1 DEF Present, AllElements
      <4>2. x = e <=> x[1] = t /\ x[2] = Announced(t) + 1  BY <2>1
      <4> QED  BY <1>6, <1>7, <1>9, <2>1, <2>2, <4>1, <4>2
    <3>3. Present' = Present \cup {e}
      BY <2>0, <3>2 DEF Present, AllElements
    <3>4. e \notin Present  BY <1>6, <3>1 DEF Present
    <3>5. Cardinality(Present') = Cardinality(Present) + 1
      BY <3>3, <3>4, ElementsFinite, FS_AddElement
    <3> QED  BY <1>3, <1>5, <2>3, <3>5 DEF BenchInv
  <2>4. CASE Popping /\ ~Pushing
    <3>2. ASSUME NEW x \in AllElements  PROVE x \in Present' <=> x \in Present /\ x # e
      <4>1. /\ x \in Present' <=> x[2] > Announced(x[1])'
            /\ x \in Present <=> x[2] > Announced(x[1])
        BY <1>4, <2>4 DEF Present, AllElements
      <4>2. x = e <=> x[1] = t /\ x[2] = Announced(t) + 1  BY <2>1
      <4> QED  BY <1>6, <1>7, <1>9, <2>1, <2>2, <4>1, <4>2
    <3>3. Present' = Present \ {e}
      BY <2>0, <3>2 DEF Present, AllElements
    <3>4. e \in Present  BY <1>6, <2>0, <2>4 DEF Present, AllElements
    <3>5. Cardinality(Present') = Cardinality(Present) - 1
      BY <3>3, <3>4, ElementsFinite, FS_RemoveElement
    <3> QED  BY <1>3, <1>5, <2>4, <3>5 DEF BenchInv
  <2> QED  BY <1>8, <2>3, <2>4
<1> QED  BY <1>1, <1>9, <1>10, <1>11, <1>12, <1>13 DEF BenchInv

LEMMA WorkerSwaps ==
  ASSUME IInv, IInv', BenchInv, UNCHANGED phase, NEW t \in Workers,
         PushSwaps(t) \/ PopSwaps(t)
  PROVE  BenchInv'
<1> USE DEF Goto
<1>0. TypeOK /\ TypeOK' /\ t \in Threads  BY DEF IInv, Workers
<1>1. pc[t] = "swap_descriptor" /\ pc[t] # "idle" /\ Unannounced(t)
  BY DEF PushSwaps, PopSwaps, SwapDescriptor, Unannounced, InLoop
<1>2. \/ op[t] = "push" /\ Pushing /\ ~Popping
      \/ op[t] = "pop" /\ Popping /\ ~Pushing
  BY <1>1, InCall
<1>3. descs[cur[t]].size \in Nat /\ (op[t] = "pop" => descs[cur[t]].size # 0)
  BY <1>1, LoadedSizes
<1>4. arg[t] \in Nat /\ elem[t] \in Nat /\ descriptor \in Nat \ {0}
  BY <1>0 DEF TypeOK, CallTypeOK, WorkTypeOK, SharedTypeOK
<1>5. CASE PushSwaps(t)
  <2> DEFINE next == [size |-> descs[cur[t]].size + 1, pending |-> TRUE, new |-> arg[t],
                      old |-> elem[t], location |-> descs[cur[t]].size]
  <2>1. next \in Desc  BY <1>3, <1>4 DEF Desc
  <2>2. op[t] = "push" /\ SwapDescriptor(t, next)  BY <1>5 DEF PushSwaps
  <2>3. next.size = descs[cur[t]].size + 1  OBVIOUS
  <2>4. OthersUntouched(t)
    BY <1>0, <1>5 DEF PushSwaps, call, OthersUntouched, TypeOK, CallTypeOK, WorkTypeOK
  <2>5. /\ pc'[t] = "write_cell" /\ ret'[t] = "idle" /\ wd'[t] = descriptor'
        /\ op'[t] = op[t] /\ calls'[t] = calls[t]
    BY <1>0, <1>5 DEF PushSwaps, SwapDescriptor, call, TypeOK, CallTypeOK, WorkTypeOK
  <2>6. ~Unannounced(t)' /\ pc'[t] \in InWrite  BY <2>5 DEF Unannounced, InWrite, InLoop
  <2> HIDE DEF next
  <2> QED  BY <1>1, <1>2, <2>1, <2>2, <2>3, <2>4, <2>5, <2>6, SwapKeepsBench
<1>6. CASE PopSwaps(t)
  <2> DEFINE next == NoWrite(descs[cur[t]].size - 1)
  <2>1. next \in Desc /\ ~next.pending /\ next.size = descs[cur[t]].size - 1
    BY <1>3, <1>6 DEF PopSwaps, NoWrite, Zero, Desc
  <2>2. op[t] = "pop" /\ SwapDescriptor(t, next)  BY <1>6 DEF PopSwaps
  <2>4. OthersUntouched(t)
    BY <1>0, <1>6 DEF PopSwaps, Return, EndOfScope, OthersUntouched, TypeOK, CallTypeOK, WorkTypeOK
  <2>5. pc'[t] = "idle" /\ res'[t] = elem[t] /\ op'[t] = op[t] /\ calls'[t] = calls[t]
    BY <1>0, <1>6 DEF PopSwaps, Return, TypeOK, CallTypeOK
  <2>6. ~Unannounced(t)'  BY <2>5 DEF Unannounced, InWrite, InLoop
  <2>7. res'[t] # None  BY <1>4, <2>5, LeakyAssumption
  <2> HIDE DEF next
  <2> QED  BY <1>1, <1>2, <2>1, <2>2, <2>4, <2>5, <2>6, <2>7, SwapKeepsBench
<1> QED  BY <1>5, <1>6

-----------------------------------------------------------------------------
(* The steps of the benchmark *)

LEMMA WorkerSteps ==
  ASSUME IInv, IInv', BenchInv, NEW t \in Workers, BenchStep(t)
  PROVE  BenchInv'
<1>1. UNCHANGED phase /\ Step(t)  BY DEF BenchStep
<1>2. CASE LoadDescriptor(t) \/ LoadPending(t) \/ RetrySwap(t)  BY <1>1, <1>2, WorkerLoads
<1>3. CASE WriteCell(t) \/ LoadTarget(t) \/ ClearPending(t)  BY <1>1, <1>3, WorkerWrites
<1>4. CASE CheckBucket(t) \/ ReadOld(t) \/ ReadLast(t)  BY <1>1, <1>4, WorkerLoops
<1>5. CASE PushSwaps(t) \/ PopSwaps(t)  BY <1>1, <1>5, WorkerSwaps
<1>6. ~PushAllocates(t)  BY DEF PushAllocates, BenchInv, WorkerKnown
<1>7. ~PopEmpty(t)
  <2> SUFFICES ASSUME PopEmpty(t) PROVE FALSE
    OBVIOUS
  <2>1. pc[t] = "read_elem" /\ op[t] = "pop" /\ descs[cur[t]].size = 0  BY DEF PopEmpty
  <2>2. Unannounced(t)  BY <2>1 DEF Unannounced, InLoop
  <2> QED  BY <2>1, <2>2, LoadedSizes
<1>8. ~Size(t) /\ ~Reserve(t)
  <2>1. op[t] \in {"new", "push", "pop"}  BY DEF BenchInv, WorkerKnown
  <2>2. pc[t] \notin {"reserve_first", "reserve_next"}
    BY <2>1 DEF IInv, ThreadInv, ReserveKnown, Workers
  <2> QED  BY <2>1, <2>2 DEF Size, Reserve, ReserveSize, ReserveFirst, ReserveNext, ReserveDone
<1> QED  BY <1>1, <1>2, <1>3, <1>4, <1>5, <1>6, <1>7, <1>8 DEF Step, CompleteWrite, Push, Pop

LEMMA WorkerCallsKeep ==
  ASSUME IInv, BenchInv, NEW t \in Workers, WorkerCalls(t)
  PROVE  BenchInv'
<1> USE DEF Goto, shared, call, work, Call, CallPush, CallPop
<1>0. TypeOK /\ t \in Threads /\ phase \in Nat  BY DEF IInv, Workers, BenchInv
<1>1. Quiet  BY DEF WorkerCalls, Quiet
<1>2. OthersUntouched(t)
  BY <1>0 DEF WorkerCalls, OthersUntouched, TypeOK, CallTypeOK, WorkTypeOK
<1>3. /\ pc[t] = "idle" /\ pc'[t] = "load_descriptor"
      /\ calls'[t] = calls[t] + 1 /\ calls[t] < Iters * phase
      /\ (Pushing /\ op'[t] = "push") \/ (Popping /\ op'[t] = "pop")
  BY <1>0 DEF WorkerCalls, TypeOK, CallTypeOK
<1>4. ~Unannounced(t) /\ Unannounced(t)'  BY <1>3 DEF Unannounced, InWrite, InLoop
<1>5. /\ Before \in Nat /\ Iters * phase \in Nat /\ calls[t] \in Before .. Iters * phase
      /\ ~(Pushing /\ Popping) /\ phase > 0
  BY <1>0, <1>3, Phases DEF BenchInv, WorkerKnown
<1>6. phase' = phase /\ Before' = Before /\ Pushing' = Pushing /\ (Iters * phase)' = Iters * phase
  BY <1>1 DEF Quiet, Before, Pushing
<1>7. Announced(t)' = Announced(t)
  <2>1. Announced(t)' = calls'[t] - Before - 1  BY <1>4, <1>6 DEF Announced
  <2>2. Announced(t) = calls[t] - Before - 0  BY <1>4 DEF Announced
  <2>3. calls[t] \in Nat  BY <1>0 DEF TypeOK, CallTypeOK
  <2> QED  BY <1>3, <1>5, <2>1, <2>2, <2>3
<1>8. calls'[t] \in Before .. Iters * phase /\ calls'[t] > Before
  <2>1. calls[t] \in Nat  BY <1>0 DEF TypeOK, CallTypeOK
  <2> DEFINE B == Before
             I == Iters * phase
  <2>2. B \in Nat /\ I \in Nat /\ calls[t] \in B .. I /\ calls[t] < I  BY <1>3, <1>5
  <2> HIDE DEF B, I
  <2>3. calls'[t] \in B .. I /\ calls'[t] > B  BY <1>3, <2>1, <2>2
  <2> QED  BY <2>3 DEF B, I
<1>9. WorkerKnown(t)'
  <2>1. (calls[t] \in Before .. Iters * phase)'  BY <1>6, <1>8
  <2> QED  BY <1>3, <1>5, <1>6, <1>8, <2>1 DEF WorkerKnown, InWrite
<1>10. LoadedThisPhase(t)'  BY <1>3 DEF LoadedThisPhase
<1>11. MainFirst'  BY <1>0, <1>2, <1>5, <1>6, MainStays
<1>12. OwnerStays(t)  BY <1>3 DEF OwnerStays, InWrite
<1> QED  BY <1>0, <1>1, <1>2, <1>7, <1>9, <1>10, <1>11, <1>12, QuietKeeps

LEMMA MainReservesKeeps ==
  ASSUME IInv, BenchInv, MainReserves
  PROVE  BenchInv'
<1> USE DEF Goto, shared, call, work, Call, CallReserve
<1>0. TypeOK /\ Main \in Threads /\ Main \notin Workers  BY BenchAssumption DEF IInv, Workers
<1>1. Quiet /\ phase = 0 /\ phase' = 0  BY DEF MainReserves, Quiet
<1>2. OthersUntouched(Main)
  BY <1>0 DEF MainReserves, OthersUntouched, TypeOK, CallTypeOK, WorkTypeOK
<1>3. op'[Main] = "reserve" /\ arg'[Main] \in ReserveArgs /\ pc[Main] = "idle"
  BY <1>0 DEF MainReserves, TypeOK, CallTypeOK
<1>4. arg'[Main] = Total  BY <1>3, BenchAssumption DEF Total, Workers
<1>5. MainFirst'
  <2>1. \A t \in Workers : pc'[t] = pc[t] /\ pc[t] = "idle"
    BY <1>1, <1>2 DEF OthersUntouched, Workers, BenchInv, MainFirst
  <2> QED  BY <1>1, <1>3, <1>4, <2>1 DEF MainFirst, Total, Workers
<1>6. OwnerStays(Main)  BY <1>3 DEF OwnerStays, InWrite
<1> QED  BY <1>0, <1>1, <1>2, <1>5, <1>6, QuietKeeps

\* All that main does after that is reserve.
LEMMA MainSteps ==
  ASSUME IInv, BenchInv, BenchStep(Main)
  PROVE  BenchInv'
<1> USE DEF Goto, shared, call, work
<1>0. TypeOK /\ Main \in Threads /\ Main \notin Workers  BY BenchAssumption DEF IInv, Workers
<1>1. UNCHANGED phase /\ Step(Main)  BY DEF BenchStep
<1>2. pc[Main] = "idle" \/ op[Main] = "reserve"  BY DEF BenchInv, MainFirst
<1>3. /\ pc[Main] \in InWrite \cup InLoop => op[Main] \in {"push", "pop"}
      /\ pc[Main] \in {"reserve_first", "reserve_next"} => op[Main] = "reserve"
  BY <1>0 DEF IInv, ThreadInv, WriteKnown, LoopKnown, ReserveKnown
<1>4. LoadDescriptor(Main) \/ Reserve(Main)
  <2>1. pc[Main] \notin InWrite \cup InLoop  BY <1>2, <1>3 DEF InWrite, InLoop
  <2>2. /\ ~RetrySwap(Main) /\ ~Push(Main) /\ ~Pop(Main)
        /\ ~WriteCell(Main) /\ ~LoadTarget(Main) /\ ~ClearPending(Main)
    BY <2>1 DEF RetrySwap, Push, CheckBucket, PushAllocates, ReadOld, PushSwaps, SwapDescriptor,
                Pop, PopEmpty, ReadLast, PopSwaps, WriteCell, LoadTarget, ClearPending,
                InWrite, InLoop
  <2>3. ~LoadPending(Main) /\ ~Size(Main)  BY <1>2 DEF LoadPending, Size
  <2> QED  BY <1>1, <2>2, <2>3 DEF Step, CompleteWrite
<1>5. /\ pc[Main] # "idle" /\ pc[Main] \notin InWrite
      /\ UNCHANGED <<descriptor, descs, op, arg, calls>>
  BY <1>4 DEF LoadDescriptor, Reserve, ReserveSize, ReserveFirst, ReserveNext, ReserveDone,
              AllocateBucket, CapacityOverflow, PanicIn, Return, EndOfScope, InWrite
<1>6. OthersUntouched(Main)
  <2>1. CASE LoadDescriptor(Main)
    BY <1>0, <2>1 DEF LoadDescriptor, OthersUntouched, TypeOK, CallTypeOK, WorkTypeOK
  <2>2. CASE ReserveSize(Main) \/ ReserveFirst(Main)
    BY <1>0, <2>2 DEF ReserveSize, ReserveFirst, AllocateBucket, OthersUntouched,
                      TypeOK, CallTypeOK, WorkTypeOK
  <2>3. CASE ReserveNext(Main)
    BY <1>0, <2>3 DEF ReserveNext, AllocateBucket, CapacityOverflow, PanicIn, EndOfScope,
                      OthersUntouched, TypeOK, CallTypeOK, WorkTypeOK
  <2>4. CASE ReserveDone(Main)
    BY <1>0, <2>4 DEF ReserveDone, Return, EndOfScope, OthersUntouched,
          TypeOK, CallTypeOK, WorkTypeOK
  <2> QED  BY <1>4, <2>1, <2>2, <2>3, <2>4 DEF Reserve
<1>7. Quiet  BY <1>1, <1>5 DEF Quiet
<1>8. phase = 0 /\ op[Main] = "reserve" /\ phase \in Nat
  BY <1>2, <1>5 DEF BenchInv, MainFirst
<1>9. MainFirst'
  <2>1. \A t \in Workers : pc'[t] = pc[t] /\ pc[t] = "idle"
    BY <1>6, <1>8 DEF OthersUntouched, Workers, BenchInv, MainFirst
  <2> QED  BY <1>1, <1>5, <1>8, <2>1 DEF BenchInv, MainFirst, Total, Workers
<1>10. OwnerStays(Main)  BY <1>5 DEF OwnerStays
<1> QED  BY <1>0, <1>6, <1>7, <1>9, <1>10, QuietKeeps

\* A join counts the elements anew: all of them, or none.
LEMMA AtJoin ==
  ASSUME BenchInv, Joined
  PROVE  /\ \A t \in Workers : Announced(t) = IF phase = 0 THEN 0 ELSE Iters
         /\ Present = IF Pushing THEN AllElements ELSE {}
<1>1. phase \in Nat /\ Iters \in Nat  BY BenchAssumption DEF BenchInv
<1>2. ASSUME NEW t \in Workers  PROVE Announced(t) = IF phase = 0 THEN 0 ELSE Iters
  <2>1. ~Unannounced(t) /\ calls[t] = Iters * phase
    BY <1>2 DEF Joined, Unannounced, InWrite, InLoop, Workers
  <2> DEFINE B == Before
             I == Iters * phase
  <2>2. B \in Nat /\ I \in Nat /\ I = B + (IF phase = 0 THEN 0 ELSE Iters)  BY <1>1, Phases
  <2>3. Announced(t) = I - B - 0  BY <2>1 DEF Announced
  <2> HIDE DEF B, I
  <2> QED  BY <1>1, <2>2, <2>3
<1>3. \A x \in AllElements : x[1] \in Workers /\ x[2] \in Nat /\ x[2] <= Iters /\ x[2] > 0
  BY <1>1 DEF AllElements
<1>4. CASE Pushing
  <2>1. phase > 0  BY <1>1, <1>4, Phases
  <2>2. \A x \in AllElements : x[2] <= Announced(x[1])  BY <1>1, <1>2, <1>3, <2>1
  <2> QED  BY <1>2, <1>4, <2>2 DEF Present, AllElements
<1>5. CASE ~Pushing
  <2>1. \A x \in AllElements : Popping => ~(x[2] > Announced(x[1]))
    BY <1>1, <1>2, <1>3, Phases
  <2> QED  BY <1>2, <1>5, <2>1 DEF Present, AllElements
<1> QED  BY <1>2, <1>4, <1>5

LEMMA JoinKeeps ==
  ASSUME IInv, BenchInv, Join
  PROVE  BenchInv'
<1> USE DEF vars, shared, call, work
<1>0. phase \in Nat /\ phase' = phase + 1 /\ Joined /\ Iters \in Nat
  BY BenchAssumption DEF BenchInv, Join
<1>1. UNCHANGED vars  BY DEF Join
<1>2. phase' \in Nat /\ phase' > 0 /\ phase' # 0 /\ phase' - 1 = phase  BY <1>0
<1>3. Iters * phase \in Nat /\ Iters * (phase + 1) = Iters * phase + Iters  BY <1>0
<1>4. Before' = Iters * phase  BY <1>2 DEF Before
<1>5. (Pushing' <=> ~Pushing) /\ (Popping' <=> Pushing)
  BY <1>0 DEF Pushing, Popping
<1>6. MainFirst'
  BY <1>0, <1>1, <1>2, BenchAssumption DEF MainFirst, Joined, BenchInv, Total, Workers
<1>7. PendingOwned'  BY <1>1 DEF PendingOwned, BenchInv, Workers
<1>8. ASSUME NEW t \in Workers
      PROVE  WorkerKnown(t)' /\ LoadedThisPhase(t)' /\ Announced(t)' = 0
  <2>1. pc'[t] = "idle" /\ ~Unannounced(t)'
    BY <1>0, <1>1, <1>8 DEF Joined, Unannounced, InWrite, InLoop, Workers
  <2>2. calls'[t] = Iters * phase  BY <1>0, <1>1, <1>8 DEF Joined
  <2>3. (calls[t] \in Before .. Iters * phase)'
    <3> DEFINE I == Iters * phase
    <3>1. I \in Nat /\ calls'[t] = I /\ Before' = I /\ (Iters * phase)' = I + Iters
      BY <1>0, <1>3, <1>4, <2>2
    <3> HIDE DEF I
    <3> QED  BY <1>0, <3>1
  <2>4. WorkerKnown(t)'
    <3>1. WorkerKnown(t)  BY <1>8 DEF BenchInv
    <3> QED  BY <1>1, <2>1, <2>3, <3>1 DEF WorkerKnown, InWrite
  <2>5. Announced(t)' = 0  BY <1>3, <1>4, <2>1, <2>2 DEF Announced
  <2> QED  BY <2>1, <2>4, <2>5 DEF LoadedThisPhase
<1>9. Present' = Present
  <2>1. \A x \in AllElements : x[1] \in Workers /\ x[2] \in Nat /\ x[2] > 0
    BY <1>0 DEF AllElements
  <2>2. CASE Pushing
    <3>1. \A x \in AllElements : x[2] > Announced(x[1])'  BY <1>8, <2>1, <2>2
    <3>2. Present' = AllElements  BY <1>5, <2>2, <3>1 DEF Present, AllElements
    <3> QED  BY <1>0, <2>2, <3>2, AtJoin
  <2>3. CASE ~Pushing
    <3>1. \A x \in AllElements : ~(x[2] <= Announced(x[1])')  BY <1>8, <2>1
    <3>2. Present' = {}  BY <1>5, <2>3, <3>1 DEF Present, AllElements
    <3> QED  BY <1>0, <2>3, <3>2, AtJoin
  <2> QED  BY <2>2, <2>3
<1> QED  BY <1>1, <1>2, <1>6, <1>7, <1>8, <1>9 DEF BenchInv

LEMMA InitBench ==
  ASSUME BenchInit
  PROVE  BenchInv
<1>1. phase = 0 /\ phase \in Nat /\ Iters \in Nat /\ Before = 0
  BY BenchAssumption DEF BenchInit, Before
<1>2. ~Pushing /\ ~Popping  BY <1>1, Phases
<1>3. Present = {}  BY <1>2 DEF Present
<1>4. descs[descriptor].size = 0 /\ ~descs[descriptor].pending
  BY DEF BenchInit, Init, NoWrite
<1>5. descs[descriptor].size = Cardinality(Present)  BY <1>3, <1>4, FS_EmptySet
<1>6. \A t \in Threads : pc[t] = "idle" /\ op[t] = "new" /\ calls[t] = 0
  BY DEF BenchInit, Init
<1>7. MainFirst  BY <1>1, <1>6, BenchAssumption DEF MainFirst, Workers
<1>8. PendingOwned  BY <1>4 DEF PendingOwned
<1>9. ASSUME NEW t \in Workers  PROVE WorkerKnown(t) /\ LoadedThisPhase(t)
  <2>1. pc[t] = "idle" /\ op[t] = "new" /\ calls[t] = 0  BY <1>6, <1>9 DEF Workers
  <2>2. ~Unannounced(t)  BY <2>1 DEF Unannounced, InWrite, InLoop
  <2>3. calls[t] \in Before .. Iters * phase  BY <1>1, <2>1
  <2>4. WorkerKnown(t)  BY <2>1, <2>2, <2>3 DEF WorkerKnown, InWrite
  <2> QED  BY <2>2, <2>4 DEF LoadedThisPhase
<1> QED  BY <1>1, <1>5, <1>7, <1>8, <1>9 DEF BenchInv

LEMMA BenchStutters ==
  ASSUME BenchInv, UNCHANGED <<vars, phase>>
  PROVE  BenchInv'
<1> USE DEF vars, shared, call, work
<1>1. \A t \in Threads :
        Unannounced(t)' = Unannounced(t) /\ (WorkerKnown(t)' <=> WorkerKnown(t))
        /\ (LoadedThisPhase(t)' <=> LoadedThisPhase(t)) /\ Announced(t)' = Announced(t)
  BY DEF Unannounced, WorkerKnown, LoadedThisPhase, Announced, Before, Pushing
<1>2. Present' = Present  BY <1>1, SameElements DEF Workers
<1>3. MainFirst' /\ PendingOwned'  BY DEF BenchInv, MainFirst, PendingOwned, Total, Workers
<1> QED  BY <1>1, <1>2, <1>3 DEF BenchInv, Workers

-----------------------------------------------------------------------------

\* The size of the vector is at all times the number of elements announced
\* and not popped, and each worker is where the phase wants it to be.
THEOREM BenchInvariance == BenchSpec => []BenchInv
<1>1. IInv /\ IInv' /\ BenchInv /\ [BenchNext]_<<vars, phase>> => BenchInv'
  <2> SUFFICES ASSUME IInv, IInv', BenchInv, [BenchNext]_<<vars, phase>>  PROVE BenchInv'
    OBVIOUS
  <2>1. ASSUME NEW t \in Workers, WorkerCalls(t)  PROVE BenchInv'
    BY <2>1, WorkerCallsKeep
  <2>2. ASSUME NEW t \in Threads, BenchStep(t)  PROVE BenchInv'
    <3>1. CASE t = Main  BY <2>2, <3>1, MainSteps
    <3>2. CASE t # Main  BY <2>2, <3>2, WorkerSteps DEF Workers
    <3> QED  BY <3>1, <3>2
  <2>3. CASE MainReserves  BY <2>3, MainReservesKeeps
  <2>4. CASE Join  BY <2>4, JoinKeeps
  <2>5. CASE End \/ UNCHANGED <<vars, phase>>  BY <2>5, BenchStutters DEF End
  <2> QED  BY <2>1, <2>2, <2>3, <2>4, <2>5 DEF BenchNext
<1>2. BenchInit => BenchInv  BY InitBench
<1> QED  BY <1>1, <1>2, BenchIInv, PTL DEF BenchSpec

\* After reserve no worker comes to allocate_bucket, however many iterations
\* follow: "no allocations happened during the multi-threaded part".
THEOREM NeverAllocates == BenchSpec => []NothingAllocated
<1>1. BenchInv => NothingAllocated
  <2> SUFFICES ASSUME BenchInv, NEW t \in Workers  PROVE pc[t] # "allocate_bucket"
    BY DEF NothingAllocated
  <2> QED  BY DEF BenchInv, WorkerKnown
<1> QED  BY <1>1, BenchInvariance, PTL

\* No pop of the benchmark unwraps a None.
THEOREM UnwrapsNeverPanic == BenchSpec => []PopUnwraps
<1>1. BenchInv => PopUnwraps  BY DEF BenchInv, WorkerKnown, PopUnwraps
<1> QED  BY <1>1, BenchInvariance, PTL

\* At every join no write is pending, and the vector holds all of the elements
\* when the workers have pushed and none when they have popped.
THEOREM SizesAtJoins == BenchSpec => []JoinedSize
<1>1. BenchInv => JoinedSize
  <2> SUFFICES ASSUME BenchInv, Joined
               PROVE  /\ ~descs[descriptor].pending
                      /\ descs[descriptor].size = IF Pushing THEN Total ELSE 0
    BY DEF JoinedSize
  <2>1. ~descs[descriptor].pending
    BY DEF BenchInv, PendingOwned, Joined, Workers, InWrite
  <2>2. descs[descriptor].size = Cardinality(Present)  BY DEF BenchInv
  <2>3. Cardinality(Present) = IF Pushing THEN Total ELSE 0
    BY AtJoin, ElementsFinite, FS_EmptySet
  <2> QED  BY <2>1, <2>2, <2>3
<1> QED  BY <1>1, BenchInvariance, PTL
=============================================================================
