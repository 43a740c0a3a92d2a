------------------------ MODULE HazptrPracticeProofs -------------------------
(***************************************************************************)
(* hazptr_practice::DataPtr for every number of threads, calls, values and *)
(* addresses: no box is read after it was freed, each has one owner, none  *)
(* is left, and the loads and stores are those of an atomic register.      *)
(***************************************************************************)
EXTENDS HazptrPractice, TLAPS

LEMMA InitInv == Init => DataPtrInv
<1> SUFFICES ASSUME Init PROVE DataPtrInv
  OBVIOUS
<1> USE DataPtrAssumption DEF Init
<1>1. TypeOK  BY DEF TypeOK
<1>2. SingleOwner  BY DEF SingleOwner
<1> QED  BY <1>1, <1>2 DEF DataPtrInv, LoadedIsNotFreed, AllGivenBack, dropped

LEMMA CallLoadKeeps ==
  ASSUME DataPtrInv, NEW t \in Threads, CallLoad(t)
  PROVE  DataPtrInv'
<1> USE DataPtrAssumption DEF DataPtrInv, CallLoad, Goto, dropped
<1>1. TypeOK'  BY DEF TypeOK
<1>2. SingleOwner'  BY DEF SingleOwner, TypeOK
<1>3. LoadedIsNotFreed' /\ AllGivenBack'  BY DEF LoadedIsNotFreed, AllGivenBack, TypeOK
<1> QED  BY <1>1, <1>2, <1>3 DEF TypeOK

LEMMA LoadKeeps ==
  ASSUME DataPtrInv, NEW t \in Threads, Load(t)
  PROVE  DataPtrInv'
<1> USE DataPtrAssumption DEF DataPtrInv, Load, Goto, dropped
<1>0. data \in Addrs /\ heap[data] = "used"  BY DEF TypeOK, SingleOwner
<1>1. TypeOK'  BY <1>0 DEF TypeOK
<1>2. SingleOwner'  BY DEF SingleOwner, TypeOK
<1>3. LoadedIsNotFreed' /\ AllGivenBack'  BY <1>0 DEF LoadedIsNotFreed, AllGivenBack, TypeOK
<1> QED  BY <1>0, <1>1, <1>2, <1>3 DEF TypeOK

LEMMA DerefKeeps ==
  ASSUME DataPtrInv, NEW t \in Threads, Deref(t)
  PROVE  DataPtrInv'
<1> USE DataPtrAssumption DEF DataPtrInv, Deref, Return, Goto, dropped
<1>1. TypeOK'  BY DEF TypeOK
<1>2. SingleOwner'  BY DEF SingleOwner, TypeOK
<1>3. LoadedIsNotFreed' /\ AllGivenBack'  BY DEF LoadedIsNotFreed, AllGivenBack, TypeOK
<1> QED  BY <1>1, <1>2, <1>3 DEF TypeOK

LEMMA CallStoreKeeps ==
  ASSUME DataPtrInv, NEW t \in Threads, CallStore(t)
  PROVE  DataPtrInv'
<1> USE DataPtrAssumption DEF DataPtrInv, CallStore, Goto, dropped
<1>1. TypeOK'  BY DEF TypeOK
<1>2. SingleOwner'  BY DEF SingleOwner, TypeOK
<1>3. LoadedIsNotFreed' /\ AllGivenBack'  BY DEF LoadedIsNotFreed, AllGivenBack, TypeOK
<1> QED  BY <1>1, <1>2, <1>3 DEF TypeOK

LEMMA LoadPtrKeeps ==
  ASSUME DataPtrInv, NEW t \in Threads, LoadPtr(t)
  PROVE  DataPtrInv'
<1> USE DataPtrAssumption DEF DataPtrInv, LoadPtr, Goto, dropped
<1>1. TypeOK'  BY DEF TypeOK
<1>2. SingleOwner'  BY DEF SingleOwner, TypeOK
<1>3. LoadedIsNotFreed' /\ AllGivenBack'  BY DEF LoadedIsNotFreed, AllGivenBack, TypeOK
<1> QED  BY <1>1, <1>2, <1>3 DEF TypeOK

\* What is retired is what the DataPtr had, whichever box is at that address
\* by now.
LEMMA SwapKeeps ==
  ASSUME DataPtrInv, NEW t \in Threads, Swap(t)
  PROVE  DataPtrInv'
<1> USE DataPtrAssumption DEF DataPtrInv, Swap, Return, Goto, dropped
<1>0. /\ data \in Addrs /\ new[t] \in Addrs /\ data # new[t]
      /\ heap[data] = "used" /\ heap[new[t]] = "used"
  BY DEF TypeOK, SingleOwner
<1>1. TypeOK'  BY <1>0 DEF TypeOK
<1>2. SingleOwner'  BY <1>0 DEF SingleOwner, TypeOK
<1>3. LoadedIsNotFreed' /\ AllGivenBack'  BY <1>0 DEF LoadedIsNotFreed, AllGivenBack, TypeOK
<1> QED  BY <1>0, <1>1, <1>2, <1>3 DEF TypeOK

LEMMA RetryKeeps ==
  ASSUME DataPtrInv, NEW t \in Threads, Retry(t)
  PROVE  DataPtrInv'
<1> USE DataPtrAssumption DEF DataPtrInv, Retry, Goto, dropped
<1>1. TypeOK'  BY DEF TypeOK
<1>2. SingleOwner'  BY DEF SingleOwner, TypeOK
<1>3. LoadedIsNotFreed' /\ AllGivenBack'  BY DEF LoadedIsNotFreed, AllGivenBack, TypeOK
<1> QED  BY <1>1, <1>2, <1>3 DEF TypeOK

LEMMA ReclaimKeeps ==
  ASSUME DataPtrInv, Reclaim
  PROVE  DataPtrInv'
<1> USE DataPtrAssumption DEF DataPtrInv, Reclaim, Unprotected, dropped
<1>1. TypeOK'  BY DEF TypeOK
<1>2. SingleOwner'  BY DEF SingleOwner, TypeOK
<1>3. LoadedIsNotFreed' /\ AllGivenBack'  BY DEF LoadedIsNotFreed, AllGivenBack, TypeOK
<1> QED  BY <1>1, <1>2, <1>3 DEF TypeOK

LEMMA DropKeeps ==
  ASSUME DataPtrInv, Drop
  PROVE  DataPtrInv'
<1> USE DataPtrAssumption DEF DataPtrInv, Drop, dropped
<1>0. \A a \in Addrs : heap'[a] = "free"  BY DEF TypeOK, SingleOwner
<1>1. TypeOK'  BY <1>0 DEF TypeOK
<1>2. SingleOwner'  BY <1>0 DEF SingleOwner, TypeOK
<1>3. LoadedIsNotFreed' /\ AllGivenBack'  BY <1>0 DEF LoadedIsNotFreed, AllGivenBack, TypeOK
<1> QED  BY <1>0, <1>1, <1>2, <1>3 DEF TypeOK

\* DataPtrInv is inductive.
THEOREM DataPtrInvariance == Spec => []DataPtrInv
<1>1. DataPtrInv /\ [Next]_vars => DataPtrInv'
  <2> SUFFICES ASSUME DataPtrInv, [Next]_vars PROVE DataPtrInv'
    OBVIOUS
  <2>1. ASSUME NEW t \in Threads, Calls(t)  PROVE DataPtrInv'
    BY <2>1, CallLoadKeeps, CallStoreKeeps DEF Calls
  <2>2. ASSUME NEW t \in Threads, Step(t)  PROVE DataPtrInv'
    BY <2>2, LoadKeeps, DerefKeeps, LoadPtrKeeps, SwapKeeps, RetryKeeps DEF Step
  <2>3. CASE UNCHANGED vars
    BY <2>3 DEF vars, DataPtrInv, TypeOK, SingleOwner, LoadedIsNotFreed, AllGivenBack, dropped
  <2> QED  BY <2>1, <2>2, <2>3, ReclaimKeeps, DropKeeps DEF Next, AllDropped
<1> QED  BY <1>1, InitInv, PTL DEF Spec

\* The variables have their types: what a thread holds is the address of a box
\* or null, and a load returns a value that some store was given.
THEOREM TypeCorrect == Spec => []TypeOK
<1>1. DataPtrInv => TypeOK  BY DEF DataPtrInv
<1> QED  BY <1>1, DataPtrInvariance, PTL

\* A load never reads a box that the domain has freed.
THEOREM LoadsAreProtected == Spec => []LoadedIsNotFreed
<1>1. DataPtrInv => LoadedIsNotFreed  BY DEF DataPtrInv
<1> QED  BY <1>1, DataPtrInvariance, PTL

\* Each box has one owner, although store compares with a pointer that it does
\* not protect.
THEOREM BoxesAreOwned == Spec => []SingleOwner
<1>1. DataPtrInv => SingleOwner  BY DEF DataPtrInv
<1> QED  BY <1>1, DataPtrInvariance, PTL

\* No box is left when the DataPtr was dropped.
THEOREM NothingIsLeft == Spec => []AllGivenBack
<1>1. DataPtrInv => AllGivenBack  BY DEF DataPtrInv
<1> QED  BY <1>1, DataPtrInvariance, PTL

-----------------------------------------------------------------------------
(* The refinement *)

LEMMA InitMaps == ASSUME Init PROVE Register!Init
BY DataPtrAssumption DEF Init, Register!Init, dropped, Doing, Got

\* What a step of t leaves of the mapping for the other threads.
OthersKeep(t) == \A u \in Threads \ {t} : Doing(u)' = Doing(u) /\ Got(u)' = Got(u)

\* In a call the DataPtr is not dropped, and its box holds a value.
LEMMA HoldsValue ==
  ASSUME DataPtrInv, ~dropped
  PROVE  data \in Addrs /\ boxes[data] \in Values /\ boxes[data] # None
BY DataPtrAssumption DEF DataPtrInv, TypeOK, dropped

LEMMA CallLoadMaps ==
  ASSUME DataPtrInv, NEW t \in Threads, CallLoad(t)
  PROVE  Register!Begin(t)
<1> USE DEF CallLoad, Goto
<1>1. OthersKeep(t)  BY DEF OthersKeep, Doing, Got, DataPtrInv, TypeOK
<1>2. Doing(t) = None /\ Got(t) = None /\ Got(t)' = None /\ Doing(t)' = Register!Load
  BY DEF Doing, Got, DataPtrInv, TypeOK, Register!Load
<1>3. ~dropped /\ ~dropped'  BY DEF dropped
<1> QED  BY <1>1, <1>2, <1>3, HoldsValue
         DEF OthersKeep, Register!Begin, Register!Free, Register!Methods

LEMMA LoadMaps ==
  ASSUME DataPtrInv, NEW t \in Threads, Load(t)
  PROVE  Register!TakeEffect(t)
<1> USE DEF Load, Goto
<1>1. OthersKeep(t)  BY DEF OthersKeep, Doing, Got, DataPtrInv, TypeOK
<1>2. ~dropped /\ ~dropped'  BY DEF dropped, DataPtrInv
<1>3. Doing(t) = Register!Load /\ Doing(t)' = None /\ Got(t)' = boxes[data]
  BY DEF Doing, Got, DataPtrInv, TypeOK, Register!Load
<1> QED  BY <1>1, <1>2, <1>3 DEF OthersKeep, Register!TakeEffect

LEMMA DerefMaps ==
  ASSUME DataPtrInv, NEW t \in Threads, Deref(t)
  PROVE  Register!Answer(t)
<1> USE DEF Deref, Return, Goto
<1>1. OthersKeep(t)  BY DEF OthersKeep, Doing, Got, DataPtrInv, TypeOK
<1>2. ~dropped /\ ~dropped'  BY DEF dropped, DataPtrInv
<1>3. Doing(t) = None /\ Doing(t)' = None /\ Got(t)' = None
  BY DEF Doing, Got, DataPtrInv, TypeOK
<1>4. Got(t) = boxes[cur[t]] /\ Got(t) # None
  BY DataPtrAssumption DEF Got, DataPtrInv, TypeOK
<1> QED  BY <1>1, <1>2, <1>3, <1>4 DEF OthersKeep, Register!Answer

\* The address that store is given was free: nobody reads it, and no other
\* store is to swap it in.
LEMMA CallStoreMaps ==
  ASSUME DataPtrInv, NEW t \in Threads, CallStore(t)
  PROVE  Register!Begin(t)
<1> USE DEF CallStore, Goto
<1>1. PICK a \in Addrs, v \in Values :
         /\ heap[a] = "free"
         /\ boxes' = [boxes EXCEPT ![a] = v]
         /\ new'   = [new EXCEPT ![t] = a]
  OBVIOUS
<1>2. data # a /\ \A u \in Threads : new[u] # a /\ (pc[u] = "deref" => cur[u] # a)
  BY <1>1 DEF DataPtrInv, SingleOwner, LoadedIsNotFreed
<1>3. OthersKeep(t)  BY <1>1, <1>2 DEF OthersKeep, Doing, Got, DataPtrInv, TypeOK
<1>4. Doing(t) = None /\ Got(t) = None /\ Got(t)' = None /\ Doing(t)' = Register!Store(v)
  BY <1>1 DEF Doing, Got, DataPtrInv, TypeOK, Register!Store
<1>5. ~dropped /\ ~dropped' /\ boxes'[data'] = boxes[data]
  BY <1>1, <1>2 DEF dropped, DataPtrInv, TypeOK
<1>6. Register!Store(v) \in Register!Methods  BY <1>1 DEF Register!Methods
<1>7. boxes[data] # None /\ res' = [res EXCEPT ![t] = None]  BY <1>5, HoldsValue
<1>8. [u \in Threads |-> Doing(u)]' =
        [[u \in Threads |-> Doing(u)] EXCEPT ![t] = Register!Store(v)]
  BY <1>3, <1>4 DEF OthersKeep
<1>9. [u \in Threads |-> Got(u)]' = [u \in Threads |-> Got(u)]
  BY <1>3, <1>4 DEF OthersKeep
<1> QED  BY <1>4, <1>5, <1>6, <1>7, <1>8, <1>9 DEF Register!Begin, Register!Free

LEMMA LoadPtrMaps ==
  ASSUME DataPtrInv, NEW t \in Threads, LoadPtr(t) \/ Retry(t)
  PROVE  UNCHANGED Register!regVars
<1> USE DEF LoadPtr, Retry, Goto
<1>1. OthersKeep(t)  BY DEF OthersKeep, Doing, Got, DataPtrInv, TypeOK
<1>2. Doing(t)' = Doing(t) /\ Got(t)' = Got(t)  BY DEF Doing, Got, DataPtrInv, TypeOK
<1> QED  BY <1>1, <1>2 DEF OthersKeep, Register!regVars, dropped

LEMMA SwapMaps ==
  ASSUME DataPtrInv, NEW t \in Threads, Swap(t)
  PROVE  Register!TakeEffect(t)
<1> USE DEF Swap, Return, Goto
<1>1. OthersKeep(t)  BY DEF OthersKeep, Doing, Got, DataPtrInv, TypeOK
<1>2. new[t] \in Addrs /\ boxes[new[t]] \in Values  BY DEF DataPtrInv, TypeOK
<1>3. ~dropped /\ ~dropped'  BY <1>2, DataPtrAssumption DEF dropped, DataPtrInv
<1>4. Doing(t) = Register!Store(boxes[new[t]]) /\ Got(t) = None
  BY DEF Doing, Got, Register!Store
<1>5. Doing(t)' = None /\ Got(t)' = None  BY DEF Doing, Got, DataPtrInv, TypeOK
<1>6. res' = res  BY DEF DataPtrInv, TypeOK
<1>7. Doing(t) \in Register!Methods \ {Register!Load} /\ Doing(t).value = boxes[new[t]]
  BY <1>2, <1>4 DEF Register!Methods, Register!Store, Register!Load
<1> QED  BY <1>1, <1>3, <1>4, <1>5, <1>6, <1>7 DEF OthersKeep, Register!TakeEffect

LEMMA DropMaps ==
  ASSUME DataPtrInv, Drop
  PROVE  Register!Close
<1> USE DEF Drop
<1>1. \A u \in Threads : /\ Doing(u) = None /\ Got(u) = None
                         /\ Doing(u)' = None /\ Got(u)' = None
  BY DEF Doing, Got
<1>2. dropped'  BY DEF dropped
<1> QED  BY <1>1, <1>2 DEF Register!Close, Register!Free

\* Every load and store takes effect at one instant: a load when it has got
\* the pointer protected, a store when its compare_exchange succeeds.
THEOREM ActsLikeARegister == Spec => ImplementsRegister
<1>1. DataPtrInv /\ [Next]_vars => [Register!Next]_(Register!regVars)
  <2> SUFFICES ASSUME DataPtrInv, [Next]_vars
               PROVE  Register!Next \/ UNCHANGED Register!regVars
    OBVIOUS
  <2>1. ASSUME NEW t \in Threads, Calls(t)  PROVE Register!Next
    BY <2>1, CallLoadMaps, CallStoreMaps DEF Calls, Register!Next
  <2>2. ASSUME NEW t \in Threads, Step(t)  PROVE Register!Next \/ UNCHANGED Register!regVars
    BY <2>2, LoadMaps, DerefMaps, LoadPtrMaps, SwapMaps DEF Step, Register!Next
  <2>3. CASE Reclaim  BY <2>3 DEF Reclaim, Register!regVars, Doing, Got, dropped
  <2>4. CASE Drop  BY <2>4, DropMaps DEF Register!Next
  <2>5. CASE UNCHANGED vars  BY <2>5 DEF vars, Register!regVars, Doing, Got, dropped
  <2> QED  BY <2>1, <2>2, <2>3, <2>4, <2>5 DEF Next, AllDropped
<1>2. Init => Register!Init  BY InitMaps
<1> QED  BY <1>1, <1>2, DataPtrInvariance, PTL DEF Spec, ImplementsRegister, Register!Spec
=============================================================================
