---------------------------- MODULE RegisterSpec -----------------------------
(***************************************************************************)
(* What DataPtr promises: an atomic register.  Every load and store takes  *)
(* effect at one instant between its call and its return.                  *)
(***************************************************************************)
CONSTANTS Threads, Values, None

VARIABLES
  value,   \* what the register holds; None when it was dropped
  doing,   \* the method each thread is to carry out, or None
  got,     \* the value a load has taken and not returned yet
  told     \* what the last call of each thread returned

regVars == <<value, doing, got, told>>

Store(v) == [method |-> "store", value |-> v]
Load     == [method |-> "load", value |-> None]
Methods  == {Store(v) : v \in Values} \cup {Load}

Init ==
  /\ value \in Values
  /\ doing = [t \in Threads |-> None]
  /\ got   = [t \in Threads |-> None]
  /\ told  = [t \in Threads |-> None]

\* No call that has not returned yet.
Free(t) == doing[t] = None /\ got[t] = None

Begin(t) ==
  /\ Free(t) /\ value # None
  /\ \E m \in Methods : doing' = [doing EXCEPT ![t] = m]
  /\ told' = [told EXCEPT ![t] = None]
  /\ UNCHANGED <<value, got>>

TakeEffect(t) ==
  \/ /\ doing[t] = Load
     /\ got' = [got EXCEPT ![t] = value]
     /\ doing' = [doing EXCEPT ![t] = None]
     /\ UNCHANGED <<value, told>>
  \/ /\ doing[t] \in Methods \ {Load}
     /\ value' = doing[t].value
     /\ doing' = [doing EXCEPT ![t] = None]
     /\ UNCHANGED <<got, told>>

Answer(t) ==
  /\ got[t] # None
  /\ told' = [told EXCEPT ![t] = got[t]]
  /\ got'  = [got EXCEPT ![t] = None]
  /\ UNCHANGED <<value, doing>>

Close ==
  /\ \A t \in Threads : Free(t)
  /\ value' = None
  /\ UNCHANGED <<doing, got, told>>

Next == (\E t \in Threads : Begin(t) \/ TakeEffect(t) \/ Answer(t)) \/ Close

Spec == Init /\ [][Next]_regVars
=============================================================================
