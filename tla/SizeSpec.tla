------------------------------- MODULE SizeSpec ------------------------------
(***************************************************************************)
(* What the vector promises about its length to threads that call it       *)
(* concurrently: a linearizable counter.  A push adds one element and a    *)
(* pop that succeeds takes one away, at one instant between the call and   *)
(* the return.  size(), and a pop that finds nothing, only observe: what   *)
(* they report was true at an instant of the call.  reserve() and a call   *)
(* that panics have no effect.                                             *)
(***************************************************************************)
EXTENDS Naturals, FiniteSets

CONSTANTS
  Threads,
  Methods   \* "push", "pop", "size" and "reserve"

VARIABLES
  len,    \* the number of elements
  doing,  \* the method each thread is in, or "idle"
  took,   \* whether the push that a thread is in has had its effect
  seen,   \* what len has been since the call in progress began
  told    \* what the last call told its caller: size() the length, a pop
          \* how many elements it took

vars == <<len, doing, took, seen, told>>

Init ==
  /\ len   = 0
  /\ doing = [t \in Threads |-> "idle"]
  /\ took  = [t \in Threads |-> FALSE]
  /\ seen  = [t \in Threads |-> {}]
  /\ told  = [t \in Threads |-> 0]

Begin(t) ==
  /\ doing[t] = "idle"
  /\ \E m \in Methods : doing' = [doing EXCEPT ![t] = m]
  /\ told' = [told EXCEPT ![t] = 0]
  /\ UNCHANGED <<len, took>>

End(t, answer) ==
  /\ doing' = [doing EXCEPT ![t] = "idle"]
  /\ told'  = [told EXCEPT ![t] = answer]

AtMostOne(S) == {{}} \cup {{t} : t \in S}

\* At most one push takes effect in a step, and at most one returns: a thread
\* that helps another one may return from its own push in the same step.
Pushes ==
  \E effect, return \in AtMostOne({t \in Threads : doing[t] = "push"}) :
    /\ \A t \in effect : ~took[t]
    /\ \A t \in return : took[t] \/ t \in effect
    /\ len'   = len + Cardinality(effect)
    /\ doing' = [t \in Threads |-> IF t \in return THEN "idle" ELSE doing[t]]
    /\ took'  = [t \in Threads |-> (took[t] \/ t \in effect) /\ t \notin return]
    /\ UNCHANGED told

PopTakes(t) ==
  /\ doing[t] = "pop" /\ len > 0
  /\ len' = len - 1
  /\ End(t, 1)
  /\ UNCHANGED took

PopFindsNone(t) ==
  /\ doing[t] = "pop" /\ 0 \in seen[t]
  /\ End(t, 0)
  /\ UNCHANGED <<len, took>>

SizeReturns(t) ==
  /\ doing[t] = "size"
  /\ \E n \in seen[t] : End(t, n)
  /\ UNCHANGED <<len, took>>

\* A reserve returns or panics, or a push panics before it has any effect.
EndsWithoutEffect(t) ==
  /\ doing[t] = "reserve" \/ (doing[t] = "push" /\ ~took[t])
  /\ End(t, 0)
  /\ UNCHANGED <<len, took>>

\* Every call in progress has seen what len becomes.
Observe ==
  seen' = [t \in Threads |-> IF doing'[t] = "idle" THEN {} ELSE seen[t] \cup {len'}]

Next ==
  /\ \/ Pushes
     \/ \E t \in Threads : \/ Begin(t) \/ PopTakes(t) \/ PopFindsNone(t)
                           \/ SizeReturns(t) \/ EndsWithoutEffect(t)
  /\ Observe

Spec == Init /\ [][Next]_vars
=============================================================================
