------------------------------ MODULE StackSpec ------------------------------
(***************************************************************************)
(* A linearizable stack: a push puts its value on top, and a pop takes the *)
(* top off and returns it, or returns None when there is nothing, at one   *)
(* instant between the call and the return.                                *)
(***************************************************************************)
EXTENDS SequencesExt

CONSTANTS Threads, Values, None

VARIABLES
  stack,  \* the elements, the top last
  doing,  \* the push or pop each thread is in
  took,   \* whether the push that a thread is in has had its effect
  told    \* what the last pop of each thread returned

vars == <<stack, doing, took, told>>

Idle    == [method |-> "idle", value |-> 0]
Pop     == [method |-> "pop",  value |-> 0]
Push(v) == [method |-> "push", value |-> v]

Init ==
  /\ stack = <<>>
  /\ doing = [t \in Threads |-> Idle]
  /\ took  = [t \in Threads |-> FALSE]
  /\ told  = [t \in Threads |-> None]

Begin(t) ==
  /\ doing[t] = Idle
  /\ \E call \in {Pop} \cup {Push(v) : v \in Values} :
       doing' = [doing EXCEPT ![t] = call]
  /\ told' = [told EXCEPT ![t] = None]
  /\ UNCHANGED <<stack, took>>

\* A thread that starts something else forgets what its last pop returned.
Forget(t) ==
  /\ doing[t] = Idle
  /\ told' = [told EXCEPT ![t] = None]
  /\ UNCHANGED <<stack, doing, took>>

AtMostOne(S) == {{}} \cup {{t} : t \in S}

\* At most one push takes effect in a step, and at most one returns.
Pushes ==
  \E effect, return \in AtMostOne({t \in Threads : doing[t].method = "push"}) :
    /\ \A t \in effect : ~took[t]
    /\ \A t \in return : took[t] \/ t \in effect
    /\ stack' = stack \o SetToSeq({doing[t].value : t \in effect})
    /\ doing' = [t \in Threads |-> IF t \in return THEN Idle ELSE doing[t]]
    /\ took'  = [t \in Threads |-> (took[t] \/ t \in effect) /\ t \notin return]
    /\ UNCHANGED told

Pops(t) ==
  /\ doing[t] = Pop
  /\ IF stack = <<>>
     THEN told' = [told EXCEPT ![t] = None] /\ UNCHANGED stack
     ELSE told' = [told EXCEPT ![t] = Last(stack)] /\ stack' = Front(stack)
  /\ doing' = [doing EXCEPT ![t] = Idle]
  /\ UNCHANGED took

\* A push that panics has had no effect.
Panics(t) ==
  /\ doing[t].method = "push" /\ ~took[t]
  /\ doing' = [doing EXCEPT ![t] = Idle]
  /\ UNCHANGED <<stack, took, told>>

Next == Pushes \/ \E t \in Threads : Begin(t) \/ Forget(t) \/ Pops(t) \/ Panics(t)

Spec == Init /\ [][Next]_vars
=============================================================================
