----------------------------- MODULE AtMostOnce -----------------------------
(***************************************************************************)
(* What a caller of a remote repository may count on: the server executes  *)
(* a call at most once, a caller that gets an answer gets the answer to    *)
(* its own call, and a caller that gets none knows nothing: its call may   *)
(* have been executed, or be executed later.                               *)
(***************************************************************************)
EXTENDS Naturals

CONSTANT CallId

VARIABLES
  executed,  \* how often the server has executed each call
  outcome    \* what the caller of each call knows

Init ==
    /\ executed = [i \in CallId |-> 0]
    /\ outcome = [i \in CallId |-> "unused"]

Issue(i) ==
    /\ outcome[i] = "unused"
    /\ outcome' = [outcome EXCEPT ![i] = "open"]
    /\ UNCHANGED executed

Execute(i) ==
    /\ outcome[i] # "unused"
    /\ executed[i] = 0
    /\ executed' = [executed EXCEPT ![i] = 1]
    /\ UNCHANGED outcome

Answer(i) ==
    /\ outcome[i] = "open"
    /\ executed[i] = 1
    /\ outcome' = [outcome EXCEPT ![i] = "answered"]
    /\ UNCHANGED executed

(* Time-outs and the ends of processes: several callers may give up at once. *)
GiveUp(I) ==
    /\ \A i \in I : outcome[i] = "open"
    /\ outcome' = [i \in CallId |-> IF i \in I THEN "given up" ELSE outcome[i]]
    /\ UNCHANGED executed

Next ==
    \/ \E i \in CallId : Issue(i) \/ Execute(i) \/ Answer(i)
    \/ \E I \in SUBSET CallId : GiveUp(I)

Spec == Init /\ [][Next]_<<executed, outcome>>

=============================================================================
