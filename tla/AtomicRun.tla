------------------------------ MODULE AtomicRun ------------------------------
(***************************************************************************)
(* What one may expect of an operator that nobody disturbs: it succeeds    *)
(* and only what it was asked to change has changed, or it fails and       *)
(* nothing has.  An operator whose process ends may leave its work half    *)
(* done.                                                                   *)
(***************************************************************************)
CONSTANT Path

VARIABLES
  content,  \* [Path -> what lies there]
  status,   \* "running", "ok", "error" or "ended"
  targets   \* the paths the operator may change

Init ==
    /\ status = "running"
    /\ targets \subseteq Path

OthersStay == \A p \in Path \ targets : content'[p] = content[p]

Succeed ==
    /\ status' = "ok"
    /\ OthersStay

Fail ==
    /\ status' = "error"
    /\ UNCHANGED content

End ==
    /\ status' = "ended"
    /\ OthersStay

Next ==
    /\ status = "running"
    /\ Succeed \/ Fail \/ End
    /\ UNCHANGED targets

Spec == Init /\ [][Next]_<<content, status, targets>>

=============================================================================
