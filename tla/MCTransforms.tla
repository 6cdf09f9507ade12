----------------------------- MODULE MCTransforms -----------------------------
(* Instances of Transforms for TLC: a chain of three frames, and a list    *)
(* that gives the last of them a second parent.                            *)
EXTENDS Transforms

MCFrame == {"map", "odom", "base"}
MCLists == <<<<"map", "base">>, <<"map", "odom">>, <<"odom", "base">>>>

(* The chain alone. *)
Chain == <<<<"map", "odom">>, <<"odom", "base">>>>

=============================================================================
