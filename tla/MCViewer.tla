------------------------------ MODULE MCViewer ------------------------------
(* Instances of Viewer for TLC. *)
EXTENDS Viewer

CONSTANTS w1, w2, p1, p2, d1, d2

Just(p, v, other) == [q \in Path |-> IF q = p THEN v ELSE other]

(* Nothing in it; just committed; and one that was changed since: p1 is    *)
(* new, p2 as committed. *)
Empty == [root |-> "none", tracked |-> {}, refs |-> [p \in Path |-> "none"],
          files |-> [p \in Path |-> None], commit |-> {}]
Committed == [Empty EXCEPT !.root = "commit", !.commit = {p1}]
Changed == [root |-> "own", tracked |-> {p1}, refs |-> Just(p1, "path", "id"),
            files |-> Just(p1, d1, None), commit |-> {p2}]

MCStart ==
    {[w \in Stored |-> IF w = w1 THEN Changed ELSE other] : other \in {Empty, Committed}}

(* One adds or changes, one takes out, one does both. *)
MCWrites == {p1 :> d2, p2 :> None, p1 :> None @@ p2 :> d2}
=============================================================================
