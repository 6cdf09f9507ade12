---------------------------- MODULE MCWorkspace ----------------------------
(***************************************************************************)
(* Small instances of Workspace for TLC.  Each set of paths is closed      *)
(* under the places a search can come to, also when the root has been      *)
(* replaced by another tree of the workspace.                              *)
(***************************************************************************)
EXTENDS WorkspaceMap

CONSTANTS a, b

(* A path that can be an entity or a tree with one entity. *)
TwoLevels == {<<a>>, <<a, a>>}

(* The same, beside a second child of the root. *)
Siblings == {<<a>>, <<a, b>>, <<b>>}

(* Deep enough for a walk to end early below a committed entity, with a    *)
(* sibling that it then may lose.                                          *)
ThreeWithSibling == {<<a>>, <<a, a>>, <<a, a, a>>, <<a, b>>}

(* Handles differ in nothing. *)
HandlesAlike == Permutations(Handle)

=============================================================================
