------------------------------- MODULE MCDeep -------------------------------
(***************************************************************************)
(* An instance of Workspace that is deep enough for a walk that ends early *)
(* below a committed entity to lose a sibling, and the client that never   *)
(* has its own call end so.                                                *)
(***************************************************************************)
EXTENDS MCWorkspace

CONSTANTS m1, d1, nobytes

(* No client's call has ended early below an entity, and line 333 of       *)
(* workspaceimpl.h has ended none halfway.                                 *)
Undisturbed ==
    /\ SegmentsAreTracked'
    /\ \A h \in Handle : BlockedBelowEntity(h) => Len(calls[h]) > 1

(* Bounds: the first child of the root is a tree, and the second commit is *)
(* one of entities alone.                                                  *)
KeepsToTrees ==
    \A h \in Handle : calls'[h] # <<>> =>
      LET call == Last(calls'[h]) IN call.op = "store" => call.path # <<a>>
CommitsAgain == Len(commits) = 2 \/ (Len(commits) = 1 /\ \E h \in Handle : Running(h, "commit"))
HasData == datas # {} \/ \E p \in Path : edata[p] # None

Step == Undisturbed /\ KeepsToTrees /\ ~(CommitsAgain' /\ HasData')

=============================================================================
