------------------------------ MODULE MCFaults ------------------------------
(***************************************************************************)
(* Three instances of Workspace for one run of TLC: a client alone, that   *)
(* looks before it calls and may crash; two clients at a time, that call   *)
(* without looking, keep to one path and have had their crashes; and the   *)
(* same two, whose workspace others delete meanwhile, and of whom from the *)
(* first commit on one at a time has it open.                              *)
(***************************************************************************)
EXTENDS MCWorkspace

(* Together if no crash is left, and with deletions if there were more. *)
IsTogether == crashes >= MaxCrashes
IsDeleted == crashes > MaxCrashes

FaultsInit == NothingYet /\ crashes \in {0, MaxCrashes, MaxCrashes + 1}
FaultsSpec == FaultsInit /\ [][Next]_vars

(* What operator delete and the loaders look at before they call. *)
Looks(h, f) ==
    CASE f.op = "store" -> /\ \A q \in ProperPrefixes(f.path) : GetEntity(h, q) = None
                           /\ GetTree(h, f.path) = None
      [] f.op = "deleteEntity" -> GetEntity(h, f.path) # None
      [] f.op = "deleteTree" -> GetEntity(h, f.path) = None /\ GetTree(h, f.path) # None
      [] OTHER -> TRUE

Calls(h) == calls[h] = <<>> /\ calls'[h] # <<>>

Alone == \A g, h \in Handle : g # h => mem[g] = None \/ mem[h] = None
Commits == commits # <<>> \/ \E h \in Handle : Running(h, "commit")

(* The last crash is for those who are together. *)
StepAlone ==
    /\ crashes' # MaxCrashes
    /\ Alone'
    /\ \A h \in Handle : Calls(h) => Looks(h, Top(h)')

StepTogether ==
    \A h \in Handle : Calls(h) /\ Top(h)'.op # "commit" => Top(h)'.path = <<a>>

Step ==
    /\ IF IsTogether THEN StepTogether ELSE StepAlone
    /\ DeleteWorkspaceForced => IsDeleted
    /\ IsDeleted /\ Commits' => Alone'

(* Deletions delete what is there after a crash, too, if nobody else calls. *)
DeleteDeletesAlone == [][~IsTogether => Deletes]_vars

=============================================================================
