------------------------------ MODULE Operators ------------------------------
(***************************************************************************)
(* The operators (libs/operator_modules_collection), as clients of a       *)
(* workspace.  An operator is a sequence of instructions, one for each     *)
(* call that looks at the workspace or changes it and for each step that   *)
(* may fail; what it computes is left out.  While it runs, others may      *)
(* delete what it works on or store something else there.                  *)
(*                                                                         *)
(* Entities lie in the transient part of the workspace or, after a commit, *)
(* only in the store of the repository, where their data can't be opened   *)
(* for writing.                                                            *)
(***************************************************************************)
EXTENDS Naturals, Sequences

CONSTANTS
  Path,       \* paths of entities
  TfPath,     \* the path of the transforms that AddRandomTf adds to
  Stored,     \* the types of the entities that lie there at first
  Ops,        \* the operators that run, a subset of Operator
  Rejects,    \* storeEntity may fail
  MaxMeddles  \* bound: changes by others

Type == {"cloud", "las", "grid", "mesh", "path", "tf", "primitive"}

ASSUME PathAssumption == TfPath \in Path
ASSUME StoredAssumption == Stored \subseteq Type /\ Rejects \in BOOLEAN
ASSUME BoundAssumption == MaxMeddles \in Nat

None == [type |-> "none"]

-----------------------------------------------------------------------------
(* Instructions.  They work on the "source" or the "target" of the run.    *)

(* Something fails, and the operator returns an error or throws. *)
MayFail == [do |-> "fail", how |-> "error"]
MayThrow == [do |-> "fail", how |-> "throws"]

(* getEntity, and an error if there is none *)
Find(w) == [do |-> "find", at |-> w]

(* storeEntity, of an entity of a type or ("held") of the one found before.  *)
(* Its status is looked at or only logged; what is known to be there is     *)
(* overwritten, else getEntity is asked first.                              *)
Storing(w, type, checked, known) ==
    [do |-> "store", at |-> w, type |-> type, checked |-> checked, known |-> known]

Store(w, type, checked) == Storing(w, type, checked, TRUE)

(* getEntity, and storeEntity if there is none *)
StoreMissing(w, type, checked) == Storing(w, type, checked, FALSE)

(* an error if the entity that was found or stored is of another type *)
IsOfType(type) == [do |-> "type", type |-> type]

(* getEntitydataForReadWrite or getEntitydataReadOnly; whether the type is *)
(* looked at, and what a null pointer leads to.                            *)
Opening(w, type, looks, writes, null) ==
    [do |-> "open", at |-> w, type |-> type, looks |-> looks, writes |-> writes, null |-> null]

(* getEntitydataForReadWrite, and a look at the null pointer and the type *)
Open(w, type) == Opening(w, type, TRUE, TRUE, "error")

(* the same without a look at the null pointer *)
OpenBlindly(w, type) == Opening(w, type, TRUE, TRUE, "throws")

(* the same with a static cast *)
OpenAs(w, type) == Opening(w, type, FALSE, TRUE, "throws")

(* getEntitydataReadOnly *)
OpenReadOnly(w, type) == Opening(w, type, TRUE, FALSE, "error")
ReadBlindly(w, type) == Opening(w, type, TRUE, FALSE, "throws")

(* getData and setData of what was opened *)
Read(w) == [do |-> "read", at |-> w]
Write(w) == [do |-> "write", at |-> w]

(* the bytes of one entity's data to another one *)
CopyBytes == [do |-> "bytes"]

(* deleteEntity *)
Delete(w) == [do |-> "delete", at |-> w]

-----------------------------------------------------------------------------
(* The operators.                                                          *)

(* copyEntity of copy, of an entity or of all in a tree.  The source is    *)
(* looked up again after the target was stored, and nobody looks at either *)
(* null pointer.                                                           *)
CopyUnchecked ==                                   \* mutant: the target may be missing
    <<Find("source"), Store("target", "held", FALSE), ReadBlindly("source", "any"),
      OpenBlindly("target", "any"), CopyBytes>>

Copy == <<Find("source"), Store("target", "held", TRUE), ReadBlindly("source", "any"),
          OpenBlindly("target", "any"), CopyBytes>>

DeleteEntity == <<Delete("target")>>

EditUnknown == <<Store("target", "held", FALSE)>>  \* mutant: not looked up

EditEntity == <<Find("target"), Store("target", "held", FALSE)>>

LoadPointcloud == <<MayFail, Store("target", "cloud", FALSE), Open("target", "cloud"),
                    Write("target")>>

LoadLas == <<MayFail, Store("target", "las", FALSE), MayThrow, Open("target", "las"),
             Write("target")>>

(* A file that can't be opened has no points; one of a few bytes, for     *)
(* which no room is made, may end the process.                             *)
ReadCsv == <<MayThrow>>

LoadLasFromCsv == <<MayFail, Store("target", "las", FALSE), Open("target", "las")>> \o ReadCsv
                  \o <<Write("target")>>

(* The file is opened after the entity was stored. *)
LoadAsset == <<MayFail, Store("target", "mesh", FALSE), Open("target", "mesh"), MayFail,
               MayThrow, Write("target")>>

LoadPrimitive == <<MayFail, Store("target", "primitive", FALSE), Open("target", "primitive"),
                   Write("target")>>

LoadPath == <<MayFail, Store("target", "path", FALSE), Open("target", "path"), MayFail,
              Write("target")>>

(* One message: its bag can't be opened, or its type is unknown or another *)
(* one, or get_or_create_entity, storeEntity with frame and stamp, and a   *)
(* static cast.                                                            *)
GetOrCreateAny == <<StoreMissing("target", "cloud", FALSE)>>      \* mutant: any type will do

GetOrCreate == <<StoreMissing("target", "cloud", FALSE), IsOfType("cloud")>>

LoadBags == <<MayThrow, MayFail>> \o GetOrCreate
            \o <<Store("target", "held", FALSE), OpenAs("target", "cloud"), Write("target")>>

(* The operators that change a cloud, in place. *)
Voxelgrid == <<Open("source", "cloud"), Read("source"), MayThrow, Write("source")>>

Grid == <<Open("source", "cloud"), Read("source"), MayThrow>>

NormalEstimation == <<MayFail, Open("source", "cloud"), Read("source"), MayThrow,
                      Write("source")>>

ScalePointcloud == <<Find("source"), OpenBlindly("source", "cloud"), Read("source"), MayFail,
                     Write("source")>>

MovingLeastSquares == <<Open("source", "cloud"), Read("source"), MayFail, MayThrow,
                        Write("source")>>

(* Clouds without coordinates, or with fields of no known type of points,  *)
(* are refused.                                                            *)
FieldsFit == <<MayFail>>

CentroidToOrigin == <<Open("source", "cloud"), Read("source")>> \o FieldsFit \o <<Write("source")>>

(* The filters: exceptions are caught, and the target is looked for last. *)
FilterStoresFirst(input) ==                        \* mutant: the target comes first
    <<MayFail, StoreMissing("target", "cloud", TRUE), Open(input, "cloud"), Read(input), MayFail,
      Open("target", "cloud"), Write("target")>>

Filter(input) ==
    <<MayFail, Open(input, "cloud"), Read(input), MayFail,
      StoreMissing("target", "cloud", TRUE), Open("target", "cloud"), Write("target")>>

FilterRadius == Filter("source")
FilterStatistical == Filter("source")
FilterUniform == Filter("source")
FilterApproximate == Filter("source")

(* surface_moving_least_squares looks at its parameters. *)
SurfaceMovingLeastSquares == <<MayFail>>

(* From one type to another. *)
LasToCloud == <<MayFail, OpenReadOnly("source", "las"), Read("source"),
                Store("target", "cloud", FALSE), Open("target", "cloud"), Write("target")>>

CloudToGrid == <<MayFail, OpenReadOnly("source", "cloud"), Read("source"),
                 Store("target", "grid", TRUE), MayThrow, Open("target", "grid"),
                 Write("target")>>

(* A mesh without vertices is an error, after the entity was stored. *)
GridSurface == <<MayFail, OpenReadOnly("source", "grid"), Read("source"),
                 Store("target", "mesh", TRUE), MayThrow, MayFail>>

WriteMesh == <<Write("target")>>

GridToMesh == GridSurface \o <<Open("target", "mesh")>> \o WriteMesh

SmoothGrid == <<MayFail, OpenReadOnly("source", "grid"), Read("source"),
                StoreMissing("target", "grid", TRUE), OpenReadOnly("target", "grid"), MayThrow,
                Open("target", "grid"), Write("target")>>

(* tf_add_random: a transform for the frame of an entity, with             *)
(* getOrCreateTransformStampedList; the entity is stored again at the end. *)
AddRandomTf == <<MayFail, Find("source"), MayFail, StoreMissing("target", "tf", TRUE),
                 OpenBlindly("target", "tf"), Read("target"), Write("target"),
                 Store("target", "tf", FALSE)>>

Program ==
    [copy |-> Copy, delete |-> DeleteEntity, edit |-> EditEntity, loadPointcloud |-> LoadPointcloud,
     loadLas |-> LoadLas, loadCsv |-> LoadLasFromCsv, loadAsset |-> LoadAsset,
     loadPrimitive |-> LoadPrimitive, loadPath |-> LoadPath, loadBags |-> LoadBags,
     voxelgrid |-> Voxelgrid, grid |-> Grid, normals |-> NormalEstimation,
     scale |-> ScalePointcloud, mls |-> MovingLeastSquares, centroid |-> CentroidToOrigin,
     radius |-> FilterRadius, statistical |-> FilterStatistical, uniform |-> FilterUniform,
     approximate |-> FilterApproximate, surface |-> SurfaceMovingLeastSquares,
     lasToCloud |-> LasToCloud, cloudToGrid |-> CloudToGrid, gridToMesh |-> GridToMesh,
     smooth |-> SmoothGrid, addRandomTf |-> AddRandomTf]

Operator == DOMAIN Program

ASSUME OpsAssumption == Ops \subseteq Operator

(* Operators that take an entity or a tree, and work on a tree with a      *)
(* depth-first search, whose callback returns false when it fails; the     *)
(* search goes on then.                                                    *)
OnTrees == {"copy", "voxelgrid", "scale", "addRandomTf"}

(* Operators that work through a list and stop at the first failure. *)
OnLists == {"delete", "loadBags"}

(* Operators without a source. *)
TargetOnly == {"delete", "edit", "loadPointcloud", "loadLas", "loadCsv", "loadAsset",
               "loadPrimitive", "loadPath", "loadBags"}

(* Operators that change their source. *)
InPlace == {"voxelgrid", "grid", "normals", "scale", "mls", "centroid"}

-----------------------------------------------------------------------------
VARIABLES
  entity,   \* [Path -> the entity there, or None]
  data,     \* [Path -> what the transient data file there holds, or None]
  run,      \* the run of the operator; "held" is the type of the entity it looked up
  meddles,  \* changes by others so far
  first     \* entity and data when the run began

vars == <<entity, data, run, meddles, first>>

(* An entity lies in the transient part or only in the store. *)
Entity == [type : Type, committed : BOOLEAN]

(* Data was there before, or was made by the run, from what it could read  *)
(* or from nothing.                                                        *)
Data == [type : Type, from : {"before", "made", "nothing"}]

Exists(p) == entity[p] # None
Transient(p) == Exists(p) /\ ~entity[p].committed

(* The paths that stand for source and target in the work on a path. *)
TargetOf(p) == IF run.op \in InPlace \union TargetOnly THEN p
               ELSE IF run.op = "addRandomTf" THEN TfPath ELSE run.target[p]

At(w) == IF w = "source" THEN run.at ELSE TargetOf(run.at)

Instruction == Program[run.op][run.pc]
Runs(what) ==
    run.status = "running" /\ run.pc \in DOMAIN Program[run.op] /\ Instruction.do = what

(* What an operator may be asked for: one entity, a tree, or a list.  A    *)
(* tree is copied onto itself or to where nothing of it lies.              *)
Asked(op, tree, input, target) ==
    /\ tree => op \in OnTrees
    /\ ~tree /\ op \notin OnLists => \E p \in Path : input = {p}
    /\ \/ op \notin InPlace \union TargetOnly \union {"addRandomTf"}
       \/ target = [p \in Path |-> p]
    /\ tree /\ op = "copy" => \/ target = [p \in Path |-> p]
                              \/ /\ \A p, q \in input : target[p] = target[q] => p = q
                                 /\ \A p \in input : target[p] \notin input
    /\ \A p \in Path \ input : target[p] = p

(* A run before its first step. *)
Started(op, tree, input, target, p) ==
    [op |-> op, tree |-> tree, input |-> input, target |-> target, todo |-> input,
     at |-> p, pc |-> 0, held |-> "none", open |-> {}, sound |-> TRUE,
     last |-> "ok", failed |-> FALSE, after |-> FALSE, status |-> "running"]

(* Entities that a client may find, with data of their type or without. *)
Init ==
    /\ entity \in [Path -> [type : Stored, committed : BOOLEAN] \union {None}]
    /\ \E empty \in SUBSET Path :
          data = [p \in Path |-> IF entity[p] = None \/ p \in empty THEN None
                                 ELSE IF entity[p].committed THEN None
                                 ELSE [type |-> entity[p].type, from |-> "before"]]
    /\ \E op \in Ops, input \in (SUBSET Path) \ {{}}, tree \in BOOLEAN, target \in [Path -> Path] :
          /\ Asked(op, tree, input, target)
          /\ run = Started(op, tree, input, target, CHOOSE p \in input : TRUE)
    /\ meddles = 0
    /\ first = [entity |-> entity, data |-> data]

-----------------------------------------------------------------------------
(* Where the run goes next.                                                *)

Step == run' = [run EXCEPT !.pc = @ + 1]

(* The work on one path ends.  After a failure the search through a tree   *)
(* goes on, and the status of a later entity replaces that of this one.    *)
WorkDone(status) ==
    IF run.tree \/ (status = "ok" /\ run.op \in OnLists)
    THEN run' = [run EXCEPT !.pc = 0, !.open = {}, !.last = status,
                            !.failed = @ \/ status = "error"]
    ELSE run' = [run EXCEPT !.status = status, !.pc = 0, !.open = {}]

(* copy returns OK whatever happens. *)
Fails == WorkDone(IF run.op = "copy" /\ ~run.tree THEN "ok" ELSE "error")

(* An exception that nobody catches, or a null pointer. *)
Ends == run' = [run EXCEPT !.status = "ended", !.pc = 0]

Stops(how) == IF how = "error" THEN Fails ELSE Ends

(* The next path.  The search passes over what is gone, and over what is   *)
(* only in the store.                                                      *)
BeginWork(p) ==
    /\ run.status = "running" /\ run.pc = 0
    /\ p \in run.todo
    /\ run' = [run EXCEPT !.todo = @ \ {p}, !.at = p, !.sound = TRUE,
                          !.pc = IF run.tree /\ ~Transient(p) THEN 0 ELSE 1]
    /\ UNCHANGED <<entity, data, meddles, first>>

(* All paths are done.  scale_pointcloud returns an error after the search *)
(* through a tree, copy returns OK, the others what they got last.         *)
RunEnds ==
    /\ run.status = "running" /\ run.pc = 0
    /\ run.todo = {}
    /\ run' = [run EXCEPT !.status = CASE run.op = "copy" -> "ok"
                                       [] run.op = "scale" -> "error"
                                       [] OTHER -> run.last]
    /\ UNCHANGED <<entity, data, meddles, first>>

(* The last instruction is done. *)
WorkEnds ==
    /\ run.status = "running"
    /\ run.pc = Len(Program[run.op]) + 1
    /\ WorkDone("ok")
    /\ UNCHANGED <<entity, data, meddles, first>>

-----------------------------------------------------------------------------
(* The instructions.                                                       *)

DoFail ==
    /\ Runs("fail")
    /\ Step \/ Stops(Instruction.how)
    /\ UNCHANGED <<entity, data, meddles, first>>

DoFind ==
    LET p == At(Instruction.at)
    IN  /\ Runs("find")
        /\ IF Exists(p) THEN run' = [run EXCEPT !.pc = @ + 1, !.held = entity[p].type] ELSE Fails
        /\ UNCHANGED <<entity, data, meddles, first>>

DoIsOfType ==
    /\ Runs("type")
    /\ IF run.held = Instruction.type THEN Step ELSE Fails
    /\ UNCHANGED <<entity, data, meddles, first>>

(* An entity is stored, its data file stays as it is. *)
DoStore ==
    LET p == At(Instruction.at)
        type == IF Instruction.type = "held" THEN run.held ELSE Instruction.type
        Hold(t) == run' = [run EXCEPT !.pc = @ + 1, !.held = t]
    IN  /\ Runs("store")
        /\ \/ /\ ~Instruction.known /\ Exists(p)
              /\ Hold(entity[p].type)
              /\ UNCHANGED entity
           \/ /\ Instruction.known \/ ~Exists(p)
              /\ entity' = [entity EXCEPT ![p] = [type |-> type, committed |-> FALSE]]
              /\ Hold(type)
           \/ /\ Instruction.known \/ ~Exists(p)
              /\ Rejects
              /\ IF Instruction.checked THEN Fails ELSE Hold(type)
              /\ UNCHANGED entity
        /\ UNCHANGED <<data, meddles, first>>

(* Data may be opened for writing if the entity is transient, for reading  *)
(* if it exists.  A null pointer is an error or the end.                   *)
DoOpen ==
    LET p == At(Instruction.at)
        there == IF Instruction.writes THEN Transient(p) ELSE Exists(p)
        type == IF Instruction.type = "any" THEN entity[p].type ELSE Instruction.type
    IN  /\ Runs("open")
        /\ IF ~there THEN Stops(Instruction.null)
           ELSE IF Instruction.looks /\ entity[p].type # type THEN Fails
           ELSE run' = [run EXCEPT !.pc = @ + 1, !.open = {h \in @ : h.at # Instruction.at} \union
                          {[at |-> Instruction.at, type |-> type, committed |-> entity[p].committed]}]
        /\ UNCHANGED <<entity, data, meddles, first>>

Handle(w) == CHOOSE h \in run.open : h.at = w

(* A data file is readable if it is there and of the type that was opened. *)
(* Data of a committed entity is looked for at the wrong place.            *)
Readable(w) == ~Handle(w).committed /\ data[At(w)] # None /\ data[At(w)].type = Handle(w).type

(* What can't be read is an empty cloud, path, primitive or list of        *)
(* transforms; the other types throw.                                      *)
DoRead ==
    LET w == Instruction.at
    IN  /\ Runs("read")
        /\ IF Readable(w) THEN run' = [run EXCEPT !.pc = @ + 1,
                                                  !.sound = @ /\ data[At(w)].from # "nothing"]
           ELSE IF Handle(w).type \in {"las", "grid", "mesh"} THEN Ends
           ELSE run' = [run EXCEPT !.pc = @ + 1, !.sound = @ /\ Handle(w).type = "tf"]
        /\ UNCHANGED <<entity, data, meddles, first>>

(* setData writes the file, whether there is still an entity or not. *)
DoWriteToSource ==                                 \* mutant: the wrong handle
    /\ Runs("write")
    /\ data' = [data EXCEPT ![run.at] = [type |-> Handle(Instruction.at).type,
                                         from |-> IF run.sound THEN "made" ELSE "nothing"]]
    /\ run' = [run EXCEPT !.pc = @ + 1, !.after = run.failed]
    /\ UNCHANGED <<entity, meddles, first>>

DoWrite ==
    LET w == Instruction.at
    IN  /\ Runs("write")
        /\ data' = [data EXCEPT ![At(w)] = [type |-> Handle(w).type,
                                            from |-> IF run.sound THEN "made" ELSE "nothing"]]
        /\ run' = [run EXCEPT !.pc = @ + 1, !.after = run.failed]
        /\ UNCHANGED <<entity, meddles, first>>

(* The target is truncated before the source is read, which may be the     *)
(* same file; what can't be read gives an empty file.                      *)
DoCopyBytes ==
    LET from == At("source")
        to == At("target")
        bytes == IF from = to \/ Handle("source").committed \/ data[from] = None
                 THEN [type |-> Handle("target").type, from |-> "nothing"]
                 ELSE [data[from] EXCEPT !.from = IF @ = "nothing" THEN @ ELSE "made"]
    IN  /\ Runs("bytes")
        /\ data' = [data EXCEPT ![to] = bytes]
        /\ run' = [run EXCEPT !.pc = @ + 1, !.after = run.failed]
        /\ UNCHANGED <<entity, meddles, first>>

(* deleteEntityOrTree, of an entity: nothing to delete is no failure. *)
DoDelete ==
    LET p == At(Instruction.at)
    IN  /\ Runs("delete")
        /\ entity' = [entity EXCEPT ![p] = None]
        /\ data' = IF Exists(p) THEN [data EXCEPT ![p] = None] ELSE data
        /\ Step
        /\ UNCHANGED <<meddles, first>>

-----------------------------------------------------------------------------
(* Other clients of the workspace, while the operator runs.                *)

MeddleDelete(p) ==
    /\ run.status = "running" /\ meddles < MaxMeddles
    /\ Exists(p)
    /\ entity' = [entity EXCEPT ![p] = None]
    /\ data' = [data EXCEPT ![p] = None]
    /\ meddles' = meddles + 1
    /\ UNCHANGED <<run, first>>

MeddleStore(p, type) ==
    /\ run.status = "running" /\ meddles < MaxMeddles
    /\ entity' = [entity EXCEPT ![p] = [type |-> type, committed |-> FALSE]]
    /\ meddles' = meddles + 1
    /\ UNCHANGED <<data, run, first>>

-----------------------------------------------------------------------------
OperatorStep ==
    \/ \E p \in Path : BeginWork(p)
    \/ RunEnds \/ WorkEnds
    \/ DoFail \/ DoFind \/ DoIsOfType \/ DoStore \/ DoOpen
    \/ DoRead \/ DoWrite \/ DoCopyBytes \/ DoDelete

Next ==
    \/ OperatorStep
    \/ \E p \in Path : MeddleDelete(p)
    \/ \E p \in Path, type \in Stored : MeddleStore(p, type)

Spec == Init /\ [][Next]_vars

FairSpec == Spec /\ WF_vars(OperatorStep)

-----------------------------------------------------------------------------
(* Properties.                                                             *)

(* The type invariant. *)
TypeOK ==
    /\ entity \in [Path -> Entity \union {None}]
    /\ data \in [Path -> Data \union {None}]
    /\ run \in [op : Ops, tree : BOOLEAN, input : SUBSET Path, target : [Path -> Path],
                todo : SUBSET Path, at : Path, pc : Nat, held : Type \union {"none"},
                open : SUBSET [at : {"source", "target"}, type : Type, committed : BOOLEAN],
                sound : BOOLEAN, last : {"ok", "error"}, failed : BOOLEAN, after : BOOLEAN,
                status : {"running", "ok", "error", "ended"}]
    /\ run.pc <= Len(Program[run.op]) + 1
    /\ meddles \in 0..MaxMeddles

Alone == meddles = 0
Single == ~run.tree /\ \E p \in Path : run.input = {p}

(* Operators that store their target before they know whether they will    *)
(* succeed.                                                                *)
Hasty == {"loadAsset", "loadPath", "gridToMesh"}

(* An operator that works on one entity and returns an error has changed   *)
(* nothing, and one that succeeds has changed its target only, if nobody   *)
(* disturbs it: load_asset, load_path and levelset_to_mesh apart, the      *)
(* operators implement AtomicRun.                                          *)
Judged == Alone /\ Single /\ run.op \notin Hasty

Before == [p \in Path |-> [entity |-> first.entity[p], data |-> first.data[p]]]
Now == [p \in Path |-> [entity |-> entity[p], data |-> data[p]]]

Whole == INSTANCE AtomicRun
    WITH content <- IF Judged /\ run.status # "running" THEN Now ELSE Before,
         status <- IF Judged THEN run.status ELSE "running",
         targets <- {TargetOf(p) : p \in run.input}

Atomicity == Whole!Spec

WasReadable(p) == first.data[p] # None /\ first.data[p].type = first.entity[p].type

(* Success means a result: the target is an entity with data of its type,  *)
(* made from the input's data if that could be read when the operator      *)
(* began.  copy succeeds whatever happens; delete, edit_entity, grid and   *)
(* surface_moving_least_squares write no data.                             *)
Delivers ==
    run.status = "ok" /\ Alone /\ Single
        /\ run.op \notin {"copy", "delete", "edit", "grid", "surface"} =>
    \A p \in run.input :
        LET q == TargetOf(p)
        IN  /\ Transient(q)
            /\ data[q] # None /\ data[q].type = entity[q].type
            /\ WasReadable(p) \/ run.op \in TargetOnly \union {"addRandomTf"} =>
                  data[q].from = "made"

(* After a success the data of every entity is of the type the entity      *)
(* says, of all that a list or a tree had too: no entity is stored over    *)
(* another one's data that is not replaced.                                *)
Fitting ==
    run.status = "ok" /\ Alone /\ run.op # "copy" =>
    \A p \in Path : Transient(p) /\ data[p] # None => data[p].type = entity[p].type

(* The filters return a status whatever others do meanwhile, and copy if   *)
(* it is alone; tf_add_random, alone, ends its process only when it finds  *)
(* a committed list of transforms.                                         *)
EndsForAReason ==
    run.status = "ended" =>
        /\ run.op \notin {"radius", "statistical", "uniform", "approximate"}
        /\ Alone => run.op # "copy"
        /\ Alone /\ run.op = "addRandomTf" => first.entity[TfPath] # None /\ first.entity[TfPath].committed

(* "If one of the callbacks returns false, all other descending callbacks  *)
(* are skipped" (workspacecommon.h:139, of depthFirstSearch): a search     *)
(* changes nothing after a failure.                                        *)
StopsAtFailure == ~run.after

=============================================================================
