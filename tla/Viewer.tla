------------------------------- MODULE Viewer -------------------------------
(***************************************************************************)
(* The graphical viewer: what it shows of a workspace.                     *)
(*   QmlRepository, QmlWorkspace   the repository and the workspace open   *)
(*   QmlRootTreeModel              the tree of paths                       *)
(*   QmlEntitydata                 the selected entity and its information *)
(*   QmlEntitydataRenderer         its geometry                            *)
(*   OperationExecutor, EntitydataLoader    threads for operators, and for *)
(*                                 reading data                            *)
(*                                                                         *)
(* All but the last belong to the thread of the GUI, whose steps run to    *)
(* their end unless they wait for a loader.  The threads send it events.   *)
(*                                                                         *)
(* Whoever opens a workspace gets a handle with a copy of the workspace    *)
(* object, and never reads the object again: the GUI opens a new one       *)
(* whenever it is told of the repository or of the name, an operator and a *)
(* loader keep the one they were given.  All entities are children of the  *)
(* root here.                                                              *)
(***************************************************************************)
EXTENDS Naturals, Sequences, SequencesExt

CONSTANTS
  Name,      \* names of workspaces
  Stored,    \* those that the repository has
  Path,      \* paths of entities
  Data,      \* what their data may be
  None,      \* nothing
  Start,     \* bound: what the workspaces may hold at first
  Writes,    \* bound: what operators may do
  MaxActs    \* bound: how often the user does something

(* At most the GUI, the executor and a loader have a handle each. *)
Slot == 1..3

(* What is in a workspace's folder: its object (root and the entities that *)
(* it tracks), the references of the transient root, the transient         *)
(* entities with their data, and what the commit has that it comes from.   *)
Disk == [root : {"none", "commit", "own"}, tracked : SUBSET Path,
         refs : [Path -> {"none", "id", "path"}], files : [Path -> Data \union {None}],
         commit : SUBSET Path]

(* A copy of a workspace's object.  early, which only the properties read, *)
(* says that it is from before the first write of an operator that was at  *)
(* work then.                                                              *)
Handle == [at : Stored, root : {"none", "commit", "own"}, tracked : SUBSET Path, early : BOOLEAN]

(* What the executor has to do, and what a loader reads for the GUI. *)
Todo == UNION {[S -> Data \union {None}] : S \in SUBSET Path}
Operation == [handle : Slot, todo : Todo]
Loader == [handle : Slot \union {None}, path : Path \union {None}]

ASSUME StoredAssumption == Stored \subseteq Name
ASSUME NoneAssumption ==
    /\ None \notin Name \union Path \union Data
    /\ None # "hollow" /\ None \notin Slot
    /\ None \notin Handle /\ None \notin Loader /\ None \notin Operation
ASSUME DataAssumption == "hollow" \notin Data
ASSUME StartAssumption == Start \subseteq [Stored -> Disk]
ASSUME WritesAssumption == Writes \subseteq Todo
ASSUME MaxActsAssumption == MaxActs \in Nat

VARIABLES
  alive,       \* the process runs
  stored,      \* [Stored -> Disk]
  handles,     \* [Slot -> Handle or None]
  repository,  \* [loaded: there is a repository, linked: the workspace knows it]
  workspace,   \* QmlWorkspace, with the model of its tree
  entitydata,  \* QmlEntitydata, with the renderer
  operation,   \* what the executor has to do, or None
  loader,      \* what the loader reads that runs, or None
  events,      \* sent to the thread of the GUI
  calls,       \* what that thread still does before it looks for events
  acts         \* how often the user did something

vars == <<alive, stored, handles, repository, workspace, entitydata, operation, loader, events,
          calls, acts>>

-----------------------------------------------------------------------------
(* What a handle leads to.                                                 *)

(* The tree at its root: a root that is transient is read anew. *)
RefsOf(h) ==
    CASE h.root = "none" -> [p \in Path |-> "none"]
      [] h.root = "commit" -> [p \in Path |-> IF p \in stored[h.at].commit THEN "id" ELSE "none"]
      [] h.root = "own" -> stored[h.at].refs

(* getEntity, getEntitydataReadOnly: first the transient entity, whatever  *)
(* the root says.  The data of a committed one is looked for with the      *)
(* entity's own id.                                                        *)
Seen(h, p) ==
    IF stored[h.at].files[p] # None THEN stored[h.at].files[p]
    ELSE IF RefsOf(h)[p] = "id" THEN "hollow" ELSE None

Has(s, p) == s # None /\ p # None /\ Seen(handles[s], p) # None

(* The search of reloadEntities looks a committed child up under its id,   *)
(* and passes over it.                                                     *)
Search(h) == {p \in Path : RefsOf(h)[p] = "path" /\ stored[h.at].files[p] # None}

(* syncModel: an item for each reference *)
SyncModel(h) == {p \in Path : RefsOf(h)[p] # "none"}

(* getWorkspace: a new handle.  The old one of the GUI is given up.        *)
InUse ==
    (IF operation # None THEN {operation.handle} ELSE {})
      \union (IF loader # None THEN {loader.handle} ELSE {})
NewSlot == CHOOSE s \in Slot : s \notin InUse

AtWork(w) == operation # None /\ handles[operation.handle].at = w

GetWorkspace(w) ==
    [at |-> w, root |-> stored[w].root, tracked |-> stored[w].tracked,
     early |-> AtWork(w) /\ stored[w].root # "own"]

-----------------------------------------------------------------------------
(* What one object tells the next, in the thread of the GUI.               *)

(* updateInfo: without entity data it only clears the information. *)
UpdateInfo(ed) ==
    [ed EXCEPT !.info = None, !.loading = @ \/ ed.opened]
LoadsFor(ed) == IF ed.opened THEN <<"load">> ELSE <<>>

(* QmlEntitydata::setWorkspace: the entity data is opened anew, and the    *)
(* renderer reads it (internalEntitydataChanged).                          *)
Reread(ed, h) ==
    [ed EXCEPT !.opened = Seen(h, ed.path) # None, !.shown = Seen(h, ed.path)]

Follows(ed) == ed.connected /\ ed.path # None

(* reloadEntities and internalWorkspaceChanged, upon which QmlRootTreeModel *)
(* builds the tree and QmlEntitydata opens its data, with the handle h or  *)
(* without one.                                                            *)
WorkspaceChanged(ws, h, rest) ==
    /\ workspace' = [ws EXCEPT !.entities = IF h = None THEN {} ELSE Search(h),
                               !.items = IF h = None THEN {} ELSE SyncModel(h)]
    /\ IF h # None /\ Follows(entitydata)
       THEN LET ed == Reread(entitydata, h)
            IN  entitydata' = UpdateInfo(ed) /\ calls' = LoadsFor(ed) \o rest
       ELSE entitydata' = entitydata /\ calls' = rest

(* The workspace is opened anew, if there is one of the name. *)
Open(ws, n, rest) ==
    IF n \in Stored
    THEN /\ handles' = [handles EXCEPT ![NewSlot] = GetWorkspace(n)]
         /\ WorkspaceChanged([ws EXCEPT !.open = NewSlot], GetWorkspace(n), rest)
    ELSE /\ WorkspaceChanged([ws EXCEPT !.open = None], None, rest)
         /\ UNCHANGED handles

(* QmlWorkspace::setRepository *)
SetRepository(loaded, rest) ==
    IF loaded /\ workspace.name # None
    THEN Open(workspace, workspace.name, rest)
    ELSE UNCHANGED <<workspace, entitydata, handles>> /\ calls' = rest

(* internalRepositoryChanged *)
RepositoryChanged(linked, loaded, rest) ==
    IF linked THEN SetRepository(loaded, rest)
    ELSE UNCHANGED <<workspace, entitydata, handles>> /\ calls' = rest

-----------------------------------------------------------------------------
(* The user, or the scripts of the interface.                              *)

Acts ==
    /\ alive /\ calls = <<>> /\ acts < MaxActs
    /\ acts' = acts + 1

(* QmlRepository::setUrl: reload tells of the repository, if there is one, *)
(* and setUrl tells of it again.                                           *)
SetUrl(opens) ==
    /\ Acts
    /\ repository' = [repository EXCEPT !.loaded = opens]
    /\ RepositoryChanged(repository.linked, opens, IF opens THEN <<"repositoryChanged">> ELSE <<>>)
    /\ UNCHANGED <<alive, stored, operation, loader, events>>

Reload ==
    /\ Acts /\ repository.loaded
    /\ RepositoryChanged(repository.linked, TRUE, <<>>)
    /\ UNCHANGED <<alive, stored, repository, operation, loader, events>>

LinkRepository ==
    /\ Acts /\ ~repository.linked
    /\ repository' = [repository EXCEPT !.linked = TRUE]
    /\ SetRepository(repository.loaded, <<>>)
    /\ UNCHANGED <<alive, stored, operation, loader, events>>

SetName(n) ==
    /\ Acts /\ n # workspace.name
    /\ repository.linked => repository.loaded
    /\ IF repository.linked
       THEN Open([workspace EXCEPT !.name = n], n, <<>>)
       ELSE /\ workspace' = [workspace EXCEPT !.name = n]
            /\ UNCHANGED <<entitydata, calls, handles>>
    /\ UNCHANGED <<alive, stored, repository, operation, loader, events>>

(* There is nothing behind m_repository->getRepository(). *)
SetNameTooEarly(n) ==
    /\ Acts /\ n # workspace.name
    /\ repository.linked /\ ~repository.loaded
    /\ alive' = FALSE
    /\ UNCHANGED <<stored, handles, repository, workspace, entitydata, operation, loader, events,
                   calls>>

(* QmlEntitydata::setWorkspace, from a script *)
Connect ==
    /\ Acts /\ ~entitydata.connected
    /\ LET ed == [(IF entitydata.path # None /\ workspace.open # None
                   THEN Reread(entitydata, handles[workspace.open]) ELSE entitydata)
                    EXCEPT !.connected = TRUE]
       IN  entitydata' = UpdateInfo(ed) /\ calls' = LoadsFor(ed)
    /\ UNCHANGED <<alive, stored, handles, repository, workspace, operation, loader, events>>

(* QmlEntitydata::setPath: if there is no entity, it keeps the data of the *)
(* one before.                                                             *)
SetPath(p) ==
    /\ Acts /\ p # entitydata.path
    /\ LET there == entitydata.connected /\ Has(workspace.open, p)
           named == [entitydata EXCEPT !.path = p]
           ed == IF there THEN Reread(named, handles[workspace.open]) ELSE named
       IN  entitydata' = UpdateInfo(ed) /\ calls' = LoadsFor(ed)
    /\ UNCHANGED <<alive, stored, handles, repository, workspace, operation, loader, events>>

(* QmlWorkspace::doOperation *)
DoOperation(writes) ==
    /\ Acts /\ workspace.open # None /\ ~workspace.busy
    /\ operation' = [handle |-> workspace.open, todo |-> writes]
    /\ workspace' = [workspace EXCEPT !.busy = TRUE]
    /\ UNCHANGED <<alive, stored, handles, repository, entitydata, loader, events, calls>>

-----------------------------------------------------------------------------
(* The thread of the GUI goes on.                                          *)

Goes == alive /\ UNCHANGED <<alive, stored, repository, operation, acts>>

StartNoWait ==                                   \* mutant: the old one isn't waited for
    /\ Goes /\ calls # <<>> /\ Head(calls) = "load"
    /\ loader' = IF loader # None THEN loader
                 ELSE [handle |-> workspace.open, path |-> entitydata.path]
    /\ calls' = Tail(calls)
    /\ UNCHANGED <<handles, workspace, entitydata, events>>

(* updateInfo: delete waits for the old loader, then a new one starts. *)
StartLoader ==
    /\ Goes /\ calls # <<>> /\ Head(calls) = "load"
    /\ loader = None
    /\ loader' = [handle |-> workspace.open, path |-> entitydata.path]
    /\ calls' = Tail(calls)
    /\ UNCHANGED <<handles, workspace, entitydata, events>>

TellAgain ==
    /\ Goes /\ calls # <<>> /\ Head(calls) = "repositoryChanged"
    /\ RepositoryChanged(repository.linked, repository.loaded, Tail(calls))
    /\ UNCHANGED <<loader, events>>

(* setInfo, whichever loader has sent it *)
SetInfo ==
    /\ Goes /\ calls = <<>> /\ events # <<>> /\ Head(events).kind = "entityInfoLoaded"
    /\ entitydata' = [entitydata EXCEPT !.info = Head(events).info, !.loading = FALSE]
    /\ events' = Tail(events)
    /\ UNCHANGED <<handles, workspace, loader, calls>>

(* It looks with the handle that it has, whichever one the operator had.   *)
OperationExecuted ==
    LET h == IF workspace.open = None THEN None ELSE handles[workspace.open]
    IN  /\ Goes /\ calls = <<>> /\ events # <<>> /\ Head(events).kind = "operationExecuted"
        /\ events' = Tail(events)
        /\ WorkspaceChanged([workspace EXCEPT !.busy = FALSE], h, <<>>)
        /\ UNCHANGED <<handles, loader>>

GuiStep == StartLoader \/ TellAgain \/ SetInfo \/ OperationExecuted

-----------------------------------------------------------------------------
(* The other threads.                                                      *)

Sent(event) == events' = Append(events, event)

(* EntitydataLoader::run.  Without an entity it sends nothing.             *)
Load ==
    /\ alive /\ loader # None
    /\ IF Has(loader.handle, loader.path)
       THEN Sent([kind |-> "entityInfoLoaded",
                  info |-> Seen(handles[loader.handle], loader.path)])
       ELSE UNCHANGED events
    /\ loader' = None
    /\ UNCHANGED <<alive, stored, handles, repository, workspace, entitydata, operation, calls,
                   acts>>

(* extractInfoFromEntitydata ends without return: a build may end there. *)
LoadBreaks ==
    /\ alive /\ loader # None /\ Has(loader.handle, loader.path)
    /\ alive' = FALSE
    /\ UNCHANGED <<stored, handles, repository, workspace, entitydata, operation, loader, events,
                   calls, acts>>

(* createPath and deleteObject with the handle h: on what its root leads   *)
(* to, which becomes the transient root.  An entity that is new is tracked *)
(* as what it is, one that is overwritten as a tree; one that is taken out *)
(* is removed only if it was found as a transient one.                     *)
Written(h, p, d) ==
    LET ref == RefsOf(h)[p]
        root == stored[h.at]
    IN  [root EXCEPT !.root = "own",
                     !.tracked = IF d # None /\ ref = "none" THEN h.tracked \union {p}
                                 ELSE h.tracked,
                     !.refs = [RefsOf(h) EXCEPT ![p] = IF d # None THEN "path" ELSE "none"],
                     !.files = IF d # None \/ ref = "path" THEN [@ EXCEPT ![p] = d] ELSE @]

(* OperationExecutor::run: the operator writes, deletes, and may give up. *)
Operate ==
    /\ alive /\ operation # None
    /\ \E p \in DOMAIN operation.todo :
          LET h == handles[operation.handle]
              new == Written(h, p, operation.todo[p])
          IN  /\ stored' = [stored EXCEPT ![h.at] = new]
              /\ handles' = [handles EXCEPT ![operation.handle] =
                               [h EXCEPT !.root = new.root, !.tracked = new.tracked]]
              /\ operation' = [operation EXCEPT !.todo =
                                 [q \in DOMAIN operation.todo \ {p} |-> operation.todo[q]]]
    /\ UNCHANGED <<alive, repository, workspace, entitydata, loader, events, calls, acts>>

(* createPath's assertion that what is transient is tracked.  Builds       *)
(* without assertions go on.                                               *)
OperateUntracked ==
    /\ alive /\ operation # None
    /\ \E p \in DOMAIN operation.todo :
          LET h == handles[operation.handle]
          IN  RefsOf(h)[p] = "path" /\ p \notin h.tracked
    /\ alive' = FALSE
    /\ UNCHANGED <<stored, handles, repository, workspace, entitydata, operation, loader, events,
                   calls, acts>>

EndSilently ==                                   \* mutant: only success is told
    /\ alive /\ operation # None
    /\ IF DOMAIN operation.todo = {} THEN Sent([kind |-> "operationExecuted"])
       ELSE UNCHANGED events
    /\ operation' = None
    /\ UNCHANGED <<alive, stored, handles, repository, workspace, entitydata, loader, calls, acts>>

EndOperation ==
    /\ alive /\ operation # None
    /\ Sent([kind |-> "operationExecuted"])
    /\ operation' = None
    /\ UNCHANGED <<alive, stored, handles, repository, workspace, entitydata, loader, calls, acts>>

-----------------------------------------------------------------------------
Init ==
    /\ alive = TRUE
    /\ stored \in Start
    /\ handles = [s \in Slot |-> None]
    /\ repository \in [loaded : BOOLEAN, linked : BOOLEAN]
    /\ workspace = [name |-> None, open |-> None, entities |-> {}, items |-> {}, busy |-> FALSE]
    /\ entitydata \in [connected : BOOLEAN, path : {None}, opened : {FALSE}, shown : {None},
                      info : {None}, loading : {FALSE}]
    /\ operation = None
    /\ loader = None
    /\ events = <<>>
    /\ calls = <<>>
    /\ acts = 0

Next ==
    \/ \E opens \in BOOLEAN : SetUrl(opens)
    \/ Reload \/ LinkRepository \/ Connect
    \/ \E n \in Name : SetName(n) \/ SetNameTooEarly(n)
    \/ \E p \in Path \union {None} : SetPath(p)
    \/ \E writes \in Writes : DoOperation(writes)
    \/ GuiStep
    \/ Load \/ LoadBreaks
    \/ Operate \/ OperateUntracked \/ EndOperation

(* The loop of the GUI comes to what was sent to it, and the threads go on. *)
Fairness ==
    /\ WF_vars(StartLoader) /\ WF_vars(TellAgain)
    /\ SF_vars(SetInfo) /\ SF_vars(OperationExecuted)
    /\ WF_vars(Load) /\ WF_vars(Operate) /\ WF_vars(EndOperation)

Spec == Init /\ [][Next]_vars /\ Fairness

-----------------------------------------------------------------------------
(* Properties.                                                             *)

AtRest ==
    /\ alive /\ calls = <<>> /\ events = <<>>
    /\ ~workspace.busy
    /\ loader = None

(* Once nothing is under way and the GUI is not busy, it lists the         *)
(* entities and the items of the workspace as it is on disk, and of the    *)
(* entity that is selected, if it is there, it shows the data as it is,    *)
(* whichever switches, operators and loaders that were late have gone      *)
(* before.  What the search passes over, committed entities, is not        *)
(* listed.  It does not hold where the code breaks it: the GUI opened the  *)
(* workspace while an operator was at work that wrote the root only then.  *)
(* Such a handle keeps the root that it has copied, operationExecuted does *)
(* not open a new one (qmlworkspace.cpp:291-299).                          *)
ShowsNow ==
    LET own == handles[workspace.open]
        now == [own EXCEPT !.root = stored[own.at].root]
        p == entitydata.path
    IN  AtRest /\ workspace.open # None /\ (own.early => own.root = now.root) =>
          /\ workspace.entities = Search(now) /\ workspace.items = SyncModel(now)
          /\ entitydata.connected /\ p # None /\ Seen(now, p) # None =>
               /\ entitydata.info = Seen(now, p)
               /\ entitydata.shown = Seen(now, p)
               /\ ~entitydata.loading

(* A GUI that is busy with an operator becomes free again. *)
OperationEnds == workspace.busy ~> (~workspace.busy \/ ~alive)
=============================================================================
