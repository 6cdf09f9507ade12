----------------------------- MODULE Workspace -----------------------------
(***************************************************************************)
(* One mapit workspace in one file-system repository:                      *)
(*   WorkspaceImpl   libs/core/src/versioning/workspaceimpl.{h,cpp}        *)
(*   RepositoryImpl  libs/core/src/versioning/repositoryimpl.cpp           *)
(*   FSSerializer    libs/core/src/serialization/file_system               *)
(*                                                                         *)
(* The disk holds the content-addressed store (trees, entities, entity     *)
(* data, commits), the workspace object ".generic_entry" and, below        *)
(* workspaces/<name>/root, one ".generic_entry" and perhaps one            *)
(* "entity_data" file per transient path.                                  *)
(*                                                                         *)
(* A handle is a WorkspaceImpl: it copies the workspace object into memory *)
(* when it is opened and never reads it again.  A call on a handle is a    *)
(* stack of frames, the running one first.  Every file operation of a call *)
(* is a step, so that a crash, a failing assertion or another handle may   *)
(* come between any two of them; reading or writing one file is atomic.    *)
(***************************************************************************)
EXTENDS MapitObjects

CONSTANTS Handle,      \* the WorkspaceImpl objects, each in a process of its own
          Asserts,     \* a build with assertions (the default, Debug) or without
          Checked,     \* callers look at a path before they change it
          Drops,       \* deleteWorkspaceForced may be called
          MaxCommits,  \* bound: commits in the repository
          MaxCrashes   \* bound: process crashes

ASSUME FlagAssumption == Asserts \in BOOLEAN /\ Checked \in BOOLEAN /\ Drops \in BOOLEAN
ASSUME BoundAssumption == MaxCommits \in Nat /\ MaxCrashes \in Nat

VARIABLES
  trees,     \* .mapit/trees
  entities,  \* .mapit/entities
  datas,     \* .mapit/entities_data
  commits,   \* .mapit/commits, oldest first; a commit id is a position, 0 is ""
  files,     \* the transient .generic_entry of every node
  edata,     \* the transient entity_data of every path
  disk,      \* the workspace's own .generic_entry (WorkspaceObj), or None
  mem,       \* m_workspace of every open handle, None when closed
  calls,     \* the frames of the call every handle runs
  failed,    \* lines of the assertions that ended a process
  crashes    \* crashes so far

store == <<trees, entities, datas, commits>>
transient == <<files, edata>>
vars == <<store, transient, disk, mem, calls, failed, crashes>>

-----------------------------------------------------------------------------
(* State helpers.                                                          *)

Objects == trees \union entities    \* what the store holds

(* getTreeTransient, getEntityTransient: the file at a node, if there is one. *)
File(q) == IF q \in Node THEN files[q] ELSE None

DataFile(q) == IF q \in Path THEN edata[q] ELSE None

(* getTree(ObjectReference): transient path first, then the store. *)
TreeOf(ref) ==
    IF IsPathRef(ref) /\ IsTree(File(ref.path)) THEN File(ref.path)
    ELSE IF IsIdRef(ref) /\ ref.id \in trees THEN ref.id ELSE None

(* objectReferenceForPath.  When a segment on the way is no tree the walk  *)
(* stops and the reference of that segment is the result.                  *)
RefForPath(h, p) ==
    LET ref[i \in 0..Len(p)] ==
          IF i = 0 THEN mem[h].root
          ELSE LET current == TreeOf(ref[i - 1])
               IN  IF current = None THEN ref[i - 1] ELSE current.refs[p[i]]
    IN  ref[Len(p)]

(* WorkspaceImpl::getEntity(Path) and getTree(Path). *)
GetEntity(h, p) ==
    LET ref == RefForPath(h, p)
    IN  IF IsEntity(files[p]) THEN files[p]
        ELSE IF IsIdRef(ref) /\ ref.id \in entities THEN ref.id ELSE None

GetTree(h, p) ==
    LET ref == RefForPath(h, p)
    IN  IF IsTree(files[p]) THEN files[p]
        ELSE IF IsIdRef(ref) /\ ref.id \in trees THEN ref.id ELSE None

(* WorkspaceImpl::typeOfObject and the getter for that type: what a search *)
(* finds at a path.  Path bounds the search.                               *)
Found(h, p) ==
    LET ref == RefForPath(h, p)
    IN  IF File(p) # None THEN File(p)
        ELSE IF p \in Path /\ IsIdRef(ref) /\ ref.id \in Objects THEN ref.id ELSE None

(* removeTreeTransient and removeEntityTransient: the file at a node goes. *)
FilesKept(q) == files                      \* mutant: it stays

FilesWithout(q) == [files EXCEPT ![q] = None]

Idle(h) == mem[h] # None /\ calls[h] = <<>>
Top(h) == Head(calls[h])
Running(h, op) == calls[h] # <<>> /\ Top(h).op = op

Continue(h, frame) == calls' = [calls EXCEPT ![h] = <<frame>> \o Tail(@)]
Return(h) == calls' = [calls EXCEPT ![h] = Tail(@)]

(* assert(): the process ends, what it had in memory is gone. *)
Abort(h, line) ==
    /\ Asserts
    /\ failed' = failed \union {line}
    /\ mem' = [mem EXCEPT ![h] = None]
    /\ calls' = [calls EXCEPT ![h] = <<>>]
    /\ UNCHANGED <<store, transient, disk, crashes>>

-----------------------------------------------------------------------------
(* Life of the workspace and of its handles.                               *)

(* RepositoryImpl::createWorkspace: of a commit, or of a branch whose      *)
(* commit id is "" (position 0).  The new workspace object holds the       *)
(* parent's id and nothing else; what lies below root/ stays as it is.     *)
CreateWorkspace(h, parent) ==
    /\ mem[h] = None
    /\ disk = None
    /\ disk' = [parent |-> parent, root |-> None, tracked |-> {}]
    /\ mem' = [mem EXCEPT ![h] = disk']
    /\ UNCHANGED <<store, transient, calls, failed, crashes>>

(* RepositoryImpl::getWorkspace. *)
OpenWorkspace(h) ==
    /\ mem[h] = None
    /\ disk # None
    /\ mem' = [mem EXCEPT ![h] = disk]
    /\ UNCHANGED <<store, transient, disk, calls, failed, crashes>>

(* The process that holds the handle ends between two calls. *)
CloseWorkspace(h) ==
    /\ Idle(h)
    /\ mem' = [mem EXCEPT ![h] = None]
    /\ UNCHANGED <<store, transient, disk, calls, failed, crashes>>

(* RepositoryImpl::deleteWorkspaceForced removes the workspace object only, *)
(* and does not ask who has the workspace open.                            *)
DeleteWorkspaceForced ==
    /\ Drops
    /\ disk # None
    /\ disk' = None
    /\ UNCHANGED <<store, transient, mem, calls, failed, crashes>>

Crash(h) ==
    /\ crashes < MaxCrashes
    /\ calls[h] # <<>>
    /\ crashes' = crashes + 1
    /\ mem' = [mem EXCEPT ![h] = None]
    /\ calls' = [calls EXCEPT ![h] = <<>>]
    /\ UNCHANGED <<store, transient, disk, failed>>

-----------------------------------------------------------------------------
(* The depth-first search of a workspace: a stack of the trees that are    *)
(* being visited.  A committed child is looked up by its id as if that     *)
(* were a path, is not found and is passed over; only references by path   *)
(* remain to be visited.  Siblings may come in any order, of which the code *)
(* takes one, the sorted one.                                              *)

Visit(p, ref, tree) ==
    [path |-> p, ref |-> ref, tree |-> tree, todo |-> TransientNames(tree)]

(* The search turns to child n of the tree on top. *)
PassToAndStay(f, n) == f                   \* mutant: the iterator stands still

PassTo(f, n) ==
    LET top == Last(f.stack)
    IN  [f EXCEPT !.stack = Append(Front(@), [top EXCEPT !.todo = top.todo \ {n}])]

Deeper(f, p, ref, tree) == [f EXCEPT !.stack = Append(@, Visit(p, ref, tree))]

-----------------------------------------------------------------------------
(* createPath: makes the trees of a path transient and hooks a leaf in, or *)
(* takes one out.  Going down it collects the trees of the path in memory, *)
(* coming up it writes them and sets the parents' references.              *)

(* Step 1: the root becomes transient; it is created, copied or read.      *)
(* set_path leaves an id in the root reference, which every reader ignores *)
(* once the path is set.                                                   *)
RootTreeLeft(ws) ==                        \* mutant: the file a commit left, if any
    IF ws.root = None THEN EmptyTree ELSE IF IsTree(File(Root)) THEN File(Root) ELSE TreeOf(ws.root)

RootTree(ws) == IF ws.root = None THEN EmptyTree ELSE TreeOf(ws.root)

RootUntracked(ws) ==                       \* mutant: the root is not tracked
    IF IsPathRef(ws.root) THEN ws ELSE [ws EXCEPT !.root = RootRef]

RootMadeTransient(ws) ==
    IF IsPathRef(ws.root) THEN ws
    ELSE [ws EXCEPT !.root = RootRef, !.tracked = @ \union {RootRef}]

PathCall(op, p, leaf, tree) ==
    [op |-> op, path |-> p, leaf |-> leaf, trees |-> <<tree>>, at |-> 1, dir |-> "down"]

(* Entering createPath from the outside (rest is empty) or from a frame    *)
(* that is deleting a tree.                                                *)
EnterPath(h, op, p, leaf, rest) ==
    /\ mem' = [mem EXCEPT ![h] = RootMadeTransient(@)]
    /\ calls' = [calls EXCEPT ![h] = <<PathCall(op, p, leaf, RootTree(mem[h]))>> \o rest]

Descending(h) ==
    /\ calls[h] # <<>>
    /\ Top(h).op \in {"store", "deleteEntity", "deleteTree"}
    /\ Top(h).dir = "down"

AtLeaf(frame) == frame.at = Len(frame.path)

(* objectReferenceOfChild for the segment the frame stands at. *)
SegRef(frame) == Last(frame.trees).refs[frame.path[frame.at]]
SegPlace(frame) == PathRef(Upto(frame.path, frame.at), TRUE)

(* assert of line 333: a transient segment is in transientoidstoorigin. *)
SegIsTracked(h) ==
    LET ref == SegRef(Top(h)) IN IsPathRef(ref) => ref \in mem[h].tracked

SegUntracked(h) ==
    /\ Descending(h)
    /\ ~SegIsTracked(h)
    /\ Abort(h, 333)

MayPass(h) == Asserts => SegIsTracked(h)

Track(h, places) == mem' = [mem EXCEPT ![h].tracked = @ \union places]

(* The tree of a segment is created, read or copied. *)
SegTreeNotCopied(ref) ==                   \* mutant: a committed tree is not copied
    IF IsPathRef(ref) THEN TreeOf(ref) ELSE EmptyTree

SegTree(ref) == IF ref = None THEN EmptyTree ELSE TreeOf(ref)

(* Cases 1, 3 and 5: down to the next tree. *)
Descend(h) ==
    LET f == Top(h)
        ref == SegRef(f)
        child == SegTree(ref)
    IN  /\ Descending(h)
        /\ ~AtLeaf(f)
        /\ MayPass(h)
        /\ child # None
        /\ Track(h, IF IsPathRef(ref) THEN {} ELSE {SegPlace(f)})
        /\ Continue(h, [f EXCEPT !.trees = Append(@, child), !.at = @ + 1])
        /\ UNCHANGED <<store, transient, disk, failed, crashes>>

(* Cases 3 and 5, the segment is no tree: the walk ends without coming up. *)
(* The last tree collected is then written as the root, and the call       *)
(* returns MAPIT_STATUS_OK.                                                *)
BlockedBelowEntity(h) ==
    LET f == Top(h)
    IN  /\ Descending(h)
        /\ ~AtLeaf(f)
        /\ MayPass(h)
        /\ SegTree(SegRef(f)) = None
        /\ Continue(h, [f EXCEPT !.dir = "root"])
        /\ UNCHANGED <<store, transient, disk, mem, failed, crashes>>

(* The parent is at hand when the leaf is done: link or unlink it there. *)
Ascend(f, ref) ==
    [f EXCEPT !.trees = Append(Front(@), Link(Last(@), f.path[f.at], ref)),
              !.at = @ - 1,
              !.dir = "up"]

(* Cases 2, 4 and 6: storeEntityTransient.  A leaf that is new is tracked  *)
(* under the path it is stored at; one that is overwritten under the path  *)
(* of a tree.                                                              *)
StoreLeaf(h) ==
    LET f == Top(h)
        place == PlaceOf(f.path, f.leaf)
    IN  /\ Descending(h)
        /\ f.op = "store"
        /\ AtLeaf(f)
        /\ MayPass(h)
        /\ files' = [files EXCEPT ![f.path] = f.leaf]
        /\ Track(h, {IF SegRef(f) = None THEN place ELSE SegPlace(f)})
        /\ Continue(h, Ascend(f, place))
        /\ UNCHANGED <<store, edata, disk, failed, crashes>>

(* Cases 7, 8 and 9, and deleteObject<Entity> for case 8. *)
DeleteEntityLeaf(h) ==
    LET f == Top(h)
    IN  /\ Descending(h)
        /\ f.op = "deleteEntity"
        /\ AtLeaf(f)
        /\ MayPass(h)
        /\ IF IsPathRef(SegRef(f))
           THEN /\ files' = FilesWithout(f.path)
                /\ edata' = [edata EXCEPT ![f.path] = None]
           ELSE UNCHANGED transient
        /\ Continue(h, Ascend(f, None))
        /\ UNCHANGED <<store, disk, mem, failed, crashes>>

(* The same for deleteTree: deleteObject<Tree> searches the tree that      *)
(* getTree(path) gives, in a frame of its own, and returns at once when    *)
(* there is none.                                                          *)
DeleteTreeLeaf(h) ==
    LET f == Top(h)
        tree == GetTree(h, f.path)
        search == [op |-> "remove", stack |-> <<Visit(f.path, None, tree)>>]
    IN  /\ Descending(h)
        /\ f.op = "deleteTree"
        /\ AtLeaf(f)
        /\ MayPass(h)
        /\ IF IsPathRef(SegRef(f)) /\ tree # None
           THEN calls' = [calls EXCEPT ![h] = <<search>> \o (<<Ascend(f, None)>> \o Tail(@))]
           ELSE Continue(h, Ascend(f, None))
        /\ UNCHANGED <<store, transient, disk, mem, failed, crashes>>

(* Coming up: storeTreeTransient and the reference in the parent. *)
StoreTreeOfPath(h) ==
    LET f == Top(h)
        place == SegPlace(f)
        parents == Front(f.trees)
    IN  /\ calls[h] # <<>>
        /\ f.op \in {"store", "deleteEntity", "deleteTree"}
        /\ f.dir = "up"
        /\ f.at > 0
        /\ files' = [files EXCEPT ![place.path] = Last(f.trees)]
        /\ Continue(h, Ascend([f EXCEPT !.trees = parents], place))
        /\ UNCHANGED <<store, edata, disk, mem, failed, crashes>>

(* storeTreeTransient of "<workspace>/". *)
StoreRoot(h) ==
    LET f == Top(h)
    IN  /\ calls[h] # <<>>
        /\ f.op \in {"store", "deleteEntity", "deleteTree"}
        /\ f.dir = "root" \/ (f.dir = "up" /\ f.at = 0)
        /\ files' = [files EXCEPT ![Root] = Last(f.trees)]
        /\ Continue(h, [f EXCEPT !.dir = "save"])
        /\ UNCHANGED <<store, edata, disk, mem, failed, crashes>>

(* storeWorkspaceCommit ends every createPath. *)
SaveWorkspace(h) ==
    /\ calls[h] # <<>>
    /\ Top(h).op \in {"store", "deleteEntity", "deleteTree"}
    /\ Top(h).dir = "save"
    /\ disk' = mem[h]
    /\ Return(h)
    /\ UNCHANGED <<store, transient, mem, failed, crashes>>

-----------------------------------------------------------------------------
(* deleteObject<Tree>: each entity the search finds is deleted with a      *)
(* nested deleteEntity, each tree after everything below it.               *)

Removing(h) == Running(h, "remove") /\ Top(h).stack # <<>>

RemoveChild(h, n) ==
    LET f == Top(h)
        top == Last(f.stack)
        p == Append(top.path, n)
        obj == Found(h, p)
        next == PassTo(f, n)
    IN  /\ Removing(h)
        /\ n \in top.todo
        /\ IF IsEntity(obj)
           THEN EnterPath(h, "deleteEntity", p, None, <<next>> \o Tail(calls[h]))
           ELSE /\ Continue(h, IF obj = None THEN next ELSE Deeper(next, p, top.tree.refs[n], obj))
                /\ UNCHANGED mem
        /\ UNCHANGED <<store, transient, disk, failed, crashes>>

RemoveTree(h) ==
    LET f == Top(h)
    IN  /\ Removing(h)
        /\ Last(f.stack).todo = {}
        /\ files' = FilesWithout(Last(f.stack).path)
        /\ Continue(h, [f EXCEPT !.stack = Front(@)])
        /\ UNCHANGED <<store, edata, disk, mem, failed, crashes>>

RemoveEnds(h) ==
    /\ Running(h, "remove")
    /\ Top(h).stack = <<>>
    /\ Return(h)
    /\ UNCHANGED <<store, transient, disk, mem, failed, crashes>>

-----------------------------------------------------------------------------
(* RepositoryImpl::commit: a depth-first search from the root; going up it *)
(* puts each transient object into the store and removes its file.         *)

BeginCommit(h) ==
    LET root == mem[h].root
    IN  /\ Idle(h)
        /\ Len(commits) < MaxCommits
        /\ calls' = [calls EXCEPT ![h] =
                       <<[op |-> "commit",
                          stack |-> IF root = None THEN <<>>
                                    ELSE <<Visit(Root, None, TreeOf(root))>>,
                          cur |-> None,
                          done |-> {},
                          made |-> 0]>>]
        /\ UNCHANGED <<store, transient, disk, mem, failed, crashes>>

(* oldPathsToNewOids, a map: insert() keeps what is there for a path. *)
Entry(p, obj) == [path |-> p, id |-> obj]

Record(done, new) == done \union {e \in new : \A o \in done : o.path # e.path}

IdOf(done, p) ==
    IF \E e \in done : e.path = p THEN (CHOOSE e \in done : e.path = p).id ELSE None

Searching(h) == Running(h, "commit") /\ Top(h).cur = None /\ Top(h).stack # <<>>

CommitChild(h, n) ==
    LET f == Top(h)
        top == Last(f.stack)
        p == Append(top.path, n)
        obj == Found(h, p)
        ref == top.tree.refs[n]
        next == PassTo(f, n)
    IN  /\ Searching(h)
        /\ n \in top.todo
        /\ \/ /\ obj = None         \* "Unsupported type during depth search"
              /\ Continue(h, next)
           \/ /\ IsTree(obj)
              /\ Continue(h, Deeper(next, p, ref, obj))
           \/ /\ IsEntity(obj)
              /\ Continue(h, [next EXCEPT !.cur = [step |-> "data", path |-> p,
                                                   ref |-> ref, obj |-> obj]])
        /\ UNCHANGED <<store, transient, disk, mem, failed, crashes>>

(* set_dataid of the entity whose data has been moved. *)
WithDataId(obj, d) == IF d = None THEN obj ELSE [obj EXCEPT !.dataid = d]

(* The data file is moved into the store. *)
DatasWithoutNew(d) == datas                \* mutant: it is not

DatasWith(d) == datas \union ({d} \ {None})

(* afterEntity, 1: persistTransientEntitydata renames the data file.  The  *)
(* entity goes on if its own file is there or its data id has changed.     *)
(* Otherwise the empty id of its reference is recorded.                    *)
PersistData(h) ==
    LET f == Top(h)
        place == f.cur.ref.path
        d == DataFile(place)
        obj == WithDataId(f.cur.obj, d)
    IN  /\ Running(h, "commit")
        /\ f.cur # None /\ f.cur.step = "data"
        /\ d # NoBytes
        /\ datas' = DatasWith(d)
        /\ edata' = [edata EXCEPT ![place] = None]
        /\ IF IsEntity(File(place)) \/ obj # f.cur.obj
           THEN Continue(h, [f EXCEPT !.cur.step = "entity", !.cur.obj = obj])
           ELSE Continue(h, [f EXCEPT !.cur = None, !.done = Record(@, {Entry(f.cur.path, None)})])
        /\ UNCHANGED <<trees, entities, commits, files, disk, mem, failed, crashes>>

(* The data file is read in pieces of at most its size, until a piece      *)
(* comes out short.  Pieces of no bytes never do.                          *)
ReadsNoBytes(h) ==
    /\ Running(h, "commit")
    /\ Top(h).cur # None /\ Top(h).cur.step = "data"
    /\ DataFile(Top(h).cur.ref.path) = NoBytes

ReadEmptyData(h) == ReadsNoBytes(h) /\ UNCHANGED vars

(* afterEntity, 2: storeEntity. *)
PersistEntity(h) ==
    LET f == Top(h)
    IN  /\ Running(h, "commit")
        /\ f.cur # None /\ f.cur.step = "entity"
        /\ entities' = entities \union {f.cur.obj}
        /\ Continue(h, [f EXCEPT !.cur.step = "remove",
                                 !.done = Record(@, {Entry(f.cur.path, f.cur.obj)})])
        /\ UNCHANGED <<trees, datas, commits, transient, disk, mem, failed, crashes>>

(* afterEntity, 3: removeEntityTransient. *)
RemovePersisted(h) ==
    LET f == Top(h)
        place == f.cur.ref.path
    IN  /\ Running(h, "commit")
        /\ f.cur # None /\ f.cur.step = "remove"
        /\ files' = FilesWithout(place)
        /\ edata' = [edata EXCEPT ![place] = None]
        /\ Continue(h, [f EXCEPT !.cur = None])
        /\ UNCHANGED <<store, disk, mem, failed, crashes>>

(* afterTree: references by path become the ids recorded for these paths.  *)
(* The assertions of lines 198 and 200 say that there are such ids;        *)
(* without assertions operator[] records an empty id and the reference     *)
(* stays as it is.                                                         *)
Unrecorded(f) ==
    {n \in TransientNames(Last(f.stack).tree) :
        IdOf(f.done, Last(f.stack).tree.refs[n].path) = None}

EmptyIds(f) == {Entry(Last(f.stack).tree.refs[n].path, None) : n \in Unrecorded(f)}

TransientForm(f) == Last(f.stack).tree     \* mutant: references are not replaced

PersistentForm(f) ==
    LET tree == Last(f.stack).tree
    IN  TreeObj([n \in Name |->
                   IF n \in TransientNames(tree) \ Unrecorded(f)
                   THEN IdRef(IdOf(f.done, tree.refs[n].path))
                   ELSE tree.refs[n]])

TreeIsDone(h) == Searching(h) /\ Last(Top(h).stack).todo = {}

CommitUnrecorded(h) ==
    /\ TreeIsDone(h)
    /\ Unrecorded(Top(h)) # {}
    /\ Abort(h, 198)

PersistTree(h) ==
    LET f == Top(h)
        tree == PersistentForm(f)
        top == Last(f.stack)
    IN  /\ TreeIsDone(h)
        /\ Asserts => Unrecorded(f) = {}
        /\ trees' = trees \union {tree}
        /\ Continue(h, [f EXCEPT !.cur = [step |-> "removeTree", ref |-> top.ref],
                                 !.done = Record(Record(@, EmptyIds(f)), {Entry(top.path, tree)}),
                                 !.stack = Front(@)])
        /\ UNCHANGED <<entities, datas, commits, transient, disk, mem, failed, crashes>>

(* removeTreeTransient(ref.path()); the search gives the root no           *)
(* reference, so the root's file stays.                                    *)
RemovePersistedTree(h) ==
    LET f == Top(h)
    IN  /\ Running(h, "commit")
        /\ f.cur # None /\ f.cur.step = "removeTree"
        /\ files' = IF IsPathRef(f.cur.ref)
                    THEN FilesWithout(f.cur.ref.path)
                    ELSE files
        /\ Continue(h, [f EXCEPT !.cur = None])
        /\ UNCHANGED <<store, edata, disk, mem, failed, crashes>>

(* createCommit.  The time stamp makes every commit a new object. *)
CreateCommit(h) ==
    LET f == Top(h)
    IN  /\ Running(h, "commit")
        /\ f.cur = None /\ f.stack = <<>> /\ f.made = 0
        /\ commits' = Append(commits, [parent |-> mem[h].parent, root |-> IdOf(f.done, Root)])
        /\ Continue(h, [f EXCEPT !.made = Len(commits) + 1])
        /\ UNCHANGED <<trees, entities, datas, transient, disk, mem, failed, crashes>>

(* The workspace now stands on the new commit; storeWorkspaceCommit. *)
EndCommit(h) ==
    LET f == Top(h)
        root == commits[f.made].root
    IN  /\ Running(h, "commit")
        /\ f.made # 0
        /\ disk' = [parent |-> f.made,
                    root |-> IF root = None THEN None ELSE IdRef(root),
                    tracked |-> {}]
        /\ mem' = [mem EXCEPT ![h] = disk']
        /\ Return(h)
        /\ UNCHANGED <<store, transient, failed, crashes>>

-----------------------------------------------------------------------------
(* What the callers of a workspace do.                                     *)

ProperPrefixes(p) == {Upto(p, i) : i \in 1..(Len(p) - 1)}

(* A careful caller stores where no tree is and never below an entity. *)
MayStore(h, p) ==
    Checked => /\ \A q \in ProperPrefixes(p) : GetEntity(h, q) = None
               /\ GetTree(h, p) = None

(* A loader: a new entity, whose data id is still empty. *)
StoreEntity(h, p, m) ==
    /\ Idle(h)
    /\ MayStore(h, p)
    /\ EnterPath(h, "store", p, EntityObj(m, None), <<>>)
    /\ UNCHANGED <<store, transient, disk, failed, crashes>>

(* operator edit_entity: the entity that is there, with the meta data given. *)
EditEntity(h, p, m) ==
    LET e == GetEntity(h, p)
    IN  /\ Idle(h)
        /\ e # None
        /\ MayStore(h, p)
        /\ EnterPath(h, "store", p, [e EXCEPT !.meta = m], <<>>)
        /\ UNCHANGED <<store, transient, disk, failed, crashes>>

(* getEntitydataForReadWrite and a write: only for transient entities.     *)
(* Opening the file truncates it; a writer may have nothing to write, as   *)
(* operator copy has for an entity without data.                           *)
WriteData(h, p, d) ==
    /\ Idle(h)
    /\ IsEntity(files[p])
    /\ edata[p] # d
    /\ edata' = [edata EXCEPT ![p] = d]
    /\ UNCHANGED <<store, files, disk, mem, calls, failed, crashes>>

(* operator delete asks getEntity, then getTree; requests from the network *)
(* (handleRequestDeleteEntity, handleRequestDeleteTree) do not ask.        *)
DeleteEntity(h, p) ==
    /\ Idle(h)
    /\ Checked => GetEntity(h, p) # None
    /\ EnterPath(h, "deleteEntity", p, None, <<>>)
    /\ UNCHANGED <<store, transient, disk, failed, crashes>>

DeleteTree(h, p) ==
    /\ Idle(h)
    /\ Checked => GetEntity(h, p) = None /\ GetTree(h, p) # None
    /\ EnterPath(h, "deleteTree", p, None, <<>>)
    /\ UNCHANGED <<store, transient, disk, failed, crashes>>

-----------------------------------------------------------------------------
NothingYet ==
    /\ trees = {} /\ entities = {} /\ datas = {} /\ commits = <<>>
    /\ files = [q \in Node |-> None]
    /\ edata = [p \in Path |-> None]
    /\ disk = None
    /\ mem = [h \in Handle |-> None]
    /\ calls = [h \in Handle |-> <<>>]
    /\ failed = {}

Init == NothingYet /\ crashes = 0

(* A step of the call that runs on a handle. *)
PathStep(h) ==
    \/ Descend(h) \/ BlockedBelowEntity(h) \/ SegUntracked(h)
    \/ StoreLeaf(h) \/ DeleteEntityLeaf(h) \/ DeleteTreeLeaf(h)
    \/ StoreTreeOfPath(h) \/ StoreRoot(h) \/ SaveWorkspace(h)

RemoveStep(h) ==
    \/ \E n \in Name : RemoveChild(h, n)
    \/ RemoveTree(h) \/ RemoveEnds(h)

CommitStep(h) ==
    \/ \E n \in Name : CommitChild(h, n)
    \/ PersistData(h) \/ ReadEmptyData(h) \/ PersistEntity(h) \/ RemovePersisted(h)
    \/ CommitUnrecorded(h) \/ PersistTree(h) \/ RemovePersistedTree(h)
    \/ CreateCommit(h) \/ EndCommit(h)

CallStep(h) == PathStep(h) \/ RemoveStep(h) \/ CommitStep(h)

(* A client begins a call, or does what is one step. *)
ClientStep(h) ==
    \/ \E parent \in 0..Len(commits) : CreateWorkspace(h, parent)
    \/ OpenWorkspace(h) \/ CloseWorkspace(h)
    \/ \E p \in Path, m \in Meta : StoreEntity(h, p, m) \/ EditEntity(h, p, m)
    \/ \E p \in Path, d \in Data : WriteData(h, p, d)
    \/ \E p \in Path : DeleteEntity(h, p) \/ DeleteTree(h, p)
    \/ BeginCommit(h)

Next ==
    \/ \E h \in Handle : CallStep(h) \/ ClientStep(h) \/ Crash(h)
    \/ DeleteWorkspaceForced

Spec == Init /\ [][Next]_vars

(* A call is a loop of one thread that waits for nobody: it goes on until  *)
(* it returns.  Nothing forces a client to make a call.                    *)
FairSpec == Spec /\ \A h \in Handle : WF_vars(CallStep(h))

-----------------------------------------------------------------------------
(* The values that references, objects and frames take; objs are the       *)
(* objects of the store.                                                   *)

PathRefs == [to : {"path"}, path : Path, slash : BOOLEAN]
IdRefs(objs) == [to : {"id"}, id : objs]
Refs(objs) == {None} \union IdRefs(objs) \union PathRefs

Trees(objs) == [is : {"tree"}, refs : [Name -> Refs(objs)]]
Entities(ids) == [is : {"entity"}, meta : Meta, dataid : ids \union {None}]

WorkspaceObjs(roots, last) ==
    [parent : 0..last,
     root : {None, RootRef} \union IdRefs(roots),
     tracked : SUBSET (PathRefs \union {RootRef})]

(* A path call holds a tree for every segment above the one it stands at,  *)
(* and coming up the one at the segment too.                               *)
PathFrames ==
    {f \in [op : {"store", "deleteEntity", "deleteTree"},
            path : Path,
            leaf : Entities(datas) \union {None},
            trees : Seq(Trees(Objects)),
            at : Nat,
            dir : {"down", "up", "root", "save"}] :
        /\ f.op = "store" => f.leaf # None
        /\ f.dir = "down" => f.at \in 1..Len(f.path) /\ Len(f.trees) = f.at
        /\ f.dir = "up" => f.at \in 0..(Len(f.path) - 1) /\ Len(f.trees) = f.at + 1
        /\ f.trees # <<>>}

Visits ==
    {v \in [path : Node, ref : {None} \union PathRefs,
            tree : Trees(Objects), todo : SUBSET Name] :
        v.todo \subseteq TransientNames(v.tree)}

RemoveFrames == [op : {"remove"}, stack : Seq({v \in Visits : v.path # Root})]

Currents ==
    {None}
    \union [step : {"data", "entity"}, path : Path, ref : PathRefs,
            obj : Entities(datas)]
    \union [step : {"remove"}, path : Path, ref : PathRefs, obj : entities]
    \union [step : {"removeTree"}, ref : {None} \union PathRefs]

CommitFrames ==
    {f \in [op : {"commit"}, stack : Seq(Visits), cur : Currents,
            done : SUBSET [path : Node, id : Objects \union {None}],
            made : 0..Len(commits)] :
        \A e \in f.done : e.path = Root => e.id \in trees \union {None}}

Frames == PathFrames \union RemoveFrames \union CommitFrames

-----------------------------------------------------------------------------
(* Type invariant: every variable, and every frame of every call, is of    *)
(* the shape above.                                                        *)
TypeOK ==
    /\ datas \subseteq Data
    /\ files \in [Node -> Trees(Objects) \union Entities(datas) \union {None}]
    /\ edata \in [Path -> Data \union {None}]
    /\ disk \in WorkspaceObjs(trees, Len(commits)) \union {None}
    /\ mem \in [Handle -> WorkspaceObjs(trees, Len(commits)) \union {None}]
    /\ calls \in [Handle -> Seq(Frames)]
    /\ failed \subseteq {198, 333}
    /\ crashes \in Nat

(* What a commit persists can be read back, whatever happened while it was *)
(* written: storeTree, storeEntity and createCommit only follow what they  *)
(* refer to, in afterEntity, afterTree and commit (repositoryimpl.cpp).    *)
(* In a build with assertions no persistent tree refers to a file of the   *)
(* workspace.                                                              *)
PersistedRefs == {None} \union IdRefs(Objects) \union (IF Asserts THEN {} ELSE PathRefs)

StoreClosed ==
    /\ trees \subseteq [is : {"tree"}, refs : [Name -> PersistedRefs]]
    /\ entities \subseteq Entities(datas)
    /\ commits \in Seq([parent : 0..Len(commits), root : trees \union {None}])

(* createPath and commit take the root for granted: getTreeTransient or    *)
(* getTree of the root's reference is never null, and the assertions of    *)
(* lines 225 and 227 of workspaceimpl.h hold (a transient root is tracked, *)
(* a workspace without a root has tracked nothing), though the root's file *)
(* and the workspace object are written at different times and possibly by *)
(* different handles.                                                      *)
RootHolds(ws) ==
    /\ ws.root # None => IsTree(TreeOf(ws.root))
    /\ IsPathRef(ws.root) => ws.root \in ws.tracked
    /\ ws.root = None => ws.tracked = {}

RootIsThere ==
    /\ disk # None => RootHolds(disk)
    /\ \A h \in Handle : Idle(h) => RootHolds(mem[h])

(* The assertions of lines 198 and 200 of repositoryimpl.cpp: when a tree  *)
(* is persisted, every transient child has been persisted before, so that  *)
(* no persistent tree refers to a file of the workspace.  It fails once a  *)
(* client's own call ended at an entity on its path (workspaceimpl.h:350)  *)
(* where the trees above it have other children.                           *)
CommitFindsChildren ==
    /\ 198 \notin failed
    /\ \A t \in trees : TransientNames(t) = {}

=============================================================================
