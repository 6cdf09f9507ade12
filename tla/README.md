# Mapit in TLA+

Mapit keeps map data for robots (point clouds, grids, meshes, transforms) under
version control. A *repository* holds *workspaces*; clients store, edit and
delete *entities* at paths of a workspace and *commit*, which turns what the
workspace holds into an immutable snapshot in a content-addressed store.
Operators compute on entities, a server offers a repository over the network,
and tools, a player for ROS and a viewer are its clients. This directory models
these parts, model-checks them, and proves what matters most about them for
every size of the system: of the workspace with its store, calls over the
network, entity data, operators, lists of transforms, the command-line tools and
the viewer.

Source paths are relative to the repository. `workspaceimpl.h:340` and the like
are in `src/libs/core/src/versioning`, `fs_serializer.cpp` is in
`src/libs/core/src/serialization/file_system`, and `zmq*` are in
`src/libs/networking_node/src`.

## 1. Inventory

| Part | State it keeps | Operations | What makes it correct |
|---|---|---|---|
| **Workspace** (`libs/core/src/versioning/workspaceimpl.{h,cpp}`) | `m_workspace`, a copy of the workspace object: parent commit, reference to the root tree, `transientoidstoorigin` (what has been made transient) | `storeEntity`, `deleteEntity`, `deleteTree` (all through the template `createPath`), `getEntity`, `getTree`, `getEntitydata...`, operators | a map from paths to entities: a call changes its path only, deletions delete, stores store, reads agree |
| **Repository** (`repositoryimpl.cpp`) | none of its own | `createWorkspace`, `getWorkspace`, `deleteWorkspaceForced`, `commit`, lookups and searches | a commit is exactly the workspace; history never changes; what is stored can be read back |
| **File-system serializer** (`fs_serializer.cpp`) | directories `trees`, `entities`, `entities_data`, `commits`, `branches`, `workspaces/<name>/` with the workspace object and below `root/` one `.generic_entry` and perhaps one `entity_data` per path | store, get, remove, persist, list | each object under its hash; an object only after what it refers to |
| **Searches** (`depthfirstsearch.cpp`, `breadthFirstSearch.cpp`) | a stack or a queue by stamps, callbacks before and after each object | search a workspace, a commit, the history | each object once, children before the after-callback of their tree, termination |
| **Entity data** (`libs/layertypes_collection/*`, `libs/core/src/entitydata*`) | per object what was read, one stream open for reading and one for writing, over one file | `getData`, `setData`, readers and writers of single points | what is read was there; a writer reads what it wrote; what is committed stays |
| **Network node** (`libs/networking_node/src`) | ZeroMQ REQ/REP sockets; in the client a mutex that a request holds from `prepareForwardComChannel` to its last part | one request per call of the interfaces, multi-part for entity data, time-outs | a request is executed at most once and answered with its own answer; the mutex is released; the sockets are used in turns |
| **mapitd** (`tools/mapitd`) | the server's socket, a loop that may reopen it | poll and answer | it goes on serving |
| **Transforms** (`libs/layertypes_collection/tf`) | a list of stamped transforms per pair of frames in an entity; tf2's caches per frame | gather, add, delete by time, look up, latest common time | what is stored is found, lookups compose, updates change only their times |
| **Operators** (`libs/operator_modules_collection`) | none that lasts | find, store, open, read, compute, write | all or nothing; a result of the right type; a status instead of an abort |
| **Command-line tools** (`tools/*`) | none that lasts | checkout, commit, execute, ls, log, diff, checkout2filesystem | they tell what is in the repository |
| **Player** (`tools/stream_to_ros`) | a publisher per topic with the next entity, timers, a simulated clock | publish what is due | nothing skipped, in order, to the end |
| **Viewer** (`tools/visualization`) | repository, workspace, tree of paths, entity data and information; an executor and loader threads | switch, select, run an operator | it shows what is there when all is quiet |

How they interact: a tool or an operator opens a workspace through the
repository, and each call runs to its end in the caller's thread, reading and
writing files through the serializer. `commit` and `deleteTree` drive a
depth-first search with callbacks that write the files the search is reading.
Processes share nothing but the files: there is no lock, and a `WorkspaceImpl`
never reads its workspace object again after it was opened. Over the network the
same calls are requests that a server runs on its repository. In the viewer and
the player, timers, threads and an event loop decide when calls are made.

Behaviours that are hard: a tree is copied from the store to the workspace the
first time something below it changes, so a workspace is a mixture of transient
and committed objects; trees are rewritten from the leaf up, one file at a time;
`deleteTree` calls `deleteEntity` from inside a search; `commit` moves objects
while the workspace object still points to their files; a crash or a failing
assertion may come between any two files; two processes may hold the same
workspace; old files survive the workspace they belong to; a reply carries no
number; a call may time out while it is executed; an operator stores an entity
before it has its data; an object keeps a file open that is truncated, moved or
removed; a loader or a timer is late. `PROJECT.json` lists each such hazard at
its line.

## 2. Modules

```
MapitObjects        values: references, trees, entities, paths
   |
Workspace           the workspace, the repository's calls, the serializer's
   |                files, the depth-first search
WorkspaceMap        the map a set of files stands for; refinement; properties
   |    \   \       about the map
   |     \   VersionedMap    abstract: what clients are promised
   |      WorkspaceProofs    types, closed store, root, history, whole commits: proved
   |         |
   |      MapProofs          what steps do to the map, commits record, reads find: proved
MCWorkspace - MCCareful, MCDeep, MCFaults        instances for TLC

Requests            calls on a remote repository: threads, mutex, sockets, server
   |   \    \
   |    \    AtMostOnce   abstract: a remote call
   |     RequestsProofs   types, turns, refinement, unread parts: proved
MCRequests

Operators           every operator, and others that meddle
   |   \    \
   |    \    AtomicRun    abstract: all or nothing
   |     OperatorsProofs  every property of the run: proved
MCOperators

TransformBuffer     tf2: caches, walks, lookups (no variables)
   |
Transforms          lists in a workspace, the operators that change them
   |   \
   |    TransformsProofs  form of the lists, nothing lost by adding: proved
MCTransforms

EntityData   - MCEntityData, EntityDataProofs   the objects on the data of one entity
Tools        - MCTools, ToolsProofs             the command-line tools on a repository
Playback     - MCPlayback                       the player for ROS
Viewer       - MCViewer, ViewerProofs           the viewer
```

The parts meet where one makes another one's calls a single step: a request of
`Requests` is executed in one step, a commit or an operator of `Tools` too, and
`Workspace` and `Operators` take those apart. `EntityData` takes the data file
apart that `Workspace` (`edata`) and `Operators` (`data`) write at once.

### MapitObjects

Objects are records; **the content of an object stands for its id** (SHA-256 is
assumed free of collisions). A reference is `None`, an id, or a transient path
with or without its trailing slash: the code keeps trees under `a/b/` and
entities under `a/b` and compares these strings, and one of the findings is
about the slash. `Link` is `erase` + `insert` of a child's reference.

### Workspace

| Variable | Code |
|---|---|
| `trees`, `entities`, `datas`, `commits` | `.mapit/trees`, `entities`, `entities_data`, `commits` |
| `files`, `edata` | the files `.generic_entry` and `entity_data` below `workspaces/<name>/root` |
| `disk` | the workspace object on disk |
| `mem[h]` | `m_workspace` of an open `WorkspaceImpl`, read once when opened |
| `calls[h]` | the call a handle runs, as a stack of frames (running one first) |
| `failed`, `crashes` | assertions that ended a process; crashes so far |

Each file operation of a call is a step. A `createPath` frame holds what the
template's local variables hold: the trees collected on the way down, where it
stands, and the direction.

| Actions | Code |
|---|---|
| `EnterPath`, `Descend`, `BlockedBelowEntity`, `SegUntracked` | the walk down of `createPath` (`workspaceimpl.h:217-355`): make the root transient, copy or create each tree, stop at a segment that is no tree, the assertion of line 333 |
| `StoreLeaf`, `DeleteEntityLeaf`, `DeleteTreeLeaf` | cases 2, 4, 6 and 7 to 9 of the leaf |
| `StoreTreeOfPath`, `StoreRoot`, `SaveWorkspace` | the way up: write each tree, set the parent's reference, write the root, write the workspace object |
| `RemoveChild`, `RemoveTree`, `RemoveEnds` | `deleteObject<Tree>`: the search, nested `deleteEntity`, removal of the trees |
| `BeginCommit`, `CommitChild`, `PersistData`, `ReadEmptyData`, `PersistEntity`, `RemovePersisted`, `CommitUnrecorded`, `PersistTree`, `RemovePersistedTree`, `CreateCommit`, `EndCommit` | `RepositoryImpl::commit` with its callbacks `afterEntity` and `afterTree` |
| `CreateWorkspace`, `OpenWorkspace`, `CloseWorkspace`, `DeleteWorkspaceForced`, `Crash` | life of the workspace, its handles and its processes |
| `StoreEntity`, `EditEntity`, `WriteData`, `DeleteEntity`, `DeleteTree` | what callers do, and with `Checked` what they look at before |

`GetEntity`, `GetTree`, `RefForPath` and `Found` are the reads, which change
nothing and are used in guards and in `ReadsAgree`.

Constants that choose a setting: `Asserts` (the default build type is Debug, so
assertions are on; a release build has none), `Checked` (operator `delete` and
the loaders look at a path first; the network handlers do not), `Drops`
(`deleteWorkspaceForced` may be called). Bounds: `MaxCommits`, `MaxCrashes`.

### VersionedMap and WorkspaceMap

`VersionedMap` is what `libs/interface_cpp` promises: a map from paths to
entities, no entity below another; put, change of data, removal of a subtree at
once or one entity at a time; a commit appends a snapshot. `WorkspaceMap`
computes the map from the files by going down from the root of the workspace
object on disk, through transient files and stored objects alike. While a commit
moves objects, an object is the one the commit has got hold of: the files alone
do not hold the workspace at that time. `Implements` is the abstract
specification under that mapping.

The abstract `Put` lets the data of an entity be empty or what was at the path:
a loader stores an entity with an empty data id and the data file, if one is
there, still counts.


### Requests and AtMostOnce

One server, a repository with one workspace and one path, client processes with
threads. A reply carries no number: that it belongs to the call that gets it
follows from the mutex, the REQ/REP turns and the time-out.

| Variable | Code |
|---|---|
| `setting` | which clients there are, what they call, `assert`, `mapitd --count`; never changes |
| `up`, `connected` | client processes; `connected_` of their node |
| `unread` | parts of a reply that nobody has read (`has_more`) |
| `holder` | the thread that holds `m_requestMutex` |
| `call` | per thread: the kind of call and where it is: lock, send, receive, frames, unlock |
| `opened` | threads with a `ZmqEntitydataStreamProvider` |
| `queue`, `inbox` | ZeroMQ: requests under way, the reply that lies at a client |
| `server` | `mapitd`: waiting, handling, replying, stuck, down |
| `store` | what the server's repository holds |
| `executed`, `outcome` | how often each call was executed, what its caller knows (for `AtMostOnce`) |

| Actions | Code |
|---|---|
| `Lock`, `Send`, `SendNotConnected`, `SendUnread` | the head of every call of `zmqrequester*.cpp`; `send` throws if not connected and asserts that nothing is unread |
| `Receive`, `ReceiveNothingToRead`, `ReadFrames`, `TimeOut`, `ReturnUnlocked` | `receive` with its five seconds, the raw bodies, the ways a call returns with or without the mutex |
| `Dispatch`, `Execute`, `SendReply`, `SendReplyUnread`, `HandlerThrows`, `Reopen`, `ServerEnds` | `receive_and_dispatch` and the loops of `mapitd`, the handlers of `zmqresponder_p.cpp` |

The operators `CatchesRuntimeError`, `CatchesZmqError`, `ForgetsToUnlock`,
`ChecksReply` say which call looks at which failure: no two calls of
`zmqrequester.cpp` and `zmqentitydatastreamprovider.cpp` agree. The handlers are
operators from a store to the set of their replies (`HandleStoreEntity`, ...).

`AtMostOnce` is the abstract remote call: executed at most once, answered only
after it was executed, given up at any time. `Implements` is the refinement.

### Operators and AtomicRun

An operator is a *program*, a sequence of instructions, one for each call on the
workspace and each step that may fail: `Find` (`getEntity`), `Store`,
`StoreMissing`, `IsOfType`, `Open`, `OpenBlindly`, `OpenAs`, `OpenReadOnly`,
`ReadBlindly` (which pointer is looked at, which cast is used), `Read`, `Write`,
`CopyBytes`, `Delete`, `MayFail`, `MayThrow`. `Program` has one such sequence per
operator, in the order of its source; what it computes is left out.

| Variable | Code |
|---|---|
| `entity`, `data` | type and place (transient or stored) of each entity; what its transient data file holds, and where that came from |
| `run` | the operator that runs: paths, the local variables that later instructions use, its status |
| `meddles` | changes by other clients so far |
| `first` | what was there when the run began |

`BeginWork`, `WorkEnds`, `RunEnds` are the loop over a list of paths or a tree
(a search, whose callback returns false when it fails); `DoFind`, `DoStore`,
`DoOpen`, ... interpret an instruction; `MeddleDelete`, `MeddleStore` are others.
`AtomicRun` is what one may expect: success and only the targets have changed, or
an error and nothing has. `Atomicity` shows it for every operator that works on
one entity undisturbed, but for three: `load_asset`, `load_path` and
`levelset_to_mesh` store their target before they know whether they will
succeed.

### TransformBuffer and Transforms

`TransformBuffer` is the part of the vendored and changed tf2 that mapit uses,
as operators: a cache per frame sorted by time (`InsertData`, `FindClosest`,
`Interpolate`, `GetData`, `LatestTime`), the walk from two frames to a common parent
(`Walk`, `Accumulate`, `Finalize`), `LookupTransform`, `LookupThrough`,
`CanTransform`, `LatestCommonTime`. Poses are words over
letters that have inverses, so composition in a wrong order or direction shows.

| Variable | Code |
|---|---|
| `stored`, `stamp` | per pair of frames: the data file of the list's entity, the stamp of the entity |
| `job`, `jobs` | the last operator with what it found; how many ran |

`LoadTfs` (and `load_bags`), `RegisterAndAdd`, `RegisterAndCombine` (`reg_local`
with tf-add and tf-combine) and `DeleteList` are the ways lists change;
`ListOf`, `FileOf`, `AddTransform`, `DeleteTransforms`, `BufferOf` are
`TransformStampedList`, its stream functions and `BufferCore`'s constructor.

### EntityData

| Variable | Code |
|---|---|
| `type`, `entry` | of the one entity; whether it is transient, stored or gone |
| `work`, `content`, `stored` | the file at the path in the workspace, what files hold, the files in `entities_data` |
| `hashed` | what a commit under way has hashed |
| `object` | the objects of `layertypes_collection`: where they read, what they keep, their open streams |
| `sets`, `got`, `mine`, `seen` | bound; the last result; what an object wrote or could have read (for the properties) |

Actions: `OpenReadOnly`, `OpenForReadWrite` and `Close` of an object; `getData` and
`setData` of each class (`GetPointcloud`, `SetPointcloud`, ...: some keep what they
read, some read anew; asset and las read in two steps, of a header and the rest,
`GetAsset` and `ReadAsset`, `GetReader` and `ReadPoints`); writers that are open for
a while, until `FinishSet`; `StoreEntity`, `DeleteEntity`; `HashData` and `MoveData`,
the two looks a commit takes at a file.

### Tools

| Variable | Code |
|---|---|
| `commits`, `workspaces` | `.mapit/commits`, the workspace objects |
| `tools` | per process: its command, its step, what it printed, how it ended |
| `edits` | operators run so far |

A tool is a few steps: options, the repository, work. `CheckoutLooks` and
`CheckoutCreates` are the two halves of `createWorkspace`; `LogSearches` and
`DiffSearches` are the breadth-first search of the history, whose queue is keyed
by stamps (`Enqueue`, `Visited`); `ExportMakesTree`, `ExportCopies` are
`checkout2filesystem`, which asks the data for their `size()` and meets, for point
clouds and grids, a function without a return (`NoSize`). `Written` is what an
operator leaves at a path, a loader that fails after it has stored the entity
included. `BadOptions`, `NoRepository` and `RemoteFails` are the
ends for which no test exists.

### Playback

| Variable | Code |
|---|---|
| `given`, `present` | entities loaded at the start; those still in the workspace |
| `mode`, `status`, `now` | how main was asked to play; the player; ROS time |
| `manager`, `lists` | per topic: `PublishToROS` with its timer; `PublishTFs` with the lists it has taken up and its own timer |
| `published` | what went out |

`StartPlayback`, `StartWithoutSimTime`, `StartFails`, `StartAtOnce` are `main`;
`TimerCallback` and `TfTimerCallback` the timers, late and in any order; `Tick`
is `PublishClock`; `Delete` is another client.

### Viewer

| Variable | Code |
|---|---|
| `alive`, `stored` | the process; per workspace its object, transient files and the commit it comes from |
| `handles` | the `WorkspaceImpl`s in use (the GUI's, the executor's, a loader's) with their copies of the workspace object |
| `repository`, `workspace`, `entitydata` | `QmlRepository`, `QmlWorkspace` with `QmlRootTreeModel`, `QmlEntitydata` with its renderer |
| `operation`, `loader` | the threads `OperationExecutor` and `EntitydataLoader` |
| `events`, `calls` | queued signals; what the GUI's thread does before it looks at them |
| `acts` | bound on what the user does |

`SetUrl`, `Reload`, `LinkRepository`, `SetName`, `SetNameTooEarly`, `Connect`,
`SetPath`, `DoOperation` are the user and QML; `StartLoader`, `TellAgain`,
`SetInfo`, `OperationExecuted` the GUI's thread; `Load`, `LoadBreaks`, `Operate`,
`OperateUntracked`, `EndOperation` the other threads. `GetWorkspace` makes a new
handle each time the GUI is told of a repository or a name; an operator and a loader
keep the one they were given. `RefsOf`, `Seen` and `Search` are what a handle's root
leads to: a transient root is read anew, a root by id is the copy's, the search of
`reloadEntities` passes over committed children.

## 3. Runs

| Run | Instance | Distinct states | Question |
|---|---|---|---|
| `careful` | one careful client; either two children of the root, one of them perhaps a tree, data that may be empty and one commit, or paths a, a/a, two meta, two data and two commits; fair | 320 thousand | `TypeOK`, `ReadsAgree`, `CommitFindsChildren`, `Implements`, `DeleteDeletes`, `StoreStores`, `CallsReturn` |
| `deep` | one careful client; paths a, a/a, a/a/a, a/b; two commits, the second one of entities without data | 489 thousand | `ReadsAgree`, `CommitFindsChildren`, `Implements`, `OnlyItsPath` |
| `faults` | paths a, a/b, b; a client alone that looks before it calls and may crash once; or two handles in two processes that call without looking on one path; or these two while workspaces are deleted under them; symmetric | 1.3 million | `StoreClosed`, `RootIsThere`, `HistoryStays`, `DeleteDeletesAlone` |
| `remote` | two processes, three threads, three calls, two frames; two clients of a server that reopens its socket, or one client that makes every call | 338 thousand | `TypeOK`, `InTurns`, `NoPartsLeft`, `Implements`, `CallsEnd` |
| `operators` | every operator; two paths, three types, one change by others | 702 thousand | `TypeOK`, `Delivers`, `Fitting`, `EndsForAReason`, `Atomicity` |
| `transforms` | three frames, three lists, two stamps to load, three stamps of clouds, two jobs | 35 thousand | `StoredIsFound`, `Coherent`, `LatestIsLatest`, `CombineKeepsOthers`, `CombinesInside`, `AddingKeeps` |
| `entitydata` | two objects, two data, two files, two writes; symmetric | 556 thousand | `Regular`, `ReadYourWrites`, `StoreStays` |
| `tools` | two processes, two workspaces, three paths, data of a cloud or empty, stamps 1 and 2, two commits, two edits; symmetric | 5.4 million | `Tells`, `HistoryGrows` |
| `playback` | eight entities of which three are played, three instants, one deletion; fair | 294 thousand | `NoGaps`, `PlaysOut` |
| `viewer` | two workspaces, one changed and one empty or committed, three names, two paths, five acts; fair | 535 thousand | `ShowsNow`, `OperationEnds` |
| `tracking` | paths a, a/a, one commit | up to the violation | `SegmentsAreTracked`, refuted (section 5) |
| `blocked` | the paths of `deep`, any careful call | up to the violation | `CommitFindsChildren`, refuted (section 5) |

What the properties say:

- `Implements` (workspace): the refinement of `VersionedMap`. A commit records
  exactly the map its client saw, though it has moved every object by then, and
  every file operation in between leaves the map alone or is one map operation.
- `OnlyItsPath`: a call changes the map at its path or below it; a commit
  nowhere. It holds in `deep`, where three levels and a sibling let a walk that ends
  early lose the sibling: a client's call that ends so breaks it and is left out there
  by name (`Undisturbed`); the walks that a search nests in a deletion never do. `DeleteDeletes`, `StoreStores`: what is true when the call returns,
  after crashes too (`DeleteDeletesAlone`).
- `ReadsAgree`: `getEntity` answers from a transient file or from the reference,
  whichever it finds; stale files, which deletions and commits do leave, never
  make it disagree with the map.
- `HistoryStays`: no commit changes afterwards, as a reader sees it.
  `StoreClosed`: nothing in the store refers to what is not there.
  `RootIsThere`: the root named by any workspace object can be read, and the
  assertions of `workspaceimpl.h:225` and `:227` hold. `CommitFindsChildren`: the
  assertions of `repositoryimpl.cpp:198` and `:200`, in `deep` under the same
  exclusion; `blocked` drops it and finds the violation. `CallsReturn`: every call
  ends, but for a commit that comes to data of no bytes (section 5).
- `Implements` (requests): through time-outs, late replies and reopened sockets a
  call is executed at most once and gets its own answer. `InTurns` is why: what is
  under way for a connected process is what one of its threads waits for.
  `NoPartsLeft`: the assertion in `send` holds for clients that delete nothing and
  read all they ask for. `CallsEnd`: their calls end, whatever the server does.
- `Delivers`: success means data of the right type, made from the input.
  `Fitting`: no entity is left over another one's data. `EndsForAReason`: which
  operators may end their process, and when. `Atomicity`: above.
- `StoredIsFound`, `Coherent`, `LatestIsLatest`: the buffer finds what is stored
  in whatever order the list is, composition agrees with lookup, and "latest"
  means the latest time at which there is an answer. `CombineKeepsOthers`,
  `CombinesInside`, `AddingKeeps`: what tf-add and tf-combine promise.
- `Regular`: what an object reads was there to be read. `ReadYourWrites`.
  `StoreStays`: data in the store stay what their hash says if nobody wrote to
  the file while the commit was at it.
- `Tells`: log goes from child to parent without a gap, to the first commit or to
  one whose parent has the same stamp; diff shows each path of two roots, as
  different if something there or below is, and aborts only where there is a commit
  without root; an export to a destination that is there contains the data of a
  workspace of which nothing was committed. `HistoryGrows`: a workspace
  moves to children of its commit only, though two may create it at once.
- `NoGaps`, `PlaysOut`: what is played is an initial part, in order, without
  gaps; and all of it in the end.
- `ShowsNow`: when nothing is under way the viewer lists and shows the workspace as
  it is on disk, whichever switches, operators and late loaders went before. What the
  search passes over, committed entities, is not listed. One case is excepted, where
  the code breaks it: a handle that was opened while an operator was at work which had
  not yet written the root (`early`), and that has another root than the disk now.
  `OperationEnds`: a busy viewer becomes free.

Why the bounds are enough to be interesting. *Workspace:* two names give a tree
with a sibling beside it and below it, so that rewriting a tree can lose one;
three levels with a sibling are the least at which a walk that ends early loses one,
and `deep` has them; there the first child of the root is always a tree, one version
of meta and data suffices, and the second commit is one of entities alone. Excluded
in `deep` are, by name, a client's own call that ends at an entity and what follows
the assertion of line 333, since both break what it checks (`blocked`, `tracking`).
Two commits are needed to overwrite, extend and delete what is already committed;
with two versions of meta and data the two snapshots differ. One crash may strike
between any two file operations, and the calls afterwards meet what it left. Two
handles suffice for a stale copy, and a workspace that is deleted and made anew under
one of them for old files under a new object; in that instance one handle at a time
is open from the first commit on. *Requests:* two threads of a process contend for
the mutex while another process has its request in the queue; three calls let a
late reply meet the next call and the one after it; two frames are one read and
one left. *Operators:* one operator runs at a time on any entities, and one change
by others falls between any two of its steps. *Transforms:* a chain of three
frames needs composition and inverses, the third list gives a frame a second
parent; two stamps and clouds before, at, between and after them; a second job
meets what the first one wrote. *EntityData:* one object writes while the other
reads or keeps; two writes tell old from new. *Tools:* two commits of equal or
different stamps; two processes at once are two checkouts, or log beside commit
(`Beside`). *Playback:* three entities are two on a topic and one beside it, or a
list that ends before another; one static list has a transform and one has none.
*Viewer:* five acts are a name, a selection, an operator, and a switch away and back
while it is at work or a loader is late; the workspace it works in has no root yet, a
root by id or a transient one.

Fairness:

- `Workspace`: `WF_vars(CallStep(h))`. A call is a loop of one thread that waits
  for nobody. No client is made to begin a call.
- `Requests`: `WF_vars(ClientStep(t))`, nothing of the server: a receive ends by
  itself after five seconds (`zmqprotobufnode.cpp:122`), and a mutex that is free
  is taken.
- `Playback`: WF of the clock and of each topic's timers, which ROS calls back
  while the node spins.
- `Viewer`: WF of the threads that run (`Load`, `Operate`, `EndOperation`,
  `StartLoader`, `TellAgain`), SF of the delivery of events, since the event loop
  takes them whenever the GUI's thread has nothing else to do.

Deadlock is checked but in `remote`, `operators`, `transforms`, `playback` and
`viewer`, which stop when their bounded number of calls, the run, the jobs, the
player or the user's acts are over.

`PROJECT.json` maps definitions to about 30 % of the implementation's lines. The
rest is headers, the rendering and input of the viewer, the parts of tf2 that
mapit never calls, and `surface_reconstruction`, which the build leaves out.

## 4. Proofs

Every theorem below holds for all values of the constants: all sets of names,
paths, processes, threads, data, stamps, and all bounds.

| Module | Theorem | Statement |
|---|---|---|
| `WorkspaceProofs` | `Inductive` | `Spec => []IInv` |
| | `TypeCorrect` | `Spec => []TypeOK` |
| | `Closed` | `Spec => []StoreClosed` |
| | `RootStays` | `Spec => []RootIsThere` |
| | `CommittedStays` | `Asserts` implies `Spec => HistoryStays` |
| | `CommitsAreWhole` | `LoneSpec => [](333 \notin failed => CommitFindsChildren)` |
| | `StoringStores` | `AloneSpec => StoreStores` |
| | `DeletingDeletes` | `AloneSpec => DeleteDeletes` |
| `MapProofs` | `CallsKeepToTheirPath` | `LoneSpec /\ []SegmentsAreTracked => OnlyItsPath` |
| | `CommitRecordsTheMap` | `LoneSpec /\ []SegmentsAreTracked => [][CommitsRecord]_vars` |
| | `ReadsAreTheMap` | `Checked`, `~Drops` imply `LoneSpec /\ []SegmentsAreTracked => []ReadsAgree` |
| `RequestsProofs` | `Inductive` | `Spec => []IInv` |
| | `TypeCorrect` | `Spec => []TypeOK` |
| | `OneUnderWay` | `Spec => []InTurns` |
| | `AtMostOnceImplemented` | `Spec => Implements` |
| | `NothingLeft` | `Spec => []NoPartsLeft` |
| `OperatorsProofs` | `TypeCorrect` | `Spec => []TypeOK` |
| | `EndsHaveReasons` | `Spec => []EndsForAReason` |
| | `AllOrNothing` | `Spec => Atomicity` |
| | `SuccessDelivers` | `Spec => []Delivers` |
| | `SuccessFits` | `Spec => []Fitting` |
| `EntityDataProofs` | `StoredDataStays` | `Spec => []StoreStays` |
| | `WritesAreRead` | `Spec => []ReadYourWrites` |
| | `ReadsAreRegular` | `Spec => []Regular` |
| `TransformsProofs` | `ListsAreFormed` | `Spec => []Formed` |
| | `AddingLosesNothing` | `Spec => AddingKeeps` |
| | `StoredTransformsAreFound` | `Spec => []StoredIsFound` |
| | `CombiningCombines` | `Spec => []CombinesInside` |
| `ToolsProofs` | `HistoryIsOrdered` | `Spec => []Orders` |
| | `WorkspacesMoveOn` | `Spec => HistoryGrows` |
| | `ToolsTell` | `Spec => []Tells` |
| `ViewerProofs` | `RestsOnWhatIsThere` | `Spec => []ShowsNow` |

The assumptions are those of the modules. They say what kind of value a constant
is (bounds are numbers, paths are non-empty sequences of names and closed under
prefixes, each thread belongs to a process, only trees have something below them)
and that the marks for "nothing", "no data", "no file" are none of the values
they stand beside, as a null pointer or an empty string is none of the values of
the code. Seven theorems have one more, each because without it they are false
(section 5): `CommittedStays` the default setting `Asserts`; the others
specifications, `LoneSpec` and `AloneSpec`, that leave some steps out, those of
`MapProofs` that the assertion of line 333 has ended no process so far, and
`ReadsAreTheMap` also callers that look and workspaces that are not deleted. TLC
evaluates the assumptions in each run.

### WorkspaceProofs

`IInv == TypeOK /\ StoreClosed /\ RootInv`. The first two are nearly inductive:
a frame copies values that have a type, and what it holds keeps its type because
the store only grows. What they need is that the root tree read by `createPath`
and `commit` is never null; a null tree would have no type, and the program would
dereference it. It is read through a workspace object that may be stale, and the
root's file and the workspace object are written at different times, perhaps by
different handles. `RootInv` is the reason it works:

- every workspace object `Tracks`: a root by path is tracked, no root means
  nothing is tracked, a root by id is a tree of the store;
- a running call is either a commit on its own, or it has `mem[h].root = RootRef`
  and no commit below it;
- either the root's file is a tree, and then it stays one, because `StoreRoot`
  only replaces it and nothing removes it (the search gives the root no
  reference, so not even a commit does); or nothing has been written yet: the
  disk has no root, nothing is persisted, and each handle is at a point before
  its first `StoreRoot`.

`StoreRoot` comes before `SaveWorkspace` in every call, which makes the second
case turn into the first before anything can name the root.

`Closed` covers what no run does: builds without assertions, careless callers,
several handles, crashes and workspaces made anew over old files, at any depth.

`CommittedStays`: the map of a commit is read by going down from its root through
files and objects alike, as `getEntity` does. With assertions on, `StoreClosed`
says that a persisted tree refers to persisted objects only, so the descent never
comes to a file of the workspace, and what it meets never changes. The descent is
a recursive function; that it exists and is the only one is shown by induction
along the path.

`CommitsAreWhole`: `LoneSpec` is `Init` and the steps of `Next` in which no process
crashes, no two have the workspace open, and no call of a client comes to a segment
that is no tree (`BlockedBelowEntity`); calls without looking, deletions of trees,
workspaces deleted and made anew, and builds with and without assertions are in it.
Each of the three makes the assertion of line 198 fail when it is allowed, and so
does a call that the assertion of line 333 has ended halfway. In a build without
assertions 333 is never in `failed`, so that the theorem says more there.

`ChildInv` is the invariant on top of `IInv`. `Fits(F, q, tree)`: the references by
path in a tree at q lead to the children of q, and those are in the files F.
`Sound(F, Q)`: the trees in the files at Q fit. The difficulty is that the files are
not sound while a call runs: coming up, a walk has stored its leaf and not yet the
trees above; a search that deletes has removed what lies below a tree that still
refers to it, and runs a nested walk which rewrites these very trees; a commit
removes what it has persisted. What holds instead:

- a walk that goes down has read trees that fit sound files; one that comes up has
  `Sound(After(F, f, {}), Node)`: `After` is what the files will be when the trees in
  its hands have been written;
- for a search that deletes, the places on its stack are taken out of `After` as
  well: the walk under it will write no reference to them. What its nested walks
  write lies above the top of the stack, and so at places that the outer walk will
  overwrite or the search remove (`Beside`, `Below`);
- a commit has, for each child by path of each tree on its stack, one of four
  reasons: it is to be visited and its file is there, it has been recorded, it is
  the next tree on the stack, or it is the entity in `cur`. When nothing is left to
  visit on top of the stack only the second can be (`AllRecorded`). The files stay
  sound outside the trees in its hands, since what it removes is a child of one of
  those (`FileGoes`).

TLC checks `ChildInv` on one or two handles and up to three levels with siblings
(14 million states) and finds it where the theorem says.

`StoringStores` and `DeletingDeletes`: `AloneSpec` is `Init` and the steps of `Next`
in which no two processes have the workspace open and no call of a client comes to a
segment that is no tree. Crashes at any point, calls without looking, workspaces
deleted and made anew, and builds with and without assertions are in it. Neither
condition can be dropped: two processes overwrite each other's trees, and a blocked
call returns OK with nothing stored (section 5).

Nothing need be known of the files a call does not write, in whatever state a crash
has left them; `LeadInv` only follows the client's walk. Coming up from its leaf, it
has written the trees below the one in its hands, and each of them refers to the
next; a search that deletes runs while the walk below it is still at its last tree
(`Waits`), so whatever the search and its nested walks rewrite, the outer walk writes
over. When the root and the workspace object are written, the files along the path
are a `Trail`: trees from the root on, each referring to the next, the last one to
the leaf or to nothing. `TrailsTell` says what the map shows then. Going down another
path one leaves the trail or comes to its end; that the map, a recursive descent, is
determined by it is shown by induction along the path (`Followed`).

TLC finds no violation of `LeadInv` on one handle and three levels with a crash (all
states), and in the first 13 and 17 million states of two handles on siblings and of
two levels with data and two commits.

The file goes from facts about sequences and types (values keep their type when
the store grows), over what pushing, popping and replacing a frame does, to one
lemma per action, the step and the theorems; its last two parts have the same shape.

### MapProofs

The map is told by what one meets going down the references: `Met(q)` is empty, or
holds the one reference to what lies at q. Each step is then described by how the
references change. Three things make that possible:

- `Placed`: each tree of the workspace refers by path to its own children only. So a
  file that is written at q changes what is met below q and nothing else, and that
  only if one meets q by path (`ChangeSpares`).
- `WeaveInv`, about walks and searches. A walk reads the trees of its path, some
  transient and some committed, goes on for as long as it takes, and writes all of
  them. `Woven`: going down, each tree it has read shows what is met beside its path;
  coming up, so does each tree that is written and each file that will be
  overwritten. A search that deletes keeps walks of its own from harm by `Searched`:
  what it has yet to turn to is met by path, and what its nested walks rewrite lies
  above, on the outer walk's way, where that walk will write a tree that shows the
  same beside its path.
- `CommitInv`, about commits: `Rooted`, `Fresh` and `Moved` say where each object is
  while it moves, in a file, in the hands of the call, or in the store with its data.
  What one meets by path is what has been recorded for the path, or else the file.

`CallsKeepToTheirPath` follows step by step: what lies beside the path stays what was
met there, and when the last write lets one come to the new trees they show the same.
For `CommitRecordsTheMap` the recorded root is followed down beside the workspace's
root by induction along the path (`Unfolding`, `CommitShows`): what is met in one is
the id recorded for what is met in the other.

`ReadsAreTheMap`: a read looks for a file at its path before it asks the trees, so
there must be no entity's file that no reference leads to. `StrayInv` says so between
calls (`AllHeld`), and during one it says which files may stray: the entity that a
store has written before the trees above it; below a path that deleteTree works on,
what its search has yet to turn to (`Left`), the file at the path of a nested
deleteEntity that comes first; in a commit, what the search has yet to turn to or has
at hand. A caller that does not look leaves files below the entity it stores, and a
deleted workspace leaves all of them, hence the two further assumptions.

The condition `[]SegmentsAreTracked` cannot be dropped from any of the three: the assertion of line 333 ends
a call halfway, after a nested walk perhaps, and the next call then reads trees of
which some are written and some are not. Up to that point nothing is lost by it, since
a behaviour that has come so far may stop there. Without assertions it always holds.

### RequestsProofs

The refinement needs that whoever receives a reply receives its own. The reply
does not say whose it is, so `IInv` says where things may be:

- `Mutex`: a thread that is beyond `Lock` holds its process's mutex, so one is;
- `Alive`: a thread in a call runs, and receives from a socket that is connected;
- `OwnCall`: threads in a call have different numbers;
- `StaysOpen`: a thread's call is open until it has its answer;
- `Fresh`: what was not sent yet was not executed and is nowhere;
- `OnePlace`: a request is in the queue, at the server or answered, and executed
  once, on its way through the server;
- `Turns`: what is under way for a connected process is what the one thread that
  receives waits for.

A time-out would break `Turns`: the request stays under way and nobody waits.
That it does not is due to `connected_`: `TimeOut` disconnects for good, the
process never sends or receives again, and `Turns` speaks of connected ones. So
the theorem rests on a line of the source (`zmqprotobufnode.h:227`) that
looks like mere bookkeeping.

`NothingLeft` adds what a `Keeping` client has left to read: the frames of a reply
that is in its inbox or that the server is about to send are those its thread
will read, so nothing is unread when the next one sends.

### OperatorsProofs

A run interprets the program of its operator. Instead of one invariant per
operator and position, there are rules on programs that do not mention the
state: `Sane` (nothing is used that was not looked up), `Ending` (what may throw),
`Careful` (nothing fails after a change), `Writing` and `Using` (what is written
was opened for it and is of the type that was made). One lemma per operator goes
through its instructions. For the state there is one invariant per property, which
says what the instructions before the next one have led to; each action's lemma
uses the rule for the instruction that runs. An operator added to the library
needs a program and one lemma.

`AllOrNothing` is the refinement of `AtomicRun` for every operator but the
three that `Atomicity` excepts. Its invariant, `Undone`: either nothing has
changed since the run began, or what is left of the program cannot fail.

### EntityDataProofs

Nothing locks a file, so the invariant is about who may still write one.
`Quiet`: what was quiet when it was stored has no writer, and nobody gets one, since
`Made` says that no file is in use twice. `Mine`: between an object's write and its
next read nobody else writes, and the object keeps nothing else. `Seen`: a value
is read, kept or given only after it was there; `seen` stays finite.

### TransformsProofs

`IInv` says, over some set of stamped poses, what the files are: a file names
frames exactly if it holds transforms, no transform has the stamp 0, which asks for
the latest, and each pose is a word in which no neighbours cancel. `Formed` is what
of it speaks of the state alone. The lists are built by folds (which cloud comes
next, which transforms go); `FoldKeeps` turns "each step keeps what is in the list"
into "so does the loop".

`StoredTransformsAreFound` follows a stored transform through the buffer:

- into the cache of its frame. The lists are put into the caches one after the other,
  each transform at its place: a cache is sorted, the latest first, holds nothing but
  what was put (`Filled`, `Inserted`, `Pruned`), and keeps what is not older than
  `CacheTime` (`PutListIs`). Lists of other frames do not touch it (`PutOtherIs`);
- out of it: at the stamp of an entry, `findClosest` gives one with this stamp, and
  if it gives two the later one is later than the stamp, so that interpolation gives
  the older one (`FindClosestIs`, `GetDataFinds`);
- along the walk: `Upwards` is a recursive function, a chain in which each frame has
  the next one for its parent (`UpwardsIs`). The parent is the second on the chain of
  the source, so the walk gathers one pose, whatever lies above and whether there are
  loops (`LookupInParent`), and composing it with the identity leaves it as it is,
  since nothing in it cancels (`CancelledIs`). This needs `MaxDepth` to be at least 1.

For `CombiningCombines` the invariant `CombineFits` says what the last tf-combine did
to what was stored before it. What it leaves (`CombineLeaves`) has, at the stamp of an
input cloud, the new transform and no other one: the old ones from the first cloud to
the last are removed, what is kept just outside has other stamps, and the clouds have
different ones. So it is found, as above. Something must stay in the list: mapit
writes no frames and not whether it is static for a list that is empty, and the
additions are then refused (section 5).

Both properties speak of frames with one parent and lists that are not static, leave
out transforms of a frame to itself, which `setTransform` ignores, and what is older
than `CacheTime` before the latest of its list, which the cache drops.

### ToolsProofs

`Orders` (each commit was made from an earlier one) with `Fits` (what a tool has
read is still so, as the tools that may run beside it leave workspaces alone) gives
`HistoryGrows`. For `Tells`, `Says` follows each tool: the queue of `log` holds one commit
or none, and with it what was printed is a chain without a gap; what `diff` has
behind it has roots; what an export has not copied yet is listed still. That trees
lie above everything that is there (`Whole`) is what makes diff differ at a path
exactly if something differs at it or below. The search's queue is a map from stamps, which is
where log may lose a parent: the invariant has both ends.

### ViewerProofs

The invariant says what is under way as long as something is not shown as the GUI's
handle sees it: `BusyOnce`, `Lists`, `Shows`, and `Informs`, by which the information
of the selected entity is there, or in the last event of a loader, or what a running
loader will read, or a new loader is about to start. A late loader does no harm
because the next one starts only when it has ended.

That the GUI's handle sees what is on disk is `Fresh`. Only one operator writes at a
time, with the GUI's handle or an earlier one of the same workspace. In the second
case the GUI's leads to the transient root already, which is read anew each time, or
it was opened before that root was written. The latter is what `early` marks, a
record that only the property reads.

### Induction

The library's induction theorems take an operator as a parameter, which the
provers cannot instantiate. The modules that need induction go another way, over
sets: `Least` (a non-empty set of numbers has a least element), `Induction` from it,
and then, at the start of `WorkspaceProofs`, `TransformsProofs` and `ToolsProofs`,
what the model needs: that the recursive function of a definition exists
(`Recursion`) and is unique (`Unique`), that a fold over a sequence or a set of
positions is such a function (`FoldExists`), what holds along it (`FoldKeeps`,
`FoldGoesOn`, `FoldTurns`), and minima and maxima of finite sets of numbers
(`MinIs`, `MaxIs`).

### Checked by TLC and not proved

- Liveness, which is out of the prover's reach: `CallsReturn`, `CallsEnd`,
  `PlaysOut`, `OperationEnds`.
- `Implements`. The part of it that speaks of commits is `CommitRecordsTheMap`, and
  `CallsKeepToTheirPath`, `StoringStores` and `DeletingDeletes` say what the calls do
  at their path and beside it; that each step in between is an operation of
  `VersionedMap` or none is not proved. `DeleteDeletesAlone`, which speaks of an operator of its
  MC module, is `Deletes` on steps that `DeletingDeletes` speaks of.
- `Coherent`, `LatestIsLatest`, `CombineKeepsOthers`: the first two speak of whole
  chains of frames, and the walk ends by a bound on depth (`MaxDepth`) that real chains
  do not reach; the third also of times between two stamps, and that what lies between
  two interpolated poses lies on the same line is how `Interpolate` names its letters.
  They are stated for the instances they are checked on.
- `NoGaps`: the player sorts and filters with operators of the community modules
  whose definitions (`SelectSeq`, `SetToSortSeq`) the prover cannot expand.

## 5. Where the code and its statements disagree

Shown by a run:

- `tracking`: storing over a committed entity tracks it under a tree's place
  (`workspaceimpl.h:394`). After store, commit, edit, the next call that walks to
  the entity fails the assertion of line 333.
- `blocked`: a call that meets an entity on its way ends the walk early; the last tree
  collected becomes the root of the workspace, and the call returns OK
  (`workspaceimpl.h:350`, `:455`). With three levels and a sibling the other children
  are lost to the workspace, and since the references in the new root name the paths
  a/b and the like, a commit does not find them: store a/a, commit, store a/b, delete
  a/a/a, commit fails the assertion of `repositoryimpl.cpp:198`.

  Looking first does not keep operator `delete` from it. `objectReferenceForPath`
  (`workspaceimpl.cpp:363-387`) gives, when the way ends at an entity, the reference of
  that entity; `getEntity("a/a/a")` then answers the committed entity a/a
  (`:124-139`), and the operator calls `deleteEntity("a/a/a")`. It keeps a caller from
  storing below an entity (`Checked`). `deep` and `CommitsAreWhole` exclude by name a
  client's call that ends so; in `careful` (two levels) the walk rewrites the root as
  it is.

Seen while modelling; the models do what the code does, and the properties say
where they make an exception:

- A workspace created from a commit is empty: `createWorkspace` sets its parent and not
  its root (`repositoryimpl.cpp:87`), against `repository.h:89` ("creates a new
  workspace from a commit") and `:108`.
- Without assertions, the commits that `:198` would stop write references by path
  into stored trees, and what was committed then changes with the workspace: after a
  call that ended early at an entity, as above, and after a crash, as below.
  `CommittedStays` assumes `Asserts` for this reason, `StoreClosed` and `Closed` allow
  references by path when there are no assertions, and no run claims more of such
  builds.
- A deletion removes the file before the reference to it. After a crash between
  the two, the next commit persists some of the workspace, moves it away and then
  fails the assertion of `repositoryimpl.cpp:198`. With assertions off, it writes a
  path of the workspace into a stored tree.
- Data of no bytes makes `commit`, and `checkout2filesystem`, read zero bytes for
  ever (`fs_serializer.cpp:713-739`); `CallsReturn` excepts it.
- "If one of the callbacks returns false, all other descending callbacks are
  skipped" (`workspacecommon.h:139-141`): the search goes on, and an operator on a
  tree returns the status of the last entity. `StopsAtFailure` in `Operators`
  states the comment; it does not hold.
- tf-combine's example (`reg_local/src/main.cpp:63-82`) names the transforms at the
  clouds "the new transforms * old transforms" (`:77-78`); the code composes in the
  other order, the old one first (`reg_local.cpp:379`). `CombinesInside` states what
  the code does. The times of the example are right unless the clouds cover all that is
  stored: then the list is written as an empty file, which is read as a list without
  frames, and what is added is refused. `CombinesInside` says so (`LeavesSome`).
- The viewer may rest on a stale list. The user starts an operator in a workspace whose
  root is not transient yet, and switches away and back, or reloads the repository,
  before the operator's first write: the new handle has the old root,
  `operationExecuted` (`qmlworkspace.cpp:291-299`) lists through it and does not open
  another one. `ShowsNow` excepts just this (`early`).
- The viewer does not list committed entities: its search looks a committed child up
  under its id as if that were a path of the workspace (`depthfirstsearch.cpp:83-111`),
  and passes over it. Its tree of paths has an item for it. The data of a committed
  entity are looked for under the entity's own id (`workspaceimpl.cpp:204`) and read
  as "hollow", not as what was committed.
- "There must be no parts left, before another request reply pair is started"
  (`zmqprotobufnode.h:130`): the reply to `getStreamSize` has frames that nobody
  reads, so the next send fails its assertion. `NoPartsLeft` and `CallsEnd` speak
  of `Keeping` clients.
- `setData` of a bounding box ignores its argument and writes what was there.
- `ZmqRequester::listWorkspaceNames` (`zmqrequester.cpp:60`) resizes and then
  appends, so half of its names are empty.

## 6. What the models leave out, and what they keep

*Workspace.* A file operation is atomic and succeeds: no torn writes, no full disk
(`fs_write` never looks at its stream, `fs_serializer.cpp:149`).
`storeTree` has no caller: the leaf of a store is always an entity. Calls on the
path `/` are not modelled. `removeEntityTransient` removes two files in one step.
Siblings are searched in any order; the code sorts them (`depthfirstsearch.cpp:73-77`),
so its behaviours are some of the model's. A place outside
`Path` is not looked at. Every commit is a new object. Branches: the code never
advances one; `merge` is a stub.

*Requests.* One workspace and one path; a message is a kind, not its fields. ZeroMQ
delivers or does not: a reconnecting socket sends nothing twice.

*Operators.* Values of parameters and what is computed. A search passes over what
is only in the store, as the code does.

*Transforms.* No type invariant: poses are unbounded words. Stamps are at least 2
(0 means "latest", and the instant before each stamp is asked for, too), clouds are not empty,
rounding is left out, and what is interpolated between two poses is a letter of its
own. An ICP that fails in tf-combine changes nothing. Transformable
requests, `clear`, `chainAsVector` and the YAML and Dot output of tf2 have no
caller in mapit.

*EntityData.* Kept because clients meet it: moved files keep their open writers
(hence `quiet` in `StoreStays`), two of the classes keep what they read, an asset
that was read once reads hollow the second time. A list of
transforms that was written is taken out of the object that wrote it, and writing it
again in place follows a null pointer when the file is cut already
(`SetTransformsFails`; `tflayer.cpp:73-77`). Left out: the asset's `setData` returns a
status it never set, which nobody uses, and readers and writers of las leak. `size()`
of `FloatGridEntitydata` and of `PointcloudEntitydata` lacks a return; only
`checkout2filesystem` calls it (`main.cpp:117`), and `Tools` models what follows.

*Tools.* Commits, operators and listings are one step; only `Beside` runs at once.
Kept: log loses a parent that has its child's stamp; a commit without root makes
diff abort for it and all its descendants; the loser of a race of two checkouts
reports success; an export of a point cloud or a grid asks for a size that is never returned,
and so reads for ever, ends, or copies (`NoSize`); the export of a committed entity holds the entity message
(`fs_serializer.cpp:625`), that of an edited one nothing (`workspaceimpl.cpp:190`),
and entities at the root are lost if the destination does not exist yet. With
`--url`, commit and diff meet `assert(false)` and log a null pointer.

*Playback.* Publishing at once is one step. Kept: of two entities with one stamp
the second is dropped (`publishtoros.h:52`); the timer of a topic's transforms
stops for all lists when one has ended (`publishtfs.cpp:94-97`); publishing a cloud
that was deleted dereferences null (`publishpointclouds.cpp:34-36`); with nothing to
publish main looks at the begin of an empty list (`main.cpp:246`). `PlaysOut` says
what is left.

*Viewer.* The GUI's reads of a workspace are atomic, all entities are children of the
root, and nobody commits meanwhile. Kept: each handle has a copy of the workspace
object; an operator may meet the assertion that what is transient is tracked
(`OperateUntracked`); a loader that fails tells
nobody, so `isLoading` stays; a late `setInfo` of the previous loader is there; a
workspace that is named before the repository is loaded ends the process; data that
no information can be extracted from may end it (`LoadBreaks`). Not modelled: `Viewport` and
`RenderThread` (no QML type registers them), input devices, geometry,
`QmlRepositoryServer`.

*Not modelled at all:* `surface_reconstruction` (removed by its CMake file),
`databasedump` and `commandlinetool` (not built), the parts of `visualization` that
need a headset, library loading, hashing, conversions of third-party formats,
parsers of bag, las and mesh files: pure input, output or computation. The list
with reasons is in `PROJECT.json` under `components`.

## 7. What is left

In the order of what it would add:

1. On `WeaveInv`, `StrayInv` and `CommitInv`, the refinement of `VersionedMap` step by
   step.
2. `NoGaps` of the player, with its lists kept as functions instead of filtered
   sequences.
3. A disk that fills up: `fs_write` that writes nothing and says so to nobody.
4. Checkouts by the network: `Workspace` under the handlers of `Requests`.
5. Histories with merges, once the code has them.
