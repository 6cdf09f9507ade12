--------------------------------- MODULE Tools ---------------------------------
(***************************************************************************)
(* The command-line tools (tools/checkout, commit, execute, ls, log, diff, *)
(* checkout2filesystem) on one local repository, with the searches of the  *)
(* history that log and diff are made of.                                  *)
(*                                                                         *)
(* A tool is a process of its own: it reads its options, opens the         *)
(* repository, works and exits.  Two tools may run at once, but a user     *)
(* starts no two on one workspace of which one looks into its files; what  *)
(* happens then is the subject of module Workspace.  A commit and an       *)
(* operator are single steps here; Workspace and Operators take them       *)
(* apart.                                                                  *)
(***************************************************************************)
EXTENDS Naturals, Sequences, SequencesExt, FiniteSets, FiniteSetsExt, Functions

CONSTANTS
  None,        \* nothing
  Tool,        \* processes
  Master,      \* the branch, which has no commit and never gets one
  Unknown,     \* what is neither a branch, a commit nor a workspace
  Name,        \* names of workspaces
  Walk,        \* all paths, in the order in which a search comes by them
  Folder,      \* the paths that are trees
  Data,        \* what the data of an entity may be
  NoBytes,     \* the data that are empty
  Unsized,     \* the data of point clouds and grids
  NoData,      \* stands for the data of an entity that was never given any
  Time,        \* stamps of commits
  MaxCommits,  \* bound: commits
  MaxEdits      \* bound: operators

PathsOfWalk == Range(Walk)
Segment == UNION {Range(p) : p \in PathsOfWalk}

(* Only trees have something below them. *)
ASSUME WalkAssumption ==
    /\ Walk \in Seq(PathsOfWalk) /\ Folder \subseteq PathsOfWalk
    /\ PathsOfWalk \subseteq Seq(Segment) \ {<<>>}
    /\ \A p, q \in PathsOfWalk : IsStrictPrefix(p, q) => p \in Folder
ASSUME NameAssumption == \A n \in Name : n \notin Nat
ASSUME DataAssumption == NoData \notin Data /\ Unsized \subseteq Data
ASSUME TimeAssumption == Time \subseteq Nat \ {0}
ASSUME BoundAssumption == MaxCommits \in Nat /\ MaxEdits \in Nat

Tree == [is |-> "tree"]

ASSUME NoneAssumption == None # Tree

(* An entity: its data, and where they lie: in the workspace, in the store *)
(* of the repository, or in no file, since the entity was written without  *)
(* them.                                                                   *)
EntityOf(data, where) == [is |-> "entity", data |-> data, where |-> where]

IsEntity(node) == node \notin {None, Tree}

VARIABLES
  commits,     \* [stamp, parent, root]; 0 is the parent of a first commit
  workspaces,  \* the files workspaces/<name>: [parent, root], or None
  tools,       \* what each process does or has done
  edits        \* operators that were run

vars == <<commits, workspaces, tools, edits>>

Commit == 1..Len(commits)

-----------------------------------------------------------------------------
(* Commands and how they end.                                              *)

Commands ==
    [cmd : {"checkout"}, name : Name, ref : {Master, Unknown} \union Commit]
    \union [cmd : {"commit", "execute", "export"}, name : Name]
    \union [cmd : {"ls"}, name : Name, from : {<<>>} \union Folder, recursive : BOOLEAN]
    \union [cmd : {"lsAll"}, recursive : BOOLEAN]
    \union [cmd : {"log"}, ref : {Unknown} \union Name \union Commit]
    \union [cmd : {"diff"}, from : {Unknown} \union Commit, to : Commit]

Runs(t, cmd, step) == tools[t].does.cmd = cmd /\ tools[t].step = step

(* What new tells, and otherwise what old does. *)
Over(new, old) ==
    [f \in DOMAIN new \union DOMAIN old |-> IF f \in DOMAIN new THEN new[f] ELSE old[f]]

At(x, value) == [y \in {x} |-> value]

Goes(t, state) == tools' = [tools EXCEPT ![t] = Over(state, @)]

Ends(t, how) == tools' = [tools EXCEPT ![t] = Over(how, [does |-> @.does])]

Exits(t, code, out) == Ends(t, [step |-> "end", code |-> code, out |-> out])

(* A null pointer or an exception nobody catches, or an assertion. *)
Crashes(t) == Ends(t, [step |-> "crash"])
Aborts(t) == Ends(t, [step |-> "abort"])

Idle == [does |-> [cmd |-> "nothing"], step |-> "idle"]

(* Bound: what is started while another tool runs. *)
Beside(c, d) ==
    \/ c.cmd = "checkout" /\ d.cmd = "checkout"
    \/ c.cmd = "log" /\ d.cmd = "commit"

Invoke(t) ==
    /\ tools[t] = Idle
    /\ \E c \in Commands :
          /\ \A u \in Tool \ {t} : tools[u] = Idle \/ Beside(c, tools[u].does)
          /\ c.cmd = "execute" => edits < MaxEdits
          /\ tools' = [tools EXCEPT ![t] = [does |-> c, step |-> "open"]]
    /\ UNCHANGED <<commits, workspaces, edits>>

IsGone(t) ==
    /\ tools[t].step \in {"end", "crash", "abort"}
    /\ tools' = [tools EXCEPT ![t] = Idle]
    /\ UNCHANGED <<commits, workspaces, edits>>

(* program_options throws when an option is missing or unknown.  Some of   *)
(* the tools catch that.  "--help" ends every tool.                        *)
CatchesOptions == {"ls", "lsAll", "log", "diff"}

BadOptions(t) ==
    /\ tools[t].step = "open"
    /\ \/ Exits(t, 1, None)
       \/ tools[t].does.cmd \notin CatchesOptions /\ Crashes(t)
    /\ UNCHANGED <<commits, workspaces, edits>>

(* openRepository returns a null pointer when a directory and a url are    *)
(* given, and no tool looks at it.  With neither it opens the directory    *)
(* the tool was started in.                                                *)
NoRepository(t) ==
    /\ tools[t].step = "open"
    /\ Crashes(t)
    /\ UNCHANGED <<commits, workspaces, edits>>

(* A remote repository ("--url") gives nothing of the store and knows no   *)
(* commits: the functions that would are assertions.                       *)
AsksForObjects == {"diff"}
ChangesHistory == {"commit"}

(* Its workspaces are made without asking for them, and have no rolling    *)
(* commit: log follows a null pointer.                                     *)
RemoteFails(t) ==
    /\ tools[t].step = "open"
    /\ tools[t].does.cmd \in AsksForObjects \union ChangesHistory \union {"log"}
    /\ Crashes(t)
    /\ UNCHANGED <<commits, workspaces, edits>>

-----------------------------------------------------------------------------
(* checkout                                                                *)

(* createWorkspace looks for the workspace, and then for the branch or the *)
(* commit.                                                                 *)
CheckoutLooks(t) ==
    LET c == tools[t].does
    IN  /\ Runs(t, "checkout", "open")
        /\ IF workspaces[c.name] # None \/ c.ref = Unknown
           THEN Exits(t, 1, None)
           ELSE Goes(t, [step |-> "create", parent |-> IF c.ref = Master THEN 0 ELSE c.ref])
        /\ UNCHANGED <<commits, workspaces, edits>>

OverwriteFile(name, content) ==                    \* mutant: the file is replaced
    workspaces' = [workspaces EXCEPT ![name] = content]

(* createworkspaceCommit: a file that is there by now is left as it is,    *)
(* and the tool reports success all the same.                              *)
CreateFile(name, content) ==
    workspaces' = [workspaces EXCEPT ![name] = IF @ = None THEN content ELSE @]

CheckoutCreates(t) ==
    /\ Runs(t, "checkout", "create")
    /\ CreateFile(tools[t].does.name, [parent |-> tools[t].parent, root |-> None])
    /\ Exits(t, 0, None)
    /\ UNCHANGED <<commits, edits>>

-----------------------------------------------------------------------------
(* commit                                                                  *)

(* getWorkspace, by the tools that exit with 1 if there is none.           *)
OpenWorkspace(t) ==
    LET c == tools[t].does
    IN  /\ tools[t].step = "open" /\ c.cmd \in {"commit", "execute", "export", "ls"}
        /\ IF workspaces[c.name] = None
           THEN Exits(t, 1, None)
           ELSE Goes(t, [step |-> "work", seen |-> workspaces[c.name]])
        /\ UNCHANGED <<commits, workspaces, edits>>

Persistent(node) == IF IsEntity(node) THEN [node EXCEPT !.where = "store"] ELSE node

PersistentRoot(root) ==
    IF root = None THEN None ELSE [p \in PathsOfWalk |-> Persistent(root[p])]

(* The workspace without a root is committed without a root. *)
CommitOf(stamp, workspace) ==
    [stamp |-> stamp, parent |-> workspace.parent, root |-> PersistentRoot(workspace.root)]

(* createCommit: the id of a commit is its hash; a second one that is      *)
(* equal in everything is the first.                                       *)
WithCommit(commit) ==
    IF commit \in Range(commits) THEN commits ELSE Append(commits, commit)

CommitWorks(t) ==
    /\ Runs(t, "commit", "work")
    /\ \E stamp \in Time :
          LET commit == CommitOf(stamp, tools[t].seen)
              id == CHOOSE i \in DOMAIN WithCommit(commit) : WithCommit(commit)[i] = commit
          IN  /\ Len(WithCommit(commit)) <= MaxCommits
              /\ commits' = WithCommit(commit)
              /\ workspaces' = [workspaces EXCEPT ![tools[t].does.name] =
                                   [parent |-> id, root |-> commit.root]]
              /\ Exits(t, 0, None)
    /\ UNCHANGED edits

-----------------------------------------------------------------------------
(* execute, with operators that load data, store an entity anew with its   *)
(* data (edit_entity) or with none (a loader that fails after it stored    *)
(* the entity), or delete one.  A file in the workspace stays where it is. *)

RootOf(workspace) ==
    IF workspace.root = None THEN [p \in PathsOfWalk |-> None] ELSE workspace.root

WithNode(root, path, node) ==
    [p \in PathsOfWalk |->
        IF p = path THEN node
        ELSE IF p \in Folder /\ IsStrictPrefix(p, path) THEN Tree ELSE root[p]]

Written(node) ==
    {EntityOf(d, "workspace") : d \in Data}
    \union (IF IsEntity(node) THEN {None} ELSE {})
    \union (IF IsEntity(node) /\ node.where = "workspace" THEN {node}
            ELSE {EntityOf(NoData, "nofile")})
    \union (IF IsEntity(node) /\ node.where # "workspace" THEN {EntityOf(node.data, "nofile")}
            ELSE {})

ExecuteWorks(t) ==
    LET name == tools[t].does.name
        root == RootOf(workspaces[name])
    IN  /\ Runs(t, "execute", "work")
        /\ \/ /\ \E p \in PathsOfWalk \ Folder : \E node \in Written(root[p]) :
                    workspaces' = [workspaces EXCEPT ![name].root = WithNode(root, p, node)]
              /\ Exits(t, 0, None)
           \/ UNCHANGED workspaces /\ Exits(t, 1, None)
        /\ edits' = edits + 1
        /\ UNCHANGED commits

-----------------------------------------------------------------------------
(* ls                                                                      *)

(* display_checkout: without recursion the search stops below the root; at *)
(* any other path it stops at that path itself.                            *)
Listing(root, from, recursive) ==
    LET Shown(p) ==
            /\ root[p] # None
            /\ \/ from = p
               \/ IsStrictPrefix(from, p) /\ (recursive \/ (from = <<>> /\ Len(p) = 1))
        Show(shown, p) == IF Shown(p) THEN Append(shown, p) ELSE shown
    IN  IF root = None \/ (from # <<>> /\ root[from] = None)
        THEN <<>> ELSE FoldLeft(Show, <<>>, Walk)

LsWorks(t) ==
    LET c == tools[t].does
    IN  /\ Runs(t, "ls", "work")
        /\ Exits(t, 0, Listing(workspaces[c.name].root, c.from, c.recursive))
        /\ UNCHANGED <<commits, workspaces, edits>>

(* Without a workspace: the names of all, and with recursion what is in    *)
(* them.                                                                   *)
LsAllWorks(t) ==
    LET there == {n \in Name : workspaces[n] # None}
    IN  /\ Runs(t, "lsAll", "open")
        /\ Exits(t, 0, [n \in there |-> IF tools[t].does.recursive
                                        THEN Listing(workspaces[n].root, <<>>, TRUE) ELSE <<>>])
        /\ UNCHANGED <<commits, workspaces, edits>>

-----------------------------------------------------------------------------
(* log: breadthFirstSearchHistory                                          *)

(* What the queue holds: a commit, or a workspace's rolling commit, which  *)
(* goes by the workspace's name and was never stamped.                     *)
Queued(id) ==
    IF id \in Name
    THEN [id |-> id, stamp |-> 0, parent |-> workspaces[id].parent]
    ELSE [id |-> id, stamp |-> commits[id].stamp, parent |-> commits[id].parent]

NoQueue == [stamp \in {} |-> <<>>]

(* The queue has a list of commits for each stamp. *)
Enqueue(queue, id) ==
    LET q == Queued(id)
        list == IF q.stamp \in DOMAIN queue THEN queue[q.stamp] ELSE <<>>
    IN  Over(At(q.stamp, Append(list, q)), queue)

Oldest(queue) == Min(DOMAIN queue)

WithParent(queue, q) == IF q.parent = 0 THEN queue ELSE Enqueue(queue, q.parent)

(* The commits of the oldest stamp are visited, from a copy of their list, *)
(* and their parents queued.  Then the list is erased, and with it a       *)
(* parent of the same stamp.                                               *)
Visited(queue) ==
    RestrictDomain(FoldLeft(WithParent, queue, queue[Oldest(queue)]),
                   LAMBDA stamp : stamp # Oldest(queue))

LogOpens(t) ==
    LET ref == tools[t].does.ref
    IN  /\ Runs(t, "log", "open")
        /\ IF ref = Unknown \/ (ref \in Name /\ workspaces[ref] = None)
           THEN Exits(t, 1, None)
           ELSE Goes(t, [step |-> "search", queue |-> Enqueue(NoQueue, ref), out |-> <<>>])
        /\ UNCHANGED <<commits, workspaces, edits>>

LogSearches(t) ==
    LET queue == tools[t].queue
    IN  /\ Runs(t, "log", "search")
        /\ IF queue = NoQueue
           THEN Exits(t, 0, tools[t].out)
           ELSE Goes(t, [queue |-> Visited(queue), out |-> tools[t].out \o queue[Oldest(queue)]])
        /\ UNCHANGED <<commits, workspaces, edits>>

-----------------------------------------------------------------------------
(* diff: depthFirstSearchHistory                                           *)

(* createTextMap: the text of a tree tells the ids of its children, so it  *)
(* differs wherever anything below differs; <<>> is the path of the root.  *)
TextMap(root) ==
    LET Below(p) == [q \in {x \in PathsOfWalk : IsPrefix(p, x) /\ root[x] # None} |-> root[q]]
    IN  [p \in {<<>>} \union {x \in PathsOfWalk : root[x] # None} |-> Below(p)]

(* The search visits the trees of the commit it was given and goes on to   *)
(* its ancestors, of which nothing is shown; but each of them must have a  *)
(* root.                                                                   *)
DiffOpens(t) ==
    /\ Runs(t, "diff", "open")
    /\ IF tools[t].does.from = Unknown
       THEN Exits(t, 1, None)
       ELSE Goes(t, [step |-> "from", visits |-> tools[t].does.from])
    /\ UNCHANGED <<commits, workspaces, edits>>

NeedsRoot(commit) == commit.root # None

NoText == [p \in {} |-> None]

Text(root, path) == IF path \in DOMAIN TextMap(root) THEN TextMap(root)[path] ELSE NoText

RemovedOnly(from, to) ==                           \* mutant: what is new is not shown
    [p \in DOMAIN TextMap(from) |-> <<Text(from, p), Text(to, p)>>]

(* Every path of the one or the other, with both of its texts. *)
Differences(from, to) ==
    [p \in DOMAIN TextMap(from) \union DOMAIN TextMap(to) |-> <<Text(from, p), Text(to, p)>>]

DiffSearches(t) ==
    LET c == tools[t].does
        commit == commits[tools[t].visits]
    IN  /\ \E step \in {"from", "to"} :
              /\ Runs(t, "diff", step)
              /\ CASE ~NeedsRoot(commit) -> Aborts(t)
                   [] NeedsRoot(commit) /\ commit.parent # 0 -> Goes(t, [visits |-> commit.parent])
                   [] NeedsRoot(commit) /\ commit.parent = 0 /\ step = "from" ->
                         Goes(t, [step |-> "to", visits |-> c.to])
                   [] OTHER -> Exits(t, 0, Differences(commits[c.from].root, commits[c.to].root))
        /\ UNCHANGED <<commits, workspaces, edits>>

-----------------------------------------------------------------------------
(* checkout2filesystem                                                     *)

NoFiles == [p \in {} |-> None]

(* The search comes to trees and entities in order.  The destination may   *)
(* be there already; nobody makes it but with the first tree below it.     *)
ExportStarts(t) ==
    /\ Runs(t, "export", "work")
    /\ \E there \in BOOLEAN :
          Goes(t, [step |-> "files", found |-> there, there |-> there, out |-> NoFiles,
                   todo |-> Listing(tools[t].seen.root, <<>>, TRUE)])
    /\ UNCHANGED <<commits, workspaces, edits>>

(* getEntitydataReadOnly of an entity in the workspace reads the data file *)
(* of the workspace, which may be missing; that of any other reads the     *)
(* file of the entity in the store, which holds the entity and no data.    *)
Message == "message"

BytesOf(entity) ==
    CASE entity.where = "workspace" -> entity.data
      [] entity.where = "nofile" -> NoData
      [] OTHER -> Message

ExportMakesTree(t) ==
    LET todo == tools[t].todo
    IN  /\ Runs(t, "export", "files")
        /\ todo # <<>> /\ Head(todo) \in Folder
        /\ Goes(t, [there |-> TRUE, todo |-> Tail(todo)])
        /\ UNCHANGED <<commits, workspaces, edits>>

(* The size() of point clouds and grids returns nothing: any number, or    *)
(* the end of the process.                                                 *)
NoSize(entity) == entity.data \in Unsized \union {NoData}

(* The file is read in pieces of at most its size, until one comes out     *)
(* short; pieces of no bytes never do.  A file that can't be created takes *)
(* everything and keeps nothing.                                           *)
ExportCopies(t) ==
    LET todo == tools[t].todo
        entity == tools[t].seen.root[Head(todo)]
        bytes == BytesOf(entity)
    IN  /\ Runs(t, "export", "files")
        /\ todo # <<>> /\ Head(todo) \notin Folder
        /\ \/ /\ bytes = NoBytes \/ NoSize(entity)
              /\ UNCHANGED tools
           \/ NoSize(entity) /\ Crashes(t)
           \/ /\ bytes # NoBytes \/ NoSize(entity)
              /\ Goes(t, [todo |-> Tail(todo),
                          out |-> IF tools[t].there
                                  THEN Over(At(Head(todo), bytes), tools[t].out)
                                  ELSE tools[t].out])
        /\ UNCHANGED <<commits, workspaces, edits>>

ExportEnds(t) ==
    /\ Runs(t, "export", "files")
    /\ tools[t].todo = <<>>
    /\ Exits(t, 0, [files |-> tools[t].out, of |-> tools[t].seen.root, found |-> tools[t].found])
    /\ UNCHANGED <<commits, workspaces, edits>>

-----------------------------------------------------------------------------
Init ==
    /\ commits = <<>>
    /\ workspaces = [n \in Name |-> None]
    /\ tools = [t \in Tool |-> Idle]
    /\ edits = 0

Step(t) ==
    \/ BadOptions(t) \/ NoRepository(t) \/ RemoteFails(t)
    \/ CheckoutLooks(t) \/ CheckoutCreates(t)
    \/ OpenWorkspace(t) \/ CommitWorks(t) \/ ExecuteWorks(t) \/ LsWorks(t) \/ LsAllWorks(t)
    \/ LogOpens(t) \/ LogSearches(t) \/ DiffOpens(t) \/ DiffSearches(t)
    \/ ExportStarts(t) \/ ExportMakesTree(t) \/ ExportCopies(t) \/ ExportEnds(t)

Next == \E t \in Tool : Invoke(t) \/ Step(t) \/ IsGone(t)

Spec == Init /\ [][Next]_vars

-----------------------------------------------------------------------------
(* Correctness.                                                            *)

Did(t, cmd) == tools[t].step = "end" /\ tools[t].does.cmd = cmd /\ tools[t].code = 0

(* A commit and all that it comes from. *)
Ancestors(id) ==
    LET from[i \in 0..Len(commits)] == IF i = 0 THEN {} ELSE {i} \union from[commits[i].parent]
    IN  from[id]

(* log shows what it was asked for and then parent after parent, down to a *)
(* first commit; it stops early only where a commit has the stamp of its   *)
(* parent (breadthFirstSearch.cpp:66).                                     *)
LogTells(t) ==
    LET shown == tools[t].out
    IN  /\ shown # <<>> /\ shown[1].id = tools[t].does.ref
        /\ \A i \in 2..Len(shown) : shown[i].id = shown[i - 1].parent
        /\ \/ Last(shown).parent = 0
           \/ commits[Last(shown).parent].stamp = Last(shown).stamp

(* diff comes to an end only if every commit the two come from has a root. *)
(* It shows each path of either, and what it shows of a path differs if    *)
(* and only if something there or below was changed.                       *)
DiffTells(t) ==
    LET c == tools[t].does
        shown == tools[t].out
        from == commits[c.from].root
        to == commits[c.to].root
    IN  /\ \A i \in Ancestors(c.from) \union Ancestors(c.to) : commits[i].root # None
        /\ \A p \in PathsOfWalk : p \in DOMAIN shown <=> {from[p], to[p]} # {None}
        /\ \A p \in DOMAIN shown :
              shown[p][1] # shown[p][2] <=> \E q \in PathsOfWalk : IsPrefix(p, q) /\ from[q] # to[q]

DiffFails(t) ==
    \E i \in Ancestors(tools[t].does.from) \union Ancestors(tools[t].does.to) : commits[i].root = None

(* checkout2filesystem writes out a workspace nothing of which was         *)
(* committed or stored without data, if its destination is there.          *)
ExportTells(t) ==
    LET root == tools[t].out.of
        entities == {p \in PathsOfWalk : root # None /\ IsEntity(root[p])}
    IN  /\ \A p \in entities : root[p].where = "workspace"
        /\ tools[t].out.found
        => tools[t].out.files = [p \in entities |-> root[p].data]

(* What the tools that read tell of the repository. *)
Tells ==
    \A t \in Tool :
        /\ Did(t, "log") => LogTells(t)
        /\ Did(t, "diff") => DiffTells(t)
        /\ Runs(t, "diff", "abort") => DiffFails(t)
        /\ Did(t, "export") => ExportTells(t)

(* A workspace that is there moves on from the commit it came from to a    *)
(* child of that commit, and never goes anywhere else: of two checkouts    *)
(* that both saw that there is no such workspace the second one leaves it  *)
(* as it is, though it reports success (repositoryimpl.cpp:52).            *)
HistoryGrows ==
    [][\A n \in Name : workspaces[n] # None =>
          LET old == workspaces[n].parent
              new == workspaces'[n].parent
          IN  new = old \/ (new # 0 /\ commits'[new].parent = old)]_vars

=============================================================================
