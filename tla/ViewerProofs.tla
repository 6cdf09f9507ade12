---------------------------- MODULE ViewerProofs ----------------------------
(***************************************************************************)
(* Proof about Viewer, for any workspaces, paths, data and number of       *)
(* things the user does: once nothing is under way, the viewer shows what  *)
(* is on disk, unless its handle is from before the first write of an      *)
(* operator that was at work when it was opened (ShowsNow).                *)
(*                                                                         *)
(* Loaders and operators answer late, so the invariant says what is under  *)
(* way as long as something is not shown as the GUI's handle sees it.  The *)
(* GUI is busy just while the operator runs or its event is on the way     *)
(* (BusyOnce); when it is not, nothing has changed since the workspace was *)
(* looked at (Lists, Shows), and the information of the selected entity is *)
(* there, or in the last event of a loader, or what the loader that runs   *)
(* will read, or a new loader is about to start (Informs).  What an        *)
(* earlier loader sends does no harm because a new one starts only when it *)
(* has ended, so that its event is not the last.                           *)
(*                                                                         *)
(* What the GUI's handle sees is what is on disk because only one operator *)
(* writes at a time (Fresh): with the GUI's own handle, or with an earlier *)
(* one of the same workspace, and then the GUI's leads to the transient    *)
(* root already, which is read anew, or it is from before that root.       *)
(***************************************************************************)
EXTENDS Viewer, TLAPS

-----------------------------------------------------------------------------
(* The inductive invariant.                                                *)

Root == {"none", "commit", "own"}
Ref == {"none", "id", "path"}
Info == Data \union {"hollow"}
Event == [kind : {"entityInfoLoaded"}, info : Info] \union [kind : {"operationExecuted"}]
Workspace == [name : Name \union {None}, open : Slot \union {None},
              entities : SUBSET Path, items : SUBSET Path, busy : BOOLEAN]
Entitydata == [connected : BOOLEAN, path : Path \union {None}, opened : BOOLEAN,
               shown : Info \union {None}, info : Info \union {None}, loading : BOOLEAN]

(* A handle that somebody has is there. *)
Held(s) == s # None => handles[s] \in Handle

TypeOK ==
    /\ stored \in [Stored -> Disk]
    /\ handles \in [Slot -> Handle \union {None}]
    /\ workspace \in Workspace
    /\ entitydata \in Entitydata
    /\ operation \in Operation \union {None}
    /\ loader \in Loader \union {None}
    /\ events \in Seq(Event)
    /\ calls \in Seq({"load", "repositoryChanged"})
    /\ Held(workspace.open)
    /\ operation # None => Held(operation.handle)
    /\ loader # None => Held(loader.handle)

Infos == {i \in 1..Len(events) : events[i].kind = "entityInfoLoaded"}
Ends == {i \in 1..Len(events) : events[i].kind = "operationExecuted"}

(* The GUI is busy while an operator runs or has told of its end. *)
BusyOnce ==
    /\ workspace.busy <=> (operation # None \/ Ends # {})
    /\ operation # None => Ends = {}
    /\ \A i, j \in Ends : i = j

Own == handles[workspace.open]

(* Only an operator that has an earlier handle of the same workspace makes *)
(* the copy of the root one that is not on disk.                           *)
Fresh ==
    workspace.open # None =>
      /\ Own.root = "own" => stored[Own.at].root = "own"
      /\ ~Own.early => Own.root = stored[Own.at].root
      /\ AtWork(Own.at) /\ operation.handle # workspace.open /\ ~Own.early => Own.root = "own"

(* While the GUI is not busy, nothing changes what was listed and read. *)
Lists ==
    ~workspace.busy /\ workspace.open # None =>
      workspace.entities = Search(Own) /\ workspace.items = SyncModel(Own)

Selected == ~workspace.busy /\ entitydata.connected /\ Has(workspace.open, entitydata.path)
Now == Seen(Own, entitydata.path)

Shows == Selected => entitydata.shown = Now

(* The information is about to be read, or is read, or was sent, or is there. *)
WillLoad == \E i \in 1..Len(calls) : calls[i] = "load"
Loads == loader # None
LoadsNow == Loads /\ loader.handle = workspace.open /\ loader.path = entitydata.path
SentNow == \E i \in Infos : events[i].info = Now /\ \A j \in Infos : j <= i
HasNow == Infos = {} /\ entitydata.info = Now /\ ~entitydata.loading

Informs == Selected => WillLoad \/ LoadsNow \/ (~Loads /\ (SentNow \/ HasNow))

IInv == TypeOK /\ BusyOnce /\ Fresh /\ Lists /\ Shows /\ Informs

-----------------------------------------------------------------------------
(* What the steps of the proof use of the types.                           *)

Call == {"load", "repositoryChanged"}

LEMMA Shape ==
  ASSUME TypeOK
  PROVE  /\ workspace.name \in Name \union {None} /\ workspace.open \in Slot \union {None}
         /\ workspace.busy \in BOOLEAN
         /\ entitydata.path \in Path \union {None} /\ entitydata.connected \in BOOLEAN
         /\ events \in Seq(Event) /\ calls \in Seq(Call)
BY DEF TypeOK, Workspace, Entitydata, Call

LEMMA RefsFit ==
  ASSUME stored \in [Stored -> Disk], NEW h \in Handle
  PROVE  RefsOf(h) \in [Path -> Ref]
<1>1. h.at \in Stored /\ h.root \in Root BY DEF Handle, Root
<1>2. stored[h.at].refs \in [Path -> Ref] BY <1>1 DEF Disk, Ref
<1>3. CASE h.root = "none" BY <1>3 DEF RefsOf, Ref
<1>4. CASE h.root = "commit" BY <1>4 DEF RefsOf, Ref
<1>5. CASE h.root = "own" BY <1>2, <1>5 DEF RefsOf
<1> QED BY <1>1, <1>3, <1>4, <1>5 DEF Root

LEMMA SeenFits ==
  ASSUME stored \in [Stored -> Disk], NEW h \in Handle, NEW p \in Path
  PROVE  Seen(h, p) \in Info \union {None}
<1>1. h.at \in Stored BY DEF Handle
<1>2. stored[h.at].files[p] \in Data \union {None} BY <1>1 DEF Disk
<1> QED BY <1>2 DEF Seen, Info

(* Where there is an entity, there is something to be read. *)
LEMMA Holds ==
  ASSUME TypeOK, NEW s \in Slot \union {None}, Held(s), NEW p \in Path \union {None}, Has(s, p)
  PROVE  s \in Slot /\ handles[s] \in Handle /\ p \in Path /\ Seen(handles[s], p) \in Info
<1>1. s \in Slot /\ p \in Path /\ handles[s] \in Handle /\ Seen(handles[s], p) # None
  BY DEF Has, Held
<1>2. Seen(handles[s], p) \in Info \union {None} BY <1>1, SeenFits DEF TypeOK
<1> QED BY <1>1, <1>2

LEMMA PathsThere == ASSUME NEW h PROVE Search(h) \in SUBSET Path /\ SyncModel(h) \in SUBSET Path
BY DEF Search, SyncModel

(* The slot of a new handle is nobody's but the GUI's. *)
LEMMA NewSlotFree ==
  /\ NewSlot \in Slot
  /\ operation # None => NewSlot # operation.handle
  /\ loader # None => NewSlot # loader.handle
<1> DEFINE a == IF operation # None THEN operation.handle ELSE 0
           b == IF loader # None THEN loader.handle ELSE 0
<1>1. \E s \in 1..3 : s # a /\ s # b
  <2>1. 1 \in 1..3 /\ 2 \in 1..3 /\ 3 \in 1..3 /\ 1 # 2 /\ 1 # 3 /\ 2 # 3 OBVIOUS
  <2> HIDE DEF a, b
  <2>2. CASE 1 # a /\ 1 # b BY <2>1, <2>2
  <2>3. CASE 1 = a BY <2>1, <2>3
  <2>4. CASE 1 = b BY <2>1, <2>4
  <2> QED BY <2>2, <2>3, <2>4
<1>2. \E s \in Slot : s \notin InUse BY <1>1 DEF Slot, InUse
<1>3. NewSlot \in Slot /\ NewSlot \notin InUse BY <1>2 DEF NewSlot
<1> QED BY <1>3 DEF InUse

LEMMA GetWorkspaceFits ==
  ASSUME TypeOK, NEW w \in Stored
  PROVE  GetWorkspace(w) \in Handle /\ GetWorkspace(w).at = w /\ GetWorkspace(w).root = stored[w].root
         /\ GetWorkspace(w).early = (AtWork(w) /\ stored[w].root # "own")
<1>1. stored[w].root \in Root /\ stored[w].tracked \in SUBSET Path BY DEF TypeOK, Disk, Root
<1>2. (AtWork(w) /\ stored[w].root # "own") \in BOOLEAN BY DEF AtWork
<1> QED BY <1>1, <1>2 DEF GetWorkspace, Handle, Root

-----------------------------------------------------------------------------
(* What is sent comes last, and what the GUI takes comes first.            *)

LEMMA AppendEvent ==
  ASSUME events \in Seq(Event), NEW e \in Event, Sent(e)
  PROVE  /\ events' \in Seq(Event)
         /\ Len(events') = Len(events) + 1
         /\ events'[Len(events) + 1] = e
         /\ \A i \in 1..Len(events) : events'[i] = events[i]
BY DEF Sent

LEMMA TailEvent ==
  ASSUME events \in Seq(Event), events # <<>>, events' = Tail(events)
  PROVE  /\ events' \in Seq(Event)
         /\ Len(events) = Len(events') + 1
         /\ Head(events) = events[1]
         /\ \A i \in 1..Len(events') : events'[i] = events[i + 1]
OBVIOUS

LEMMA InfosBy ==
  ASSUME events \in Seq(Event)
  PROVE  /\ \A i : i \in Infos <=> i \in 1..Len(events) /\ events[i].kind = "entityInfoLoaded"
         /\ \A i : i \in Ends <=> i \in 1..Len(events) /\ events[i].kind = "operationExecuted"
         /\ Len(events) \in Nat
BY DEF Infos, Ends

(* Taking the first event moves the others on by one. *)
LEMMA EndsMoveOn ==
  ASSUME events \in Seq(Event), events # <<>>, events' = Tail(events)
  PROVE  /\ \A i \in Ends' : i \in Nat /\ i + 1 \in Ends
         /\ \A i \in Ends : i # 1 => i - 1 \in Ends'
         /\ \A i \in Infos' : i \in Nat /\ i + 1 \in Infos
         /\ \A i \in Infos : i \in Nat /\ (i # 1 => i - 1 \in Infos')
<1>1. /\ events' \in Seq(Event) /\ Len(events) \in Nat /\ Len(events') \in Nat
      /\ Len(events) = Len(events') + 1
      /\ \A i \in 1..Len(events') : events'[i] = events[i + 1]
  BY TailEvent
<1>2. /\ \A i : i \in Infos' <=> i \in 1..Len(events') /\ events'[i].kind = "entityInfoLoaded"
      /\ \A i : i \in Ends' <=> i \in 1..Len(events') /\ events'[i].kind = "operationExecuted"
  BY DEF Infos, Ends
<1>3. ASSUME NEW i \in 1..Len(events') PROVE i \in Nat /\ i + 1 \in 1..Len(events)
  BY <1>1
<1>4. ASSUME NEW i \in 1..Len(events), i # 1
      PROVE  i - 1 \in 1..Len(events') /\ events'[i - 1] = events[i]
  <2>1. i \in Nat /\ i - 1 \in 1..Len(events') /\ (i - 1) + 1 = i BY <1>1, <1>4
  <2> QED BY <1>1, <2>1
<1>5. \A i \in 1..Len(events) : i \in Nat BY <1>1
<1>6. \A i \in Ends' : i \in Nat /\ i + 1 \in Ends BY <1>1, <1>2, <1>3, InfosBy
<1>7. \A i \in Ends : i # 1 => i - 1 \in Ends' BY <1>2, <1>4, InfosBy
<1>8. \A i \in Infos' : i \in Nat /\ i + 1 \in Infos BY <1>1, <1>2, <1>3, InfosBy
<1>9. \A i \in Infos : i \in Nat /\ (i # 1 => i - 1 \in Infos')
  BY <1>2, <1>4, <1>5, InfosBy
<1> QED BY <1>6, <1>7, <1>8, <1>9

-----------------------------------------------------------------------------
(* At first nothing is open, and a step that touches nothing of all this.  *)

LEMMA InitIInv == Init => IInv
<1> SUFFICES ASSUME Init PROVE IInv OBVIOUS
<1>1. stored \in [Stored -> Disk] /\ handles \in [Slot -> Handle \union {None}]
  BY StartAssumption DEF Init
<1>2. workspace \in Workspace /\ workspace.open = None /\ workspace.busy = FALSE
  BY DEF Init, Workspace
<1>3. entitydata \in Entitydata BY DEF Init, Entitydata
<1>4. operation = None /\ loader = None /\ events = <<>> /\ calls = <<>> BY DEF Init
<1>5. TypeOK BY <1>1, <1>2, <1>3, <1>4 DEF TypeOK, Held
<1>6. Ends = {} BY <1>4 DEF Ends
<1>7. BusyOnce BY <1>2, <1>4, <1>6 DEF BusyOnce
<1>8. ~Selected BY <1>2 DEF Selected, Has
<1> QED BY <1>2, <1>5, <1>7, <1>8 DEF IInv, Fresh, Lists, Shows, Informs

Watched == <<stored, handles, workspace, entitydata, operation, loader, events, calls>>

(* What is seen of the selected entity depends on what is on disk, on the  *)
(* handle and on the path.                                                 *)
LEMMA NowSame ==
  ASSUME UNCHANGED <<stored, handles, entitydata>>, workspace'.open = workspace.open
  PROVE  /\ Now' = Now
         /\ Has(workspace.open, entitydata.path)' <=> Has(workspace.open, entitydata.path)
BY DEF Now, Own, Seen, RefsOf, Has

LEMMA SameIInv ==
  ASSUME IInv, UNCHANGED Watched
  PROVE  IInv'
<1>1. /\ UNCHANGED <<stored, handles, workspace, entitydata>>
      /\ UNCHANGED <<operation, loader, events, calls>>
  BY DEF Watched
<1>2. TypeOK' BY <1>1 DEF IInv, TypeOK, Held
<1>3. Ends' = Ends BY <1>1 DEF Ends
<1>4. BusyOnce' BY <1>1, <1>3 DEF IInv, BusyOnce
<1>5. Fresh' BY <1>1 DEF IInv, Fresh, AtWork, Own
<1>6. Lists' BY <1>1 DEF IInv, Lists, Own, Search, SyncModel, RefsOf
<1>7. /\ Selected' <=> Selected
      /\ Now' = Now
  BY <1>1 DEF Selected, Now, Own, Has, Seen, RefsOf
<1>8. Shows' BY <1>1, <1>7 DEF IInv, Shows
<1>9. Infos' = Infos BY <1>1 DEF Infos
<1>10. Informs'
  BY <1>1, <1>7, <1>9 DEF IInv, Informs, WillLoad, Loads, LoadsNow, SentNow, HasNow
<1> QED BY <1>2, <1>4, <1>5, <1>6, <1>8, <1>10 DEF IInv

(* While neither the operator nor the events change, nor whether the GUI is *)
(* busy.                                                                    *)
LEMMA BusySame ==
  ASSUME BusyOnce, UNCHANGED <<operation, events>>, workspace'.busy = workspace.busy
  PROVE  BusyOnce'
BY DEF BusyOnce, Ends

-----------------------------------------------------------------------------
(* The workspace is looked at anew.                                        *)

LEMMA RereadFits ==
  ASSUME stored \in [Stored -> Disk], NEW h \in Handle, NEW ed \in Entitydata, ed.path \in Path
  PROVE  LET new == Reread(ed, h)
         IN  /\ new \in Entitydata /\ new.path = ed.path /\ new.connected = ed.connected
             /\ new.shown = Seen(h, ed.path) /\ (new.opened <=> Seen(h, ed.path) # None)
<1>1. Seen(h, ed.path) \in Info \union {None} BY SeenFits
<1> QED BY <1>1 DEF Reread, Entitydata

LEMMA RereadIs ==
  ASSUME stored \in [Stored -> Disk], NEW h \in Handle, NEW ed \in Entitydata, ed.path \in Path
  PROVE  LET new == UpdateInfo(Reread(ed, h))
         IN  /\ Reread(ed, h) \in Entitydata /\ new \in Entitydata
             /\ new.path = ed.path /\ new.connected = ed.connected
             /\ new.shown = Seen(h, ed.path)
             /\ Seen(h, ed.path) # None => LoadsFor(Reread(ed, h)) = <<"load">>
<1> DEFINE read == Reread(ed, h)
           new == UpdateInfo(read)
<1>1. /\ read \in Entitydata /\ read.path = ed.path /\ read.connected = ed.connected
      /\ read.shown = Seen(h, ed.path) /\ (read.opened <=> Seen(h, ed.path) # None)
  BY RereadFits
<1> HIDE DEF read
<1>2. /\ new \in Entitydata /\ new.path = read.path /\ new.connected = read.connected
      /\ new.shown = read.shown
  BY <1>1 DEF UpdateInfo, Entitydata
<1>3. read.opened => LoadsFor(read) = <<"load">> BY DEF LoadsFor
<1> QED BY <1>1, <1>2, <1>3 DEF read

LEMMA LoadFirst ==
  ASSUME NEW rest \in Seq(Call), NEW ed \in Entitydata
  PROVE  /\ LoadsFor(ed) \in Seq(Call)
         /\ LoadsFor(ed) \o rest \in Seq(Call)
         /\ LoadsFor(ed) = <<"load">> =>
               /\ 1 \in 1..Len(LoadsFor(ed)) /\ LoadsFor(ed)[1] = "load"
               /\ 1 \in 1..Len(LoadsFor(ed) \o rest) /\ (LoadsFor(ed) \o rest)[1] = "load"
<1>1. <<"load">> \in Seq(Call) /\ <<>> \in Seq(Call) BY DEF Call
<1>2. LoadsFor(ed) \in Seq(Call) BY <1>1 DEF LoadsFor
<1>3. ASSUME LoadsFor(ed) = <<"load">>
      PROVE  /\ 1 \in 1..Len(LoadsFor(ed)) /\ LoadsFor(ed)[1] = "load"
             /\ 1 \in 1..Len(LoadsFor(ed) \o rest) /\ (LoadsFor(ed) \o rest)[1] = "load"
  <2>1. Len(<<"load">>) = 1 /\ <<"load">>[1] = "load" OBVIOUS
  <2>2. Len(<<"load">> \o rest) = 1 + Len(rest) /\ (<<"load">> \o rest)[1] = "load" /\ Len(rest) \in Nat
    BY <1>1
  <2> QED BY <1>3, <2>1, <2>2
<1> QED BY <1>2, <1>3

(* The tree and the geometry are as the handle sees them now, and a loader *)
(* will start.                                                             *)
LEMMA LooksAnew ==
  ASSUME TypeOK, stored' = stored, NEW ws \in Workspace, NEW h, NEW rest \in Seq(Call),
         \/ ws.open = None /\ h = None
         \/ ws.open # None /\ h \in Handle /\ handles'[ws.open] = h,
         WorkspaceChanged(ws, h, rest)
  PROVE  /\ workspace' \in Workspace
         /\ workspace'.busy = ws.busy /\ workspace'.open = ws.open
         /\ entitydata' \in Entitydata
         /\ calls' \in Seq(Call)
         /\ Lists' /\ Shows' /\ (Selected' => WillLoad')
<1> DEFINE read == Reread(entitydata, h)
           entities == IF h = None THEN {} ELSE Search(h)
           items == IF h = None THEN {} ELSE SyncModel(h)
<1>1. /\ entitydata \in Entitydata /\ stored \in [Stored -> Disk]
      /\ entitydata.path \in Path \union {None}
  BY DEF TypeOK, Entitydata
<1>2. workspace' = [ws EXCEPT !.entities = entities, !.items = items] BY DEF WorkspaceChanged
<1>3. /\ workspace' \in Workspace /\ workspace'.busy = ws.busy /\ workspace'.open = ws.open
      /\ workspace'.entities = entities /\ workspace'.items = items
  <2>1. entities \in SUBSET Path /\ items \in SUBSET Path BY PathsThere
  <2> HIDE DEF entities, items
  <2> QED BY <1>2, <2>1 DEF Workspace
<1>4. ASSUME workspace'.open # None
      PROVE  h # None /\ h \in Handle /\ Own' = h
  BY <1>3, <1>4, NoneAssumption DEF Own
<1>5. RefsOf(h)' = RefsOf(h) BY DEF RefsOf
<1>6. /\ Search(h)' = Search(h) /\ SyncModel(h)' = SyncModel(h)
      /\ \A p : Seen(h, p)' = Seen(h, p)
  BY <1>5 DEF Search, SyncModel, Seen
<1>7. Lists'
  <2> SUFFICES ASSUME workspace'.open # None
               PROVE  workspace'.entities = Search(Own)' /\ workspace'.items = SyncModel(Own)'
    BY DEF Lists
  <2>1. Search(Own)' = Search(h) /\ SyncModel(Own)' = SyncModel(h)
    BY <1>4, <1>5 DEF Search, SyncModel, RefsOf
  <2> QED BY <1>3, <1>4, <2>1
<1>8. ASSUME Selected'
      PROVE  /\ h \in Handle /\ h # None /\ entitydata'.connected /\ entitydata'.path # None
             /\ Seen(h, entitydata'.path) # None /\ Now' = Seen(h, entitydata'.path)
  <2>1. workspace'.open # None /\ entitydata'.path # None /\ entitydata'.connected
    BY <1>8 DEF Selected, Has
  <2>2. Seen(Own, entitydata.path)' # None BY <1>8 DEF Selected, Has, Own
  <2>3. Seen(Own, entitydata.path)' = Seen(h, entitydata'.path)
    BY <1>4, <2>1 DEF Seen, RefsOf
  <2> QED BY <1>4, <2>1, <2>2, <2>3 DEF Now
<1>9. CASE h # None /\ Follows(entitydata)
  <2>0. h \in Handle /\ entitydata.path \in Path BY <1>1, <1>9 DEF Follows
  <2>1. entitydata' = UpdateInfo(read) /\ calls' = LoadsFor(read) \o rest
    BY <1>9 DEF WorkspaceChanged
  <2>2. /\ entitydata' \in Entitydata /\ entitydata'.path = entitydata.path
        /\ entitydata'.shown = Seen(h, entitydata.path)
        /\ Seen(h, entitydata.path) # None => LoadsFor(read) = <<"load">>
        /\ read \in Entitydata
    BY <1>1, <2>0, <2>1, RereadIs
  <2>4. calls' \in Seq(Call) BY <2>1, <2>2, LoadFirst
  <2>6. Shows' BY <1>8, <2>2 DEF Shows
  <2>7. Selected' => WillLoad' BY <1>8, <2>1, <2>2, LoadFirst DEF WillLoad
  <2> QED BY <1>3, <1>7, <2>2, <2>4, <2>6, <2>7
<1>10. CASE ~(h # None /\ Follows(entitydata))
  <2>1. entitydata' = entitydata /\ calls' = rest BY <1>10 DEF WorkspaceChanged
  <2>2. ~Selected' BY <1>8, <1>10, <2>1 DEF Follows
  <2> QED BY <1>1, <1>3, <1>7, <2>1, <2>2 DEF Shows
<1> QED BY <1>9, <1>10

(* Opening the workspace anew in a step in which nothing else happens. *)
LEMMA OpenKeeps ==
  ASSUME IInv, UNCHANGED <<stored, operation, loader, events>>,
         NEW ws \in Workspace, ws.busy = workspace.busy, NEW n, NEW rest \in Seq(Call),
         Open(ws, n, rest)
  PROVE  IInv'
<1>1. TypeOK /\ BusyOnce BY DEF IInv
<1>2. CASE n \in Stored
  <2> DEFINE new == GetWorkspace(n)
             opened == [ws EXCEPT !.open = NewSlot]
  <2>1. handles' = [handles EXCEPT ![NewSlot] = new] /\ WorkspaceChanged(opened, new, rest)
    BY <1>2 DEF Open
  <2>2. /\ new \in Handle /\ new.at = n /\ new.root = stored[n].root
        /\ new.early = (AtWork(n) /\ stored[n].root # "own")
    BY <1>1, <1>2, GetWorkspaceFits
  <2>3. /\ NewSlot \in Slot /\ NewSlot # None
        /\ operation # None => NewSlot # operation.handle
        /\ loader # None => NewSlot # loader.handle
    BY NewSlotFree, NoneAssumption
  <2> DEFINE slot == NewSlot
  <2>4. opened \in Workspace /\ opened.busy = workspace.busy /\ opened.open = slot
    BY <2>3 DEF Workspace
  <2> HIDE DEF new, slot, opened
  <2>5. handles \in [Slot -> Handle \union {None}] BY <1>1 DEF TypeOK
  <2>6. /\ handles' \in [Slot -> Handle \union {None}] /\ handles'[slot] = new
        /\ \A s \in Slot : s # slot /\ handles[s] \in Handle => handles'[s] = handles[s]
    BY <2>1, <2>2, <2>3, <2>5 DEF slot
  <2>7. /\ workspace' \in Workspace /\ workspace'.busy = workspace.busy /\ workspace'.open = slot
        /\ entitydata' \in Entitydata /\ calls' \in Seq(Call)
        /\ Lists' /\ Shows' /\ (Selected' => WillLoad')
    BY <1>1, <2>1, <2>2, <2>3, <2>4, <2>6, LooksAnew DEF slot
  <2>8. Held(workspace.open)' BY <2>2, <2>6, <2>7 DEF Held
  <2>9. operation # None => handles'[operation.handle] = handles[operation.handle]
    <3> SUFFICES ASSUME operation # None
                 PROVE  handles'[operation.handle] = handles[operation.handle]
      OBVIOUS
    <3>1. operation.handle \in Slot BY <1>1 DEF TypeOK, Operation
    <3> QED BY <2>1, <2>3, <2>5, <3>1
  <2>10. loader # None /\ loader.handle # None => handles'[loader.handle] = handles[loader.handle]
    <3> SUFFICES ASSUME loader # None, loader.handle # None
                 PROVE  handles'[loader.handle] = handles[loader.handle]
      OBVIOUS
    <3>1. loader.handle \in Slot BY <1>1 DEF TypeOK, Loader
    <3> QED BY <2>1, <2>3, <2>5, <3>1
  <2>11. /\ operation' # None => Held(operation.handle)'
         /\ loader' # None => Held(loader.handle)'
    BY <1>1, <2>9, <2>10 DEF TypeOK, Held
  <2>12. TypeOK' BY <1>1, <2>6, <2>7, <2>8, <2>11 DEF TypeOK, Call
  <2>13. BusyOnce' BY <1>1, <2>7, BusySame
  <2>14. Fresh'
    <3>1. Own' = new BY <2>6, <2>7 DEF Own
    <3>2. AtWork(n)' <=> AtWork(n) BY <2>9 DEF AtWork
    <3> QED BY <2>2, <3>1, <3>2 DEF Fresh, AtWork
  <2> QED BY <2>7, <2>12, <2>13, <2>14 DEF IInv, Informs
<1>3. CASE n \notin Stored
  <2> DEFINE opened == [ws EXCEPT !.open = None]
  <2>1. UNCHANGED handles /\ WorkspaceChanged(opened, None, rest) BY <1>3 DEF Open
  <2>2. opened \in Workspace /\ opened.busy = workspace.busy /\ opened.open = None
    BY DEF Workspace
  <2> HIDE DEF opened
  <2>3. /\ workspace' \in Workspace /\ workspace'.busy = workspace.busy /\ workspace'.open = None
        /\ entitydata' \in Entitydata /\ calls' \in Seq(Call)
        /\ Lists' /\ Shows' /\ (Selected' => WillLoad')
    BY <1>1, <2>1, <2>2, LooksAnew
  <2>4. TypeOK' BY <1>1, <2>1, <2>3 DEF TypeOK, Call, Held
  <2>5. BusyOnce' BY <1>1, <2>3, BusySame
  <2>6. Fresh' BY <2>3 DEF Fresh
  <2> QED BY <2>3, <2>4, <2>5, <2>6 DEF IInv, Informs
<1> QED BY <1>2, <1>3

(* Only what the GUI still does changes, and no loader is forgotten. *)
LEMMA CallsKeep ==
  ASSUME IInv, UNCHANGED <<stored, handles, workspace, entitydata, operation, loader, events>>,
         calls' \in Seq(Call), WillLoad => WillLoad'
  PROVE  IInv'
<1>1. TypeOK' BY DEF IInv, TypeOK, Call, Held
<1>2. BusyOnce' BY BusySame DEF IInv
<1>3. Fresh' BY DEF IInv, Fresh, AtWork, Own
<1>4. /\ Selected' <=> Selected
      /\ Now' = Now /\ Infos' = Infos
  BY DEF Selected, Now, Own, Has, Seen, RefsOf, Infos
<1>5. Lists' BY DEF IInv, Lists, Own, Search, SyncModel, RefsOf
<1>6. Shows' BY <1>4 DEF IInv, Shows
<1>7. Informs' BY <1>4 DEF IInv, Informs, Loads, LoadsNow, SentNow, HasNow
<1> QED BY <1>1, <1>2, <1>3, <1>5, <1>6, <1>7 DEF IInv

LEMMA RepositoryKeeps ==
  ASSUME IInv, UNCHANGED <<stored, operation, loader, events>>,
         NEW loaded, NEW rest \in Seq(Call),
         WillLoad => \E i \in 1..Len(rest) : rest[i] = "load",
         SetRepository(loaded, rest) \/ (UNCHANGED <<workspace, entitydata, handles>> /\ calls' = rest)
  PROVE  IInv'
<1>1. CASE UNCHANGED <<workspace, entitydata, handles>> /\ calls' = rest
  BY <1>1, CallsKeep DEF WillLoad
<1>2. CASE SetRepository(loaded, rest)
           /\ ~(UNCHANGED <<workspace, entitydata, handles>> /\ calls' = rest)
  <2>1. Open(workspace, workspace.name, rest) BY <1>2 DEF SetRepository
  <2>2. workspace \in Workspace BY DEF IInv, TypeOK
  <2> QED BY <2>1, <2>2, OpenKeeps
<1> QED BY <1>1, <1>2

-----------------------------------------------------------------------------
(* The user.                                                               *)

ToldAgain == <<"repositoryChanged">>

LEMMA SetUrlKeeps == ASSUME IInv, NEW opens \in BOOLEAN, SetUrl(opens) PROVE IInv'
<1> DEFINE rest == IF opens THEN ToldAgain ELSE <<>>
<1>1. UNCHANGED <<stored, operation, loader, events>> /\ calls = <<>> BY DEF SetUrl, Acts
<1>2. RepositoryChanged(repository.linked, opens, rest) BY DEF SetUrl, ToldAgain
<1>3. rest \in Seq(Call)
  <2>1. ToldAgain \in Seq(Call) /\ <<>> \in Seq(Call) BY DEF Call, ToldAgain
  <2> QED BY <2>1
<1>4. ~WillLoad BY <1>1 DEF WillLoad
<1>5. SetRepository(opens, rest) \/ (UNCHANGED <<workspace, entitydata, handles>> /\ calls' = rest)
  BY <1>2 DEF RepositoryChanged
<1> HIDE DEF rest
<1> QED BY <1>1, <1>3, <1>4, <1>5, RepositoryKeeps

LEMMA ReloadKeeps == ASSUME IInv, Reload PROVE IInv'
<1>1. UNCHANGED <<stored, operation, loader, events>> /\ calls = <<>> BY DEF Reload, Acts
<1>2. SetRepository(TRUE, <<>>) \/ (UNCHANGED <<workspace, entitydata, handles>> /\ calls' = <<>>)
  BY DEF Reload, RepositoryChanged
<1>3. ~WillLoad /\ <<>> \in Seq(Call) BY <1>1 DEF WillLoad
<1> QED BY <1>1, <1>2, <1>3, RepositoryKeeps

LEMMA LinkKeeps == ASSUME IInv, LinkRepository PROVE IInv'
<1>1. UNCHANGED <<stored, operation, loader, events>> /\ calls = <<>>
  BY DEF LinkRepository, Acts
<1>2. SetRepository(repository.loaded, <<>>) BY DEF LinkRepository
<1>3. ~WillLoad /\ <<>> \in Seq(Call) BY <1>1 DEF WillLoad
<1> QED BY <1>1, <1>2, <1>3, RepositoryKeeps

(* Only the name of the workspace changes. *)
LEMMA NameKeeps ==
  ASSUME IInv, NEW n \in Name, workspace' = [workspace EXCEPT !.name = n],
         UNCHANGED <<stored, handles, entitydata, operation, loader, events, calls>>
  PROVE  IInv'
<1>1. workspace \in Workspace BY DEF IInv, TypeOK
<1>2. /\ workspace' \in Workspace /\ workspace'.open = workspace.open
      /\ workspace'.entities = workspace.entities /\ workspace'.items = workspace.items
      /\ workspace'.busy = workspace.busy
  BY <1>1 DEF Workspace
<1>3. TypeOK' BY <1>2 DEF IInv, TypeOK, Held
<1>4. BusyOnce' BY <1>2, BusySame DEF IInv
<1>5. Fresh' BY <1>2 DEF IInv, Fresh, AtWork, Own
<1>6. /\ Selected' <=> Selected
      /\ Now' = Now /\ Infos' = Infos
  <2>1. Infos' = Infos BY DEF Infos
  <2> QED BY <1>2, <2>1, NowSame DEF Selected
<1>7. Lists' BY <1>2 DEF IInv, Lists, Own, Search, SyncModel, RefsOf
<1>8. Shows' BY <1>6 DEF IInv, Shows
<1>9. Informs' BY <1>2, <1>6 DEF IInv, Informs, WillLoad, Loads, LoadsNow, SentNow, HasNow
<1> QED BY <1>3, <1>4, <1>5, <1>7, <1>8, <1>9 DEF IInv

LEMMA SetNameKeeps == ASSUME IInv, NEW n \in Name, SetName(n) PROVE IInv'
<1>1. UNCHANGED <<stored, operation, loader, events>> /\ calls = <<>> BY DEF SetName, Acts
<1>2. CASE repository.linked
  <2> DEFINE ws == [workspace EXCEPT !.name = n]
  <2>1. Open(ws, n, <<>>) BY <1>2 DEF SetName
  <2>2. workspace \in Workspace BY DEF IInv, TypeOK
  <2>3. ws \in Workspace /\ ws.busy = workspace.busy BY <2>2 DEF Workspace
  <2>4. <<>> \in Seq(Call) OBVIOUS
  <2> HIDE DEF ws
  <2> QED BY <1>1, <2>1, <2>3, <2>4, OpenKeeps
<1>3. CASE ~repository.linked
  <2>1. workspace' = [workspace EXCEPT !.name = n] /\ UNCHANGED <<entitydata, calls, handles>>
    BY <1>3 DEF SetName
  <2> QED BY <1>1, <2>1, NameKeeps
<1> QED BY <1>2, <1>3

(* The selected entity is another, or the entity data hears of the workspace *)
(* from now on: if it is there, it is read and a loader will start.          *)
LEMMA SelectsAnew ==
  ASSUME IInv, UNCHANGED <<stored, handles, workspace, operation, loader, events>>,
         NEW ed \in Entitydata, entitydata' = UpdateInfo(ed), calls' = LoadsFor(ed),
         ed.connected /\ Has(workspace.open, ed.path) =>
            ed.shown = Seen(handles[workspace.open], ed.path) /\ ed.opened
  PROVE  IInv'
<1>1. /\ entitydata' \in Entitydata /\ entitydata'.path = ed.path
      /\ entitydata'.connected = ed.connected /\ entitydata'.shown = ed.shown
  BY DEF UpdateInfo, Entitydata
<1>2. /\ LoadsFor(ed) \in Seq(Call)
      /\ LoadsFor(ed) = <<"load">> => 1 \in 1..Len(LoadsFor(ed)) /\ LoadsFor(ed)[1] = "load"
  <2>1. <<>> \in Seq(Call) OBVIOUS
  <2> QED BY <2>1, LoadFirst
<1>3. TypeOK' BY <1>1, <1>2 DEF IInv, TypeOK, Call, Held
<1>4. BusyOnce' BY BusySame DEF IInv
<1>5. Fresh' BY DEF IInv, Fresh, AtWork, Own
<1>6. Lists' BY DEF IInv, Lists, Own, Search, SyncModel, RefsOf
<1>7. Selected' => ed.connected /\ Has(workspace.open, ed.path)
  BY <1>1 DEF Selected, Has, Seen, RefsOf
<1>8. Now' = Seen(handles[workspace.open], ed.path) BY <1>1 DEF Now, Own, Seen, RefsOf
<1>9. Shows' BY <1>1, <1>7, <1>8 DEF Shows
<1>10. Selected' => WillLoad' BY <1>2, <1>7 DEF WillLoad, LoadsFor
<1> QED BY <1>3, <1>4, <1>5, <1>6, <1>9, <1>10 DEF IInv, Informs

LEMMA ConnectKeeps == ASSUME IInv, Connect PROVE IInv'
<1> DEFINE h == handles[workspace.open]
           reads == entitydata.path # None /\ workspace.open # None
           read == IF reads THEN Reread(entitydata, h) ELSE entitydata
           ed == [read EXCEPT !.connected = TRUE]
<1>1. UNCHANGED <<stored, handles, workspace, operation, loader, events>> BY DEF Connect
<1>2. entitydata' = UpdateInfo(ed) /\ calls' = LoadsFor(ed) BY DEF Connect
<1>3. /\ stored \in [Stored -> Disk] /\ Held(workspace.open) /\ entitydata \in Entitydata
      /\ entitydata.path \in Path \union {None}
  BY DEF IInv, TypeOK, Entitydata
<1>4. /\ read \in Entitydata /\ read.path = entitydata.path
      /\ Has(workspace.open, entitydata.path) =>
            read.shown = Seen(h, entitydata.path) /\ read.opened
  <2>1. CASE reads
    <3>1. h \in Handle /\ entitydata.path \in Path BY <1>3, <2>1 DEF Held
    <3>2. /\ Reread(entitydata, h) \in Entitydata
          /\ Reread(entitydata, h).path = entitydata.path
          /\ Reread(entitydata, h).shown = Seen(h, entitydata.path)
          /\ Reread(entitydata, h).opened <=> Seen(h, entitydata.path) # None
      BY <1>3, <3>1, RereadFits
    <3> QED BY <2>1, <3>2 DEF Has
  <2>2. CASE ~reads BY <1>3, <2>2 DEF Has
  <2> QED BY <2>1, <2>2
<1>5. /\ ed \in Entitydata /\ ed.path = entitydata.path
      /\ Has(workspace.open, ed.path) => ed.shown = Seen(h, ed.path) /\ ed.opened
  <2> HIDE DEF read, h
  <2> QED BY <1>4 DEF Entitydata
<1> HIDE DEF ed
<1> QED BY <1>1, <1>2, <1>5, SelectsAnew

LEMMA SetPathKeeps ==
  ASSUME IInv, NEW p \in Path \union {None}, SetPath(p) PROVE IInv'
<1> DEFINE h == handles[workspace.open]
           there == entitydata.connected /\ Has(workspace.open, p)
           named == [entitydata EXCEPT !.path = p]
           ed == IF there THEN Reread(named, h) ELSE named
<1>1. UNCHANGED <<stored, handles, workspace, operation, loader, events>> BY DEF SetPath
<1>2. entitydata' = UpdateInfo(ed) /\ calls' = LoadsFor(ed) BY DEF SetPath
<1>3. /\ TypeOK /\ stored \in [Stored -> Disk] /\ Held(workspace.open)
      /\ entitydata \in Entitydata /\ workspace.open \in Slot \union {None}
  BY Shape DEF IInv, TypeOK
<1>4. named \in Entitydata /\ named.path = p /\ named.connected = entitydata.connected
  BY <1>3 DEF Entitydata
<1>5. /\ ed \in Entitydata
      /\ ed.connected /\ Has(workspace.open, ed.path) => ed.shown = Seen(h, ed.path) /\ ed.opened
  <2>1. CASE there
    <3>1. h \in Handle /\ p \in Path /\ Seen(h, p) # None BY <1>3, <2>1, Holds DEF Has
    <3> HIDE DEF named, h
    <3>2. /\ Reread(named, h) \in Entitydata /\ Reread(named, h).path = p
          /\ Reread(named, h).shown = Seen(h, p)
          /\ Reread(named, h).opened <=> Seen(h, p) # None
      BY <1>3, <1>4, <3>1, RereadFits
    <3> QED BY <2>1, <3>1, <3>2
  <2>2. CASE ~there
    <3> HIDE DEF named
    <3> QED BY <1>4, <2>2
  <2> QED BY <2>1, <2>2
<1> HIDE DEF ed
<1> QED BY <1>1, <1>2, <1>5, SelectsAnew

(* While the GUI is busy, nothing need be shown as it is. *)
LEMMA BusyKeeps ==
  ASSUME TypeOK', BusyOnce', Fresh', workspace'.busy
  PROVE  IInv'
BY DEF IInv, Lists, Shows, Informs, Selected

LEMMA DoOperationKeeps == ASSUME IInv, NEW writes \in Writes, DoOperation(writes) PROVE IInv'
<1>1. /\ workspace.open # None /\ ~workspace.busy
      /\ operation' = [handle |-> workspace.open, todo |-> writes]
      /\ workspace' = [workspace EXCEPT !.busy = TRUE]
      /\ UNCHANGED <<stored, handles, entitydata, loader, events, calls>>
  BY DEF DoOperation
<1>2. workspace \in Workspace /\ workspace.open \in Slot BY <1>1, Shape DEF IInv, TypeOK
<1>3. workspace' \in Workspace /\ workspace'.busy /\ workspace'.open = workspace.open
  BY <1>1, <1>2 DEF Workspace
<1>4. writes \in Todo BY WritesAssumption
<1>5. operation' \in Operation /\ operation' # None /\ operation'.handle = workspace.open
  BY <1>1, <1>2, <1>4, NoneAssumption DEF Operation
<1>6. TypeOK' BY <1>1, <1>3, <1>5 DEF IInv, TypeOK, Held
<1>7. Ends = {} /\ Ends' = Ends BY <1>1 DEF IInv, BusyOnce, Ends
<1>8. BusyOnce' BY <1>3, <1>5, <1>7 DEF BusyOnce
<1>9. Fresh' BY <1>1, <1>3, <1>5 DEF IInv, Fresh, Own
<1> QED BY <1>3, <1>6, <1>8, <1>9, BusyKeeps

-----------------------------------------------------------------------------
(* The thread of the GUI.                                                  *)

LEMMA TailCall ==
  ASSUME calls \in Seq(Call), calls # <<>>
  PROVE  /\ Tail(calls) \in Seq(Call)
         /\ Head(calls) # "load" /\ WillLoad => \E i \in 1..Len(Tail(calls)) : Tail(calls)[i] = "load"
<1>1. /\ Tail(calls) \in Seq(Call) /\ Len(calls) \in Nat /\ Len(Tail(calls)) = Len(calls) - 1
      /\ Head(calls) = calls[1]
      /\ \A i \in 1..Len(Tail(calls)) : Tail(calls)[i] = calls[i + 1]
  OBVIOUS
<1>2. ASSUME NEW i \in 1..Len(calls), calls[i] = "load", Head(calls) # "load"
      PROVE  \E j \in 1..Len(Tail(calls)) : Tail(calls)[j] = "load"
  <2>1. i # 1 BY <1>1, <1>2
  <2>2. i - 1 \in 1..Len(Tail(calls)) /\ (i - 1) + 1 = i BY <1>1, <2>1
  <2> QED BY <1>1, <1>2, <2>2
<1> QED BY <1>1, <1>2 DEF WillLoad

LEMMA StartLoaderKeeps == ASSUME IInv, StartLoader PROVE IInv'
<1>1. /\ UNCHANGED <<stored, handles, workspace, entitydata, operation, events>>
      /\ calls # <<>> /\ calls' = Tail(calls)
      /\ loader' = [handle |-> workspace.open, path |-> entitydata.path]
  BY DEF StartLoader, Goes
<1>2. calls' \in Seq(Call) BY <1>1, TailCall, Shape DEF IInv
<1>3. loader' \in Loader BY <1>1, Shape DEF IInv, Loader
<1>4. loader' # None BY <1>3, NoneAssumption
<1>5. TypeOK' BY <1>1, <1>2, <1>3 DEF IInv, TypeOK, Call, Held
<1>6. BusyOnce' BY <1>1, BusySame DEF IInv
<1>7. Fresh' BY <1>1 DEF IInv, Fresh, AtWork, Own
<1>8. Lists' /\ Shows'
  BY <1>1 DEF IInv, Lists, Shows, Selected, Now, Own, Search, SyncModel, Seen, RefsOf, Has
<1>9. LoadsNow' BY <1>1, <1>4 DEF LoadsNow, Loads
<1> QED BY <1>5, <1>6, <1>7, <1>8, <1>9 DEF IInv, Informs

LEMMA TellAgainKeeps == ASSUME IInv, TellAgain PROVE IInv'
<1>1. /\ UNCHANGED <<stored, operation, loader, events>>
      /\ calls # <<>> /\ Head(calls) = "repositoryChanged"
      /\ RepositoryChanged(repository.linked, repository.loaded, Tail(calls))
  BY DEF TellAgain, Goes
<1>2. /\ Tail(calls) \in Seq(Call)
      /\ WillLoad => \E i \in 1..Len(Tail(calls)) : Tail(calls)[i] = "load"
  BY <1>1, TailCall, Shape DEF IInv
<1>3. \/ SetRepository(repository.loaded, Tail(calls))
      \/ UNCHANGED <<workspace, entitydata, handles>> /\ calls' = Tail(calls)
  BY <1>1 DEF RepositoryChanged
<1> QED BY <1>1, <1>2, <1>3, RepositoryKeeps

(* What comes is the last that was sent, or not what is shown in the end. *)
LEMMA SetInfoKeeps == ASSUME IInv, SetInfo PROVE IInv'
<1>1. /\ UNCHANGED <<stored, handles, workspace, operation, loader, calls>>
      /\ calls = <<>> /\ events # <<>> /\ Head(events).kind = "entityInfoLoaded"
      /\ entitydata' = [entitydata EXCEPT !.info = Head(events).info, !.loading = FALSE]
      /\ events' = Tail(events)
  BY DEF SetInfo, Goes
<1>2. events \in Seq(Event) /\ entitydata \in Entitydata BY DEF IInv, TypeOK
<1>3. /\ events' \in Seq(Event) /\ Len(events) \in Nat /\ Len(events) = Len(events') + 1
      /\ Head(events) = events[1] /\ events[1] \in Event
      /\ \A i \in 1..Len(events') : events'[i] = events[i + 1]
  <2>1. /\ events' \in Seq(Event) /\ Len(events) = Len(events') + 1 /\ Head(events) = events[1]
        /\ \A i \in 1..Len(events') : events'[i] = events[i + 1]
    BY <1>1, <1>2, TailEvent
  <2>2. Len(events) \in Nat /\ events[1] \in Event BY <1>1, <1>2
  <2> QED BY <2>1, <2>2
<1>4. events[1].info \in Info BY <1>1, <1>3 DEF Event
<1>5. /\ entitydata' \in Entitydata
      /\ entitydata'.connected = entitydata.connected /\ entitydata'.path = entitydata.path
      /\ entitydata'.shown = entitydata.shown
      /\ entitydata'.info = events[1].info /\ ~entitydata'.loading
  BY <1>1, <1>2, <1>3, <1>4 DEF Entitydata
<1>6. TypeOK' BY <1>1, <1>3, <1>5 DEF IInv, TypeOK, Held
<1>7. /\ \A i \in Ends' : i \in Nat /\ i + 1 \in Ends
      /\ \A i \in Ends : i # 1 => i - 1 \in Ends'
      /\ \A i \in Infos' : i \in Nat /\ i + 1 \in Infos
      /\ \A i \in Infos : i \in Nat /\ (i # 1 => i - 1 \in Infos')
  BY <1>1, <1>2, EndsMoveOn
<1>8. 1 \in Infos /\ 1 \notin Ends
  <2>1. 1 \in 1..Len(events) BY <1>1, <1>2
  <2> QED BY <1>1, <1>2, <1>3, <2>1, InfosBy
<1>9. BusyOnce'
  <2>1. Ends = {} <=> Ends' = {} BY <1>7, <1>8
  <2>2. ASSUME NEW i \in Ends', NEW j \in Ends' PROVE i = j
    <3>1. i \in Nat /\ j \in Nat /\ i + 1 \in Ends /\ j + 1 \in Ends BY <1>7
    <3>2. i + 1 = j + 1 BY <3>1 DEF IInv, BusyOnce
    <3> QED BY <3>1, <3>2
  <2> QED BY <1>1, <2>1, <2>2 DEF IInv, BusyOnce
<1>10. UNCHANGED <<stored, handles, workspace, operation, loader>> BY <1>1
<1>11. entitydata'.connected = entitydata.connected /\ entitydata'.path = entitydata.path BY <1>5
<1>12. Lists' BY <1>10 DEF IInv, Lists, Own, Search, SyncModel, RefsOf
<1>13. Fresh' BY <1>10 DEF IInv, Fresh, AtWork, Own
<1>14. Selected' <=> Selected BY <1>10, <1>11 DEF Selected, Has, Seen, RefsOf
<1>15. Now' = Now BY <1>10, <1>11 DEF Now, Own, Seen, RefsOf
<1>16. /\ Selected' <=> Selected
       /\ Now' = Now
       /\ LoadsNow' <=> LoadsNow
       /\ Loads' <=> Loads
  BY <1>10, <1>11, <1>14, <1>15 DEF LoadsNow, Loads
<1>17. Shows' BY <1>5, <1>16 DEF IInv, Shows
<1>18. ~WillLoad /\ ~HasNow BY <1>1, <1>8 DEF WillLoad, HasNow
<1>19. SentNow => SentNow' \/ HasNow'
  <2>1. SUFFICES ASSUME NEW i \in Infos, events[i].info = Now, \A j \in Infos : j <= i
                 PROVE  SentNow' \/ HasNow'
    BY DEF SentNow
  <2>2. CASE i = 1
    <3>1. ASSUME NEW j \in Infos' PROVE FALSE
      <4>1. j \in Nat /\ j + 1 <= 1 BY <1>7, <2>1, <2>2
      <4>2. j \in 1..Len(events') BY DEF Infos
      <4> QED BY <4>1, <4>2
    <3> QED BY <1>5, <1>16, <2>1, <2>2, <3>1 DEF HasNow
  <2>3. CASE i # 1
    <3>1. i \in Nat /\ i - 1 \in Infos' /\ i \in 1..Len(events) BY <1>2, <1>7, <2>3, InfosBy
    <3>2. events'[i - 1] = events[i]
      <4>1. i - 1 \in 1..Len(events') /\ (i - 1) + 1 = i BY <1>3, <2>3, <3>1
      <4> QED BY <1>3, <4>1
    <3>3. \A j \in Infos' : j <= i - 1
      <4>1. TAKE j \in Infos'
      <4>2. j \in Nat /\ j + 1 <= i BY <1>7, <2>1
      <4> QED BY <3>1, <4>2
    <3> QED BY <1>16, <2>1, <3>1, <3>2, <3>3 DEF SentNow
  <2> QED BY <2>2, <2>3
<1>20. Informs' BY <1>16, <1>18, <1>19 DEF IInv, Informs
<1> QED BY <1>6, <1>9, <1>12, <1>13, <1>17, <1>20 DEF IInv

LEMMA OperationExecutedKeeps == ASSUME IInv, OperationExecuted PROVE IInv'
<1> DEFINE ws == [workspace EXCEPT !.busy = FALSE]
           h == IF workspace.open = None THEN None ELSE handles[workspace.open]
<1>1. /\ UNCHANGED <<stored, handles, operation, loader>>
      /\ calls = <<>> /\ events # <<>> /\ Head(events).kind = "operationExecuted"
      /\ events' = Tail(events)
      /\ WorkspaceChanged(ws, h, <<>>)
  BY DEF OperationExecuted, Goes
<1>2. TypeOK /\ BusyOnce /\ workspace \in Workspace /\ events \in Seq(Event)
  BY DEF IInv, TypeOK
<1>3. ws \in Workspace /\ ws.busy = FALSE /\ ws.open = workspace.open BY <1>2 DEF Workspace
<1>4. <<>> \in Seq(Call) OBVIOUS
<1>5. /\ workspace' \in Workspace /\ workspace'.busy = FALSE /\ workspace'.open = workspace.open
      /\ entitydata' \in Entitydata /\ calls' \in Seq(Call)
      /\ Lists' /\ Shows' /\ (Selected' => WillLoad')
  <2>1. \/ ws.open = None /\ h = None
        \/ ws.open # None /\ h \in Handle /\ handles'[ws.open] = h
    BY <1>1, <1>2, <1>3 DEF TypeOK, Held
  <2> HIDE DEF ws, h
  <2> QED BY <1>1, <1>2, <1>3, <1>4, <2>1, LooksAnew
<1>6. events' \in Seq(Event) BY <1>1, <1>2, TailEvent
<1>7. 1 \in Ends BY <1>1, <1>2, InfosBy
<1>8. Ends' = {} /\ operation = None
  <2>1. operation = None BY <1>2, <1>7 DEF BusyOnce
  <2>2. ASSUME NEW i \in Ends' PROVE FALSE
    <3>1. i \in Nat /\ i + 1 \in Ends BY <1>1, <1>2, EndsMoveOn
    <3>2. i + 1 = 1 BY <1>2, <1>7, <3>1 DEF BusyOnce
    <3>3. i \in 1..Len(events') BY DEF Ends
    <3> QED BY <3>1, <3>2, <3>3
  <2> QED BY <2>1, <2>2
<1>9. TypeOK' BY <1>1, <1>2, <1>5, <1>6 DEF TypeOK, Call, Held
<1>10. BusyOnce' BY <1>1, <1>5, <1>8 DEF BusyOnce
<1>11. Fresh' BY <1>1, <1>5 DEF IInv, Fresh, AtWork, Own
<1> QED BY <1>5, <1>9, <1>10, <1>11 DEF IInv, Informs

-----------------------------------------------------------------------------
(* The other threads.                                                      *)

LEMMA LoadKeeps == ASSUME IInv, Load PROVE IInv'
<1> DEFINE info == Seen(handles[loader.handle], loader.path)
           e == [kind |-> "entityInfoLoaded", info |-> info]
<1>1. /\ UNCHANGED <<stored, handles, workspace, entitydata, operation, calls>>
      /\ loader # None /\ loader' = None
      /\ IF Has(loader.handle, loader.path) THEN Sent(e) ELSE UNCHANGED events
  BY DEF Load
<1>2. TypeOK /\ BusyOnce /\ events \in Seq(Event) /\ loader \in Loader
  BY <1>1 DEF IInv, TypeOK
<1>3. Loads /\ ~Loads' BY <1>1 DEF Loads
<1>4. Lists' /\ Shows' /\ Fresh'
  <2>1. Lists' /\ Shows'
    BY <1>1 DEF IInv, Lists, Shows, Selected, Now, Own, Search, SyncModel, Seen, RefsOf, Has
  <2>2. Fresh' BY <1>1 DEF IInv, Fresh, AtWork, Own
  <2> QED BY <2>1, <2>2
<1>5. Selected' = Selected /\ Now' = Now /\ WillLoad' = WillLoad
  BY <1>1 DEF Selected, Now, Own, WillLoad, Has, Seen, RefsOf
<1>7. CASE Has(loader.handle, loader.path)
  <2>1. info \in Info BY <1>1, <1>2, <1>7, Holds DEF Loader, TypeOK
  <2>2. e \in Event BY <2>1 DEF Event
  <2>3. Sent(e) BY <1>1, <1>7
  <2>4. e.kind = "entityInfoLoaded" /\ e.info = info OBVIOUS
  <2>5. LoadsNow => info = Now BY DEF LoadsNow, Now, Own
  <2> HIDE DEF e, info
  <2>6. /\ events' \in Seq(Event) /\ Len(events) \in Nat /\ Len(events') = Len(events) + 1
        /\ events'[Len(events) + 1] = e
        /\ \A i \in 1..Len(events) : events'[i] = events[i]
    BY <1>2, <2>2, <2>3, AppendEvent
  <2>7. TypeOK' BY <1>1, <1>2, <2>6 DEF TypeOK, Held
  <2>8. 1..Len(events') = 1..Len(events) \union {Len(events) + 1} BY <2>6
  <2>9. Ends' = Ends BY <2>4, <2>6, <2>8 DEF Ends
  <2>10. BusyOnce' BY <1>1, <1>2, <2>9 DEF BusyOnce
  <2>11. LoadsNow => SentNow'
    <3>1. Len(events) + 1 \in Infos' BY <2>4, <2>6, <2>8 DEF Infos
    <3>2. \A j \in Infos' : j <= Len(events) + 1 BY <2>6 DEF Infos
    <3>3. LoadsNow => events'[Len(events) + 1].info = Now' BY <1>5, <2>4, <2>5, <2>6
    <3> QED BY <3>1, <3>2, <3>3 DEF SentNow
  <2>12. Informs' BY <1>3, <1>5, <2>11 DEF IInv, Informs
  <2> QED BY <1>4, <2>7, <2>10, <2>12 DEF IInv
<1>8. CASE ~Has(loader.handle, loader.path)
  <2>1. UNCHANGED events BY <1>1, <1>8
  <2>2. TypeOK' BY <1>1, <1>2, <2>1 DEF TypeOK, Held
  <2>3. BusyOnce' BY <1>1, <1>2, <2>1, BusySame
  <2>4. Selected => ~LoadsNow BY <1>8 DEF Selected, LoadsNow
  <2>5. Informs' BY <1>3, <1>5, <2>4 DEF IInv, Informs
  <2> QED BY <1>4, <2>2, <2>3, <2>5 DEF IInv
<1> QED BY <1>7, <1>8

(* What an operator leaves on disk, and in its handle. *)
LEMMA WrittenFits ==
  ASSUME stored \in [Stored -> Disk], NEW h \in Handle, NEW p \in Path,
         NEW d \in Data \union {None}
  PROVE  LET new == Written(h, p, d)
         IN  /\ new \in Disk /\ new.root = "own"
             /\ [h EXCEPT !.root = new.root, !.tracked = new.tracked] \in Handle
<1> DEFINE old == stored[h.at]
           tracked == IF d # None /\ RefsOf(h)[p] = "none" THEN h.tracked \union {p} ELSE h.tracked
           refs == [RefsOf(h) EXCEPT ![p] = IF d # None THEN "path" ELSE "none"]
           files == IF d # None \/ RefsOf(h)[p] = "path" THEN [old.files EXCEPT ![p] = d]
                    ELSE old.files
<1>1. h.at \in Stored /\ h.tracked \in SUBSET Path BY DEF Handle
<1>2. old \in Disk BY <1>1
<1>3. tracked \in SUBSET Path BY <1>1
<1>4. refs \in [Path -> Ref] BY RefsFit DEF Ref
<1>5. files \in [Path -> Data \union {None}] BY <1>2 DEF Disk
<1>6. Written(h, p, d) = [old EXCEPT !.root = "own", !.tracked = tracked, !.refs = refs,
                                     !.files = files]
  BY <1>2 DEF Written, Disk
<1> HIDE DEF old, tracked, refs, files
<1>7. /\ Written(h, p, d) \in Disk /\ Written(h, p, d).root = "own"
      /\ Written(h, p, d).tracked = tracked
  BY <1>2, <1>3, <1>4, <1>5, <1>6 DEF Disk, Ref
<1> QED BY <1>3, <1>7 DEF Handle

LEMMA OperateKeeps == ASSUME IInv, Operate PROVE IInv'
<1> DEFINE o == operation.handle
           h == handles[o]
<1>1. operation # None /\ UNCHANGED <<workspace, entitydata, loader, events, calls>>
  BY DEF Operate
<1>2. /\ operation \in Operation /\ workspace.busy /\ TypeOK
      /\ stored \in [Stored -> Disk] /\ handles \in [Slot -> Handle \union {None}]
  BY <1>1 DEF IInv, TypeOK, BusyOnce
<1>3. o \in Slot /\ h \in Handle /\ h.at \in Stored
  BY <1>1, <1>2, NoneAssumption DEF Operation, TypeOK, Held, Handle
<1>4. PICK p \in DOMAIN operation.todo :
        LET new == Written(h, p, operation.todo[p])
        IN  /\ stored' = [stored EXCEPT ![h.at] = new]
            /\ handles' = [handles EXCEPT ![o] =
                             [h EXCEPT !.root = new.root, !.tracked = new.tracked]]
            /\ operation' = [operation EXCEPT !.todo =
                               [q \in DOMAIN operation.todo \ {p} |-> operation.todo[q]]]
  BY DEF Operate
<1> DEFINE new == Written(h, p, operation.todo[p])
           kept == [h EXCEPT !.root = new.root, !.tracked = new.tracked]
<1>5. PICK S \in SUBSET Path : operation.todo \in [S -> Data \union {None}]
  BY <1>2 DEF Operation, Todo
<1>6. p \in Path /\ operation.todo[p] \in Data \union {None} BY <1>4, <1>5
<1>7. new \in Disk /\ new.root = "own" /\ kept \in Handle BY <1>2, <1>3, <1>6, WrittenFits
<1>8. kept.root = "own" /\ kept.at = h.at BY <1>3, <1>7 DEF Handle
<1>9. stored' = [stored EXCEPT ![h.at] = new] /\ handles' = [handles EXCEPT ![o] = kept]
  BY <1>4
<1>10. operation' \in Operation /\ operation' # None /\ operation'.handle = o
  <2> DEFINE todo == [q \in DOMAIN operation.todo \ {p} |-> operation.todo[q]]
  <2>1. todo \in [S \ {p} -> Data \union {None}] /\ S \ {p} \in SUBSET Path BY <1>5
  <2>2. todo \in Todo BY <2>1 DEF Todo
  <2>3. operation' = [operation EXCEPT !.todo = todo] BY <1>4
  <2> HIDE DEF todo
  <2>4. operation' \in Operation /\ operation'.handle = operation.handle
    BY <1>2, <2>2, <2>3 DEF Operation
  <2> QED BY <2>4, NoneAssumption
<1> HIDE DEF o, h, new, kept
<1>11. /\ stored' \in [Stored -> Disk] /\ handles' \in [Slot -> Handle \union {None}]
       /\ stored'[h.at] = new /\ \A w \in Stored \ {h.at} : stored'[w] = stored[w]
       /\ handles'[o] = kept /\ \A s \in Slot \ {o} : handles'[s] = handles[s]
  BY <1>2, <1>3, <1>7, <1>9
<1>12. /\ workspace.open \in Slot \union {None} /\ loader \in Loader \union {None}
       /\ Held(workspace.open) /\ (loader # None => Held(loader.handle))
  BY <1>2 DEF TypeOK, Workspace
<1>13. TypeOK'
  <2>1. Held(workspace.open)' BY <1>1, <1>7, <1>11, <1>12 DEF Held
  <2>2. Held(operation.handle)' BY <1>7, <1>10, <1>11 DEF Held
  <2>3. loader' # None => Held(loader.handle)'
    <3> SUFFICES ASSUME loader # None PROVE Held(loader.handle)' BY <1>1
    <3>1. loader.handle \in Slot \union {None} BY <1>12 DEF Loader
    <3> QED BY <1>1, <1>7, <1>11, <1>12, <3>1 DEF Held
  <2> QED BY <1>1, <1>2, <1>10, <1>11, <2>1, <2>2, <2>3 DEF TypeOK
<1>14. BusyOnce' BY <1>1, <1>10 DEF IInv, BusyOnce, Ends
<1>15. Fresh'
  <2> SUFFICES ASSUME workspace.open # None
               PROVE  /\ Own'.root = "own" => stored'[Own'.at].root = "own"
                      /\ ~Own'.early => Own'.root = stored'[Own'.at].root
                      /\ AtWork(Own.at)' /\ operation'.handle # workspace.open /\ ~Own'.early =>
                            Own'.root = "own"
    BY <1>1 DEF Fresh
  <2>1. CASE workspace.open = o
    <3>1. Own' = kept BY <1>1, <1>11, <2>1 DEF Own
    <3> QED BY <1>7, <1>8, <1>10, <1>11, <2>1, <3>1
  <2>2. CASE workspace.open # o
    <3>1. Own' = Own /\ Own \in Handle BY <1>1, <1>11, <1>12, <2>2 DEF Own, Held
    <3>2. Own.at \in Stored BY <3>1 DEF Handle
    <3>3. /\ Own.root = "own" => stored[Own.at].root = "own"
          /\ ~Own.early => Own.root = stored[Own.at].root
          /\ Own.at = h.at /\ ~Own.early => Own.root = "own"
      BY <1>1, <2>2 DEF IInv, Fresh, AtWork, o, h
    <3>4. AtWork(Own.at)' => Own.at = h.at BY <1>8, <1>10, <1>11, <3>1 DEF AtWork
    <3>5. CASE Own.at = h.at BY <1>7, <1>11, <3>1, <3>3, <3>5
    <3>6. CASE Own.at # h.at BY <1>11, <3>1, <3>2, <3>3, <3>4, <3>6
    <3> QED BY <3>5, <3>6
  <2> QED BY <2>1, <2>2
<1> QED BY <1>1, <1>2, <1>13, <1>14, <1>15, BusyKeeps

LEMMA EndOperationKeeps == ASSUME IInv, EndOperation PROVE IInv'
<1> DEFINE e == [kind |-> "operationExecuted"]
<1>1. /\ UNCHANGED <<stored, handles, workspace, entitydata, loader, calls>>
      /\ operation # None /\ operation' = None
      /\ Sent(e)
  BY DEF EndOperation
<1>2. TypeOK /\ workspace.busy /\ Ends = {} /\ events \in Seq(Event)
  BY <1>1 DEF IInv, TypeOK, BusyOnce
<1>3. e \in Event /\ e.kind = "operationExecuted" BY DEF Event
<1> HIDE DEF e
<1>4. /\ events' \in Seq(Event) /\ Len(events) \in Nat /\ Len(events') = Len(events) + 1
      /\ events'[Len(events) + 1] = e
      /\ \A i \in 1..Len(events) : events'[i] = events[i]
  BY <1>1, <1>2, <1>3, AppendEvent
<1>5. TypeOK' BY <1>1, <1>2, <1>4 DEF TypeOK, Held
<1>6. 1..Len(events') = 1..Len(events) \union {Len(events) + 1} BY <1>4
<1>7. Ends' = {Len(events) + 1}
  <2>1. \A i \in 1..Len(events) : events[i].kind # "operationExecuted" BY <1>2 DEF Ends
  <2> QED BY <1>3, <1>4, <1>6, <2>1 DEF Ends
<1>8. BusyOnce' BY <1>1, <1>2, <1>7 DEF BusyOnce
<1>9. Fresh' BY <1>1 DEF IInv, Fresh, AtWork, Own
<1> QED BY <1>1, <1>2, <1>5, <1>8, <1>9, BusyKeeps

-----------------------------------------------------------------------------
LEMMA NextIInv == IInv /\ [Next]_vars => IInv'
<1> SUFFICES ASSUME IInv, [Next]_vars PROVE IInv' OBVIOUS
<1>1. ASSUME NEW n \in Name, SetNameTooEarly(n) PROVE IInv'
  BY <1>1, SameIInv DEF SetNameTooEarly, Watched
<1>2. CASE LoadBreaks \/ OperateUntracked
  BY <1>2, SameIInv DEF LoadBreaks, OperateUntracked, Watched
<1>3. CASE UNCHANGED vars BY <1>3, SameIInv DEF vars, Watched
<1>4. CASE GuiStep
  BY <1>4, StartLoaderKeeps, TellAgainKeeps, SetInfoKeeps, OperationExecutedKeeps DEF GuiStep
<1>5. ASSUME NEW opens \in BOOLEAN, SetUrl(opens) PROVE IInv' BY <1>5, SetUrlKeeps
<1>6. CASE Reload \/ LinkRepository \/ Connect BY <1>6, ReloadKeeps, LinkKeeps, ConnectKeeps
<1>7. ASSUME NEW n \in Name, SetName(n) PROVE IInv' BY <1>7, SetNameKeeps
<1>8. ASSUME NEW p \in Path \union {None}, SetPath(p) PROVE IInv' BY <1>8, SetPathKeeps
<1>9. ASSUME NEW writes \in Writes, DoOperation(writes) PROVE IInv' BY <1>9, DoOperationKeeps
<1>10. CASE Load \/ Operate \/ EndOperation
  BY <1>10, LoadKeeps, OperateKeeps, EndOperationKeeps
<1> QED BY <1>1, <1>2, <1>3, <1>4, <1>5, <1>6, <1>7, <1>8, <1>9, <1>10 DEF Next

LEMMA RestShows == IInv => ShowsNow
<1> DEFINE now == [Own EXCEPT !.root = stored[Own.at].root]
           p == entitydata.path
<1> SUFFICES ASSUME IInv, AtRest, workspace.open # None, Own.early => Own.root = now.root
             PROVE  /\ workspace.entities = Search(now) /\ workspace.items = SyncModel(now)
                    /\ entitydata.connected /\ p # None /\ Seen(now, p) # None =>
                         /\ entitydata.info = Seen(now, p)
                         /\ entitydata.shown = Seen(now, p)
                         /\ ~entitydata.loading
  BY DEF ShowsNow, Own
<1>1. Own \in Handle BY DEF IInv, TypeOK, Held, Own
<1>2. now.root = stored[Own.at].root BY <1>1 DEF Handle
<1>3. Own.root = stored[Own.at].root
  <2>1. CASE Own.early BY <1>2, <2>1
  <2>2. CASE ~Own.early BY <2>2 DEF IInv, Fresh
  <2> QED BY <2>1, <2>2
<1>4. now = Own BY <1>1, <1>3 DEF Handle
<1> HIDE DEF now
<1>5. workspace.entities = Search(now) /\ workspace.items = SyncModel(now)
  BY <1>4 DEF IInv, Lists, AtRest
<1>6. ~WillLoad /\ ~LoadsNow /\ ~SentNow
  BY DEF AtRest, WillLoad, LoadsNow, Loads, SentNow, Infos
<1>7. entitydata.connected /\ p # None /\ Seen(now, p) # None => Selected
  BY <1>4 DEF AtRest, Selected, Has, Own
<1> QED BY <1>4, <1>5, <1>6, <1>7 DEF IInv, Shows, Informs, HasNow, Now

(* Whatever the user opens, selects and executes, and however late loaders *)
(* and operators answer, once nothing is under way the viewer lists and    *)
(* shows what is on disk, unless the workspace was opened while an         *)
(* operator was at work that had not yet written its first transient root  *)
(* (QmlWorkspace::setName, setRepository and operationExecuted,            *)
(* QmlEntitydata::setWorkspace, updateInfo and setInfo).                   *)
THEOREM RestsOnWhatIsThere == Spec => []ShowsNow
<1>1. Init => IInv BY InitIInv
<1>2. IInv /\ [Next]_vars => IInv' BY NextIInv
<1>3. IInv => ShowsNow BY RestShows
<1> QED BY <1>1, <1>2, <1>3, PTL DEF Spec
=============================================================================
