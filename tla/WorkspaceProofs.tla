-------------------------- MODULE WorkspaceProofs --------------------------
(***************************************************************************)
(* Proofs about Workspace for every set of names, paths, handles, meta     *)
(* data and data, with and without assertions, crashes and careful         *)
(* callers.                                                                *)
(*                                                                         *)
(* TypeOK and StoreClosed are nearly inductive: a frame copies typed       *)
(* values, and what it holds keeps its type because the store only grows.  *)
(* What they lack is the root: createPath and commit read the root's tree  *)
(* through a workspace object that may be stale, and a null tree there     *)
(* would have no type.  RootInv says why it is never null: once any        *)
(* workspace object names the transient root, the root's file is a tree    *)
(* for good (StoreRoot writes it before SaveWorkspace names it on disk,    *)
(* and nothing removes it); and a root by id is a tree of the store.       *)
(*                                                                         *)
(* The file goes from sequences and types, over what a step does to the    *)
(* stack of one call, to one lemma per action and the theorems.            *)
(*                                                                         *)
(* The next part is about what a commit holds.  With assertions on, a      *)
(* persisted tree refers to persisted objects only, so that it can be told *)
(* without looking at the files of the workspace.  The descent from the    *)
(* root is a recursive function; that there is one, and only one, is shown *)
(* by induction along the path.                                            *)
(*                                                                         *)
(* The next part is about the assertion of line 198 and one process at a   *)
(* time.  ChildInv says of every frame what the files will be when its     *)
(* call is over: that each reference by path in a tree leads to a file at  *)
(* the child's path.  A walk that comes up has written some of its trees   *)
(* and a search that deletes has removed some of the files, so that this   *)
(* holds of After, what the walk and the search will make of the files,    *)
(* and not of the files themselves.                                        *)
(*                                                                         *)
(* The next part is about what a call has done when it returns, crashes    *)
(* allowed.  LeadInv says that the trees a walk has written coming up, and *)
(* the one in its hands, lead to its leaf; a search that deletes runs      *)
(* before the walk below it has written any.  At the return they are a     *)
(* Trail from the root, and what one finds going down it is told without   *)
(* knowing the other files.                                                *)
(*                                                                         *)
(* The last part is what MapProofs begins with.  The map is told by the    *)
(* references one meets going down from the root (Met): it is enough to    *)
(* know how these change.  A step that writes the file at a path changes   *)
(* what is met below that path, and only if one gets there by path; each   *)
(* tree refers by path to its own children only (Placed), so that nothing  *)
(* else leads there.                                                       *)
(***************************************************************************)
EXTENDS WorkspaceMap, WellFoundedInduction, SequenceTheorems, TLAPS

-----------------------------------------------------------------------------
(* Induction, as an argument about the least number for which something    *)
(* fails, and from it that there is the function, and only one, which a    *)
(* recursive definition stands for.                                        *)

LEMMA Least ==
    ASSUME NEW T \in SUBSET Nat, T # {}
    PROVE  \E x \in T : \A y \in T : ~(y < x)
<1> DEFINE R == {ss \in Nat \X Nat : ss[1] < ss[2]}
<1>1. IsWellFoundedOn(R, Nat)
  BY NatLessThanWellFounded DEF OpToRel
<1>2. \A x, y \in Nat : y < x => <<y, x>> \in R
  OBVIOUS
<1> HIDE DEF R
<1>3. PICK x \in T : \A y \in T : ~(<<y, x>> \in R)
  BY <1>1, WFMin
<1> QED BY <1>2, <1>3

LEMMA Induction ==
    ASSUME NEW S, 0 \in S, \A n \in Nat : n \in S => n + 1 \in S
    PROVE  \A n \in Nat : n \in S
<1> SUFFICES ASSUME Nat \ S # {}
             PROVE  FALSE
  OBVIOUS
<1>1. PICK x \in Nat \ S : \A y \in Nat \ S : ~(y < x)
  BY Least
<1>2. x - 1 \in Nat /\ x - 1 < x /\ (x - 1) + 1 = x
  BY <1>1
<1> QED BY <1>1, <1>2

(* Recursion along 1..n, from a value on. *)
Steps(n, D, a, g, r) ==
    /\ r \in [0..n -> D]
    /\ r[0] = a
    /\ \A i \in 1..n : r[i] = g[i][r[i - 1]]

LEMMA Recursion ==
    ASSUME NEW n \in Nat, NEW D, NEW a \in D, NEW g \in [1..n -> [D -> D]]
    PROVE  \E r : Steps(n, D, a, g, r)
<1> DEFINE Good(m, r) == r[0] = a /\ \A i \in 1..m : r[i] = g[i][r[i - 1]]
           S == {m \in Nat : m > n \/ \E r \in [0..m -> D] : Good(m, r)}
<1>1. 0 \in S
  <2>1. [i \in 0..0 |-> a] \in [0..0 -> D] /\ Good(0, [i \in 0..0 |-> a])
    OBVIOUS
  <2> QED BY <2>1
<1>2. ASSUME NEW m \in Nat, m \in S
      PROVE  m + 1 \in S
  <2>1. CASE m + 1 > n
    BY <2>1
  <2>2. CASE m + 1 <= n
    <3>1. PICK r \in [0..m -> D] : Good(m, r)
      BY <1>2, <2>2
    <3> DEFINE next == g[m + 1][r[m]]
               q == [i \in 0..(m + 1) |-> IF i <= m THEN r[i] ELSE next]
    <3>2. next \in D
      <4>1. m + 1 \in 1..n /\ r[m] \in D
        BY <2>2
      <4> QED BY <4>1
    <3> HIDE DEF next
    <3>3. q \in [0..(m + 1) -> D] /\ q[0] = a
      BY <3>1, <3>2
    <3>4. ASSUME NEW i \in 1..(m + 1)
          PROVE  q[i] = g[i][q[i - 1]]
      <4>1. CASE i = m + 1
        <5>1. q[i] = next /\ q[i - 1] = r[m]
          BY <4>1
        <5> QED BY <4>1, <5>1 DEF next
      <4>2. CASE i # m + 1
        <5>1. i \in 1..m /\ q[i] = r[i] /\ q[i - 1] = r[i - 1]
          BY <4>2
        <5> QED BY <3>1, <5>1
      <4> QED BY <4>1, <4>2
    <3> HIDE DEF q
    <3>5. Good(m + 1, q)
      BY <3>3, <3>4
    <3> QED BY <3>3, <3>5
  <2> QED BY <2>1, <2>2
<1> HIDE DEF S
<1>3. n \in S
  BY <1>1, <1>2, Induction
<1>4. ~(n > n)
  OBVIOUS
<1>5. n > n \/ \E r \in [0..n -> D] : Good(n, r)
  BY <1>3 DEF S
<1> QED BY <1>4, <1>5 DEF Steps

(* There is one function only. *)
TakeSameSteps(n, q, r) ==
    /\ q[0] = r[0]
    /\ \A i \in 1..n : q[i - 1] = r[i - 1] => q[i] = r[i]

AreSame(n, q, r) == \A i \in 0..n : q[i] = r[i]

LEMMA Unique ==
    ASSUME NEW n \in Nat, NEW q, NEW r, TakeSameSteps(n, q, r)
    PROVE  AreSame(n, q, r)
<1> USE DEF TakeSameSteps, AreSame
<1> DEFINE S == {m \in Nat : m > n \/ q[m] = r[m]}
<1>1. 0 \in S
  OBVIOUS
<1>2. ASSUME NEW m \in Nat, m \in S
      PROVE  m + 1 \in S
  <2>1. CASE m + 1 > n
    BY <2>1
  <2>2. CASE m + 1 <= n
    <3>1. m + 1 \in 1..n /\ (m + 1) - 1 = m /\ q[m] = r[m]
      BY <1>2, <2>2
    <3>2. q[m + 1] = r[m + 1]
      BY <3>1
    <3> QED BY <3>2
  <2> QED BY <2>1, <2>2
<1> HIDE DEF S
<1>3. \A m \in Nat : m \in S
  BY <1>1, <1>2, Induction
<1> SUFFICES ASSUME NEW i \in 0..n
             PROVE  q[i] = r[i]
  OBVIOUS
<1>4. i \in Nat /\ ~(i > n)
  OBVIOUS
<1>5. i \in S
  BY <1>3, <1>4
<1> QED BY <1>4, <1>5 DEF S

-----------------------------------------------------------------------------
(* Sequences.                                                              *)

(* Taking a sequence apart at either end. *)
LEMMA Ends ==
    ASSUME NEW S, NEW s \in Seq(S), s # <<>>
    PROVE  /\ Len(s) \in Nat \ {0}
           /\ Head(s) \in S /\ Tail(s) \in Seq(S)
           /\ Last(s) \in S /\ Front(s) \in Seq(S)
           /\ Len(Front(s)) = Len(s) - 1
<1>1. Len(s) \in Nat \ {0}
  BY LenProperties, EmptySeq
<1>2. Head(s) \in S /\ Tail(s) \in Seq(S)
  BY HeadTailProperties
<1>3. \A i \in 1..Len(s) : s[i] \in S
  BY ElementOfSeq
<1>4. Last(s) \in S
  BY <1>1, <1>3 DEF Last
<1>5. \A i \in 1..(Len(s) - 1) : s[i] \in S
  BY <1>1, <1>3
<1>6. Front(s) \in Seq(S) /\ Len(Front(s)) = Len(s) - 1
  <2>1. 1 \in Int /\ Len(s) - 1 \in Int
    BY <1>1
  <2>2. SubSeq(s, 1, Len(s) - 1) \in Seq(S)
    BY ONLY <2>1, <1>5, SubSeqProperties
  <2> DEFINE n == Len(s) - 1
  <2> HIDE DEF n
  <2>3. Len(SubSeq(s, 1, n)) = IF 1 <= n THEN n - 1 + 1 ELSE 0
    BY ONLY <2>1, <1>5, SubSeqProperties DEF n
  <2>4. n \in Nat
    BY <1>1 DEF n
  <2>5. Len(SubSeq(s, 1, n)) = n
    BY ONLY <2>3, <2>4
  <2> QED BY <2>2, <2>5 DEF Front, n
<1> QED BY <1>1, <1>2, <1>4, <1>6

(* Putting one together. *)
LEMMA Push ==
    ASSUME NEW S, NEW x \in S, NEW s \in Seq(S)
    PROVE  /\ <<x>> \o s \in Seq(S)
           /\ Append(s, x) \in Seq(S)
           /\ Append(s, x) # <<>>
           /\ Len(Append(s, x)) = Len(s) + 1
<1>1. <<x>> \in Seq(S)
  OBVIOUS
<1>2. <<x>> \o s \in Seq(S)
  BY <1>1, ConcatProperties
<1> QED BY <1>2, AppendProperties

(* A sequence over a set is one over a larger set. *)
LEMMA Wider ==
    ASSUME NEW S, NEW T, S \subseteq T
    PROVE  Seq(S) \subseteq Seq(T)
BY SeqMonotonic

-----------------------------------------------------------------------------
(* Objects and references.                                                 *)

(* What lies under a segment of a tree is one of its references. *)
LEMMA RefOfTree ==
    ASSUME NEW objs, NEW t \in Trees(objs), NEW n \in Name
    PROVE  t.refs[n] \in Refs(objs)
BY DEF Trees

(* Setting or removing a reference leaves a tree a tree. *)
LEMMA LinkType ==
    ASSUME NEW objs, NEW t \in Trees(objs), NEW n, NEW ref \in Refs(objs)
    PROVE  Link(t, n, ref) \in Trees(objs)
<1>1. t.refs \in [Name -> Refs(objs)]
  BY DEF Trees
<1>2. [t.refs EXCEPT ![n] = ref] \in [Name -> Refs(objs)]
  BY <1>1
<1> QED BY <1>2 DEF Link, Trees

(* The empty tree is a tree over any store. *)
LEMMA EmptyTreeType ==
    ASSUME NEW objs
    PROVE  EmptyTree \in Trees(objs)
BY DEF EmptyTree, TreeObj, Trees, Refs

(* A transient segment's place: a prefix of a path is a path. *)
LEMMA PrefixIsPath ==
    ASSUME NEW p \in Path, NEW i \in 1..Len(p)
    PROVE  p[i] \in Name /\ Upto(p, i) \in Path
<1>1. p \in Seq(Name)
  BY PathAssumption
<1>2. p[i] \in Name
  BY <1>1, ElementOfSeq
<1> QED BY <1>2, PrefixAssumption DEF Upto

(* A client's path has a first segment. *)
LEMMA PathLength ==
    ASSUME NEW p \in Path
    PROVE  p \in Seq(Name) /\ Len(p) \in Nat \ {0} /\ p # Root /\ p \in Node
BY PathAssumption, EmptySeq, LenProperties DEF Root, Node

-----------------------------------------------------------------------------
(* The store only grows.                                                   *)

StoreGrows ==
    /\ trees \subseteq trees'
    /\ entities \subseteq entities'
    /\ datas \subseteq datas'
    /\ Len(commits) \in Nat /\ Len(commits') \in Nat
    /\ Len(commits) <= Len(commits')

(* What has a type keeps it when the store grows: references, trees, entities. *)
LEMMA ValuesGrow ==
    ASSUME StoreGrows
    PROVE  /\ Objects \subseteq Objects'
           /\ Refs(Objects) \subseteq Refs(Objects')
           /\ Trees(Objects) \subseteq Trees(Objects')
           /\ Entities(datas) \subseteq Entities(datas')
           /\ WorkspaceObjs(trees, Len(commits)) \subseteq WorkspaceObjs(trees', Len(commits'))
           /\ PersistedRefs \subseteq PersistedRefs'
<1>1. Objects \subseteq Objects'
  BY DEF StoreGrows, Objects
<1>2. Refs(Objects) \subseteq Refs(Objects')
  BY <1>1 DEF Refs, IdRefs
<1>3. Trees(Objects) \subseteq Trees(Objects')
  BY <1>2 DEF Trees
<1>4. Entities(datas) \subseteq Entities(datas')
  BY DEF StoreGrows, Entities
<1>5. WorkspaceObjs(trees, Len(commits)) \subseteq WorkspaceObjs(trees', Len(commits'))
  BY DEF StoreGrows, WorkspaceObjs, IdRefs
<1>6. PersistedRefs \subseteq PersistedRefs'
  BY <1>1 DEF PersistedRefs, IdRefs
<1> QED BY <1>1, <1>2, <1>3, <1>4, <1>5, <1>6

(* A search's visits keep theirs. *)
LEMMA VisitsGrow ==
    ASSUME StoreGrows
    PROVE  Visits \subseteq Visits'
BY ValuesGrow DEF Visits

(* So do the frames of a call. *)
LEMMA FramesGrow ==
    ASSUME StoreGrows
    PROVE  /\ Frames \subseteq Frames'
           /\ CommitFrames \subseteq CommitFrames'
           /\ Currents \subseteq Currents'
<1>1. Seq(Trees(Objects)) \subseteq Seq(Trees(Objects'))
  BY ValuesGrow, Wider
<1>2. PathFrames \subseteq PathFrames'
  BY <1>1, ValuesGrow DEF PathFrames
<1>3. Seq(Visits) \subseteq Seq(Visits')
  BY VisitsGrow, Wider
<1>4. RemoveFrames \subseteq RemoveFrames'
  <2>1. {v \in Visits : v.path # Root} \subseteq {v \in Visits' : v.path # Root}
    BY VisitsGrow
  <2> QED BY <2>1, Wider DEF RemoveFrames
<1>5. Currents \subseteq Currents'
  BY ValuesGrow DEF Currents, StoreGrows
<1>6. 0..Len(commits) \subseteq 0..Len(commits')
  BY DEF StoreGrows
<1>7. CommitFrames \subseteq CommitFrames'
  <2> SUFFICES ASSUME NEW f \in CommitFrames
               PROVE  f \in CommitFrames'
    OBVIOUS
  <2>1. SUBSET [path : Node, id : Objects \union {None}]
           \subseteq SUBSET [path : Node, id : Objects' \union {None}]
    BY ValuesGrow
  <2>2. f \in [op : {"commit"}, stack : Seq(Visits'), cur : Currents',
               done : SUBSET [path : Node, id : Objects' \union {None}],
               made : 0..Len(commits')]
    BY <1>3, <1>5, <1>6, <2>1 DEF CommitFrames
  <2>3. \A e \in f.done : e.path = Root => e.id \in trees' \union {None}
    BY DEF CommitFrames, StoreGrows
  <2> QED BY <2>2, <2>3 DEF CommitFrames
<1> QED BY <1>2, <1>4, <1>5, <1>7 DEF Frames

-----------------------------------------------------------------------------
(* What reading gives.                                                     *)

Inv == TypeOK /\ StoreClosed

(* None, trees and entities are told apart by their kind. *)
LEMMA Kinds ==
    ASSUME NEW objs, NEW ids, NEW x \in Trees(objs) \union Entities(ids) \union {None}
    PROVE  /\ IsTree(x) => x \in Trees(objs)
           /\ IsEntity(x) => x \in Entities(ids)
           /\ x # None => IsTree(x) \/ IsEntity(x)
BY DEF Trees, Entities, IsTree, IsEntity, None

(* Under the invariant, what the store holds is typed. *)
LEMMA StoredTypes ==
    ASSUME Inv
    PROVE  /\ trees \subseteq Trees(Objects)
           /\ entities \subseteq Entities(datas)
           /\ commits \in Seq([parent : 0..Len(commits), root : trees \union {None}])
           /\ Len(commits) \in Nat
<1>1. PersistedRefs \subseteq Refs(Objects)
  BY DEF PersistedRefs, Refs
<1> QED BY <1>1, LenProperties DEF Inv, StoreClosed, Trees

(* A transient file is a tree, an entity or absent. *)
LEMMA FileType ==
    ASSUME Inv, NEW q
    PROVE  File(q) \in Trees(Objects) \union Entities(datas) \union {None}
BY DEF Inv, TypeOK, File

(* getTree(ref) gives a tree or nothing. *)
LEMMA TreeOfType ==
    ASSUME Inv, NEW ref
    PROVE  TreeOf(ref) \in Trees(Objects) \union {None}
<1>1. IsTree(File(ref.path)) => File(ref.path) \in Trees(Objects)
  BY FileType, Kinds
<1> QED BY <1>1, StoredTypes DEF TreeOf

(* What a search finds at a path is a tree, an entity or nothing. *)
LEMMA FoundType ==
    ASSUME Inv, NEW h, NEW p
    PROVE  /\ Found(h, p) \in Trees(Objects) \union Entities(datas) \union {None}
           /\ Found(h, p) # None => p \in Node
BY FileType, StoredTypes DEF Found, File, Node, Objects

(* What getEntity(path) and getTree(path) answer. *)
LEMMA GetTypes ==
    ASSUME Inv, NEW h, NEW p \in Path
    PROVE  /\ GetEntity(h, p) \in Entities(datas) \union {None}
           /\ GetTree(h, p) \in Trees(Objects) \union {None}
<1>1. files[p] \in Trees(Objects) \union Entities(datas) \union {None}
  BY DEF Inv, TypeOK, Node
<1>2. /\ IsTree(files[p]) => files[p] \in Trees(Objects)
      /\ IsEntity(files[p]) => files[p] \in Entities(datas)
  BY <1>1, Kinds
<1> QED BY <1>2, StoredTypes DEF GetEntity, GetTree

-----------------------------------------------------------------------------
(* The frames of calls.                                                    *)

(* The running frame of a call is a frame. *)
LEMMA TopIsFrame ==
    ASSUME Inv, NEW h \in Handle, calls[h] # <<>>
    PROVE  /\ Top(h) \in Frames
           /\ Tail(calls[h]) \in Seq(Frames)
BY Ends DEF Inv, TypeOK, Top

(* The operation of a frame tells its kind. *)
LEMMA TopKind ==
    ASSUME Inv, NEW h \in Handle, calls[h] # <<>>
    PROVE  /\ Top(h).op \in {"store", "deleteEntity", "deleteTree"} => Top(h) \in PathFrames
           /\ Top(h).op = "remove" => Top(h) \in RemoveFrames
           /\ Top(h).op = "commit" => Top(h) \in CommitFrames
BY TopIsFrame DEF Frames, PathFrames, RemoveFrames, CommitFrames

(* Replacing the running frame, or putting one on top. *)
LEMMA ContinueType ==
    ASSUME Inv, StoreGrows, NEW h \in Handle, calls[h] # <<>>,
           NEW f \in Frames', Continue(h, f)
    PROVE  calls' \in [Handle -> Seq(Frames')]
<1>1. Seq(Frames) \subseteq Seq(Frames')
  BY FramesGrow, Wider
<1>2. Tail(calls[h]) \in Seq(Frames')
  BY <1>1, TopIsFrame
<1>3. <<f>> \o Tail(calls[h]) \in Seq(Frames')
  BY <1>2, Push
<1>4. calls \in [Handle -> Seq(Frames')]
  BY <1>1 DEF Inv, TypeOK
<1> QED BY <1>3, <1>4 DEF Continue

(* Dropping the running frame. *)
LEMMA ReturnType ==
    ASSUME Inv, StoreGrows, NEW h \in Handle, calls[h] # <<>>, Return(h)
    PROVE  calls' \in [Handle -> Seq(Frames')]
<1>1. Seq(Frames) \subseteq Seq(Frames')
  BY FramesGrow, Wider
<1>2. Tail(calls[h]) \in Seq(Frames')
  BY <1>1, TopIsFrame
<1>3. calls \in [Handle -> Seq(Frames')]
  BY <1>1 DEF Inv, TypeOK
<1> QED BY <1>2, <1>3 DEF Return

(* The segment createPath stands at, its reference and its place. *)
LEMMA SegType ==
    ASSUME NEW f \in PathFrames, f.dir = "down"
    PROVE  /\ SegRef(f) \in Refs(Objects)
           /\ SegPlace(f) \in PathRefs
<1>1. /\ f.path \in Path /\ f.at \in 1..Len(f.path)
      /\ f.trees \in Seq(Trees(Objects)) /\ f.trees # <<>>
  BY DEF PathFrames
<1>2. f.path[f.at] \in Name /\ Upto(f.path, f.at) \in Path
  BY <1>1, PrefixIsPath
<1>3. Last(f.trees) \in Trees(Objects)
  BY <1>1, Ends
<1>4. SegRef(f) \in Refs(Objects)
  BY <1>2, <1>3, RefOfTree DEF SegRef
<1>5. SegPlace(f) \in PathRefs
  BY <1>2 DEF SegPlace, PathRef, PathRefs
<1> QED BY <1>4, <1>5

(* The frame that comes up from a segment. *)
LEMMA AscendType ==
    ASSUME NEW f \in PathFrames, f.at \in 1..Len(f.path),
           NEW ts \in Seq(Trees(Objects)), Len(ts) = f.at,
           NEW ref \in Refs(Objects)
    PROVE  Ascend([f EXCEPT !.trees = ts], ref) \in PathFrames
<1> DEFINE g == [f EXCEPT !.trees = ts]
           up == Append(Front(ts), Link(Last(ts), f.path[f.at], ref))
<1>1. f.path \in Path /\ Len(f.path) \in Nat /\ f.at \in Nat
  BY PathLength DEF PathFrames
<1>2. ts # <<>>
  BY <1>1, EmptySeq
<1>3. /\ Front(ts) \in Seq(Trees(Objects)) /\ Len(Front(ts)) = f.at - 1
      /\ Last(ts) \in Trees(Objects)
  BY <1>2, Ends
<1>4. Link(Last(ts), f.path[f.at], ref) \in Trees(Objects)
  BY <1>3, LinkType
<1>5. up \in Seq(Trees(Objects)) /\ up # <<>> /\ Len(up) = f.at
  BY <1>1, <1>3, <1>4, Push
<1>6. Ascend(g, ref) = [f EXCEPT !.trees = up, !.at = @ - 1, !.dir = "up"]
  BY DEF Ascend, PathFrames
<1>7. f.at - 1 \in Nat /\ f.at - 1 \in 0..(Len(f.path) - 1) /\ (f.at - 1) + 1 = f.at
  BY <1>1
<1> HIDE DEF up
<1> DEFINE r == [f EXCEPT !.trees = up, !.at = @ - 1, !.dir = "up"]
<1>8. /\ r \in [op : {"store", "deleteEntity", "deleteTree"}, path : Path,
                leaf : Entities(datas) \union {None}, trees : Seq(Trees(Objects)),
                at : Nat, dir : {"down", "up", "root", "save"}]
      /\ r.op = f.op /\ r.path = f.path /\ r.leaf = f.leaf
      /\ r.trees = up /\ r.at = f.at - 1 /\ r.dir = "up"
  BY <1>1, <1>5, <1>7 DEF PathFrames
<1>9. f.op = "store" => f.leaf # None
  BY DEF PathFrames
<1> HIDE DEF r
<1>10. r \in PathFrames
  BY <1>5, <1>7, <1>8, <1>9 DEF PathFrames
<1> QED BY <1>6, <1>10 DEF r

-----------------------------------------------------------------------------
(* The root.  Its file is written by the first createPath and is never     *)
(* removed; until then no handle can be anywhere but in such a first call  *)
(* or in a commit of nothing.                                              *)

PathOps == {"store", "deleteEntity", "deleteTree"}

RootWritten == IsTree(files[Root])

Tracks(ws) ==
    /\ IsPathRef(ws.root) => ws.root \in ws.tracked
    /\ ws.root = None => ws.tracked = {}

(* A commit is a call of its own; all others have made the root transient. *)
InCall(h) ==
    /\ mem[h] # None
    /\ \/ Len(calls[h]) = 1 /\ Top(h).op = "commit"
       \/ /\ mem[h].root = RootRef
          /\ \A i \in 1..Len(calls[h]) : calls[h][i].op # "commit"

BeforeRoot(f) ==
    \/ f.op = "commit" /\ f.stack = <<>>
    \/ /\ f.op \in PathOps
       /\ f.dir # "save"
       /\ f.dir = "down" => Last(f.trees) = EmptyTree

Unwritten(h) ==
    \/ calls[h] = <<>> /\ (mem[h] = None \/ mem[h].root = None)
    \/ calls[h] # <<>> /\ Len(calls[h]) = 1 /\ BeforeRoot(Top(h))

RootInv ==
    /\ disk # None => Tracks(disk)
    /\ \A h \in Handle : mem[h] # None => Tracks(mem[h])
    /\ \A h \in Handle : calls[h] # <<>> => InCall(h)
    /\ RootWritten \/ /\ trees = {}
                      /\ disk = None \/ disk.root = None
                      /\ \A h \in Handle : Unwritten(h)

(* The inductive invariant. *)
IInv == TypeOK /\ StoreClosed /\ RootInv

(* The inductive invariant contains what the lemmas above assume. *)
LEMMA IInvInv == IInv => Inv
BY DEF IInv, Inv

(* A workspace object with a root has one that can be read.                *)
LEMMA RootReadable ==
    ASSUME Inv, RootWritten, NEW ws \in WorkspaceObjs(trees, Len(commits)), ws.root # None
    PROVE  TreeOf(ws.root) \in Trees(Objects) /\ IsTree(TreeOf(ws.root))
<1>1. CASE ws.root = RootRef
  <2>1. File(Root) = files[Root]
    BY DEF File, Node
  <2>2. IsPathRef(ws.root) /\ ws.root.path = Root
    BY <1>1 DEF RootRef, PathRef, IsPathRef
  <2>3. File(ws.root.path) = files[Root]
    BY <2>1, <2>2
  <2>5. IsTree(File(ws.root.path))
    BY <2>3 DEF RootWritten
  <2> HIDE DEF RootWritten
  <2>6. TreeOf(ws.root) = files[Root]
    BY ONLY <2>2, <2>3, <2>5 DEF TreeOf
  <2>4. files[Root] \in Trees(Objects)
    BY <2>1, FileType, Kinds DEF RootWritten
  <2> QED BY <2>4, <2>6 DEF RootWritten
<1>2. CASE ws.root # RootRef
  <2>1. ws.root \in IdRefs(trees)
    BY <1>2 DEF WorkspaceObjs
  <2>2. IsIdRef(ws.root) /\ ~IsPathRef(ws.root) /\ ws.root.id \in trees
    BY <2>1 DEF IdRefs, IsIdRef, IsPathRef
  <2>3. TreeOf(ws.root) = ws.root.id
    BY <2>2 DEF TreeOf
  <2> QED BY <2>2, <2>3, StoredTypes DEF Trees, IsTree
<1> QED BY <1>1, <1>2

(* Whatever a call finds on entering createPath.                           *)
LEMMA EnterType ==
    ASSUME IInv, NEW h \in Handle, mem[h] # None,
           NEW op \in PathOps, NEW p \in Path, NEW leaf \in Entities(datas) \union {None},
           op = "store" => leaf # None,
           calls[h] = <<>> \/ RootWritten
    PROVE  /\ PathCall(op, p, leaf, RootTree(mem[h])) \in PathFrames
           /\ RootMadeTransient(mem[h]) \in WorkspaceObjs(trees, Len(commits))
           /\ RootMadeTransient(mem[h]).root = RootRef
           /\ Tracks(RootMadeTransient(mem[h]))
           /\ ~RootWritten => BeforeRoot(PathCall(op, p, leaf, RootTree(mem[h])))
<1> DEFINE ws == mem[h]
<1>1. Inv /\ ws \in WorkspaceObjs(trees, Len(commits))
  BY DEF IInv, Inv, TypeOK
<1>2. RootTree(ws) \in Trees(Objects)
  <2>1. ws.root = None => RootTree(ws) = EmptyTree
    BY DEF RootTree
  <2>2. ~RootWritten => ws.root = None
    BY DEF IInv, RootInv, Unwritten
  <2>3. ws.root # None => RootTree(ws) = TreeOf(ws.root)
    BY DEF RootTree
  <2> QED BY <1>1, <2>1, <2>2, <2>3, RootReadable, EmptyTreeType
<1>3. ~RootWritten => RootTree(ws) = EmptyTree
  BY DEF IInv, RootInv, Unwritten, RootTree
<1> DEFINE t == RootTree(ws)
<1> HIDE DEF t
<1>4. PathCall(op, p, leaf, t) \in PathFrames
  <2>1. <<t>> \in Seq(Trees(Objects)) /\ Len(<<t>>) = 1 /\ <<t>> # <<>>
    BY <1>2 DEF t
  <2>2. 1 \in 1..Len(p)
    BY PathLength
  <2> QED BY <2>1, <2>2 DEF PathCall, PathFrames, PathOps
<1>5. ~RootWritten => BeforeRoot(PathCall(op, p, leaf, t))
  <2>1. Last(<<t>>) = t
    BY DEF Last
  <2> QED BY <1>3, <2>1 DEF BeforeRoot, PathCall, t
<1>6. /\ RootMadeTransient(ws) \in WorkspaceObjs(trees, Len(commits))
      /\ RootMadeTransient(ws).root = RootRef
      /\ Tracks(RootMadeTransient(ws))
  <2>1. CASE IsPathRef(ws.root)
    <3>1. ws.root = RootRef
      BY <1>1, <2>1 DEF WorkspaceObjs, IsPathRef, IdRefs, None
    <3>2. Tracks(ws)
      BY DEF IInv, RootInv
    <3> QED BY <1>1, <2>1, <3>1, <3>2 DEF RootMadeTransient
  <2>2. CASE ~IsPathRef(ws.root)
    BY <1>1, <2>2 DEF RootMadeTransient, WorkspaceObjs, Tracks, RootRef, PathRef, None
  <2> QED BY <2>1, <2>2
<1> QED BY <1>4, <1>5, <1>6 DEF t

-----------------------------------------------------------------------------
(* What a step leaves alone keeps its type, though the store may grow.     *)

(* A variable that a step leaves alone keeps its type when the store grows. *)
LEMMA TypesStay ==
    ASSUME Inv, StoreGrows
    PROVE  /\ UNCHANGED files =>
                files' \in [Node -> Trees(Objects') \union Entities(datas') \union {None}]
           /\ UNCHANGED disk => disk' \in WorkspaceObjs(trees', Len(commits')) \union {None}
           /\ UNCHANGED mem => mem' \in [Handle -> WorkspaceObjs(trees', Len(commits')) \union {None}]
           /\ UNCHANGED calls => calls' \in [Handle -> Seq(Frames')]
<1>1. Seq(Frames) \subseteq Seq(Frames')
  BY FramesGrow, Wider
<1> QED BY <1>1, ValuesGrow DEF Inv, TypeOK

(* A step that leaves the store alone leaves it closed. *)
LEMMA StoreStays ==
    ASSUME Inv, UNCHANGED store
    PROVE  /\ StoreGrows
           /\ StoreClosed'
           /\ trees' = trees /\ entities' = entities /\ datas' = datas /\ commits' = commits
           /\ Objects' = Objects
           /\ Visits' = Visits
           /\ PathFrames' = PathFrames
           /\ RemoveFrames' = RemoveFrames
           /\ CommitFrames' = CommitFrames
           /\ Frames' = Frames
<1>1. trees' = trees /\ entities' = entities /\ datas' = datas /\ commits' = commits
  BY DEF store
<1>2. Len(commits) \in Nat
  BY StoredTypes
<1>3. StoreGrows
  BY <1>1, <1>2 DEF StoreGrows
<1>4. StoreClosed'
  BY <1>1 DEF Inv, StoreClosed, PersistedRefs, Objects
<1>5. Objects' = Objects
  BY <1>1 DEF Objects
<1>6. Visits' = Visits
  BY <1>5 DEF Visits
<1>7. PathFrames' = PathFrames
  BY <1>1, <1>5 DEF PathFrames
<1>8. RemoveFrames' = RemoveFrames
  BY <1>6 DEF RemoveFrames
<1>9. Currents' = Currents
  BY <1>1 DEF Currents
<1>10. CommitFrames' = CommitFrames
  BY <1>1, <1>5, <1>6, <1>9 DEF CommitFrames
<1> QED BY <1>1, <1>3, <1>4, <1>5, <1>6, <1>7, <1>8, <1>10 DEF Frames

(* The type of the files after one of them has been written or removed.    *)
LEMMA FilesType ==
    ASSUME Inv, StoreGrows, NEW q,
           NEW obj \in Trees(Objects) \union Entities(datas) \union {None},
           files' = [files EXCEPT ![q] = obj]
    PROVE  files' \in [Node -> Trees(Objects') \union Entities(datas') \union {None}]
<1> DEFINE Old == Trees(Objects) \union Entities(datas) \union {None}
           New == Trees(Objects') \union Entities(datas') \union {None}
<1>1. files \in [Node -> Old] /\ obj \in Old
  BY DEF Inv, TypeOK
<1>2. Old \subseteq New
  BY ValuesGrow
<1> HIDE DEF Old, New
<1>3. files' \in [Node -> New]
  BY <1>1, <1>2
<1> QED BY <1>3 DEF New

(* No step but StoreRoot touches the root's file.                          *)
LEMMA RootFileStays ==
    ASSUME NEW q, NEW obj, q # Root, files' = [files EXCEPT ![q] = obj]
    PROVE  RootWritten' = RootWritten
BY DEF RootWritten

-----------------------------------------------------------------------------
(* How the stack of frames changes.                                        *)

(* A stack with one more frame on top. *)
LEMMA OnTop ==
    ASSUME NEW S, NEW s \in Seq(S), NEW x
    PROVE  /\ Len(<<x>> \o s) = Len(s) + 1
           /\ Head(<<x>> \o s) = x
           /\ Tail(<<x>> \o s) = s
           /\ (<<x>> \o s) # <<>>
           /\ \A i \in 1..Len(<<x>> \o s) :
                 (<<x>> \o s)[i] = IF i = 1 THEN x ELSE s[i - 1]
<1> DEFINE T == S \union {x}
<1>1. s \in Seq(T) /\ <<x>> \in Seq(T) /\ Len(<<x>>) = 1 /\ <<x>>[1] = x
  BY Wider
<1>2. Len(s) \in Nat
  BY LenProperties
<1> HIDE DEF T
<1>3. /\ <<x>> \o s \in Seq(T)
      /\ Len(<<x>> \o s) = 1 + Len(s)
      /\ \A i \in 1..(1 + Len(s)) : (<<x>> \o s)[i] = IF i <= 1 THEN <<x>>[i] ELSE s[i - 1]
  BY <1>1, ConcatProperties
<1>4. \A i \in 1..(1 + Len(s)) : (<<x>> \o s)[i] = IF i = 1 THEN x ELSE s[i - 1]
  BY <1>1, <1>2, <1>3
<1>5. <<x>> \o s # <<>>
  BY <1>2, <1>3, EmptySeq
<1>6. Head(<<x>> \o s) = x
  BY <1>2, <1>3, <1>4, <1>5, HeadTailProperties
<1>7. Tail(<<x>> \o s) = s
  BY <1>1, HeadTailProperties
<1> QED BY <1>2, <1>3, <1>4, <1>5, <1>6, <1>7

(* No commit comes in with a frame that is none. *)
LEMMA NoCommitOnTop ==
    ASSUME NEW S, NEW s \in Seq(S), NEW x, x.op # "commit",
           \A i \in 1..Len(s) : s[i].op # "commit"
    PROVE  \A i \in 1..Len(<<x>> \o s) : (<<x>> \o s)[i].op # "commit"
<1> DEFINE t == <<x>> \o s
<1>1. /\ Len(t) = Len(s) + 1
      /\ \A i \in 1..Len(t) : t[i] = IF i = 1 THEN x ELSE s[i - 1]
  BY OnTop
<1>2. Len(s) \in Nat
  BY LenProperties
<1> HIDE DEF t
<1>3. \A i \in 1..Len(t) : t[i].op # "commit"
  <2> SUFFICES ASSUME NEW i \in 1..Len(t) PROVE t[i].op # "commit"
    OBVIOUS
  <2>1. CASE i = 1
    BY <1>1, <2>1
  <2>2. CASE i # 1
    <3>1. i - 1 \in 1..Len(s)
      BY <1>1, <1>2, <2>2
    <3>2. t[i] = s[i - 1]
      BY <1>1, <2>2
    <3> QED BY <3>1, <3>2
  <2> QED BY <2>1, <2>2
<1> QED BY <1>3 DEF t

(* The frames below the top one. *)
LEMMA BelowTop ==
    ASSUME NEW S, NEW s \in Seq(S), s # <<>>
    PROVE  /\ Len(Tail(s)) = Len(s) - 1
           /\ Head(s) = s[1]
           /\ \A i \in 1..Len(Tail(s)) : i + 1 \in 1..Len(s) /\ Tail(s)[i] = s[i + 1]
<1>1. Len(s) \in Nat \ {0}
  BY LenProperties, EmptySeq
<1> QED BY <1>1, HeadTailProperties

(* A call goes on with its top frame f.                                    *)
LEMMA RootOnContinue ==
    ASSUME IInv, NEW h \in Handle, calls[h] # <<>>, NEW f,
           Continue(h, f),
           f.op = "commit" <=> Top(h).op = "commit",
           UNCHANGED disk,
           mem' = mem \/ (Top(h).op # "commit" /\ \E places : Track(h, places)),
           RootWritten => RootWritten',
           RootWritten' \/ (trees' = trees /\ BeforeRoot(f))
    PROVE  RootInv'
<1>1. /\ calls \in [Handle -> Seq(Frames)]
      /\ mem \in [Handle -> WorkspaceObjs(trees, Len(commits)) \union {None}]
  BY DEF IInv, TypeOK
<1>2. /\ calls' = [calls EXCEPT ![h] = <<f>> \o Tail(calls[h])]
      /\ calls[h] \in Seq(Frames) /\ Tail(calls[h]) \in Seq(Frames)
  BY <1>1, Ends DEF Continue
<1> DEFINE new == <<f>> \o Tail(calls[h])
<1>3. /\ new # <<>> /\ Head(new) = f /\ Len(new) = Len(calls[h])
      /\ \A i \in 1..Len(new) : new[i] = IF i = 1 THEN f ELSE calls[h][i]
  <2>1. Len(calls[h]) \in Nat \ {0}
    BY <1>2, Ends
  <2>2. /\ Len(Tail(calls[h])) = Len(calls[h]) - 1
        /\ \A i \in 1..Len(Tail(calls[h])) : Tail(calls[h])[i] = calls[h][i + 1]
    BY <1>2, BelowTop
  <2>3. /\ Len(new) = Len(Tail(calls[h])) + 1 /\ Head(new) = f /\ new # <<>>
        /\ \A i \in 1..Len(new) : new[i] = IF i = 1 THEN f ELSE Tail(calls[h])[i - 1]
    BY <1>2, OnTop
  <2> HIDE DEF new
  <2> QED BY <2>1, <2>2, <2>3
<1> HIDE DEF new
<1>4. /\ calls'[h] = new
      /\ \A g \in Handle \ {h} : calls'[g] = calls[g]
  BY <1>1, <1>2 DEF new
<1>5. /\ \A g \in Handle \ {h} : mem'[g] = mem[g]
      /\ mem[h] # None
      /\ mem'[h].root = mem[h].root
      /\ mem[h].tracked \subseteq mem'[h].tracked
      /\ mem[h].root # RootRef => mem'[h] = mem[h]
  <2>1. mem[h] # None /\ (Top(h).op # "commit" => mem[h].root = RootRef)
    BY DEF IInv, RootInv, InCall
  <2>2. mem[h] \in WorkspaceObjs(trees, Len(commits))
    BY <1>1, <2>1
  <2> QED BY <1>1, <2>1, <2>2 DEF Track, WorkspaceObjs
<1>6. mem'[h] # None
  <2>1. mem[h] \in WorkspaceObjs(trees, Len(commits))
    BY <1>1, <1>5
  <2>2. ASSUME NEW places, Track(h, places) PROVE mem'[h] # None
    <3>1. mem'[h] = [mem[h] EXCEPT !.tracked = @ \union places]
      BY <1>1, <2>2 DEF Track
    <3>2. "parent" \in DOMAIN mem[h]
      BY <2>1 DEF WorkspaceObjs
    <3>3. "parent" \in DOMAIN mem'[h]
      BY <3>1, <3>2
    <3>4. "parent" \notin DOMAIN None
      BY DEF None
    <3> QED BY <3>3, <3>4
  <2> QED BY <1>5, <2>2
<1>7. \A g \in Handle : mem'[g] # None => Tracks(mem'[g])
  BY <1>5, <1>6 DEF IInv, RootInv, Tracks, RootRef, PathRef, None, IsPathRef
<1>8. \A g \in Handle : calls'[g] # <<>> => InCall(g)'
  <2>1. InCall(h)
    BY DEF IInv, RootInv
  <2>2. InCall(h)'
    BY <1>3, <1>4, <1>5, <1>6, <2>1 DEF InCall, Top
  <2>3. \A g \in Handle \ {h} : calls[g] # <<>> => InCall(g)'
    BY <1>4, <1>5 DEF IInv, RootInv, InCall, Top
  <2> QED BY <1>4, <2>2, <2>3
<1>9. RootWritten' \/ \A g \in Handle : Unwritten(g)'
  <2> SUFFICES ASSUME ~RootWritten', NEW g \in Handle PROVE Unwritten(g)'
    OBVIOUS
  <2>1. Unwritten(g) /\ Unwritten(h) /\ BeforeRoot(f)
    BY DEF IInv, RootInv
  <2>2. CASE g = h
    BY <1>3, <1>4, <2>1, <2>2 DEF Unwritten, Top
  <2>3. CASE g # h
    BY <1>4, <1>5, <2>1, <2>3 DEF Unwritten, Top
  <2> QED BY <2>2, <2>3
<1>10. disk' = disk
  OBVIOUS
<1> QED BY <1>7, <1>8, <1>9, <1>10 DEF IInv, RootInv

(* A frame other than a commit's returns.                                  *)
LEMMA RootOnReturn ==
    ASSUME IInv, NEW h \in Handle, calls[h] # <<>>,
           Return(h), Top(h).op # "commit",
           UNCHANGED mem, disk' = disk \/ disk' = mem[h],
           RootWritten, RootWritten'
    PROVE  RootInv'
<1>1. /\ calls \in [Handle -> Seq(Frames)]
      /\ calls[h] \in Seq(Frames)
      /\ calls' = [calls EXCEPT ![h] = Tail(calls[h])]
  BY DEF IInv, TypeOK, Return
<1>2. /\ calls'[h] = Tail(calls[h])
      /\ \A g \in Handle \ {h} : calls'[g] = calls[g]
  BY <1>1
<1>3. /\ mem[h] # None /\ mem[h].root = RootRef
      /\ \A i \in 1..Len(calls[h]) : calls[h][i].op # "commit"
  BY DEF IInv, RootInv, InCall
<1>4. \A i \in 1..Len(Tail(calls[h])) : Tail(calls[h])[i].op # "commit"
  BY <1>1, <1>3, BelowTop
<1>5. InCall(h)'
  BY <1>2, <1>3, <1>4 DEF InCall
<1>6. \A g \in Handle : calls'[g] # <<>> => InCall(g)'
  BY <1>2, <1>5 DEF IInv, RootInv, InCall, Top
<1>7. \A g \in Handle : mem'[g] # None => Tracks(mem'[g])
  BY DEF IInv, RootInv
<1>8. disk' # None => Tracks(disk')
  BY <1>3 DEF IInv, RootInv
<1> QED BY <1>6, <1>7, <1>8 DEF RootInv

(* A handle is at rest afterwards, with a workspace object or without.     *)
LEMMA RootAtRest ==
    ASSUME IInv, NEW h \in Handle, NEW ws,
           mem' = [mem EXCEPT ![h] = ws], ws # None => Tracks(ws),
           calls' = [calls EXCEPT ![h] = <<>>],
           disk' # None => Tracks(disk'),
           RootWritten' = RootWritten,
           UNCHANGED trees,
           RootWritten \/ (/\ ws = None \/ ws.root = None
                           /\ disk' = None \/ disk'.root = None)
    PROVE  RootInv'
<1>1. calls \in [Handle -> Seq(Frames)] /\ mem \in [Handle -> WorkspaceObjs(trees, Len(commits)) \union {None}]
  BY DEF IInv, TypeOK
<1>2. /\ calls'[h] = <<>> /\ mem'[h] = ws
      /\ \A g \in Handle \ {h} : calls'[g] = calls[g] /\ mem'[g] = mem[g]
  BY <1>1
<1>3. \A g \in Handle : mem'[g] # None => Tracks(mem'[g])
  BY <1>2 DEF IInv, RootInv
<1>4. \A g \in Handle : calls'[g] # <<>> => InCall(g)'
  BY <1>2 DEF IInv, RootInv, InCall, Top
<1>5. RootWritten' \/ \A g \in Handle : Unwritten(g)'
  <2> SUFFICES ASSUME ~RootWritten', NEW g \in Handle PROVE Unwritten(g)'
    OBVIOUS
  <2>1. Unwritten(g) /\ (ws = None \/ ws.root = None)
    BY DEF IInv, RootInv
  <2>2. CASE g = h
    BY <1>2, <2>1, <2>2 DEF Unwritten
  <2>3. CASE g # h
    BY <1>2, <2>1, <2>3 DEF Unwritten, Top
  <2> QED BY <2>2, <2>3
<1>6. RootWritten' \/ (trees' = {} /\ (disk' = None \/ disk'.root = None))
  BY DEF IInv, RootInv
<1> QED BY <1>3, <1>4, <1>5, <1>6 DEF RootInv

(* The process of a handle ends: CloseWorkspace, Crash, assertions.        *)
LEMMA Ended ==
    ASSUME IInv, NEW h \in Handle,
           mem' = [mem EXCEPT ![h] = None],
           calls' = [calls EXCEPT ![h] = <<>>],
           UNCHANGED <<store, transient, disk>>,
           failed' \subseteq {198, 333}, crashes' \in Nat
    PROVE  IInv'
<1>1. Inv /\ UNCHANGED store /\ UNCHANGED files /\ UNCHANGED edata /\ UNCHANGED disk
  BY IInvInv DEF transient
<1>2. StoreGrows /\ StoreClosed' /\ trees' = trees /\ datas' = datas /\ commits' = commits /\ Frames' = Frames
  BY <1>1, StoreStays
<1>3. /\ files' \in [Node -> Trees(Objects') \union Entities(datas') \union {None}]
      /\ disk' \in WorkspaceObjs(trees', Len(commits')) \union {None}
  BY <1>1, <1>2, TypesStay
<1>4. /\ mem' \in [Handle -> WorkspaceObjs(trees, Len(commits)) \union {None}]
      /\ calls' \in [Handle -> Seq(Frames)]
  <2>1. <<>> \in Seq(Frames)
    BY EmptySeq
  <2> QED BY <2>1, <1>1 DEF Inv, TypeOK
<1>5. TypeOK'
  BY <1>1, <1>2, <1>3, <1>4 DEF Inv, TypeOK
<1>6. RootWritten' = RootWritten
  BY <1>1 DEF RootWritten
<1>7. RootInv'
  <2>1. disk' # None => Tracks(disk')
    BY <1>1 DEF IInv, RootInv
  <2>2. RootWritten \/ disk' = None \/ disk'.root = None
    BY <1>1 DEF IInv, RootInv
  <2> QED BY <1>2, <1>6, <2>1, <2>2, RootAtRest
<1> QED BY <1>2, <1>5, <1>7 DEF IInv

(* A client enters createPath, or deleteObject<Tree> does, with the frames *)
(* rest below the new one.                                                 *)
LEMMA Entered ==
    ASSUME IInv, NEW h \in Handle, mem[h] # None,
           NEW op \in PathOps, NEW p \in Path, NEW leaf \in Entities(datas) \union {None},
           op = "store" => leaf # None,
           NEW rest \in Seq(Frames),
           calls[h] = <<>> \/ RootWritten,
           rest = <<>> \/ RootWritten,
           \A i \in 1..Len(rest) : rest[i].op # "commit",
           EnterPath(h, op, p, leaf, rest),
           UNCHANGED <<store, transient, disk, failed, crashes>>
    PROVE  IInv'
<1> DEFINE f == PathCall(op, p, leaf, RootTree(mem[h]))
           ws == RootMadeTransient(mem[h])
           new == <<f>> \o rest
<1>1. /\ Inv /\ UNCHANGED store /\ UNCHANGED files /\ UNCHANGED edata /\ UNCHANGED disk
      /\ UNCHANGED failed /\ UNCHANGED crashes
  BY IInvInv DEF transient
<1>2. StoreGrows /\ StoreClosed' /\ trees' = trees /\ datas' = datas /\ commits' = commits /\ Frames' = Frames
  BY <1>1, StoreStays
<1>3. /\ files' \in [Node -> Trees(Objects') \union Entities(datas') \union {None}]
      /\ disk' \in WorkspaceObjs(trees', Len(commits')) \union {None}
  BY <1>1, <1>2, TypesStay
<1>4. /\ f \in PathFrames /\ f.op = op
      /\ ws \in WorkspaceObjs(trees, Len(commits)) /\ ws.root = RootRef /\ Tracks(ws)
      /\ ~RootWritten => BeforeRoot(f)
  <2>1. f.op = op
    BY DEF PathCall
  <2> QED BY <2>1, EnterType
<1>5. ws # None
  BY <1>4 DEF WorkspaceObjs, None
<1> HIDE DEF f, ws
<1>6. /\ new \in Seq(Frames) /\ Len(new) = Len(rest) + 1 /\ Head(new) = f
      /\ new # <<>>
      /\ \A i \in 1..Len(new) : new[i] = IF i = 1 THEN f ELSE rest[i - 1]
  <2>1. f \in Frames
    BY <1>4 DEF Frames
  <2> QED BY <2>1, Push, OnTop
<1>7. /\ mem' = [mem EXCEPT ![h] = ws]
      /\ calls' = [calls EXCEPT ![h] = new]
  BY DEF EnterPath, f, ws
<1> HIDE DEF new
<1>8. TypeOK'
  <2>1. mem' \in [Handle -> WorkspaceObjs(trees, Len(commits)) \union {None}]
    BY <1>1, <1>4, <1>7 DEF Inv, TypeOK
  <2>2. calls' \in [Handle -> Seq(Frames)]
    BY <1>1, <1>6, <1>7 DEF Inv, TypeOK
  <2> QED BY <1>1, <1>2, <1>3, <2>1, <2>2 DEF Inv, TypeOK
<1>9. /\ mem'[h] = ws /\ calls'[h] = new
      /\ \A g \in Handle \ {h} : mem'[g] = mem[g] /\ calls'[g] = calls[g]
  BY <1>1, <1>7 DEF Inv, TypeOK
<1>10. RootWritten' = RootWritten
  BY <1>1 DEF RootWritten
<1>11. \A g \in Handle : mem'[g] # None => Tracks(mem'[g])
  BY <1>4, <1>9 DEF IInv, RootInv
<1>12. \A g \in Handle : calls'[g] # <<>> => InCall(g)'
  <2>1. Len(rest) \in Nat
    BY LenProperties
  <2>2. \A i \in 1..Len(new) : new[i].op # "commit"
    <3>1. f.op # "commit"
      BY <1>4 DEF PathOps
    <3> QED BY <3>1, NoCommitOnTop DEF new
  <2>3. InCall(h)'
    BY <1>4, <1>5, <1>9, <2>2 DEF InCall
  <2> QED BY <1>9, <2>3 DEF IInv, RootInv, InCall, Top
<1>13. RootWritten' \/ \A g \in Handle : Unwritten(g)'
  <2> SUFFICES ASSUME ~RootWritten, NEW g \in Handle PROVE Unwritten(g)'
    BY <1>10
  <2>1. Unwritten(g) /\ rest = <<>> /\ BeforeRoot(f)
    BY <1>4 DEF IInv, RootInv
  <2>2. CASE g = h
    <3>1. Len(new) = 1
      BY <1>6, <2>1, EmptySeq
    <3> QED BY <1>6, <1>9, <2>1, <2>2, <3>1 DEF Unwritten, Top
  <2>3. CASE g # h
    BY <1>9, <2>1, <2>3 DEF Unwritten, Top
  <2> QED BY <2>2, <2>3
<1>14. RootInv'
  BY <1>1, <1>2, <1>10, <1>11, <1>12, <1>13 DEF IInv, RootInv
<1> QED BY <1>2, <1>8, <1>14 DEF IInv

(* A call goes on with frame f, on whatever files and store it has made.   *)
LEMMA Continued ==
    ASSUME IInv, StoreGrows, StoreClosed',
           NEW h \in Handle, calls[h] # <<>>, NEW f \in Frames',
           Continue(h, f),
           f.op = "commit" <=> Top(h).op = "commit",
           datas' \subseteq Data,
           files' \in [Node -> Trees(Objects') \union Entities(datas') \union {None}],
           edata' \in [Path -> Data \union {None}],
           UNCHANGED <<disk, failed, crashes>>,
           \/ mem' = mem
           \/ Top(h).op # "commit" /\ \E places \in SUBSET PathRefs : Track(h, places),
           RootWritten => RootWritten',
           RootWritten' \/ (trees' = trees /\ BeforeRoot(f))
    PROVE  IInv'
<1>1. Inv /\ UNCHANGED disk /\ UNCHANGED failed /\ UNCHANGED crashes
  BY IInvInv
<1>2. calls' \in [Handle -> Seq(Frames')]
  BY <1>1, ContinueType
<1>3. disk' \in WorkspaceObjs(trees', Len(commits')) \union {None}
  BY <1>1, TypesStay
<1>4. mem' \in [Handle -> WorkspaceObjs(trees', Len(commits')) \union {None}]
  <2>1. CASE mem' = mem
    BY <1>1, <2>1, TypesStay
  <2>2. ASSUME Top(h).op # "commit", NEW places \in SUBSET PathRefs, Track(h, places)
        PROVE  mem' \in [Handle -> WorkspaceObjs(trees, Len(commits)) \union {None}]
    <3>1. mem[h] \in WorkspaceObjs(trees, Len(commits))
      BY <1>1 DEF IInv, RootInv, InCall, Inv, TypeOK
    <3>2. [mem[h] EXCEPT !.tracked = mem[h].tracked \union places] \in WorkspaceObjs(trees, Len(commits))
      BY <3>1 DEF WorkspaceObjs
    <3> QED BY <1>1, <2>2, <3>2 DEF Track, Inv, TypeOK
  <2> QED BY <2>1, <2>2, ValuesGrow
<1>5. failed' \subseteq {198, 333} /\ crashes' \in Nat
  BY <1>1 DEF Inv, TypeOK
<1>6. RootInv'
  <2>1. mem' = mem \/ (Top(h).op # "commit" /\ \E places : Track(h, places))
    OBVIOUS
  <2> QED BY <1>1, <2>1, RootOnContinue
<1>7. TypeOK'
  BY <1>2, <1>3, <1>4, <1>5 DEF TypeOK
<1> QED BY <1>6, <1>7 DEF IInv

(* The same when the store stays as it is.                                 *)
LEMMA ContinuedOutside ==
    ASSUME IInv, UNCHANGED <<store, disk, failed, crashes>>,
           NEW h \in Handle, calls[h] # <<>>, NEW f \in Frames,
           Continue(h, f),
           f.op = "commit" <=> Top(h).op = "commit",
           UNCHANGED files
             \/ \E q \in Node, obj \in Trees(Objects) \union Entities(datas) \union {None} :
                    files' = [files EXCEPT ![q] = obj] /\ (q = Root => IsTree(obj)),
           edata' \in [Path -> Data \union {None}],
           \/ mem' = mem
           \/ Top(h).op # "commit" /\ \E places \in SUBSET PathRefs : Track(h, places),
           RootWritten' \/ BeforeRoot(f)
    PROVE  IInv'
<1>1. Inv /\ UNCHANGED store
  BY IInvInv
<1>2. /\ StoreGrows /\ StoreClosed'
      /\ trees' = trees /\ datas' = datas /\ commits' = commits /\ Objects' = Objects /\ Frames' = Frames
  BY <1>1, StoreStays
<1>3. files' \in [Node -> Trees(Objects') \union Entities(datas') \union {None}]
  BY <1>1, <1>2, TypesStay, FilesType
<1>4. RootWritten => RootWritten'
  <2>1. CASE UNCHANGED files
    BY <2>1 DEF RootWritten
  <2>2. ASSUME NEW q \in Node, NEW obj, files' = [files EXCEPT ![q] = obj], q = Root => IsTree(obj)
        PROVE  RootWritten => RootWritten'
    BY <1>1, <2>2 DEF RootWritten, Inv, TypeOK, Node
  <2> QED BY <2>1, <2>2
<1>5. datas' \subseteq Data
  BY <1>1, <1>2 DEF Inv, TypeOK
<1>6. UNCHANGED <<disk, failed, crashes>>
  OBVIOUS
<1> QED BY <1>1, <1>2, <1>3, <1>4, <1>5, <1>6, Continued

-----------------------------------------------------------------------------
(* Every step keeps the invariant: the steps of createPath.                *)

(* The running frame of createPath. *)
LEMMA PathTop ==
    ASSUME IInv, NEW h \in Handle, calls[h] # <<>>, Top(h).op \in PathOps
    PROVE  /\ Top(h) \in PathFrames
           /\ Top(h).op # "commit"
           /\ Inv
           /\ ~RootWritten => BeforeRoot(Top(h)) /\ Top(h).dir # "save"
<1>1. Top(h) \in PathFrames /\ Inv
  BY IInvInv, TopKind DEF PathOps
<1>2. ~RootWritten => BeforeRoot(Top(h)) /\ Top(h).dir # "save"
  BY DEF IInv, RootInv, Unwritten, BeforeRoot, PathOps
<1> QED BY <1>1, <1>2 DEF PathOps

(* The running frame of createPath on its way down. *)
LEMMA DownTop ==
    ASSUME IInv, NEW h \in Handle, Descending(h)
    PROVE  /\ calls[h] # <<>> /\ Top(h) \in PathFrames /\ Top(h).op # "commit"
           /\ Top(h).op \in PathOps
           /\ Top(h).dir = "down"
           /\ Top(h).at \in 1..Len(Top(h).path)
           /\ Top(h).trees \in Seq(Trees(Objects)) /\ Len(Top(h).trees) = Top(h).at
           /\ SegRef(Top(h)) \in Refs(Objects)
           /\ SegPlace(Top(h)) \in PathRefs
           /\ ~RootWritten => SegRef(Top(h)) = None
<1>1. /\ calls[h] # <<>> /\ Top(h) \in PathFrames /\ Top(h).op # "commit"
      /\ Top(h).op \in PathOps /\ Top(h).dir = "down"
      /\ ~RootWritten => BeforeRoot(Top(h))
  BY PathTop DEF Descending, PathOps
<1>2. /\ Top(h).at \in 1..Len(Top(h).path)
      /\ Top(h).trees \in Seq(Trees(Objects)) /\ Len(Top(h).trees) = Top(h).at
      /\ Top(h).path \in Path
  BY <1>1 DEF PathFrames
<1>3. ~RootWritten => SegRef(Top(h)) = None
  <2>1. Top(h).path[Top(h).at] \in Name
    BY <1>2, PrefixIsPath
  <2>2. ~RootWritten => Last(Top(h).trees) = EmptyTree
    BY <1>1 DEF BeforeRoot, PathOps
  <2> QED BY <2>1, <2>2 DEF SegRef, EmptyTree, TreeObj
<1> QED BY <1>1, <1>2, <1>3, SegType

(* The same frame, in another direction.                                   *)
LEMMA TurnType ==
    ASSUME NEW f \in PathFrames, NEW d \in {"root", "save"}
    PROVE  [f EXCEPT !.dir = d] \in PathFrames
BY DEF PathFrames

(* Descend: one more tree is collected and perhaps tracked. *)
LEMMA DescendStep ==
    ASSUME IInv, NEW h \in Handle, Descend(h)
    PROVE  IInv'
<1> DEFINE f == Top(h)
           ref == SegRef(f)
           child == SegTree(ref)
           g == [f EXCEPT !.trees = Append(f.trees, child), !.at = f.at + 1]
<1>1. /\ Inv /\ calls[h] # <<>> /\ f \in PathFrames /\ f.op # "commit" /\ f.op \in PathOps
      /\ f.dir = "down"
      /\ f.at \in 1..Len(f.path) /\ f.trees \in Seq(Trees(Objects)) /\ Len(f.trees) = f.at
      /\ SegPlace(f) \in PathRefs /\ f.at # Len(f.path) /\ child # None
      /\ ~RootWritten => ref = None
  BY DownTop, IInvInv DEF Descend, AtLeaf
<1>2. child \in Trees(Objects)
  BY <1>1, TreeOfType, EmptyTreeType DEF SegTree
<1>3. ~RootWritten => child = EmptyTree
  BY <1>1 DEF SegTree
<1> HIDE DEF child
<1>4. /\ Append(f.trees, child) \in Seq(Trees(Objects))
      /\ Append(f.trees, child) # <<>>
      /\ Len(Append(f.trees, child)) = f.at + 1
      /\ Last(Append(f.trees, child)) = child
  <2>1. Len(f.trees) \in Nat
    BY <1>1, LenProperties
  <2> QED BY <1>1, <1>2, <2>1, AppendProperties DEF Last
<1> DEFINE ts == Append(f.trees, child)
<1>5. Len(f.path) \in Nat /\ f.at + 1 \in 1..Len(f.path) /\ f.at + 1 \in Nat
  <2>1. Len(f.path) \in Nat
    BY <1>1, PathLength DEF PathFrames
  <2> QED BY <1>1, <2>1
<1>6. /\ g \in PathFrames /\ g.op = f.op /\ g.dir = "down" /\ g.trees = ts
  <2> HIDE DEF ts
  <2>1. [f EXCEPT !.trees = ts, !.at = f.at + 1] \in PathFrames
    BY <1>1, <1>4, <1>5 DEF PathFrames, ts
  <2>2. /\ [f EXCEPT !.trees = ts, !.at = f.at + 1].op = f.op
        /\ [f EXCEPT !.trees = ts, !.at = f.at + 1].dir = "down"
        /\ [f EXCEPT !.trees = ts, !.at = f.at + 1].trees = ts
    BY <1>1 DEF PathFrames
  <2> QED BY <2>1, <2>2 DEF ts
<1>7. Continue(h, g) /\ UNCHANGED <<store, transient, disk, failed, crashes>>
  BY DEF Descend, child
<1>8. \E places \in SUBSET PathRefs : Track(h, places)
  <2>1. Track(h, IF IsPathRef(ref) THEN {} ELSE {SegPlace(f)})
    BY DEF Descend
  <2> QED BY <1>1, <2>1
<1> HIDE DEF g
<1>9. edata' \in [Path -> Data \union {None}] /\ UNCHANGED files
      /\ UNCHANGED <<store, disk, failed, crashes>> /\ RootWritten' = RootWritten
  BY <1>1, <1>7 DEF transient, Inv, TypeOK, RootWritten
<1>10. RootWritten' \/ BeforeRoot(g)
  BY <1>1, <1>3, <1>4, <1>6, <1>9 DEF BeforeRoot
<1> QED BY <1>1, <1>6, <1>7, <1>8, <1>9, <1>10, ContinuedOutside DEF Frames

(* BlockedBelowEntity: the walk ends early, with a tree at hand. *)
LEMMA BlockedStep ==
    ASSUME IInv, NEW h \in Handle, BlockedBelowEntity(h)
    PROVE  IInv'
<1> DEFINE f == Top(h)
           g == [f EXCEPT !.dir = "root"]
<1>1. Inv /\ calls[h] # <<>> /\ f \in PathFrames /\ f.op # "commit" /\ f.op \in PathOps
  BY DownTop, IInvInv DEF BlockedBelowEntity
<1>2. g \in PathFrames /\ g.op = f.op /\ g.dir = "root"
  BY <1>1, TurnType DEF PathFrames
<1>3. Continue(h, g) /\ UNCHANGED <<store, transient, disk, mem, failed, crashes>>
  BY DEF BlockedBelowEntity
<1> HIDE DEF g
<1>4. edata' \in [Path -> Data \union {None}] /\ UNCHANGED files /\ mem' = mem
      /\ UNCHANGED <<store, disk, failed, crashes>>
  BY <1>1, <1>3 DEF transient, Inv, TypeOK
<1>5. BeforeRoot(g)
  BY <1>1, <1>2 DEF BeforeRoot
<1> QED BY <1>1, <1>2, <1>3, <1>4, <1>5, ContinuedOutside DEF Frames

(* SegUntracked: assertion 333 ends the process. *)
LEMMA SegUntrackedStep ==
    ASSUME IInv, NEW h \in Handle, SegUntracked(h)
    PROVE  IInv'
<1>1. /\ failed' = failed \union {333}
      /\ mem' = [mem EXCEPT ![h] = None]
      /\ calls' = [calls EXCEPT ![h] = <<>>]
      /\ UNCHANGED <<store, transient, disk, crashes>>
  BY DEF SegUntracked, Abort
<1>2. failed' \subseteq {198, 333} /\ crashes' \in Nat
  BY <1>1 DEF IInv, TypeOK
<1> QED BY <1>1, <1>2, Ended

(* Coming up from the leaf.                                                *)
LEMMA AscendFromLeaf ==
    ASSUME IInv, NEW h \in Handle, Descending(h), NEW ref \in Refs(Objects)
    PROVE  /\ Ascend(Top(h), ref) \in PathFrames
           /\ Ascend(Top(h), ref).op = Top(h).op
           /\ BeforeRoot(Ascend(Top(h), ref))
<1> DEFINE f == Top(h)
<1>1. /\ f \in PathFrames /\ f.op \in PathOps /\ f.at \in 1..Len(f.path)
      /\ f.trees \in Seq(Trees(Objects)) /\ Len(f.trees) = f.at
  BY DownTop
<1>2. [f EXCEPT !.trees = f.trees] = f
  BY <1>1 DEF PathFrames
<1>3. Ascend([f EXCEPT !.trees = f.trees], ref) \in PathFrames
  BY <1>1, AscendType
<1>4. Ascend(f, ref).op = f.op /\ Ascend(f, ref).dir = "up"
  BY <1>1 DEF Ascend, PathFrames
<1> QED BY <1>1, <1>2, <1>3, <1>4 DEF BeforeRoot

(* StoreLeaf: the entity's file is written below the root. *)
LEMMA StoreLeafStep ==
    ASSUME IInv, NEW h \in Handle, StoreLeaf(h)
    PROVE  IInv'
<1> DEFINE f == Top(h)
           place == PlaceOf(f.path, f.leaf)
           g == Ascend(f, place)
<1>1. /\ Inv /\ calls[h] # <<>> /\ f \in PathFrames /\ f.op # "commit"
      /\ SegPlace(f) \in PathRefs
  BY DownTop, IInvInv DEF StoreLeaf
<1>2. f.path \in Path /\ f.path \in Node /\ f.path # Root
      /\ f.leaf \in Entities(datas) \union {None}
  BY <1>1, PathLength DEF PathFrames
<1>3. place \in PathRefs /\ place \in Refs(Objects)
  BY <1>2 DEF PlaceOf, PathRef, PathRefs, Refs, IsTree
<1>4. g \in PathFrames /\ g.op = f.op /\ BeforeRoot(g)
  BY <1>3, AscendFromLeaf DEF StoreLeaf
<1>5. /\ Continue(h, g) /\ UNCHANGED <<store, edata, disk, failed, crashes>>
      /\ files' = [files EXCEPT ![f.path] = f.leaf]
      /\ Track(h, {IF SegRef(f) = None THEN place ELSE SegPlace(f)})
  BY DEF StoreLeaf
<1>6. \E places \in SUBSET PathRefs : Track(h, places)
  BY <1>1, <1>3, <1>5
<1> HIDE DEF g, place
<1>7. \E q \in Node, obj \in Trees(Objects) \union Entities(datas) \union {None} :
         files' = [files EXCEPT ![q] = obj] /\ (q = Root => IsTree(obj))
  BY <1>2, <1>5
<1>8. edata' \in [Path -> Data \union {None}]
  BY <1>1, <1>5 DEF Inv, TypeOK
<1>9. UNCHANGED <<store, disk, failed, crashes>>
  BY <1>5
<1> QED BY <1>1, <1>4, <1>5, <1>6, <1>7, <1>8, <1>9, ContinuedOutside DEF Frames

(* DeleteEntityLeaf: the entity's file is removed below the root. *)
LEMMA DeleteEntityLeafStep ==
    ASSUME IInv, NEW h \in Handle, DeleteEntityLeaf(h)
    PROVE  IInv'
<1> DEFINE f == Top(h)
           g == Ascend(f, None)
<1>1. Inv /\ calls[h] # <<>> /\ f \in PathFrames /\ f.op # "commit"
  BY DownTop, IInvInv DEF DeleteEntityLeaf
<1>2. f.path \in Path /\ f.path \in Node /\ f.path # Root
  BY <1>1, PathLength DEF PathFrames
<1>3. None \in Refs(Objects)
  BY DEF Refs
<1>4. g \in PathFrames /\ g.op = f.op /\ BeforeRoot(g)
  BY <1>3, AscendFromLeaf DEF DeleteEntityLeaf
<1>5. /\ Continue(h, g) /\ UNCHANGED <<store, disk, mem, failed, crashes>>
      /\ \/ UNCHANGED files /\ UNCHANGED edata
         \/ /\ files' = [files EXCEPT ![f.path] = None]
            /\ edata' = [edata EXCEPT ![f.path] = None]
  BY DEF DeleteEntityLeaf, transient, FilesWithout
<1> HIDE DEF g
<1>6. UNCHANGED files
        \/ \E q \in Node, obj \in Trees(Objects) \union Entities(datas) \union {None} :
               files' = [files EXCEPT ![q] = obj] /\ (q = Root => IsTree(obj))
  BY <1>2, <1>5
<1>7. edata' \in [Path -> Data \union {None}]
  <2>1. edata \in [Path -> Data \union {None}]
    BY <1>1 DEF Inv, TypeOK
  <2>2. UNCHANGED edata \/ edata' = [edata EXCEPT ![f.path] = None]
    BY <1>5
  <2> QED BY ONLY <2>1, <2>2
<1>8. UNCHANGED <<store, disk, failed, crashes>> /\ mem' = mem
  BY <1>5
<1> QED BY <1>1, <1>4, <1>5, <1>6, <1>7, <1>8, ContinuedOutside DEF Frames

(* StoreTreeOfPath: a tree is written below the root. *)
LEMMA StoreTreeOfPathStep ==
    ASSUME IInv, NEW h \in Handle, StoreTreeOfPath(h)
    PROVE  IInv'
<1> DEFINE f == Top(h)
           place == SegPlace(f)
           parents == Front(f.trees)
           g == Ascend([f EXCEPT !.trees = parents], place)
<1>1. /\ Inv /\ calls[h] # <<>> /\ f.op \in PathOps /\ f \in PathFrames /\ f.op # "commit"
      /\ f.dir = "up" /\ f.at > 0
  BY PathTop DEF StoreTreeOfPath, PathOps
<1>2. /\ f.path \in Path /\ f.at \in 0..(Len(f.path) - 1) /\ Len(f.path) \in Nat
      /\ f.trees \in Seq(Trees(Objects)) /\ f.trees # <<>> /\ Len(f.trees) = f.at + 1
  BY <1>1, PathLength DEF PathFrames
<1>3. f.at \in 1..Len(f.path)
  BY <1>1, <1>2
<1>4. /\ parents \in Seq(Trees(Objects)) /\ Len(parents) = f.at
      /\ Last(f.trees) \in Trees(Objects)
  BY <1>2, Ends
<1>5. Upto(f.path, f.at) \in Path
  BY <1>2, <1>3, PrefixIsPath
<1>6. place \in Refs(Objects) /\ place.path \in Path
  BY <1>5 DEF SegPlace, PathRef, PathRefs, Refs
<1> HIDE DEF parents, place
<1>7. g \in PathFrames
  BY <1>1, <1>3, <1>4, <1>6, AscendType
<1>8. g.op = f.op /\ g.dir = "up"
  BY <1>1 DEF Ascend, PathFrames
<1>9. /\ Continue(h, g) /\ UNCHANGED <<store, edata, disk, mem, failed, crashes>>
      /\ files' = [files EXCEPT ![place.path] = Last(f.trees)]
  BY DEF StoreTreeOfPath, place, parents
<1> HIDE DEF g
<1>10. \E q \in Node, obj \in Trees(Objects) \union Entities(datas) \union {None} :
          files' = [files EXCEPT ![q] = obj] /\ (q = Root => IsTree(obj))
  <2>1. place.path \in Node /\ place.path # Root
    BY <1>6, PathLength
  <2> QED BY <1>4, <1>9, <2>1
<1>11. edata' \in [Path -> Data \union {None}]
  BY <1>1, <1>9 DEF Inv, TypeOK
<1>12. UNCHANGED <<store, disk, failed, crashes>> /\ mem' = mem
  BY <1>9
<1>13. BeforeRoot(g)
  BY <1>1, <1>8 DEF BeforeRoot
<1> QED BY <1>1, <1>7, <1>8, <1>9, <1>10, <1>11, <1>12, <1>13, ContinuedOutside DEF Frames

(* A stack of frames takes the place of a call's stack.                    *)
LEMMA Replaced ==
    ASSUME IInv, RootWritten,
           NEW h \in Handle, calls[h] # <<>>, Top(h).op # "commit",
           NEW new \in Seq(Frames), \A i \in 1..Len(new) : new[i].op # "commit",
           calls' = [calls EXCEPT ![h] = new],
           UNCHANGED <<store, transient, disk, mem, failed, crashes>>
    PROVE  IInv'
<1>1. /\ Inv /\ UNCHANGED store /\ UNCHANGED files /\ UNCHANGED edata /\ UNCHANGED disk
      /\ UNCHANGED mem /\ UNCHANGED failed /\ UNCHANGED crashes
  BY IInvInv DEF transient
<1>2. StoreGrows /\ StoreClosed' /\ trees' = trees /\ datas' = datas /\ commits' = commits /\ Frames' = Frames
  BY <1>1, StoreStays
<1>3. /\ files' \in [Node -> Trees(Objects') \union Entities(datas') \union {None}]
      /\ disk' \in WorkspaceObjs(trees', Len(commits')) \union {None}
      /\ mem' \in [Handle -> WorkspaceObjs(trees', Len(commits')) \union {None}]
  BY <1>1, <1>2, TypesStay
<1>4. calls' \in [Handle -> Seq(Frames)]
  BY <1>1 DEF Inv, TypeOK
<1>5. TypeOK'
  BY <1>1, <1>2, <1>3, <1>4 DEF Inv, TypeOK
<1>6. /\ calls'[h] = new
      /\ \A g \in Handle \ {h} : calls'[g] = calls[g]
  BY <1>1 DEF Inv, TypeOK
<1>7. \A g \in Handle : calls'[g] # <<>> => InCall(g)'
  <2>1. InCall(h)'
    BY <1>1, <1>6 DEF IInv, RootInv, InCall
  <2> QED BY <1>1, <1>6, <2>1 DEF IInv, RootInv, InCall, Top
<1>8. RootWritten'
  BY <1>1 DEF RootWritten
<1>9. RootInv'
  BY <1>1, <1>7, <1>8 DEF IInv, RootInv
<1> QED BY <1>2, <1>5, <1>9 DEF IInv

(* The frames below the running one are of no commit.                      *)
LEMMA NoCommitBelow ==
    ASSUME IInv, NEW h \in Handle, calls[h] # <<>>, Top(h).op # "commit"
    PROVE  /\ Tail(calls[h]) \in Seq(Frames)
           /\ \A i \in 1..Len(Tail(calls[h])) : Tail(calls[h])[i].op # "commit"
           /\ mem[h] # None /\ mem[h].root = RootRef
<1>1. calls[h] \in Seq(Frames)
  BY DEF IInv, TypeOK
<1>2. InCall(h)
  BY DEF IInv, RootInv
<1> QED BY <1>1, <1>2, Ends, BelowTop DEF InCall

(* The visit of a tree below the root. *)
LEMMA VisitType ==
    ASSUME NEW p \in Node, NEW ref \in {None} \union PathRefs, NEW t \in Trees(Objects)
    PROVE  Visit(p, ref, t) \in Visits /\ Visit(p, ref, t).path = p
BY DEF Visit, Visits, TransientNames

(* DeleteTreeLeaf: a search is pushed on top of the walk. *)
LEMMA DeleteTreeLeafStep ==
    ASSUME IInv, NEW h \in Handle, DeleteTreeLeaf(h)
    PROVE  IInv'
<1> DEFINE f == Top(h)
           g == Ascend(f, None)
           tree == GetTree(h, f.path)
           search == [op |-> "remove", stack |-> <<Visit(f.path, None, tree)>>]
<1>1. /\ Inv /\ calls[h] # <<>> /\ f \in PathFrames /\ f.op # "commit"
      /\ ~RootWritten => SegRef(f) = None
  BY DownTop, IInvInv DEF DeleteTreeLeaf
<1>2. f.path \in Path /\ f.path \in Node /\ f.path # Root
  BY <1>1, PathLength DEF PathFrames
<1>3. None \in Refs(Objects)
  BY DEF Refs
<1>4. g \in PathFrames /\ g \in Frames /\ g.op = f.op /\ BeforeRoot(g)
  BY <1>3, AscendFromLeaf DEF DeleteTreeLeaf, Frames
<1>5. UNCHANGED <<store, transient, disk, mem, failed, crashes>>
  BY DEF DeleteTreeLeaf
<1>6. CASE IsPathRef(SegRef(f)) /\ tree # None
  <2>1. calls' = [calls EXCEPT ![h] = <<search>> \o (<<g>> \o Tail(calls[h]))]
    BY <1>6 DEF DeleteTreeLeaf
  <2>2. RootWritten
    BY <1>1, <1>6 DEF IsPathRef, None
  <2>3. tree \in Trees(Objects)
    BY <1>1, <1>2, <1>6, GetTypes
  <2>4. search \in RemoveFrames /\ search.op = "remove"
    <3>1. Visit(f.path, None, tree) \in {v \in Visits : v.path # Root}
      BY <1>2, <2>3, VisitType
    <3> QED BY <3>1 DEF RemoveFrames
  <2> HIDE DEF search, g
  <2>5. search \in Frames /\ search.op # "commit"
    BY <2>4 DEF Frames
  <2> DEFINE low == <<g>> \o Tail(calls[h])
             new == <<search>> \o low
  <2>7. low \in Seq(Frames) /\ \A i \in 1..Len(low) : low[i].op # "commit"
    <3>1. /\ Tail(calls[h]) \in Seq(Frames)
          /\ \A i \in 1..Len(Tail(calls[h])) : Tail(calls[h])[i].op # "commit"
      BY <1>1, NoCommitBelow
    <3>2. low \in Seq(Frames)
      BY <1>4, <3>1, Push
    <3>3. g.op # "commit"
      BY <1>1, <1>4
    <3>4. \A i \in 1..Len(low) : low[i].op # "commit"
      BY <3>1, <3>3, NoCommitOnTop
    <3> QED BY <3>2, <3>4
  <2> HIDE DEF low
  <2>8. new \in Seq(Frames) /\ \A i \in 1..Len(new) : new[i].op # "commit"
    <3>1. new \in Seq(Frames)
      BY <2>5, <2>7, Push
    <3>2. \A i \in 1..Len(new) : new[i].op # "commit"
      BY <2>5, <2>7, NoCommitOnTop
    <3> QED BY <3>1, <3>2
  <2>9. calls' = [calls EXCEPT ![h] = new]
    BY <2>1 DEF low
  <2> HIDE DEF new
  <2> QED BY <1>1, <1>5, <2>2, <2>8, <2>9, Replaced
<1>7. CASE ~(IsPathRef(SegRef(f)) /\ tree # None)
  <2>1. Continue(h, g)
    BY <1>7 DEF DeleteTreeLeaf
  <2> HIDE DEF g
  <2>2. edata' \in [Path -> Data \union {None}] /\ UNCHANGED files /\ mem' = mem
        /\ UNCHANGED <<store, disk, failed, crashes>>
    BY <1>1, <1>5 DEF transient, Inv, TypeOK
  <2> QED BY <1>1, <1>4, <2>1, <2>2, ContinuedOutside
<1> QED BY <1>6, <1>7

(* StoreRoot: from here on the root's file is a tree. *)
LEMMA StoreRootStep ==
    ASSUME IInv, NEW h \in Handle, StoreRoot(h)
    PROVE  IInv'
<1> DEFINE f == Top(h)
           g == [f EXCEPT !.dir = "save"]
<1>1. /\ Inv /\ calls[h] # <<>> /\ f.op \in PathOps /\ f \in PathFrames /\ f.op # "commit"
  BY PathTop DEF StoreRoot, PathOps
<1>2. Last(f.trees) \in Trees(Objects)
  BY <1>1, Ends DEF PathFrames
<1>3. g \in PathFrames /\ g.op = f.op
  BY <1>1, TurnType DEF PathFrames
<1>4. /\ Continue(h, g) /\ UNCHANGED <<store, edata, disk, mem, failed, crashes>>
      /\ files' = [files EXCEPT ![Root] = Last(f.trees)]
  BY DEF StoreRoot
<1> HIDE DEF g
<1>5. IsTree(Last(f.trees)) /\ Root \in Node
  BY <1>2 DEF Trees, IsTree, Node
<1>6. RootWritten'
  BY <1>1, <1>4, <1>5 DEF RootWritten, Inv, TypeOK
<1>7. \E q \in Node, obj \in Trees(Objects) \union Entities(datas) \union {None} :
         files' = [files EXCEPT ![q] = obj] /\ (q = Root => IsTree(obj))
  BY <1>2, <1>4, <1>5
<1>8. edata' \in [Path -> Data \union {None}] /\ mem' = mem
      /\ UNCHANGED <<store, disk, failed, crashes>>
  BY <1>1, <1>4 DEF Inv, TypeOK
<1> QED BY <1>1, <1>3, <1>4, <1>6, <1>7, <1>8, ContinuedOutside DEF Frames

(* A frame returns; perhaps the workspace object has been written.         *)
LEMMA Returned ==
    ASSUME IInv, NEW h \in Handle, calls[h] # <<>>,
           Return(h), Top(h).op # "commit", RootWritten,
           disk' = disk \/ disk' = mem[h],
           UNCHANGED <<store, transient, mem, failed, crashes>>
    PROVE  IInv'
<1>1. /\ Inv /\ UNCHANGED store /\ UNCHANGED files /\ UNCHANGED edata
      /\ UNCHANGED mem /\ UNCHANGED failed /\ UNCHANGED crashes
  BY IInvInv DEF transient
<1>2. StoreGrows /\ StoreClosed' /\ trees' = trees /\ datas' = datas /\ commits' = commits /\ Frames' = Frames
  BY <1>1, StoreStays
<1>3. /\ files' \in [Node -> Trees(Objects') \union Entities(datas') \union {None}]
      /\ mem' \in [Handle -> WorkspaceObjs(trees', Len(commits')) \union {None}]
      /\ calls' \in [Handle -> Seq(Frames')]
  BY <1>1, <1>2, TypesStay, ReturnType
<1>4. disk' \in WorkspaceObjs(trees', Len(commits')) \union {None}
  BY <1>1, <1>2 DEF Inv, TypeOK
<1>5. TypeOK'
  BY <1>1, <1>2, <1>3, <1>4 DEF Inv, TypeOK
<1>6. RootWritten'
  BY <1>1 DEF RootWritten
<1>7. RootInv'
  BY <1>1, <1>6, RootOnReturn
<1> QED BY <1>2, <1>5, <1>7 DEF IInv

(* SaveWorkspace: the disk gets the handle's workspace object. *)
LEMMA SaveWorkspaceStep ==
    ASSUME IInv, NEW h \in Handle, SaveWorkspace(h)
    PROVE  IInv'
<1>1. calls[h] # <<>> /\ Top(h).op # "commit" /\ RootWritten
  BY PathTop DEF SaveWorkspace, PathOps
<1>2. /\ Return(h) /\ disk' = mem[h]
      /\ UNCHANGED <<store, transient, mem, failed, crashes>>
  BY DEF SaveWorkspace
<1> QED BY <1>1, <1>2, Returned

-----------------------------------------------------------------------------
(* The steps of a search.                                                  *)

(* Passing a child leaves the rest of the visit as it is. *)
LEMMA PassVisit ==
    ASSUME NEW v \in Visits, NEW n
    PROVE  /\ [v EXCEPT !.todo = @ \ {n}] \in Visits
           /\ [v EXCEPT !.todo = @ \ {n}].path = v.path
BY DEF Visits, TransientNames

(* A child still to be visited has a reference by path. *)
LEMMA TodoRef ==
    ASSUME NEW v \in Visits, NEW n \in v.todo
    PROVE  n \in Name /\ v.tree.refs[n] \in PathRefs /\ v.tree \in Trees(Objects)
<1>1. n \in TransientNames(v.tree) /\ v.tree \in Trees(Objects)
  BY DEF Visits
<1>2. n \in Name /\ IsPathRef(v.tree.refs[n]) /\ v.tree.refs[n] \in Refs(Objects)
  BY <1>1, RefOfTree DEF TransientNames
<1> QED BY <1>1, <1>2 DEF Refs, IdRefs, None, IsPathRef

(* The stack of a search when it turns to a child, goes down or comes up;  *)
(* V are the visits that may be on it.                                     *)
LEMMA SearchType ==
    ASSUME NEW V, V \subseteq Visits,
           \A v \in V, w \in Visits : w.path = v.path => w \in V,
           NEW s \in Seq(V), s # <<>>, NEW n
    PROVE  /\ Last(s) \in V /\ Last(s) \in Visits
           /\ Front(s) \in Seq(V)
           /\ Append(Front(s), [Last(s) EXCEPT !.todo = @ \ {n}]) \in Seq(V)
           /\ Append(Front(s), [Last(s) EXCEPT !.todo = @ \ {n}]) # <<>>
<1>1. Last(s) \in V /\ Front(s) \in Seq(V)
  BY Ends
<1>2. [Last(s) EXCEPT !.todo = @ \ {n}] \in V
  BY <1>1, PassVisit
<1> QED BY <1>1, <1>2, Push

Removals == {v \in Visits : v.path # Root}

(* The running frame of a deleteTree's search. *)
LEMMA RemoveTop ==
    ASSUME IInv, NEW h \in Handle, Running(h, "remove")
    PROVE  /\ Inv /\ RootWritten /\ calls[h] # <<>>
           /\ Top(h) \in RemoveFrames /\ Top(h).op = "remove" /\ Top(h).op # "commit"
           /\ Top(h).stack \in Seq(Removals)
<1>1. Top(h) \in RemoveFrames /\ calls[h] # <<>> /\ Top(h).op = "remove"
  BY IInvInv, TopKind DEF Running
<1>2. RootWritten
  BY <1>1 DEF IInv, RootInv, Unwritten, BeforeRoot, PathOps
<1> QED BY <1>1, <1>2, IInvInv DEF RemoveFrames, Removals

(* A remove frame that goes on, with the files as they are.                *)
LEMMA RemoveGoesOn ==
    ASSUME IInv, NEW h \in Handle, Running(h, "remove"), NEW g \in RemoveFrames,
           Continue(h, g), UNCHANGED <<store, transient, disk, mem, failed, crashes>>
    PROVE  IInv'
<1>1. Inv /\ RootWritten /\ calls[h] # <<>> /\ Top(h).op # "commit"
  BY RemoveTop
<1>2. g \in Frames /\ g.op # "commit"
  BY DEF Frames, RemoveFrames
<1>3. edata' \in [Path -> Data \union {None}] /\ UNCHANGED files /\ mem' = mem
      /\ UNCHANGED <<store, disk, failed, crashes>> /\ RootWritten'
  BY <1>1 DEF transient, Inv, TypeOK, RootWritten
<1> QED BY <1>1, <1>2, <1>3, ContinuedOutside

(* RemoveChild: passed over, gone into, or deleted by a nested call. *)
LEMMA RemoveChildStep ==
    ASSUME IInv, NEW h \in Handle, NEW n \in Name, RemoveChild(h, n)
    PROVE  IInv'
<1> DEFINE f == Top(h)
           top == Last(f.stack)
           p == Append(top.path, n)
           obj == Found(h, p)
           next == PassTo(f, n)
           ref == top.tree.refs[n]
<1>1. /\ Inv /\ RootWritten /\ Running(h, "remove") /\ calls[h] # <<>>
      /\ f \in RemoveFrames /\ f.op = "remove"
      /\ f.stack \in Seq(Removals) /\ f.stack # <<>> /\ n \in top.todo
  BY RemoveTop DEF RemoveChild, Removing
<1>2. Removals \subseteq Visits /\ \A v \in Removals, w \in Visits : w.path = v.path => w \in Removals
  BY DEF Removals
<1> DEFINE passed == Append(Front(f.stack), [Last(f.stack) EXCEPT !.todo = @ \ {n}])
<1>3. top \in Visits /\ passed \in Seq(Removals) /\ passed # <<>>
  BY <1>1, <1>2, SearchType
<1>4. next = [f EXCEPT !.stack = passed]
  BY DEF PassTo
<1> HIDE DEF passed
<1>5. next \in RemoveFrames /\ next.op = "remove" /\ next.stack = passed
  BY <1>1, <1>3, <1>4 DEF RemoveFrames, Removals
<1> HIDE DEF next
<1>6. ref \in PathRefs
  BY <1>1, <1>3, TodoRef
<1>7. p \in Seq(Name) /\ p # Root
  <2>1. top.path \in Seq(Name)
    BY <1>3, PathLength, EmptySeq DEF Visits, Node, Root
  <2> QED BY <2>1, Push DEF Root
<1> HIDE DEF p, ref
<1>8. /\ obj \in Trees(Objects) \union Entities(datas) \union {None}
      /\ obj # None => p \in Path
  BY <1>1, <1>7, FoundType DEF Node
<1>9. CASE IsEntity(obj)
  <2>1. /\ EnterPath(h, "deleteEntity", p, None, <<next>> \o Tail(calls[h]))
        /\ UNCHANGED <<store, transient, disk, failed, crashes>>
    BY <1>9 DEF RemoveChild, p, next
  <2>2. p \in Path
    BY <1>8, <1>9 DEF IsEntity, None
  <2> DEFINE rest == <<next>> \o Tail(calls[h])
  <2>3. Tail(calls[h]) \in Seq(Frames) /\ mem[h] # None
        /\ \A i \in 1..Len(Tail(calls[h])) : Tail(calls[h])[i].op # "commit"
    BY <1>1, NoCommitBelow
  <2>4. next \in Frames /\ next.op # "commit"
    BY <1>5 DEF Frames
  <2>5. rest \in Seq(Frames)
    BY <2>3, <2>4, Push
  <2>6. \A i \in 1..Len(rest) : rest[i].op # "commit"
    BY <2>3, <2>4, NoCommitOnTop
  <2> HIDE DEF rest
  <2>7. EnterPath(h, "deleteEntity", p, None, rest)
    BY <2>1 DEF rest
  <2>8. "deleteEntity" \in PathOps /\ None \in Entities(datas) \union {None}
    BY DEF PathOps
  <2> QED BY <1>1, <2>1, <2>2, <2>3, <2>5, <2>6, <2>7, <2>8, Entered
<1>10. CASE obj = None
  <2>1. Continue(h, next) /\ UNCHANGED <<store, transient, disk, mem, failed, crashes>>
    BY <1>9, <1>10 DEF RemoveChild, p, next, IsEntity, None
  <2> QED BY <1>1, <1>5, <2>1, RemoveGoesOn
<1>11. CASE ~IsEntity(obj) /\ obj # None
  <2> DEFINE deeper == Deeper(next, p, ref, obj)
  <2>1. Continue(h, deeper) /\ UNCHANGED <<store, transient, disk, mem, failed, crashes>>
    BY <1>11 DEF RemoveChild, p, next, ref
  <2>2. obj \in Trees(Objects) /\ p \in Node
    BY <1>8, <1>11, Kinds DEF Node
  <2>3. Visit(p, ref, obj) \in Removals
    BY <1>6, <1>7, <2>2, VisitType DEF Removals
  <2>4. Append(passed, Visit(p, ref, obj)) \in Seq(Removals)
    BY <1>3, <2>3, Push
  <2>5. deeper \in RemoveFrames
    BY <1>5, <2>4 DEF Deeper, RemoveFrames, Removals
  <2> HIDE DEF deeper
  <2> QED BY <1>1, <2>1, <2>5, RemoveGoesOn
<1> QED BY <1>9, <1>10, <1>11

(* RemoveTree: the file of a tree other than the root goes. *)
LEMMA RemoveTreeStep ==
    ASSUME IInv, NEW h \in Handle, RemoveTree(h)
    PROVE  IInv'
<1> DEFINE f == Top(h)
           g == [f EXCEPT !.stack = Front(f.stack)]
           q == Last(f.stack).path
<1>1. /\ Inv /\ RootWritten /\ calls[h] # <<>> /\ f \in RemoveFrames /\ f.op # "commit"
      /\ f.stack \in Seq(Removals) /\ f.stack # <<>>
  BY RemoveTop DEF RemoveTree, Removing
<1>2. Front(f.stack) \in Seq(Removals) /\ Last(f.stack) \in Removals
  BY <1>1, Ends
<1>3. g \in RemoveFrames /\ g.op # "commit"
  BY <1>1, <1>2 DEF RemoveFrames, Removals
<1>4. q \in Node /\ q # Root
  BY <1>2 DEF Removals, Visits
<1>5. /\ Continue(h, g) /\ files' = [files EXCEPT ![q] = None]
      /\ UNCHANGED <<store, edata, disk, mem, failed, crashes>>
  BY DEF RemoveTree, FilesWithout
<1> HIDE DEF g, q
<1>6. \E r \in Node, obj \in Trees(Objects) \union Entities(datas) \union {None} :
         files' = [files EXCEPT ![r] = obj] /\ (r = Root => IsTree(obj))
  BY <1>4, <1>5
<1>7. RootWritten'
  BY <1>1, <1>4, <1>5, RootFileStays
<1>8. edata' \in [Path -> Data \union {None}] /\ mem' = mem
      /\ UNCHANGED <<store, disk, failed, crashes>>
  BY <1>1, <1>5 DEF Inv, TypeOK
<1> QED BY <1>1, <1>3, <1>5, <1>6, <1>7, <1>8, ContinuedOutside DEF Frames

(* RemoveEnds: back to the walk that began the search. *)
LEMMA RemoveEndsStep ==
    ASSUME IInv, NEW h \in Handle, RemoveEnds(h)
    PROVE  IInv'
<1>1. calls[h] # <<>> /\ Top(h).op # "commit" /\ RootWritten
  BY RemoveTop DEF RemoveEnds
<1>2. /\ Return(h) /\ disk' = disk
      /\ UNCHANGED <<store, transient, mem, failed, crashes>>
  BY DEF RemoveEnds
<1> QED BY <1>1, <1>2, Returned

-----------------------------------------------------------------------------
(* The steps of a commit.                                                  *)

Records(objs) == SUBSET [path : Node, id : objs \union {None}]

(* The running frame of a commit, which is the only one of its call. *)
LEMMA CommitTop ==
    ASSUME IInv, NEW h \in Handle, Running(h, "commit")
    PROVE  /\ Inv /\ calls[h] # <<>>
           /\ Top(h) \in CommitFrames /\ Top(h).op = "commit"
           /\ Top(h).stack \in Seq(Visits)
           /\ Top(h).cur \in Currents
           /\ Top(h).done \in Records(Objects)
           /\ Top(h).made \in 0..Len(commits)
           /\ RootWritten \/ Top(h).stack = <<>>
           /\ Len(calls[h]) = 1 /\ mem[h] # None
<1>1. Top(h) \in CommitFrames /\ calls[h] # <<>> /\ Top(h).op = "commit"
  BY IInvInv, TopKind DEF Running
<1>2. RootWritten \/ Top(h).stack = <<>>
  BY <1>1 DEF IInv, RootInv, Unwritten, BeforeRoot, PathOps
<1>3. Len(calls[h]) = 1 /\ mem[h] # None
  <2>1. InCall(h)
    BY <1>1 DEF IInv, RootInv
  <2>2. calls[h] \in Seq(Frames)
    BY IInvInv DEF Inv, TypeOK
  <2>3. Top(h) = calls[h][1] /\ 1 \in 1..Len(calls[h])
    BY <1>1, <2>2, BelowTop, LenProperties, EmptySeq DEF Top
  <2> QED BY <1>1, <2>1, <2>3 DEF InCall
<1> QED BY <1>1, <1>2, <1>3, IInvInv DEF CommitFrames, Records

(* The commit goes on with frame g while only the frame changes.           *)
LEMMA CommitGoesOn ==
    ASSUME IInv, NEW h \in Handle, Running(h, "commit"),
           NEW g \in CommitFrames, g.stack = <<>> \/ RootWritten,
           Continue(h, g), UNCHANGED <<store, transient, disk, mem, failed, crashes>>
    PROVE  IInv'
<1>1. Inv /\ calls[h] # <<>> /\ Top(h).op = "commit"
  BY CommitTop
<1>2. g \in Frames /\ g.op = "commit"
  BY DEF Frames, CommitFrames
<1>3. edata' \in [Path -> Data \union {None}] /\ UNCHANGED files /\ mem' = mem
      /\ UNCHANGED <<store, disk, failed, crashes>>
  BY <1>1 DEF transient, Inv, TypeOK
<1>4. RootWritten' \/ BeforeRoot(g)
  BY <1>2, <1>3 DEF BeforeRoot, RootWritten
<1> QED BY <1>1, <1>2, <1>3, <1>4, ContinuedOutside

(* The frames of commits for given visits, currents, objects, trees and    *)
(* number of commits, and such a frame with one field replaced.            *)
CommitFramesOver(V, C, objs, roots, last) ==
    {f \in [op : {"commit"}, stack : Seq(V), cur : C, done : Records(objs), made : 0..last] :
        \A e \in f.done : e.path = Root => e.id \in roots \union {None}}

(* What a frame of a commit is made of. *)
LEMMA CommitFramesAre ==
    /\ CommitFrames = CommitFramesOver(Visits, Currents, Objects, trees, Len(commits))
    /\ CommitFrames' = CommitFramesOver(Visits', Currents', Objects', trees', Len(commits'))
BY DEF CommitFrames, CommitFramesOver, Records

(* A commit frame with parts replaced. *)
LEMMA CommitFrameWith ==
    ASSUME NEW V, NEW C, NEW objs, NEW roots, NEW last,
           NEW f \in CommitFramesOver(V, C, objs, roots, last)
    PROVE  /\ \A s \in Seq(V) :
                 /\ [f EXCEPT !.stack = s] \in CommitFramesOver(V, C, objs, roots, last)
                 /\ [f EXCEPT !.stack = s].stack = s
                 /\ [f EXCEPT !.stack = s].done = f.done
           /\ \A c \in C :
                 /\ [f EXCEPT !.cur = c] \in CommitFramesOver(V, C, objs, roots, last)
                 /\ [f EXCEPT !.cur = c].stack = f.stack
                 /\ [f EXCEPT !.cur = c].done = f.done
           /\ \A m \in 0..last :
                 /\ [f EXCEPT !.made = m] \in CommitFramesOver(V, C, objs, roots, last)
                 /\ [f EXCEPT !.made = m].stack = f.stack
           /\ \A d \in Records(objs) :
                 (\A e \in d : e.path = Root => e.id \in roots \union {None})
                    => /\ [f EXCEPT !.done = d] \in CommitFramesOver(V, C, objs, roots, last)
                       /\ [f EXCEPT !.done = d].stack = f.stack
<1> DEFINE R == [op : {"commit"}, stack : Seq(V), cur : C, done : Records(objs), made : 0..last]
           F == CommitFramesOver(V, C, objs, roots, last)
<1>1. f \in R /\ \A e \in f.done : e.path = Root => e.id \in roots \union {None}
  BY DEF CommitFramesOver
<1>2. \A g \in R : (\A e \in g.done : e.path = Root => e.id \in roots \union {None}) => g \in F
  BY DEF CommitFramesOver
<1> HIDE DEF F
<1>3. ASSUME NEW s \in Seq(V)
      PROVE  /\ [f EXCEPT !.stack = s] \in F
             /\ [f EXCEPT !.stack = s].stack = s /\ [f EXCEPT !.stack = s].done = f.done
  <2>1. [f EXCEPT !.stack = s] \in R
    BY <1>1
  <2>2. [f EXCEPT !.stack = s].done = f.done /\ [f EXCEPT !.stack = s].stack = s
    BY <1>1
  <2> QED BY <1>1, <1>2, <2>1, <2>2
<1>4. ASSUME NEW c \in C
      PROVE  /\ [f EXCEPT !.cur = c] \in F
             /\ [f EXCEPT !.cur = c].stack = f.stack /\ [f EXCEPT !.cur = c].done = f.done
  <2>1. [f EXCEPT !.cur = c] \in R
    BY <1>1
  <2>2. [f EXCEPT !.cur = c].done = f.done /\ [f EXCEPT !.cur = c].stack = f.stack
    BY <1>1
  <2> QED BY <1>1, <1>2, <2>1, <2>2
<1>5. ASSUME NEW m \in 0..last
      PROVE  [f EXCEPT !.made = m] \in F /\ [f EXCEPT !.made = m].stack = f.stack
  <2>1. [f EXCEPT !.made = m] \in R
    BY <1>1
  <2>2. [f EXCEPT !.made = m].done = f.done /\ [f EXCEPT !.made = m].stack = f.stack
    BY <1>1
  <2> QED BY <1>1, <1>2, <2>1, <2>2
<1>6. ASSUME NEW d \in Records(objs),
             \A e \in d : e.path = Root => e.id \in roots \union {None}
      PROVE  [f EXCEPT !.done = d] \in F /\ [f EXCEPT !.done = d].stack = f.stack
  <2>1. [f EXCEPT !.done = d] \in R
    BY <1>1
  <2>2. [f EXCEPT !.done = d].done = d /\ [f EXCEPT !.done = d].stack = f.stack
    BY <1>1
  <2> QED BY <1>2, <1>6, <2>1, <2>2
<1> QED BY <1>3, <1>4, <1>5, <1>6 DEF F

(* CommitChild: passed over, gone into, or taken up. *)
LEMMA CommitChildStep ==
    ASSUME IInv, NEW h \in Handle, NEW n \in Name, CommitChild(h, n)
    PROVE  IInv'
<1> DEFINE f == Top(h)
           top == Last(f.stack)
           p == Append(top.path, n)
           obj == Found(h, p)
           next == PassTo(f, n)
           ref == top.tree.refs[n]
           passed == Append(Front(f.stack), [Last(f.stack) EXCEPT !.todo = @ \ {n}])
           found == [step |-> "data", path |-> p, ref |-> ref, obj |-> obj]
<1>1. /\ Inv /\ Running(h, "commit") /\ f \in CommitFrames
      /\ f.stack \in Seq(Visits) /\ f.stack # <<>> /\ n \in top.todo /\ RootWritten
  BY CommitTop DEF CommitChild, Searching
<1>2. top \in Visits /\ passed \in Seq(Visits)
  BY <1>1, SearchType
<1>3. next = [f EXCEPT !.stack = passed]
  BY DEF PassTo
<1> HIDE DEF passed
<1>4. next \in CommitFrames /\ next.stack = passed
  BY <1>1, <1>2, <1>3, CommitFramesAre, CommitFrameWith
<1>5. ref \in PathRefs
  BY <1>1, <1>2, TodoRef
<1>6. p \in Seq(Name) /\ p # Root
  <2>1. top.path \in Seq(Name)
    BY <1>2, PathLength, EmptySeq DEF Visits, Node, Root
  <2> QED BY <2>1, Push DEF Root
<1> HIDE DEF p, ref, next
<1>7. /\ obj \in Trees(Objects) \union Entities(datas) \union {None}
      /\ obj # None => p \in Path
  BY <1>1, <1>6, FoundType DEF Node
<1> HIDE DEF obj
<1>8. /\ UNCHANGED <<store, transient, disk, mem, failed, crashes>>
      /\ \/ obj = None /\ Continue(h, next)
         \/ IsTree(obj) /\ Continue(h, Deeper(next, p, ref, obj))
         \/ IsEntity(obj) /\ Continue(h, [next EXCEPT !.cur = found])
  BY DEF CommitChild, p, ref, next, obj
<1>9. CASE obj = None /\ Continue(h, next)
  BY <1>1, <1>4, <1>8, <1>9, CommitGoesOn
<1>10. CASE IsTree(obj) /\ Continue(h, Deeper(next, p, ref, obj))
  <2>1. obj \in Trees(Objects) /\ p \in Node
    BY <1>7, <1>10, Kinds DEF Node, IsTree, None
  <2>2. Visit(p, ref, obj) \in Visits
    BY <1>5, <2>1, VisitType
  <2>3. Append(passed, Visit(p, ref, obj)) \in Seq(Visits)
    BY <1>2, <2>2, Push
  <2>4. Deeper(next, p, ref, obj) \in CommitFrames
    BY <1>4, <2>3, CommitFramesAre, CommitFrameWith DEF Deeper
  <2> QED BY <1>1, <1>8, <1>10, <2>4, CommitGoesOn
<1>11. CASE IsEntity(obj) /\ Continue(h, [next EXCEPT !.cur = found])
  <2>1. obj \in Entities(datas) /\ p \in Path
    BY <1>7, <1>11, Kinds DEF IsEntity, None
  <2>2. found \in Currents
    BY <1>5, <2>1 DEF Currents
  <2> HIDE DEF found
  <2>3. [next EXCEPT !.cur = found] \in CommitFrames
    BY <1>4, <2>2, CommitFramesAre, CommitFrameWith
  <2> QED BY <1>1, <1>8, <1>11, <2>3, CommitGoesOn
<1> QED BY <1>8, <1>9, <1>10, <1>11

(* Recording what becomes of a path: what is there for it stays.           *)
LEMMA RecordType ==
    ASSUME NEW objs, NEW roots, NEW done \in Records(objs), NEW new \in Records(objs),
           \A e \in done : e.path = Root => e.id \in roots \union {None},
           \A e \in new : e.path = Root => e.id \in roots \union {None}
    PROVE  /\ Record(done, new) \in Records(objs)
           /\ \A e \in Record(done, new) : e.path = Root => e.id \in roots \union {None}
BY DEF Record, Records

(* What has been recorded for a path. *)
LEMMA IdOfType ==
    ASSUME NEW objs, NEW done \in Records(objs), NEW p
    PROVE  /\ IdOf(done, p) \in objs \union {None}
           /\ \A roots : (\A e \in done : e.path = p => e.id \in roots \union {None})
                            => IdOf(done, p) \in roots \union {None}
<1>1. CASE \E e \in done : e.path = p
  <2>1. PICK e \in done : e.path = p /\ e = (CHOOSE x \in done : x.path = p)
    BY <1>1
  <2>2. IdOf(done, p) = e.id
    BY <1>1, <2>1 DEF IdOf
  <2> QED BY <2>1, <2>2 DEF Records
<1>2. CASE ~ \E e \in done : e.path = p
  BY <1>2 DEF IdOf
<1> QED BY <1>1, <1>2

(* The commit goes on, on whatever files and store it has made.            *)
LEMMA CommitContinued ==
    ASSUME IInv, NEW h \in Handle, Running(h, "commit"),
           StoreGrows, StoreClosed', trees' = trees \/ Top(h).stack # <<>>,
           NEW g \in CommitFrames', RootWritten \/ g.stack = <<>>,
           Continue(h, g), datas' \subseteq Data,
           UNCHANGED files
             \/ \E q \in Path : files' = [files EXCEPT ![q] = None],
           edata' \in [Path -> Data \union {None}],
           UNCHANGED <<disk, mem, failed, crashes>>
    PROVE  IInv'
<1>1. /\ Inv /\ calls[h] # <<>> /\ Top(h).op = "commit"
      /\ RootWritten \/ Top(h).stack = <<>>
  BY CommitTop
<1>2. g \in Frames' /\ g.op = "commit"
  BY DEF Frames, CommitFrames
<1>3. files' \in [Node -> Trees(Objects') \union Entities(datas') \union {None}]
  BY <1>1, TypesStay, FilesType
<1>4. RootWritten' = RootWritten
  <2>1. ASSUME NEW q \in Path, files' = [files EXCEPT ![q] = None]
        PROVE  RootWritten' = RootWritten
    BY <2>1, PathLength, RootFileStays
  <2> QED BY <2>1 DEF RootWritten
<1>5. RootWritten' \/ (trees' = trees /\ BeforeRoot(g))
  BY <1>1, <1>2, <1>4 DEF BeforeRoot
<1>6. UNCHANGED <<disk, failed, crashes>> /\ mem' = mem
  OBVIOUS
<1> QED BY <1>1, <1>2, <1>3, <1>4, <1>5, <1>6, Continued

(* PersistData: the data file moves into the store. *)
LEMMA PersistDataStep ==
    ASSUME IInv, NEW h \in Handle, PersistData(h)
    PROVE  IInv'
<1> DEFINE f == Top(h)
           place == f.cur.ref.path
           d == DataFile(place)
           obj == WithDataId(f.cur.obj, d)
           g1 == [f EXCEPT !.cur.step = "entity", !.cur.obj = obj]
           g2 == [f EXCEPT !.cur = None, !.done = Record(@, {Entry(f.cur.path, None)})]
<1>1. /\ Inv /\ Running(h, "commit") /\ f \in CommitFrames /\ f.cur \in Currents
      /\ RootWritten \/ f.stack = <<>>
      /\ f.cur.step = "data" /\ f.cur # None /\ f.done \in Records(Objects)
  BY CommitTop DEF PersistData
<1>2. /\ f.cur \in [step : {"data", "entity"}, path : Path, ref : PathRefs, obj : Entities(datas)]
  BY <1>1 DEF Currents
<1>3. place \in Path /\ f.cur.path \in Path /\ f.cur.path # Root /\ f.cur.path \in Node
  BY <1>2, PathLength DEF PathRefs
<1>4. d \in Data \union {None}
  BY <1>1, <1>3 DEF DataFile, Inv, TypeOK
<1>5. /\ datas' = DatasWith(d)
      /\ edata' = [edata EXCEPT ![place] = None]
      /\ UNCHANGED <<trees, entities, commits, files, disk, mem, failed, crashes>>
  BY DEF PersistData
<1>6. datas' \subseteq Data /\ edata' \in [Path -> Data \union {None}]
  <2>1. datas \subseteq Data /\ edata \in [Path -> Data \union {None}]
    BY <1>1 DEF Inv, TypeOK
  <2> HIDE DEF d, place
  <2>2. datas' \subseteq Data
    BY <1>4, <1>5, <2>1 DEF DatasWith
  <2>3. edata' \in [Path -> Data \union {None}]
    BY <1>5, <2>1
  <2> QED BY <2>2, <2>3
<1>7. StoreGrows
  BY <1>1, <1>5, StoredTypes DEF StoreGrows, DatasWith
<1>8. StoreClosed'
  <2>1. entities' \subseteq Entities(datas')
    BY <1>1, <1>5, <1>7, ValuesGrow, StoredTypes
  <2>2. PersistedRefs' = PersistedRefs
    BY <1>5 DEF PersistedRefs, Objects
  <2> QED BY <1>1, <1>5, <2>1, <2>2 DEF StoreClosed, Inv
<1>9. obj \in Entities(datas')
  <2>1. f.cur.obj \in Entities(datas')
    BY <1>2, <1>7, ValuesGrow
  <2>2. d # None => d \in datas'
    BY <1>5 DEF DatasWith
  <2> HIDE DEF d
  <2>3. d # None => [f.cur.obj EXCEPT !.dataid = d] \in Entities(datas')
    BY <2>1, <2>2 DEF Entities
  <2> QED BY <2>1, <2>3 DEF WithDataId
<1>10. f \in CommitFrames' /\ f.stack = f.stack
  BY <1>1, <1>7, FramesGrow
<1>11. (Continue(h, g1) \/ Continue(h, g2))
  BY DEF PersistData
<1> HIDE DEF obj, d, place
<1>12. CASE Continue(h, g1)
  <2> DEFINE c == [f.cur EXCEPT !.step = "entity", !.obj = obj]
  <2>1. c \in [step : {"data", "entity"}, path : Path, ref : PathRefs, obj : Entities(datas')]
    BY <1>2, <1>9
  <2>2. c \in Currents'
    BY <2>1 DEF Currents
  <2>3. g1 = [f EXCEPT !.cur = c]
    BY <1>1, <1>2 DEF CommitFrames
  <2> HIDE DEF c
  <2>4. g1 \in CommitFrames' /\ g1.stack = f.stack
    BY <1>10, <2>2, <2>3, CommitFramesAre, CommitFrameWith
  <2> HIDE DEF g1
  <2> QED BY <1>1, <1>5, <1>6, <1>7, <1>8, <1>12, <2>4, CommitContinued
<1>13. CASE Continue(h, g2)
  <2> DEFINE gc == [f EXCEPT !.cur = None]
             new == Record(f.done, {Entry(f.cur.path, None)})
  <2>1. None \in Currents'
    BY DEF Currents
  <2>2. gc \in CommitFrames' /\ gc.stack = f.stack /\ gc.done = f.done
    BY <1>10, <2>1, CommitFramesAre, CommitFrameWith
  <2>3. {Entry(f.cur.path, None)} \in Records(Objects') /\ f.done \in Records(Objects')
    BY <1>1, <1>3, <1>7, ValuesGrow DEF Entry, Records
  <2>4. /\ \A e \in f.done : e.path = Root => e.id \in trees' \union {None}
        /\ \A e \in {Entry(f.cur.path, None)} : e.path = Root => e.id \in trees' \union {None}
    BY <1>1, <1>5 DEF CommitFrames, Entry
  <2>5. /\ new \in Records(Objects')
        /\ \A e \in new : e.path = Root => e.id \in trees' \union {None}
    BY <2>3, <2>4, RecordType
  <2>6. g2 = [gc EXCEPT !.done = new]
    BY <1>1 DEF CommitFrames
  <2> HIDE DEF gc, new
  <2>7. g2 \in CommitFrames' /\ g2.stack = f.stack
    BY <2>2, <2>5, <2>6, CommitFramesAre, CommitFrameWith
  <2> HIDE DEF g2
  <2> QED BY <1>1, <1>5, <1>6, <1>7, <1>8, <1>13, <2>7, CommitContinued
<1> QED BY <1>11, <1>12, <1>13

(* PersistEntity: an entity whose data is in the store. *)
LEMMA PersistEntityStep ==
    ASSUME IInv, NEW h \in Handle, PersistEntity(h)
    PROVE  IInv'
<1> DEFINE f == Top(h)
           e == Entry(f.cur.path, f.cur.obj)
           new == Record(f.done, {e})
           c == [f.cur EXCEPT !.step = "remove"]
           g == [f EXCEPT !.cur.step = "remove", !.done = Record(@, {e})]
<1>1. /\ Inv /\ Running(h, "commit") /\ f \in CommitFrames /\ f.cur \in Currents
      /\ RootWritten \/ f.stack = <<>>
      /\ f.cur.step = "entity" /\ f.cur # None /\ f.done \in Records(Objects)
  BY CommitTop DEF PersistEntity
<1>2. f.cur \in [step : {"data", "entity"}, path : Path, ref : PathRefs, obj : Entities(datas)]
  BY <1>1 DEF Currents
<1>3. /\ entities' = entities \union {f.cur.obj}
      /\ Continue(h, g)
      /\ UNCHANGED <<trees, datas, commits, transient, disk, mem, failed, crashes>>
  BY DEF PersistEntity
<1>4. /\ UNCHANGED files /\ datas' \subseteq Data /\ edata' \in [Path -> Data \union {None}]
  BY <1>1, <1>3 DEF transient, Inv, TypeOK
<1>5. StoreGrows
  BY <1>1, <1>3, StoredTypes DEF StoreGrows
<1>6. StoreClosed'
  <2>1. PersistedRefs \subseteq PersistedRefs'
    BY <1>5, ValuesGrow
  <2>2. trees' \subseteq [is : {"tree"}, refs : [Name -> PersistedRefs']]
    BY <1>1, <1>3, <2>1 DEF StoreClosed, Inv
  <2>3. entities' \subseteq Entities(datas')
    BY <1>1, <1>2, <1>3, StoredTypes
  <2> QED BY <1>1, <1>3, <2>2, <2>3, StoredTypes DEF StoreClosed
<1>7. /\ f.cur.path \in Path /\ f.cur.path \in Node /\ f.cur.path # Root
      /\ f.cur.obj \in entities'
  BY <1>2, <1>3, PathLength
<1>8. c \in Currents'
  BY <1>2, <1>7 DEF Currents
<1>9. f \in CommitFrames'
  BY <1>1, <1>5, FramesGrow
<1>10. /\ new \in Records(Objects')
       /\ \A x \in new : x.path = Root => x.id \in trees' \union {None}
  <2>1. {e} \in Records(Objects') /\ f.done \in Records(Objects')
    BY <1>1, <1>5, <1>7, ValuesGrow DEF Entry, Records, Objects
  <2>2. /\ \A x \in f.done : x.path = Root => x.id \in trees' \union {None}
        /\ \A x \in {e} : x.path = Root => x.id \in trees' \union {None}
    BY <1>1, <1>3, <1>7 DEF CommitFrames, Entry
  <2> QED BY <2>1, <2>2, RecordType
<1> DEFINE gc == [f EXCEPT !.cur = c]
<1>11. g = [gc EXCEPT !.done = new]
  BY <1>1, <1>2 DEF CommitFrames
<1> HIDE DEF c, new
<1>12. gc \in CommitFrames' /\ gc.stack = f.stack
  BY <1>8, <1>9, CommitFramesAre, CommitFrameWith
<1> HIDE DEF gc
<1>13. g \in CommitFrames' /\ g.stack = f.stack
  BY <1>10, <1>11, <1>12, CommitFramesAre, CommitFrameWith
<1> HIDE DEF g
<1> QED BY <1>1, <1>3, <1>4, <1>5, <1>6, <1>13, CommitContinued

(* RemovePersisted: an entity's files below the root go. *)
LEMMA RemovePersistedStep ==
    ASSUME IInv, NEW h \in Handle, RemovePersisted(h)
    PROVE  IInv'
<1> DEFINE f == Top(h)
           place == f.cur.ref.path
           g == [f EXCEPT !.cur = None]
<1>1. /\ Inv /\ Running(h, "commit") /\ f \in CommitFrames /\ f.cur \in Currents
      /\ RootWritten \/ f.stack = <<>>
      /\ f.cur.step = "remove" /\ f.cur # None
  BY CommitTop DEF RemovePersisted
<1>2. place \in Path
  BY <1>1 DEF Currents, PathRefs
<1>3. /\ files' = [files EXCEPT ![place] = None]
      /\ edata' = [edata EXCEPT ![place] = None]
      /\ Continue(h, g)
      /\ UNCHANGED <<store, disk, mem, failed, crashes>>
  BY DEF RemovePersisted, FilesWithout
<1>4. None \in Currents
  BY DEF Currents
<1>5. g \in CommitFrames /\ g.stack = f.stack
  BY <1>1, <1>4, CommitFramesAre, CommitFrameWith
<1> HIDE DEF g, place
<1>6. StoreGrows /\ StoreClosed' /\ CommitFrames' = CommitFrames /\ datas' = datas /\ trees' = trees
  BY <1>1, <1>3, StoreStays
<1>7. datas' \subseteq Data /\ edata' \in [Path -> Data \union {None}]
  BY <1>1, <1>3, <1>6 DEF Inv, TypeOK
<1> QED BY <1>1, <1>2, <1>3, <1>5, <1>6, <1>7, CommitContinued

(* CommitUnrecorded: assertion 198 ends the process. *)
LEMMA CommitUnrecordedStep ==
    ASSUME IInv, NEW h \in Handle, CommitUnrecorded(h)
    PROVE  IInv'
<1>1. /\ mem' = [mem EXCEPT ![h] = None] /\ calls' = [calls EXCEPT ![h] = <<>>]
      /\ failed' = failed \union {198} /\ UNCHANGED <<store, transient, disk, crashes>>
  BY DEF CommitUnrecorded, Abort
<1>2. failed' \subseteq {198, 333} /\ crashes' \in Nat
  BY <1>1 DEF IInv, TypeOK
<1>3. UNCHANGED <<store, transient, disk>>
  BY <1>1
<1> QED BY <1>1, <1>2, <1>3, Ended

(* A tree is persisted with references that the store may hold. *)
LEMMA PersistentFormType ==
    ASSUME NEW f \in CommitFrames, f.stack # <<>>, Asserts => Unrecorded(f) = {}
    PROVE  PersistentForm(f) \in [is : {"tree"}, refs : [Name -> PersistedRefs]]
<1> DEFINE tree == Last(f.stack).tree
<1>1. f.stack \in Seq(Visits) /\ f.done \in Records(Objects)
  BY DEF CommitFrames, Records
<1>2. tree \in Trees(Objects)
  BY <1>1, Ends DEF Visits
<1>3. ASSUME NEW n \in Name, n \in TransientNames(tree) \ Unrecorded(f)
      PROVE  IdRef(IdOf(f.done, tree.refs[n].path)) \in PersistedRefs
  <2>1. IdOf(f.done, tree.refs[n].path) # None
    BY <1>3 DEF Unrecorded
  <2>2. IdOf(f.done, tree.refs[n].path) \in Objects
    BY <1>1, <2>1, IdOfType
  <2> QED BY <2>2 DEF IdRef, IdRefs, PersistedRefs
<1>4. ASSUME NEW n \in Name, n \notin TransientNames(tree) \ Unrecorded(f)
      PROVE  tree.refs[n] \in PersistedRefs
  <2>1. tree.refs[n] \in Refs(Objects)
    BY <1>2, RefOfTree
  <2>2. CASE IsPathRef(tree.refs[n])
    <3>1. n \in Unrecorded(f)
      BY <1>4, <2>2 DEF TransientNames
    <3>2. ~Asserts /\ tree.refs[n] \in PathRefs
      BY <2>1, <2>2, <3>1 DEF Refs, IdRefs, IsPathRef, None
    <3> QED BY <3>2 DEF PersistedRefs
  <2>3. CASE ~IsPathRef(tree.refs[n])
    BY <2>1, <2>3 DEF Refs, PathRefs, PersistedRefs, IsPathRef
  <2> QED BY <2>2, <2>3
<1> QED BY <1>3, <1>4 DEF PersistentForm, TreeObj

(* PersistTree: the store stays closed. *)
LEMMA PersistTreeStep ==
    ASSUME IInv, NEW h \in Handle, PersistTree(h)
    PROVE  IInv'
<1> DEFINE f == Top(h)
           tree == PersistentForm(f)
           top == Last(f.stack)
           c == [step |-> "removeTree", ref |-> top.ref]
           e == Entry(top.path, tree)
           once == Record(f.done, EmptyIds(f))
           new == Record(once, {e})
           g == [f EXCEPT !.cur = c, !.done = Record(Record(@, EmptyIds(f)), {e}), !.stack = Front(@)]
<1>1. /\ Inv /\ Running(h, "commit") /\ f \in CommitFrames
      /\ RootWritten /\ f.stack \in Seq(Visits) /\ f.stack # <<>>
      /\ f.done \in Records(Objects) /\ (Asserts => Unrecorded(f) = {})
  BY CommitTop DEF PersistTree, TreeIsDone, Searching
<1>2. /\ trees' = trees \union {tree}
      /\ Continue(h, g)
      /\ UNCHANGED <<entities, datas, commits, transient, disk, mem, failed, crashes>>
  BY DEF PersistTree
<1>3. tree \in [is : {"tree"}, refs : [Name -> PersistedRefs]]
  BY <1>1, PersistentFormType
<1>4. top \in Visits /\ Front(f.stack) \in Seq(Visits)
  BY <1>1, Ends
<1> HIDE DEF tree
<1>5. StoreGrows
  BY <1>1, <1>2, StoredTypes DEF StoreGrows
<1>6. StoreClosed'
  <2>1. PersistedRefs \subseteq PersistedRefs'
    BY <1>5, ValuesGrow
  <2>2. trees \subseteq [is : {"tree"}, refs : [Name -> PersistedRefs]]
    BY <1>1 DEF Inv, StoreClosed
  <2>3. trees' \subseteq [is : {"tree"}, refs : [Name -> PersistedRefs']]
    BY <1>2, <1>3, <2>1, <2>2
  <2>4. commits \in Seq([parent : 0..Len(commits), root : trees' \union {None}])
    <3>1. [parent : 0..Len(commits), root : trees \union {None}]
             \subseteq [parent : 0..Len(commits), root : trees' \union {None}]
      BY <1>2
    <3> QED BY <1>1, <3>1, StoredTypes, Wider
  <2> QED BY <1>1, <1>2, <2>3, <2>4, StoredTypes DEF StoreClosed
<1>7. c \in Currents'
  BY <1>4 DEF Visits, Currents
<1>8. top.path \in Node /\ tree \in trees' /\ tree \in Objects'
  BY <1>2, <1>4 DEF Visits, Objects
<1>9. /\ EmptyIds(f) \in Records(Objects')
      /\ \A x \in EmptyIds(f) : x.id = None
  <2>1. ASSUME NEW n \in Unrecorded(f)
        PROVE  top.tree.refs[n].path \in Node
    <3>1. n \in TransientNames(top.tree) /\ top.tree \in Trees(Objects)
      BY <1>4 DEF Unrecorded, Visits
    <3>2. top.tree.refs[n] \in Refs(Objects) /\ IsPathRef(top.tree.refs[n])
      BY <3>1, RefOfTree DEF TransientNames
    <3>3. top.tree.refs[n] \in PathRefs
      BY <3>2 DEF Refs, IdRefs, IsPathRef, None
    <3> QED BY <3>3 DEF PathRefs, Node
  <2> QED BY <2>1 DEF EmptyIds, Entry, Records
<1>10. /\ new \in Records(Objects')
       /\ \A x \in new : x.path = Root => x.id \in trees' \union {None}
  <2>1. f.done \in Records(Objects')
    BY <1>1, <1>5, ValuesGrow DEF Records
  <2>2. \A x \in f.done : x.path = Root => x.id \in trees' \union {None}
    BY <1>1, <1>2 DEF CommitFrames
  <2>3. /\ once \in Records(Objects')
        /\ \A x \in once : x.path = Root => x.id \in trees' \union {None}
    BY <1>9, <2>1, <2>2, RecordType
  <2>4. /\ {e} \in Records(Objects')
        /\ \A x \in {e} : x.path = Root => x.id \in trees' \union {None}
    BY <1>8 DEF Entry, Records
  <2> HIDE DEF once, e
  <2> QED BY <2>3, <2>4, RecordType
<1>11. f \in CommitFrames' /\ Front(f.stack) \in Seq(Visits')
  BY <1>1, <1>4, <1>5, FramesGrow, VisitsGrow, Wider
<1> DEFINE gc == [f EXCEPT !.cur = c]
           gd == [gc EXCEPT !.done = new]
<1>12. g = [gd EXCEPT !.stack = Front(f.stack)]
  BY <1>1 DEF CommitFrames
<1> HIDE DEF c, new
<1>13. gc \in CommitFrames'
  BY <1>7, <1>11, CommitFramesAre, CommitFrameWith
<1> HIDE DEF gc
<1>14. gd \in CommitFrames'
  BY <1>10, <1>13, CommitFramesAre, CommitFrameWith
<1> HIDE DEF gd
<1>15. g \in CommitFrames'
  BY <1>11, <1>12, <1>14, CommitFramesAre, CommitFrameWith
<1> HIDE DEF g
<1>16. UNCHANGED files /\ datas' \subseteq Data /\ edata' \in [Path -> Data \union {None}]
  BY <1>1, <1>2 DEF transient, Inv, TypeOK
<1> QED BY <1>1, <1>2, <1>5, <1>6, <1>15, <1>16, CommitContinued

(* RemovePersistedTree: the root's file is not removed. *)
LEMMA RemovePersistedTreeStep ==
    ASSUME IInv, NEW h \in Handle, RemovePersistedTree(h)
    PROVE  IInv'
<1> DEFINE f == Top(h)
           g == [f EXCEPT !.cur = None]
<1>1. /\ Inv /\ Running(h, "commit") /\ f \in CommitFrames /\ f.cur \in Currents
      /\ RootWritten \/ f.stack = <<>>
      /\ f.cur.step = "removeTree" /\ f.cur # None
  BY CommitTop DEF RemovePersistedTree
<1>2. f.cur.ref \in {None} \union PathRefs
  BY <1>1 DEF Currents
<1>3. /\ Continue(h, g)
      /\ UNCHANGED <<store, edata, disk, mem, failed, crashes>>
      /\ UNCHANGED files \/ (IsPathRef(f.cur.ref) /\ files' = [files EXCEPT ![f.cur.ref.path] = None])
  BY DEF RemovePersistedTree, FilesWithout
<1>4. None \in Currents
  BY DEF Currents
<1>5. g \in CommitFrames /\ g.stack = f.stack
  BY <1>1, <1>4, CommitFramesAre, CommitFrameWith
<1> HIDE DEF g
<1>6. StoreGrows /\ StoreClosed' /\ CommitFrames' = CommitFrames /\ datas' = datas /\ trees' = trees
  BY <1>1, <1>3, StoreStays
<1>7. UNCHANGED files \/ \E q \in Path : files' = [files EXCEPT ![q] = None]
  BY <1>2, <1>3 DEF IsPathRef, PathRefs, None
<1>8. datas' \subseteq Data /\ edata' \in [Path -> Data \union {None}]
  BY <1>1, <1>3, <1>6 DEF Inv, TypeOK
<1> QED BY <1>1, <1>3, <1>5, <1>6, <1>7, <1>8, CommitContinued

(* CreateCommit: its root is a persisted tree, or there is none. *)
LEMMA CreateCommitStep ==
    ASSUME IInv, NEW h \in Handle, CreateCommit(h)
    PROVE  IInv'
<1> DEFINE f == Top(h)
           commit == [parent |-> mem[h].parent, root |-> IdOf(f.done, Root)]
           g == [f EXCEPT !.made = Len(commits) + 1]
           C(last) == [parent : 0..last, root : trees \union {None}]
<1>1. /\ Inv /\ Running(h, "commit") /\ f \in CommitFrames
      /\ f.stack = <<>> /\ f.done \in Records(Objects) /\ mem[h] # None
  BY CommitTop DEF CreateCommit
<1>2. /\ commits' = Append(commits, commit)
      /\ Continue(h, g)
      /\ UNCHANGED <<trees, entities, datas, transient, disk, mem, failed, crashes>>
  BY DEF CreateCommit
<1>3. Len(commits) \in Nat /\ commits \in Seq(C(Len(commits)))
  BY <1>1, StoredTypes
<1>4. commit \in C(Len(commits))
  <2>1. mem[h] \in WorkspaceObjs(trees, Len(commits))
    BY <1>1 DEF Inv, TypeOK
  <2>2. \A e \in f.done : e.path = Root => e.id \in trees \union {None}
    BY <1>1 DEF CommitFrames
  <2>3. IdOf(f.done, Root) \in trees \union {None}
    BY <1>1, <2>2, IdOfType
  <2> QED BY <2>1, <2>3 DEF WorkspaceObjs
<1> HIDE DEF commit
<1>5. commits' \in Seq(C(Len(commits))) /\ Len(commits') = Len(commits) + 1
  BY <1>2, <1>3, <1>4, Push
<1>6. StoreGrows
  BY <1>2, <1>3, <1>5 DEF StoreGrows
<1>7. StoreClosed'
  <2>1. C(Len(commits)) \subseteq C(Len(commits'))
    BY <1>3, <1>5
  <2>2. commits' \in Seq(C(Len(commits')))
    BY <1>5, <2>1, Wider
  <2>3. PersistedRefs' = PersistedRefs
    BY <1>2 DEF PersistedRefs, Objects
  <2> QED BY <1>1, <1>2, <2>2, <2>3 DEF StoreClosed, Inv
<1>8. f \in CommitFrames'
  BY <1>1, <1>6, FramesGrow
<1>9. Len(commits) + 1 \in 0..Len(commits')
  BY <1>3, <1>5
<1>10. g \in CommitFrames' /\ g.stack = f.stack
  BY <1>8, <1>9, CommitFramesAre, CommitFrameWith
<1> HIDE DEF g
<1>11. UNCHANGED files /\ datas' \subseteq Data /\ edata' \in [Path -> Data \union {None}]
  BY <1>1, <1>2 DEF transient, Inv, TypeOK
<1> QED BY <1>1, <1>2, <1>6, <1>7, <1>10, <1>11, CommitContinued

(* EndCommit: the workspace object of the new commit. *)
LEMMA EndCommitStep ==
    ASSUME IInv, NEW h \in Handle, EndCommit(h)
    PROVE  IInv'
<1> DEFINE f == Top(h)
           root == commits[f.made].root
           ws == [parent |-> f.made, root |-> IF root = None THEN None ELSE IdRef(root),
                  tracked |-> {}]
<1>1. /\ Inv /\ calls[h] # <<>> /\ Len(calls[h]) = 1 /\ f.made \in 0..Len(commits) /\ f.made # 0
  BY CommitTop DEF EndCommit
<1>2. /\ disk' = ws /\ mem' = [mem EXCEPT ![h] = ws]
      /\ Return(h) /\ UNCHANGED <<store, transient, failed, crashes>>
  BY DEF EndCommit
<1>3. /\ StoreGrows /\ StoreClosed' /\ Frames' = Frames
      /\ trees' = trees /\ datas' = datas /\ commits' = commits /\ Objects' = Objects
      /\ UNCHANGED files /\ UNCHANGED edata
  BY <1>1, <1>2, StoreStays DEF transient
<1>4. root \in trees \union {None}
  <2>1. f.made \in 1..Len(commits)
    BY <1>1, StoredTypes
  <2>2. commits[f.made] \in [parent : 0..Len(commits), root : trees \union {None}]
    BY <1>1, <2>1, StoredTypes, ElementOfSeq
  <2> QED BY <2>2
<1> HIDE DEF root
<1>5. ws \in WorkspaceObjs(trees, Len(commits)) /\ Tracks(ws) /\ (ws.root = None => ws.tracked = {})
  BY <1>1, <1>4 DEF WorkspaceObjs, Tracks, IdRef, IdRefs, IsPathRef, None
<1>6. trees = {} => ws.root = None
  BY <1>4
<1> HIDE DEF ws
<1>7. calls' = [calls EXCEPT ![h] = <<>>]
  <2>1. calls[h] \in Seq(Frames)
    BY <1>1 DEF Inv, TypeOK
  <2>2. Tail(calls[h]) \in Seq(Frames) /\ Len(Tail(calls[h])) = 0
    BY <1>1, <2>1, Ends, BelowTop
  <2>3. Tail(calls[h]) = <<>>
    BY <2>2, EmptySeq
  <2> QED BY <1>2, <2>3 DEF Return
<1>8. TypeOK'
  <2>1. calls' \in [Handle -> Seq(Frames')]
    BY <1>1, <1>2, <1>3, ReturnType
  <2>2. files' \in [Node -> Trees(Objects') \union Entities(datas') \union {None}]
    BY <1>1, <1>3, TypesStay
  <2>3. mem' \in [Handle -> WorkspaceObjs(trees, Len(commits)) \union {None}]
    BY <1>1, <1>2, <1>5 DEF Inv, TypeOK
  <2> QED BY <1>1, <1>2, <1>3, <1>5, <2>1, <2>2, <2>3 DEF Inv, TypeOK
<1>9. RootWritten' = RootWritten
  BY <1>3 DEF RootWritten
<1>10. RootWritten \/ ws.root = None
  BY <1>6 DEF IInv, RootInv
<1>11. RootInv'
  BY <1>2, <1>3, <1>5, <1>7, <1>9, <1>10, RootAtRest
<1> QED BY <1>3, <1>8, <1>11 DEF IInv

(* BeginCommit: the search begins at a root that can be read. *)
LEMMA BeginCommitStep ==
    ASSUME IInv, NEW h \in Handle, BeginCommit(h)
    PROVE  IInv'
<1> DEFINE root == mem[h].root
           s == IF root = None THEN <<>> ELSE <<Visit(Root, None, TreeOf(root))>>
           f == [op |-> "commit", stack |-> s, cur |-> None, done |-> {}, made |-> 0]
<1>1. /\ Inv /\ mem[h] # None /\ calls[h] = <<>>
      /\ calls' = [calls EXCEPT ![h] = <<f>>]
      /\ UNCHANGED <<store, transient, disk, mem, failed, crashes>>
  BY IInvInv DEF BeginCommit, Idle
<1>2. /\ StoreGrows /\ StoreClosed' /\ Frames' = Frames
      /\ trees' = trees /\ datas' = datas /\ commits' = commits /\ Objects' = Objects
      /\ UNCHANGED files /\ UNCHANGED edata /\ UNCHANGED disk /\ UNCHANGED mem
      /\ UNCHANGED failed /\ UNCHANGED crashes
  BY <1>1, StoreStays DEF transient
<1>3. RootWritten \/ root = None
  BY <1>1 DEF IInv, RootInv, Unwritten
<1>4. s \in Seq(Visits)
  <2>1. CASE root = None
    BY <2>1, EmptySeq
  <2>2. CASE root # None
    <3>1. mem[h] \in WorkspaceObjs(trees, Len(commits))
      BY <1>1 DEF Inv, TypeOK
    <3>2. TreeOf(root) \in Trees(Objects)
      BY <1>1, <1>3, <2>2, <3>1, RootReadable
    <3>3. Visit(Root, None, TreeOf(root)) \in Visits
      BY <3>2, VisitType DEF Node
    <3> QED BY <2>2, <3>3
  <2> QED BY <2>1, <2>2
<1>5. RootWritten \/ s = <<>>
  BY <1>3
<1> HIDE DEF s
<1>6. f \in Frames /\ f.op = "commit" /\ f.stack = s
  <2>1. None \in Currents /\ 0 \in 0..Len(commits)
    BY <1>1, StoredTypes DEF Currents
  <2> QED BY <1>4, <2>1 DEF CommitFrames, Frames
<1> HIDE DEF f
<1>7. <<f>> \in Seq(Frames) /\ Len(<<f>>) = 1 /\ <<f>> # <<>> /\ Head(<<f>>) = f
  BY <1>6
<1>8. /\ calls' \in [Handle -> Seq(Frames)] /\ calls'[h] = <<f>>
      /\ \A g \in Handle \ {h} : calls'[g] = calls[g]
  BY <1>1, <1>7 DEF Inv, TypeOK
<1>9. TypeOK'
  <2>1. /\ files' \in [Node -> Trees(Objects') \union Entities(datas') \union {None}]
        /\ disk' \in WorkspaceObjs(trees', Len(commits')) \union {None}
        /\ mem' \in [Handle -> WorkspaceObjs(trees', Len(commits')) \union {None}]
    BY <1>1, <1>2, TypesStay
  <2> QED BY <1>1, <1>2, <1>8, <2>1 DEF Inv, TypeOK
<1>10. RootWritten' = RootWritten
  BY <1>2 DEF RootWritten
<1>11. RootInv'
  <2>1. \A g \in Handle : calls'[g] # <<>> => InCall(g)'
    <3>1. InCall(h)'
      BY <1>1, <1>2, <1>6, <1>7, <1>8 DEF InCall, Top
    <3> QED BY <1>2, <1>8, <3>1 DEF IInv, RootInv, InCall, Top
  <2>2. RootWritten' \/ \A g \in Handle : Unwritten(g)'
    <3> SUFFICES ASSUME ~RootWritten, NEW g \in Handle PROVE Unwritten(g)'
      BY <1>10
    <3>1. CASE g = h
      BY <1>5, <1>6, <1>7, <1>8, <3>1 DEF Unwritten, Top, BeforeRoot
    <3>2. CASE g # h
      BY <1>2, <1>8, <3>2 DEF IInv, RootInv, Unwritten, Top
    <3> QED BY <3>1, <3>2
  <2> QED BY <1>2, <1>10, <2>1, <2>2 DEF IInv, RootInv
<1> QED BY <1>2, <1>9, <1>11 DEF IInv

-----------------------------------------------------------------------------
(* What clients do.                                                        *)

(* The handle and the workspace object change, while the handle is idle.   *)
LEMMA AtRest ==
    ASSUME IInv, NEW h \in Handle, mem[h] = None \/ calls[h] = <<>>,
           NEW ws \in WorkspaceObjs(trees, Len(commits)) \union {None}, ws # None => Tracks(ws),
           mem' = [mem EXCEPT ![h] = ws],
           disk' \in WorkspaceObjs(trees, Len(commits)) \union {None},
           disk' # None => Tracks(disk'),
           RootWritten \/ (/\ ws = None \/ ws.root = None
                           /\ disk' = None \/ disk'.root = None),
           UNCHANGED <<store, transient, calls, failed, crashes>>
    PROVE  IInv'
<1>1. /\ Inv /\ UNCHANGED store /\ UNCHANGED files /\ UNCHANGED edata
      /\ UNCHANGED calls /\ UNCHANGED failed /\ UNCHANGED crashes
  BY IInvInv DEF transient
<1>2. /\ StoreGrows /\ StoreClosed' /\ Frames' = Frames
      /\ trees' = trees /\ datas' = datas /\ commits' = commits
  BY <1>1, StoreStays
<1>3. /\ files' \in [Node -> Trees(Objects') \union Entities(datas') \union {None}]
      /\ calls' \in [Handle -> Seq(Frames')]
  BY <1>1, <1>2, TypesStay
<1>4. mem' \in [Handle -> WorkspaceObjs(trees, Len(commits)) \union {None}]
  BY <1>1 DEF Inv, TypeOK
<1>5. TypeOK'
  BY <1>1, <1>2, <1>3, <1>4 DEF Inv, TypeOK
<1>6. calls' = [calls EXCEPT ![h] = <<>>]
  <2>1. calls[h] = <<>>
    BY DEF IInv, RootInv, InCall
  <2> QED BY <1>1, <2>1 DEF Inv, TypeOK
<1>7. RootWritten' = RootWritten
  BY <1>1 DEF RootWritten
<1>8. RootInv'
  BY <1>2, <1>6, <1>7, RootAtRest
<1> QED BY <1>2, <1>5, <1>8 DEF IInv

(* What the invariant says of the workspace object on disk. *)
LEMMA DiskFacts ==
    ASSUME IInv
    PROVE  /\ disk \in WorkspaceObjs(trees, Len(commits)) \union {None}
           /\ disk # None => Tracks(disk)
           /\ RootWritten \/ disk = None \/ disk.root = None
BY DEF IInv, TypeOK, RootInv

(* CreateWorkspace: a workspace object without a root. *)
LEMMA CreateWorkspaceStep ==
    ASSUME IInv, NEW h \in Handle, NEW parent \in 0..Len(commits), CreateWorkspace(h, parent)
    PROVE  IInv'
<1> DEFINE ws == [parent |-> parent, root |-> None, tracked |-> {}]
<1>1. ws \in WorkspaceObjs(trees, Len(commits)) /\ Tracks(ws) /\ ws.root = None
  BY DEF WorkspaceObjs, Tracks, IsPathRef, None
<1>2. /\ mem[h] = None /\ disk' = ws /\ mem' = [mem EXCEPT ![h] = ws]
      /\ UNCHANGED <<store, transient, calls, failed, crashes>>
  BY DEF CreateWorkspace
<1> HIDE DEF ws
<1> QED BY <1>1, <1>2, AtRest

(* OpenWorkspace: the handle gets a copy of the disk's. *)
LEMMA OpenWorkspaceStep ==
    ASSUME IInv, NEW h \in Handle, OpenWorkspace(h)
    PROVE  IInv'
BY DiskFacts, AtRest DEF OpenWorkspace

(* CloseWorkspace: what the handle had in memory is gone. *)
LEMMA CloseWorkspaceStep ==
    ASSUME IInv, NEW h \in Handle, CloseWorkspace(h)
    PROVE  IInv'
BY DiskFacts, AtRest DEF CloseWorkspace, Idle

(* DeleteWorkspaceForced: the files below the root stay. *)
LEMMA DeleteWorkspaceForcedStep ==
    ASSUME IInv, DeleteWorkspaceForced
    PROVE  IInv'
<1>1. /\ Inv /\ UNCHANGED store /\ UNCHANGED files /\ UNCHANGED edata /\ UNCHANGED mem
      /\ UNCHANGED calls /\ UNCHANGED failed /\ UNCHANGED crashes /\ disk' = None
  BY IInvInv DEF DeleteWorkspaceForced, transient
<1>2. /\ StoreGrows /\ StoreClosed' /\ Frames' = Frames
      /\ trees' = trees /\ datas' = datas /\ commits' = commits
  BY <1>1, StoreStays
<1>3. /\ files' \in [Node -> Trees(Objects') \union Entities(datas') \union {None}]
      /\ mem' \in [Handle -> WorkspaceObjs(trees', Len(commits')) \union {None}]
      /\ calls' \in [Handle -> Seq(Frames')]
  BY <1>1, <1>2, TypesStay
<1>4. TypeOK'
  BY <1>1, <1>2, <1>3 DEF Inv, TypeOK
<1>5. RootWritten' = RootWritten
  BY <1>1 DEF RootWritten
<1>6. RootInv'
  <2>1. \A g \in Handle : InCall(g)' = InCall(g) /\ Unwritten(g)' = Unwritten(g)
    BY <1>1 DEF InCall, Unwritten, Top
  <2> QED BY <1>1, <1>2, <1>5, <2>1 DEF IInv, RootInv
<1> QED BY <1>2, <1>4, <1>6 DEF IInv

(* Crash: the call ends between any two of its steps. *)
LEMMA CrashStep ==
    ASSUME IInv, NEW h \in Handle, Crash(h)
    PROVE  IInv'
<1>1. failed' \subseteq {198, 333} /\ crashes' \in Nat
  BY DEF Crash, IInv, TypeOK
<1>2. /\ mem' = [mem EXCEPT ![h] = None]
      /\ calls' = [calls EXCEPT ![h] = <<>>]
      /\ UNCHANGED <<store, transient, disk>>
  BY DEF Crash
<1> QED BY <1>1, <1>2, Ended

(* WriteData: only a data file changes. *)
LEMMA WriteDataStep ==
    ASSUME IInv, NEW h \in Handle, NEW p \in Path, NEW d \in Data, WriteData(h, p, d)
    PROVE  IInv'
<1>1. /\ Inv /\ UNCHANGED store /\ UNCHANGED files /\ UNCHANGED disk /\ UNCHANGED mem
      /\ UNCHANGED calls /\ UNCHANGED failed /\ UNCHANGED crashes
      /\ edata' = [edata EXCEPT ![p] = d]
  BY IInvInv DEF WriteData
<1>2. /\ StoreGrows /\ StoreClosed' /\ Frames' = Frames
      /\ trees' = trees /\ datas' = datas /\ commits' = commits
  BY <1>1, StoreStays
<1>3. /\ files' \in [Node -> Trees(Objects') \union Entities(datas') \union {None}]
      /\ disk' \in WorkspaceObjs(trees', Len(commits')) \union {None}
      /\ mem' \in [Handle -> WorkspaceObjs(trees', Len(commits')) \union {None}]
      /\ calls' \in [Handle -> Seq(Frames')]
  BY <1>1, <1>2, TypesStay
<1>4. edata' \in [Path -> Data \union {None}]
  BY <1>1 DEF Inv, TypeOK
<1>5. TypeOK'
  BY <1>1, <1>2, <1>3, <1>4 DEF Inv, TypeOK
<1>6. RootInv'
  <2>1. RootWritten' = RootWritten
    BY <1>1 DEF RootWritten
  <2>2. \A g \in Handle : InCall(g)' = InCall(g) /\ Unwritten(g)' = Unwritten(g)
    BY <1>1 DEF InCall, Unwritten, Top
  <2> QED BY <1>1, <1>2, <2>1, <2>2 DEF IInv, RootInv
<1> QED BY <1>2, <1>5, <1>6 DEF IInv

(* A client's call that enters createPath.                                 *)
LEMMA ClientEntered ==
    ASSUME IInv, NEW h \in Handle, Idle(h),
           NEW op \in PathOps, NEW p \in Path, NEW leaf \in Entities(datas) \union {None},
           op = "store" => leaf # None,
           EnterPath(h, op, p, leaf, <<>>),
           UNCHANGED <<store, transient, disk, failed, crashes>>
    PROVE  IInv'
<1>1. <<>> \in Seq(Frames) /\ Len(<<>>) = 0
  BY EmptySeq
<1>2. \A i \in 1..Len(<<>>) : <<>>[i].op # "commit"
  BY <1>1
<1>3. mem[h] # None /\ calls[h] = <<>>
  BY DEF Idle
<1> QED BY <1>1, <1>2, <1>3, Entered

(* StoreEntity: enters createPath with a new entity. *)
LEMMA StoreEntityStep ==
    ASSUME IInv, NEW h \in Handle, NEW p \in Path, NEW m \in Meta, StoreEntity(h, p, m)
    PROVE  IInv'
<1>1. EntityObj(m, None) \in Entities(datas) /\ EntityObj(m, None) # None
  BY DEF EntityObj, Entities, None
<1>2. /\ Idle(h) /\ EnterPath(h, "store", p, EntityObj(m, None), <<>>)
      /\ UNCHANGED <<store, transient, disk, failed, crashes>>
  BY DEF StoreEntity
<1> QED BY <1>1, <1>2, ClientEntered DEF PathOps

(* EditEntity: enters it with what getEntity gave. *)
LEMMA EditEntityStep ==
    ASSUME IInv, NEW h \in Handle, NEW p \in Path, NEW m \in Meta, EditEntity(h, p, m)
    PROVE  IInv'
<1> DEFINE e == GetEntity(h, p)
           new == [e EXCEPT !.meta = m]
<1>1. e \in Entities(datas)
  BY IInvInv, GetTypes DEF EditEntity
<1>2. new \in Entities(datas) /\ new # None
  BY <1>1 DEF Entities, None
<1>3. /\ Idle(h) /\ EnterPath(h, "store", p, new, <<>>)
      /\ UNCHANGED <<store, transient, disk, failed, crashes>>
  BY DEF EditEntity
<1> HIDE DEF new
<1> QED BY <1>2, <1>3, ClientEntered DEF PathOps

(* DeleteEntity and DeleteTree enter it without a leaf. *)
LEMMA DeleteStep ==
    ASSUME IInv, NEW h \in Handle, NEW p \in Path, DeleteEntity(h, p) \/ DeleteTree(h, p)
    PROVE  IInv'
<1>1. PICK op \in {"deleteEntity", "deleteTree"} :
         /\ Idle(h) /\ EnterPath(h, op, p, None, <<>>)
         /\ UNCHANGED <<store, transient, disk, failed, crashes>>
  BY DEF DeleteEntity, DeleteTree
<1> QED BY <1>1, ClientEntered DEF PathOps

-----------------------------------------------------------------------------
(* The invariant holds initially and is kept by every step.                *)

(* A step in which nothing changes keeps the invariant. *)
LEMMA StutterKeeps ==
    ASSUME IInv, UNCHANGED vars
    PROVE  IInv'
<1>1. /\ Inv /\ UNCHANGED store /\ UNCHANGED files /\ UNCHANGED edata /\ UNCHANGED disk
      /\ UNCHANGED mem /\ UNCHANGED calls /\ UNCHANGED failed /\ UNCHANGED crashes
  BY IInvInv DEF vars, transient
<1>2. /\ StoreGrows /\ StoreClosed' /\ Frames' = Frames
      /\ trees' = trees /\ datas' = datas /\ commits' = commits
  BY <1>1, StoreStays
<1>3. /\ files' \in [Node -> Trees(Objects') \union Entities(datas') \union {None}]
      /\ disk' \in WorkspaceObjs(trees', Len(commits')) \union {None}
      /\ mem' \in [Handle -> WorkspaceObjs(trees', Len(commits')) \union {None}]
      /\ calls' \in [Handle -> Seq(Frames')]
  BY <1>1, <1>2, TypesStay
<1>4. TypeOK'
  BY <1>1, <1>2, <1>3 DEF Inv, TypeOK
<1>5. RootInv'
  BY <1>1, <1>2 DEF IInv, RootInv, RootWritten, InCall, Unwritten, Top
<1> QED BY <1>2, <1>4, <1>5 DEF IInv

(* The invariant holds initially. *)
LEMMA InitIInv == Init => IInv
<1> SUFFICES ASSUME Init PROVE IInv
  OBVIOUS
<1>1. commits = <<>> /\ Len(commits) = 0
  BY DEF Init, NothingYet
<1>2. TypeOK
  <2>1. <<>> \in Seq(Frames)
    BY EmptySeq
  <2> QED BY <2>1 DEF Init, NothingYet, TypeOK
<1>3. StoreClosed
  <2>1. <<>> \in Seq([parent : 0..Len(commits), root : trees \union {None}])
    BY EmptySeq
  <2> QED BY <1>1, <2>1 DEF Init, NothingYet, StoreClosed
<1>4. RootInv
  BY DEF Init, NothingYet, RootInv, Unwritten
<1> QED BY <1>2, <1>3, <1>4 DEF IInv

(* A step of a running call keeps the invariant, *)
LEMMA CallStepKeeps ==
    ASSUME IInv, NEW h \in Handle, CallStep(h)
    PROVE  IInv'
<1>1. CASE PathStep(h)
  BY <1>1, DescendStep, BlockedStep, SegUntrackedStep, StoreLeafStep, DeleteEntityLeafStep,
     DeleteTreeLeafStep, StoreTreeOfPathStep, StoreRootStep, SaveWorkspaceStep DEF PathStep
<1>2. CASE RemoveStep(h)
  BY <1>2, RemoveChildStep, RemoveTreeStep, RemoveEndsStep DEF RemoveStep
<1>3. CASE CommitStep(h)
  <2>1. CASE ReadEmptyData(h)
    BY <2>1, StutterKeeps DEF ReadEmptyData
  <2> QED
    BY <1>3, <2>1, CommitChildStep, PersistDataStep, PersistEntityStep, RemovePersistedStep,
       CommitUnrecordedStep, PersistTreeStep, RemovePersistedTreeStep, CreateCommitStep,
       EndCommitStep DEF CommitStep
<1> QED BY <1>1, <1>2, <1>3 DEF CallStep

(* and so does a step of a client. *)
LEMMA ClientStepKeeps ==
    ASSUME IInv, NEW h \in Handle, ClientStep(h)
    PROVE  IInv'
BY CreateWorkspaceStep, OpenWorkspaceStep, CloseWorkspaceStep, StoreEntityStep, EditEntityStep,
   WriteDataStep, DeleteStep, BeginCommitStep DEF ClientStep

(* Every step keeps the invariant. *)
LEMMA NextIInv == IInv /\ [Next]_vars => IInv'
BY CallStepKeeps, ClientStepKeeps, CrashStep, DeleteWorkspaceForcedStep, StutterKeeps DEF Next

(* The invariant gives back what the runs check.                           *)
LEMMA IInvRoot == IInv => RootIsThere
<1> SUFFICES ASSUME IInv PROVE RootIsThere
  OBVIOUS
<1>1. ASSUME NEW ws \in WorkspaceObjs(trees, Len(commits)), Tracks(ws), RootWritten \/ ws.root = None
      PROVE  RootHolds(ws)
  BY <1>1, IInvInv, RootReadable DEF RootHolds, Tracks
<1>2. disk # None => RootHolds(disk)
  BY <1>1, DiskFacts
<1>3. ASSUME NEW h \in Handle, Idle(h) PROVE RootHolds(mem[h])
  <2>1. mem[h] \in WorkspaceObjs(trees, Len(commits)) /\ Tracks(mem[h])
    BY <1>3 DEF IInv, TypeOK, RootInv, Idle
  <2>2. RootWritten \/ mem[h].root = None
    BY <1>3 DEF IInv, RootInv, Unwritten, Idle
  <2> QED BY <1>1, <2>1, <2>2
<1> QED BY <1>2, <1>3 DEF RootIsThere

-----------------------------------------------------------------------------
(* Whatever clients, crashes, assertions and other handles do:             *)

(* the inductive invariant holds in every reachable state;                 *)
THEOREM Inductive == Spec => []IInv
<1>1. Init => IInv
  BY InitIInv
<1>2. IInv /\ [Next]_vars => IInv'
  BY NextIInv
<1> QED BY <1>1, <1>2, PTL DEF Spec

(* every variable and every frame of createPath, deleteObject<Tree> and    *)
(* commit has its type: no search leaves the paths, no walk goes beyond    *)
(* the segments of its path, no tree that a walk holds is null;            *)
THEOREM TypeCorrect == Spec => []TypeOK
<1>1. IInv => TypeOK
  BY DEF IInv
<1> QED BY <1>1, Inductive, PTL

(* what a commit persists refers only to what has been persisted before;   *)
THEOREM Closed == Spec => []StoreClosed
<1>1. IInv => StoreClosed
  BY DEF IInv
<1> QED BY <1>1, Inductive, PTL

(* the root of the workspace can be read and is tracked, so that the       *)
(* assertions of lines 225 and 227 of workspaceimpl.h hold.                *)
THEOREM RootStays == Spec => []RootIsThere
BY IInvRoot, Inductive, PTL

-----------------------------------------------------------------------------
(* What a commit holds, told by the objects of the store alone.            *)

Children(refs, n) ==
    {tree.refs[n] : tree \in {t \in {ObjectOf(r) : r \in refs} : IsTree(t)}}

StoredChildren(refs, n) ==
    {tree.refs[n] : tree \in {t \in {r.id : r \in {s \in refs : IsIdRef(s)}} : IsTree(t)}}

StoredBelow(root, p) ==
    LET refs[i \in 0..Len(p)] == IF i = 0 THEN {root} ELSE StoredChildren(refs[i - 1], p[i])
    IN  refs[Len(p)]

StoredAt(root, p) ==
    LET found == UNION {{[meta |-> e.meta, data |-> e.dataid] : e \in {o \in {r.id} : IsEntity(o)}} :
                          r \in {s \in StoredBelow(root, p) : IsIdRef(s)}}
    IN  IF found = {} THEN None ELSE CHOOSE c \in found : TRUE

IsStored == {None} \union IdRefs(Objects)

(* No tree in the store refers to a file of the workspace. *)
OnlyStored == \A t \in trees : t.refs \in [Name -> IsStored]

LEMMA TreesOnlyStored ==
    ASSUME Inv, Asserts \/ CommitFindsChildren
    PROVE  OnlyStored
<1> SUFFICES ASSUME NEW t \in trees, NEW n \in Name
             PROVE  t.refs \in [Name -> PersistedRefs] /\ t.refs[n] \in IsStored
  BY DEF OnlyStored, Inv, StoreClosed
<1>1. t.refs \in [Name -> PersistedRefs] /\ t.refs[n] \in PersistedRefs
  BY DEF Inv, StoreClosed
<1>2. CommitFindsChildren => t.refs[n] \notin PathRefs
  BY DEF CommitFindsChildren, TransientNames, PathRefs, IsPathRef, None
<1> QED BY <1>1, <1>2 DEF PersistedRefs, IsStored

(* From references into the store one comes to references into the store. *)
LEMMA StaysStored ==
    ASSUME Inv, OnlyStored, NEW refs \in SUBSET IsStored, NEW n \in Name
    PROVE  /\ Children(refs, n) = StoredChildren(refs, n)
           /\ Children(refs, n) \in SUBSET IsStored
<1>1. ASSUME NEW r \in IsStored
      PROVE  IF IsIdRef(r) THEN ObjectOf(r) = r.id ELSE ObjectOf(r) = None
  BY DEF IsStored, IdRefs, IsIdRef, IsPathRef, ObjectOf, None
<1>2. ~IsTree(None)
  BY DEF IsTree, None
<1>3. {t \in {ObjectOf(r) : r \in refs} : IsTree(t)}
        = {t \in {r.id : r \in {s \in refs : IsIdRef(s)}} : IsTree(t)}
  BY <1>1, <1>2
<1>4. Children(refs, n) = StoredChildren(refs, n)
  BY <1>3 DEF Children, StoredChildren
<1>5. ASSUME NEW r \in IsStored, IsIdRef(r), IsTree(r.id)
      PROVE  r.id.refs[n] \in IsStored
  <2>1. r.id \in Objects
    BY <1>5 DEF IsStored, IdRefs, IsIdRef, None
  <2>2. r.id \in trees
    BY <1>5, <2>1 DEF Objects, Inv, StoreClosed, Entities, IsTree
  <2> QED BY <2>2 DEF OnlyStored
<1>6. StoredChildren(refs, n) \in SUBSET IsStored
  BY <1>5 DEF StoredChildren
<1> QED BY <1>4, <1>6

LEMMA BelowIsStored ==
    ASSUME Inv, OnlyStored, NEW root \in IsStored, NEW p \in Path
    PROVE  /\ RefsBelow(root, p) = StoredBelow(root, p)
           /\ StoredBelow(root, p) \in SUBSET IsStored
<1> DEFINE n == Len(p)
           D == SUBSET IsStored
           g == [i \in 1..n |-> [R \in D |-> Children(R, p[i])]]
<1>1. n \in Nat /\ \A i \in 1..n : p[i] \in Name
  BY PathLength, PrefixIsPath
<1>2. g \in [1..n -> [D -> D]]
  BY <1>1, StaysStored
<1>3. \A i \in 1..n : \A R \in D : g[i][R] = Children(R, p[i]) /\ g[i][R] = StoredChildren(R, p[i])
  BY <1>1, StaysStored
<1> HIDE DEF g
<1>4. PICK r \in [0..n -> D] : r[0] = {root} /\ \A i \in 1..n : r[i] = g[i][r[i - 1]]
  <2>1. {root} \in D
    OBVIOUS
  <2>2. n \in Nat
    BY <1>1
  <2> HIDE DEF D, n
  <2>3. \E r : Steps(n, D, {root}, g, r)
    BY <2>2, <1>2, <2>1, Recursion
  <2> QED BY <2>3 DEF Steps
<1>5. \A i \in 1..n : r[i] = Children(r[i - 1], p[i]) /\ r[i] = StoredChildren(r[i - 1], p[i])
  <2>1. \A i \in 1..n : r[i - 1] \in D
    BY <1>1
  <2> QED BY <1>3, <1>4, <2>1
<1> HIDE DEF n
<1>6. RefsBelow(root, p) = r[n]
  <2> DEFINE Is(q) == q = [i \in 0..n |-> IF i = 0 THEN {root} ELSE Children(q[i - 1], p[i])]
  <2>1. Is(r)
    BY <1>1, <1>4, <1>5
  <2>2. ASSUME NEW q, Is(q)
        PROVE  q = r
    <3>1. \A i \in 0..n : q[i] = IF i = 0 THEN {root} ELSE Children(q[i - 1], p[i])
      BY <2>2
    <3>2. q[0] = r[0]
      BY <1>1, <1>4, <3>1
    <3>3. ASSUME NEW i \in 1..n, q[i - 1] = r[i - 1]
          PROVE  q[i] = r[i]
      <4>1. i \in 0..n /\ i # 0
        BY <1>1
      <4> QED BY <1>5, <3>1, <3>3, <4>1
    <3>4. q = [i \in 0..n |-> q[i]] /\ r = [i \in 0..n |-> r[i]]
      BY <1>4, <2>2
    <3> HIDE DEF Is
    <3>5. n \in Nat
      BY <1>1
    <3>6. TakeSameSteps(n, q, r)
      BY <3>2, <3>3 DEF TakeSameSteps
    <3>7. AreSame(n, q, r)
      BY <3>5, <3>6, Unique
    <3> QED BY <3>4, <3>7 DEF AreSame
  <2>3. RefsBelow(root, p) = (CHOOSE q : Is(q))[n]
    BY DEF RefsBelow, Children, n
  <2> HIDE DEF Is
  <2>4. (CHOOSE q : Is(q)) = r
    BY <2>1, <2>2
  <2> QED BY <2>3, <2>4
<1>7. StoredBelow(root, p) = r[n]
  <2> DEFINE Is(q) == q = [i \in 0..n |-> IF i = 0 THEN {root} ELSE StoredChildren(q[i - 1], p[i])]
  <2>1. Is(r)
    BY <1>1, <1>4, <1>5
  <2>2. ASSUME NEW q, Is(q)
        PROVE  q = r
    <3>1. \A i \in 0..n : q[i] = IF i = 0 THEN {root} ELSE StoredChildren(q[i - 1], p[i])
      BY <2>2
    <3>2. q[0] = r[0]
      BY <1>1, <1>4, <3>1
    <3>3. ASSUME NEW i \in 1..n, q[i - 1] = r[i - 1]
          PROVE  q[i] = r[i]
      <4>1. i \in 0..n /\ i # 0
        BY <1>1
      <4> QED BY <1>5, <3>1, <3>3, <4>1
    <3>4. q = [i \in 0..n |-> q[i]] /\ r = [i \in 0..n |-> r[i]]
      BY <1>4, <2>2
    <3> HIDE DEF Is
    <3>5. n \in Nat
      BY <1>1
    <3>6. TakeSameSteps(n, q, r)
      BY <3>2, <3>3 DEF TakeSameSteps
    <3>7. AreSame(n, q, r)
      BY <3>5, <3>6, Unique
    <3> QED BY <3>4, <3>7 DEF AreSame
  <2>3. StoredBelow(root, p) = (CHOOSE q : Is(q))[n]
    BY DEF StoredBelow, n
  <2> HIDE DEF Is
  <2>4. (CHOOSE q : Is(q)) = r
    BY <2>1, <2>2
  <2> QED BY <2>3, <2>4
<1>8. r[n] \in D
  BY <1>1, <1>4
<1> QED BY <1>6, <1>7, <1>8

StoredRoot(c) == IF c.root = None THEN None ELSE IdRef(c.root)

(* A commit's map does not depend on the files of the workspace.           *)
TreesAreStored ==
    \A i \in 1..Len(commits) : \A p \in Path : AtIn(commits[i], p) = StoredAt(StoredRoot(commits[i]), p)

LEMMA AtIsStored ==
    ASSUME IInv, Asserts \/ CommitFindsChildren
    PROVE  TreesAreStored
<1> SUFFICES ASSUME NEW i \in 1..Len(commits), NEW p \in Path
             PROVE  AtIn(commits[i], p) = StoredAt(StoredRoot(commits[i]), p)
  BY DEF TreesAreStored
<1> DEFINE root == StoredRoot(commits[i])
           Contents(ref) == {[meta |-> e.meta, data |-> DataOf(ref, e)] : e \in {o \in {ObjectOf(ref)} : IsEntity(o)}}
           Stored(ref) == {[meta |-> e.meta, data |-> e.dataid] : e \in {o \in {ref.id} : IsEntity(o)}}
<1>1. Inv
  BY IInvInv
<1>2. commits[i].root \in trees \union {None}
  <2>1. commits \in Seq([parent : 0..Len(commits), root : trees \union {None}])
    BY <1>1 DEF Inv, StoreClosed
  <2>2. commits[i] \in [parent : 0..Len(commits), root : trees \union {None}]
    BY <2>1, ElementOfSeq
  <2> QED BY <2>2
<1>3. root \in IsStored
  BY <1>2 DEF StoredRoot, IsStored, IdRefs, IdRef, Objects
<1>4. AtIn(commits[i], p) = ContentBelow(root, p)
  BY DEF AtIn, StoredRoot
<1> HIDE DEF root
<1>5. RefsBelow(root, p) = StoredBelow(root, p) /\ StoredBelow(root, p) \in SUBSET IsStored
  BY <1>1, <1>3, TreesOnlyStored, BelowIsStored
<1> DEFINE refs == StoredBelow(root, p)
<1>6. ASSUME NEW r \in IsStored
      PROVE  /\ IsIdRef(r) => Contents(r) = Stored(r)
             /\ ~IsIdRef(r) => Contents(r) = {}
  <2>1. ~IsPathRef(r) /\ (IsIdRef(r) => ObjectOf(r) = r.id) /\ (~IsIdRef(r) => ObjectOf(r) = None)
    BY DEF IsStored, IdRefs, IsIdRef, IsPathRef, ObjectOf, None
  <2>2. ~IsEntity(None)
    BY DEF IsEntity, None
  <2>3. \A e : DataOf(r, e) = e.dataid
    BY <2>1 DEF DataOf
  <2> QED BY <2>1, <2>2, <2>3
<1> HIDE DEF Contents, Stored
<1>7. UNION {Contents(r) : r \in refs} = UNION {Stored(r) : r \in {s \in refs : IsIdRef(s)}}
  BY <1>5, <1>6
<1>8. UNION {Contents(r) : r \in RefsBelow(root, p)}
        = UNION {Stored(r) : r \in {s \in StoredBelow(root, p) : IsIdRef(s)}}
  BY <1>5, <1>7
<1>9. ContentBelow(root, p) = StoredAt(root, p)
  <2>1. ContentBelow(root, p)
          = LET found == UNION {Contents(r) : r \in RefsBelow(root, p)}
            IN  IF found = {} THEN None ELSE CHOOSE c \in found : TRUE
    BY DEF ContentBelow, Contents
  <2>2. StoredAt(root, p)
          = LET found == UNION {Stored(r) : r \in {s \in StoredBelow(root, p) : IsIdRef(s)}}
            IN  IF found = {} THEN None ELSE CHOOSE c \in found : TRUE
    BY DEF StoredAt, Stored
  <2> QED BY <1>8, <2>1, <2>2
<1> QED BY <1>4, <1>9 DEF root

(* The list of commits only grows. *)
LEMMA CommitsGrow ==
    ASSUME [Next]_vars
    PROVE  commits' = commits \/ \E c : commits' = Append(commits, c)
<1>1. ASSUME NEW h \in Handle, PathStep(h)
      PROVE  commits' = commits
  BY <1>1 DEF PathStep, Descend, BlockedBelowEntity, SegUntracked, Abort, StoreLeaf,
     DeleteEntityLeaf, DeleteTreeLeaf, StoreTreeOfPath, StoreRoot, SaveWorkspace, store
<1>2. ASSUME NEW h \in Handle, RemoveStep(h)
      PROVE  commits' = commits
  BY <1>2 DEF RemoveStep, RemoveChild, RemoveTree, RemoveEnds, store
<1>3. ASSUME NEW h \in Handle, CommitStep(h), ~CreateCommit(h)
      PROVE  commits' = commits
  BY <1>3 DEF CommitStep, CommitChild, PersistData, ReadEmptyData, PersistEntity, RemovePersisted,
     CommitUnrecorded, Abort, PersistTree, RemovePersistedTree, EndCommit, store, vars
<1>4. ASSUME NEW h \in Handle, CreateCommit(h)
      PROVE  \E c : commits' = Append(commits, c)
  BY <1>4 DEF CreateCommit
<1>5. ASSUME NEW h \in Handle, ClientStep(h) \/ Crash(h)
      PROVE  commits' = commits
  BY <1>5 DEF ClientStep, CreateWorkspace, OpenWorkspace, CloseWorkspace, StoreEntity, EditEntity,
     WriteData, DeleteEntity, DeleteTree, BeginCommit, Crash, store
<1>6. DeleteWorkspaceForced => commits' = commits
  BY DEF DeleteWorkspaceForced, store
<1>7. UNCHANGED vars => commits' = commits
  BY DEF vars, store
<1> QED BY <1>1, <1>2, <1>3, <1>4, <1>5, <1>6, <1>7 DEF Next, CallStep

LEMMA HistoryGrows ==
    ASSUME [Next]_vars, IInv, TreesAreStored, TreesAreStored'
    PROVE  IsPrefix(History, History')
<1> DEFINE n == Len(commits)
<1>1. n \in Nat /\ Len(commits') \in Nat /\ n <= Len(commits')
  <2>1. commits \in Seq([parent : 0..Len(commits), root : trees \union {None}])
    BY DEF IInv, StoreClosed
  <2>2. \A c : Append(commits, c) = commits \o <<c>> /\ Len(Append(commits, c)) = Len(commits) + 1
    BY <2>1
  <2> QED BY <2>1, <2>2, CommitsGrow
<1>2. ASSUME NEW i \in 1..n
      PROVE  commits'[i] = commits[i]
  BY <1>1, CommitsGrow
<1>3. ASSUME NEW i \in 1..n, NEW p \in Path
      PROVE  AtIn(commits[i], p)' = AtIn(commits[i], p)
  <2>1. AtIn(commits[i], p) = StoredAt(StoredRoot(commits[i]), p)
    BY DEF TreesAreStored
  <2>2. i \in 1..Len(commits')
    BY <1>1
  <2>3. AtIn(commits[i], p)' = StoredAt(StoredRoot(commits'[i]), p)
    BY <2>2 DEF TreesAreStored
  <2> QED BY <1>2, <2>1, <2>3
<1>4. ASSUME NEW i \in 1..n
      PROVE  [p \in Path |-> AtIn(commits[i], p)]' = [p \in Path |-> AtIn(commits[i], p)]
  BY <1>3
<1>5. History \in Seq({History[i] : i \in 1..n}) /\ Len(History) = n
  BY <1>1 DEF History
<1>6. Len(History') = Len(commits')
  BY <1>1 DEF History
<1>7. ASSUME NEW i \in 1..n
      PROVE  History'[i] = History[i]
  BY <1>1, <1>4 DEF History
<1>8. SubSeq(History, 1, n) = [i \in 1..n |-> History[i]]
  BY <1>1 DEF History
<1>9. SubSeq(History', 1, n) = [i \in 1..n |-> History'[i]]
  BY <1>1 DEF History
<1> QED BY <1>1, <1>5, <1>6, <1>7, <1>8, <1>9 DEF IsPrefix

(* What was committed stays as it is, whatever happens to the workspace    *)
(* afterwards: crashes, other handles, callers that do not look, for any   *)
(* paths, data and number of handles.                                      *)
THEOREM CommittedStays ==
    ASSUME Asserts
    PROVE  Spec => HistoryStays
<1>1. IInv => TreesAreStored
  BY AtIsStored
<1>2. IInv /\ TreesAreStored /\ TreesAreStored' /\ [Next]_vars => [IsPrefix(History, History')]_vars
  BY HistoryGrows
<1> QED BY <1>1, <1>2, Inductive, PTL DEF Spec, HistoryStays

-----------------------------------------------------------------------------
(* A process at a time, that no crash stops: the assertion of line 198     *)
(* never fails and no stored tree names a file, unless the assertion of    *)
(* line 333 has ended a call halfway, or a client's call has met a segment *)
(* that is no tree and has written a tree of the path as the root.  Nobody *)
(* deletes the workspace's object either while somebody has it open.       *)

Alone == \A g, h \in Handle : g # h => mem[g] = None \/ mem[h] = None

Undisturbed ==
    /\ Alone'
    /\ UNCHANGED crashes
    /\ \A h \in Handle : BlockedBelowEntity(h) => Len(calls[h]) > 1
    /\ DeleteWorkspaceForced => \A h \in Handle : mem[h] = None

LoneSpec == Init /\ [][Next /\ Undisturbed]_vars

(* F stands for the files, as they are or will be.  The references by path *)
(* in a tree at q lead to its children, which are there.                   *)
Lies(F, q) == q \in Node /\ F[q] # None

Fits(F, q, tree) ==
    \A n \in TransientNames(tree) :
        tree.refs[n].path = Append(q, n) /\ Lies(F, Append(q, n))

Sound(F, Q) == \A q \in Q : IsTree(F[q]) => Fits(F, q, F[q])

(* What the files will be when a walk that comes up has come to the root   *)
(* and the places in gone have been removed.                               *)
Written(f, i) ==
    IF i = Len(f.trees) THEN f.trees[i]
    ELSE Link(f.trees[i], f.path[i], PathRef(Upto(f.path, i), TRUE))

IsAbove(f, q) == Len(q) < Len(f.trees) /\ q = Upto(f.path, Len(q))

After(F, f, gone) ==
    [q \in Node |-> IF IsAbove(f, q) THEN Written(f, Len(q) + 1)
                    ELSE IF q \in gone THEN None ELSE F[q]]

(* The stack of a search that began at p. *)
Places(stack) == {stack[k].path : k \in 1..Len(stack)}

Chain(stack, p) ==
    stack # <<>> =>
       LET q == Last(stack).path
       IN  /\ Len(q) + 1 = Len(p) + Len(stack)
           /\ \A k \in 1..Len(stack) : stack[k].path = Upto(q, Len(p) + k - 1)
           /\ stack[1].path = p

-----------------------------------------------------------------------------
(* Paths.                                                                  *)

(* A prefix of a path, and one segment more. *)
LEMMA PathPrefix ==
    ASSUME NEW p \in Seq(Name), NEW i \in 0..Len(p)
    PROVE  /\ Upto(p, i) \in Seq(Name) /\ Len(Upto(p, i)) = i
           /\ Upto(p, Len(p)) = p /\ Upto(p, 0) = Root
           /\ \A j \in 0..i : Upto(Upto(p, i), j) = Upto(p, j)
           /\ i # 0 => p[i] \in Name /\ Upto(p, i) = Append(Upto(p, i - 1), p[i])
<1>1. Len(p) \in Nat /\ \A k \in 1..Len(p) : p[k] \in Name
  OBVIOUS
<1>2. Upto(p, i) \in Seq(Name) /\ Len(Upto(p, i)) = i
      /\ \A k \in 1..i : Upto(p, i)[k] = p[k]
  BY DEF Upto
<1>3. Upto(p, Len(p)) = p
  BY DEF Upto
<1>4. Upto(p, 0) = Root
  BY DEF Upto, Root
<1>5. \A j \in 0..i : Upto(Upto(p, i), j) = Upto(p, j)
  BY DEF Upto
<1>6. ASSUME i # 0
      PROVE  p[i] \in Name /\ Upto(p, i) = Append(Upto(p, i - 1), p[i])
  BY <1>6 DEF Upto
<1> QED BY <1>2, <1>3, <1>4, <1>5, <1>6

(* A path and a segment can be told from the path they make. *)
LEMMA Segments ==
    ASSUME NEW q \in Seq(Name), NEW n \in Name
    PROVE  /\ Append(q, n) \in Seq(Name) /\ Len(Append(q, n)) = Len(q) + 1
           /\ Append(q, n) # q
           /\ \A i \in 0..Len(q) : Upto(Append(q, n), i) = Upto(q, i)
           /\ \A r \in Seq(Name), m \in Name : Append(q, n) = Append(r, m) => q = r /\ n = m
<1>1. Append(q, n) \in Seq(Name) /\ Len(Append(q, n)) = Len(q) + 1
      /\ \A i \in 1..Len(q) : Append(q, n)[i] = q[i]
  OBVIOUS
<1>2. ASSUME NEW i \in 0..Len(q)
      PROVE  Upto(Append(q, n), i) = Upto(q, i)
  BY DEF Upto
<1>3. ASSUME NEW r \in Seq(Name), NEW m \in Name, Append(q, n) = Append(r, m)
      PROVE  q = r /\ n = m
  BY <1>3
<1> QED BY <1>1, <1>2, <1>3

(* A place in the workspace is a sequence of segments. *)
LEMMA NodeIsPath ==
    /\ Node \subseteq Seq(Name)
    /\ \A q \in Node : q # Root => q \in Path
BY PathAssumption, EmptySeq DEF Node, Root

(* The references of a tree after one of them has been set. *)
LEMMA LinkRefs ==
    ASSUME NEW objs, NEW t \in Trees(objs), NEW n \in Name, NEW ref
    PROVE  /\ IsTree(Link(t, n, ref)) /\ Link(t, n, ref) # None
           /\ \A m \in Name : Link(t, n, ref).refs[m] = IF m = n THEN ref ELSE t.refs[m]
<1>1. t.refs \in [Name -> Refs(objs)] /\ t.is = "tree"
  BY DEF Trees
<1> QED BY <1>1 DEF Link, IsTree, Trees, None

-----------------------------------------------------------------------------
(* Walks.                                                                  *)

(* What a walk will have written above its leaf. *)
LEMMA WrittenTree ==
    ASSUME NEW objs, NEW f, NEW p \in Path, f.path = p, f.trees \in Seq(Trees(objs)),
           Len(f.trees) \in 1..Len(p), NEW i \in 1..Len(f.trees)
    PROVE  IsTree(Written(f, i)) /\ Written(f, i) # None
<1>1. f.trees[i] \in Trees(objs) /\ p[i] \in Name
  <2>1. i \in 1..Len(p)
    BY PathLength
  <2> QED BY <2>1, PrefixIsPath
<1>2. IsTree(f.trees[i]) /\ f.trees[i] # None
  BY <1>1 DEF Trees, IsTree, None
<1> DEFINE there == Link(f.trees[i], p[i], PathRef(Upto(p, i), TRUE))
<1>3. IsTree(there) /\ there # None
  <2> DEFINE t == f.trees[i]
             n == p[i]
             ref == PathRef(Upto(p, i), TRUE)
  <2>1. t \in Trees(objs) /\ n \in Name
    BY <1>1
  <2> HIDE DEF t, n, ref
  <2>2. IsTree(Link(t, n, ref)) /\ Link(t, n, ref) # None
    BY <2>1, LinkRefs
  <2> QED BY <2>2 DEF t, n, ref
<1>4. Written(f, i) = f.trees[i] \/ Written(f, i) = there
  BY DEF Written
<1> HIDE DEF there
<1> QED BY <1>2, <1>3, <1>4

(* The walk f turns at its leaf p, where it leaves the reference ref; it   *)
(* has read the trees ts, and the leaf is all that differs in the files.   *)
Turned(F, G, p, f, ref, gone, ts) ==
    /\ Sound(F, Path)
    /\ \A i \in 1..Len(p) : Fits(F, Upto(p, i - 1), ts[i])
    /\ f.path = p /\ Len(f.trees) = Len(p)
    /\ \A i \in 1..(Len(p) - 1) : f.trees[i] = ts[i]
    /\ f.trees[Len(p)] = Link(ts[Len(p)], p[Len(p)], ref)
    /\ \A q \in Node : q # p => G[q] = F[q]
    /\ \/ ref # None /\ ref.path = p /\ G[p] # None /\ ~IsTree(G[p]) /\ gone = {}
       \/ ref = None /\ gone \subseteq {p} /\ G[p] \in {F[p], None}

(* The leaf of a walk has been stored or taken out (ref is None): when the *)
(* walk has come up, every reference will lead to its child.               *)
LEMMA Rising ==
    ASSUME NEW objs, NEW F, NEW G, NEW p \in Path, NEW f, NEW ref, NEW gone,
           NEW ts \in Seq(Trees(objs)), Len(ts) = Len(p), f.trees \in Seq(Trees(objs)),
           Turned(F, G, p, f, ref, gone, ts)
    PROVE  Sound(After(G, f, gone), Node)
<1> /\ Sound(F, Path)
    /\ \A i \in 1..Len(p) : Fits(F, Upto(p, i - 1), ts[i])
    /\ f.path = p /\ Len(f.trees) = Len(p)
    /\ \A i \in 1..(Len(p) - 1) : f.trees[i] = ts[i]
    /\ f.trees[Len(p)] = Link(ts[Len(p)], p[Len(p)], ref)
    /\ \A q \in Node : q # p => G[q] = F[q]
    /\ \/ ref # None /\ ref.path = p /\ G[p] # None /\ ~IsTree(G[p]) /\ gone = {}
       \/ ref = None /\ gone \subseteq {p} /\ G[p] \in {F[p], None}
  BY DEF Turned
<1> DEFINE A == After(G, f, gone)
           k == Len(p)
           to(i) == IF i = k THEN ref ELSE PathRef(Upto(p, i), TRUE)
<1>0. p \in Seq(Name) /\ k \in Nat \ {0} /\ p \in Node
  BY PathLength
<1>1. \A q \in Node : A[q] = IF IsAbove(f, q) THEN Written(f, Len(q) + 1)
                             ELSE IF q \in gone THEN None ELSE G[q]
  BY DEF After
<1>2. \A i \in 1..k : Written(f, i) = Link(ts[i], p[i], to(i))
  <2> SUFFICES ASSUME NEW i \in 1..k PROVE Written(f, i) = Link(ts[i], p[i], to(i))
    OBVIOUS
  <2>1. CASE i = k
    <3>1. Written(f, i) = f.trees[k]
      BY <2>1 DEF Written
    <3> QED BY <2>1, <3>1
  <2>2. CASE i # k
    <3>1. i \in 1..(k - 1)
      BY <1>0, <2>2
    <3>2. f.trees[i] = ts[i]
      BY <3>1
    <3>3. Written(f, i) = Link(f.trees[i], p[i], PathRef(Upto(p, i), TRUE))
      BY <2>2 DEF Written
    <3> QED BY <2>2, <3>2, <3>3
  <2> QED BY <2>1, <2>2
<1>3. \A i \in 1..k : /\ Upto(p, i) \in Node /\ Upto(p, i - 1) \in Node
                      /\ Upto(p, i) = Append(Upto(p, i - 1), p[i]) /\ p[i] \in Name
                      /\ Len(Upto(p, i)) = i /\ Len(Upto(p, i - 1)) = i - 1
                      /\ Upto(p, i - 1) \in Seq(Name)
                      /\ Upto(p, k) = p
  <2> SUFFICES ASSUME NEW i \in 1..k
               PROVE  /\ Upto(p, i) \in Node /\ Upto(p, i - 1) \in Node
                      /\ Upto(p, i) = Append(Upto(p, i - 1), p[i]) /\ p[i] \in Name
                      /\ Len(Upto(p, i)) = i /\ Len(Upto(p, i - 1)) = i - 1
                      /\ Upto(p, i - 1) \in Seq(Name)
                      /\ Upto(p, k) = p
    OBVIOUS
  <2>1. i \in 0..k /\ i - 1 \in 0..k /\ i # 0
    BY <1>0
  <2>2. Upto(p, i) \in Path
    BY PrefixIsPath
  <2>3. Upto(p, i - 1) \in Node
    <3>1. CASE i = 1
      BY <1>0, <2>1, <3>1, PathPrefix DEF Node
    <3>2. CASE i # 1
      <4>1. i - 1 \in 1..k
        BY <1>0, <3>2
      <4> QED BY <4>1, PrefixIsPath DEF Node
    <3> QED BY <3>1, <3>2
  <2>4. /\ Upto(p, i) = Append(Upto(p, i - 1), p[i]) /\ p[i] \in Name
        /\ Len(Upto(p, i)) = i /\ Upto(p, k) = p
    <3>1. p \in Seq(Name) /\ i \in 0..Len(p) /\ i # 0
      BY <1>0, <2>1
    <3> QED BY ONLY <3>1, PathPrefix
  <2>5. Len(Upto(p, i - 1)) = i - 1 /\ Upto(p, i - 1) \in Seq(Name)
    BY <1>0, <2>1, PathPrefix
  <2> QED BY <2>2, <2>3, <2>4, <2>5 DEF Node
<1>4. \A q \in Node : IsAbove(f, q) => IsTree(A[q]) /\ A[q] # None
  <2> SUFFICES ASSUME NEW q \in Node, IsAbove(f, q)
               PROVE  IsTree(A[q]) /\ A[q] # None
    OBVIOUS
  <2>1. Len(q) + 1 \in 1..k /\ Len(q) + 1 \in 1..Len(f.trees) /\ Len(f.trees) \in 1..Len(p)
    BY <1>0, NodeIsPath DEF IsAbove
  <2> DEFINE m == Len(q) + 1
  <2>2. A[q] = Written(f, m)
    BY <1>1
  <2> HIDE DEF m
  <2>3. m \in 1..Len(f.trees)
    BY <2>1 DEF m
  <2>4. IsTree(Written(f, m)) /\ Written(f, m) # None
    BY ONLY <2>1, <2>3, p \in Path, f.path = p, f.trees \in Seq(Trees(objs)), WrittenTree
  <2> QED BY <2>2, <2>4
<1>5. \A q \in Node : q # p /\ Lies(F, q) => Lies(A, q)
  BY <1>1, <1>4 DEF Lies
<1>6. \A q \in Node, n \in Name : Append(q, n) = p => IsAbove(f, q) /\ Len(q) + 1 = k /\ n = p[k]
  <2> SUFFICES ASSUME NEW q \in Node, NEW n \in Name, Append(q, n) = p
               PROVE  IsAbove(f, q) /\ Len(q) + 1 = k /\ n = p[k]
    OBVIOUS
  <2>1. k \in 1..k
    BY <1>0
  <2>2. q \in Seq(Name) /\ Append(q, n) = Append(Upto(p, k - 1), p[k]) /\ p[k] \in Name
        /\ Upto(p, k - 1) \in Seq(Name) /\ Len(Upto(p, k - 1)) = k - 1
    BY <1>3, <2>1, NodeIsPath
  <2> DEFINE r == Upto(p, k - 1)
             s == p[k]
  <2> HIDE DEF r, s
  <2>3. q = r /\ n = s
    BY ONLY <2>2, n \in Name, Segments DEF r, s
  <2>4. q = Upto(p, Len(q)) /\ Len(q) + 1 = k
    <3>1. q = Upto(p, k - 1) /\ Len(q) = k - 1
      BY ONLY <2>2, <2>3 DEF r
    <3> QED BY ONLY <3>1, <1>0
  <2>5. n = p[k]
    BY <2>3 DEF s
  <2> QED BY <1>0, <2>4, <2>5 DEF IsAbove
<1> SUFFICES ASSUME NEW q \in Node, IsTree(A[q]), NEW n \in TransientNames(A[q])
             PROVE  A[q].refs[n].path = Append(q, n) /\ Lies(A, Append(q, n))
  BY DEF Sound, Fits
<1>7. n \in Name /\ IsPathRef(A[q].refs[n])
  BY DEF TransientNames
<1> HIDE DEF A
<1>8. CASE IsAbove(f, q)
  <2> DEFINE i == Len(q) + 1
  <2>1. i \in 1..k /\ q = Upto(p, i - 1) /\ A[q] = Link(ts[i], p[i], to(i))
    <3>1. i \in 1..k /\ q = Upto(p, i - 1)
      BY <1>0, <1>8, NodeIsPath DEF IsAbove
    <3>2. A[q] = Written(f, i)
      BY <1>1, <1>8
    <3> HIDE DEF i, to
    <3> QED BY <1>2, <3>1, <3>2
  <2> HIDE DEF i
  <2>2. ts[i] \in Trees(objs) /\ p[i] \in Name /\ Fits(F, q, ts[i])
    BY <1>3, <2>1
  <2>3. A[q].refs[n] = IF n = p[i] THEN to(i) ELSE ts[i].refs[n]
    <3> HIDE DEF to
    <3> QED BY ONLY <1>7, <2>1, <2>2, LinkRefs
  <2>4. CASE n = p[i] /\ i = k
    <3>1. A[q].refs[n] = ref /\ Append(q, n) = p
      BY <1>3, <2>1, <2>3, <2>4
    <3>2. ref # None
      BY <1>7, <3>1 DEF IsPathRef, None
    <3>3. ~IsAbove(f, p)
      BY <1>0 DEF IsAbove
    <3> QED BY <1>0, <1>1, <3>1, <3>2, <3>3 DEF Lies
  <2>5. CASE n = p[i] /\ i # k
    <3>1. A[q].refs[n].path = Upto(p, i) /\ Append(q, n) = Upto(p, i) /\ Upto(p, i) \in Node
      <4>1. to(i) = PathRef(Upto(p, i), TRUE)
        BY <2>5
      <4>2. Append(q, n) = Upto(p, i) /\ Upto(p, i) \in Node
        BY <1>3, <2>1, <2>5
      <4>3. A[q].refs[n] = PathRef(Upto(p, i), TRUE)
        BY <2>3, <2>5, <4>1
      <4> QED BY <4>2, <4>3 DEF PathRef
    <3>2. IsAbove(f, Upto(p, i))
      BY <1>0, <1>3, <2>1, <2>5 DEF IsAbove
    <3> QED BY <1>4, <3>1, <3>2 DEF Lies
  <2>6. CASE n # p[i]
    <3>1. n \in TransientNames(ts[i]) /\ A[q].refs[n] = ts[i].refs[n]
      BY <1>7, <2>3, <2>6 DEF TransientNames
    <3>2. A[q].refs[n].path = Append(q, n) /\ Lies(F, Append(q, n))
      BY <2>2, <3>1 DEF Fits
    <3>3. Append(q, n) # p
      BY <1>0, <1>6, <1>7, <2>1, <2>6 DEF i
    <3> QED BY <1>5, <3>2, <3>3 DEF Lies
  <2> QED BY <2>4, <2>5, <2>6
<1>9. CASE ~IsAbove(f, q)
  <2>1. A[q] = G[q] /\ q \notin gone
    BY <1>1, <1>9 DEF IsTree, None
  <2>2. A[q] = F[q]
    BY <2>1 DEF IsTree, None
  <2>3. q \in Path
    <3>1. IsAbove(f, Root)
      <4>1. Len(Root) = 0 /\ 0 \in 0..k
        BY <1>0 DEF Root
      <4> QED BY <1>0, <4>1, PathPrefix DEF IsAbove
    <3> QED BY <1>9, <3>1, NodeIsPath
  <2>4. A[q].refs[n].path = Append(q, n) /\ Lies(F, Append(q, n))
    BY <2>2, <2>3 DEF Sound, Fits
  <2>5. Append(q, n) # p
    BY <1>6, <1>7, <1>9
  <2> QED BY <1>5, <2>4, <2>5 DEF Lies
<1> QED BY <1>8, <1>9

(* Soundness is about what lies where. *)
LEMMA SameFiles ==
    ASSUME NEW A, NEW B, \A q \in Node : B[q] = A[q], Sound(A, Node)
    PROVE  Sound(B, Node)
<1>1. \A q : Lies(A, q) => Lies(B, q)
  BY DEF Lies
<1> QED BY <1>1 DEF Sound, Fits

(* A file may be missing when its parent is no tree. *)
LEMMA Missing ==
    ASSUME NEW A, NEW B, NEW r \in Node, NEW m \in Name,
           \A q \in Node : B[q] = A[q] \/ (B[q] = None /\ q = Append(r, m)),
           ~IsTree(A[r]), Sound(A, Node)
    PROVE  Sound(B, Node)
<1>1. ~IsTree(None)
  BY DEF IsTree, None
<1> SUFFICES ASSUME NEW q \in Node, IsTree(B[q]), NEW n \in TransientNames(B[q])
             PROVE  B[q].refs[n].path = Append(q, n) /\ Lies(B, Append(q, n))
  BY DEF Sound, Fits
<1>2. B[q] = A[q]
  BY <1>1
<1>3. A[q].refs[n].path = Append(q, n) /\ Lies(A, Append(q, n)) /\ n \in Name
  BY <1>2 DEF Sound, Fits, TransientNames
<1>4. q # r
  BY <1>2
<1>5. Append(q, n) # Append(r, m)
  BY <1>3, <1>4, NodeIsPath, Segments
<1> QED BY <1>2, <1>3, <1>5 DEF Lies

(* The walk f comes up by one tree, and becomes g. *)
Climbed(F, G, p, f, g, at) ==
    /\ f.path = p /\ g.path = p
    /\ Len(f.trees) = at + 1 /\ Len(g.trees) = at
    /\ \A i \in 1..(at - 1) : g.trees[i] = f.trees[i]
    /\ g.trees[at] = Link(f.trees[at], p[at], PathRef(Upto(p, at), TRUE))
    /\ G = [F EXCEPT ![Upto(p, at)] = f.trees[at + 1]]
    /\ Sound(After(F, f, {}), Node)

(* What it writes was to be written. *)
LEMMA Climbing ==
    ASSUME NEW S, NEW F \in [Node -> S], NEW G, NEW p \in Path, NEW f, NEW g, NEW at \in Nat,
           at \in 1..(Len(p) - 1), Climbed(F, G, p, f, g, at)
    PROVE  Sound(After(G, g, {}), Node)
<1> /\ f.path = p /\ g.path = p
    /\ Len(f.trees) = at + 1 /\ Len(g.trees) = at
    /\ \A i \in 1..(at - 1) : g.trees[i] = f.trees[i]
    /\ g.trees[at] = Link(f.trees[at], p[at], PathRef(Upto(p, at), TRUE))
    /\ G = [F EXCEPT ![Upto(p, at)] = f.trees[at + 1]]
    /\ Sound(After(F, f, {}), Node)
  BY DEF Climbed
<1> DEFINE A == After(F, f, {})
           B == After(G, g, {})
<1>0. p \in Seq(Name) /\ Len(p) \in Nat
  BY PathLength
<1>1. \A q \in Node : /\ A[q] = IF IsAbove(f, q) THEN Written(f, Len(q) + 1) ELSE F[q]
                      /\ B[q] = IF IsAbove(g, q) THEN Written(g, Len(q) + 1) ELSE G[q]
  BY DEF After
<1>2. Upto(p, at) \in Node /\ Len(Upto(p, at)) = at
  BY <1>0, PrefixIsPath, PathPrefix DEF Node
<1>3. \A q \in Node : B[q] = A[q]
  <2> SUFFICES ASSUME NEW q \in Node PROVE B[q] = A[q]
    OBVIOUS
  <2> HIDE DEF A, B
  <2>0. Len(q) \in Nat
    BY NodeIsPath
  <2>1. CASE q = Upto(p, at)
    <3>1. IsAbove(f, q) /\ ~IsAbove(g, q)
      BY <1>2, <2>1 DEF IsAbove
    <3>2. B[q] = f.trees[at + 1] /\ A[q] = Written(f, at + 1)
      BY <1>1, <1>2, <2>1, <3>1
    <3> QED BY <3>2 DEF Written
  <2>2. CASE q # Upto(p, at) /\ IsAbove(f, q)
    <3>1. Len(q) # at /\ Len(q) < at + 1
      BY <2>2 DEF IsAbove
    <3>2. IsAbove(g, q) /\ Len(q) + 1 \in 1..at
      BY <2>0, <2>2, <3>1 DEF IsAbove
    <3>3. \A i \in 1..at : Written(g, i) = Written(f, i)
      <4> SUFFICES ASSUME NEW i \in 1..at PROVE Written(g, i) = Written(f, i)
        OBVIOUS
      <4>1. CASE i = at
        <5>1. Written(g, at) = Link(f.trees[at], p[at], PathRef(Upto(p, at), TRUE))
          BY DEF Written
        <5>2. at # at + 1
          OBVIOUS
        <5> QED BY <4>1, <5>1, <5>2 DEF Written
      <4>2. CASE i # at
        <5>1. i \in 1..(at - 1) /\ i # at + 1
          BY <4>2
        <5> QED BY <4>2, <5>1 DEF Written
      <4> QED BY <4>1, <4>2
    <3> QED BY <1>1, <2>2, <3>2, <3>3
  <2>3. CASE q # Upto(p, at) /\ ~IsAbove(f, q)
    <3>1. ~IsAbove(g, q)
      BY <2>0, <2>3 DEF IsAbove
    <3>2. G[q] = F[q]
      BY <2>3
    <3> QED BY <1>1, <2>3, <3>1, <3>2
  <2> QED BY <2>1, <2>2, <2>3
<1> HIDE DEF A, B
<1>4. Sound(A, Node)
  BY DEF A
<1>5. Sound(B, Node)
  BY <1>3, <1>4, SameFiles
<1> QED BY <1>5 DEF B

(* The root's tree is the last to be written. *)
LEMMA ComingHome ==
    ASSUME NEW S, NEW F \in [Node -> S], NEW G, NEW f, Len(f.trees) = 1,
           G = [F EXCEPT ![Root] = f.trees[1]],
           f.path \in Path,
           Sound(After(F, f, {}), Node)
    PROVE  Sound(G, Node)
<1> DEFINE A == After(F, f, {})
<1>1. \A q \in Node : G[q] = A[q]
  <2> SUFFICES ASSUME NEW q \in Node PROVE G[q] = A[q]
    OBVIOUS
  <2>1. A[q] = IF IsAbove(f, q) THEN Written(f, Len(q) + 1) ELSE F[q]
    BY DEF After
  <2>2. Len(q) \in Nat /\ (Len(q) = 0 <=> q = Root) /\ Upto(f.path, 0) = Root
    <3>1. q \in Seq(Name) /\ f.path \in Seq(Name)
      BY NodeIsPath, PathLength
    <3>2. 0 \in 0..Len(f.path)
      BY <3>1
    <3> QED BY <3>1, <3>2, PathPrefix, EmptySeq DEF Root
  <2> HIDE DEF A
  <2>3. IsAbove(f, q) <=> q = Root
    BY <2>2 DEF IsAbove
  <2>4. Written(f, 1) = f.trees[1]
    BY DEF Written
  <2> QED BY <2>1, <2>2, <2>3, <2>4
<1> HIDE DEF A
<1>2. Sound(A, Node)
  BY DEF A
<1> QED BY <1>1, <1>2, SameFiles

-----------------------------------------------------------------------------
(* Searches.                                                               *)

(* The places of a stack, whose top is q. *)
LEMMA StackPlaces ==
    ASSUME NEW S, NEW s \in Seq(S), s # <<>>, NEW p \in Seq(Name), Chain(s, p),
           Last(s).path \in Seq(Name)
    PROVE  LET q == Last(s).path
           IN  /\ Len(q) + 1 = Len(p) + Len(s) /\ p = Upto(q, Len(p)) /\ Len(p) \in 0..Len(q)
               /\ q \in Places(s)
               /\ \A i \in Len(p)..Len(q) : Upto(q, i) \in Places(s)
               /\ \A i \in 0..(Len(p) - 1) : Upto(q, i) = Upto(p, i)
               /\ \A r \in Places(s) : \E i \in Len(p)..Len(q) : r = Upto(q, i)
<1> DEFINE q == Last(s).path
<1>1. Len(s) \in Nat \ {0} /\ Len(p) \in Nat /\ Len(q) \in Nat
  BY Ends
<1>2. /\ Len(q) + 1 = Len(p) + Len(s)
      /\ \A k \in 1..Len(s) : s[k].path = Upto(q, Len(p) + k - 1)
      /\ s[1].path = p
  BY DEF Chain
<1>3. Len(p) \in 0..Len(q)
  BY <1>1, <1>2
<1>4. p = Upto(q, Len(p))
  BY <1>1, <1>2
<1>5. ASSUME NEW i \in Len(p)..Len(q)
      PROVE  Upto(q, i) \in Places(s)
  <2> DEFINE k == i - Len(p) + 1
  <2>1. k \in 1..Len(s) /\ Len(p) + k - 1 = i
    BY <1>1, <1>2
  <2> HIDE DEF k, q
  <2>2. s[k].path = Upto(q, i)
    BY <1>2, <2>1
  <2> QED BY <2>1, <2>2 DEF Places
<1>6. q \in Places(s)
  BY <1>1 DEF Last, Places
<1>7. ASSUME NEW i \in 0..(Len(p) - 1)
      PROVE  Upto(q, i) = Upto(p, i)
  <2> HIDE DEF q
  <2>1. q \in Seq(Name) /\ Len(p) \in 0..Len(q) /\ i \in 0..Len(p)
    BY <1>1, <1>3 DEF q
  <2>2. Upto(Upto(q, Len(p)), i) = Upto(q, i)
    BY <2>1, PathPrefix
  <2> QED BY <1>4, <2>2
<1>8. ASSUME NEW r \in Places(s)
      PROVE  \E i \in Len(p)..Len(q) : r = Upto(q, i)
  <2>1. PICK k \in 1..Len(s) : r = s[k].path
    BY DEF Places
  <2>2. Len(p) + k - 1 \in Len(p)..Len(q)
    BY <1>1, <1>2
  <2> QED BY <1>2, <2>1, <2>2
<1> QED BY <1>2, <1>3, <1>4, <1>5, <1>6, <1>7, <1>8

(* A nested call below the top of the stack writes where the walk that     *)
(* began the search will write, or where the search will remove.           *)
LEMMA Beside ==
    ASSUME NEW S, NEW F \in [Node -> S], NEW G, NEW x,
           NEW T, NEW s \in Seq(T), s # <<>>, NEW u, u.path \in Path, Len(u.trees) = Len(u.path),
           Chain(s, u.path), Last(s).path \in Path,
           NEW i \in 0..Len(Last(s).path), G = [F EXCEPT ![Upto(Last(s).path, i)] = x],
           Sound(After(F, u, Places(s)), Node)
    PROVE  Sound(After(G, u, Places(s)), Node)
<1> DEFINE A == After(F, u, Places(s))
           B == After(G, u, Places(s))
           p == u.path
           q == Last(s).path
           w == Upto(q, i)
<1>1. /\ p \in Seq(Name) /\ q \in Seq(Name) /\ Len(p) \in Nat /\ Len(q) \in Nat
  BY PathLength
<1>2. /\ \A j \in Len(p)..Len(q) : Upto(q, j) \in Places(s)
      /\ \A j \in 0..(Len(p) - 1) : Upto(q, j) = Upto(p, j)
  BY <1>1, StackPlaces
<1>3. Len(w) = i
  BY <1>1, PathPrefix
<1>4. IsAbove(u, w) \/ w \in Places(s)
  <2>1. CASE i < Len(p)
    BY <1>1, <1>2, <1>3, <2>1 DEF IsAbove
  <2>2. CASE ~(i < Len(p))
    BY <1>1, <1>2, <2>2
  <2> QED BY <2>1, <2>2
<1>5. \A r \in Node : /\ r # w => G[r] = F[r]
                      /\ A[r] = IF IsAbove(u, r) THEN Written(u, Len(r) + 1)
                                ELSE IF r \in Places(s) THEN None ELSE F[r]
                      /\ B[r] = IF IsAbove(u, r) THEN Written(u, Len(r) + 1)
                                ELSE IF r \in Places(s) THEN None ELSE G[r]
  BY DEF After
<1> HIDE DEF A, B, w
<1>6. \A r \in Node : B[r] = A[r]
  BY <1>4, <1>5
<1>7. Sound(A, Node)
  BY DEF A
<1>8. Sound(B, Node)
  BY <1>6, <1>7, SameFiles
<1> QED BY <1>8 DEF B

(* What lies below the top of the stack may go or be about to go.          *)
LEMMA Below ==
    ASSUME NEW F, NEW G, NEW gone,
           NEW T, NEW s \in Seq(T), s # <<>>, NEW u, u.path \in Path, Len(u.trees) = Len(u.path),
           Chain(s, u.path), Last(s).path \in Path, NEW m \in Name,
           \/ G = F /\ gone = Places(s) \union {Append(Last(s).path, m)}
           \/ G = [F EXCEPT ![Append(Last(s).path, m)] = None] /\ gone = Places(s),
           \E S : F \in [Node -> S],
           Sound(After(F, u, Places(s)), Node)
    PROVE  Sound(After(G, u, gone), Node)
<1> DEFINE A == After(F, u, Places(s))
           B == After(G, u, gone)
           p == u.path
           q == Last(s).path
           w == Append(q, m)
<1>1. p \in Seq(Name) /\ q \in Seq(Name) /\ Len(p) \in Nat /\ Len(q) \in Nat /\ q \in Node
  BY PathLength
<1>2. q \in Places(s) /\ Len(p) \in 0..Len(q)
  BY <1>1, StackPlaces
<1>3. \A r \in Node : /\ r # w => G[r] = F[r] /\ (r \in gone <=> r \in Places(s))
                      /\ G[r] \in {F[r], None}
                      /\ r \in Places(s) => r \in gone
                      /\ r = w => r \in gone \/ G[r] = None
  OBVIOUS
<1>4. \A r \in Node : /\ A[r] = IF IsAbove(u, r) THEN Written(u, Len(r) + 1)
                                ELSE IF r \in Places(s) THEN None ELSE F[r]
                      /\ B[r] = IF IsAbove(u, r) THEN Written(u, Len(r) + 1)
                                ELSE IF r \in gone THEN None ELSE G[r]
  BY DEF After
<1>5. ~IsTree(A[q])
  <2>1. ~IsAbove(u, q)
    BY <1>1, <1>2 DEF IsAbove
  <2>2. A[q] = None
    BY <1>1, <1>2, <1>4, <2>1
  <2> QED BY <2>2 DEF IsTree, None
<1> HIDE DEF A, B, w
<1>6. \A r \in Node : B[r] = A[r] \/ (B[r] = None /\ r = w)
  BY <1>3, <1>4
<1>7. Sound(A, Node)
  BY DEF A
<1>8. Sound(B, Node)
  BY <1>1, <1>5, <1>6, <1>7, Missing DEF w
<1> QED BY <1>8 DEF B

(* The file of the tree on top goes, and the search goes up.               *)
LEMMA Removed ==
    ASSUME NEW S, NEW F \in [Node -> S], NEW G, NEW u,
           NEW T, NEW s \in Seq(T), s # <<>>,
           G = [F EXCEPT ![Last(s).path] = None],
           Sound(After(F, u, Places(s)), Node)
    PROVE  Sound(After(G, u, Places(Front(s))), Node)
<1> DEFINE A == After(F, u, Places(s))
           B == After(G, u, Places(Front(s)))
           w == Last(s).path
<1>1. Places(s) = Places(Front(s)) \union {w}
  <2>1. Len(s) \in Nat \ {0} /\ Len(Front(s)) = Len(s) - 1
    BY Ends
  <2>2. \A k \in 1..(Len(s) - 1) : Front(s)[k] = s[k]
    BY <2>1 DEF Front
  <2>3. Last(s) = s[Len(s)]
    BY DEF Last
  <2> QED BY <2>1, <2>2, <2>3 DEF Places
<1>2. \A r \in Node : /\ A[r] = IF IsAbove(u, r) THEN Written(u, Len(r) + 1)
                                ELSE IF r \in Places(s) THEN None ELSE F[r]
                      /\ B[r] = IF IsAbove(u, r) THEN Written(u, Len(r) + 1)
                                ELSE IF r \in Places(Front(s)) THEN None ELSE G[r]
  BY DEF After
<1>3. \A r \in Node : r # w => G[r] = F[r]
  OBVIOUS
<1>4. w \in Node => G[w] = None
  OBVIOUS
<1> HIDE DEF A, B, w
<1>5. \A r \in Node : B[r] = A[r]
  BY <1>1, <1>2, <1>3, <1>4
<1>6. Sound(A, Node)
  BY DEF A
<1>7. Sound(B, Node)
  BY <1>5, <1>6, SameFiles
<1> QED BY <1>7 DEF B

(* The search turns to the next child of the tree on top, *)
LEMMA ChainPasses ==
    ASSUME NEW T, NEW s \in Seq(T), s # <<>>, NEW v \in T, v.path = Last(s).path
    PROVE  LET t == Append(Front(s), v)
           IN  /\ t \in Seq(T) /\ t # <<>> /\ Len(t) = Len(s) /\ Last(t) = v /\ t[Len(s)] = v
               /\ \A k \in 1..(Len(s) - 1) : t[k] = s[k]
               /\ \A k \in 1..Len(s) : t[k].path = s[k].path
               /\ Places(t) = Places(s)
               /\ \A p : Chain(s, p) => Chain(t, p)
<1> DEFINE t == Append(Front(s), v)
           n == Len(s)
<1>1. n \in Nat \ {0} /\ Front(s) \in Seq(T) /\ Len(Front(s)) = n - 1
  BY Ends
<1>2. \A k \in 1..(n - 1) : Front(s)[k] = s[k]
  BY <1>1 DEF Front
<1>3. t \in Seq(T) /\ t # <<>> /\ Len(t) = n /\ t[n] = v /\ \A k \in 1..(n - 1) : t[k] = s[k]
  BY <1>1, <1>2, AppendProperties
<1>4. Last(t) = v /\ Last(s) = s[n]
  BY <1>3 DEF Last
<1> HIDE DEF t, n
<1>5. \A k \in 1..n : t[k].path = s[k].path
  <2> SUFFICES ASSUME NEW k \in 1..n PROVE t[k].path = s[k].path
    OBVIOUS
  <2>1. CASE k = n
    BY <1>3, <1>4, <2>1
  <2>2. CASE k # n
    <3>1. k \in 1..(n - 1)
      BY <1>1, <2>2
    <3> QED BY <1>3, <3>1
  <2> QED BY <2>1, <2>2
<1>6. Places(t) = Places(s)
  BY <1>3, <1>5 DEF Places, n
<1>7. ASSUME NEW p, Chain(s, p)
      PROVE  Chain(t, p)
  <2>1. 1 \in 1..n
    BY <1>1
  <2> QED BY <1>3, <1>4, <1>5, <1>7, <2>1 DEF Chain, n
<1> QED BY <1>3, <1>4, <1>5, <1>6, <1>7 DEF t, n

(* goes down into a child, *)
LEMMA ChainGrows ==
    ASSUME NEW s \in Seq(Visits), s # <<>>, NEW v \in Visits,
           \E n \in Name : v.path = Append(Last(s).path, n)
    PROVE  LET t == Append(s, v)
           IN  /\ t \in Seq(Visits) /\ t # <<>> /\ Len(t) = Len(s) + 1 /\ Last(t) = v
               /\ \A k \in 1..Len(s) : t[k] = s[k]
               /\ t[Len(s) + 1] = v
               /\ Places(t) = Places(s) \union {v.path}
               /\ \A p \in Seq(Name) : Chain(s, p) => Chain(t, p)
<1> DEFINE t == Append(s, v)
           q == Last(s).path
           m == Len(s)
<1>1. m \in Nat \ {0} /\ Len(q) \in Nat /\ q \in Seq(Name)
  <2>1. m \in Nat \ {0} /\ Last(s) \in Visits
    BY Ends
  <2> QED BY <2>1, NodeIsPath, LenProperties DEF Visits
<1>2. /\ t \in Seq(Visits) /\ t # <<>> /\ Len(t) = m + 1 /\ t[m + 1] = v
      /\ \A k \in 1..m : t[k] = s[k]
  BY <1>1, AppendProperties
<1>3. Last(t) = v
  BY <1>2 DEF Last
<1> HIDE DEF t, q, m
<1>4. Places(t) = Places(s) \union {v.path}
  <2>1. \A k \in 1..(m + 1) : k \in 1..m \/ k = m + 1
    BY <1>1
  <2>2. \A k \in 1..m : k \in 1..(m + 1)
    BY <1>1
  <2>3. m + 1 \in 1..(m + 1)
    BY <1>1
  <2> QED BY <1>2, <2>1, <2>2, <2>3 DEF Places, m
<1>5. ASSUME NEW p \in Seq(Name), Chain(s, p)
      PROVE  Chain(t, p)
  <2>0. PICK n \in Name : v.path = Append(Last(s).path, n)
    OBVIOUS
  <2>1. /\ Len(q) + 1 = Len(p) + m /\ Len(p) \in Nat
        /\ \A k \in 1..m : s[k].path = Upto(q, Len(p) + k - 1)
        /\ s[1].path = p
    BY <1>5, LenProperties DEF Chain, q, m
  <2>2. /\ Len(v.path) = Len(q) + 1 /\ v.path \in Seq(Name)
        /\ \A i \in 0..Len(q) : Upto(v.path, i) = Upto(q, i)
    BY <1>1, <2>0, Segments DEF q
  <2>3. Upto(v.path, Len(q) + 1) = v.path
    <3> DEFINE w == v.path
    <3>1. w \in Seq(Name) /\ Len(w) = Len(q) + 1 /\ Len(w) \in 0..Len(w)
      BY <1>1, <2>2
    <3> HIDE DEF w
    <3>2. Upto(w, Len(w)) = w
      BY ONLY <3>1, PathPrefix
    <3> QED BY <3>1, <3>2 DEF w
  <2>4. ASSUME NEW k \in 1..(m + 1)
        PROVE  t[k].path = Upto(v.path, Len(p) + k - 1)
    <3>1. CASE k \in 1..m
      <4>1. Len(p) + k - 1 \in 0..Len(q)
        BY <1>1, <2>1, <3>1
      <4> QED BY <1>2, <2>1, <2>2, <3>1, <4>1
    <3>2. CASE k = m + 1
      <4>1. Len(p) + k - 1 = Len(q) + 1
        BY <1>1, <2>1, <3>2
      <4> QED BY <1>2, <2>3, <3>2, <4>1
    <3> QED BY <1>1, <3>1, <3>2
  <2>5. Len(v.path) + 1 = Len(p) + (m + 1)
    <3>1. Len(q) + 1 = Len(p) + m /\ Len(p) \in Nat /\ Len(v.path) = Len(q) + 1
      BY <2>1, <2>2
    <3> DEFINE w == v.path
    <3> HIDE DEF w
    <3>2. Len(w) = Len(q) + 1
      BY <3>1 DEF w
    <3>3. Len(w) + 1 = Len(p) + (m + 1)
      BY <1>1, <3>1, <3>2
    <3> QED BY <3>3 DEF w
  <2>6. t[1].path = p
    BY <1>1, <1>2, <2>1
  <2> QED BY <1>2, <1>3, <2>4, <2>5, <2>6 DEF Chain
<1> QED BY <1>2, <1>3, <1>4, <1>5 DEF t, m

(* comes up again, *)
LEMMA ChainShrinks ==
    ASSUME NEW T, NEW s \in Seq(T), s # <<>>, NEW p \in Seq(Name), Chain(s, p),
           Last(s).path \in Seq(Name)
    PROVE  /\ Chain(Front(s), p)
           /\ Len(Front(s)) = Len(s) - 1
           /\ \A k \in 1..(Len(s) - 1) : Front(s)[k] = s[k]
           /\ Places(s) = Places(Front(s)) \union {Last(s).path}
           /\ Front(s) # <<>> => /\ Last(Front(s)) = s[Len(s) - 1]
                                 /\ Last(Front(s)).path \in Seq(Name)
                                 /\ \E n \in Name : Last(s).path = Append(Last(Front(s)).path, n)
<1> DEFINE q == Last(s).path
           m == Len(s)
           t == Front(s)
<1>1. m \in Nat \ {0} /\ Len(p) \in Nat /\ Len(q) \in Nat /\ Len(t) = m - 1
  BY Ends
<1>2. \A k \in 1..(m - 1) : t[k] = s[k]
  BY <1>1 DEF Front
<1>3. /\ Len(q) + 1 = Len(p) + m
      /\ \A k \in 1..m : s[k].path = Upto(q, Len(p) + k - 1)
      /\ s[1].path = p /\ Last(s) = s[m]
  BY DEF Chain, Last
<1>4. Places(s) = Places(t) \union {q}
  <2>1. \A k \in 1..m : k \in 1..(m - 1) \/ k = m
    BY <1>1
  <2>2. \A k \in 1..(m - 1) : k \in 1..m
    BY <1>1
  <2>3. m \in 1..m
    BY <1>1
  <2>4. Len(s) = m /\ Len(t) = m - 1 /\ s[m].path = q
    BY <1>1, <1>3
  <2> HIDE DEF t, m, q
  <2>5. Places(s) \subseteq Places(t) \union {q}
    BY <1>2, <2>1, <2>4 DEF Places
  <2>6. Places(t) \union {q} \subseteq Places(s)
    BY <1>2, <2>2, <2>3, <2>4 DEF Places
  <2> QED BY <2>5, <2>6
<1>5. ASSUME t # <<>>
      PROVE  /\ Last(t) = s[m - 1] /\ Last(t).path \in Seq(Name)
             /\ Last(t).path = Upto(q, Len(q) - 1) /\ Len(q) - 1 \in 0..Len(q)
             /\ Len(Last(t).path) = Len(q) - 1
             /\ \E n \in Name : q = Append(Last(t).path, n)
             /\ m - 1 \in 1..m
  <2>1. m - 1 \in 1..(m - 1) /\ Last(t) = t[m - 1] /\ m - 1 \in 1..m
    <3>1. Len(t) # 0
      <4>1. t \in Seq(T)
        BY Ends
      <4> QED BY <1>5, <4>1, EmptySeq
    <3> QED BY <1>1, <3>1 DEF Last
  <2>2. Len(p) + (m - 1) - 1 = Len(q) - 1 /\ Len(q) - 1 \in 0..Len(q) /\ Len(q) \in 0..Len(q)
    BY <1>1, <1>3, <2>1
  <2>3. Last(t).path = Upto(q, Len(q) - 1)
    BY <1>2, <1>3, <2>1, <2>2
  <2>4. /\ Upto(q, Len(q) - 1) \in Seq(Name) /\ Len(Upto(q, Len(q) - 1)) = Len(q) - 1
        /\ q[Len(q)] \in Name /\ q = Append(Upto(q, Len(q) - 1), q[Len(q)])
    <3>1. q \in Seq(Name) /\ Len(q) # 0
      BY <2>2
    <3> HIDE DEF q
    <3> QED BY <2>2, <3>1, PathPrefix
  <2> HIDE DEF t, q, m
  <2> QED BY <1>2, <2>1, <2>2, <2>3, <2>4
<1>6. Chain(t, p)
  <2> SUFFICES ASSUME t # <<>> PROVE Chain(t, p)
    BY DEF Chain
  <2> DEFINE w == Last(t).path
  <2>1. /\ w = Upto(q, Len(q) - 1) /\ Len(w) = Len(q) - 1 /\ Len(q) - 1 \in 0..Len(q) /\ m - 1 \in 1..m
    BY <1>5
  <2> HIDE DEF w, t
  <2>2. \A i \in 0..(Len(q) - 1) : Upto(w, i) = Upto(q, i)
    <3>1. q \in Seq(Name)
      OBVIOUS
    <3> HIDE DEF q
    <3> QED BY <2>1, <3>1, PathPrefix
  <2>3. ASSUME NEW k \in 1..(m - 1)
        PROVE  t[k].path = Upto(w, Len(p) + k - 1)
    <3>1. Len(p) + k - 1 \in 0..(Len(q) - 1) /\ k \in 1..m
      BY <1>1, <1>3
    <3> QED BY <1>2, <1>3, <2>2, <3>1
  <2>4. Len(w) + 1 = Len(p) + (m - 1)
    <3>1. Len(w) = Len(q) - 1 /\ Len(q) + 1 = Len(p) + m
      BY <1>3, <2>1
    <3>2. Len(q) \in Nat /\ Len(p) \in Nat /\ m \in Nat
      BY <1>1
    <3> HIDE DEF q, m
    <3> QED BY <3>1, <3>2
  <2>5. t[1].path = p
    BY <1>1, <1>2, <1>3, <2>1
  <2> QED BY <1>1, <2>3, <2>4, <2>5 DEF Chain, w
<1> QED BY <1>1, <1>2, <1>4, <1>5, <1>6

(* or begins. *)
LEMMA ChainBegins ==
    ASSUME NEW v, v.path \in Seq(Name)
    PROVE  Chain(<<v>>, v.path) /\ Places(<<v>>) = {v.path} /\ Last(<<v>>) = v
<1>1. Len(<<v>>) = 1 /\ <<v>>[1] = v /\ Last(<<v>>) = v
  BY DEF Last
<1>2. Upto(v.path, Len(v.path) + 1 - 1) = v.path
  <2>1. Len(v.path) \in 0..Len(v.path) /\ Len(v.path) + 1 - 1 = Len(v.path)
    OBVIOUS
  <2> QED BY <2>1, PathPrefix
<1> QED BY <1>1, <1>2 DEF Chain, Places

-----------------------------------------------------------------------------
(* What holds between the steps of a lone process.                         *)

(* A call of createPath: the trees it has read fit the files, the files    *)
(* will be sound when it has come up, or they are.                         *)
WalkFits(F, f) ==
    /\ f.op \in PathOps
    /\ f.dir # "root"
    /\ f.dir = "down" => /\ Sound(F, Path)
                         /\ \A i \in 1..Len(f.trees) : Fits(F, Upto(f.path, i - 1), f.trees[i])
    /\ f.dir = "up" => Sound(After(F, f, {}), Node)
    /\ f.dir = "save" => Sound(F, Node)

(* A search r that removes what lies at the leaf of the walk u.            *)
RemoveFits(F, r, u) ==
    /\ r.op = "remove"
    /\ u.op \in PathOps /\ u.dir = "up" /\ u.at + 1 = Len(u.path)
    /\ Chain(r.stack, u.path)
    /\ Sound(After(F, u, Places(r.stack)), Node)

(* A call n that the search has made for a child of the tree on top.       *)
NestedFits(n, r) ==
    /\ n.op = "deleteEntity"
    /\ r.stack # <<>>
    /\ \E m \in Name : n.path = Append(Last(r.stack).path, m)

(* A commit: each child by path of a tree on the stack lies where the      *)
(* search will look for it, has been recorded, or is being worked on.      *)
Recorded(f, v, n) == IdOf(f.done, Append(v.path, n)) # None

AtHand(f, k, n) ==
    LET p == Append(f.stack[k].path, n)
    IN  \/ k < Len(f.stack) /\ f.stack[k + 1].path = p
        \/ /\ k = Len(f.stack) /\ f.cur # None
           /\ f.cur.step \in {"data", "entity"} /\ f.cur.path = p

VisitFits(F, f, k) ==
    LET v == f.stack[k]
    IN  \A n \in TransientNames(v.tree) :
           /\ v.tree.refs[n].path = Append(v.path, n)
           /\ n \in v.todo => Lies(F, Append(v.path, n))
           /\ n \notin v.todo => Recorded(f, v, n) \/ AtHand(f, k, n)

(* A child the search has turned to. *)
TurnedTo(v, p) == \E n \in Name \ v.todo : p = Append(v.path, n)

(* The object it works on is a child of the tree on top, where the         *)
(* reference says.                                                         *)
CurFits(F, f) ==
    f.cur # None =>
       /\ f.made = 0
       /\ f.stack # <<>> => TurnedTo(Last(f.stack), f.cur.ref.path)
       /\ f.cur.step = "removeTree" => (IsPathRef(f.cur.ref) <=> f.stack # <<>>)
       /\ f.cur.step # "removeTree" => f.stack # <<>> /\ f.cur.ref.path = f.cur.path
       /\ f.cur.step = "data" => IsEntity(F[f.cur.path])
       /\ f.cur.step = "entity" => f.cur.obj # None

(* The places whose files a commit has in hand. *)
InHand(f) ==
    Places(f.stack) \union
    {q \in Node : f.cur # None /\ f.cur.step = "removeTree" /\ IsPathRef(f.cur.ref) /\ q = f.cur.ref.path}

CommitFits(F, f) ==
    /\ f.op = "commit"
    /\ f.made # 0 => f.cur = None /\ f.stack = <<>>
    /\ Chain(f.stack, Root)
    /\ \A e \in f.done : e.id # None
    /\ \A k \in 1..Len(f.stack) :
          /\ VisitFits(F, f, k)
          /\ k < Len(f.stack) => TurnedTo(f.stack[k], f.stack[k + 1].path)
          /\ IF k = 1 THEN f.stack[k].ref = None
             ELSE IsPathRef(f.stack[k].ref) /\ f.stack[k].ref.path = f.stack[k].path
    /\ CurFits(F, f)
    /\ Sound(F, Path \ InHand(f))

CallFits(F, s) ==
    \/ Len(s) = 1 /\ WalkFits(F, s[1])
    \/ Len(s) = 1 /\ CommitFits(F, s[1])
    \/ Len(s) = 2 /\ RemoveFits(F, s[1], s[2])
    \/ Len(s) = 3 /\ RemoveFits(F, s[2], s[3]) /\ NestedFits(s[1], s[2])

(* Between two calls the files are sound; what a commit has left at the    *)
(* root counts only when the workspace names it.                           *)
AtRestFits(F, ws) == Sound(F, IF ws # None /\ ws.root = RootRef THEN Node ELSE Path)

ChildInv ==
    /\ Alone
    /\ CommitFindsChildren
    /\ \A h \in Handle : mem[h] # None /\ calls[h] = <<>> => disk # None /\ mem[h] = disk
    /\ \A h \in Handle : calls[h] # <<>> => CallFits(files, calls[h])
    /\ (\A h \in Handle : calls[h] = <<>>) => AtRestFits(files, disk)

(* One handle has the workspace to itself. *)
LEMMA Others ==
    ASSUME IInv, Alone, NEW h \in Handle, mem[h] # None
    PROVE  \A g \in Handle \ {h} : mem[g] = None /\ calls[g] = <<>>
BY DEF Alone, IInv, RootInv, InCall

(* Its call begins or goes on, *)
LEMMA CallGoesOn ==
    ASSUME IInv, ChildInv, Alone', NEW h \in Handle, mem[h] # None,
           NEW s, s # <<>>, calls' = [calls EXCEPT ![h] = s], CallFits(files', s),
           \A g \in Handle \ {h} : mem'[g] = mem[g],
           CommitFindsChildren'
    PROVE  ChildInv'
<1>1. calls'[h] = s /\ \A g \in Handle \ {h} : calls'[g] = calls[g]
  BY DEF IInv, TypeOK
<1>2. \A g \in Handle \ {h} : mem'[g] = None /\ calls'[g] = <<>>
  BY <1>1, Others DEF ChildInv
<1> QED BY <1>1, <1>2 DEF ChildInv

(* or ends. *)
LEMMA CallEnds ==
    ASSUME IInv, ChildInv, Alone', NEW h \in Handle, mem[h] # None,
           calls' = [calls EXCEPT ![h] = <<>>],
           \A g \in Handle \ {h} : mem'[g] = mem[g],
           mem'[h] = disk', disk' # None,
           AtRestFits(files', disk'),
           CommitFindsChildren'
    PROVE  ChildInv'
<1>1. calls'[h] = <<>> /\ \A g \in Handle \ {h} : calls'[g] = calls[g]
  BY DEF IInv, TypeOK
<1>2. \A g \in Handle \ {h} : mem'[g] = None /\ calls'[g] = <<>>
  BY <1>1, Others DEF ChildInv
<1> QED BY <1>1, <1>2 DEF ChildInv

(* The files and the store are as they were. *)
LEMMA ChildrenStay ==
    ASSUME ChildInv, trees' = trees, failed' = failed
    PROVE  CommitFindsChildren'
BY DEF ChildInv, CommitFindsChildren

-----------------------------------------------------------------------------
(* The steps of createPath keep it.                                        *)

(* A tree without references by path fits anywhere. *)
LEMMA NoChildFits ==
    ASSUME NEW F, NEW q, NEW t, TransientNames(t) = {}
    PROVE  Fits(F, q, t)
BY DEF Fits

(* So does one that is new or stored. *)
LEMMA StoredFits ==
    ASSUME ChildInv, NEW F, NEW q
    PROVE  Fits(F, q, EmptyTree) /\ \A t \in trees : Fits(F, q, t)
<1>1. TransientNames(EmptyTree) = {}
  BY DEF TransientNames, EmptyTree, TreeObj, IsPathRef, None
<1>2. \A t \in trees : TransientNames(t) = {}
  BY DEF ChildInv, CommitFindsChildren
<1> QED BY <1>1, <1>2, NoChildFits

(* While no call runs, the files are sound below the root, and the root's  *)
(* tree fits.                                                              *)
LEMMA RestingFits ==
    ASSUME IInv, ChildInv, NEW h \in Handle, Idle(h)
    PROVE  /\ disk # None /\ mem[h] = disk
           /\ Sound(files, Path)
           /\ mem[h].root # None => Fits(files, Root, TreeOf(mem[h].root))
<1>1. disk # None /\ mem[h] = disk /\ mem[h] # None
  BY DEF ChildInv, Idle
<1>2. \A g \in Handle : calls[g] = <<>>
  BY <1>1, Others DEF ChildInv, Idle
<1>3. AtRestFits(files, disk)
  BY <1>2 DEF ChildInv
<1>4. Sound(files, Path)
  BY <1>3 DEF AtRestFits, Sound, Node
<1>5. ASSUME mem[h].root # None
      PROVE  Fits(files, Root, TreeOf(mem[h].root))
  <2> DEFINE ref == mem[h].root
  <2>1. mem[h] \in WorkspaceObjs(trees, Len(commits))
    BY <1>1 DEF IInv, TypeOK
  <2>2. ref = RootRef \/ ref \in IdRefs(trees)
    BY <1>5, <2>1 DEF WorkspaceObjs
  <2>3. CASE ref = RootRef
    <3>1. Sound(files, Node) /\ Root \in Node
      BY <1>1, <1>3, <2>3 DEF AtRestFits, Node
    <3>2. IsPathRef(ref) /\ ref.path = Root /\ ~IsIdRef(ref)
      BY <2>3 DEF RootRef, PathRef, IsPathRef, IsIdRef
    <3>3. File(Root) = files[Root]
      BY <3>1 DEF File
    <3>4. RootWritten
      BY <1>1, <1>5 DEF IInv, RootInv, Unwritten, Idle
    <3>5. TreeOf(ref) = files[Root] /\ IsTree(files[Root])
      BY <3>2, <3>3, <3>4 DEF TreeOf, RootWritten
    <3> QED BY <3>1, <3>5 DEF Sound
  <2>4. CASE ref \in IdRefs(trees)
    <3>1. ~IsPathRef(ref) /\ IsIdRef(ref) /\ ref.id \in trees
      BY <2>4 DEF IdRefs, IsPathRef, IsIdRef
    <3>2. TreeOf(ref) = ref.id
      BY <3>1 DEF TreeOf
    <3> QED BY <3>1, <3>2, StoredFits
  <2> QED BY <2>2, <2>3, <2>4
<1> QED BY <1>1, <1>4, <1>5

(* A client's call enters createPath. *)
LEMMA EnterKeeps ==
    ASSUME IInv, ChildInv, Alone', NEW h \in Handle, Idle(h),
           NEW op \in PathOps, NEW p \in Path, NEW leaf, EnterPath(h, op, p, leaf, <<>>),
           UNCHANGED <<store, transient, disk, failed, crashes>>
    PROVE  ChildInv'
<1> DEFINE f == PathCall(op, p, leaf, RootTree(mem[h]))
<1>1. UNCHANGED files /\ UNCHANGED trees /\ UNCHANGED failed
  BY DEF transient, store
<1>2. mem[h] # None /\ \A g \in Handle \ {h} : mem'[g] = mem[g]
  BY DEF Idle, EnterPath, IInv, TypeOK
<1>3. Fits(files, Root, RootTree(mem[h])) /\ Sound(files, Path)
  BY RestingFits, StoredFits DEF RootTree
<1>4. f.op = op /\ f.path = p /\ f.dir = "down" /\ f.trees = <<RootTree(mem[h])>>
  BY DEF PathCall
<1>5. calls' = [calls EXCEPT ![h] = <<f>>]
  BY DEF EnterPath
<1>6. Upto(p, 0) = Root
  <2>1. p \in Seq(Name) /\ 0 \in 0..Len(p)
    BY PathLength
  <2> QED BY <2>1, PathPrefix
<1> HIDE DEF f
<1>7. WalkFits(files', f)
  <2>1. Len(f.trees) = 1 /\ f.trees[1] = RootTree(mem[h])
    BY <1>4
  <2>2. \A i \in 1..Len(f.trees) : Fits(files, Upto(f.path, i - 1), f.trees[i])
    BY <1>3, <1>4, <1>6, <2>1
  <2> QED BY <1>1, <1>3, <1>4, <2>2 DEF WalkFits
<1>8. CallFits(files', <<f>>)
  BY <1>7 DEF CallFits
<1>9. CommitFindsChildren'
  BY <1>1, ChildrenStay
<1> QED BY <1>2, <1>5, <1>8, <1>9, CallGoesOn

(* A walk is a client's call, *)
LEMMA WalkAlone ==
    ASSUME IInv, ChildInv, NEW h \in Handle, calls[h] # <<>>, Top(h).op \in PathOps,
           Len(calls[h]) = 1
    PROVE  WalkFits(files, Top(h)) /\ Tail(calls[h]) = <<>> /\ \A g : <<g>> \o Tail(calls[h]) = <<g>>
<1>1. calls[h] \in Seq(Frames)
  BY DEF IInv, TypeOK
<1>2. Top(h) = calls[h][1]
  BY <1>1, BelowTop DEF Top
<1>3. CallFits(files, calls[h])
  BY DEF ChildInv
<1>4. WalkFits(files, Top(h))
  <2>1. ~CommitFits(files, Top(h))
    BY DEF CommitFits, PathOps
  <2>2. WalkFits(files, calls[h][1]) \/ CommitFits(files, calls[h][1])
    BY <1>3 DEF CallFits
  <2> QED BY <1>2, <2>1, <2>2
<1>5. Tail(calls[h]) = <<>>
  <2>1. Tail(calls[h]) \in Seq(Frames) /\ Len(Tail(calls[h])) = 0
    BY <1>1, Ends, BelowTop
  <2> QED BY <2>1, EmptySeq
<1>6. \A g : <<g>> \o <<>> = <<g>>
  OBVIOUS
<1> QED BY <1>4, <1>5, <1>6

(* or one that a search has made. *)
LEMMA WalkNested ==
    ASSUME IInv, ChildInv, NEW h \in Handle, calls[h] # <<>>, Top(h).op \in PathOps,
           Len(calls[h]) # 1
    PROVE  LET r == calls[h][2]
               u == calls[h][3]
           IN  /\ Top(h).op = "deleteEntity" /\ NestedFits(Top(h), r) /\ RemoveFits(files, r, u)
               /\ r \in RemoveFrames /\ u \in PathFrames
               /\ Len(calls[h]) = 3
               /\ Tail(calls[h]) # <<>> /\ Len(Tail(calls[h])) = 2
               /\ Tail(calls[h])[1] = r /\ Tail(calls[h])[2] = u
               /\ \A g : LET s == <<g>> \o Tail(calls[h])
                         IN  s # <<>> /\ Len(s) = 3 /\ s[1] = g /\ s[2] = r /\ s[3] = u
<1> DEFINE r == calls[h][2]
           u == calls[h][3]
<1>1. calls[h] \in Seq(Frames)
  BY DEF IInv, TypeOK
<1>2. Top(h) = calls[h][1]
  BY <1>1, BelowTop DEF Top
<1>3. CallFits(files, calls[h])
  BY DEF ChildInv
<1>4. Len(calls[h]) = 3 /\ NestedFits(Top(h), r) /\ RemoveFits(files, r, u)
  BY <1>2, <1>3 DEF CallFits, RemoveFits, PathOps
<1>5. r \in Frames /\ u \in Frames
  <2>1. 2 \in 1..Len(calls[h]) /\ 3 \in 1..Len(calls[h])
    BY <1>4
  <2> QED BY <1>1, <2>1, ElementOfSeq
<1>6. r.op = "remove" /\ u.op \in PathOps
  BY <1>4 DEF RemoveFits
<1>7. r \in RemoveFrames /\ u \in PathFrames
  BY <1>5, <1>6 DEF Frames, PathFrames, RemoveFrames, CommitFrames, PathOps
<1>8. /\ Tail(calls[h]) \in Seq(Frames) /\ Len(Tail(calls[h])) = 2
      /\ Tail(calls[h])[1] = r /\ Tail(calls[h])[2] = u
  BY <1>1, <1>4, Ends, BelowTop
<1> DEFINE t == Tail(calls[h])
<1>9. t # <<>>
  <2>1. Len(t) = 2
    BY <1>8
  <2> HIDE DEF t
  <2> QED BY ONLY <2>1
<1>10. ASSUME NEW g
       PROVE  LET s == <<g>> \o t
              IN  s # <<>> /\ Len(s) = 3 /\ s[1] = g /\ s[2] = r /\ s[3] = u
  <2> DEFINE s == <<g>> \o t
  <2>1. /\ Len(s) = Len(t) + 1 /\ s # <<>>
        /\ \A i \in 1..Len(s) : s[i] = IF i = 1 THEN g ELSE t[i - 1]
    BY <1>8, OnTop
  <2> HIDE DEF s, t, r, u
  <2>2. Len(s) = 3 /\ s[1] = g /\ s[2] = t[1] /\ s[3] = t[2]
    BY <1>8, <2>1 DEF t
  <2> QED BY <1>8, <2>1, <2>2 DEF s, t
<1> QED BY <1>4, <1>7, <1>8, <1>9, <1>10 DEF NestedFits

(* Its next frame, above the search that made it. *)
LEMMA NestedGoesOn ==
    ASSUME IInv, ChildInv, Alone', NEW h \in Handle, calls[h] # <<>>, Top(h).op \in PathOps,
           Len(calls[h]) # 1,
           NEW g, g.op = Top(h).op, g.path = Top(h).path, Continue(h, g),
           \A k \in Handle \ {h} : mem'[k] = mem[k],
           RemoveFits(files', calls[h][2], calls[h][3]),
           CommitFindsChildren'
    PROVE  ChildInv'
<1> DEFINE s == <<g>> \o Tail(calls[h])
           r == calls[h][2]
           u == calls[h][3]
<1>1. NestedFits(Top(h), r) /\ s # <<>> /\ Len(s) = 3 /\ s[1] = g /\ s[2] = r /\ s[3] = u
  BY WalkNested
<1>2. calls' = [calls EXCEPT ![h] = s]
  BY DEF Continue
<1>3. mem[h] # None
  BY DEF IInv, RootInv, InCall
<1> HIDE DEF s, r, u
<1>4. NestedFits(g, r)
  BY <1>1 DEF NestedFits
<1>5. CallFits(files', s)
  BY <1>1, <1>4 DEF CallFits, r, u
<1> QED BY <1>1, <1>2, <1>3, <1>5, CallGoesOn

(* The next frame of a client's call. *)
LEMMA WalkGoesOn ==
    ASSUME IInv, ChildInv, Alone', NEW h \in Handle, calls[h] # <<>>, Top(h).op \in PathOps,
           Len(calls[h]) = 1,
           NEW g, WalkFits(files', g), Continue(h, g),
           \A k \in Handle \ {h} : mem'[k] = mem[k],
           CommitFindsChildren'
    PROVE  ChildInv'
<1>1. calls' = [calls EXCEPT ![h] = <<g>>]
  BY WalkAlone DEF Continue
<1>2. mem[h] # None
  BY DEF IInv, RootInv, InCall
<1>3. CallFits(files', <<g>>)
  BY DEF CallFits
<1> QED BY <1>1, <1>2, <1>3, CallGoesOn

(* A nested walk stands where files that do not matter to it may go: the   *)
(* places it writes are above or on the stack of its search.               *)
LEMMA NestedWrites ==
    ASSUME IInv, ChildInv, NEW h \in Handle, calls[h] # <<>>, Top(h).op \in PathOps,
           Len(calls[h]) # 1,
           NEW i \in 0..(Len(Top(h).path) - 1), NEW x,
           files' = [files EXCEPT ![Upto(Top(h).path, i)] = x]
    PROVE  RemoveFits(files', calls[h][2], calls[h][3])
<1> DEFINE r == calls[h][2]
           u == calls[h][3]
           s == r.stack
           q == Last(s).path
<1>1. NestedFits(Top(h), r) /\ RemoveFits(files, r, u) /\ r \in RemoveFrames /\ u \in PathFrames
  BY WalkNested
<1>2. s \in Seq(Removals) /\ s # <<>>
  BY <1>1 DEF RemoveFrames, Removals, NestedFits
<1>3. q \in Path /\ q \in Seq(Name)
  <2>1. Last(s) \in Removals
    BY <1>2, Ends
  <2> QED BY <2>1, PathLength DEF Removals, Visits, Node
<1>4. PICK m \in Name : Top(h).path = Append(q, m)
  BY <1>1 DEF NestedFits
<1>5. i \in 0..Len(q) /\ Upto(Top(h).path, i) = Upto(q, i)
  <2> HIDE DEF q
  <2>1. Len(Append(q, m)) = Len(q) + 1 /\ Len(q) \in Nat
    BY <1>3, Segments
  <2>2. i \in 0..Len(q)
    BY <1>4, <2>1
  <2> QED BY <1>3, <1>4, <2>2, Segments
<1>6. u.path \in Path /\ Len(u.trees) = Len(u.path)
  BY <1>1 DEF RemoveFits, PathFrames
<1>7. files \in [Node -> Trees(Objects) \union Entities(datas) \union {None}]
  BY DEF IInv, TypeOK
<1>8. Chain(s, u.path) /\ Sound(After(files, u, Places(s)), Node)
  BY <1>1 DEF RemoveFits
<1>9. files' = [files EXCEPT ![Upto(q, i)] = x]
  BY <1>5
<1> HIDE DEF r, u, s
<1>10. Sound(After(files', u, Places(s)), Node)
  BY <1>2, <1>3, <1>5, <1>6, <1>7, <1>8, <1>9, Beside
<1> QED BY <1>1, <1>10 DEF RemoveFits, r, u, s

(* The trees of a walk that has turned, or has come up by one. *)
LEMMA AscendTrees ==
    ASSUME NEW f \in PathFrames, f.at \in 1..Len(f.path),
           NEW ts \in Seq(Trees(Objects)), Len(ts) = f.at, NEW ref
    PROVE  LET g == Ascend([f EXCEPT !.trees = ts], ref)
           IN  /\ g.op = f.op /\ g.path = f.path /\ g.dir = "up" /\ g.at = f.at - 1
               /\ Len(g.trees) = f.at
               /\ \A i \in 1..(f.at - 1) : g.trees[i] = ts[i]
               /\ g.trees[f.at] = Link(ts[f.at], f.path[f.at], ref)
<1> DEFINE g == Ascend([f EXCEPT !.trees = ts], ref)
           new == Link(Last(ts), f.path[f.at], ref)
           up == Append(Front(ts), new)
           S == Trees(Objects) \union {new}
<1>1. f.at \in Nat /\ f.at # 0 /\ ts # <<>>
  <2>1. f.at \in Nat
    BY DEF PathFrames
  <2> QED BY <2>1, EmptySeq
<1>2. g.op = f.op /\ g.path = f.path /\ g.dir = "up" /\ g.at = f.at - 1 /\ g.trees = up
  BY DEF Ascend, PathFrames
<1>3. Front(ts) \in Seq(S) /\ Len(Front(ts)) = f.at - 1
  <2>1. Front(ts) \in Seq(Trees(Objects)) /\ Len(Front(ts)) = f.at - 1
    BY <1>1, Ends
  <2> QED BY <2>1, Wider
<1>4. \A i \in 1..(f.at - 1) : Front(ts)[i] = ts[i]
  BY <1>3 DEF Front
<1>5. Last(ts) = ts[f.at]
  BY DEF Last
<1> HIDE DEF g, new
<1>6. /\ Len(up) = f.at
      /\ \A i \in 1..(f.at - 1) : up[i] = Front(ts)[i]
      /\ up[f.at] = new
  BY <1>1, <1>3, AppendProperties DEF S
<1> HIDE DEF up
<1> QED BY <1>2, <1>4, <1>5, <1>6 DEF g, new

(* A walk turns at its leaf. *)
LEMMA TurnTrees ==
    ASSUME IInv, NEW h \in Handle, Descending(h), AtLeaf(Top(h)), NEW ref
    PROVE  LET f == Top(h)
               g == Ascend(f, ref)
           IN  /\ f \in PathFrames /\ f.path \in Path /\ f.path \in Node /\ f.op \in PathOps
               /\ f.at = Len(f.path) /\ f.dir = "down" /\ calls[h] # <<>>
               /\ f.trees \in Seq(Trees(Objects)) /\ Len(f.trees) = Len(f.path)
               /\ g.op = f.op /\ g.path = f.path /\ g.dir = "up" /\ g.at + 1 = Len(f.path)
               /\ Len(g.trees) = Len(f.path)
               /\ \A i \in 1..(Len(f.path) - 1) : g.trees[i] = f.trees[i]
               /\ g.trees[Len(f.path)] = Link(f.trees[Len(f.path)], f.path[Len(f.path)], ref)
<1> DEFINE f == Top(h)
           g == Ascend(f, ref)
<1>1. /\ f \in PathFrames /\ f.op \in PathOps /\ f.at \in 1..Len(f.path) /\ f.dir = "down"
      /\ f.trees \in Seq(Trees(Objects)) /\ Len(f.trees) = f.at /\ calls[h] # <<>>
  BY DownTop
<1>2. f.path \in Path /\ f.path \in Node /\ f.at = Len(f.path) /\ Len(f.path) \in Nat
  BY <1>1, PathLength DEF PathFrames, AtLeaf
<1>3. [f EXCEPT !.trees = f.trees] = f
  BY <1>1 DEF PathFrames
<1>4. /\ g.op = f.op /\ g.path = f.path /\ g.dir = "up" /\ g.at = f.at - 1
      /\ Len(g.trees) = f.at
      /\ \A i \in 1..(f.at - 1) : g.trees[i] = f.trees[i]
      /\ g.trees[f.at] = Link(f.trees[f.at], f.path[f.at], ref)
  <2> DEFINE ts == f.trees
             k == Ascend([f EXCEPT !.trees = ts], ref)
  <2>1. ts \in Seq(Trees(Objects)) /\ Len(ts) = f.at
    BY <1>1
  <2> HIDE DEF ts
  <2>2. /\ k.op = f.op /\ k.path = f.path /\ k.dir = "up" /\ k.at = f.at - 1
        /\ Len(k.trees) = f.at
        /\ \A i \in 1..(f.at - 1) : k.trees[i] = ts[i]
        /\ k.trees[f.at] = Link(ts[f.at], f.path[f.at], ref)
    BY <1>1, <2>1, AscendTrees
  <2>3. k = g
    BY <1>3 DEF ts
  <2> QED BY <2>2, <2>3 DEF ts
<1> HIDE DEF g
<1>5. g.at + 1 = Len(f.path)
  BY <1>2, <1>4
<1> QED BY <1>1, <1>2, <1>4, <1>5 DEF g

(* The tree a walk goes down to fits. *)
LEMMA SegFits ==
    ASSUME IInv, ChildInv, NEW h \in Handle, Descending(h), Len(calls[h]) = 1,
           SegTree(SegRef(Top(h))) # None
    PROVE  Fits(files, Upto(Top(h).path, Top(h).at), SegTree(SegRef(Top(h))))
<1> DEFINE f == Top(h)
           ref == SegRef(f)
           p == f.path
           at == f.at
<1>1. /\ calls[h] # <<>> /\ f \in PathFrames /\ f.op \in PathOps /\ f.dir = "down"
      /\ at \in 1..Len(p) /\ f.trees \in Seq(Trees(Objects)) /\ Len(f.trees) = at
      /\ ref \in Refs(Objects)
  BY DownTop
<1>2. p \in Path /\ p \in Seq(Name) /\ Len(p) \in Nat
  BY <1>1, PathLength DEF PathFrames
<1>3. /\ Sound(files, Path)
      /\ Fits(files, Upto(p, at - 1), f.trees[at])
  <2>1. WalkFits(files, f)
    BY <1>1, WalkAlone
  <2>2. at \in 1..Len(f.trees)
    BY <1>1, <1>2
  <2> QED BY <1>1, <2>1, <2>2 DEF WalkFits
<1>4. p[at] \in Name /\ Upto(p, at) = Append(Upto(p, at - 1), p[at]) /\ Upto(p, at) \in Path
  <2>1. at \in 0..Len(p) /\ at # 0
    BY <1>1, <1>2
  <2> QED BY <1>1, <1>2, <2>1, PathPrefix, PrefixIsPath
<1>5. ref = f.trees[at].refs[p[at]]
  BY <1>1 DEF SegRef, Last
<1>6. CASE ref = None
  BY <1>6, StoredFits DEF SegTree
<1>7. CASE IsPathRef(ref)
  <2>1. p[at] \in TransientNames(f.trees[at])
    BY <1>4, <1>5, <1>7 DEF TransientNames
  <2>2. ref.path = Upto(p, at)
    BY <1>3, <1>4, <1>5, <2>1 DEF Fits
  <2>3. SegTree(ref) = TreeOf(ref) /\ ~IsIdRef(ref)
    BY <1>7 DEF SegTree, IsPathRef, IsIdRef, None
  <2>4. File(ref.path) = files[Upto(p, at)]
    BY <1>4, <2>2 DEF File, Node
  <2>5. IsTree(files[Upto(p, at)]) /\ SegTree(ref) = files[Upto(p, at)]
    BY <1>7, <2>3, <2>4 DEF TreeOf
  <2> QED BY <1>3, <1>4, <2>5 DEF Sound
<1>8. CASE IsIdRef(ref)
  <2>1. SegTree(ref) = TreeOf(ref) /\ ~IsPathRef(ref)
    BY <1>8 DEF SegTree, IsPathRef, IsIdRef, None
  <2>2. SegTree(ref) \in trees
    BY <1>8, <2>1 DEF TreeOf
  <2> QED BY <2>2, StoredFits
<1>9. ref = None \/ IsPathRef(ref) \/ IsIdRef(ref)
  BY <1>1 DEF Refs, IdRefs, PathRefs, IsPathRef, IsIdRef
<1> QED BY <1>6, <1>7, <1>8, <1>9

(* Descend: the next tree of the path is collected. *)
LEMMA DescendKeeps ==
    ASSUME IInv, ChildInv, Alone', NEW h \in Handle, Descend(h)
    PROVE  ChildInv'
<1> DEFINE f == Top(h)
           child == SegTree(SegRef(f))
           g == [f EXCEPT !.trees = Append(f.trees, child), !.at = f.at + 1]
<1>1. /\ calls[h] # <<>> /\ f \in PathFrames /\ f.op \in PathOps /\ f.dir = "down"
      /\ f.at \in 1..Len(f.path) /\ f.trees \in Seq(Trees(Objects)) /\ Len(f.trees) = f.at
      /\ Descending(h) /\ child # None
  BY DownTop DEF Descend
<1>2. Continue(h, g) /\ UNCHANGED files /\ UNCHANGED trees /\ UNCHANGED failed
  BY DEF Descend, store, transient
<1>3. \A k \in Handle \ {h} : mem'[k] = mem[k]
  BY DEF Descend, Track, IInv, TypeOK
<1>4. CommitFindsChildren'
  BY <1>2, ChildrenStay
<1>5. g.op = f.op /\ g.path = f.path /\ g.dir = "down" /\ g.trees = Append(f.trees, child)
  BY <1>1 DEF PathFrames
<1> HIDE DEF g
<1>6. CASE Len(calls[h]) = 1
  <2>1. WalkFits(files, f)
    BY <1>1, <1>6, WalkAlone
  <2>2. Fits(files, Upto(f.path, f.at), child)
    BY <1>1, <1>6, SegFits
  <2>3. child \in Trees(Objects)
    BY <1>1, IInvInv, TreeOfType, EmptyTreeType DEF SegTree
  <2> HIDE DEF child
  <2>4. f.at \in Nat
    BY <1>1 DEF PathFrames
  <2>5. /\ Len(g.trees) = f.at + 1 /\ g.trees[f.at + 1] = child
        /\ \A i \in 1..f.at : g.trees[i] = f.trees[i]
    BY <1>1, <1>5, <2>3, <2>4, AppendProperties
  <2>6. ASSUME NEW i \in 1..Len(g.trees)
        PROVE  Fits(files, Upto(g.path, i - 1), g.trees[i])
    <3>1. CASE i = f.at + 1
      <4>1. i - 1 = f.at
        BY <2>4, <3>1
      <4> QED BY <1>5, <2>2, <2>5, <3>1, <4>1
    <3>2. CASE i # f.at + 1
      <4>1. i \in 1..f.at
        BY <2>4, <2>5, <3>2
      <4> QED BY <1>1, <1>5, <2>1, <2>5, <4>1 DEF WalkFits
    <3> QED BY <3>1, <3>2
  <2>7. WalkFits(files', g)
    BY <1>1, <1>2, <1>5, <2>1, <2>6 DEF WalkFits
  <2> QED BY <1>1, <1>2, <1>3, <1>4, <1>6, <2>7, WalkGoesOn
<1>7. CASE Len(calls[h]) # 1
  <2>1. RemoveFits(files', calls[h][2], calls[h][3])
    BY <1>1, <1>2, <1>7, WalkNested
  <2> QED BY <1>1, <1>2, <1>3, <1>4, <1>5, <1>7, <2>1, NestedGoesOn
<1> QED BY <1>6, <1>7

(* BlockedBelowEntity, in a call that a search has made. *)
LEMMA BlockedKeeps ==
    ASSUME IInv, ChildInv, Alone', NEW h \in Handle, BlockedBelowEntity(h), Len(calls[h]) > 1
    PROVE  ChildInv'
<1> DEFINE f == Top(h)
           g == [f EXCEPT !.dir = "root"]
<1>1. calls[h] # <<>> /\ f \in PathFrames /\ f.op \in PathOps
  BY DownTop DEF BlockedBelowEntity
<1>2. Continue(h, g) /\ UNCHANGED files /\ UNCHANGED trees /\ UNCHANGED failed /\ UNCHANGED mem
  BY DEF BlockedBelowEntity, store, transient
<1>3. g.op = f.op /\ g.path = f.path
  BY <1>1 DEF PathFrames
<1> HIDE DEF g
<1>4. Len(calls[h]) # 1
  <2>1. calls[h] \in Seq(Frames)
    BY DEF IInv, TypeOK
  <2>2. Len(calls[h]) \in Nat
    BY <2>1, LenProperties
  <2> DEFINE n == Len(calls[h])
  <2>3. n \in Nat /\ n > 1
    BY <2>2
  <2> HIDE DEF n
  <2>4. n # 1
    BY <2>3
  <2> QED BY <2>4 DEF n
<1>5. RemoveFits(files', calls[h][2], calls[h][3])
  BY <1>1, <1>2, <1>4, WalkNested
<1>6. CommitFindsChildren'
  BY <1>2, ChildrenStay
<1> QED BY <1>1, <1>2, <1>3, <1>4, <1>5, <1>6, NestedGoesOn

(* StoreLeaf: the new entity has a file and a reference. *)
LEMMA StoreLeafKeeps ==
    ASSUME IInv, ChildInv, Alone', NEW h \in Handle, StoreLeaf(h)
    PROVE  ChildInv'
<1> DEFINE f == Top(h)
           p == f.path
           place == PlaceOf(p, f.leaf)
           g == Ascend(f, place)
<1>1. Descending(h) /\ AtLeaf(f) /\ f.op = "store"
  BY DEF StoreLeaf
<1>2. /\ f \in PathFrames /\ p \in Path /\ p \in Node /\ f.op \in PathOps
      /\ f.at = Len(p) /\ f.dir = "down" /\ calls[h] # <<>>
      /\ f.trees \in Seq(Trees(Objects)) /\ Len(f.trees) = Len(p)
      /\ g.op = f.op /\ g.path = p /\ g.dir = "up"
      /\ Len(g.trees) = Len(p)
      /\ \A i \in 1..(Len(p) - 1) : g.trees[i] = f.trees[i]
      /\ g.trees[Len(p)] = Link(f.trees[Len(p)], p[Len(p)], place)
  BY <1>1, TurnTrees
<1>3. /\ Continue(h, g) /\ files' = [files EXCEPT ![p] = f.leaf]
      /\ UNCHANGED trees /\ UNCHANGED failed
      /\ \A k \in Handle \ {h} : mem'[k] = mem[k]
  BY DEF StoreLeaf, store, Track, IInv, TypeOK
<1>4. f.leaf # None /\ ~IsTree(f.leaf)
  BY <1>1, <1>2 DEF PathFrames, Entities, IsTree
<1>5. place \in PathRefs /\ place # None /\ place.path = p
  BY <1>2 DEF PlaceOf, PathRef, PathRefs, None, IsTree
<1>6. place \in Refs(Objects)
  BY <1>5 DEF Refs
<1>7. g \in PathFrames
  BY <1>1, <1>6, AscendFromLeaf
<1>8. Len(calls[h]) = 1
  BY <1>1, <1>2, WalkNested
<1>9. WalkFits(files, f)
  BY <1>2, <1>8, WalkAlone
<1>10. Sound(files, Path) /\ \A i \in 1..Len(p) : Fits(files, Upto(p, i - 1), f.trees[i])
  BY <1>2, <1>9 DEF WalkFits
<1>11. files \in [Node -> Trees(Objects) \union Entities(datas) \union {None}]
  BY DEF IInv, TypeOK
<1>12. g.trees \in Seq(Trees(Objects))
  BY <1>7 DEF PathFrames
<1>13. files'[p] # None /\ ~IsTree(files'[p]) /\ \A q \in Node : q # p => files'[q] = files[q]
  BY <1>2, <1>3, <1>4, <1>11
<1> DEFINE F == files
           G == files'
           ts == f.trees
<1> HIDE DEF g, place, F, G, p, ts
<1>14. Sound(After(G, g, {}), Node)
  <2>1. p \in Path /\ ts \in Seq(Trees(Objects)) /\ Len(ts) = Len(p)
    BY <1>2 DEF ts
  <2>2. Turned(F, G, p, g, place, {}, ts)
    BY <1>2, <1>5, <1>10, <1>13 DEF F, G, ts, Turned
  <2> QED BY <1>12, <2>1, <2>2, Rising
<1>15. WalkFits(files', g)
  BY <1>2, <1>14 DEF WalkFits, G
<1>16. CommitFindsChildren'
  BY <1>3, ChildrenStay
<1> QED BY <1>2, <1>3, <1>8, <1>15, <1>16, WalkGoesOn

(* A walk that deletes turns: the file at its leaf is there or not, or will *)
(* be removed next.                                                        *)
LEMMA DeleteTurns ==
    ASSUME IInv, ChildInv, NEW h \in Handle, Descending(h), AtLeaf(Top(h)), Len(calls[h]) = 1,
           NEW G, NEW gone, gone \subseteq {Top(h).path},
           G = files \/ G = [files EXCEPT ![Top(h).path] = None]
    PROVE  Sound(After(G, Ascend(Top(h), None), gone), Node)
<1> DEFINE f == Top(h)
           p == f.path
           g == Ascend(f, None)
           ts == f.trees
           F == files
<1>1. /\ f \in PathFrames /\ p \in Path /\ p \in Node /\ f.op \in PathOps
      /\ f.dir = "down" /\ calls[h] # <<>>
      /\ ts \in Seq(Trees(Objects)) /\ Len(ts) = Len(p)
      /\ g.path = p /\ Len(g.trees) = Len(p)
      /\ \A i \in 1..(Len(p) - 1) : g.trees[i] = ts[i]
      /\ g.trees[Len(p)] = Link(ts[Len(p)], p[Len(p)], None)
  BY TurnTrees
<1>2. None \in Refs(Objects)
  BY DEF Refs
<1>3. g.trees \in Seq(Trees(Objects))
  <2>1. g \in PathFrames
    BY <1>2, AscendFromLeaf
  <2> QED BY <2>1 DEF PathFrames
<1>4. WalkFits(files, f)
  BY <1>1, WalkAlone
<1>5. Sound(F, Path) /\ \A i \in 1..Len(p) : Fits(F, Upto(p, i - 1), ts[i])
  BY <1>1, <1>4 DEF WalkFits
<1>6. G[p] \in {F[p], None} /\ \A q \in Node : q # p => G[q] = F[q]
  <2>1. files \in [Node -> Trees(Objects) \union Entities(datas) \union {None}]
    BY DEF IInv, TypeOK
  <2> QED BY <1>1, <2>1
<1>7. gone \subseteq {p}
  OBVIOUS
<1> HIDE DEF f, p, g, ts, F
<1>8. Turned(F, G, p, g, None, gone, ts)
  BY <1>1, <1>5, <1>6, <1>7 DEF Turned
<1>9. Sound(After(G, g, gone), Node)
  BY <1>1, <1>3, <1>8, Rising
<1> QED BY <1>9 DEF g, f

(* DeleteEntityLeaf: the reference goes, and the file with it.             *)
LEMMA DeleteEntityLeafKeeps ==
    ASSUME IInv, ChildInv, Alone', NEW h \in Handle, DeleteEntityLeaf(h)
    PROVE  ChildInv'
<1> DEFINE f == Top(h)
           g == Ascend(f, None)
<1>1. Descending(h) /\ AtLeaf(f)
  BY DEF DeleteEntityLeaf
<1>2. /\ f \in PathFrames /\ f.path \in Path /\ f.path \in Node /\ f.op \in PathOps
      /\ calls[h] # <<>> /\ g.op = f.op /\ g.path = f.path /\ g.dir = "up"
  BY <1>1, TurnTrees
<1>3. /\ Continue(h, g) /\ UNCHANGED trees /\ UNCHANGED failed
      /\ \A k \in Handle \ {h} : mem'[k] = mem[k]
      /\ files' = files \/ files' = [files EXCEPT ![f.path] = None]
  BY DEF DeleteEntityLeaf, store, transient, FilesWithout
<1>4. CommitFindsChildren'
  BY <1>3, ChildrenStay
<1>5. CASE Len(calls[h]) = 1
  <2>1. Sound(After(files', g, {}), Node)
    BY <1>1, <1>3, <1>5, DeleteTurns
  <2> HIDE DEF g
  <2>2. WalkFits(files', g)
    BY <1>2, <2>1 DEF WalkFits
  <2> QED BY <1>2, <1>3, <1>4, <1>5, <2>2, WalkGoesOn
<1>6. CASE Len(calls[h]) # 1
  <2> DEFINE r == calls[h][2]
             u == calls[h][3]
             s == r.stack
             F == files
             G == files'
  <2>1. NestedFits(f, r) /\ RemoveFits(files, r, u) /\ r \in RemoveFrames /\ u \in PathFrames
    BY <1>2, <1>6, WalkNested
  <2>2. PICK m \in Name : f.path = Append(Last(s).path, m)
    BY <2>1 DEF NestedFits
  <2>3. s \in Seq(Removals) /\ s # <<>>
    BY <2>1 DEF RemoveFrames, Removals, NestedFits
  <2>4. Last(s).path \in Path
    <3>1. Last(s) \in Removals
      BY <2>3, Ends
    <3> QED BY <3>1 DEF Removals, Visits, Node
  <2>5. F \in [Node -> Trees(Objects) \union Entities(datas) \union {None}]
    BY DEF IInv, TypeOK
  <2>6. u.path \in Path /\ Len(u.trees) = Len(u.path) /\ Chain(s, u.path)
        /\ Sound(After(F, u, Places(s)), Node)
    BY <2>1 DEF RemoveFits, PathFrames
  <2>7. G = F \/ G = [F EXCEPT ![Append(Last(s).path, m)] = None]
    BY <1>3, <2>2
  <2> HIDE DEF F, G, r, u, s
  <2>8. Sound(After(G, u, Places(s)), Node)
    <3>1. CASE G = F
      BY <2>6, <3>1
    <3>2. CASE G = [F EXCEPT ![Append(Last(s).path, m)] = None]
      BY <2>3, <2>4, <2>5, <2>6, <3>2, Below
    <3> QED BY <2>7, <3>1, <3>2
  <2>9. RemoveFits(files', r, u)
    BY <2>1, <2>8 DEF RemoveFits, G, s
  <2> HIDE DEF g
  <2> QED BY <1>2, <1>3, <1>4, <1>6, <2>9, NestedGoesOn DEF r, u
<1> QED BY <1>5, <1>6

(* DeleteTreeLeaf: the reference goes; what lay there is searched first.   *)
LEMMA DeleteTreeLeafKeeps ==
    ASSUME IInv, ChildInv, Alone', NEW h \in Handle, DeleteTreeLeaf(h)
    PROVE  ChildInv'
<1> DEFINE f == Top(h)
           g == Ascend(f, None)
           tree == GetTree(h, f.path)
           v == Visit(f.path, None, tree)
           search == [op |-> "remove", stack |-> <<v>>]
<1>1. Descending(h) /\ AtLeaf(f) /\ f.op = "deleteTree"
  BY DEF DeleteTreeLeaf
<1>2. /\ f \in PathFrames /\ f.path \in Path /\ f.op \in PathOps
      /\ calls[h] # <<>> /\ g.op = f.op /\ g.path = f.path /\ g.dir = "up"
      /\ g.at + 1 = Len(f.path)
  BY <1>1, TurnTrees
<1>3. /\ UNCHANGED trees /\ UNCHANGED failed /\ UNCHANGED files /\ UNCHANGED mem
      /\ \/ calls' = [calls EXCEPT ![h] = <<search>> \o (<<g>> \o Tail(calls[h]))]
         \/ Continue(h, g)
  BY DEF DeleteTreeLeaf, store, transient
<1>4. CommitFindsChildren'
  BY <1>3, ChildrenStay
<1>5. Len(calls[h]) = 1
  BY <1>1, <1>2, WalkNested
<1>6. \A gone : gone \subseteq {f.path} => Sound(After(files', g, gone), Node)
  BY <1>1, <1>3, <1>5, DeleteTurns
<1>7. CASE Continue(h, g)
  <2>1. Sound(After(files', g, {}), Node)
    BY <1>6
  <2> HIDE DEF g
  <2>2. WalkFits(files', g)
    BY <1>2, <2>1 DEF WalkFits
  <2> QED BY <1>2, <1>3, <1>4, <1>5, <1>7, <2>2, WalkGoesOn
<1>8. CASE calls' = [calls EXCEPT ![h] = <<search>> \o (<<g>> \o Tail(calls[h]))]
  <2>1. <<g>> \o Tail(calls[h]) = <<g>>
    BY <1>2, <1>5, WalkAlone
  <2>2. f.path \in Seq(Name) /\ v.path = f.path
    BY <1>2, PathLength DEF Visit
  <2> HIDE DEF v
  <2>3. Chain(<<v>>, f.path) /\ Places(<<v>>) = {f.path}
    BY <2>2, ChainBegins
  <2>4. search.op = "remove" /\ search.stack = <<v>>
    OBVIOUS
  <2> HIDE DEF g, search
  <2>5. Sound(After(files', g, {f.path}), Node)
    BY <1>6
  <2>6. RemoveFits(files', search, g)
    BY <1>2, <2>3, <2>4, <2>5 DEF RemoveFits
  <2> DEFINE s == <<search>> \o (<<g>> \o Tail(calls[h]))
  <2>7. Len(s) = 2 /\ s[1] = search /\ s[2] = g /\ s # <<>>
    <3>1. s = <<search>> \o <<g>> /\ <<g>> \in Seq({g}) /\ Len(<<g>>) = 1 /\ <<g>>[1] = g
      BY <2>1
    <3> HIDE DEF s
    <3>2. /\ Len(s) = 2 /\ s # <<>>
          /\ \A i \in 1..Len(s) : s[i] = IF i = 1 THEN search ELSE <<g>>[i - 1]
      BY <3>1, OnTop
    <3> QED BY <3>1, <3>2
  <2> HIDE DEF s
  <2>8. CallFits(files', s)
    BY <2>6, <2>7 DEF CallFits
  <2>9. mem[h] # None
    BY <1>2 DEF IInv, RootInv, InCall
  <2> QED BY <1>3, <1>4, <1>8, <2>7, <2>8, <2>9, CallGoesOn DEF s
<1> QED BY <1>3, <1>7, <1>8

(* StoreTreeOfPath: the walk comes up by one tree. *)
LEMMA StoreTreeOfPathKeeps ==
    ASSUME IInv, ChildInv, Alone', NEW h \in Handle, StoreTreeOfPath(h)
    PROVE  ChildInv'
<1> DEFINE f == Top(h)
           p == f.path
           at == f.at
           place == SegPlace(f)
           ts == Front(f.trees)
           g == Ascend([f EXCEPT !.trees = ts], place)
<1>1. calls[h] # <<>> /\ f \in PathFrames /\ f.op \in PathOps /\ f.dir = "up" /\ at > 0
  BY PathTop DEF StoreTreeOfPath, PathOps
<1>2. /\ p \in Path /\ Len(p) \in Nat /\ at \in Nat /\ at \in 1..(Len(p) - 1) /\ at \in 1..Len(p)
      /\ f.trees \in Seq(Trees(Objects)) /\ f.trees # <<>> /\ Len(f.trees) = at + 1
  <2>1. /\ p \in Path /\ at \in Nat /\ at \in 0..(Len(p) - 1)
        /\ f.trees \in Seq(Trees(Objects)) /\ f.trees # <<>> /\ Len(f.trees) = at + 1
    BY <1>1 DEF PathFrames
  <2> QED BY <1>1, <2>1, PathLength
<1>3. place.path = Upto(p, at) /\ place = PathRef(Upto(p, at), TRUE)
  BY DEF SegPlace, PathRef
<1>4. /\ Continue(h, g) /\ UNCHANGED trees /\ UNCHANGED failed
      /\ \A k \in Handle \ {h} : mem'[k] = mem[k]
      /\ files' = [files EXCEPT ![Upto(p, at)] = f.trees[at + 1]]
  <2>1. Last(f.trees) = f.trees[at + 1]
    BY <1>2 DEF Last
  <2> QED BY <1>3, <2>1 DEF StoreTreeOfPath, store
<1>5. CommitFindsChildren'
  BY <1>4, ChildrenStay
<1>6. ts \in Seq(Trees(Objects)) /\ Len(ts) = at /\ \A i \in 1..at : ts[i] = f.trees[i]
  <2>1. ts \in Seq(Trees(Objects)) /\ Len(ts) = at
    BY <1>2, Ends
  <2> QED BY <1>2, <2>1 DEF Front
<1> HIDE DEF ts, place
<1>7. /\ g.op = f.op /\ g.path = p /\ g.dir = "up" /\ Len(g.trees) = at
      /\ \A i \in 1..(at - 1) : g.trees[i] = ts[i]
      /\ g.trees[at] = Link(ts[at], p[at], place)
  <2>1. f \in PathFrames /\ f.at \in 1..Len(f.path) /\ Len(ts) = f.at
    BY <1>1, <1>2, <1>6
  <2> HIDE DEF f
  <2> QED BY ONLY <1>6, <2>1, AscendTrees
<1> HIDE DEF g
<1>8. CASE Len(calls[h]) = 1
  <2> DEFINE F == files
             G == files'
             S == Trees(Objects) \union Entities(datas) \union {None}
  <2>1. WalkFits(files, f)
    BY <1>1, <1>8, WalkAlone
  <2>2. Sound(After(F, f, {}), Node) /\ F \in [Node -> S]
    BY <1>1, <2>1 DEF WalkFits, IInv, TypeOK
  <2>3. \A i \in 1..(at - 1) : g.trees[i] = f.trees[i]
    <3>1. \A i \in 1..(at - 1) : i \in 1..at
      BY <1>2
    <3> QED BY <1>6, <1>7, <3>1
  <2>4. g.trees[at] = Link(f.trees[at], p[at], PathRef(Upto(p, at), TRUE))
    <3>1. at \in 1..at
      BY <1>2
    <3> QED BY <1>3, <1>6, <1>7, <3>1
  <2>5. G = [F EXCEPT ![Upto(p, at)] = f.trees[at + 1]]
    BY <1>4
  <2>6. f.path = p
    OBVIOUS
  <2> HIDE DEF F, G, S, f, p, at
  <2>7. Sound(After(G, g, {}), Node)
    <3>1. Climbed(F, G, p, f, g, at)
      BY <1>2, <1>7, <2>2, <2>3, <2>4, <2>5, <2>6 DEF Climbed
    <3> QED BY <1>2, <2>2, <3>1, Climbing
  <2>8. WalkFits(files', g)
    BY <1>1, <1>7, <2>7 DEF WalkFits, G
  <2> QED BY <1>1, <1>4, <1>5, <1>8, <2>8, WalkGoesOn DEF f
<1>9. CASE Len(calls[h]) # 1
  <2>1. at \in 0..(Len(p) - 1)
    BY <1>2
  <2>2. RemoveFits(files', calls[h][2], calls[h][3])
    BY <1>1, <1>4, <1>9, <2>1, NestedWrites
  <2> QED BY <1>1, <1>4, <1>5, <1>7, <1>9, <2>2, NestedGoesOn
<1> QED BY <1>8, <1>9

(* StoreRoot: the last tree. *)
LEMMA StoreRootKeeps ==
    ASSUME IInv, ChildInv, Alone', NEW h \in Handle, StoreRoot(h)
    PROVE  ChildInv'
<1> DEFINE f == Top(h)
           g == [f EXCEPT !.dir = "save"]
<1>1. /\ calls[h] # <<>> /\ f \in PathFrames /\ f.op \in PathOps
      /\ f.dir = "root" \/ (f.dir = "up" /\ f.at = 0)
  BY PathTop DEF StoreRoot, PathOps
<1>2. /\ Continue(h, g) /\ UNCHANGED trees /\ UNCHANGED failed /\ UNCHANGED mem
      /\ files' = [files EXCEPT ![Root] = Last(f.trees)]
  BY DEF StoreRoot, store
<1>3. CommitFindsChildren'
  BY <1>2, ChildrenStay
<1>4. g.op = f.op /\ g.path = f.path /\ g.dir = "save" /\ f.path \in Path
  BY <1>1 DEF PathFrames
<1>5. Upto(f.path, 0) = Root /\ 0 \in 0..(Len(f.path) - 1)
  <2>1. f.path \in Seq(Name) /\ Len(f.path) \in Nat \ {0}
    BY <1>4, PathLength
  <2>2. 0 \in 0..Len(f.path)
    BY <2>1
  <2> QED BY <2>1, <2>2, PathPrefix
<1> HIDE DEF g
<1>6. CASE Len(calls[h]) = 1
  <2> DEFINE F == files
             G == files'
             S == Trees(Objects) \union Entities(datas) \union {None}
  <2>1. WalkFits(files, f)
    BY <1>1, <1>6, WalkAlone
  <2>2. f.dir = "up" /\ f.at = 0
    BY <1>1, <2>1 DEF WalkFits
  <2>3. Len(f.trees) = 1 /\ Last(f.trees) = f.trees[1]
    <3>1. Len(f.trees) = f.at + 1
      BY <1>1, <2>2 DEF PathFrames
    <3> QED BY <2>2, <3>1 DEF Last
  <2>4. Sound(After(F, f, {}), Node) /\ F \in [Node -> S]
    BY <2>1, <2>2 DEF WalkFits, IInv, TypeOK
  <2>5. G = [F EXCEPT ![Root] = f.trees[1]]
    BY <1>2, <2>3
  <2> HIDE DEF F, G, S, f
  <2>6. Sound(G, Node)
    BY <1>4, <2>3, <2>4, <2>5, ComingHome
  <2>7. WalkFits(files', g)
    BY <1>1, <1>4, <2>6 DEF WalkFits, G
  <2> QED BY <1>1, <1>2, <1>3, <1>6, <2>7, WalkGoesOn DEF f
<1>7. CASE Len(calls[h]) # 1
  <2>1. RemoveFits(files', calls[h][2], calls[h][3])
    BY <1>1, <1>2, <1>5, <1>7, NestedWrites
  <2> QED BY <1>1, <1>2, <1>3, <1>4, <1>7, <2>1, NestedGoesOn
<1> QED BY <1>6, <1>7

(* SaveWorkspace: the call returns, to its client or to its search. *)
LEMMA SaveWorkspaceKeeps ==
    ASSUME IInv, ChildInv, Alone', NEW h \in Handle, SaveWorkspace(h)
    PROVE  ChildInv'
<1> DEFINE f == Top(h)
           s == Tail(calls[h])
<1>1. calls[h] # <<>> /\ f \in PathFrames /\ f.op \in PathOps /\ f.dir = "save"
  BY PathTop DEF SaveWorkspace, PathOps
<1>2. /\ calls' = [calls EXCEPT ![h] = s] /\ disk' = mem[h]
      /\ UNCHANGED trees /\ UNCHANGED failed /\ UNCHANGED mem /\ UNCHANGED files
  BY DEF SaveWorkspace, Return, store, transient
<1>3. CommitFindsChildren'
  BY <1>2, ChildrenStay
<1>4. mem[h] # None
  BY <1>1 DEF IInv, RootInv, InCall
<1>5. CASE Len(calls[h]) = 1
  <2>1. WalkFits(files, f) /\ s = <<>>
    BY <1>1, <1>5, WalkAlone
  <2>2. Sound(files', Node)
    BY <1>1, <1>2, <2>1 DEF WalkFits
  <2>3. AtRestFits(files', disk')
    BY <2>2 DEF AtRestFits, Sound, Node
  <2> QED BY <1>2, <1>3, <1>4, <2>1, <2>3, CallEnds
<1>6. CASE Len(calls[h]) # 1
  <2>1. RemoveFits(files', s[1], s[2]) /\ s # <<>> /\ Len(s) = 2
    BY <1>1, <1>2, <1>6, WalkNested
  <2> HIDE DEF s
  <2>2. CallFits(files', s)
    BY <2>1 DEF CallFits
  <2> QED BY <1>2, <1>3, <1>4, <2>1, <2>2, CallGoesOn
<1> QED BY <1>5, <1>6

-----------------------------------------------------------------------------
(* The steps of a search that deletes keep it.                             *)

(* The frames of such a search: its own and that of its walk. *)
LEMMA SearchFrames ==
    ASSUME IInv, ChildInv, NEW h \in Handle, Running(h, "remove")
    PROVE  LET u == calls[h][2]
           IN  /\ calls[h] # <<>> /\ mem[h] # None
               /\ RemoveFits(files, Top(h), u) /\ u \in PathFrames
               /\ Top(h) \in RemoveFrames /\ Top(h).stack \in Seq(Removals)
               /\ Top(h).stack # <<>> => Last(Top(h).stack).path \in Path
               /\ Tail(calls[h]) # <<>> /\ Len(Tail(calls[h])) = 1 /\ Tail(calls[h])[1] = u
               /\ \A g : LET s == <<g>> \o Tail(calls[h])
                         IN  s \in Seq(Frames \union {g})
                             /\ s # <<>> /\ Len(s) = 2 /\ s[1] = g /\ s[2] = u
<1> DEFINE u == calls[h][2]
           t == Tail(calls[h])
<1>1. /\ calls[h] # <<>> /\ Top(h) \in RemoveFrames /\ Top(h).op = "remove"
      /\ Top(h).stack \in Seq(Removals)
  BY RemoveTop
<1>2. mem[h] # None
  BY <1>1 DEF IInv, RootInv, InCall
<1>3. calls[h] \in Seq(Frames)
  BY DEF IInv, TypeOK
<1>4. Top(h) = calls[h][1]
  BY <1>1, <1>3, BelowTop DEF Top
<1>5. CallFits(files, calls[h])
  BY <1>1 DEF ChildInv
<1>6. Len(calls[h]) = 2 /\ RemoveFits(files, Top(h), u)
  BY <1>1, <1>4, <1>5 DEF CallFits, WalkFits, CommitFits, NestedFits, PathOps
<1>7. u \in PathFrames
  <2>1. u \in Frames
    BY <1>3, <1>6, ElementOfSeq
  <2>2. u.op \in PathOps
    BY <1>6 DEF RemoveFits
  <2> QED BY <2>1, <2>2 DEF Frames, PathFrames, RemoveFrames, CommitFrames, PathOps
<1>8. t \in Seq(Frames) /\ Len(t) = 1 /\ t[1] = u
  BY <1>1, <1>3, <1>6, Ends, BelowTop
<1>9. t # <<>>
  <2>1. Len(t) = 1
    BY <1>8
  <2> HIDE DEF t
  <2> QED BY ONLY <2>1
<1>10. ASSUME NEW g
       PROVE  LET s == <<g>> \o t
              IN  s \in Seq(Frames \union {g}) /\ s # <<>> /\ Len(s) = 2 /\ s[1] = g /\ s[2] = u
  <2> DEFINE s == <<g>> \o t
  <2>1. /\ Len(s) = Len(t) + 1 /\ s # <<>>
        /\ \A i \in 1..Len(s) : s[i] = IF i = 1 THEN g ELSE t[i - 1]
    BY <1>8, OnTop
  <2>2. s \in Seq(Frames \union {g})
    <3>1. t \in Seq(Frames \union {g})
      BY <1>8, Wider
    <3> QED BY <3>1, Push
  <2> HIDE DEF s, t, u
  <2> QED BY <1>8, <2>1, <2>2 DEF s
<1>11. Top(h).stack # <<>> => Last(Top(h).stack).path \in Path
  <2>1. Top(h).stack # <<>> => Last(Top(h).stack) \in Removals
    BY <1>1, Ends
  <2> QED BY <2>1 DEF Removals, Visits, Node
<1> QED BY <1>1, <1>2, <1>6, <1>7, <1>8, <1>9, <1>10, <1>11

(* The stack of a search that turns to a child. *)
LEMMA Passing ==
    ASSUME NEW f \in RemoveFrames \union CommitFrames, f.stack \in Seq(Visits), f.stack # <<>>,
           NEW n
    PROVE  LET g == PassTo(f, n)
               s == f.stack
               t == g.stack
           IN  /\ g = [f EXCEPT !.stack = t] /\ g.op = f.op
               /\ t \in Seq(Visits) /\ t # <<>> /\ Len(t) = Len(s)
               /\ Last(t) = [Last(s) EXCEPT !.todo = @ \ {n}] /\ Last(t) = t[Len(s)]
               /\ \A k \in 1..(Len(s) - 1) : t[k] = s[k]
               /\ \A k \in 1..Len(s) : t[k].path = s[k].path
               /\ Last(t).path = Last(s).path
               /\ Places(t) = Places(s) /\ \A p : Chain(s, p) => Chain(t, p)
<1> DEFINE s == f.stack
           v == [Last(s) EXCEPT !.todo = @ \ {n}]
           t == Append(Front(s), v)
           g == PassTo(f, n)
<1>1. Last(s) \in Visits
  BY Ends
<1>2. v \in Visits /\ v.path = Last(s).path
  BY <1>1, PassVisit
<1>3. v = [Last(s) EXCEPT !.todo = Last(s).todo \ {n}]
  BY <1>1 DEF Visits
<1>4. g = [f EXCEPT !.stack = t]
  BY <1>3 DEF PassTo
<1>5. g.stack = t /\ g.op = f.op
  BY <1>4 DEF CommitFrames, RemoveFrames
<1> HIDE DEF s, v, g
<1>6. /\ t \in Seq(Visits) /\ t # <<>> /\ Len(t) = Len(s) /\ Last(t) = v /\ t[Len(s)] = v
      /\ \A k \in 1..(Len(s) - 1) : t[k] = s[k]
      /\ \A k \in 1..Len(s) : t[k].path = s[k].path
      /\ Places(t) = Places(s)
      /\ \A p : Chain(s, p) => Chain(t, p)
  BY <1>2, ChainPasses DEF s
<1> HIDE DEF t
<1> QED BY <1>2, <1>4, <1>5, <1>6 DEF s, v, g

(* RemoveChild: what lies below goes before the tree does. *)
LEMMA RemoveChildKeeps ==
    ASSUME IInv, ChildInv, Alone', NEW h \in Handle, NEW n \in Name, RemoveChild(h, n)
    PROVE  ChildInv'
<1> DEFINE f == Top(h)
           u == calls[h][2]
           top == Last(f.stack)
           p == Append(top.path, n)
           obj == Found(h, p)
           next == PassTo(f, n)
           t == next.stack
<1>1. Running(h, "remove") /\ f.stack # <<>> /\ n \in top.todo
  BY DEF RemoveChild, Removing
<1>2. /\ calls[h] # <<>> /\ mem[h] # None /\ RemoveFits(files, f, u) /\ u \in PathFrames
      /\ f \in RemoveFrames /\ f.stack \in Seq(Removals) /\ top.path \in Path
      /\ \A g : LET s == <<g>> \o Tail(calls[h])
                IN  s \in Seq(Frames \union {g}) /\ s # <<>> /\ Len(s) = 2 /\ s[1] = g /\ s[2] = u
  BY <1>1, SearchFrames
<1>3. /\ UNCHANGED trees /\ UNCHANGED failed /\ UNCHANGED files
      /\ \A k \in Handle \ {h} : mem'[k] = mem[k]
  BY DEF RemoveChild, EnterPath, store, transient, IInv, TypeOK
<1>4. CommitFindsChildren'
  BY <1>3, ChildrenStay
<1>5. Chain(f.stack, u.path) /\ Sound(After(files, u, Places(f.stack)), Node)
      /\ u.op \in PathOps /\ u.dir = "up" /\ u.at + 1 = Len(u.path) /\ f.op = "remove"
  BY <1>2 DEF RemoveFits
<1>6. /\ next = [f EXCEPT !.stack = t] /\ next.op = "remove"
      /\ t \in Seq(Visits) /\ t # <<>> /\ Last(t).path = top.path
      /\ Places(t) = Places(f.stack) /\ Chain(t, u.path)
  <2>1. f \in RemoveFrames \union CommitFrames /\ f.stack # <<>>
    BY <1>1, <1>2
  <2>2. f.stack \in Seq(Visits)
    <3>1. Removals \subseteq Visits
      BY DEF Removals
    <3> QED BY <1>2, <3>1, Wider
  <2> HIDE DEF f
  <2>3. /\ next = [f EXCEPT !.stack = t] /\ next.op = f.op
        /\ t \in Seq(Visits) /\ t # <<>> /\ Last(t).path = top.path
        /\ Places(t) = Places(f.stack) /\ \A p0 : Chain(f.stack, p0) => Chain(t, p0)
    BY ONLY <2>1, <2>2, Passing
  <2> QED BY <1>5, <2>3
<1> HIDE DEF next, t
<1>7. RemoveFits(files', next, u)
  <2>1. next.stack = t
    BY DEF t
  <2> QED BY <1>3, <1>5, <1>6, <2>1 DEF RemoveFits
<1>8. CASE IsEntity(obj)
  <2> DEFINE e == PathCall("deleteEntity", p, None, RootTree(mem[h]))
             rest == <<next>> \o Tail(calls[h])
             s == <<e>> \o rest
  <2>1. calls' = [calls EXCEPT ![h] = s]
    BY <1>8 DEF RemoveChild, EnterPath, next
  <2>2. e.op = "deleteEntity" /\ e.path = p
    BY DEF PathCall
  <2>3. rest \in Seq(Frames \union {next}) /\ Len(rest) = 2 /\ rest[1] = next /\ rest[2] = u
    BY <1>2
  <2> HIDE DEF e, rest
  <2>4. Len(s) = 3 /\ s # <<>> /\ s[1] = e /\ s[2] = next /\ s[3] = u
    <3> DEFINE S == Frames \union {next}
    <3>1. rest \in Seq(S)
      BY <2>3
    <3> HIDE DEF S
    <3>2. /\ Len(s) = Len(rest) + 1 /\ s # <<>>
          /\ \A i \in 1..Len(s) : s[i] = IF i = 1 THEN e ELSE rest[i - 1]
      BY ONLY <3>1, OnTop
    <3> HIDE DEF s, u
    <3> QED BY <2>3, <3>2
  <2>5. NestedFits(e, next)
    BY <1>6, <2>2 DEF NestedFits, t
  <2> HIDE DEF s
  <2>6. CallFits(files', s)
    BY <1>7, <2>4, <2>5 DEF CallFits
  <2> QED BY <1>2, <1>3, <1>4, <2>1, <2>4, <2>6, CallGoesOn
<1>9. CASE ~IsEntity(obj)
  <2> DEFINE g == IF obj = None THEN next ELSE Deeper(next, p, top.tree.refs[n], obj)
             s == <<g>> \o Tail(calls[h])
  <2>1. calls' = [calls EXCEPT ![h] = s]
    BY <1>9 DEF RemoveChild, Continue, next
  <2>2. RemoveFits(files', g, u)
    <3>1. CASE obj = None
      BY <1>7, <3>1
    <3>2. CASE obj # None
      <4> DEFINE v == Visit(p, top.tree.refs[n], obj)
                 d == Append(t, v)
      <4>1. g = [next EXCEPT !.stack = d]
        BY <3>2 DEF Deeper, t
      <4>2. g.stack = d /\ g.op = "remove"
        <5>1. f \in [op : {"remove"}, stack : Seq(Visits)]
          <6>1. {w \in Visits : w.path # Root} \subseteq Visits
            OBVIOUS
          <6> QED BY <1>2, <6>1, Wider DEF RemoveFrames
        <5>2. next \in [op : {"remove"}, stack : Seq(Visits)]
          BY <1>6, <5>1
        <5> HIDE DEF d, g
        <5> QED BY <4>1, <5>2
      <4>3. v.path = p /\ v \in Visits
        <5>1. obj \in Trees(Objects) /\ p \in Node
          <6>1. Inv
            BY IInvInv
          <6>2. obj \in Trees(Objects) \union Entities(datas) \union {None} /\ p \in Node
            BY <3>2, <6>1, FoundType
          <6> QED BY <1>9, <3>2, <6>2, Kinds
        <5>2. top.tree.refs[n] \in PathRefs
          <6>1. top \in Visits
            BY <1>1, <1>2, Ends DEF Removals
          <6> QED BY <1>1, <6>1, TodoRef
        <5> QED BY <5>1, <5>2, VisitType
      <4> HIDE DEF v, g
      <4>4. top.path \in Seq(Name) /\ u.path \in Seq(Name) /\ u.path \in Path
            /\ Len(u.trees) = Len(u.path)
        BY <1>2, <1>5, PathLength DEF PathFrames
      <4>5. d # <<>> /\ Places(d) = Places(t) \union {p} /\ Chain(d, u.path)
        <5>1. \E m \in Name : v.path = Append(Last(t).path, m)
          BY <1>6, <4>3
        <5>2. d # <<>> /\ Places(d) = Places(t) \union {v.path}
              /\ \A p0 \in Seq(Name) : Chain(t, p0) => Chain(d, p0)
          BY <1>6, <4>3, <5>1, ChainGrows
        <5> QED BY <1>6, <4>3, <4>4, <5>2
      <4> HIDE DEF d
      <4>6. Sound(After(files, u, Places(t) \union {p}), Node)
        <5> DEFINE F == files
                   gone == Places(t) \union {Append(Last(t).path, n)}
        <5>1. \E S : F \in [Node -> S]
          BY DEF IInv, TypeOK
        <5>2. Sound(After(F, u, Places(t)), Node)
          BY <1>5, <1>6
        <5>3. F = F /\ gone = Places(t) \union {Append(Last(t).path, n)}
          OBVIOUS
        <5> HIDE DEF F, gone, u
        <5>4. Sound(After(F, u, gone), Node)
          BY <1>2, <1>6, <4>4, <5>1, <5>2, <5>3, Below
        <5> QED BY <1>6, <5>4 DEF F, gone
      <4> QED BY <1>3, <1>5, <4>2, <4>5, <4>6 DEF RemoveFits
    <3> QED BY <3>1, <3>2
  <2> HIDE DEF g
  <2>3. s # <<>> /\ Len(s) = 2 /\ s[1] = g /\ s[2] = u
    BY <1>2
  <2> HIDE DEF s
  <2>4. CallFits(files', s)
    BY <2>2, <2>3 DEF CallFits
  <2> QED BY <1>2, <1>3, <1>4, <2>1, <2>3, <2>4, CallGoesOn
<1> QED BY <1>8, <1>9

(* RemoveTree: the file of the tree on top goes. *)
LEMMA RemoveTreeKeeps ==
    ASSUME IInv, ChildInv, Alone', NEW h \in Handle, RemoveTree(h)
    PROVE  ChildInv'
<1> DEFINE f == Top(h)
           u == calls[h][2]
           s == f.stack
           g == [f EXCEPT !.stack = Front(s)]
           new == <<g>> \o Tail(calls[h])
<1>1. Running(h, "remove") /\ s # <<>>
  BY DEF RemoveTree, Removing
<1>2. /\ calls[h] # <<>> /\ mem[h] # None /\ RemoveFits(files, f, u) /\ u \in PathFrames
      /\ f \in RemoveFrames /\ s \in Seq(Removals) /\ Last(s).path \in Path
      /\ new # <<>> /\ Len(new) = 2 /\ new[1] = g /\ new[2] = u
  BY <1>1, SearchFrames
<1>3. /\ UNCHANGED trees /\ UNCHANGED failed /\ UNCHANGED mem
      /\ files' = [files EXCEPT ![Last(s).path] = None]
      /\ calls' = [calls EXCEPT ![h] = new]
  BY DEF RemoveTree, FilesWithout, Continue, store
<1>4. CommitFindsChildren'
  BY <1>3, ChildrenStay
<1>5. Chain(s, u.path) /\ Sound(After(files, u, Places(s)), Node)
      /\ u.op \in PathOps /\ u.dir = "up" /\ u.at + 1 = Len(u.path) /\ f.op = "remove"
  BY <1>2 DEF RemoveFits
<1>6. g.op = "remove" /\ g.stack = Front(s)
  BY <1>2, <1>5 DEF RemoveFrames
<1>7. u.path \in Seq(Name) /\ Last(s).path \in Seq(Name)
  BY <1>2, PathLength DEF PathFrames
<1>8. files \in [Node -> Trees(Objects) \union Entities(datas) \union {None}]
  BY DEF IInv, TypeOK
<1> DEFINE F == files
           G == files'
<1>9. F \in [Node -> Trees(Objects) \union Entities(datas) \union {None}]
      /\ G = [F EXCEPT ![Last(s).path] = None] /\ Sound(After(F, u, Places(s)), Node)
  BY <1>3, <1>5, <1>8
<1> HIDE DEF F, G, s, g, new
<1>10. Sound(After(G, u, Places(Front(s))), Node)
  <2> HIDE DEF u
  <2> QED BY <1>1, <1>2, <1>9, Removed
<1>11. Chain(Front(s), u.path)
  BY <1>1, <1>2, <1>5, <1>7, ChainShrinks
<1>12. RemoveFits(files', g, u)
  BY <1>5, <1>6, <1>10, <1>11 DEF RemoveFits, G
<1>13. CallFits(files', new)
  BY <1>2, <1>12 DEF CallFits
<1> QED BY <1>2, <1>3, <1>4, <1>13, CallGoesOn

(* RemoveEnds: the walk comes up. *)
LEMMA RemoveEndsKeeps ==
    ASSUME IInv, ChildInv, Alone', NEW h \in Handle, RemoveEnds(h)
    PROVE  ChildInv'
<1> DEFINE f == Top(h)
           u == calls[h][2]
           s == Tail(calls[h])
<1>1. Running(h, "remove") /\ f.stack = <<>>
  BY DEF RemoveEnds
<1>2. /\ mem[h] # None /\ RemoveFits(files, f, u)
      /\ s # <<>> /\ Len(s) = 1 /\ s[1] = u
  BY <1>1, SearchFrames
<1>3. /\ UNCHANGED trees /\ UNCHANGED failed /\ UNCHANGED mem /\ UNCHANGED files
      /\ calls' = [calls EXCEPT ![h] = s]
  BY DEF RemoveEnds, Return, store, transient
<1>4. CommitFindsChildren'
  BY <1>3, ChildrenStay
<1>5. Places(f.stack) = {}
  BY <1>1 DEF Places
<1>6. WalkFits(files', u)
  BY <1>2, <1>3, <1>5 DEF RemoveFits, WalkFits
<1> HIDE DEF s, u
<1>7. CallFits(files', s)
  BY <1>2, <1>6 DEF CallFits
<1> QED BY <1>2, <1>3, <1>4, <1>7, CallGoesOn

-----------------------------------------------------------------------------
(* The steps of a commit keep it.                                          *)

(* A commit is the only frame of its call. *)
LEMMA CommitAlone ==
    ASSUME IInv, ChildInv, NEW h \in Handle, Running(h, "commit")
    PROVE  /\ CommitFits(files, Top(h)) /\ Top(h) \in CommitFrames /\ Top(h).stack \in Seq(Visits)
           /\ mem[h] # None /\ Tail(calls[h]) = <<>>
           /\ \A g : Continue(h, g) <=> calls' = [calls EXCEPT ![h] = <<g>>]
<1>1. /\ calls[h] # <<>> /\ Len(calls[h]) = 1 /\ mem[h] # None /\ Top(h).op = "commit"
      /\ Top(h) \in CommitFrames /\ Top(h).stack \in Seq(Visits)
  BY CommitTop
<1>2. calls[h] \in Seq(Frames)
  BY DEF IInv, TypeOK
<1>3. Top(h) = calls[h][1]
  BY <1>1, <1>2, BelowTop DEF Top
<1>4. CallFits(files, calls[h])
  BY <1>1 DEF ChildInv
<1>5. CommitFits(files, Top(h))
  BY <1>1, <1>3, <1>4 DEF CallFits, WalkFits, PathOps
<1>6. Tail(calls[h]) = <<>>
  <2>1. Tail(calls[h]) \in Seq(Frames) /\ Len(Tail(calls[h])) = 0
    BY <1>1, <1>2, Ends, BelowTop
  <2> QED BY <2>1, EmptySeq
<1>7. \A g : <<g>> \o <<>> = <<g>>
  OBVIOUS
<1> QED BY <1>1, <1>5, <1>6, <1>7 DEF Continue

(* It goes on. *)
LEMMA CommitKeeps ==
    ASSUME IInv, ChildInv, Alone', NEW h \in Handle, Running(h, "commit"),
           NEW g, Continue(h, g), CommitFits(files', g), UNCHANGED mem, CommitFindsChildren'
    PROVE  ChildInv'
<1>1. mem[h] # None /\ calls' = [calls EXCEPT ![h] = <<g>>]
  BY CommitAlone
<1>2. CallFits(files', <<g>>)
  BY DEF CallFits
<1> QED BY <1>1, <1>2, CallGoesOn

(* What is recorded stays, and what is new is recorded. *)
LEMMA RecordsStay ==
    ASSUME NEW done, NEW new, \A e \in done \union new : e.id # None
    PROVE  /\ \A e \in Record(done, new) : e.id # None
           /\ \A p : IdOf(done, p) # None => IdOf(Record(done, new), p) # None
           /\ \A e \in new : IdOf(Record(done, new), e.path) # None
<1> DEFINE all == Record(done, new)
<1>1. \A e \in all : e.id # None
  BY DEF Record
<1>2. \A p : IdOf(done, p) # None => \E e \in done : e.path = p
  BY DEF IdOf
<1>3. done \subseteq all /\ \A e \in new : \E x \in all : x.path = e.path
  BY DEF Record
<1> HIDE DEF all
<1>4. ASSUME NEW p, NEW e \in all, e.path = p
      PROVE  IdOf(all, p) # None
  <2>1. (CHOOSE x \in all : x.path = p) \in all
    BY <1>4
  <2> QED BY <1>1, <1>4, <2>1 DEF IdOf
<1>5. \A p : IdOf(done, p) # None => IdOf(all, p) # None
  BY <1>2, <1>3, <1>4
<1>6. \A e \in new : IdOf(all, e.path) # None
  BY <1>3, <1>4
<1> QED BY <1>1, <1>5, <1>6 DEF all

(* The trees on a commit's stack lie one below the other. *)
LEMMA StackPaths ==
    ASSUME NEW s \in Seq(Visits), Chain(s, Root)
    PROVE  /\ Len(s) \in Nat
           /\ \A k \in 1..Len(s) : /\ s[k] \in Visits /\ s[k].path \in Seq(Name)
                                   /\ Len(s[k].path) = k - 1
           /\ s # <<>> => Len(s) # 0 /\ Last(s) = s[Len(s)]
<1>1. Len(s) \in Nat /\ \A k \in 1..Len(s) : s[k] \in Visits
  BY LenProperties, ElementOfSeq
<1>2. \A k \in 1..Len(s) : s[k].path \in Seq(Name)
  BY <1>1, NodeIsPath DEF Visits
<1>3. s # <<>> => Len(s) # 0 /\ Last(s) = s[Len(s)]
  BY EmptySeq, <1>1 DEF Last
<1>4. ASSUME NEW k \in 1..Len(s)
      PROVE  Len(s[k].path) = k - 1
  <2> DEFINE q == Last(s).path
  <2>1. s # <<>>
    BY <1>4
  <2>2. q \in Seq(Name)
    BY <1>1, <1>2, <1>3, <2>1
  <2>3. Len(Root) = 0
    BY DEF Root
  <2>4. /\ Len(q) + 1 = Len(s)
        /\ s[k].path = Upto(q, k - 1)
    <3>1. /\ Len(q) + 1 = Len(Root) + Len(s)
          /\ s[k].path = Upto(q, Len(Root) + k - 1)
      BY <2>1 DEF Chain
    <3>2. Len(Root) + Len(s) = Len(s) /\ Len(Root) + k - 1 = k - 1
      BY <1>1, <2>3
    <3> QED BY <3>1, <3>2
  <2> HIDE DEF q
  <2> DEFINE i == k - 1
             m == Len(q)
  <2>5. m \in Nat /\ m + 1 = Len(s) /\ k \in 1..Len(s)
    BY <2>2, <2>4
  <2>6. i \in 0..m
    <3> HIDE DEF m
    <3> QED BY <1>1, <2>5
  <2> HIDE DEF i
  <2>7. Len(Upto(q, i)) = i
    BY ONLY <2>2, <2>6, PathPrefix
  <2>8. s[k].path = Upto(q, i)
    BY <2>4 DEF i
  <2> QED BY <2>7, <2>8 DEF i
<1> QED BY <1>1, <1>2, <1>3, <1>4

(* While a commit searches: where the trees on its stack lie, and where    *)
(* their children are.                                                     *)
LEMMA SearchingFits ==
    ASSUME IInv, ChildInv, NEW h \in Handle, Searching(h)
    PROVE  LET f == Top(h)
               s == f.stack
               m == Len(s)
           IN  /\ Running(h, "commit") /\ CommitFits(files, f) /\ f \in CommitFrames
               /\ f.cur = None /\ f.made = 0 /\ s \in Seq(Visits) /\ s # <<>>
               /\ m \in Nat \ {0} /\ m \in 1..m /\ Last(s) = s[m] /\ Chain(s, Root)
               /\ \A k \in 1..m : s[k] \in Visits /\ s[k].path \in Seq(Name)
                                  /\ Len(s[k].path) = k - 1
               /\ \A k \in 1..m : \A j \in TransientNames(s[k].tree) :
                     /\ s[k].tree.refs[j].path = Append(s[k].path, j)
                     /\ j \in s[k].todo => Lies(files, Append(s[k].path, j))
                     /\ j \notin s[k].todo => \/ Recorded(f, s[k], j)
                                              \/ k < m /\ s[k + 1].path = Append(s[k].path, j)
               /\ InHand(f) = Places(s)
<1> DEFINE f == Top(h)
           s == f.stack
           m == Len(s)
<1>1. Running(h, "commit") /\ f.cur = None /\ s # <<>>
  BY DEF Searching
<1>2. CommitFits(files, f) /\ f \in CommitFrames /\ s \in Seq(Visits)
  BY <1>1, CommitAlone
<1> HIDE DEF f
<1>3. f.made = 0 /\ Chain(s, Root)
  BY <1>1, <1>2 DEF CommitFits
<1>4. /\ m \in Nat /\ m # 0 /\ Last(s) = s[m]
      /\ \A k \in 1..m : s[k] \in Visits /\ s[k].path \in Seq(Name) /\ Len(s[k].path) = k - 1
  BY <1>1, <1>2, <1>3, StackPaths
<1>5. ASSUME NEW k \in 1..m, NEW j \in TransientNames(s[k].tree)
      PROVE  /\ s[k].tree.refs[j].path = Append(s[k].path, j)
             /\ j \in s[k].todo => Lies(files, Append(s[k].path, j))
             /\ j \notin s[k].todo => \/ Recorded(f, s[k], j)
                                      \/ k < m /\ s[k + 1].path = Append(s[k].path, j)
  <2>1. VisitFits(files, f, k)
    BY <1>2 DEF CommitFits
  <2>2. AtHand(f, k, j) => k < m /\ s[k + 1].path = Append(s[k].path, j)
    BY <1>1 DEF AtHand
  <2> QED BY <2>1, <2>2 DEF VisitFits
<1>6. InHand(f) = Places(s)
  BY <1>1 DEF InHand
<1>7. m \in Nat \ {0} /\ m \in 1..m
  <2> HIDE DEF m
  <2> QED BY <1>4
<1> QED BY <1>1, <1>2, <1>3, <1>4, <1>5, <1>6, <1>7 DEF f

(* The child that the search turns to is there. *)
LEMMA ChildIsThere ==
    ASSUME IInv, ChildInv, NEW h \in Handle, Searching(h), NEW n \in Last(Top(h).stack).todo
    PROVE  LET top == Last(Top(h).stack)
               p == Append(top.path, n)
           IN  /\ n \in Name /\ p \in Path /\ top.tree.refs[n] \in PathRefs
               /\ IsPathRef(top.tree.refs[n]) /\ top.tree.refs[n].path = p
               /\ Found(h, p) = files[p] /\ files[p] # None
               /\ files[p] \in Trees(Objects) \union Entities(datas)
               /\ Len(p) = Len(Top(h).stack)
<1> DEFINE s == Top(h).stack
           top == Last(s)
           p == Append(top.path, n)
           m == Len(s)
<1>1. /\ m \in Nat \ {0} /\ m \in 1..m /\ top = s[m]
      /\ top \in Visits /\ top.path \in Seq(Name) /\ Len(top.path) = m - 1
      /\ \A j \in TransientNames(top.tree) :
            /\ top.tree.refs[j].path = Append(top.path, j)
            /\ j \in top.todo => Lies(files, Append(top.path, j))
  BY SearchingFits
<1>2. n \in TransientNames(top.tree) /\ n \in Name
  BY <1>1 DEF Visits, TransientNames
<1>3. top.tree.refs[n] \in PathRefs
  BY <1>1, TodoRef
<1>4. top.tree.refs[n].path = p /\ p \in Node /\ files[p] # None
  BY <1>1, <1>2 DEF Lies
<1>5. p \in Seq(Name) /\ Len(p) = m
  <2> DEFINE q == top.path
  <2>1. q \in Seq(Name) /\ Len(q) = m - 1
    BY <1>1
  <2> HIDE DEF q
  <2>2. Append(q, n) \in Seq(Name) /\ Len(Append(q, n)) = Len(q) + 1
    BY ONLY <2>1, <1>2, Segments
  <2>3. Len(q) + 1 = m
    <3>1. m \in Nat
      BY <1>1
    <3> HIDE DEF m
    <3> QED BY <2>1, <3>1
  <2> QED BY <2>2, <2>3 DEF q
<1>6. p \in Path
  <2>1. Len(Root) = 0
    BY DEF Root
  <2> HIDE DEF p, m
  <2>2. p # Root
    BY <1>1, <1>5, <2>1
  <2> QED BY <1>4, <2>2 DEF Node
<1>7. Found(h, p) = files[p]
  BY <1>4 DEF Found, File
<1>8. files[p] \in Trees(Objects) \union Entities(datas)
  BY <1>4 DEF IInv, TypeOK
<1>9. IsPathRef(top.tree.refs[n])
  BY <1>2 DEF TransientNames
<1> QED BY <1>2, <1>3, <1>4, <1>5, <1>6, <1>7, <1>8, <1>9

(* The stack of a commit that has turned to child n: only n is neither     *)
(* visited nor recorded.                                                   *)
Turning(f, g, n) ==
    LET s == f.stack
        t == g.stack
        m == Len(s)
    IN  /\ g.op = "commit" /\ g.cur = None /\ g.done = f.done /\ g.made = 0
        /\ t \in Seq(Visits) /\ t # <<>> /\ Len(t) = m /\ Last(t) = t[m] /\ Last(t).path = Last(s).path
        /\ Places(t) = Places(s) /\ Chain(t, Root)
        /\ \A k \in 1..m : \A j \in TransientNames(t[k].tree) :
              /\ t[k].tree.refs[j].path = Append(t[k].path, j)
              /\ j \in t[k].todo => Lies(files, Append(t[k].path, j))
              /\ j \notin t[k].todo => \/ Recorded(f, t[k], j)
                                       \/ k < m /\ t[k + 1].path = Append(t[k].path, j)
                                       \/ k = m /\ j = n
        /\ \A k \in 1..m : k < m => TurnedTo(t[k], t[k + 1].path)
        /\ \A k \in 1..m : IF k = 1 THEN t[k].ref = None
                           ELSE IsPathRef(t[k].ref) /\ t[k].ref.path = t[k].path
        /\ TurnedTo(t[m], Append(t[m].path, n))

(* It turns to a child that way. *)
LEMMA CommitPasses ==
    ASSUME IInv, ChildInv, NEW h \in Handle, Searching(h), NEW n \in Last(Top(h).stack).todo
    PROVE  LET g == PassTo(Top(h), n)
           IN  g = [Top(h) EXCEPT !.stack = g.stack] /\ Turning(Top(h), g, n)
<1> DEFINE f == Top(h)
           s == f.stack
           m == Len(s)
           g == PassTo(f, n)
           t == g.stack
<1>1. /\ CommitFits(files, f) /\ f \in CommitFrames
      /\ f.cur = None /\ f.made = 0 /\ s \in Seq(Visits) /\ s # <<>>
      /\ m \in Nat \ {0} /\ m \in 1..m /\ Last(s) = s[m] /\ Chain(s, Root)
      /\ \A k \in 1..m : s[k] \in Visits
      /\ \A k \in 1..m : \A j \in TransientNames(s[k].tree) :
            /\ s[k].tree.refs[j].path = Append(s[k].path, j)
            /\ j \in s[k].todo => Lies(files, Append(s[k].path, j))
            /\ j \notin s[k].todo => \/ Recorded(f, s[k], j)
                                     \/ k < m /\ s[k + 1].path = Append(s[k].path, j)
  BY SearchingFits
<1>2. n \in Name
  BY ChildIsThere
<1>3. f.op = "commit"
      /\ \A k \in 1..m : /\ k < m => TurnedTo(s[k], s[k + 1].path)
                         /\ IF k = 1 THEN s[k].ref = None
                            ELSE IsPathRef(s[k].ref) /\ s[k].ref.path = s[k].path
  BY <1>1 DEF CommitFits
<1>4. /\ g = [f EXCEPT !.stack = t] /\ g.op = f.op
      /\ t \in Seq(Visits) /\ t # <<>> /\ Len(t) = m
      /\ Last(t) = [Last(s) EXCEPT !.todo = @ \ {n}] /\ Last(t) = t[m]
      /\ \A k \in 1..(m - 1) : t[k] = s[k]
      /\ \A k \in 1..m : t[k].path = s[k].path
      /\ Last(t).path = Last(s).path
      /\ Places(t) = Places(s) /\ \A p : Chain(s, p) => Chain(t, p)
  <2>1. f \in RemoveFrames \union CommitFrames
    BY <1>1
  <2> HIDE DEF f
  <2> QED BY ONLY <1>1, <2>1, Passing
<1> HIDE DEF g
<1>5. g.cur = None /\ g.done = f.done /\ g.made = 0
  <2> HIDE DEF t
  <2> QED BY <1>1, <1>4 DEF CommitFrames
<1>6. \A k \in 1..m : /\ t[k].tree = s[k].tree /\ t[k].ref = s[k].ref /\ t[k].path = s[k].path
                      /\ t[k].todo = IF k = m THEN s[k].todo \ {n} ELSE s[k].todo
  <2> SUFFICES ASSUME NEW k \in 1..m
               PROVE  /\ t[k].tree = s[k].tree /\ t[k].ref = s[k].ref /\ t[k].path = s[k].path
                      /\ t[k].todo = IF k = m THEN s[k].todo \ {n} ELSE s[k].todo
    OBVIOUS
  <2> HIDE DEF s, t, m
  <2>1. CASE k = m
    <3>1. t[m] = [s[m] EXCEPT !.todo = @ \ {n}] /\ s[m] \in Visits
      BY <1>1, <1>4
    <3> QED BY <2>1, <3>1 DEF Visits
  <2>2. CASE k # m
    <3>1. k \in 1..(m - 1)
      BY <1>1, <2>2
    <3> QED BY <1>4, <2>2, <3>1
  <2> QED BY <2>1, <2>2
<1> HIDE DEF f, s, t, m
<1>7. \A k \in 1..m : k < m => k + 1 \in 1..m
  BY <1>1
<1>8. ASSUME NEW k \in 1..m, NEW j \in TransientNames(t[k].tree)
      PROVE  /\ t[k].tree.refs[j].path = Append(t[k].path, j)
             /\ j \in t[k].todo => Lies(files, Append(t[k].path, j))
             /\ j \notin t[k].todo => \/ Recorded(f, t[k], j)
                                      \/ k < m /\ t[k + 1].path = Append(t[k].path, j)
                                      \/ k = m /\ j = n
  <2>1. j \in TransientNames(s[k].tree) /\ (Recorded(f, t[k], j) <=> Recorded(f, s[k], j))
    BY <1>6 DEF Recorded
  <2>2. k < m => t[k + 1].path = s[k + 1].path
    BY <1>6, <1>7
  <2>3. /\ s[k].tree.refs[j].path = Append(s[k].path, j)
        /\ j \in s[k].todo => Lies(files, Append(s[k].path, j))
        /\ j \notin s[k].todo => \/ Recorded(f, s[k], j)
                                 \/ k < m /\ s[k + 1].path = Append(s[k].path, j)
    BY <1>1, <2>1
  <2>4. /\ t[k].tree = s[k].tree /\ t[k].path = s[k].path
        /\ t[k].todo = IF k = m THEN s[k].todo \ {n} ELSE s[k].todo
    BY <1>6
  <2>5. j \in t[k].todo => j \in s[k].todo
    BY <2>4
  <2>6. j \notin t[k].todo => j \notin s[k].todo \/ (k = m /\ j = n)
    BY <2>4
  <2> QED BY <2>1, <2>2, <2>3, <2>4, <2>5, <2>6
<1>9. \A k \in 1..m : k < m => TurnedTo(t[k], t[k + 1].path)
  <2> SUFFICES ASSUME NEW k \in 1..m, k < m PROVE TurnedTo(t[k], t[k + 1].path)
    OBVIOUS
  <2>1. k + 1 \in 1..m /\ k # m
    BY <1>1, <1>7
  <2>2. t[k].todo = s[k].todo /\ t[k].path = s[k].path /\ t[k + 1].path = s[k + 1].path
    BY <1>6, <2>1
  <2> QED BY <1>3, <2>2 DEF TurnedTo
<1>10. \A k \in 1..m : IF k = 1 THEN t[k].ref = None
                       ELSE IsPathRef(t[k].ref) /\ t[k].ref.path = t[k].path
  BY <1>3, <1>6
<1>11. TurnedTo(t[m], Append(t[m].path, n))
  BY <1>1, <1>2, <1>6 DEF TurnedTo
<1>12. Turning(f, g, n)
  BY <1>1, <1>3, <1>4, <1>5, <1>8, <1>9, <1>10, <1>11 DEF Turning, f, s, t, m
<1> QED BY <1>4, <1>12 DEF f, g, t

(* CommitChild: it goes down into a tree, *)
LEMMA CommitDescendsKeeps ==
    ASSUME IInv, ChildInv, Alone', NEW h \in Handle, NEW n \in Last(Top(h).stack).todo,
           Searching(h), UNCHANGED <<store, transient, disk, mem, failed, crashes>>,
           LET top == Last(Top(h).stack)
               p == Append(top.path, n)
           IN  IsTree(files[p]) /\ Continue(h, Deeper(PassTo(Top(h), n), p, top.tree.refs[n], files[p]))
    PROVE  ChildInv'
<1> DEFINE f == Top(h)
           s == f.stack
           m == Len(s)
           top == Last(s)
           p == Append(top.path, n)
           ref == top.tree.refs[n]
           obj == files[p]
           next == PassTo(f, n)
           t == next.stack
           v == Visit(p, ref, obj)
           d == Append(t, v)
           g == Deeper(next, p, ref, obj)
<1>1. /\ Running(h, "commit") /\ CommitFits(files, f) /\ f \in CommitFrames
      /\ s \in Seq(Visits) /\ s # <<>> /\ f.made = 0
      /\ m \in Nat \ {0} /\ m \in 1..m /\ top = s[m]
      /\ \A k \in 1..m : s[k].path \in Seq(Name) /\ Len(s[k].path) = k - 1
      /\ InHand(f) = Places(s)
  BY SearchingFits
<1>2. /\ n \in Name /\ p \in Path /\ ref \in PathRefs /\ IsPathRef(ref) /\ ref.path = p
      /\ obj \in Trees(Objects) \union Entities(datas)
      /\ Len(p) = m
  BY ChildIsThere
<1>3. Turning(f, next, n) /\ next = [f EXCEPT !.stack = t]
  BY CommitPasses
<1>4. /\ IsTree(obj) /\ Continue(h, g)
      /\ UNCHANGED files /\ UNCHANGED trees /\ UNCHANGED failed /\ UNCHANGED mem
  BY DEF transient, store
<1>5. v \in Visits /\ v.path = p /\ v.ref = ref /\ v.tree = obj /\ v.todo = TransientNames(obj)
  <2>1. obj \in Trees(Objects)
    <3>1. obj \in Trees(Objects) \union Entities(datas) \union {None}
      BY <1>2
    <3> HIDE DEF obj
    <3> QED BY <1>4, <3>1, Kinds
  <2>2. p \in Node
    BY <1>2 DEF Node
  <2> HIDE DEF p, ref, obj
  <2>3. Visit(p, ref, obj) \in Visits
    BY <1>2, <2>1, <2>2, VisitType
  <2> QED BY <2>3 DEF Visit
<1> HIDE DEF v
<1>6. g = [next EXCEPT !.stack = d]
  BY DEF Deeper, v
<1> HIDE DEF next, g
<1>7. /\ next.op = "commit" /\ next.cur = None /\ next.done = f.done /\ next.made = 0
      /\ t \in Seq(Visits) /\ t # <<>> /\ Len(t) = m /\ Last(t) = t[m] /\ Last(t).path = top.path
      /\ Places(t) = Places(s) /\ Chain(t, Root)
      /\ \A k \in 1..m : \A j \in TransientNames(t[k].tree) :
            /\ t[k].tree.refs[j].path = Append(t[k].path, j)
            /\ j \in t[k].todo => Lies(files, Append(t[k].path, j))
            /\ j \notin t[k].todo => \/ Recorded(f, t[k], j)
                                     \/ k < m /\ t[k + 1].path = Append(t[k].path, j)
                                     \/ k = m /\ j = n
      /\ \A k \in 1..m : k < m => TurnedTo(t[k], t[k + 1].path)
      /\ \A k \in 1..m : IF k = 1 THEN t[k].ref = None
                         ELSE IsPathRef(t[k].ref) /\ t[k].ref.path = t[k].path
      /\ TurnedTo(t[m], Append(t[m].path, n))
  BY <1>3 DEF Turning
<1> HIDE DEF t
<1>8. g.op = "commit" /\ g.cur = None /\ g.done = f.done /\ g.made = 0 /\ g.stack = d
  <2>1. f \in [op : {"commit"}, stack : Seq(Visits), cur : Currents,
               done : SUBSET [path : Node, id : Objects \union {None}],
               made : 0..Len(commits)]
    BY <1>1 DEF CommitFrames
  <2>2. next = [f EXCEPT !.stack = t]
    BY <1>3 DEF t
  <2> HIDE DEF f, d
  <2> QED BY <1>6, <1>7, <2>1, <2>2
<1>9. /\ d \in Seq(Visits) /\ d # <<>> /\ Len(d) = m + 1 /\ Last(d) = v
      /\ \A k \in 1..m : d[k] = t[k]
      /\ d[m + 1] = v
      /\ Places(d) = Places(t) \union {p} /\ Chain(d, Root)
  <2>1. \E j \in Name : v.path = Append(Last(t).path, j)
    BY <1>2, <1>5, <1>7
  <2>2. Root \in Seq(Name)
    BY EmptySeq DEF Root
  <2>3. /\ d \in Seq(Visits) /\ d # <<>> /\ Len(d) = Len(t) + 1 /\ Last(d) = v
        /\ \A k \in 1..Len(t) : d[k] = t[k]
        /\ d[Len(t) + 1] = v
        /\ Places(d) = Places(t) \union {v.path}
        /\ \A p0 \in Seq(Name) : Chain(t, p0) => Chain(d, p0)
    BY <1>5, <1>7, <2>1, ChainGrows
  <2> QED BY <1>5, <1>7, <2>2, <2>3
<1> HIDE DEF d
<1>10. Fits(files, p, obj)
  <2>1. p \notin Places(s)
    <3> SUFFICES ASSUME NEW k \in 1..m PROVE s[k].path # p
      BY DEF Places
    <3>1. Len(s[k].path) # m
      <4> DEFINE i == Len(s[k].path)
      <4>1. i = k - 1
        BY <1>1
      <4> HIDE DEF i, m
      <4> QED BY <1>1, <4>1 DEF i
    <3> QED BY <1>2, <3>1
  <2>2. Sound(files, Path \ Places(s))
    BY <1>1 DEF CommitFits
  <2> HIDE DEF p, s
  <2> QED BY <1>2, <1>4, <2>1, <2>2 DEF Sound
<1> HIDE DEF f, s, m, top, p, ref
<1>11. \A k \in 1..(m + 1) : k \in 1..m \/ k = m + 1
  BY <1>1
<1>12. \A k \in 1..m : k < m => k + 1 \in 1..m
  BY <1>1
<1>13. ASSUME NEW k \in 1..(m + 1)
       PROVE  VisitFits(files, g, k)
  <2>1. CASE k \in 1..m
    <3> SUFFICES ASSUME NEW j \in TransientNames(t[k].tree)
                 PROVE  /\ t[k].tree.refs[j].path = Append(t[k].path, j)
                        /\ j \in t[k].todo => Lies(files, Append(t[k].path, j))
                        /\ j \notin t[k].todo => Recorded(g, t[k], j) \/ AtHand(g, k, j)
      BY <1>8, <1>9, <2>1 DEF VisitFits
    <3>1. Recorded(f, t[k], j) => Recorded(g, t[k], j)
      BY <1>8 DEF Recorded
    <3>2. ASSUME k < m, t[k + 1].path = Append(t[k].path, j)
          PROVE  AtHand(g, k, j)
      <4>1. d[k + 1] = t[k + 1] /\ d[k] = t[k] /\ k < Len(d)
        BY <1>1, <1>9, <1>12, <2>1, <3>2
      <4> QED BY <1>8, <3>2, <4>1 DEF AtHand
    <3>3. ASSUME k = m, j = n
          PROVE  AtHand(g, k, j)
      <4>1. d[k + 1].path = p /\ d[k] = t[k] /\ k < Len(d)
        BY <1>1, <1>5, <1>9, <2>1, <3>3
      <4>2. Append(t[k].path, j) = p
        BY <1>7, <3>3 DEF p
      <4> QED BY <1>8, <4>1, <4>2 DEF AtHand
    <3> QED BY <1>7, <2>1, <3>1, <3>2, <3>3
  <2>2. CASE k = m + 1
    <3>1. g.stack[k] = v
      BY <1>8, <1>9, <2>2
    <3> QED BY <1>5, <1>10, <3>1 DEF VisitFits, Fits
  <2> QED BY <1>11, <2>1, <2>2
<1>14. ASSUME NEW k \in 1..(m + 1), k < m + 1
       PROVE  TurnedTo(d[k], d[k + 1].path)
  <2>1. k \in 1..m
    BY <1>1, <1>14
  <2>2. CASE k = m
    <3>1. d[k] = t[m] /\ d[k + 1].path = p
      BY <1>5, <1>9, <2>1, <2>2
    <3>2. Append(t[m].path, n) = p
      BY <1>7 DEF p
    <3> QED BY <1>7, <3>1, <3>2
  <2>3. CASE k # m
    <3>1. k < m /\ k + 1 \in 1..m
      BY <1>1, <2>1, <2>3
    <3> QED BY <1>7, <1>9, <2>1, <3>1
  <2> QED BY <2>2, <2>3
<1>15. ASSUME NEW k \in 1..(m + 1)
       PROVE  IF k = 1 THEN d[k].ref = None ELSE IsPathRef(d[k].ref) /\ d[k].ref.path = d[k].path
  <2>1. CASE k \in 1..m
    BY <1>7, <1>9, <2>1
  <2>2. CASE k = m + 1
    <3>1. k # 1
      BY <1>1, <2>2
    <3> QED BY <1>2, <1>5, <1>9, <2>2, <3>1
  <2> QED BY <1>11, <2>1, <2>2
<1>16. Sound(files, Path \ InHand(g))
  <2>1. Places(s) \subseteq InHand(g)
    BY <1>7, <1>8, <1>9 DEF InHand
  <2> QED BY <1>1, <2>1 DEF CommitFits, Sound
<1>17. \A e \in g.done : e.id # None
  BY <1>1, <1>8 DEF CommitFits
<1>18. CurFits(files, g)
  BY <1>8 DEF CurFits
<1>19. CommitFits(files', g)
  BY <1>4, <1>8, <1>9, <1>13, <1>14, <1>15, <1>16, <1>17, <1>18 DEF CommitFits
<1>20. CommitFindsChildren'
  BY <1>4, ChildrenStay
<1> QED BY <1>1, <1>4, <1>19, <1>20, CommitKeeps DEF f

(* or takes up an entity. *)
LEMMA CommitEntityKeeps ==
    ASSUME IInv, ChildInv, Alone', NEW h \in Handle, NEW n \in Last(Top(h).stack).todo,
           Searching(h), UNCHANGED <<store, transient, disk, mem, failed, crashes>>,
           LET top == Last(Top(h).stack)
               p == Append(top.path, n)
           IN  /\ IsEntity(files[p])
               /\ Continue(h, [PassTo(Top(h), n) EXCEPT
                                 !.cur = [step |-> "data", path |-> p,
                                          ref |-> top.tree.refs[n], obj |-> files[p]]])
    PROVE  ChildInv'
<1> DEFINE f == Top(h)
           s == f.stack
           m == Len(s)
           top == Last(s)
           p == Append(top.path, n)
           ref == top.tree.refs[n]
           obj == files[p]
           next == PassTo(f, n)
           t == next.stack
           c == [step |-> "data", path |-> p, ref |-> ref, obj |-> obj]
           g == [next EXCEPT !.cur = c]
<1>1. /\ Running(h, "commit") /\ CommitFits(files, f) /\ f \in CommitFrames
      /\ s \in Seq(Visits) /\ s # <<>> /\ f.made = 0
      /\ m \in Nat \ {0} /\ m \in 1..m /\ top = s[m]
      /\ InHand(f) = Places(s)
  BY SearchingFits
<1>2. n \in Name /\ p \in Path /\ ref.path = p
  BY ChildIsThere
<1>3. Turning(f, next, n) /\ next = [f EXCEPT !.stack = t]
  BY CommitPasses
<1>4. /\ IsEntity(obj) /\ Continue(h, g)
      /\ UNCHANGED files /\ UNCHANGED trees /\ UNCHANGED failed /\ UNCHANGED mem
  BY DEF transient, store
<1>5. c.step = "data" /\ c.path = p /\ c.ref = ref /\ c # None
  BY DEF None
<1> HIDE DEF c, next
<1>6. /\ next.op = "commit" /\ next.cur = None /\ next.done = f.done /\ next.made = 0
      /\ t \in Seq(Visits) /\ t # <<>> /\ Len(t) = m /\ Last(t) = t[m] /\ Last(t).path = top.path
      /\ Places(t) = Places(s) /\ Chain(t, Root)
      /\ \A k \in 1..m : \A j \in TransientNames(t[k].tree) :
            /\ t[k].tree.refs[j].path = Append(t[k].path, j)
            /\ j \in t[k].todo => Lies(files, Append(t[k].path, j))
            /\ j \notin t[k].todo => \/ Recorded(f, t[k], j)
                                     \/ k < m /\ t[k + 1].path = Append(t[k].path, j)
                                     \/ k = m /\ j = n
      /\ \A k \in 1..m : k < m => TurnedTo(t[k], t[k + 1].path)
      /\ \A k \in 1..m : IF k = 1 THEN t[k].ref = None
                         ELSE IsPathRef(t[k].ref) /\ t[k].ref.path = t[k].path
      /\ TurnedTo(t[m], Append(t[m].path, n))
  BY <1>3 DEF Turning
<1>7. g.op = "commit" /\ g.cur = c /\ g.done = f.done /\ g.made = 0 /\ g.stack = t
  <2>1. f \in [op : {"commit"}, stack : Seq(Visits), cur : Currents,
               done : SUBSET [path : Node, id : Objects \union {None}],
               made : 0..Len(commits)]
    BY <1>1 DEF CommitFrames
  <2>2. next = [f EXCEPT !.stack = t]
    BY <1>3
  <2>3. g = [next EXCEPT !.cur = c]
    OBVIOUS
  <2> HIDE DEF f, t, g
  <2>4. g.op = "commit" /\ g.cur = c /\ g.done = f.done /\ g.made = 0
    BY <1>6, <2>1, <2>2, <2>3
  <2>5. g.stack = next.stack
    BY <2>1, <2>2, <2>3
  <2> QED BY <2>4, <2>5 DEF t
<1> HIDE DEF f, s, m, top, p, ref, t, g
<1>8. ASSUME NEW k \in 1..m
      PROVE  VisitFits(files, g, k)
  <2> SUFFICES ASSUME NEW j \in TransientNames(t[k].tree)
               PROVE  /\ t[k].tree.refs[j].path = Append(t[k].path, j)
                      /\ j \in t[k].todo => Lies(files, Append(t[k].path, j))
                      /\ j \notin t[k].todo => Recorded(g, t[k], j) \/ AtHand(g, k, j)
    BY <1>7 DEF VisitFits
  <2>1. Recorded(f, t[k], j) => Recorded(g, t[k], j)
    BY <1>7 DEF Recorded
  <2>2. ASSUME k < m, t[k + 1].path = Append(t[k].path, j)
        PROVE  AtHand(g, k, j)
    BY <1>6, <1>7, <2>2 DEF AtHand
  <2>3. ASSUME k = m, j = n
        PROVE  AtHand(g, k, j)
    <3>1. Append(t[k].path, j) = p
      BY <1>6, <2>3 DEF p
    <3> QED BY <1>5, <1>6, <1>7, <2>3, <3>1 DEF AtHand
  <2> QED BY <1>6, <2>1, <2>2, <2>3
<1>9. Sound(files, Path \ InHand(g))
  <2>1. Places(s) \subseteq InHand(g)
    BY <1>6, <1>7 DEF InHand
  <2> QED BY <1>1, <2>1 DEF CommitFits, Sound
<1>10. \A e \in g.done : e.id # None
  BY <1>1, <1>7 DEF CommitFits
<1>11. CurFits(files, g)
  <2>1. TurnedTo(Last(t), p)
    BY <1>6 DEF p
  <2> QED BY <1>2, <1>4, <1>5, <1>6, <1>7, <2>1 DEF CurFits, obj
<1>12. CommitFits(files', g)
  BY <1>4, <1>6, <1>7, <1>8, <1>9, <1>10, <1>11 DEF CommitFits
<1>13. CommitFindsChildren'
  BY <1>4, ChildrenStay
<1> QED BY <1>1, <1>4, <1>12, <1>13, CommitKeeps DEF f

(* CommitChild does the one or the other. *)
LEMMA CommitChildKeeps ==
    ASSUME IInv, ChildInv, Alone', NEW h \in Handle, NEW n \in Name, CommitChild(h, n)
    PROVE  ChildInv'
<1> DEFINE top == Last(Top(h).stack)
           p == Append(top.path, n)
           next == PassTo(Top(h), n)
<1>1. Searching(h) /\ n \in top.todo
  BY DEF CommitChild
<1>2. Found(h, p) = files[p] /\ files[p] # None
  BY <1>1, ChildIsThere
<1>3. UNCHANGED <<store, transient, disk, mem, failed, crashes>>
  BY DEF CommitChild
<1>4. \/ IsTree(files[p]) /\ Continue(h, Deeper(next, p, top.tree.refs[n], files[p]))
      \/ /\ IsEntity(files[p])
         /\ Continue(h, [next EXCEPT !.cur = [step |-> "data", path |-> p,
                                              ref |-> top.tree.refs[n], obj |-> files[p]]])
  BY <1>2 DEF CommitChild
<1>5. CASE IsTree(files[p]) /\ Continue(h, Deeper(next, p, top.tree.refs[n], files[p]))
  BY <1>1, <1>3, <1>5, CommitDescendsKeeps
<1>6. CASE /\ IsEntity(files[p])
           /\ Continue(h, [next EXCEPT !.cur = [step |-> "data", path |-> p,
                                                ref |-> top.tree.refs[n], obj |-> files[p]]])
  BY <1>1, <1>3, <1>6, CommitEntityKeeps
<1> QED BY <1>4, <1>5, <1>6

(* The stack stays: what was recorded or at hand still is. *)
Carried(F, G, f, g) ==
    /\ g.op = f.op /\ g.stack = f.stack /\ g.made = f.made
    /\ f.cur # None
    /\ \A e \in g.done : e.id # None
    /\ \A k \in 1..Len(f.stack) : \A n \in TransientNames(f.stack[k].tree) :
          /\ n \in f.stack[k].todo /\ Lies(F, Append(f.stack[k].path, n))
                => Lies(G, Append(f.stack[k].path, n))
          /\ n \notin f.stack[k].todo /\ (Recorded(f, f.stack[k], n) \/ AtHand(f, k, n))
                => Recorded(g, f.stack[k], n) \/ AtHand(g, k, n)
    /\ CurFits(G, g)
    /\ Sound(G, Path \ InHand(g))

(* Then the commit still fits. *)
LEMMA SameStack ==
    ASSUME NEW F, NEW G, NEW f, NEW g, CommitFits(F, f), Carried(F, G, f, g)
    PROVE  CommitFits(G, g)
<1>1. f.made = 0 /\ g.made = 0 /\ f.stack = g.stack
  BY DEF CommitFits, Carried, CurFits
<1>2. \A k \in 1..Len(g.stack) : VisitFits(G, g, k)
  <2> SUFFICES ASSUME NEW k \in 1..Len(f.stack), NEW n \in TransientNames(f.stack[k].tree)
               PROVE  LET v == f.stack[k]
                      IN  /\ v.tree.refs[n].path = Append(v.path, n)
                          /\ n \in v.todo => Lies(G, Append(v.path, n))
                          /\ n \notin v.todo => Recorded(g, v, n) \/ AtHand(g, k, n)
    BY <1>1 DEF VisitFits
  <2>1. VisitFits(F, f, k)
    BY DEF CommitFits
  <2> QED BY <2>1 DEF VisitFits, Carried
<1> QED BY <1>1, <1>2 DEF CommitFits, Carried

(* PersistData: the entity's file is there, so the entity goes on. *)
LEMMA PersistDataKeeps ==
    ASSUME IInv, ChildInv, Alone', NEW h \in Handle, PersistData(h)
    PROVE  ChildInv'
<1> DEFINE f == Top(h)
           place == f.cur.ref.path
           obj == WithDataId(f.cur.obj, DataFile(place))
           g == [f EXCEPT !.cur.step = "entity", !.cur.obj = obj]
           c == [f.cur EXCEPT !.step = "entity", !.obj = obj]
<1>1. /\ Running(h, "commit") /\ f.cur # None /\ f.cur.step = "data"
      /\ UNCHANGED files /\ UNCHANGED trees /\ UNCHANGED failed /\ UNCHANGED mem
  BY DEF PersistData
<1>2. CommitFits(files, f) /\ f \in CommitFrames
  BY <1>1, CommitAlone
<1>3. f.cur \in [step : {"data", "entity"}, path : Path, ref : PathRefs, obj : Entities(datas)]
  BY <1>1, <1>2 DEF CommitFrames, Currents
<1>4. CurFits(files, f)
  BY <1>2 DEF CommitFits
<1>5. place \in Path /\ place = f.cur.path /\ IsEntity(files[place])
  BY <1>1, <1>3, <1>4 DEF CurFits, PathRefs
<1>6. Continue(h, g)
  <2>1. IsEntity(File(place))
    BY <1>5 DEF File, Node
  <2> QED BY <2>1 DEF PersistData
<1>7. obj # None
  BY <1>3 DEF WithDataId, Entities, None
<1> HIDE DEF obj, place
<1>8. c.step = "entity" /\ c.ref = f.cur.ref /\ c.path = f.cur.path /\ c.obj = obj /\ c # None
  BY <1>3 DEF None
<1>9. g.op = f.op /\ g.stack = f.stack /\ g.made = f.made /\ g.done = f.done /\ g.cur = c
  <2>1. g = [f EXCEPT !.cur = c]
    BY <1>2, <1>3 DEF CommitFrames
  <2> HIDE DEF c, g
  <2> QED BY <1>2, <2>1 DEF CommitFrames
<1> HIDE DEF c, g, f
<1>10. Carried(files, files', f, g)
  <2>1. ASSUME NEW k \in 1..Len(f.stack), NEW n \in TransientNames(f.stack[k].tree)
        PROVE  Recorded(f, f.stack[k], n) \/ AtHand(f, k, n)
                  => Recorded(g, f.stack[k], n) \/ AtHand(g, k, n)
    BY <1>8, <1>9 DEF Recorded, AtHand
  <2>2. CurFits(files', g)
    BY <1>1, <1>4, <1>7, <1>8, <1>9 DEF CurFits
  <2>3. InHand(g) = InHand(f)
    BY <1>1, <1>8, <1>9 DEF InHand
  <2>4. Sound(files, Path \ InHand(f)) /\ \A e \in f.done : e.id # None
    BY <1>2 DEF CommitFits
  <2> QED BY <1>1, <1>9, <2>1, <2>2, <2>3, <2>4 DEF Carried
<1>11. CommitFits(files', g)
  BY <1>2, <1>10, SameStack
<1>12. CommitFindsChildren'
  BY <1>1, ChildrenStay
<1> QED BY <1>1, <1>6, <1>11, <1>12, CommitKeeps

(* PersistEntity: it is recorded. *)
LEMMA PersistEntityKeeps ==
    ASSUME IInv, ChildInv, Alone', NEW h \in Handle, PersistEntity(h)
    PROVE  ChildInv'
<1> DEFINE f == Top(h)
           e == Entry(f.cur.path, f.cur.obj)
           new == Record(f.done, {e})
           c == [f.cur EXCEPT !.step = "remove"]
           g == [f EXCEPT !.cur.step = "remove",
                          !.done = Record(@, {Entry(f.cur.path, f.cur.obj)})]
<1>1. /\ Running(h, "commit") /\ f.cur # None /\ f.cur.step = "entity" /\ Continue(h, g)
      /\ UNCHANGED files /\ UNCHANGED trees /\ UNCHANGED failed /\ UNCHANGED mem
  BY DEF PersistEntity, transient
<1>2. CommitFits(files, f) /\ f \in CommitFrames
  BY <1>1, CommitAlone
<1>3. f.cur \in [step : {"data", "entity"}, path : Path, ref : PathRefs, obj : Entities(datas)]
  BY <1>1, <1>2 DEF CommitFrames, Currents
<1>4. CurFits(files, f) /\ \A x \in f.done : x.id # None
  BY <1>2 DEF CommitFits
<1>5. f.cur.obj # None
  BY <1>1, <1>4 DEF CurFits
<1>6. /\ \A x \in new : x.id # None
      /\ \A p : IdOf(f.done, p) # None => IdOf(new, p) # None
      /\ IdOf(new, f.cur.path) # None
  <2>1. e.id # None /\ e.path = f.cur.path
    BY <1>5 DEF Entry
  <2> DEFINE done == f.done
             one == {e}
  <2>2. \A x \in done \union one : x.id # None
    BY <1>4, <2>1
  <2>3. e \in one /\ new = Record(done, one)
    OBVIOUS
  <2> HIDE DEF done, one, e, new
  <2>4. /\ \A x \in Record(done, one) : x.id # None
        /\ \A p : IdOf(done, p) # None => IdOf(Record(done, one), p) # None
        /\ \A x \in one : IdOf(Record(done, one), x.path) # None
    BY ONLY <2>2, RecordsStay
  <2> QED BY <2>1, <2>3, <2>4 DEF done
<1>7. c.step = "remove" /\ c.ref = f.cur.ref /\ c.path = f.cur.path /\ c # None
  BY <1>3 DEF None
<1>8. g.op = f.op /\ g.stack = f.stack /\ g.made = f.made /\ g.done = new /\ g.cur = c
  <2> HIDE DEF e
  <2>1. g = [[f EXCEPT !.cur = c] EXCEPT !.done = new]
    BY <1>2, <1>3 DEF CommitFrames, e
  <2> HIDE DEF c, g, new
  <2> QED BY <1>2, <2>1 DEF CommitFrames
<1> HIDE DEF c, g, f, new
<1>9. Carried(files, files', f, g)
  <2>1. ASSUME NEW k \in 1..Len(f.stack), NEW n \in TransientNames(f.stack[k].tree)
        PROVE  Recorded(f, f.stack[k], n) \/ AtHand(f, k, n)
                  => Recorded(g, f.stack[k], n) \/ AtHand(g, k, n)
    BY <1>6, <1>8 DEF Recorded, AtHand
  <2>2. CurFits(files', g)
    BY <1>1, <1>4, <1>7, <1>8 DEF CurFits
  <2>3. InHand(g) = InHand(f)
    BY <1>1, <1>7, <1>8 DEF InHand
  <2>4. Sound(files, Path \ InHand(f))
    BY <1>2 DEF CommitFits
  <2> QED BY <1>1, <1>6, <1>8, <2>1, <2>2, <2>3, <2>4 DEF Carried
<1>10. CommitFits(files', g)
  BY <1>2, <1>9, SameStack
<1>11. CommitFindsChildren'
  BY <1>1, ChildrenStay
<1> QED BY <1>1, <1>10, <1>11, CommitKeeps DEF f, g, c, new

(* The file of what has been persisted goes: no tree that is still to be   *)
(* persisted needs it, and those elsewhere never referred to it.           *)
LEMMA FileGoes ==
    ASSUME NEW S, NEW F \in [Node -> S], NEW f \in CommitFrames, CommitFits(F, f),
           f.cur # None, f.cur.step \in {"remove", "removeTree"}, f.stack # <<>>
    PROVE  CommitFits([F EXCEPT ![f.cur.ref.path] = None], [f EXCEPT !.cur = None])
<1> DEFINE s == f.stack
           m == Len(s)
           top == Last(s)
           q == f.cur.ref.path
           g == [f EXCEPT !.cur = None]
           G == [F EXCEPT ![q] = None]
<1>1. s \in Seq(Visits) /\ Chain(s, Root) /\ CurFits(F, f)
  BY DEF CommitFits, CommitFrames
<1>2. /\ m \in Nat /\ m # 0 /\ top = s[m]
      /\ \A k \in 1..m : s[k].path \in Seq(Name) /\ Len(s[k].path) = k - 1
  BY <1>1, StackPaths
<1>3. m \in 1..m
  <2> HIDE DEF m
  <2> QED BY <1>2
<1>4. PICK n0 \in Name \ top.todo : q = Append(top.path, n0)
  BY <1>1 DEF CurFits, TurnedTo
<1>5. g.op = f.op /\ g.stack = s /\ g.made = f.made /\ g.done = f.done /\ g.cur = None
  BY DEF CommitFrames
<1>6. \A r \in Node : r # q => G[r] = F[r]
  OBVIOUS
<1>7. q \in Node => G[q] = None
  OBVIOUS
<1> HIDE DEF g, G
<1>8. ASSUME NEW k \in 1..m, NEW n \in TransientNames(s[k].tree)
      PROVE  /\ n \in s[k].todo /\ Lies(F, Append(s[k].path, n)) => Lies(G, Append(s[k].path, n))
             /\ n \notin s[k].todo /\ (Recorded(f, s[k], n) \/ AtHand(f, k, n))
                   => Recorded(g, s[k], n) \/ AtHand(g, k, n)
  <2>1. AtHand(f, k, n) => AtHand(g, k, n)
    BY <1>5 DEF AtHand
  <2>2. Recorded(f, s[k], n) <=> Recorded(g, s[k], n)
    BY <1>5 DEF Recorded
  <2>3. ASSUME n \in s[k].todo
        PROVE  Append(s[k].path, n) # q
    <3> DEFINE a == s[k].path
               b == top.path
    <3>1. a \in Seq(Name) /\ b \in Seq(Name) /\ n \in Name /\ n0 \in Name
          /\ Len(a) = k - 1 /\ Len(b) = m - 1
      BY <1>2, <1>3 DEF TransientNames
    <3> SUFFICES ASSUME Append(a, n) = Append(b, n0) PROVE FALSE
      BY <1>4
    <3> HIDE DEF a, b
    <3>2. a = b /\ n = n0
      BY ONLY <3>1, Append(a, n) = Append(b, n0), Segments
    <3>3. k = m
      <4>1. k - 1 = m - 1
        BY <3>1, <3>2
      <4> HIDE DEF m
      <4> QED BY <1>2, <4>1
    <3> QED BY <1>2, <1>4, <2>3, <3>2, <3>3
  <2>4. n \in s[k].todo /\ Lies(F, Append(s[k].path, n)) => Lies(G, Append(s[k].path, n))
    BY <1>6, <2>3 DEF Lies
  <2> QED BY <2>1, <2>2, <2>4
<1>9. Sound(G, Path \ InHand(g))
  <2>1. Sound(F, Path \ InHand(f))
    BY DEF CommitFits
  <2>2. InHand(g) = Places(s)
    BY <1>5 DEF InHand
  <2>3. InHand(f) \subseteq Places(s) \union {q}
    BY DEF InHand
  <2>4. top.path \in Places(s) /\ top.path \in Seq(Name)
    BY <1>2, <1>3 DEF Places
  <2> HIDE DEF s, q
  <2> SUFFICES ASSUME NEW r \in Path \ Places(s), IsTree(G[r]), NEW n \in TransientNames(G[r])
               PROVE  G[r].refs[n].path = Append(r, n) /\ Lies(G, Append(r, n))
    BY <2>2 DEF Sound, Fits
  <2>5. r \in Node /\ r \in Seq(Name) /\ n \in Name
    BY PathLength DEF TransientNames
  <2>6. r # q
    BY <1>7, <2>5 DEF IsTree, None
  <2>7. G[r] = F[r] /\ r \in Path \ InHand(f)
    BY <1>6, <2>3, <2>5, <2>6
  <2>8. G[r].refs[n].path = Append(r, n) /\ Lies(F, Append(r, n))
    BY <2>1, <2>7 DEF Sound, Fits
  <2>9. Append(r, n) # q
    <3> SUFFICES ASSUME Append(r, n) = q PROVE FALSE
      OBVIOUS
    <3> DEFINE b == top.path
    <3>1. b \in Seq(Name) /\ Append(r, n) = Append(b, n0) /\ n0 \in Name
      BY <1>4, <2>4 DEF q
    <3> HIDE DEF b
    <3>2. r = b
      BY ONLY <2>5, <3>1, Segments
    <3> QED BY <2>4, <3>2 DEF b
  <2> QED BY <1>6, <2>8, <2>9 DEF Lies
<1>10. CurFits(G, g) /\ \A e \in g.done : e.id # None
  BY <1>5 DEF CurFits, CommitFits
<1>11. Carried(F, G, f, g)
  BY <1>5, <1>8, <1>9, <1>10 DEF Carried
<1>12. CommitFits(G, g)
  BY <1>11, SameStack
<1> QED BY <1>12 DEF G, g

(* RemovePersisted: the entity's file goes. *)
LEMMA RemovePersistedKeeps ==
    ASSUME IInv, ChildInv, Alone', NEW h \in Handle, RemovePersisted(h)
    PROVE  ChildInv'
<1> DEFINE f == Top(h)
           g == [f EXCEPT !.cur = None]
<1>1. /\ Running(h, "commit") /\ f.cur # None /\ f.cur.step = "remove" /\ Continue(h, g)
      /\ files' = [files EXCEPT ![f.cur.ref.path] = None]
      /\ UNCHANGED trees /\ UNCHANGED failed /\ UNCHANGED mem
  BY DEF RemovePersisted, FilesWithout, store
<1>2. CommitFits(files, f) /\ f \in CommitFrames
  BY <1>1, CommitAlone
<1>3. files \in [Node -> Trees(Objects) \union Entities(datas) \union {None}]
  BY DEF IInv, TypeOK
<1>4. f.stack # <<>>
  BY <1>1, <1>2 DEF CommitFits, CurFits
<1> HIDE DEF f
<1>5. CommitFits(files', g)
  BY <1>1, <1>2, <1>3, <1>4, FileGoes
<1>6. CommitFindsChildren'
  BY <1>1, ChildrenStay
<1> QED BY <1>1, <1>5, <1>6, CommitKeeps DEF f

(* RemovePersistedTree: the root's file stays. *)
LEMMA RemovePersistedTreeKeeps ==
    ASSUME IInv, ChildInv, Alone', NEW h \in Handle, RemovePersistedTree(h)
    PROVE  ChildInv'
<1> DEFINE f == Top(h)
           g == [f EXCEPT !.cur = None]
<1>1. /\ Running(h, "commit") /\ f.cur # None /\ f.cur.step = "removeTree" /\ Continue(h, g)
      /\ files' = IF IsPathRef(f.cur.ref) THEN [files EXCEPT ![f.cur.ref.path] = None] ELSE files
      /\ UNCHANGED trees /\ UNCHANGED failed /\ UNCHANGED mem
  BY DEF RemovePersistedTree, FilesWithout, store
<1>2. CommitFits(files, f) /\ f \in CommitFrames
  BY <1>1, CommitAlone
<1>3. files \in [Node -> Trees(Objects) \union Entities(datas) \union {None}]
  BY DEF IInv, TypeOK
<1>4. IsPathRef(f.cur.ref) <=> f.stack # <<>>
  BY <1>1, <1>2 DEF CommitFits, CurFits
<1> HIDE DEF f
<1>5. CommitFits(files', g)
  <2>1. CASE f.stack # <<>>
    BY <1>1, <1>2, <1>3, <1>4, <2>1, FileGoes
  <2>2. CASE f.stack = <<>>
    <3>1. g.op = f.op /\ g.stack = f.stack /\ g.made = f.made /\ g.done = f.done /\ g.cur = None
      BY <1>2 DEF CommitFrames
    <3>2. files' = files
      BY <1>1, <1>4, <2>2
    <3>3. InHand(g) = InHand(f)
      BY <1>4, <2>2, <3>1 DEF InHand
    <3>4. Len(f.stack) = 0
      BY <2>2
    <3> HIDE DEF g
    <3> QED BY <1>2, <3>1, <3>2, <3>3, <3>4 DEF CommitFits, CurFits
  <2> QED BY <2>1, <2>2
<1>6. CommitFindsChildren'
  BY <1>1, ChildrenStay
<1> QED BY <1>1, <1>5, <1>6, CommitKeeps DEF f

(* When all children of a tree have been visited, all are recorded. *)
LEMMA AllRecorded ==
    ASSUME IInv, ChildInv, NEW h \in Handle, TreeIsDone(h)
    PROVE  Unrecorded(Top(h)) = {}
<1> DEFINE f == Top(h)
           top == Last(f.stack)
<1>1. Searching(h) /\ top.todo = {}
  BY DEF TreeIsDone
<1>2. \A j \in TransientNames(top.tree) :
         top.tree.refs[j].path = Append(top.path, j) /\ Recorded(f, top, j)
  <2> DEFINE s == f.stack
             m == Len(s)
  <2>1. /\ m \in Nat \ {0} /\ m \in 1..m /\ top = s[m]
        /\ \A k \in 1..m : \A j \in TransientNames(s[k].tree) :
              /\ s[k].tree.refs[j].path = Append(s[k].path, j)
              /\ j \notin s[k].todo => \/ Recorded(f, s[k], j)
                                       \/ k < m /\ s[k + 1].path = Append(s[k].path, j)
    BY <1>1, SearchingFits
  <2>2. m \in Nat
    BY <2>1
  <2> HIDE DEF m, s, f
  <2>3. ~(m < m)
    BY <2>2
  <2> QED BY <1>1, <2>1, <2>3
<1> QED BY <1>2 DEF Unrecorded, Recorded

(* PersistTree: what it puts into the store names no file. *)
LEMMA FormIsStored ==
    ASSUME IInv, ChildInv, NEW h \in Handle, TreeIsDone(h)
    PROVE  LET tree == PersistentForm(Top(h))
           IN  tree # None /\ TransientNames(tree) = {}
<1> DEFINE f == Top(h)
           tree == Last(f.stack).tree
           to == [n \in Name |-> IF n \in TransientNames(tree)
                                 THEN IdRef(IdOf(f.done, tree.refs[n].path))
                                 ELSE tree.refs[n]]
<1>1. PersistentForm(f) = TreeObj(to)
  BY AllRecorded DEF PersistentForm
<1>2. \A n \in Name : ~IsPathRef(to[n])
  <2> SUFFICES ASSUME NEW n \in Name PROVE ~IsPathRef(to[n])
    OBVIOUS
  <2>1. CASE n \in TransientNames(tree)
    BY <2>1 DEF IdRef, IsPathRef
  <2>2. CASE n \notin TransientNames(tree)
    BY <2>2 DEF TransientNames
  <2> QED BY <2>1, <2>2
<1> HIDE DEF to
<1> QED BY <1>1, <1>2 DEF TreeObj, TransientNames, None

(* The tree is recorded when it leaves the stack. *)
LEMMA PersistTreeKeeps ==
    ASSUME IInv, ChildInv, Alone', NEW h \in Handle, PersistTree(h)
    PROVE  ChildInv'
<1> DEFINE f == Top(h)
           s == f.stack
           m == Len(s)
           w == Front(s)
           top == Last(s)
           tree == PersistentForm(f)
           e == Entry(top.path, tree)
           c == [step |-> "removeTree", ref |-> top.ref]
           new == Record(f.done, {e})
           g == [f EXCEPT !.cur = c, !.done = Record(Record(@, EmptyIds(f)), {e}), !.stack = w]
<1>1. /\ TreeIsDone(h) /\ Searching(h)
      /\ trees' = trees \union {tree}
      /\ Continue(h, g)
      /\ UNCHANGED files /\ UNCHANGED mem /\ UNCHANGED failed
  BY DEF PersistTree, TreeIsDone, transient
<1>2. /\ Running(h, "commit") /\ CommitFits(files, f) /\ f \in CommitFrames
      /\ f.cur = None /\ f.made = 0 /\ s \in Seq(Visits) /\ s # <<>>
      /\ m \in Nat \ {0} /\ m \in 1..m /\ top = s[m] /\ Chain(s, Root)
      /\ \A k \in 1..m : s[k] \in Visits /\ s[k].path \in Seq(Name)
      /\ \A k \in 1..m : \A j \in TransientNames(s[k].tree) :
            /\ s[k].tree.refs[j].path = Append(s[k].path, j)
            /\ j \in s[k].todo => Lies(files, Append(s[k].path, j))
            /\ j \notin s[k].todo => \/ Recorded(f, s[k], j)
                                     \/ k < m /\ s[k + 1].path = Append(s[k].path, j)
      /\ InHand(f) = Places(s)
  BY <1>1, SearchingFits
<1>3. tree # None /\ TransientNames(tree) = {}
  BY <1>1, FormIsStored
<1>4. Record(f.done, EmptyIds(f)) = f.done
  <2>1. EmptyIds(f) = {}
    BY <1>1, AllRecorded DEF EmptyIds
  <2> QED BY <2>1 DEF Record
<1> HIDE DEF tree
<1>5. /\ f.op = "commit" /\ \A x \in f.done : x.id # None
      /\ \A k \in 1..m : /\ k < m => TurnedTo(s[k], s[k + 1].path)
                         /\ IF k = 1 THEN s[k].ref = None
                            ELSE IsPathRef(s[k].ref) /\ s[k].ref.path = s[k].path
      /\ Sound(files, Path \ Places(s))
  BY <1>2 DEF CommitFits
<1>6. /\ \A x \in new : x.id # None
      /\ \A p : IdOf(f.done, p) # None => IdOf(new, p) # None
      /\ IdOf(new, top.path) # None
  <2>1. e.id # None /\ e.path = top.path
    BY <1>3 DEF Entry
  <2> DEFINE done == f.done
             one == {e}
  <2>2. \A x \in done \union one : x.id # None
    BY <1>5, <2>1
  <2>3. e \in one /\ new = Record(done, one)
    OBVIOUS
  <2> HIDE DEF done, one, e, new
  <2>4. /\ \A x \in Record(done, one) : x.id # None
        /\ \A p : IdOf(done, p) # None => IdOf(Record(done, one), p) # None
        /\ \A x \in one : IdOf(Record(done, one), x.path) # None
    BY ONLY <2>2, RecordsStay
  <2> QED BY <2>1, <2>3, <2>4 DEF done
<1>7. c.step = "removeTree" /\ c.ref = top.ref /\ c # None
  BY DEF None
<1>8. g.op = "commit" /\ g.stack = w /\ g.cur = c /\ g.done = new /\ g.made = 0
  <2> HIDE DEF e, c, w
  <2>1. g = [f EXCEPT !.cur = c, !.done = Record(Record(f.done, EmptyIds(f)), {e}), !.stack = w]
    BY <1>2 DEF CommitFrames
  <2>2. g = [f EXCEPT !.cur = c, !.done = new, !.stack = w]
    BY <1>4, <2>1
  <2> HIDE DEF g, new
  <2> QED BY <1>2, <1>5, <2>2 DEF CommitFrames
<1>9. /\ Chain(w, Root) /\ Len(w) = m - 1
      /\ \A k \in 1..(m - 1) : w[k] = s[k]
      /\ Places(s) = Places(w) \union {top.path}
      /\ w # <<>> => Last(w) = s[m - 1]
  <2>1. Root \in Seq(Name) /\ top.path \in Seq(Name)
    BY <1>2, EmptySeq DEF Root
  <2> HIDE DEF f
  <2> QED BY <1>2, <2>1, ChainShrinks
<1>10. top \in Visits
  BY <1>2
<1> HIDE DEF f, g, new, c, e, s, w, top, m
<1>11. \A k \in 1..(m - 1) : k \in 1..m /\ k < m /\ k + 1 \in 1..m
  BY <1>2
<1>12. w # <<>> <=> m # 1
  <2>1. w = <<>> => m - 1 = 0
    BY <1>9
  <2>2. w # <<>> => m - 1 # 0
    <3>1. w \in Seq(Visits)
      BY <1>2, Ends DEF w
    <3>2. Len(w) = 0 => w = <<>>
      BY <3>1, EmptySeq
    <3> QED BY <1>9, <3>2
  <2> QED BY <1>2, <2>1, <2>2
<1>13. ASSUME NEW k \in 1..(m - 1)
       PROVE  VisitFits(files, g, k)
  <2> SUFFICES ASSUME NEW j \in TransientNames(s[k].tree)
               PROVE  /\ s[k].tree.refs[j].path = Append(s[k].path, j)
                      /\ j \in s[k].todo => Lies(files, Append(s[k].path, j))
                      /\ j \notin s[k].todo => Recorded(g, s[k], j) \/ AtHand(g, k, j)
    BY <1>8, <1>9 DEF VisitFits
  <2>1. Recorded(f, s[k], j) => Recorded(g, s[k], j)
    BY <1>6, <1>8 DEF Recorded
  <2>2. ASSUME s[k + 1].path = Append(s[k].path, j)
        PROVE  Recorded(g, s[k], j) \/ AtHand(g, k, j)
    <3>1. CASE k + 1 = m
      BY <1>2, <1>6, <1>8, <2>2, <3>1 DEF Recorded
    <3>2. CASE k + 1 # m
      <4>1. k + 1 \in 1..(m - 1) /\ k < m - 1
        BY <1>2, <3>2
      <4> QED BY <1>8, <1>9, <2>2, <4>1 DEF AtHand
    <3> QED BY <3>1, <3>2
  <2> QED BY <1>2, <1>11, <2>1, <2>2
<1>14. ASSUME NEW k \in 1..(m - 1), k < m - 1
       PROVE  TurnedTo(w[k], w[k + 1].path)
  <2>1. k + 1 \in 1..(m - 1)
    BY <1>2, <1>14
  <2> QED BY <1>5, <1>9, <1>11, <2>1
<1>15. \A k \in 1..(m - 1) : IF k = 1 THEN w[k].ref = None
                             ELSE IsPathRef(w[k].ref) /\ w[k].ref.path = w[k].path
  BY <1>5, <1>9, <1>11
<1>16. /\ m = 1 => top.ref = None /\ top.path = Root
       /\ m # 1 => IsPathRef(top.ref) /\ top.ref.path = top.path
  BY <1>2, <1>5 DEF Chain
<1>17. CurFits(files, g)
  <2>1. ASSUME w # <<>>
        PROVE  TurnedTo(Last(w), c.ref.path)
    <3>1. m - 1 \in 1..(m - 1) /\ m - 1 + 1 = m
      BY <1>2, <1>12, <2>1
    <3>2. TurnedTo(s[m - 1], s[m - 1 + 1].path)
      BY <1>5, <1>11, <3>1
    <3> QED BY <1>2, <1>7, <1>9, <1>12, <1>16, <2>1, <3>1, <3>2
  <2>2. IsPathRef(c.ref) <=> w # <<>>
    BY <1>7, <1>12, <1>16 DEF IsPathRef, None
  <2> QED BY <1>7, <1>8, <2>1, <2>2 DEF CurFits
<1>18. Sound(files, Path \ InHand(g))
  <2>1. m # 1 => top.path \in InHand(g)
    <3>1. top.path \in Node
      BY <1>10 DEF Visits
    <3> QED BY <1>7, <1>8, <1>16, <3>1 DEF InHand
  <2>2. Places(w) \subseteq InHand(g)
    BY <1>8 DEF InHand
  <2>3. Root \notin Path
    BY PathLength
  <2>4. Path \ InHand(g) \subseteq Path \ Places(s)
    BY <1>9, <1>16, <2>1, <2>2, <2>3
  <2> QED BY <1>5, <2>4 DEF Sound
<1>19. CommitFits(files', g)
  BY <1>1, <1>6, <1>8, <1>9, <1>13, <1>14, <1>15, <1>17, <1>18 DEF CommitFits
<1>20. CommitFindsChildren'
  BY <1>1, <1>3 DEF ChildInv, CommitFindsChildren
<1> QED BY <1>1, <1>2, <1>19, <1>20, CommitKeeps DEF f, g, c, new, e, s, w, top, m

(* CreateCommit: nothing is left to visit. *)
LEMMA CreateCommitKeeps ==
    ASSUME IInv, ChildInv, Alone', NEW h \in Handle, CreateCommit(h)
    PROVE  ChildInv'
<1> DEFINE f == Top(h)
           g == [f EXCEPT !.made = Len(commits) + 1]
<1>1. /\ Running(h, "commit") /\ f.cur = None /\ f.stack = <<>> /\ Continue(h, g)
      /\ UNCHANGED files /\ UNCHANGED trees /\ UNCHANGED failed /\ UNCHANGED mem
  BY DEF CreateCommit, transient
<1>2. CommitFits(files, f) /\ f \in CommitFrames
  BY <1>1, CommitAlone
<1>3. g.op = f.op /\ g.stack = f.stack /\ g.done = f.done /\ g.cur = None
  BY <1>1, <1>2 DEF CommitFrames
<1>4. Len(f.stack) = 0
  BY <1>1
<1> HIDE DEF g, f
<1>5. CommitFits(files', g)
  <2>1. InHand(g) = InHand(f)
    BY <1>1, <1>3 DEF InHand
  <2> QED BY <1>1, <1>2, <1>3, <1>4, <2>1 DEF CommitFits, CurFits
<1>6. CommitFindsChildren'
  BY <1>1, ChildrenStay
<1> QED BY <1>1, <1>5, <1>6, CommitKeeps DEF f

(* EndCommit: the workspace names a commit's root, or none. *)
LEMMA EndCommitKeeps ==
    ASSUME IInv, ChildInv, Alone', NEW h \in Handle, EndCommit(h)
    PROVE  ChildInv'
<1> DEFINE f == Top(h)
           root == commits[f.made].root
           ws == [parent |-> f.made, root |-> IF root = None THEN None ELSE IdRef(root),
                  tracked |-> {}]
<1>1. /\ Running(h, "commit") /\ f.made # 0
      /\ disk' = ws /\ mem' = [mem EXCEPT ![h] = disk'] /\ Return(h)
      /\ UNCHANGED files /\ UNCHANGED trees /\ UNCHANGED failed
  BY DEF EndCommit, store, transient
<1>2. CommitFits(files, f) /\ mem[h] # None /\ Tail(calls[h]) = <<>>
  BY <1>1, CommitAlone
<1>3. f.cur = None /\ f.stack = <<>>
  BY <1>1, <1>2 DEF CommitFits
<1> HIDE DEF f, root
<1>4. InHand(f) = {}
  BY <1>3 DEF InHand, Places
<1>5. Sound(files, Path)
  BY <1>2, <1>4 DEF CommitFits
<1>6. ws # None /\ ws.root # RootRef
  BY DEF None, RootRef, PathRef, IdRef
<1> HIDE DEF ws
<1>7. AtRestFits(files', disk')
  BY <1>1, <1>5, <1>6 DEF AtRestFits
<1>8. /\ mem'[h] = disk' /\ \A k \in Handle \ {h} : mem'[k] = mem[k]
      /\ calls' = [calls EXCEPT ![h] = <<>>]
  <2>1. mem' = [mem EXCEPT ![h] = ws] /\ mem \in [Handle -> WorkspaceObjs(trees, Len(commits)) \union {None}]
    BY <1>1 DEF IInv, TypeOK
  <2>2. mem'[h] = ws /\ \A k \in Handle \ {h} : mem'[k] = mem[k]
    BY <2>1
  <2> QED BY <1>1, <1>2, <2>2 DEF Return
<1>9. CommitFindsChildren'
  BY <1>1, ChildrenStay
<1> QED BY <1>1, <1>2, <1>6, <1>7, <1>8, <1>9, CallEnds

(* BeginCommit: the root's tree fits. *)
LEMMA BeginCommitKeeps ==
    ASSUME IInv, ChildInv, Alone', NEW h \in Handle, BeginCommit(h)
    PROVE  ChildInv'
<1> DEFINE root == mem[h].root
           tree == TreeOf(root)
           v == Visit(Root, None, tree)
           s == IF root = None THEN <<>> ELSE <<v>>
           f == [op |-> "commit", stack |-> s, cur |-> None, done |-> {}, made |-> 0]
<1>1. /\ Idle(h) /\ mem[h] # None
      /\ calls' = [calls EXCEPT ![h] = <<f>>]
      /\ UNCHANGED files /\ UNCHANGED trees /\ UNCHANGED failed /\ UNCHANGED mem
  BY DEF BeginCommit, Idle, store, transient
<1>2. Sound(files, Path) /\ (root # None => Fits(files, Root, tree))
  BY <1>1, RestingFits
<1>3. v.path = Root /\ v.ref = None /\ v.tree = tree /\ v.todo = TransientNames(tree)
  BY DEF Visit
<1>4. f.op = "commit" /\ f.stack = s /\ f.cur = None /\ f.done = {} /\ f.made = 0
  OBVIOUS
<1> HIDE DEF v, f
<1>5. Chain(s, Root)
  <2>1. Chain(<<v>>, Root)
    <3>1. v.path \in Seq(Name)
      BY <1>3, EmptySeq DEF Root
    <3> QED BY <1>3, <3>1, ChainBegins
  <2> QED BY <2>1 DEF Chain
<1>6. \A k \in 1..Len(s) : Len(s) = 1 /\ k = 1 /\ s[k] = v /\ root # None
  OBVIOUS
<1> HIDE DEF s, root, tree
<1>7. ASSUME NEW k \in 1..Len(s)
      PROVE  VisitFits(files, f, k)
  BY <1>2, <1>3, <1>4, <1>6 DEF VisitFits, Fits
<1>8. CommitFits(files', f)
  <2>1. Sound(files, Path \ InHand(f))
    BY <1>2 DEF Sound
  <2>2. CurFits(files, f)
    BY <1>4 DEF CurFits
  <2>3. \A k \in 1..Len(s) : ~(k < Len(s)) /\ k = 1 /\ s[k].ref = None
    BY <1>3, <1>6
  <2> QED BY <1>1, <1>4, <1>5, <1>7, <2>1, <2>2, <2>3 DEF CommitFits
<1>9. CallFits(files', <<f>>)
  BY <1>8 DEF CallFits
<1>10. CommitFindsChildren'
  BY <1>1, ChildrenStay
<1> QED BY <1>1, <1>9, <1>10, CallGoesOn

-----------------------------------------------------------------------------
(* What the clients do keeps it.                                           *)

(* CreateWorkspace, OpenWorkspace: a handle is opened on the workspace. *)
LEMMA OpeningKeeps ==
    ASSUME IInv, ChildInv, Alone', NEW h \in Handle,
           \/ \E parent \in 0..Len(commits) : CreateWorkspace(h, parent)
           \/ OpenWorkspace(h)
    PROVE  ChildInv'
<1>1. /\ mem[h] = None /\ disk' # None /\ mem' = [mem EXCEPT ![h] = disk']
      /\ UNCHANGED files /\ UNCHANGED trees /\ UNCHANGED failed /\ UNCHANGED calls
      /\ disk' = disk \/ disk'.root = None
  BY DEF CreateWorkspace, OpenWorkspace, store, transient, None
<1>2. mem'[h] = disk' /\ \A g \in Handle \ {h} : mem'[g] = mem[g]
  BY <1>1 DEF IInv, TypeOK
<1>3. \A g \in Handle \ {h} : mem[g] = None
  BY <1>1, <1>2 DEF Alone
<1>4. \A g \in Handle : calls[g] = <<>>
  BY <1>1, <1>3 DEF IInv, RootInv, InCall
<1>5. AtRestFits(files, disk)
  BY <1>4 DEF ChildInv
<1>6. AtRestFits(files', disk')
  <2>1. None # RootRef
    BY DEF None, RootRef, PathRef
  <2>2. Sound(files, Path)
    BY <1>5 DEF AtRestFits, Sound, Node
  <2> QED BY <1>1, <1>5, <2>1, <2>2 DEF AtRestFits
<1>7. CommitFindsChildren'
  BY <1>1, ChildrenStay
<1> QED BY <1>1, <1>2, <1>3, <1>4, <1>6, <1>7 DEF ChildInv

(* CloseWorkspace: a handle less. *)
LEMMA ClosingKeeps ==
    ASSUME IInv, ChildInv, Alone', NEW h \in Handle, CloseWorkspace(h)
    PROVE  ChildInv'
<1>1. /\ mem' = [mem EXCEPT ![h] = None]
      /\ UNCHANGED <<files, trees, failed, calls, disk>>
  BY DEF CloseWorkspace, store, transient
<1>2. \A g \in Handle : mem'[g] \in {None, mem[g]}
  BY <1>1 DEF IInv, TypeOK
<1>3. CommitFindsChildren'
  BY <1>1, ChildrenStay
<1> QED BY <1>1, <1>2, <1>3 DEF ChildInv

(* DeleteWorkspaceForced: no workspace names the files any more. *)
LEMMA DroppingKeeps ==
    ASSUME IInv, ChildInv, Alone', DeleteWorkspaceForced, \A h \in Handle : mem[h] = None
    PROVE  ChildInv'
<1>1. /\ disk' = None /\ \A h \in Handle : mem[h] = None
      /\ UNCHANGED <<files, trees, failed, calls, mem>>
  BY DEF DeleteWorkspaceForced, store, transient
<1>2. \A g \in Handle : calls[g] = <<>>
  BY <1>1 DEF IInv, RootInv, InCall
<1>3. AtRestFits(files', disk')
  <2>1. AtRestFits(files, disk)
    BY <1>2 DEF ChildInv
  <2> QED BY <1>1, <2>1 DEF AtRestFits, Sound, Node
<1>4. CommitFindsChildren'
  BY <1>1, ChildrenStay
<1> QED BY <1>1, <1>2, <1>3, <1>4 DEF ChildInv

(* WriteData changes nothing but an entity's data. *)
LEMMA SameKeeps ==
    ASSUME ChildInv, UNCHANGED <<files, trees, failed, calls, mem, disk>>
    PROVE  ChildInv'
<1>1. CommitFindsChildren'
  BY ChildrenStay
<1> QED BY <1>1 DEF ChildInv, Alone

(* Nothing is there to begin with. *)
LEMMA InitChildInv == Init => ChildInv
<1> SUFFICES ASSUME Init PROVE ChildInv
  OBVIOUS
<1>1. /\ trees = {} /\ files = [q \in Node |-> None] /\ failed = {} /\ disk = None
      /\ mem = [h \in Handle |-> None] /\ calls = [h \in Handle |-> <<>>]
  BY DEF Init, NothingYet
<1>2. AtRestFits(files, disk)
  BY <1>1 DEF AtRestFits, Sound, IsTree, None, Node
<1>3. CommitFindsChildren
  BY <1>1 DEF CommitFindsChildren
<1> QED BY <1>1, <1>2, <1>3 DEF ChildInv, Alone

-----------------------------------------------------------------------------
(* Every step keeps it, but for the assertion of line 333.                 *)

(* createPath, *)
LEMMA PathStepFits ==
    ASSUME IInv, ChildInv, Undisturbed, NEW h \in Handle, PathStep(h)
    PROVE  333 \in failed' \/ ChildInv'
<1>0. Alone'
  BY DEF Undisturbed
<1>1. CASE Descend(h)
  BY <1>0, <1>1, DescendKeeps
<1>2. CASE BlockedBelowEntity(h)
  <2>1. Len(calls[h]) > 1
    BY <1>2 DEF Undisturbed
  <2> QED BY <1>0, <1>2, <2>1, BlockedKeeps
<1>3. CASE SegUntracked(h)
  BY <1>3 DEF SegUntracked, Abort
<1>4. CASE StoreLeaf(h)
  BY <1>0, <1>4, StoreLeafKeeps
<1>5. CASE DeleteEntityLeaf(h)
  BY <1>0, <1>5, DeleteEntityLeafKeeps
<1>6. CASE DeleteTreeLeaf(h)
  BY <1>0, <1>6, DeleteTreeLeafKeeps
<1>7. CASE StoreTreeOfPath(h)
  BY <1>0, <1>7, StoreTreeOfPathKeeps
<1>8. CASE StoreRoot(h)
  BY <1>0, <1>8, StoreRootKeeps
<1>9. CASE SaveWorkspace(h)
  BY <1>0, <1>9, SaveWorkspaceKeeps
<1> QED BY <1>1, <1>2, <1>3, <1>4, <1>5, <1>6, <1>7, <1>8, <1>9 DEF PathStep

(* deleteObject<Tree>, *)
LEMMA RemoveStepFits ==
    ASSUME IInv, ChildInv, Undisturbed, NEW h \in Handle, RemoveStep(h)
    PROVE  ChildInv'
<1>0. Alone'
  BY DEF Undisturbed
<1>1. CASE \E n \in Name : RemoveChild(h, n)
  BY <1>0, <1>1, RemoveChildKeeps
<1>2. CASE RemoveTree(h)
  BY <1>0, <1>2, RemoveTreeKeeps
<1>3. CASE RemoveEnds(h)
  BY <1>0, <1>3, RemoveEndsKeeps
<1> QED BY <1>1, <1>2, <1>3 DEF RemoveStep

(* commit, *)
LEMMA CommitStepFits ==
    ASSUME IInv, ChildInv, Undisturbed, NEW h \in Handle, CommitStep(h)
    PROVE  ChildInv'
<1>0. Alone'
  BY DEF Undisturbed
<1>1. CASE \E n \in Name : CommitChild(h, n)
  BY <1>0, <1>1, CommitChildKeeps
<1>2. CASE PersistData(h)
  BY <1>0, <1>2, PersistDataKeeps
<1>3. CASE ReadEmptyData(h)
  BY <1>3, SameKeeps DEF ReadEmptyData, vars, store, transient
<1>4. CASE PersistEntity(h)
  BY <1>0, <1>4, PersistEntityKeeps
<1>5. CASE RemovePersisted(h)
  BY <1>0, <1>5, RemovePersistedKeeps
<1>6. CASE CommitUnrecorded(h)
  BY <1>6, AllRecorded DEF CommitUnrecorded
<1>7. CASE PersistTree(h)
  BY <1>0, <1>7, PersistTreeKeeps
<1>8. CASE RemovePersistedTree(h)
  BY <1>0, <1>8, RemovePersistedTreeKeeps
<1>9. CASE CreateCommit(h)
  BY <1>0, <1>9, CreateCommitKeeps
<1>10. CASE EndCommit(h)
  BY <1>0, <1>10, EndCommitKeeps
<1> QED BY <1>1, <1>2, <1>3, <1>4, <1>5, <1>6, <1>7, <1>8, <1>9, <1>10 DEF CommitStep

(* the clients, *)
LEMMA ClientStepFits ==
    ASSUME IInv, ChildInv, Undisturbed, NEW h \in Handle, ClientStep(h)
    PROVE  ChildInv'
<1>0. Alone'
  BY DEF Undisturbed
<1>1. CASE (\E parent \in 0..Len(commits) : CreateWorkspace(h, parent)) \/ OpenWorkspace(h)
  BY <1>0, <1>1, OpeningKeeps
<1>2. CASE CloseWorkspace(h)
  BY <1>0, <1>2, ClosingKeeps
<1>3. CASE \E p \in Path, d \in Data : WriteData(h, p, d)
  BY <1>3, SameKeeps DEF WriteData, store
<1>4. CASE BeginCommit(h)
  BY <1>0, <1>4, BeginCommitKeeps
<1>5. ASSUME NEW op \in PathOps, NEW p \in Path, NEW leaf,
             Idle(h), EnterPath(h, op, p, leaf, <<>>),
             UNCHANGED <<store, transient, disk, failed, crashes>>
      PROVE  ChildInv'
  BY <1>0, <1>5, EnterKeeps
<1>6. {"store", "deleteEntity", "deleteTree"} \subseteq PathOps
  BY DEF PathOps
<1>7. CASE \E p \in Path, m \in Meta : StoreEntity(h, p, m)
  BY <1>5, <1>6, <1>7 DEF StoreEntity
<1>8. CASE \E p \in Path, m \in Meta : EditEntity(h, p, m)
  BY <1>5, <1>6, <1>8 DEF EditEntity
<1>9. CASE \E p \in Path : DeleteEntity(h, p)
  BY <1>5, <1>6, <1>9 DEF DeleteEntity
<1>10. CASE \E p \in Path : DeleteTree(h, p)
  BY <1>5, <1>6, <1>10 DEF DeleteTree
<1> QED BY <1>1, <1>2, <1>3, <1>4, <1>7, <1>8, <1>9, <1>10 DEF ClientStep

(* and whatever else there is. *)
LEMMA NextFits ==
    ASSUME IInv, ChildInv, [Next /\ Undisturbed]_vars
    PROVE  333 \in failed' \/ ChildInv'
<1>1. CASE UNCHANGED vars
  BY <1>1, SameKeeps DEF vars, store, transient
<1>2. ASSUME Undisturbed, NEW h \in Handle, CallStep(h)
      PROVE  333 \in failed' \/ ChildInv'
  BY <1>2, PathStepFits, RemoveStepFits, CommitStepFits DEF CallStep
<1>3. ASSUME Undisturbed, NEW h \in Handle, ClientStep(h)
      PROVE  ChildInv'
  BY <1>3, ClientStepFits
<1>4. ASSUME Undisturbed, NEW h \in Handle, Crash(h)
      PROVE  FALSE
  BY <1>4 DEF Crash, Undisturbed, IInv, TypeOK
<1>5. ASSUME Undisturbed, DeleteWorkspaceForced
      PROVE  ChildInv'
  BY <1>5, DroppingKeeps DEF Undisturbed
<1> QED BY <1>1, <1>2, <1>3, <1>4, <1>5 DEF Next

(* An assertion that has failed stays on record. *)
LEMMA FailuresStay ==
    ASSUME [Next]_vars
    PROVE  failed \subseteq failed'
<1>1. ASSUME NEW h \in Handle, PathStep(h)
      PROVE  failed \subseteq failed'
  BY <1>1 DEF PathStep, Descend, BlockedBelowEntity, SegUntracked, StoreLeaf, DeleteEntityLeaf,
       DeleteTreeLeaf, StoreTreeOfPath, StoreRoot, SaveWorkspace, Abort
<1>2. ASSUME NEW h \in Handle, RemoveStep(h)
      PROVE  failed \subseteq failed'
  BY <1>2 DEF RemoveStep, RemoveChild, RemoveTree, RemoveEnds
<1>3. ASSUME NEW h \in Handle, CommitStep(h)
      PROVE  failed \subseteq failed'
  BY <1>3 DEF CommitStep, CommitChild, PersistData, ReadEmptyData, PersistEntity, RemovePersisted,
       CommitUnrecorded, PersistTree, RemovePersistedTree, CreateCommit, EndCommit, Abort, vars
<1>4. ASSUME NEW h \in Handle, ClientStep(h)
      PROVE  failed \subseteq failed'
  BY <1>4 DEF ClientStep, CreateWorkspace, OpenWorkspace, CloseWorkspace, StoreEntity, EditEntity,
       WriteData, DeleteEntity, DeleteTree, BeginCommit
<1> QED BY <1>1, <1>2, <1>3, <1>4 DEF Next, CallStep, Crash, DeleteWorkspaceForced, vars

(* A commit of a process that has the workspace to itself, that no crash   *)
(* stops and no client's call has led past an entity, finds every child it *)
(* has to persist: the assertion of line 198 holds and no stored tree      *)
(* names a file of the workspace, for any paths, data and handles, unless  *)
(* the assertion of line 333 has ended a call halfway.                     *)
THEOREM CommitsAreWhole ==
    LoneSpec => [](333 \notin failed => CommitFindsChildren)
<1> DEFINE J == IInv /\ (333 \in failed \/ ChildInv)
<1>1. Init => J
  BY InitIInv, InitChildInv
<1>2. J /\ [Next /\ Undisturbed]_vars => J'
  <2> SUFFICES ASSUME J, [Next /\ Undisturbed]_vars PROVE J'
    OBVIOUS
  <2>1. [Next]_vars
    OBVIOUS
  <2>2. IInv'
    BY <2>1, NextIInv
  <2>3. CASE 333 \in failed
    BY <2>1, <2>2, <2>3, FailuresStay
  <2>4. CASE ChildInv
    BY <2>2, <2>4, NextFits
  <2> QED BY <2>3, <2>4
<1>3. J => (333 \notin failed => CommitFindsChildren)
  BY DEF ChildInv
<1> QED BY <1>1, <1>2, <1>3, PTL DEF LoneSpec

-----------------------------------------------------------------------------
(* What a call leaves when it returns.                                     *)

(* One process has the workspace open at a time, and no client's call      *)
(* comes to a segment that is no tree (workspaceimpl.h:350); such a call   *)
(* returns OK with nothing stored, and makes a tree of the path the root.  *)
(* Crashes, callers that do not look, and builds without assertions are    *)
(* not excluded.                                                           *)
Unblocked ==
    /\ Alone'
    /\ \A h \in Handle : BlockedBelowEntity(h) => Len(calls[h]) > 1

(* The workspace of one process at a time, whatever has happened before.   *)
AloneSpec == Init /\ [][Next /\ Unblocked]_vars

(* The reference that a walk leaves at segment i of its path. *)
Leaves(f, i) ==
    IF i < Len(f.path) THEN PathRef(Upto(f.path, i), TRUE)
    ELSE IF f.op = "store" THEN PathRef(f.path, FALSE) ELSE None

LinksTo(tree, f, i) == IsTree(tree) /\ tree.refs[f.path[i]] = Leaves(f, i)

(* From a tree of a walk that comes up one gets to the leaf. *)
Leads(F, f) ==
    /\ f.op \in PathOps /\ f.dir # "root"
    /\ f.op = "store" /\ f.dir # "down" => F[f.path] = f.leaf
    /\ f.dir = "up" => /\ LinksTo(f.trees[f.at + 1], f, f.at + 1)
                       /\ \A i \in (f.at + 2)..Len(f.path) : LinksTo(F[Upto(f.path, i - 1)], f, i)
    /\ f.dir = "save" => \A i \in 1..Len(f.path) : LinksTo(F[Upto(f.path, i - 1)], f, i)

(* A walk below which a search runs has written nothing yet. *)
Waits(u) ==
    /\ u.op \in {"deleteEntity", "deleteTree"}
    /\ u.dir = "up" /\ u.at + 1 = Len(u.path)
    /\ LinksTo(u.trees[Len(u.path)], u, Len(u.path))

CallLeads(F, s) ==
    \/ Len(s) = 1 /\ (s[1].op = "commit" \/ Leads(F, s[1]))
    \/ Len(s) > 1 /\ Waits(s[Len(s)])

(* Of the only call: the client's frame is the last one.  It is a commit,  *)
(* a walk that leads to its leaf, or a walk that waits for a search.       *)
LeadInv ==
    /\ Alone
    /\ \A h \in Handle : calls[h] # <<>> => CallLeads(files, calls[h])

-----------------------------------------------------------------------------
(* What a step does to the client's frame, the last one.                   *)

(* One handle's call changes, or ends. *)
LEMMA LeadsOn ==
    ASSUME IInv, LeadInv, Alone', NEW h \in Handle, mem[h] # None,
           NEW s, calls' = [calls EXCEPT ![h] = s], s = <<>> \/ CallLeads(files', s)
    PROVE  LeadInv'
<1>1. calls'[h] = s /\ \A g \in Handle \ {h} : calls'[g] = calls[g]
  BY DEF IInv, TypeOK
<1>2. \A g \in Handle \ {h} : calls'[g] = <<>>
  BY <1>1, Others DEF LeadInv
<1> QED BY <1>1, <1>2 DEF LeadInv

(* Its last frame is as it was while frames come and go on top. *)
LEMMA LastFrame ==
    ASSUME NEW s \in Seq(Frames), Len(s) > 1
    PROVE  /\ Tail(s) # <<>> /\ Len(Tail(s)) = Len(s) - 1
           /\ Tail(s)[Len(Tail(s))] = s[Len(s)]
           /\ \A x : LET t == <<x>> \o Tail(s)
                     IN  t # <<>> /\ Len(t) > 1 /\ t[Len(t)] = s[Len(s)]
           /\ \A x, y : LET t == <<x>> \o (<<y>> \o Tail(s))
                        IN  t # <<>> /\ Len(t) > 1 /\ t[Len(t)] = s[Len(s)]
<1>1. Len(s) \in Nat /\ s # <<>>
  <2>1. Len(s) \in Nat /\ (s = <<>> => Len(s) = 0)
    BY LenProperties, EmptySeq
  <2> QED BY <2>1
<1> DEFINE r == Tail(s)
<1>2. r \in Seq(Frames) /\ Len(r) = Len(s) - 1 /\ \A i \in 1..Len(r) : r[i] = s[i + 1]
  BY <1>1, Ends, BelowTop
<1> HIDE DEF r
<1>3. r # <<>> /\ r[Len(r)] = s[Len(s)]
  <2>1. Len(r) \in 1..Len(r) /\ Len(r) + 1 = Len(s) /\ Len(r) # 0
    BY <1>1, <1>2
  <2>2. r = <<>> => Len(r) = 0
    OBVIOUS
  <2> QED BY <1>2, <2>1, <2>2
<1>4. ASSUME NEW x
      PROVE  LET t == <<x>> \o r
             IN  /\ t \in Seq(Frames \union {x}) /\ t # <<>>
                 /\ Len(t) = Len(s) /\ t[Len(t)] = s[Len(s)]
  <2> DEFINE t == <<x>> \o r
  <2>1. /\ Len(t) = Len(r) + 1 /\ t # <<>>
        /\ \A i \in 1..Len(t) : t[i] = IF i = 1 THEN x ELSE r[i - 1]
    BY <1>2, OnTop
  <2>2. t \in Seq(Frames \union {x})
    <3>1. r \in Seq(Frames \union {x})
      BY <1>2, Wider
    <3> QED BY <3>1, Push
  <2> HIDE DEF t
  <2>3. Len(t) = Len(s) /\ Len(t) \in 1..Len(t) /\ Len(t) # 1 /\ Len(t) - 1 = Len(r)
    BY <1>1, <1>2, <2>1
  <2>4. t[Len(t)] = r[Len(r)]
    BY <2>1, <2>3
  <2> QED BY <1>3, <2>1, <2>2, <2>3, <2>4 DEF t
<1>5. ASSUME NEW x, NEW y
      PROVE  LET t == <<x>> \o (<<y>> \o r)
             IN  t # <<>> /\ Len(t) > 1 /\ t[Len(t)] = s[Len(s)]
  <2> DEFINE q == <<y>> \o r
             t == <<x>> \o q
  <2>1. q \in Seq(Frames \union {y}) /\ Len(q) = Len(s) /\ q[Len(q)] = s[Len(s)]
    BY <1>4
  <2> HIDE DEF q
  <2>2. /\ Len(t) = Len(q) + 1 /\ t # <<>>
        /\ \A i \in 1..Len(t) : t[i] = IF i = 1 THEN x ELSE q[i - 1]
    BY <2>1, OnTop
  <2> HIDE DEF t
  <2>3. Len(t) > 1 /\ Len(t) \in 1..Len(t) /\ Len(t) # 1 /\ Len(t) - 1 = Len(q)
    BY <1>1, <2>1, <2>2
  <2>4. t[Len(t)] = q[Len(q)]
    BY <2>2, <2>3
  <2> QED BY <2>1, <2>2, <2>3, <2>4 DEF t, q
<1> QED BY <1>1, <1>2, <1>3, <1>4, <1>5 DEF r

(* While a search runs the walk below it waits. *)
LEMMA WalkWaits ==
    ASSUME IInv, LeadInv, NEW h \in Handle, calls[h] # <<>>, Len(calls[h]) # 1
    PROVE  /\ calls[h] \in Seq(Frames) /\ Len(calls[h]) > 1 /\ mem[h] # None
           /\ Waits(calls[h][Len(calls[h])])
<1>1. calls[h] \in Seq(Frames)
  BY DEF IInv, TypeOK
<1>2. mem[h] # None
  BY DEF IInv, RootInv, InCall
<1> QED BY <1>1, <1>2 DEF LeadInv, CallLeads

(* A frame that waits may go on. *)
LEMMA WaitsLeads ==
    ASSUME NEW F, NEW u \in PathFrames, Waits(u)
    PROVE  Leads(F, u)
<1>1. Len(u.path) \in Nat \ {0} /\ u.at \in Nat
  BY PathLength DEF PathFrames
<1>2. u.at + 1 = Len(u.path) /\ u.dir = "up" /\ u.op \in {"deleteEntity", "deleteTree"}
      /\ LinksTo(u.trees[Len(u.path)], u, Len(u.path))
  BY DEF Waits
<1>3. (u.at + 2)..Len(u.path) = {}
  BY <1>1, <1>2
<1> QED BY <1>1, <1>2, <1>3 DEF Leads, PathOps

(* What happens on top of a walk that waits. *)
LEMMA OnTopOfWalk ==
    ASSUME IInv, LeadInv, Alone', NEW h \in Handle, calls[h] # <<>>, Len(calls[h]) # 1,
           \/ \E x : calls' = [calls EXCEPT ![h] = <<x>> \o Tail(calls[h])]
           \/ \E x, y : calls' = [calls EXCEPT ![h] = <<x>> \o (<<y>> \o Tail(calls[h]))]
           \/ calls' = [calls EXCEPT ![h] = Tail(calls[h])]
    PROVE  LeadInv'
<1> DEFINE s == calls[h]
           u == s[Len(s)]
<1>1. s \in Seq(Frames) /\ Len(s) > 1 /\ mem[h] # None /\ Waits(u)
  BY WalkWaits
<1> HIDE DEF s
<1>2. /\ Tail(s) # <<>> /\ Len(Tail(s)) = Len(s) - 1
      /\ Tail(s)[Len(Tail(s))] = u
      /\ \A x : LET t == <<x>> \o Tail(s)
                IN  t # <<>> /\ Len(t) > 1 /\ t[Len(t)] = u
      /\ \A x, y : LET t == <<x>> \o (<<y>> \o Tail(s))
                   IN  t # <<>> /\ Len(t) > 1 /\ t[Len(t)] = u
  BY <1>1, LastFrame
<1>3. u \in PathFrames
  <2>1. Len(s) \in Nat
    BY <1>1, LenProperties
  <2>2. Len(s) \in 1..Len(s)
    BY <1>1, <2>1
  <2>3. u \in Frames
    BY <1>1, <2>2, ElementOfSeq
  <2>4. u.op \in {"deleteEntity", "deleteTree"}
    BY <1>1 DEF Waits
  <2> QED BY <2>3, <2>4 DEF Frames, PathFrames, RemoveFrames, CommitFrames
<1> HIDE DEF u
<1>4. CallLeads(files', Tail(s))
  <2> DEFINE r == Tail(s)
  <2>0. Len(r) = Len(s) - 1 /\ r[Len(r)] = u
    BY <1>2
  <2> HIDE DEF r
  <2>1. CASE Len(s) = 2
    <3>1. Len(r) = 1 /\ r[1] = u
      BY <2>0, <2>1
    <3>2. Leads(files', u)
      BY <1>1, <1>3, WaitsLeads
    <3> QED BY <3>1, <3>2 DEF CallLeads, r
  <2>2. CASE Len(s) # 2
    <3>1. Len(s) \in Nat
      BY <1>1, LenProperties
    <3>2. Len(r) > 1
      BY <1>1, <2>0, <2>2, <3>1
    <3> QED BY <1>1, <2>0, <3>2 DEF CallLeads, r
  <2> QED BY <2>1, <2>2
<1>5. \A x : CallLeads(files', <<x>> \o Tail(s)) 
  BY <1>1, <1>2 DEF CallLeads
<1>6. \A x, y : CallLeads(files', <<x>> \o (<<y>> \o Tail(s)))
  BY <1>1, <1>2 DEF CallLeads
<1>7. \E t : calls' = [calls EXCEPT ![h] = t] /\ CallLeads(files', t)
  BY <1>4, <1>5, <1>6 DEF s
<1> QED BY <1>1, <1>7, LeadsOn

(* A client's walk goes on. *)
LEMMA ClientWalk ==
    ASSUME IInv, LeadInv, NEW h \in Handle, calls[h] # <<>>, Len(calls[h]) = 1
    PROVE  /\ mem[h] # None /\ Top(h) = calls[h][1] /\ Tail(calls[h]) = <<>>
           /\ Top(h).op = "commit" \/ Leads(files, Top(h))
           /\ \A g : Continue(h, g) <=> calls' = [calls EXCEPT ![h] = <<g>>]
<1>1. calls[h] \in Seq(Frames)
  BY DEF IInv, TypeOK
<1>2. Top(h) = calls[h][1]
  BY <1>1, BelowTop DEF Top
<1>3. mem[h] # None
  BY DEF IInv, RootInv, InCall
<1>4. Tail(calls[h]) = <<>>
  <2>1. Tail(calls[h]) \in Seq(Frames) /\ Len(Tail(calls[h])) = 0
    BY <1>1, Ends, BelowTop
  <2> QED BY <2>1, EmptySeq
<1>5. \A g : <<g>> \o <<>> = <<g>>
  OBVIOUS
<1>6. CallLeads(files, calls[h])
  BY DEF LeadInv
<1>7. ~(Len(calls[h]) > 1)
  OBVIOUS
<1> QED BY <1>2, <1>3, <1>4, <1>5, <1>6, <1>7 DEF Continue, CallLeads

(* The client's walk may go on with any frame that leads to the leaf.      *)
LEMMA ClientGoesOn ==
    ASSUME IInv, LeadInv, Alone', NEW h \in Handle, calls[h] # <<>>, Len(calls[h]) = 1,
           NEW g, Continue(h, g), g.op = "commit" \/ Leads(files', g)
    PROVE  LeadInv'
<1>1. mem[h] # None /\ calls' = [calls EXCEPT ![h] = <<g>>]
  BY ClientWalk
<1>2. CallLeads(files', <<g>>)
  BY DEF CallLeads
<1> QED BY <1>1, <1>2, LeadsOn

(* On top of a walk that waits the frame may be any. *)
LEMMA AnyGoesOn ==
    ASSUME IInv, LeadInv, Alone', NEW h \in Handle, calls[h] # <<>>, NEW g, Continue(h, g),
           Len(calls[h]) = 1 => g.op = "commit" \/ Leads(files', g)
    PROVE  LeadInv'
<1>1. CASE Len(calls[h]) = 1
  BY <1>1, ClientGoesOn
<1>2. CASE Len(calls[h]) # 1
  <2>1. calls' = [calls EXCEPT ![h] = <<g>> \o Tail(calls[h])]
    BY DEF Continue
  <2> QED BY <1>2, <2>1, OnTopOfWalk
<1> QED BY <1>1, <1>2

-----------------------------------------------------------------------------
(* Every step of createPath leaves it so.                                  *)

(* A walk that has turned at its leaf leads there. *)
LEMMA TurnLeads ==
    ASSUME IInv, NEW h \in Handle, Descending(h), AtLeaf(Top(h)),
           NEW ref, ref = IF Top(h).op = "store" THEN PathRef(Top(h).path, FALSE) ELSE None,
           NEW F, Top(h).op = "store" => F[Top(h).path] = Top(h).leaf
    PROVE  /\ Leads(F, Ascend(Top(h), ref))
           /\ Top(h).op # "store" => Waits(Ascend(Top(h), ref))
<1> DEFINE f == Top(h)
           p == f.path
           g == Ascend(f, ref)
<1>1. /\ f \in PathFrames /\ p \in Path /\ f.op \in PathOps
      /\ f.at = Len(p) /\ f.trees \in Seq(Trees(Objects)) /\ Len(f.trees) = Len(p)
      /\ g.op = f.op /\ g.path = p /\ g.dir = "up" /\ g.at + 1 = Len(p)
      /\ g.trees[Len(p)] = Link(f.trees[Len(p)], p[Len(p)], ref)
  BY ONLY IInv, h \in Handle, Descending(h), AtLeaf(Top(h)), TurnTrees
<1>2. g.leaf = f.leaf /\ g.at \in Nat
  <2>1. Len(p) \in Nat \ {0} /\ f.at \in Nat
    BY <1>1, PathLength
  <2>2. g.leaf = f.leaf /\ g.at = f.at - 1
    BY <1>1 DEF Ascend, PathFrames
  <2> HIDE DEF g
  <2>3. f.at - 1 \in Nat
    BY <1>1, <2>1
  <2> QED BY <2>2, <2>3
<1>3. Len(p) \in Nat \ {0} /\ Len(p) \in 1..Len(p)
  <2>1. Len(p) \in Nat \ {0}
    BY <1>1, PathLength
  <2> QED BY <2>1
<1>4. f.trees[Len(p)] \in Trees(Objects) /\ p[Len(p)] \in Name
  BY <1>1, <1>3, ElementOfSeq, PrefixIsPath
<1> DEFINE t == f.trees[Len(p)]
           n == p[Len(p)]
           new == g.trees[Len(p)]
<1>5. t \in Trees(Objects) /\ n \in Name /\ new = Link(t, n, ref)
  BY <1>1, <1>4
<1>6. g.path[Len(p)] = n
  BY <1>1
<1> HIDE DEF g, t, n, new
<1>7. IsTree(new) /\ new.refs[n] = ref
  <2>1. IsTree(Link(t, n, ref)) /\ \A m \in Name : Link(t, n, ref).refs[m] = IF m = n THEN ref ELSE t.refs[m]
    BY ONLY <1>5, LinkRefs
  <2> QED BY <1>5, <2>1
<1>8. Leaves(g, Len(p)) = ref
  <2>1. ~(Len(p) < Len(p))
    BY <1>3
  <2>2. g.path = p /\ g.op = f.op /\ ref = IF f.op = "store" THEN PathRef(p, FALSE) ELSE None
    BY <1>1
  <2> HIDE DEF f, p
  <2> QED BY ONLY <2>1, <2>2 DEF Leaves
<1>9. LinksTo(new, g, Len(p))
  BY <1>6, <1>7, <1>8 DEF LinksTo
<1>10. (g.at + 2)..Len(p) = {}
  BY <1>1, <1>2, <1>3
<1>11. Leads(F, g)
  BY <1>1, <1>2, <1>9, <1>10 DEF Leads, new
<1>12. f.op # "store" => Waits(g)
  BY <1>1, <1>9 DEF Waits, PathOps, new
<1> QED BY <1>11, <1>12 DEF g

(* createPath goes down one segment: nothing is written yet.               *)
LEMMA DescendLeads ==
    ASSUME IInv, LeadInv, Alone', NEW h \in Handle, Descend(h)
    PROVE  LeadInv'
<1> DEFINE f == Top(h)
           ts == Append(f.trees, SegTree(SegRef(f)))
           g == [f EXCEPT !.trees = ts, !.at = f.at + 1]
<1>1. calls[h] # <<>> /\ f \in PathFrames /\ f.op \in PathOps /\ f.dir = "down"
  BY DownTop DEF Descend
<1>2. Continue(h, g)
  BY DEF Descend
<1> HIDE DEF ts
<1>3. g.op = f.op /\ g.dir = "down"
  BY <1>1 DEF PathFrames
<1> HIDE DEF g
<1>4. Leads(files', g)
  BY <1>1, <1>3 DEF Leads
<1> QED BY <1>1, <1>2, <1>4, AnyGoesOn

(* A walk nested in a search may be blocked: it writes over nothing of the *)
(* walk that waits.                                                        *)
LEMMA BlockedLeads ==
    ASSUME IInv, LeadInv, Alone', NEW h \in Handle, BlockedBelowEntity(h), Len(calls[h]) > 1
    PROVE  LeadInv'
<1>1. calls[h] # <<>> /\ Continue(h, [Top(h) EXCEPT !.dir = "root"])
  BY DownTop DEF BlockedBelowEntity
<1>2. ASSUME Len(calls[h]) = 1
      PROVE  FALSE
  BY <1>2
<1> QED BY <1>1, <1>2, AnyGoesOn

(* storeEntity's leaf is written, and the last tree refers to it.          *)
LEMMA StoreLeafLeads ==
    ASSUME IInv, LeadInv, Alone', NEW h \in Handle, StoreLeaf(h)
    PROVE  LeadInv'
<1> DEFINE f == Top(h)
           ref == PlaceOf(f.path, f.leaf)
<1>1. /\ calls[h] # <<>> /\ Descending(h) /\ AtLeaf(f) /\ f.op = "store" /\ f \in PathFrames
      /\ Continue(h, Ascend(f, ref))
      /\ files' = [files EXCEPT ![f.path] = f.leaf]
  BY DownTop DEF StoreLeaf
<1>2. f.path \in Node /\ f.leaf # None /\ ~IsTree(f.leaf)
  BY <1>1, PathLength DEF PathFrames, Entities, IsTree
<1>3. ref = PathRef(f.path, FALSE)
  BY <1>2 DEF PlaceOf, IsTree
<1>4. files'[f.path] = f.leaf
  BY <1>1, <1>2 DEF IInv, TypeOK
<1> HIDE DEF ref
<1>5. Leads(files', Ascend(f, ref))
  BY <1>1, <1>3, <1>4, TurnLeads
<1> QED BY <1>1, <1>5, AnyGoesOn

(* deleteEntity's leaf: the last tree in hand refers to nothing there.     *)
LEMMA DeleteEntityLeafLeads ==
    ASSUME IInv, LeadInv, Alone', NEW h \in Handle, DeleteEntityLeaf(h)
    PROVE  LeadInv'
<1> DEFINE f == Top(h)
<1>1. /\ calls[h] # <<>> /\ Descending(h) /\ AtLeaf(f) /\ f.op # "store"
      /\ Continue(h, Ascend(f, None))
  BY DownTop DEF DeleteEntityLeaf
<1>2. Leads(files', Ascend(f, None))
  BY <1>1, TurnLeads
<1> QED BY <1>1, <1>2, AnyGoesOn

(* A search on top of a client's walk. *)
LEMMA TwoFrames ==
    ASSUME NEW x, NEW y
    PROVE  Len(<<x>> \o <<y>>) = 2 /\ (<<x>> \o <<y>>)[2] = y
OBVIOUS

(* deleteTree's leaf: the walk turns, and waits if a search begins.        *)
LEMMA DeleteTreeLeafLeads ==
    ASSUME IInv, LeadInv, Alone', NEW h \in Handle, DeleteTreeLeaf(h)
    PROVE  LeadInv'
<1> DEFINE f == Top(h)
           g == Ascend(f, None)
           search == [op |-> "remove", stack |-> <<Visit(f.path, None, GetTree(h, f.path))>>]
<1>1. /\ calls[h] # <<>> /\ Descending(h) /\ AtLeaf(f) /\ f.op # "store"
      /\ \/ Continue(h, g)
         \/ calls' = [calls EXCEPT ![h] = <<search>> \o (<<g>> \o Tail(calls[h]))]
  BY DownTop DEF DeleteTreeLeaf
<1>2. Leads(files', g) /\ Waits(g)
  BY <1>1, TurnLeads
<1> HIDE DEF g, search
<1>3. CASE Continue(h, g)
  BY <1>1, <1>2, <1>3, AnyGoesOn
<1>4. CASE /\ calls' = [calls EXCEPT ![h] = <<search>> \o (<<g>> \o Tail(calls[h]))]
           /\ Len(calls[h]) = 1
  <2>1. mem[h] # None /\ Tail(calls[h]) = <<>>
    BY <1>1, <1>4, ClientWalk
  <2>2. <<g>> \o <<>> = <<g>> /\ <<g>> \in Seq({g}) /\ Len(<<g>>) = 1 /\ <<g>>[1] = g
    OBVIOUS
  <2> DEFINE s == <<search>> \o <<g>>
  <2>3. Len(s) = 2 /\ s[2] = g
    BY TwoFrames
  <2> HIDE DEF s
  <2>4. CallLeads(files', s)
    BY <1>2, <2>3 DEF CallLeads
  <2>5. calls' = [calls EXCEPT ![h] = s]
    BY <1>4, <2>1, <2>2 DEF s
  <2> QED BY <2>1, <2>4, <2>5, LeadsOn
<1>5. CASE /\ calls' = [calls EXCEPT ![h] = <<search>> \o (<<g>> \o Tail(calls[h]))]
           /\ Len(calls[h]) # 1
  BY <1>1, <1>5, OnTopOfWalk
<1> QED BY <1>1, <1>3, <1>4, <1>5

(* A walk that leads from its tree leads from the tree above, which refers *)
(* to it.                                                                  *)
LEMMA StoreTreeOfPathLeads ==
    ASSUME IInv, LeadInv, Alone', NEW h \in Handle, StoreTreeOfPath(h)
    PROVE  LeadInv'
<1> DEFINE f == Top(h)
           p == f.path
           at == f.at
           place == SegPlace(f)
           ts == Front(f.trees)
           g == Ascend([f EXCEPT !.trees = ts], place)
<1>1. calls[h] # <<>> /\ f \in PathFrames /\ f.op \in PathOps /\ f.dir = "up" /\ at > 0
      /\ f.op # "commit"
  BY PathTop DEF StoreTreeOfPath, PathOps
<1>2. /\ p \in Path /\ Len(p) \in Nat /\ at \in Nat /\ at \in 1..(Len(p) - 1) /\ at \in 1..Len(p)
      /\ f.trees \in Seq(Trees(Objects)) /\ f.trees # <<>> /\ Len(f.trees) = at + 1
  <2>1. /\ p \in Path /\ at \in Nat /\ at \in 0..(Len(p) - 1)
        /\ f.trees \in Seq(Trees(Objects)) /\ f.trees # <<>> /\ Len(f.trees) = at + 1
    BY <1>1 DEF PathFrames
  <2> QED BY <1>1, <2>1, PathLength
<1>3. place = PathRef(Upto(p, at), TRUE) /\ place.path = Upto(p, at)
  BY DEF SegPlace, PathRef
<1>4. /\ Continue(h, g)
      /\ files' = [files EXCEPT ![Upto(p, at)] = f.trees[at + 1]]
  <2>1. Last(f.trees) = f.trees[at + 1]
    BY <1>2 DEF Last
  <2> QED BY <1>3, <2>1 DEF StoreTreeOfPath
<1>5. ts \in Seq(Trees(Objects)) /\ Len(ts) = at
  BY <1>2, Ends
<1> HIDE DEF ts, place
<1>6. /\ g.op = f.op /\ g.path = p /\ g.dir = "up" /\ g.at = at - 1
      /\ g.trees[at] = Link(ts[at], p[at], place)
  <2>1. f \in PathFrames /\ f.at \in 1..Len(f.path) /\ Len(ts) = f.at
    BY <1>1, <1>2, <1>5
  <2> HIDE DEF f
  <2> QED BY ONLY <1>5, <2>1, AscendTrees
<1>7. g.leaf = f.leaf
  BY <1>1 DEF Ascend, PathFrames
<1>8. ts[at] \in Trees(Objects) /\ p[at] \in Name
  BY <1>2, <1>5, ElementOfSeq, PrefixIsPath
<1> HIDE DEF g
<1>9. ASSUME Leads(files, f)
      PROVE  Leads(files', g)
  <2> DEFINE F == files
             G == files'
             k == Len(p)
  <2>1. /\ f.op = "store" => F[p] = f.leaf
        /\ LinksTo(f.trees[at + 1], f, at + 1)
        /\ \A i \in (at + 2)..k : LinksTo(F[Upto(p, i - 1)], f, i)
    BY <1>1, <1>9 DEF Leads
  <2>2. /\ p \in Seq(Name) /\ at \in 0..k
    BY <1>2, PathLength
  <2>3. Upto(p, at) \in Node /\ Len(Upto(p, at)) = at /\ Upto(p, at) # p
    <3>1. Len(Upto(p, at)) = at
      BY <2>2, PathPrefix
    <3> QED BY <1>2, <3>1, PrefixIsPath DEF Node
  <2>4. G[Upto(p, at)] = f.trees[at + 1] /\ \A q \in Node : q # Upto(p, at) => G[q] = F[q]
    BY <1>4, <2>3 DEF IInv, TypeOK
  <2>5. f.op = "store" => G[p] = f.leaf
    BY <1>2, <2>1, <2>3, <2>4 DEF Node
  <2>6. ASSUME NEW i \in (at + 2)..k
        PROVE  G[Upto(p, i - 1)] = F[Upto(p, i - 1)]
    <3>1. i - 1 \in 1..k /\ i - 1 \in 0..k /\ i - 1 # at
      BY <1>2
    <3>2. Upto(p, i - 1) \in Node /\ Len(Upto(p, i - 1)) = i - 1
      BY <2>2, <3>1, PrefixIsPath, PathPrefix, <1>2 DEF Node
    <3> QED BY <2>3, <2>4, <3>1, <3>2
  <2> HIDE DEF F, G
  <2>7. \A tree, i : LinksTo(tree, g, i) = LinksTo(tree, f, i)
    BY <1>6 DEF LinksTo, Leaves
  <2>8. LinksTo(g.trees[at], g, at)
    <3> DEFINE t == ts[at]
               n == p[at]
               new == g.trees[at]
    <3>1. t \in Trees(Objects) /\ n \in Name /\ new = Link(t, n, place)
      BY <1>6, <1>8
    <3>2. g.path[at] = n
      BY <1>6
    <3>3. Leaves(g, at) = place
      <4>1. at < Len(g.path) /\ g.path = p
        BY <1>2, <1>6
      <4> QED BY <1>3, <4>1 DEF Leaves
    <3> HIDE DEF t, n, new
    <3>4. IsTree(Link(t, n, place)) /\ Link(t, n, place).refs[n] = place
      BY ONLY <3>1, LinkRefs
    <3> QED BY <3>1, <3>2, <3>3, <3>4 DEF LinksTo, new
  <2>9. ASSUME NEW i \in (g.at + 2)..k
        PROVE  LinksTo(G[Upto(p, i - 1)], g, i)
    <3>1. i = at + 1 \/ i \in (at + 2)..k
      BY <1>2, <1>6
    <3>2. CASE i = at + 1
      <4>1. i - 1 = at
        BY <1>2, <3>2
      <4> QED BY <2>1, <2>4, <2>7, <3>2, <4>1
    <3>3. CASE i \in (at + 2)..k
      BY <2>1, <2>6, <2>7, <3>3
    <3> QED BY <3>1, <3>2, <3>3
  <2>10. g.at + 1 = at
    BY <1>2, <1>6
  <2> HIDE DEF f, p, at
  <2> QED BY <1>1, <1>6, <1>7, <2>5, <2>8, <2>9, <2>10 DEF Leads, G, k
<1>10. Len(calls[h]) = 1 => Leads(files', g)
  BY <1>1, <1>9, ClientWalk
<1> QED BY <1>1, <1>4, <1>10, AnyGoesOn

(* createPath writes the root, which completes the trail.                  *)
LEMMA StoreRootLeads ==
    ASSUME IInv, LeadInv, Alone', NEW h \in Handle, StoreRoot(h)
    PROVE  LeadInv'
<1> DEFINE f == Top(h)
           p == f.path
           g == [f EXCEPT !.dir = "save"]
<1>1. /\ calls[h] # <<>> /\ f \in PathFrames /\ f.op \in PathOps /\ f.op # "commit"
      /\ f.dir = "root" \/ (f.dir = "up" /\ f.at = 0)
  BY PathTop DEF StoreRoot, PathOps
<1>2. /\ Continue(h, g)
      /\ files' = [files EXCEPT ![Root] = Last(f.trees)]
  BY DEF StoreRoot
<1>3. g.op = f.op /\ g.path = p /\ g.dir = "save" /\ g.leaf = f.leaf
  BY <1>1 DEF PathFrames
<1>4. p \in Path /\ p \in Seq(Name) /\ Len(p) \in Nat \ {0} /\ p # Root /\ p \in Node
  BY <1>1, PathLength DEF PathFrames
<1> HIDE DEF g
<1>5. ASSUME Leads(files, f)
      PROVE  Leads(files', g)
  <2> DEFINE F == files
             G == files'
             k == Len(p)
  <2>1. f.dir = "up" /\ f.at = 0
    BY <1>1, <1>5 DEF Leads
  <2>2. /\ f.op = "store" => F[p] = f.leaf
        /\ LinksTo(f.trees[1], f, 1)
        /\ \A i \in 2..k : LinksTo(F[Upto(p, i - 1)], f, i)
    BY <1>5, <2>1 DEF Leads
  <2>3. Last(f.trees) = f.trees[1]
    <3>1. Len(f.trees) = f.at + 1
      BY <1>1, <2>1 DEF PathFrames
    <3> QED BY <2>1, <3>1 DEF Last
  <2>4. G[Root] = f.trees[1] /\ \A q \in Node : q # Root => G[q] = F[q]
    BY <1>2, <2>3 DEF IInv, TypeOK, Node
  <2>5. f.op = "store" => G[p] = f.leaf
    BY <1>4, <2>2, <2>4
  <2>6. ASSUME NEW i \in 2..k
        PROVE  G[Upto(p, i - 1)] = F[Upto(p, i - 1)]
    <3>1. i - 1 \in 1..k
      BY <1>4
    <3>2. Upto(p, i - 1) \in Path
      BY <1>4, <3>1, PrefixIsPath
    <3> QED BY <2>4, <3>2, PathLength
  <2>7. Upto(p, 0) = Root
    <3>1. 0 \in 0..Len(p)
      BY <1>4
    <3> QED BY <1>4, <3>1, PathPrefix
  <2> HIDE DEF F, G
  <2>8. \A tree, i : LinksTo(tree, g, i) = LinksTo(tree, f, i)
    BY <1>3 DEF LinksTo, Leaves
  <2>9. ASSUME NEW i \in 1..k
        PROVE  LinksTo(G[Upto(p, i - 1)], g, i)
    <3>1. CASE i = 1
      <4>1. i - 1 = 0
        BY <3>1
      <4> QED BY <2>2, <2>4, <2>7, <2>8, <3>1, <4>1
    <3>2. CASE i # 1
      <4>1. i \in 2..k
        BY <1>4, <3>2
      <4> QED BY <2>2, <2>6, <2>8, <4>1
    <3> QED BY <3>1, <3>2
  <2> HIDE DEF f, p
  <2> QED BY <1>1, <1>3, <2>5, <2>9 DEF Leads, G, k
<1>6. Len(calls[h]) = 1 => Leads(files', g)
  BY <1>1, <1>5, ClientWalk
<1> QED BY <1>1, <1>2, <1>6, AnyGoesOn

(* createPath saves the workspace object and its call is over.             *)
LEMMA SaveLeads ==
    ASSUME IInv, LeadInv, Alone', NEW h \in Handle, SaveWorkspace(h)
    PROVE  LeadInv'
<1>1. calls[h] # <<>> /\ calls' = [calls EXCEPT ![h] = Tail(calls[h])]
  BY DEF SaveWorkspace, Return
<1>2. CASE Len(calls[h]) = 1
  <2>1. mem[h] # None /\ Tail(calls[h]) = <<>>
    BY <1>1, <1>2, ClientWalk
  <2> QED BY <1>1, <2>1, LeadsOn
<1>3. CASE Len(calls[h]) # 1
  BY <1>1, <1>3, OnTopOfWalk
<1> QED BY <1>2, <1>3

(* createPath. *)
LEMMA PathStepLeads ==
    ASSUME IInv, LeadInv, Unblocked, NEW h \in Handle, PathStep(h)
    PROVE  LeadInv'
<1>0. Alone'
  BY DEF Unblocked
<1>1. CASE Descend(h)
  BY <1>0, <1>1, DescendLeads
<1>2. CASE BlockedBelowEntity(h)
  <2>1. Len(calls[h]) > 1
    BY <1>2 DEF Unblocked
  <2> QED BY <1>0, <1>2, <2>1, BlockedLeads
<1>3. CASE SegUntracked(h)
  <2>1. calls[h] # <<>> /\ calls' = [calls EXCEPT ![h] = <<>>]
    BY <1>3 DEF SegUntracked, Abort, Descending
  <2>2. mem[h] # None
    BY <2>1 DEF IInv, RootInv, InCall
  <2> QED BY <1>0, <2>1, <2>2, LeadsOn
<1>4. CASE StoreLeaf(h)
  BY <1>0, <1>4, StoreLeafLeads
<1>5. CASE DeleteEntityLeaf(h)
  BY <1>0, <1>5, DeleteEntityLeafLeads
<1>6. CASE DeleteTreeLeaf(h)
  BY <1>0, <1>6, DeleteTreeLeafLeads
<1>7. CASE StoreTreeOfPath(h)
  BY <1>0, <1>7, StoreTreeOfPathLeads
<1>8. CASE StoreRoot(h)
  BY <1>0, <1>8, StoreRootLeads
<1>9. CASE SaveWorkspace(h)
  BY <1>0, <1>9, SaveLeads
<1> QED BY <1>1, <1>2, <1>3, <1>4, <1>5, <1>6, <1>7, <1>8, <1>9 DEF PathStep

-----------------------------------------------------------------------------
(* All other steps do, too.                                                *)

(* Searches that delete. *)
LEMMA RemoveStepLeads ==
    ASSUME IInv, LeadInv, Alone', NEW h \in Handle, RemoveStep(h)
    PROVE  LeadInv'
<1>1. calls[h] # <<>> /\ Top(h).op = "remove"
  BY DEF RemoveStep, RemoveChild, RemoveTree, RemoveEnds, Removing, Running
<1>2. ASSUME Len(calls[h]) = 1
      PROVE  FALSE
  BY <1>1, <1>2, ClientWalk DEF Leads, PathOps
<1>3. \/ \E x : calls' = [calls EXCEPT ![h] = <<x>> \o Tail(calls[h])]
      \/ \E x, y : calls' = [calls EXCEPT ![h] = <<x>> \o (<<y>> \o Tail(calls[h]))]
      \/ calls' = [calls EXCEPT ![h] = Tail(calls[h])]
  <2>1. ASSUME NEW n \in Name, RemoveChild(h, n)
        PROVE  \/ \E x : calls' = [calls EXCEPT ![h] = <<x>> \o Tail(calls[h])]
               \/ \E x, y : calls' = [calls EXCEPT ![h] = <<x>> \o (<<y>> \o Tail(calls[h]))]
    BY <2>1 DEF RemoveChild, Continue, EnterPath
  <2>2. CASE RemoveTree(h)
    BY <2>2 DEF RemoveTree, Continue
  <2>3. CASE RemoveEnds(h)
    BY <2>3 DEF RemoveEnds, Return
  <2> QED BY <2>1, <2>2, <2>3 DEF RemoveStep
<1> QED BY <1>1, <1>2, <1>3, OnTopOfWalk

(* Commits, which have no walk. *)
LEMMA CommitStepLeads ==
    ASSUME IInv, LeadInv, Alone', NEW h \in Handle, CommitStep(h)
    PROVE  LeadInv'
<1> DEFINE f == Top(h)
           Goes == \E g : g.op = "commit" /\ Continue(h, g)
<1>1. Running(h, "commit")
  BY DEF CommitStep, CommitChild, PersistData, ReadEmptyData, ReadsNoBytes, PersistEntity,
     RemovePersisted, CommitUnrecorded, TreeIsDone, PersistTree, RemovePersistedTree, CreateCommit,
     EndCommit, Searching
<1>2. /\ calls[h] # <<>> /\ Len(calls[h]) = 1 /\ mem[h] # None
      /\ f \in CommitFrames /\ f.op = "commit"
  BY <1>1, CommitTop
<1>3. CASE Goes
  BY <1>2, <1>3, ClientGoesOn
<1>4. CASE calls' = [calls EXCEPT ![h] = <<>>]
  BY <1>2, <1>4, LeadsOn
<1>5. ASSUME NEW n \in Name, CommitChild(h, n)
      PROVE  Goes
  BY <1>2, <1>5 DEF CommitChild, CommitFrames, PassTo, Deeper
<1>6. CASE PersistData(h)
  <2>1. Goes
    BY <1>2, <1>6 DEF PersistData, CommitFrames
  <2> QED BY <1>3, <2>1
<1>7. CASE ReadEmptyData(h)
  BY <1>7 DEF ReadEmptyData, vars, transient, LeadInv
<1>8. CASE PersistEntity(h)
  <2>1. Goes
    BY <1>2, <1>8 DEF PersistEntity, CommitFrames
  <2> QED BY <1>3, <2>1
<1>9. CASE RemovePersisted(h)
  <2>1. Goes
    BY <1>2, <1>9 DEF RemovePersisted, CommitFrames
  <2> QED BY <1>3, <2>1
<1>10. CASE CommitUnrecorded(h)
  BY <1>4, <1>10 DEF CommitUnrecorded, Abort
<1>11. CASE PersistTree(h)
  <2>1. Goes
    BY <1>2, <1>11 DEF PersistTree, CommitFrames
  <2> QED BY <1>3, <2>1
<1>12. CASE RemovePersistedTree(h)
  <2>1. Goes
    BY <1>2, <1>12 DEF RemovePersistedTree, CommitFrames
  <2> QED BY <1>3, <2>1
<1>13. CASE CreateCommit(h)
  <2>1. Goes
    BY <1>2, <1>13 DEF CreateCommit, CommitFrames
  <2> QED BY <1>3, <2>1
<1>14. CASE EndCommit(h)
  <2>1. Tail(calls[h]) = <<>>
    BY <1>2, ClientWalk
  <2> QED BY <1>4, <1>14, <2>1 DEF EndCommit, Return
<1> HIDE DEF Goes
<1> QED BY <1>3, <1>5, <1>6, <1>7, <1>8, <1>9, <1>10, <1>11, <1>12, <1>13, <1>14 DEF CommitStep

(* A call enters createPath. *)
LEMMA EnterLeads ==
    ASSUME IInv, LeadInv, Alone', NEW h \in Handle, Idle(h),
           NEW op \in PathOps, NEW p \in Path, NEW leaf, EnterPath(h, op, p, leaf, <<>>)
    PROVE  LeadInv'
<1> DEFINE f == PathCall(op, p, leaf, RootTree(mem[h]))
<1>1. mem[h] # None /\ calls' = [calls EXCEPT ![h] = <<f>>]
  BY DEF Idle, EnterPath
<1>2. f.op = op /\ f.dir = "down"
  BY DEF PathCall
<1> HIDE DEF f
<1>3. CallLeads(files', <<f>>)
  BY <1>2 DEF CallLeads, Leads
<1> QED BY <1>1, <1>3, LeadsOn

(* What clients do between two calls. *)
LEMMA ClientStepLeads ==
    ASSUME IInv, LeadInv, Alone', NEW h \in Handle, ClientStep(h)
    PROVE  LeadInv'
<1>1. CASE \/ \E parent \in 0..Len(commits) : CreateWorkspace(h, parent)
           \/ OpenWorkspace(h) \/ CloseWorkspace(h)
  BY <1>1 DEF CreateWorkspace, OpenWorkspace, CloseWorkspace, transient, LeadInv
<1>2. CASE \E p \in Path, d \in Data : WriteData(h, p, d)
  BY <1>2 DEF WriteData, LeadInv
<1>3. CASE BeginCommit(h)
  <2> DEFINE f == [op |-> "commit",
                   stack |-> IF mem[h].root = None THEN <<>>
                             ELSE <<Visit(Root, None, TreeOf(mem[h].root))>>,
                   cur |-> None, done |-> {}, made |-> 0]
  <2>1. mem[h] # None /\ calls' = [calls EXCEPT ![h] = <<f>>] /\ f.op = "commit"
    BY <1>3 DEF BeginCommit, Idle
  <2> HIDE DEF f
  <2>2. CallLeads(files', <<f>>)
    BY <2>1 DEF CallLeads
  <2> QED BY <2>1, <2>2, LeadsOn
<1>4. {"store", "deleteEntity", "deleteTree"} \subseteq PathOps
  BY DEF PathOps
<1>5. CASE \E p \in Path, m \in Meta : StoreEntity(h, p, m)
  BY <1>4, <1>5, EnterLeads DEF StoreEntity
<1>6. CASE \E p \in Path, m \in Meta : EditEntity(h, p, m)
  BY <1>4, <1>6, EnterLeads DEF EditEntity
<1>7. CASE \E p \in Path : DeleteEntity(h, p)
  BY <1>4, <1>7, EnterLeads DEF DeleteEntity
<1>8. CASE \E p \in Path : DeleteTree(h, p)
  BY <1>4, <1>8, EnterLeads DEF DeleteTree
<1> QED BY <1>1, <1>2, <1>3, <1>5, <1>6, <1>7, <1>8 DEF ClientStep

(* LeadInv is inductive, given IInv: steps of createPath, searches and     *)
(* commits, clients, crashes and deletions of the workspace.               *)
LEMMA NextLeads ==
    ASSUME IInv, LeadInv, [Next /\ Unblocked]_vars
    PROVE  LeadInv'
<1>1. CASE UNCHANGED vars
  BY <1>1 DEF vars, transient, LeadInv, Alone
<1>2. ASSUME Unblocked, NEW h \in Handle, CallStep(h) \/ ClientStep(h)
      PROVE  LeadInv'
  BY <1>2, PathStepLeads, RemoveStepLeads, CommitStepLeads, ClientStepLeads DEF CallStep, Unblocked
<1>3. ASSUME Unblocked, NEW h \in Handle, Crash(h)
      PROVE  LeadInv'
  <2>1. mem[h] # None /\ calls' = [calls EXCEPT ![h] = <<>>]
    BY <1>3 DEF Crash, IInv, RootInv, InCall
  <2> QED BY <1>3, <2>1, LeadsOn DEF Unblocked
<1>4. ASSUME Unblocked, DeleteWorkspaceForced
      PROVE  LeadInv'
  BY <1>4 DEF Unblocked, DeleteWorkspaceForced, transient, LeadInv
<1> QED BY <1>1, <1>2, <1>3, <1>4 DEF Next

(* At first no call runs. *)
LEMMA InitLeads == Init => LeadInv
BY DEF Init, NothingYet, LeadInv, Alone

-----------------------------------------------------------------------------
(* What the trail of files means for the map.                              *)

(* The files along p are trees, each of which refers to the next; the last *)
(* one has ref.                                                            *)
Trail(p, ref) ==
    \A i \in 1..Len(p) :
        /\ IsTree(files[Upto(p, i - 1)])
        /\ files[Upto(p, i - 1)].refs[p[i]]
             = IF i < Len(p) THEN PathRef(Upto(p, i), TRUE) ELSE ref

(* The only workspace has a transient root and no call runs. *)
Quiet ==
    /\ disk # None /\ disk.root = RootRef
    /\ \A h \in Handle : calls[h] = <<>>

(* Going down q one finds the references of the trail to p. *)
LEMMA QuietObject ==
    ASSUME TypeOK, Quiet, NEW q \in Node, NEW slash \in BOOLEAN
    PROVE  ObjectOf(PathRef(q, slash)) = files[q]
<1>1. Present(q) = files[q]
  BY DEF Present, Quiet, Running, File
<1> DEFINE ref == PathRef(q, slash)
<1>2. IsPathRef(ref) /\ ~IsIdRef(ref) /\ ref.path = q
  BY DEF PathRef, IsPathRef, IsIdRef
<1> HIDE DEF ref
<1>3. ObjectOf(ref) = Present(ref.path)
  BY <1>2 DEF ObjectOf, IsPathRef, IsIdRef
<1> QED BY <1>1, <1>2, <1>3 DEF ref

(* The references that a trail leads to. *)
OnTrail(p, ref, i) ==
    IF i < Len(p) THEN {PathRef(Upto(p, i), TRUE)} ELSE IF i = Len(p) THEN {ref} ELSE {}

(* One segment further along the trail, and into nothing where it ends.    *)
LEMMA TrailTurns ==
    ASSUME TypeOK, Quiet, NEW p \in Path, NEW q \in Path, AtOrBelow(p, q),
           NEW ref, Trail(p, ref), q = p \/ ref = None, NEW i \in 1..Len(q)
    PROVE  Children(OnTrail(p, ref, i - 1), q[i]) = OnTrail(p, ref, i)
<1>1. /\ p \in Seq(Name) /\ Len(p) \in Nat \ {0} /\ q \in Seq(Name) /\ Len(q) \in Nat
      /\ Len(p) <= Len(q) /\ Upto(p, Len(p)) = Upto(q, Len(p))
  BY PathLength DEF AtOrBelow, IsPrefix, Upto
<1>2. i \in Nat /\ i - 1 \in Nat
  BY <1>1
<1>3. CASE i <= Len(p)
  <2>1. i \in 1..Len(p) /\ i - 1 \in 0..Len(p) /\ i - 1 < Len(p)
    BY <1>1, <1>2, <1>3
  <2>2. q[i] = p[i]
    <3>1. \A k \in 1..Len(p) : Upto(p, Len(p))[k] = p[k] /\ Upto(q, Len(p))[k] = q[k]
      BY <1>1 DEF Upto
    <3> QED BY <1>1, <2>1, <3>1
  <2> DEFINE r == Upto(p, i - 1)
             t == files[r]
  <2>3. r \in Node
    <3>1. CASE i = 1
      BY <1>1, <2>1, <3>1, PathPrefix DEF Node
    <3>2. CASE i # 1
      <4>1. i - 1 \in 1..Len(p)
        BY <1>1, <1>2, <2>1, <3>2
      <4> QED BY <4>1, PrefixIsPath DEF Node
    <3> QED BY <3>1, <3>2
  <2>4. IsTree(t) /\ t.refs[p[i]] = IF i < Len(p) THEN PathRef(Upto(p, i), TRUE) ELSE ref
    BY <2>1 DEF Trail
  <2>5. OnTrail(p, ref, i - 1) = {PathRef(r, TRUE)}
    BY <2>1 DEF OnTrail
  <2>6. OnTrail(p, ref, i) = {t.refs[p[i]]}
    <3>1. i < Len(p) \/ i = Len(p)
      BY <1>1, <1>2, <1>3
    <3> HIDE DEF t
    <3> QED BY <2>4, <3>1 DEF OnTrail
  <2>7. ObjectOf(PathRef(r, TRUE)) = t
    BY <2>3, QuietObject
  <2> HIDE DEF r, t
  <2>8. Children({PathRef(r, TRUE)}, p[i]) = {t.refs[p[i]]}
    BY <2>4, <2>7 DEF Children
  <2> QED BY <2>2, <2>5, <2>6, <2>8
<1>4. CASE ~(i <= Len(p))
  <2>1. ref = None /\ ~(i < Len(p)) /\ i # Len(p) /\ ~(i - 1 < Len(p))
    BY <1>1, <1>2, <1>4
  <2>2. OnTrail(p, ref, i) = {} /\ OnTrail(p, ref, i - 1) \in {{None}, {}}
    BY <2>1 DEF OnTrail
  <2>3. ~IsTree(ObjectOf(None))
    BY DEF ObjectOf, IsPathRef, IsIdRef, IsTree, None
  <2>4. Children({None}, q[i]) = {} /\ Children({}, q[i]) = {}
    BY <2>3 DEF Children
  <2> QED BY <2>2, <2>4
<1> QED BY <1>3, <1>4

(* So RefsBelow, which goes down q as getEntity does, finds what the trail *)
(* to p leads to, and below a deleted p nothing.                           *)
LEMMA Followed ==
    ASSUME TypeOK, Quiet, NEW p \in Path, NEW q \in Path, AtOrBelow(p, q),
           NEW ref, Trail(p, ref), q = p \/ ref = None
    PROVE  RefsBelow(RootRef, q) = IF q = p THEN {ref} ELSE {}
<1> DEFINE n == Len(q)
           r == [i \in 0..n |-> OnTrail(p, ref, i)]
           Is(x) == x = [i \in 0..n |-> IF i = 0 THEN {RootRef} ELSE Children(x[i - 1], q[i])]
<1>1. /\ p \in Seq(Name) /\ Len(p) \in Nat \ {0} /\ q \in Seq(Name) /\ n \in Nat
      /\ Len(p) <= n
  BY PathLength DEF AtOrBelow, IsPrefix
<1>2. OnTrail(p, ref, 0) = {RootRef}
  <2>1. 0 < Len(p) /\ 0 \in 0..Len(p)
    BY <1>1
  <2> QED BY <1>1, <2>1, PathPrefix DEF OnTrail, RootRef
<1>3. \A i \in 1..n : OnTrail(p, ref, i) = Children(OnTrail(p, ref, i - 1), q[i])
  BY TrailTurns
<1>4. \A i \in 1..n : i \in 0..n /\ i - 1 \in 0..n /\ i # 0
  BY <1>1
<1>5. \A i \in 0..n : i # 0 => i \in 1..n
  BY <1>1
<1>6. r[0] = {RootRef} /\ \A i \in 1..n : r[i] = Children(r[i - 1], q[i])
  <2>1. 0 \in 0..n
    BY <1>1
  <2> QED BY <1>2, <1>3, <1>4, <2>1
<1>7. Is(r)
  <2>1. \A i \in 0..n : r[i] = IF i = 0 THEN {RootRef} ELSE Children(r[i - 1], q[i])
    BY <1>5, <1>6
  <2>2. r = [i \in 0..n |-> r[i]]
    OBVIOUS
  <2> HIDE DEF r
  <2> QED BY <2>1, <2>2
<1>8. ASSUME NEW x, Is(x)
      PROVE  x = r
  <2>1. \A i \in 0..n : x[i] = IF i = 0 THEN {RootRef} ELSE Children(x[i - 1], q[i])
    BY <1>8
  <2>2. x = [i \in 0..n |-> x[i]] /\ r = [i \in 0..n |-> r[i]]
    BY <1>8
  <2>3. 0 \in 0..n
    BY <1>1
  <2> HIDE DEF r, Is
  <2>4. x[0] = r[0]
    BY <1>6, <2>1, <2>3
  <2>5. ASSUME NEW i \in 1..n, x[i - 1] = r[i - 1]
        PROVE  x[i] = r[i]
    BY <1>4, <1>6, <2>1, <2>5
  <2>6. n \in Nat
    BY <1>1
  <2> HIDE DEF n
  <2>7. TakeSameSteps(n, x, r)
    BY <2>4, <2>5 DEF TakeSameSteps
  <2>8. AreSame(n, x, r)
    BY <2>6, <2>7, Unique
  <2> QED BY <2>2, <2>8 DEF AreSame
<1>9. RefsBelow(RootRef, q) = (CHOOSE x : Is(x))[n]
  BY DEF RefsBelow, Children
<1>10. r[n] = IF q = p THEN {ref} ELSE {}
  <2>1. n \in 0..n /\ ~(n < Len(p))
    BY <1>1
  <2>2. n = Len(p) <=> q = p
    <3>1. SubSeq(p, 1, Len(p)) = SubSeq(q, 1, Len(p))
      BY DEF AtOrBelow, IsPrefix
    <3>2. SubSeq(p, 1, Len(p)) = p /\ SubSeq(q, 1, Len(q)) = q
      BY <1>1
    <3> QED BY <3>1, <3>2
  <2> QED BY <2>1, <2>2 DEF OnTrail
<1> HIDE DEF Is, r
<1>11. (CHOOSE x : Is(x)) = r
  BY <1>7, <1>8
<1> QED BY <1>9, <1>10, <1>11

(* Where a trail ends with no reference nothing is left; where it ends     *)
(* with an entity's place, the entity is there.                            *)
TrailsTell ==
    Quiet =>
      \A p \in Path :
        /\ Trail(p, None) => \A q \in Path : AtOrBelow(p, q) => At(q) = None
        /\ Trail(p, PathRef(p, FALSE)) /\ IsEntity(files[p])
             => /\ At(p) # None
                /\ At(p).meta = files[p].meta
                /\ At(p).data \in {files[p].dataid, edata[p]}

(* What the map shows of a trail follows from going down it.               *)
LEMMA TrailsAreTold == TypeOK => TrailsTell
<1> SUFFICES ASSUME TypeOK, Quiet, NEW p \in Path
             PROVE  /\ Trail(p, None) => \A q \in Path : AtOrBelow(p, q) => At(q) = None
                    /\ Trail(p, PathRef(p, FALSE)) /\ IsEntity(files[p])
                         => /\ At(p) # None
                            /\ At(p).meta = files[p].meta
                            /\ At(p).data \in {files[p].dataid, edata[p]}
  BY DEF TrailsTell
<1> DEFINE Contents(r) == {[meta |-> e.meta, data |-> DataOf(r, e)] :
                              e \in {o \in {ObjectOf(r)} : IsEntity(o)}}
<1>1. ASSUME NEW q
      PROVE  At(q) = LET found == UNION {Contents(r) : r \in RefsBelow(RootRef, q)}
                     IN  IF found = {} THEN None ELSE CHOOSE c \in found : TRUE
  BY DEF At, Quiet, ContentBelow
<1>2. ASSUME Trail(p, None), NEW q \in Path, AtOrBelow(p, q)
      PROVE  At(q) = None
  <2>1. RefsBelow(RootRef, q) \subseteq {None}
    <3>1. RefsBelow(RootRef, q) = IF q = p THEN {None} ELSE {}
      BY <1>2, Followed
    <3> QED BY <3>1
  <2>2. Contents(None) = {}
    <3>1. ~IsEntity(ObjectOf(None))
      BY DEF ObjectOf, IsPathRef, IsIdRef, IsEntity, None
    <3> QED BY <3>1
  <2> HIDE DEF Contents
  <2>3. UNION {Contents(r) : r \in RefsBelow(RootRef, q)} = {}
    BY <2>1, <2>2
  <2> QED BY <1>1, <2>3
<1>3. ASSUME Trail(p, PathRef(p, FALSE)), IsEntity(files[p])
      PROVE  /\ At(p) # None
             /\ At(p).meta = files[p].meta
             /\ At(p).data \in {files[p].dataid, edata[p]}
  <2> DEFINE ref == PathRef(p, FALSE)
             e == files[p]
             c == [meta |-> e.meta, data |-> DataOf(ref, e)]
  <2>1. AtOrBelow(p, p)
    <3>1. Len(p) \in Nat
      BY PathLength
    <3> QED BY <3>1 DEF AtOrBelow, IsPrefix
  <2>2. RefsBelow(RootRef, p) = {ref}
    <3>1. Trail(p, ref)
      BY <1>3
    <3> HIDE DEF ref
    <3>2. RefsBelow(RootRef, p) = IF p = p THEN {ref} ELSE {}
      BY <2>1, <3>1, Followed
    <3> QED BY <3>2
  <2>3. ObjectOf(ref) = e
    <3>1. p \in Node
      BY PathLength
    <3> QED BY <3>1, QuietObject
  <2>4. DataOf(ref, e) \in {e.dataid, edata[p]}
    <3>1. ref.path = p
      BY DEF PathRef
    <3> HIDE DEF ref, e
    <3> QED BY <3>1 DEF DataOf, DataFile
  <2>5. Contents(ref) = {c}
    <3>1. {o \in {ObjectOf(ref)} : IsEntity(o)} = {e}
      BY <1>3, <2>3
    <3> HIDE DEF ref, e
    <3> QED BY <3>1
  <2> HIDE DEF Contents, ref, c
  <2>6. UNION {Contents(r) : r \in RefsBelow(RootRef, p)} = {c}
    BY <2>2, <2>5
  <2>7. At(p) = c
    <3> DEFINE found == UNION {Contents(r) : r \in RefsBelow(RootRef, p)}
    <3>1. At(p) = IF found = {} THEN None ELSE CHOOSE x \in found : TRUE
      BY <1>1
    <3>2. found = {c}
      BY <2>6
    <3> HIDE DEF found
    <3> QED BY <3>1, <3>2
  <2>8. c.meta = e.meta /\ c.data = DataOf(ref, e) /\ c # None
    BY DEF c, None
  <2> QED BY <2>4, <2>7, <2>8
<1> QED BY <1>2, <1>3

(* A call that returns leaves a trail. *)
LEMMA ReturnLeaves ==
    ASSUME IInv, LeadInv, Alone', NEW h \in Handle, Returns(h),
           NEW p \in Path, p = Call(h).path
    PROVE  /\ Quiet'
           /\ Call(h).op # "store" => Trail(p, None)'
           /\ Call(h).op = "store" => /\ Trail(p, PathRef(p, FALSE))'
                                      /\ files'[p] = Call(h).leaf /\ IsEntity(Call(h).leaf)
                                      /\ edata' = edata
<1> DEFINE f == Top(h)
<1>1. SaveWorkspace(h) /\ Len(calls[h]) = 1
  BY DEF Returns
<1>2. /\ calls[h] # <<>> /\ f \in PathFrames /\ f.op \in PathOps /\ f.dir = "save"
      /\ f.op # "commit"
  BY <1>1, PathTop DEF SaveWorkspace, PathOps
<1>3. Call(h) = f /\ mem[h] # None /\ Tail(calls[h]) = <<>> /\ Leads(files, f)
  <2>1. Top(h) = calls[h][1] /\ mem[h] # None /\ Tail(calls[h]) = <<>> /\ Leads(files, Top(h))
    BY <1>1, <1>2, ClientWalk
  <2>2. Call(h) = calls[h][1]
    BY <1>1 DEF Call, Last
  <2> QED BY <2>1, <2>2
<1>4. mem[h].root = RootRef
  BY <1>1, <1>2, <1>3 DEF IInv, RootInv, InCall
<1>5. /\ disk' = mem[h] /\ calls' = [calls EXCEPT ![h] = <<>>]
      /\ files' = files /\ edata' = edata
  BY <1>1, <1>3 DEF SaveWorkspace, Return, transient
<1>6. Quiet'
  <2>1. \A g \in Handle : calls'[g] = <<>>
    BY <1>3, <1>5, Others DEF IInv, TypeOK, LeadInv
  <2> QED BY <1>3, <1>4, <1>5, <2>1 DEF Quiet
<1>7. f.path = p
  BY <1>3
<1> HIDE DEF f
<1>8. /\ f.op = "store" => files[p] = f.leaf
      /\ \A i \in 1..Len(p) : LinksTo(files[Upto(p, i - 1)], f, i)
  BY <1>2, <1>3, <1>7 DEF Leads
<1>9. ASSUME f.op # "store"
      PROVE  Trail(p, None)'
  BY <1>5, <1>7, <1>8, <1>9 DEF Trail, LinksTo, Leaves
<1>10. ASSUME f.op = "store"
       PROVE  Trail(p, PathRef(p, FALSE))'
  BY <1>5, <1>7, <1>8, <1>10 DEF Trail, LinksTo, Leaves
<1>11. f.op = "store" => f.leaf # None /\ IsEntity(f.leaf)
  BY <1>2 DEF PathFrames, Entities, IsEntity
<1> QED BY <1>3, <1>5, <1>6, <1>8, <1>9, <1>10, <1>11

(* When storeEntity's call returns its trail ends at the entity, which the *)
(* map shows.                                                              *)
LEMMA Stored ==
    ASSUME IInv, LeadInv, Alone', TrailsTell', NEW h \in Handle, Returns(h), Call(h).op = "store",
           NEW p \in Path, p = Call(h).path
    PROVE  /\ At(p)' # None
           /\ At(p)'.meta = Call(h).leaf.meta
           /\ At(p)'.data \in {Call(h).leaf.dataid, edata[p]}
<1> DEFINE leaf == Call(h).leaf
<1>1. /\ Quiet' /\ Trail(p, PathRef(p, FALSE))'
      /\ files'[p] = leaf /\ IsEntity(leaf) /\ edata' = edata
  BY ReturnLeaves
<1> HIDE DEF leaf
<1>2. /\ At(p)' # None
      /\ At(p)'.meta = files'[p].meta
      /\ At(p)'.data \in {files'[p].dataid, edata'[p]}
  <2>1. IsEntity(files[p])'
    BY <1>1 DEF IsEntity
  <2> QED BY <1>1, <2>1 DEF TrailsTell
<1> QED BY <1>1, <1>2 DEF leaf

(* When deleteEntity's or deleteTree's call returns its trail ends with no *)
(* reference, and the map shows nothing there or below.                    *)
LEMMA Deleted ==
    ASSUME IInv, LeadInv, Alone', TrailsTell'
    PROVE  Deletes
<1> SUFFICES ASSUME NEW h \in Handle, Returns(h), Call(h).op \in {"deleteEntity", "deleteTree"},
                    NEW q \in Path, AtOrBelow(Call(h).path, q)
             PROVE  At(q)' = None
  BY DEF Deletes
<1>1. PICK p \in Path : p = Call(h).path
  <2>1. calls[h] # <<>> /\ Top(h) \in PathFrames /\ Top(h).op # "commit" /\ Len(calls[h]) = 1
    BY PathTop DEF Returns, SaveWorkspace, PathOps
  <2>2. Call(h) = Top(h)
    BY <2>1, ClientWalk DEF Call, Last
  <2> QED BY <2>1, <2>2 DEF PathFrames
<1>2. Quiet' /\ Trail(p, None)'
  BY <1>1, ReturnLeaves
<1>3. AtOrBelow(p, q)
  BY <1>1
<1> QED BY <1>2, <1>3 DEF TrailsTell

(* What holds in every state of a process alone. *)
LEMMA AloneLeads == AloneSpec => [](IInv /\ LeadInv /\ TrailsTell)
<1> DEFINE J == IInv /\ LeadInv
<1>1. Init => J
  BY InitIInv, InitLeads
<1>2. J /\ [Next /\ Unblocked]_vars => J'
  <2> SUFFICES ASSUME J, [Next /\ Unblocked]_vars PROVE J'
    OBVIOUS
  <2>1. [Next]_vars
    OBVIOUS
  <2> QED BY <2>1, NextIInv, NextLeads
<1>3. J => IInv /\ LeadInv /\ TrailsTell
  BY TrailsAreTold DEF IInv
<1> QED BY <1>1, <1>2, <1>3, PTL DEF AloneSpec

(* When storeEntity (workspaceimpl.cpp) returns, the entity is at its path *)
(* with its meta data, and the data its data id names or that was there:   *)
(* for every path and every earlier history of crashes, deletions, commits *)
(* and other processes that have closed the workspace since.               *)
THEOREM StoringStores == AloneSpec => StoreStores
<1> DEFINE A == \A h \in Handle :
                   Returns(h) /\ Call(h).op = "store"
                      => \A p \in Path : p = Call(h).path
                            => /\ At(p)' # None
                               /\ At(p)'.meta = Call(h).leaf.meta
                               /\ At(p)'.data \in {Call(h).leaf.dataid, edata[p]}
<1>1. IInv /\ LeadInv /\ TrailsTell' /\ [Next /\ Unblocked]_vars => [A]_vars
  BY Stored DEF Unblocked
<1>2. AloneSpec => [][A]_vars
  BY <1>1, AloneLeads, PTL DEF AloneSpec
<1> QED BY <1>2 DEF StoreStores

(* When deleteEntity or deleteTree returns, nothing is left at its path or *)
(* below it, be it transient, committed or a mixture of both.              *)
THEOREM DeletingDeletes == AloneSpec => DeleteDeletes
<1>1. IInv /\ LeadInv /\ TrailsTell' /\ [Next /\ Unblocked]_vars => [Deletes]_vars
  BY Deleted DEF Unblocked
<1> QED BY <1>1, AloneLeads, PTL DEF AloneSpec, DeleteDeletes

-----------------------------------------------------------------------------
(* The map, told by the references one meets on the way down, and what the *)
(* steps that write a walk's trees leave of it.                            *)

Base == IF disk = None THEN None ELSE disk.root

Met(q) == RefsBelow(Base, q) \ {None}

Contents(ref) ==
    {[meta |-> e.meta, data |-> DataOf(ref, e)] : e \in {o \in {ObjectOf(ref)} : IsEntity(o)}}

Shown(found) == IF found = {} THEN None ELSE CHOOSE c \in found : TRUE

(* What is met at a path, and what the map shows of it. *)
Unfolds ==
    /\ Met(Root) = {Base} \ {None}
    /\ \A q \in Seq(Name), n \in Name :
          Met(Append(q, n)) = {ObjectOf(r).refs[n] : r \in {s \in Met(q) : IsTree(ObjectOf(s))}} \ {None}
    /\ \A q \in Path : At(q) = Shown(UNION {Contents(r) : r \in Met(q)})

AnyRef == Refs(Objects) \union {RootRef}

LEMMA ObjectType ==
    ASSUME IInv, NEW ref \in AnyRef
    PROVE  ObjectOf(ref) \in Trees(Objects) \union Entities(datas) \union {None}
<1> DEFINE Kept == Trees(Objects) \union Entities(datas) \union {None}
<1>1. Inv
  BY IInvInv
<1>2. \A q : File(q) \in Kept
  BY <1>1, FileType
<1>3. Objects \subseteq Kept
  BY <1>1, StoredTypes DEF Objects
<1> HIDE DEF Kept
<1>4. ASSUME NEW q
      PROVE  Present(q) \in Kept
  <2> DEFINE committing == {h \in Handle : Running(h, "commit")}
             f == Top(CHOOSE h \in committing : TRUE)
  <2>1. CASE committing = {}
    BY <1>2, <2>1 DEF Present
  <2>2. CASE committing # {}
    <3>1. PICK h \in committing : f = Top(h)
      BY <2>2
    <3>2. f.cur \in Currents /\ f.done \in Records(Objects)
      BY <3>1, CommitTop
    <3> HIDE DEF f
    <3>3. f.cur # None /\ f.cur.step = "entity" => f.cur.obj \in Kept
      BY <3>2 DEF Currents, Kept
    <3>4. IdOf(f.done, q) \in Kept
      <4>1. IdOf(f.done, q) \in Objects \union {None}
        BY <3>2, IdOfType
      <4> QED BY <1>3, <4>1 DEF Kept
    <3>5. Present(q) \in {f.cur.obj, IdOf(f.done, q), File(q)}
          /\ (Present(q) = f.cur.obj \/ Present(q) \in {IdOf(f.done, q), File(q)})
      BY <2>2 DEF Present, f
    <3>6. \/ f.cur # None /\ f.cur.step = "entity" /\ Present(q) = f.cur.obj
          \/ Present(q) \in {IdOf(f.done, q), File(q)}
      BY <2>2 DEF Present, f
    <3> QED BY <1>2, <3>3, <3>4, <3>6
  <2> QED BY <2>1, <2>2
<1>5. IsIdRef(ref) => ref.id \in Objects
  BY DEF AnyRef, Refs, IdRefs, PathRefs, IsIdRef, RootRef, PathRef, None
<1>6. None \in Kept
  BY DEF Kept
<1>7. ObjectOf(ref) \in Kept
  BY <1>3, <1>4, <1>5, <1>6 DEF ObjectOf
<1> QED BY <1>7 DEF Kept

LEMMA ChildrenType ==
    ASSUME IInv, NEW refs \in SUBSET AnyRef, NEW n \in Name
    PROVE  Children(refs, n) \in SUBSET AnyRef
<1>1. ASSUME NEW r \in refs, IsTree(ObjectOf(r))
      PROVE  ObjectOf(r).refs[n] \in AnyRef
  <2>1. ObjectOf(r) \in Trees(Objects)
    BY <1>1, ObjectType, Kinds
  <2>2. ObjectOf(r).refs \in [Name -> Refs(Objects)]
    BY <2>1 DEF Trees
  <2> QED BY <2>2 DEF AnyRef
<1> QED BY <1>1 DEF Children

LEMMA BaseType ==
    ASSUME IInv
    PROVE  Base \in AnyRef
<1>1. disk # None => disk.root \in {None, RootRef} \union IdRefs(trees)
  BY DEF IInv, TypeOK, WorkspaceObjs
<1> QED BY <1>1 DEF Base, AnyRef, Refs, IdRefs, Objects

(* RefsBelow goes down segment by segment. *)
GoesDown(root, n, p, r) ==
    /\ r \in [0..n -> SUBSET AnyRef]
    /\ r[0] = {root}
    /\ \A i \in 1..n : r[i] = Children(r[i - 1], p[i])
    /\ RefsBelow(root, p) = r[n]

LEMMA WayDown ==
    ASSUME IInv, NEW root \in AnyRef, NEW p \in Seq(Name)
    PROVE  \E r : GoesDown(root, Len(p), p, r)
<1> DEFINE n == Len(p)
           D == SUBSET AnyRef
           g == [i \in 1..n |-> [R \in D |-> Children(R, p[i])]]
           Is(q) == q = [i \in 0..n |-> IF i = 0 THEN {root} ELSE Children(q[i - 1], p[i])]
<1>1. n \in Nat /\ \A i \in 1..n : p[i] \in Name
  OBVIOUS
<1>2. g \in [1..n -> [D -> D]]
  BY <1>1, ChildrenType
<1>3. \A i \in 1..n : \A R \in D : g[i][R] = Children(R, p[i])
  OBVIOUS
<1>4. RefsBelow(root, p) = (CHOOSE q : Is(q))[n]
  BY DEF RefsBelow, Children
<1>5. {root} \in D
  OBVIOUS
<1> HIDE DEF n, g, D
<1>6. PICK r : Steps(n, D, {root}, g, r)
  BY <1>1, <1>2, <1>5, Recursion
<1>7. r \in [0..n -> D] /\ r[0] = {root} /\ \A i \in 1..n : r[i] = Children(r[i - 1], p[i])
  <2>1. \A i \in 1..n : i - 1 \in 0..n
    BY <1>1
  <2>2. r \in [0..n -> D] /\ r[0] = {root} /\ \A i \in 1..n : r[i] = g[i][r[i - 1]]
    BY <1>6 DEF Steps
  <2>3. \A i \in 1..n : r[i - 1] \in D
    BY <2>1, <2>2
  <2> QED BY <1>3, <2>2, <2>3
<1>8. Is(r)
  <2>1. \A i \in 0..n : i # 0 => i \in 1..n
    BY <1>1
  <2>2. \A i \in 0..n : r[i] = IF i = 0 THEN {root} ELSE Children(r[i - 1], p[i])
    BY <1>7, <2>1
  <2>3. r = [i \in 0..n |-> r[i]]
    BY <1>7
  <2> QED BY <2>2, <2>3
<1>9. ASSUME NEW q, Is(q)
      PROVE  q = r
  <2>1. \A i \in 0..n : q[i] = IF i = 0 THEN {root} ELSE Children(q[i - 1], p[i])
    BY <1>9
  <2>2. q = [i \in 0..n |-> q[i]] /\ r = [i \in 0..n |-> r[i]]
    BY <1>7, <1>9
  <2> HIDE DEF Is
  <2>3. q[0] = r[0]
    BY <1>1, <1>7, <2>1
  <2>4. ASSUME NEW i \in 1..n, q[i - 1] = r[i - 1]
        PROVE  q[i] = r[i]
    <3>1. i \in 0..n /\ i # 0
      BY <1>1
    <3> QED BY <1>7, <2>1, <2>4, <3>1
  <2>5. TakeSameSteps(n, q, r)
    BY <2>3, <2>4 DEF TakeSameSteps
  <2>6. AreSame(n, q, r)
    BY <1>1, <2>5, Unique
  <2> QED BY <2>2, <2>6 DEF AreSame
<1> HIDE DEF Is
<1>10. (CHOOSE q : Is(q)) = r
  BY <1>8, <1>9
<1>11. GoesDown(root, n, p, r)
  BY <1>4, <1>7, <1>10 DEF GoesDown, D
<1> QED BY <1>11 DEF n

LEMMA NothingMet ==
    ASSUME NEW refs, NEW n
    PROVE  /\ ObjectOf(None) = None /\ ~IsTree(None) /\ ~IsEntity(None)
           /\ Contents(None) = {}
           /\ Children(refs \ {None}, n) = Children(refs, n)
<1>1. ObjectOf(None) = None /\ ~IsTree(None) /\ ~IsEntity(None)
  BY DEF ObjectOf, IsPathRef, IsIdRef, IsTree, IsEntity, None
<1> QED BY <1>1 DEF Contents, Children

LEMMA Unfolding == IInv => Unfolds
<1> SUFFICES ASSUME IInv PROVE Unfolds
  OBVIOUS
<1>1. Met(Root) = {Base} \ {None}
  <2>1. Root \in Seq(Name) /\ Len(Root) = 0
    BY DEF Root
  <2>2. PICK r : GoesDown(Base, Len(Root), Root, r)
    BY <2>1, BaseType, WayDown
  <2> QED BY <2>1, <2>2 DEF GoesDown, Met
<1>2. ASSUME NEW q \in Seq(Name), NEW n \in Name
      PROVE  Met(Append(q, n))
               = {ObjectOf(r).refs[n] : r \in {s \in Met(q) : IsTree(ObjectOf(s))}} \ {None}
  <2> DEFINE p == Append(q, n)
             k == Len(q)
  <2>1. p \in Seq(Name) /\ Len(p) = k + 1 /\ k \in Nat /\ p[k + 1] = n
        /\ \A i \in 1..k : p[i] = q[i]
    OBVIOUS
  <2>2. PICK x : GoesDown(Base, k, q, x)
    BY BaseType, WayDown
  <2>3. PICK z : GoesDown(Base, k + 1, p, z)
    BY <2>1, BaseType, WayDown
  <2> HIDE DEF p, k
  <2>4. TakeSameSteps(k, x, z)
    <3>1. \A i \in 1..k : i \in 1..(k + 1)
      BY <2>1
    <3> QED BY <2>1, <2>2, <2>3, <3>1 DEF TakeSameSteps, GoesDown
  <2>5. AreSame(k, x, z)
    BY <2>1, <2>4, Unique
  <2>6. x[k] = z[k]
    BY <2>1, <2>5 DEF AreSame
  <2>7. z[k + 1] = Children(z[k], n)
    <3>1. k + 1 \in 1..(k + 1) /\ (k + 1) - 1 = k
      BY <2>1
    <3> QED BY <2>1, <2>3, <3>1 DEF GoesDown
  <2>8. RefsBelow(Base, p) = Children(RefsBelow(Base, q), n)
    BY <2>2, <2>3, <2>6, <2>7 DEF GoesDown
  <2>9. Met(p) = Children(Met(q), n) \ {None}
    BY <2>8, NothingMet DEF Met
  <2>10. Children(Met(q), n) = {ObjectOf(r).refs[n] : r \in {s \in Met(q) : IsTree(ObjectOf(s))}}
    BY DEF Children
  <2> QED BY <2>9, <2>10 DEF p
<1>3. ASSUME NEW q \in Path
      PROVE  At(q) = Shown(UNION {Contents(r) : r \in Met(q)})
  <2>1. At(q) = Shown(UNION {Contents(r) : r \in RefsBelow(Base, q)})
    BY DEF At, ContentBelow, Contents, Base, Shown
  <2>2. UNION {Contents(r) : r \in RefsBelow(Base, q)} = UNION {Contents(r) : r \in Met(q)}
    <3>1. Contents(None) = {}
      BY NothingMet
    <3> QED BY <3>1 DEF Met
  <2> QED BY <2>1, <2>2
<1> QED BY <1>1, <1>2, <1>3 DEF Unfolds

-----------------------------------------------------------------------------
(* Where a reference lies.                                                 *)

(* Each tree of the workspace refers by path to its own children only.     *)
Placed ==
    \A q \in Node : IsTree(files[q]) =>
        \A n \in TransientNames(files[q]) : files[q].refs[n].path = Append(q, n)

(* So one meets at a path at most one reference, and if it is by path it   *)
(* is to that path.                                                        *)
MetAt(q) ==
    \A r \in Met(q) : /\ r \in AnyRef /\ r # None
                      /\ IsPathRef(r) => r.path = q
                      /\ \A s \in Met(q) : s = r

MetInPlace == \A q \in Seq(Name) : MetAt(q)

LEMMA ObjectInPlace ==
    ASSUME IInv, Placed, CommitFindsChildren, NEW q \in Seq(Name), NEW r \in AnyRef,
           IsPathRef(r) => r.path = q,
           IsTree(ObjectOf(r)), NEW n \in TransientNames(ObjectOf(r))
    PROVE  ObjectOf(r).refs[n].path = Append(q, n)
<1>1. Inv
  BY IInvInv
<1>2. ASSUME NEW t \in Objects, IsTree(t)
      PROVE  TransientNames(t) = {}
  <2>1. ~(t \in entities)
    BY <1>1, <1>2, StoredTypes DEF Entities, IsTree
  <2> QED BY <2>1 DEF Objects, CommitFindsChildren
<1>3. CASE IsIdRef(r)
  <2>1. r.id \in Objects /\ ObjectOf(r) = r.id
    BY <1>3 DEF AnyRef, Refs, IdRefs, PathRefs, IsIdRef, IsPathRef, RootRef, PathRef, None, ObjectOf
  <2> QED BY <1>2, <2>1
<1>4. CASE IsPathRef(r)
  <2> DEFINE committing == {h \in Handle : Running(h, "commit")}
             f == Top(CHOOSE h \in committing : TRUE)
  <2>1. ObjectOf(r) = Present(q)
    <3>1. ~IsIdRef(r)
      BY <1>4 DEF IsPathRef, IsIdRef
    <3>2. ObjectOf(r) = Present(r.path)
      BY <1>4, <3>1 DEF ObjectOf
    <3> QED BY <1>4, <3>2
  <2>2. CASE Present(q) = File(q)
    <3>1. q \in Node /\ ObjectOf(r) = files[q]
      BY <2>1, <2>2 DEF File, IsTree, None
    <3> QED BY <3>1 DEF Placed
  <2>3. CASE Present(q) # File(q)
    <3>1. PICK h \in committing : f = Top(h)
      BY <2>3 DEF Present
    <3>2. f.cur \in Currents /\ f.done \in Records(Objects)
      BY <3>1, CommitTop
    <3>3. \/ f.cur # None /\ f.cur.step = "entity" /\ Present(q) = f.cur.obj
          \/ Present(q) = IdOf(f.done, q)
      BY <2>3, <3>1 DEF Present
    <3> HIDE DEF f
    <3>4. CASE Present(q) = IdOf(f.done, q)
      <4>1. Present(q) \in Objects \union {None}
        BY <3>2, <3>4, IdOfType
      <4> QED BY <1>2, <2>1, <4>1 DEF IsTree, None
    <3>5. CASE f.cur # None /\ f.cur.step = "entity" /\ Present(q) = f.cur.obj
      <4>1. f.cur.obj \in Entities(datas)
        BY <3>2, <3>5 DEF Currents
      <4> QED BY <2>1, <3>5, <4>1 DEF Entities, IsTree
    <3> QED BY <3>3, <3>4, <3>5
  <2> QED BY <2>2, <2>3
<1>5. CASE ~IsIdRef(r) /\ ~IsPathRef(r)
  BY <1>5 DEF ObjectOf, IsTree, None
<1> QED BY <1>3, <1>4, <1>5

(* A path with a segment more than k. *)
LEMMA Longer ==
    ASSUME NEW k \in Nat, NEW q \in Seq(Name), Len(q) = k + 1
    PROVE  /\ Upto(q, k) \in Seq(Name) /\ Len(Upto(q, k)) = k
           /\ q[k + 1] \in Name /\ q = Append(Upto(q, k), q[k + 1])
           /\ \A i \in 0..k : Upto(Upto(q, k), i) = Upto(q, i)
<1>1. k \in 0..Len(q) /\ k + 1 \in 0..Len(q) /\ (k + 1) - 1 = k /\ k + 1 # 0
  OBVIOUS
<1>2. /\ Upto(q, k) \in Seq(Name) /\ Len(Upto(q, k)) = k
      /\ \A i \in 0..k : Upto(Upto(q, k), i) = Upto(q, i)
  BY <1>1, PathPrefix
<1> DEFINE i == k + 1
<1>4. i \in 0..Len(q) /\ i # 0 /\ i - 1 = k /\ i = Len(q)
  BY <1>1
<1> HIDE DEF i
<1>5. q[i] \in Name /\ Upto(q, i) = Append(Upto(q, i - 1), q[i]) /\ Upto(q, Len(q)) = q
  BY <1>4, PathPrefix
<1>3. q[i] \in Name /\ Upto(q, i) = Append(Upto(q, k), q[i]) /\ Upto(q, i) = q
  BY <1>4, <1>5
<1> USE DEF i
<1> QED BY <1>2, <1>3

LEMMA MetAreInPlace ==
    ASSUME IInv, Unfolds, Placed, CommitFindsChildren
    PROVE  MetInPlace
<1> DEFINE S == {k \in Nat : \A q \in Seq(Name) : Len(q) = k => MetAt(q)}
<1>1. 0 \in S
  <2>1. ASSUME NEW q \in Seq(Name), Len(q) = 0
        PROVE  MetAt(q)
    <3>1. q = Root
      BY <2>1 DEF Root
    <3>2. Base \in AnyRef /\ (IsPathRef(Base) => Base.path = Root)
      <4>1. disk # None => disk.root \in {None, RootRef} \union IdRefs(trees)
        BY DEF IInv, TypeOK, WorkspaceObjs
      <4>2. Base \in {None, RootRef} \union IdRefs(trees)
        BY <4>1 DEF Base
      <4> QED BY <4>2, BaseType DEF IdRefs, IsPathRef, RootRef, PathRef, None
    <3> QED BY <3>1, <3>2 DEF Unfolds, MetAt
  <2> QED BY <2>1
<1>2. ASSUME NEW k \in Nat, k \in S
      PROVE  k + 1 \in S
  <2>1. ASSUME NEW p \in Seq(Name), Len(p) = k + 1
        PROVE  MetAt(p)
    <3> DEFINE q == Upto(p, k)
               n == p[k + 1]
    <3>1. q \in Seq(Name) /\ n \in Name /\ p = Append(q, n) /\ Len(q) = k
      BY <2>1, Longer
    <3> HIDE DEF q, n
    <3>2. MetAt(q)
      BY <1>2, <3>1
    <3>3. Met(p) = {ObjectOf(r).refs[n] : r \in {s \in Met(q) : IsTree(ObjectOf(s))}} \ {None}
      BY <3>1 DEF Unfolds
    <3>4. ASSUME NEW r \in Met(q), IsTree(ObjectOf(r))
          PROVE  LET x == ObjectOf(r).refs[n] IN x \in AnyRef /\ (IsPathRef(x) => x.path = p)
      <4>1. r \in AnyRef /\ (IsPathRef(r) => r.path = q)
        BY <3>2, <3>4 DEF MetAt
      <4>2. ObjectOf(r) \in Trees(Objects)
        BY <3>4, <4>1, ObjectType, Kinds
      <4>3. ObjectOf(r).refs \in [Name -> Refs(Objects)]
        BY <4>2 DEF Trees
      <4>4. IsPathRef(ObjectOf(r).refs[n]) => n \in TransientNames(ObjectOf(r))
        BY <3>1 DEF TransientNames
      <4>5. IsPathRef(ObjectOf(r).refs[n]) => ObjectOf(r).refs[n].path = Append(q, n)
        BY <3>1, <3>4, <4>1, <4>4, ObjectInPlace
      <4> QED BY <3>1, <4>3, <4>5 DEF AnyRef
    <3>5. \A r, s \in Met(q) : r = s
      BY <3>2 DEF MetAt
    <3> QED BY <3>3, <3>4, <3>5 DEF MetAt
  <2> QED BY <2>1
<1> HIDE DEF S
<1>3. \A k \in Nat : k \in S
  BY <1>1, <1>2, Induction
<1>4. \A q \in Seq(Name) : Len(q) \in Nat
  OBVIOUS
<1> QED BY <1>3, <1>4 DEF S, MetInPlace

-----------------------------------------------------------------------------
(* What a step leaves as it is.                                            *)

(* Objects change in Z only: what is met at paths that do not lead through *)
(* Z is the same.                                                          *)
LEMMA SameWay ==
    ASSUME Unfolds, Unfolds', Met(Root)' = Met(Root), NEW Z,
           \A q \in Seq(Name) : q \notin Z => \A r \in Met(q) : ObjectOf(r)' = ObjectOf(r)
    PROVE  \A q \in Seq(Name) : (\A i \in 0..(Len(q) - 1) : Upto(q, i) \notin Z) => Met(q)' = Met(q)
<1> DEFINE Clear(q) == \A i \in 0..(Len(q) - 1) : Upto(q, i) \notin Z
           S == {k \in Nat : \A q \in Seq(Name) : Len(q) = k /\ Clear(q) => Met(q)' = Met(q)}
<1>1. 0 \in S
  <2>1. \A q \in Seq(Name) : Len(q) = 0 => q = Root
    BY DEF Root
  <2> QED BY <2>1
<1>2. ASSUME NEW k \in Nat, k \in S
      PROVE  k + 1 \in S
  <2>1. ASSUME NEW p \in Seq(Name), Len(p) = k + 1, Clear(p)
        PROVE  Met(p)' = Met(p)
    <3> DEFINE q == Upto(p, k)
               n == p[k + 1]
    <3>1. q \in Seq(Name) /\ n \in Name /\ p = Append(q, n) /\ Len(q) = k
          /\ \A i \in 0..k : Upto(q, i) = Upto(p, i)
      BY <2>1, Longer
    <3>2. q \notin Z
      BY <2>1
    <3>3. \A i \in 0..(k - 1) : i \in 0..k /\ i \in 0..((k + 1) - 1)
      OBVIOUS
    <3>4. Clear(q)
      BY <2>1, <3>1, <3>3
    <3> HIDE DEF q, n, Clear
    <3>5. Met(q)' = Met(q)
      BY <1>2, <3>1, <3>4
    <3>6. \A r \in Met(q) : ObjectOf(r)' = ObjectOf(r)
      BY <3>1, <3>2
    <3>7. Met(p) = {ObjectOf(r).refs[n] : r \in {s \in Met(q) : IsTree(ObjectOf(s))}} \ {None}
      BY <3>1 DEF Unfolds
    <3>8. Met(p)' = {ObjectOf(r)'.refs[n] : r \in {s \in Met(q)' : IsTree(ObjectOf(s)')}} \ {None}
      BY <3>1 DEF Unfolds
    <3> QED BY ONLY <3>5, <3>6, <3>7, <3>8
  <2> QED BY <2>1
<1> HIDE DEF S
<1>3. \A k \in Nat : k \in S
  BY <1>1, <1>2, Induction
<1>4. \A q \in Seq(Name) : Len(q) \in Nat
  OBVIOUS
<1> QED BY <1>3, <1>4 DEF S

(* The map shows the same where the same is met.                           *)
LEMMA SameTold ==
    ASSUME Unfolds, Unfolds', NEW q \in Path, Met(q)' = Met(q),
           \A r \in Met(q) : ObjectOf(r)' = ObjectOf(r),
           \A r \in Met(q) : IsPathRef(r) => DataFile(r.path)' = DataFile(r.path)
    PROVE  At(q)' = At(q)
<1>1. ASSUME NEW r \in Met(q)
      PROVE  Contents(r)' = Contents(r)
  <2>1. Contents(r)
          = {[meta |-> e.meta,
              data |-> IF IsPathRef(r) /\ DataFile(r.path) # None THEN DataFile(r.path) ELSE e.dataid] :
                e \in {o \in {ObjectOf(r)} : IsEntity(o)}}
    BY DEF Contents, DataOf
  <2>2. Contents(r)'
          = {[meta |-> e.meta,
              data |-> IF IsPathRef(r) /\ DataFile(r.path)' # None THEN DataFile(r.path)' ELSE e.dataid] :
                e \in {o \in {ObjectOf(r)'} : IsEntity(o)}}
    BY DEF Contents, DataOf
  <2>3. ObjectOf(r)' = ObjectOf(r) /\ (IsPathRef(r) => DataFile(r.path)' = DataFile(r.path))
    OBVIOUS
  <2> QED BY <2>1, <2>2, <2>3
<1>2. UNION {Contents(r)' : r \in Met(q)'} = UNION {Contents(r) : r \in Met(q)}
  BY <1>1
<1>3. At(q) = Shown(UNION {Contents(r) : r \in Met(q)})
  BY DEF Unfolds
<1>4. At(q)' = Shown(UNION {Contents(r)' : r \in Met(q)'})
  BY DEF Unfolds
<1> QED BY ONLY <1>2, <1>3, <1>4

(* Where but trees are met the map shows none. *)
Wooded(q) == \A r \in Met(q) : IsTree(ObjectOf(r))

LEMMA WoodedTold ==
    ASSUME NEW q \in Path
    PROVE  /\ Unfolds /\ Wooded(q) => At(q) = None
           /\ Unfolds' /\ Wooded(q)' => At(q)' = None
<1>1. ASSUME Unfolds, Wooded(q)
      PROVE  At(q) = None
  <2>1. \A r \in Met(q) : Contents(r) = {}
    BY <1>1 DEF Wooded, Contents, IsTree, IsEntity
  <2>2. UNION {Contents(r) : r \in Met(q)} = {}
    BY <2>1
  <2> QED BY <1>1, <2>2 DEF Unfolds, Shown
<1>2. ASSUME Unfolds', Wooded(q)'
      PROVE  At(q)' = None
  <2>1. \A r \in Met(q)' : Contents(r)' = {}
    BY <1>2 DEF Wooded, Contents, IsTree, IsEntity
  <2>2. UNION {Contents(r)' : r \in Met(q)'} = {}
    BY <2>1
  <2> QED BY <1>2, <2>2 DEF Unfolds, Shown
<1> QED BY <1>1, <1>2

(* A prefix agrees in its segments. *)
LEMMA PrefixIs ==
    ASSUME NEW p \in Seq(Name), NEW q \in Seq(Name)
    PROVE  AtOrBelow(p, q) <=> Len(p) <= Len(q) /\ \A i \in 1..Len(p) : p[i] = q[i]
<1>1. Len(p) \in Nat /\ Len(q) \in Nat
  OBVIOUS
<1>2. ASSUME Len(p) <= Len(q)
      PROVE  SubSeq(q, 1, Len(p)) \in Seq(Name) /\ Len(SubSeq(q, 1, Len(p))) = Len(p)
             /\ \A i \in 1..Len(p) : SubSeq(q, 1, Len(p))[i] = q[i]
  BY <1>1, <1>2
<1>3. p = SubSeq(p, 1, Len(p))
  OBVIOUS
<1> QED BY <1>1, <1>2, <1>3 DEF AtOrBelow, IsPrefix

(* A step spares what does not lie at p or below it. *)
Spares(p) ==
    \A q \in Seq(Name) : ~AtOrBelow(p, q) =>
        /\ AtOrBelow(q, p) \/ Met(q)' = Met(q)
        /\ Wooded(q) => Wooded(q)'
        /\ q \in Path => At(q)' = At(q)

(* It does when objects change at p only, *)
LEMMA ChangeSpares ==
    ASSUME Unfolds, Unfolds', MetInPlace, Met(Root)' = Met(Root), NEW p \in Seq(Name),
           \A r \in AnyRef : ~(IsPathRef(r) /\ r.path = p) => ObjectOf(r)' = ObjectOf(r),
           \A q \in Seq(Name) : q # p => DataFile(q)' = DataFile(q)
    PROVE  /\ Spares(p)
           /\ \A q \in Seq(Name) : ~AtOrBelow(p, q) \/ q = p => Met(q)' = Met(q)
<1>1. \A q \in Seq(Name) : q # p => \A r \in Met(q) : ObjectOf(r)' = ObjectOf(r)
  BY DEF MetInPlace, MetAt
<1>2. \A q \in Seq(Name) : (\A i \in 0..(Len(q) - 1) : Upto(q, i) # p) => Met(q)' = Met(q)
  <2> DEFINE Z == {p}
  <2>1. \A q \in Seq(Name) : q \notin Z => \A r \in Met(q) : ObjectOf(r)' = ObjectOf(r)
    BY <1>1
  <2>2. \A q, i : Upto(q, i) \notin Z <=> Upto(q, i) # p
    OBVIOUS
  <2> HIDE DEF Z
  <2>3. \A q \in Seq(Name) : (\A i \in 0..(Len(q) - 1) : Upto(q, i) \notin Z) => Met(q)' = Met(q)
    BY <2>1, SameWay
  <2> QED BY <2>2, <2>3
<1>3. ASSUME NEW q \in Seq(Name), ~AtOrBelow(p, q) \/ q = p
      PROVE  Met(q)' = Met(q)
  <2>1. ASSUME NEW i \in 0..(Len(q) - 1), Upto(q, i) = p
        PROVE  FALSE
    <3>1. i \in 0..Len(q) /\ i # Len(q)
      OBVIOUS
    <3>2. Len(p) = i
      BY <2>1, <3>1, PathPrefix
    <3>3. AtOrBelow(p, q)
      BY <2>1, <3>1, <3>2 DEF AtOrBelow, IsPrefix, Upto
    <3> QED BY <1>3, <3>1, <3>2, <3>3
  <2> QED BY <1>2, <2>1
<1>4. ASSUME NEW q \in Seq(Name), ~AtOrBelow(p, q)
      PROVE  q # p
  BY <1>4 DEF AtOrBelow, IsPrefix
<1>5. ASSUME NEW q \in Seq(Name), ~AtOrBelow(p, q)
      PROVE  /\ Wooded(q) => Wooded(q)'
             /\ q \in Path => At(q)' = At(q)
  <2>1. Met(q)' = Met(q) /\ \A r \in Met(q) : ObjectOf(r)' = ObjectOf(r)
    BY <1>1, <1>3, <1>4, <1>5
  <2>2. \A r \in Met(q) : IsPathRef(r) => r.path = q
    BY DEF MetInPlace, MetAt
  <2>3. Wooded(q) => Wooded(q)'
    BY <2>1 DEF Wooded
  <2>4. DataFile(q)' = DataFile(q)
    BY <1>4, <1>5
  <2>5. ASSUME NEW r \in Met(q), IsPathRef(r)
        PROVE  DataFile(r.path)' = DataFile(r.path)
    <3>1. r.path = q
      BY <2>2, <2>5
    <3> QED BY <2>4, <3>1
  <2> QED BY <2>1, <2>3, <2>5, SameTold
<1> QED BY <1>3, <1>5 DEF Spares

(* and what is spared of a path is spared of a path above it. *)
LEMMA SparesAbove ==
    ASSUME NEW p \in Seq(Name), NEW q \in Seq(Name), AtOrBelow(p, q), Spares(q)
    PROVE  Spares(p)
<1>1. ASSUME NEW r \in Seq(Name), ~AtOrBelow(p, r)
      PROVE  ~AtOrBelow(q, r) /\ (AtOrBelow(r, q) => AtOrBelow(r, p))
  <2>1. /\ Len(p) \in Nat /\ Len(q) \in Nat /\ Len(r) \in Nat
        /\ Len(p) <= Len(q) /\ \A i \in 1..Len(p) : p[i] = q[i]
    BY PrefixIs
  <2>2. ASSUME AtOrBelow(q, r)
        PROVE  FALSE
    BY <1>1, <2>1, <2>2, PrefixIs
  <2>3. ASSUME AtOrBelow(r, q)
        PROVE  AtOrBelow(r, p)
    BY <1>1, <2>1, <2>3, PrefixIs
  <2> QED BY <2>2, <2>3
<1> QED BY <1>1 DEF Spares

-----------------------------------------------------------------------------
(* A walk that comes up writes the trees of its path one by one.  When one *)
(* meets them, they lead to the leaf, and beside the path to what was met  *)
(* there before.                                                           *)
Laid(p, T, i) ==
    /\ IsTree(T[i])
    /\ \A slash \in BOOLEAN : ObjectOf(PathRef(Upto(p, i), slash))' = T[i]
    /\ i + 1 < Len(p) => T[i].refs[p[i + 1]] = PathRef(Upto(p, i + 1), TRUE)
    /\ \A n \in Name : n # p[i + 1] => Met(Append(Upto(p, i), n)) = {T[i].refs[n]} \ {None}

LEMMA Turns ==
    ASSUME NEW p \in Path, NEW i \in 0..(Len(p) - 1)
    PROVE  /\ Len(p) \in Nat /\ i \in Nat /\ i + 1 \in 1..Len(p)
           /\ Upto(p, i) \in Seq(Name) /\ Len(Upto(p, i)) = i /\ Upto(p, 0) = Root
           /\ p[i + 1] \in Name /\ Upto(p, i + 1) = Append(Upto(p, i), p[i + 1])
           /\ AtOrBelow(Upto(p, i), p) /\ ~AtOrBelow(p, Upto(p, i))
<1>1. p \in Seq(Name) /\ Len(p) \in Nat
  BY PathLength
<1> DEFINE k == i + 1
<1>2. i \in Nat /\ i \in 0..Len(p) /\ k \in 0..Len(p) /\ k # 0 /\ k - 1 = i /\ k \in 1..Len(p) /\ i < Len(p)
  BY <1>1
<1> HIDE DEF k
<1>3. Upto(p, i) \in Seq(Name) /\ Len(Upto(p, i)) = i /\ Upto(p, 0) = Root
  BY <1>1, <1>2, PathPrefix
<1>4. p[k] \in Name /\ Upto(p, k) = Append(Upto(p, k - 1), p[k])
  BY <1>1, <1>2, PathPrefix
<1>5. \A l \in 1..i : Upto(p, i)[l] = p[l]
  BY <1>1, <1>2 DEF Upto
<1>6. AtOrBelow(Upto(p, i), p) /\ ~AtOrBelow(p, Upto(p, i))
  BY <1>1, <1>2, <1>3, <1>5, PrefixIs
<1> QED BY <1>1, <1>2, <1>3, <1>4, <1>6 DEF k

LEMMA WeavesPath ==
    ASSUME Unfolds, Unfolds', MetInPlace, NEW p \in Path, NEW j \in 0..(Len(p) - 1), NEW T,
           \A i \in j..(Len(p) - 1) : Laid(p, T, i),
           \A r \in AnyRef : ~(IsPathRef(r) /\ r.path = Upto(p, j)) => ObjectOf(r)' = ObjectOf(r),
           Met(Root)' = Met(Root) \/ (j = 0 /\ Met(Root)' = {RootRef}),
           \A i \in 0..(Len(p) - 1) : Wooded(Upto(p, i))
    PROVE  \A i \in 0..(Len(p) - 1) :
              /\ Wooded(Upto(p, i))'
              /\ \A n \in Name : n # p[i + 1] =>
                    Met(Append(Upto(p, i), n))' = Met(Append(Upto(p, i), n))
<1> DEFINE m == Len(p) - 1
           u(i) == Upto(p, i)
           A(i) == Met(u(i))' = Met(u(i)) /\ \A r \in Met(u(i)) : ObjectOf(r)' = ObjectOf(r)
           B(i) == i >= j /\ \E slash \in BOOLEAN : Met(u(i))' = {PathRef(u(i), slash)}
<1>1. /\ m \in Nat /\ j \in 0..m /\ u(0) = Root
      /\ \A i \in 0..m : /\ u(i) \in Seq(Name) /\ Len(u(i)) = i
                         /\ p[i + 1] \in Name /\ u(i + 1) = Append(u(i), p[i + 1])
  <2>1. Len(p) \in Nat \ {0}
    BY PathLength
  <2> QED BY <2>1, Turns
<1>2. \A i \in 0..m : Wooded(u(i))
  OBVIOUS
<1>3. \A i \in j..m : Laid(p, T, i)
  OBVIOUS
<1>4. \A i \in 0..m : i + 1 < Len(p) <=> i + 1 <= m
  BY <1>1
<1>5. Met(u(0))' = Met(u(0)) \/ (j = 0 /\ Met(u(0))' = {RootRef})
  BY <1>1
<1>6. ASSUME NEW i \in 0..m, NEW n \in Name
      PROVE  /\ Met(Append(u(i), n))
                  = {ObjectOf(r).refs[n] : r \in {s \in Met(u(i)) : IsTree(ObjectOf(s))}} \ {None}
             /\ Met(Append(u(i), n))'
                  = {ObjectOf(r)'.refs[n] : r \in {s \in Met(u(i))' : IsTree(ObjectOf(s)')}} \ {None}
  BY <1>1 DEF Unfolds
<1>7. ASSUME NEW i \in 0..m, Met(u(i))' = Met(u(i))
      PROVE  A(i) \/ B(i)
  <2>1. ASSUME NEW r \in Met(u(i))
        PROVE  /\ r \in AnyRef /\ Met(u(i)) = {r}
               /\ IsPathRef(r) => r.path = u(i) /\ \E slash \in BOOLEAN : r = PathRef(u(i), slash)
    <3>1. r \in AnyRef /\ (IsPathRef(r) => r.path = u(i)) /\ Met(u(i)) = {r}
      BY <1>1, <2>1 DEF MetInPlace, MetAt
    <3>2. IsPathRef(r) => r \in PathRefs \union {RootRef}
      BY <3>1 DEF AnyRef, Refs, IdRefs, IsPathRef, None
    <3>3. ASSUME r \in PathRefs \union {RootRef}
          PROVE  \E slash \in BOOLEAN : r = PathRef(r.path, slash)
      <4>1. CASE r \in PathRefs
        <5>1. r = [to |-> "path", path |-> r.path, slash |-> r.slash] /\ r.slash \in BOOLEAN
          BY <4>1 DEF PathRefs
        <5> QED BY <5>1 DEF PathRef
      <4>2. CASE r = RootRef
        <5>1. RootRef.path = Root
          BY DEF RootRef, PathRef
        <5> QED BY <4>2, <5>1 DEF RootRef
      <4> QED BY <3>3, <4>1, <4>2
    <3> QED BY <3>1, <3>2, <3>3
  <2>2. CASE \E r \in Met(u(i)) : IsPathRef(r) /\ r.path = u(j)
    <3>1. PICK r \in Met(u(i)) : IsPathRef(r) /\ r.path = u(j)
      BY <2>2
    <3>2. u(i) = u(j)
      BY <2>1, <3>1
    <3>3. i = j
      BY <1>1, <3>2
    <3>4. \E slash \in BOOLEAN : Met(u(i)) = {PathRef(u(i), slash)}
      BY <2>1, <3>1
    <3>5. i >= j
      BY <1>1, <3>3
    <3>6. \E slash \in BOOLEAN : Met(u(i))' = {PathRef(u(i), slash)}
      BY <1>7, <3>4
    <3> QED BY <3>5, <3>6
  <2>3. CASE \A r \in Met(u(i)) : ~(IsPathRef(r) /\ r.path = u(j))
    BY <1>7, <2>1, <2>3
  <2> QED BY <2>2, <2>3
<1> HIDE DEF u, m
<1>8. ASSUME NEW i \in 0..m, B(i), NEW n \in Name
      PROVE  Laid(p, T, i) /\ Met(Append(u(i), n))' = {T[i].refs[n]} \ {None} /\ Wooded(u(i))'
  <2>1. PICK slash \in BOOLEAN : Met(u(i))' = {PathRef(u(i), slash)}
    BY <1>8
  <2>2. Laid(p, T, i)
    BY <1>1, <1>3, <1>8
  <2>3. IsTree(T[i]) /\ ObjectOf(PathRef(u(i), slash))' = T[i]
    BY <2>2 DEF Laid, u
  <2>4. Met(Append(u(i), n))'
          = {ObjectOf(r)'.refs[n] : r \in {s \in Met(u(i))' : IsTree(ObjectOf(s)')}} \ {None}
    BY <1>6
  <2>5. Met(Append(u(i), n))' = {T[i].refs[n]} \ {None}
    BY <2>1, <2>3, <2>4
  <2>6. Wooded(u(i))'
    BY <2>1, <2>3 DEF Wooded, IsTree, IsEntity
  <2> QED BY <2>2, <2>5, <2>6
<1>9. ASSUME NEW i \in 0..m, A(i), NEW n \in Name
      PROVE  Met(Append(u(i), n))' = Met(Append(u(i), n))
  <2>1. Met(u(i))' = Met(u(i)) /\ \A r \in Met(u(i)) : ObjectOf(r)' = ObjectOf(r)
    BY <1>9
  <2>2. /\ Met(Append(u(i), n))
             = {ObjectOf(r).refs[n] : r \in {s \in Met(u(i)) : IsTree(ObjectOf(s))}} \ {None}
        /\ Met(Append(u(i), n))'
             = {ObjectOf(r)'.refs[n] : r \in {s \in Met(u(i))' : IsTree(ObjectOf(s)')}} \ {None}
    BY <1>6
  <2> QED BY ONLY <2>1, <2>2
<1>10. \A i \in 0..m : A(i) \/ B(i)
  <2> DEFINE S == {i \in Nat : i > m \/ A(i) \/ B(i)}
  <2>1. 0 \in S
    <3>1. 0 \in 0..m
      BY <1>1
    <3>2. CASE Met(u(0))' = Met(u(0))
      BY <1>7, <3>1, <3>2
    <3>3. CASE j = 0 /\ Met(u(0))' = {RootRef}
      <4>1. RootRef = PathRef(u(0), TRUE)
        BY <1>1 DEF RootRef
      <4>2. \E slash \in BOOLEAN : Met(u(0))' = {PathRef(u(0), slash)}
        BY <3>3, <4>1
      <4> QED BY <3>3, <4>2
    <3> QED BY <1>5, <3>2, <3>3
  <2>2. ASSUME NEW i \in Nat, i \in S
        PROVE  i + 1 \in S
    <3>1. CASE i + 1 > m
      BY <3>1
    <3>2. CASE ~(i + 1 > m)
      <4>1. i \in 0..m /\ i + 1 \in 0..m /\ i + 1 <= m /\ i + 1 \in Nat
        BY <1>1, <3>2
      <4>2. p[i + 1] \in Name /\ u(i + 1) = Append(u(i), p[i + 1])
        BY <1>1, <4>1
      <4>3. CASE A(i)
        <5>1. Met(u(i + 1))' = Met(u(i + 1))
          BY <1>9, <4>1, <4>2, <4>3
        <5>2. A(i + 1) \/ B(i + 1)
          BY <1>7, <4>1, <5>1
        <5> QED BY <4>1, <5>2
      <4>4. CASE B(i)
        <5>1. Laid(p, T, i) /\ Met(u(i + 1))' = {T[i].refs[p[i + 1]]} \ {None}
          BY <1>8, <4>1, <4>2, <4>4
        <5>2. T[i].refs[p[i + 1]] = PathRef(u(i + 1), TRUE)
          BY <1>4, <4>1, <5>1 DEF Laid, u
        <5>3. PathRef(u(i + 1), TRUE) # None
          BY DEF PathRef, None
        <5>4. Met(u(i + 1))' = {PathRef(u(i + 1), TRUE)}
          BY <5>1, <5>2, <5>3
        <5>5. i + 1 >= j
          BY <1>1, <4>1, <4>4
        <5> QED BY <4>1, <5>4, <5>5
      <4>5. A(i) \/ B(i)
        <5>1. i > m \/ A(i) \/ B(i)
          BY <2>2
        <5>2. ~(i > m)
          BY <1>1, <4>1
        <5> QED BY <5>1, <5>2
      <4> QED BY <4>3, <4>4, <4>5
    <3> QED BY <3>1, <3>2
  <2> HIDE DEF S
  <2>3. \A i \in Nat : i \in S
    BY <2>1, <2>2, Induction
  <2>4. \A i \in 0..m : i \in Nat /\ ~(i > m)
    BY <1>1
  <2> QED BY <2>3, <2>4 DEF S
<1>11. ASSUME NEW i \in 0..m
       PROVE  /\ Wooded(u(i))'
              /\ \A n \in Name : n # p[i + 1] => Met(Append(u(i), n))' = Met(Append(u(i), n))
  <2>1. CASE A(i)
    <3>1. Wooded(u(i))'
      BY <1>2, <2>1 DEF Wooded
    <3> QED BY <1>9, <2>1, <3>1
  <2>2. CASE B(i)
    <3>1. Wooded(u(i))'
      BY <1>1, <1>8, <2>2
    <3>2. ASSUME NEW n \in Name, n # p[i + 1]
          PROVE  Met(Append(u(i), n))' = Met(Append(u(i), n))
      <4>1. Laid(p, T, i) /\ Met(Append(u(i), n))' = {T[i].refs[n]} \ {None}
        BY <1>8, <2>2
      <4> QED BY <3>2, <4>1 DEF Laid, u
    <3> QED BY <3>1, <3>2
  <2> QED BY <1>10, <2>1, <2>2
<1> QED BY <1>11 DEF u, m

LEMMA WeavesBeside ==
    ASSUME Unfolds, Unfolds', NEW p \in Path,
           \A i \in 0..(Len(p) - 1) : \A n \in Name :
              n # p[i + 1] => Met(Append(Upto(p, i), n))' = Met(Append(Upto(p, i), n)),
           \A q \in Seq(Name) : ~AtOrBelow(q, p) =>
              \A r \in Met(q) : ObjectOf(r)' = ObjectOf(r)
    PROVE  \A q \in Seq(Name) : ~AtOrBelow(p, q) /\ ~AtOrBelow(q, p) => Met(q)' = Met(q)
<1> DEFINE Off(q) == ~AtOrBelow(p, q) /\ ~AtOrBelow(q, p)
           S == {k \in Nat : \A q \in Seq(Name) : Len(q) = k /\ Off(q) => Met(q)' = Met(q)}
<1>0. p \in Seq(Name) /\ Len(p) \in Nat
  BY PathLength
<1>1. 0 \in S
  <2>1. ASSUME NEW q \in Seq(Name), Len(q) = 0
        PROVE  AtOrBelow(q, p)
    <3>1. Len(q) <= Len(p) /\ \A i \in 1..Len(q) : q[i] = p[i]
      BY <1>0, <2>1
    <3> QED BY <1>0, <3>1, PrefixIs
  <2> QED BY <2>1
<1>2. ASSUME NEW k \in Nat, k \in S
      PROVE  k + 1 \in S
  <2>1. ASSUME NEW q \in Seq(Name), Len(q) = k + 1, Off(q)
        PROVE  Met(q)' = Met(q)
    <3> DEFINE q0 == Upto(q, k)
               n == q[k + 1]
    <3>1. q0 \in Seq(Name) /\ n \in Name /\ q = Append(q0, n) /\ Len(q0) = k
      BY <2>1, Longer
    <3>2. \A i \in 1..k : q0[i] = q[i]
      BY <2>1 DEF Upto
    <3>3. ~AtOrBelow(p, q0)
      BY <1>0, <2>1, <3>1, <3>2, PrefixIs
    <3> HIDE DEF q0
    <3>4. CASE AtOrBelow(q0, p)
      <4>1. k <= Len(p) /\ \A i \in 1..k : p[i] = q0[i]
        BY <1>0, <3>1, <3>4, PrefixIs
      <4>2. k \in 0..(Len(p) - 1)
        <5>1. ASSUME k = Len(p)
              PROVE  FALSE
          <6>1. \A i \in 1..Len(p) : p[i] = q0[i]
            BY <4>1, <5>1
          <6> QED BY <1>0, <3>1, <3>3, <5>1, <6>1, PrefixIs
        <5> QED BY <1>0, <4>1, <5>1
      <4>3. Upto(p, k) \in Seq(Name) /\ Len(Upto(p, k)) = k /\ \A i \in 1..k : Upto(p, k)[i] = p[i]
        BY <1>0, <4>2 DEF Upto
      <4>4. q0 = Upto(p, k)
        <5> DEFINE v == Upto(p, k)
        <5>1. v \in Seq(Name) /\ Len(v) = Len(q0) /\ \A i \in 1..Len(v) : v[i] = q0[i]
          BY <3>1, <4>1, <4>3
        <5> HIDE DEF v
        <5>2. v = q0
          BY <3>1, <5>1
        <5> QED BY <5>2 DEF v
      <4>5. n # p[k + 1]
        <5>1. ASSUME n = p[k + 1]
              PROVE  FALSE
          <6>1. Len(q) <= Len(p)
            BY <1>0, <2>1, <4>2
          <6>2. \A i \in 1..(k + 1) : q[i] = p[i]
            BY <3>2, <4>1, <5>1, <3>1
          <6> QED BY <1>0, <2>1, <6>1, <6>2, PrefixIs
        <5> QED BY <5>1
      <4> HIDE DEF n
      <4> QED BY <3>1, <4>2, <4>4, <4>5
    <3>5. CASE ~AtOrBelow(q0, p)
      <4>1. Met(q0)' = Met(q0)
        BY <1>2, <3>1, <3>3, <3>5
      <4>2. \A r \in Met(q0) : ObjectOf(r)' = ObjectOf(r)
        BY <3>1, <3>5
      <4> HIDE DEF n
      <4>3. Met(q) = {ObjectOf(r).refs[n] : r \in {s \in Met(q0) : IsTree(ObjectOf(s))}} \ {None}
        BY <3>1 DEF Unfolds
      <4>4. Met(q)' = {ObjectOf(r)'.refs[n] : r \in {s \in Met(q0)' : IsTree(ObjectOf(s)')}} \ {None}
        BY <3>1 DEF Unfolds
      <4> QED BY ONLY <4>1, <4>2, <4>3, <4>4
    <3> QED BY <3>4, <3>5
  <2> QED BY <2>1
<1> HIDE DEF S
<1>3. \A k \in Nat : k \in S
  BY <1>1, <1>2, Induction
<1>4. \A q \in Seq(Name) : Len(q) \in Nat
  OBVIOUS
<1> QED BY <1>3, <1>4 DEF S

LEMMA WeaveSpares ==
    ASSUME Unfolds, Unfolds', MetInPlace, NEW p \in Path, NEW j \in 0..(Len(p) - 1), NEW T,
           \A i \in j..(Len(p) - 1) : Laid(p, T, i),
           \A r \in AnyRef : ~(IsPathRef(r) /\ r.path = Upto(p, j)) => ObjectOf(r)' = ObjectOf(r),
           Met(Root)' = Met(Root) \/ (j = 0 /\ Met(Root)' = {RootRef}),
           \A i \in 0..(Len(p) - 1) : Wooded(Upto(p, i)),
           UNCHANGED edata
    PROVE  /\ Spares(p)
           /\ \A i \in 0..(Len(p) - 1) : \A n \in Name :
                 n # p[i + 1] => Met(Append(Upto(p, i), n))' = Met(Append(Upto(p, i), n))
<1>1. \A i \in 0..(Len(p) - 1) :
         /\ Wooded(Upto(p, i))'
         /\ \A n \in Name : n # p[i + 1] =>
               Met(Append(Upto(p, i), n))' = Met(Append(Upto(p, i), n))
  BY WeavesPath
<1>2. p \in Seq(Name) /\ Len(p) \in Nat /\ AtOrBelow(Upto(p, j), p)
  BY PathLength, Turns
<1>3. ASSUME NEW q \in Seq(Name), ~AtOrBelow(q, p)
      PROVE  \A r \in Met(q) : ObjectOf(r)' = ObjectOf(r)
  BY <1>2, <1>3 DEF MetInPlace, MetAt
<1>4. \A q \in Seq(Name) : ~AtOrBelow(p, q) /\ ~AtOrBelow(q, p) => Met(q)' = Met(q)
  BY <1>1, <1>3, WeavesBeside
<1>5. ASSUME NEW q \in Seq(Name), ~AtOrBelow(p, q)
      PROVE  /\ AtOrBelow(q, p) \/ Met(q)' = Met(q)
             /\ Wooded(q) => Wooded(q)'
             /\ q \in Path => At(q)' = At(q)
  <2>1. CASE AtOrBelow(q, p)
    <3>1. Len(q) \in Nat /\ Len(q) <= Len(p) /\ \A i \in 1..Len(q) : q[i] = p[i]
      BY <1>2, <2>1, PrefixIs
    <3>2. Len(q) \in 0..(Len(p) - 1)
      <4>1. Len(q) # Len(p)
        BY <1>2, <1>5, <3>1, PrefixIs
      <4> QED BY <1>2, <3>1, <4>1
    <3>3. q = Upto(p, Len(q))
      BY <1>2, <3>1, <3>2 DEF Upto
    <3> DEFINE k == Len(q)
    <3> HIDE DEF k
    <3>4. k \in 0..(Len(p) - 1) /\ q = Upto(p, k)
      BY <3>2, <3>3 DEF k
    <3>5. Wooded(q) /\ Wooded(q)'
      BY <1>1, <3>4
    <3> QED BY <2>1, <3>5, WoodedTold
  <2>2. CASE ~AtOrBelow(q, p)
    <3>1. Met(q)' = Met(q) /\ \A r \in Met(q) : ObjectOf(r)' = ObjectOf(r)
      BY <1>3, <1>4, <1>5, <2>2
    <3>2. Wooded(q) => Wooded(q)'
      BY <3>1 DEF Wooded
    <3>3. \A r : DataFile(r)' = DataFile(r)
      BY DEF DataFile
    <3>4. q \in Path => At(q)' = At(q)
      BY <3>1, <3>3, SameTold
    <3> QED BY <3>1, <3>2, <3>4
  <2> QED BY <2>1, <2>2
<1> QED BY <1>1, <1>5 DEF Spares

=============================================================================
