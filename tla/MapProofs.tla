------------------------------ MODULE MapProofs ------------------------------
(***************************************************************************)
(* What a step of a call does to the map that the files stand for, for     *)
(* every set of names, paths, meta data and data: a call changes the map   *)
(* only at its path and below it (OnlyItsPath), a commit changes it        *)
(* nowhere and adds to the history exactly the map that its client sees.   *)
(*                                                                         *)
(* A walk rewrites every tree above its path, one at a time, from what it  *)
(* has read on its way down.  WeaveInv says why this leaves what lies      *)
(* beside the path alone: each tree it has read, or will have written,     *)
(* refers beside the path to just what is met there (Woven), though other  *)
(* trees are still to be written and those that are met may be committed   *)
(* ones.  A search that deletes turns to what is met by path (Searched)    *)
(* and runs walks of its own, that rewrite the trees of the outer one.     *)
(*                                                                         *)
(* A commit moves every object it comes to.  CommitInv says that what is   *)
(* met stays: the root is the tree the search began with, then the one it  *)
(* has recorded (Rooted); what the search has yet to turn to has not been  *)
(* recorded (Fresh); what has been recorded is in the store with its data  *)
(* and what has not is in the files (Moved).  When createCommit runs, what *)
(* one meets below the recorded root is what one meets in the workspace,   *)
(* with ids in place of paths.                                             *)
(*                                                                         *)
(* A reader looks at the file of its path first, so an entity's file that  *)
(* no reference leads to would be found where the map shows nothing.       *)
(* StrayInv says that there is none between calls (AllHeld), though a walk *)
(* writes the entity's file long before the tree that refers to it,        *)
(* deleteTree cuts a tree off before or after the files below it go, and a *)
(* commit takes the files one after the other: what lies below a path that *)
(* is being deleted is what its search has yet to turn to (Left).          *)
(*                                                                         *)
(* The file goes from what a walk knows to one lemma per action of a walk, *)
(* a search, a client and a commit, and the first theorems; then from what *)
(* files hold, again action by action, to readers.  What is met going down *)
(* from the root, and what writing trees spares of it, is at the end of    *)
(* WorkspaceProofs.                                                        *)
(***************************************************************************)
EXTENDS WorkspaceProofs

-----------------------------------------------------------------------------
(* What a walk knows of the map.                                           *)

Apart(p, i, t) ==
    \A n \in Name : n # p[i + 1] => Met(Append(Upto(p, i), n)) = {t.refs[n]} \ {None}

(* A tree read at q shows what is met below q. *)
Reading(q, t) ==
    Wooded(q) /\ \A n \in Name : Met(Append(q, n)) = {t.refs[n]} \ {None}

(* A tree at segment i of a path leads on along it. *)
LeadsOver(t, p, i) ==
    /\ IsTree(t)
    /\ i + 1 < Len(p) => t.refs[p[i + 1]] = PathRef(Upto(p, i + 1), TRUE)
    /\ IsPathRef(t.refs[p[i + 1]]) => t.refs[p[i + 1]].path = Upto(p, i + 1)

TreeAt(F, f, i) == IF f.dir = "up" /\ i < Len(f.trees) THEN f.trees[i + 1] ELSE F[Upto(f.path, i)]

Rises(F, f, i) ==
    /\ Wooded(Upto(f.path, i))
    /\ Apart(f.path, i, TreeAt(F, f, i))
    /\ f.dir = "save" \/ i >= f.at => LeadsOver(TreeAt(F, f, i), f.path, i)

(* The trees a walk has read, or will have written, show beside its path   *)
(* what is met there.                                                      *)
Woven(F, f) ==
    /\ f.op \in PathOps /\ f.dir # "root"
    /\ f.dir = "down" => \A i \in 0..(Len(f.trees) - 1) : Reading(Upto(f.path, i), f.trees[i + 1])
    /\ f.dir \in {"up", "save"} => \A i \in 0..(Len(f.path) - 1) : Rises(F, f, i)

(* A search that removes meets trees on its stack, and what it has yet to  *)
(* turn to by path.                                                        *)
Searched(stack) ==
    \A k \in 1..Len(stack) :
        /\ Wooded(stack[k].path)
        /\ \A n \in stack[k].todo : \A r \in Met(Append(stack[k].path, n)) : IsPathRef(r)
        /\ k < Len(stack) => TurnedTo(stack[k], stack[k + 1].path)

CallWoven(F, s) ==
    \/ s[1].op = "commit"
    \/ Len(s) = 1 /\ Woven(F, s[1])
    \/ Len(s) = 2 /\ Base = RootRef /\ Woven(F, s[2]) /\ Searched(s[1].stack)
    \/ /\ Len(s) = 3 /\ Base = RootRef /\ Woven(F, s[3]) /\ Searched(s[2].stack)
       /\ Woven(F, s[1]) /\ TurnedTo(Last(s[2].stack), s[1].path)

WeaveInv ==
    /\ Placed
    /\ \A h \in Handle : calls[h] # <<>> => CallWoven(files, calls[h])

-----------------------------------------------------------------------------
(* Nothing that one meets changes. *)
Still ==
    /\ \A q \in Seq(Name) : Met(q)' = Met(q) /\ \A r \in Met(q) : ObjectOf(r)' = ObjectOf(r)
    /\ Base' = Base

LEMMA StillIs ==
    ASSUME Unfolds, Unfolds', MetInPlace, Base' = Base,
           \A r \in AnyRef : ObjectOf(r)' = ObjectOf(r)
    PROVE  Still
<1>1. Met(Root)' = Met(Root)
  BY DEF Unfolds
<1>2. \A q \in Seq(Name) : \A r \in Met(q) : ObjectOf(r)' = ObjectOf(r)
  BY DEF MetInPlace, MetAt
<1> DEFINE Z == {}
<1>3. \A q \in Seq(Name) : q \notin Z => \A r \in Met(q) : ObjectOf(r)' = ObjectOf(r)
  BY <1>2
<1>4. \A q \in Seq(Name) : (\A i \in 0..(Len(q) - 1) : Upto(q, i) \notin Z) => Met(q)' = Met(q)
  BY <1>1, <1>3, SameWay
<1> QED BY <1>2, <1>4 DEF Still

LEMMA StillSpares ==
    ASSUME Still, Unfolds, Unfolds', UNCHANGED edata, NEW p \in Seq(Name)
    PROVE  Spares(p) /\ \A q \in Path : At(q)' = At(q)
<1>1. \A q \in Seq(Name) : Met(q)' = Met(q) /\ \A r \in Met(q) : ObjectOf(r)' = ObjectOf(r)
  BY DEF Still
<1>2. \A q : DataFile(q)' = DataFile(q)
  BY DEF DataFile
<1>3. \A q \in Seq(Name) : Wooded(q) => Wooded(q)'
  BY <1>1 DEF Wooded
<1>4. ASSUME NEW q \in Path
      PROVE  At(q)' = At(q)
  BY <1>1, <1>2, PathLength, SameTold
<1> QED BY <1>1, <1>3, <1>4 DEF Spares

(* The segments of the path of a frame. *)
LEMMA FrameTurns ==
    ASSUME NEW f \in PathFrames
    PROVE  /\ f.path \in Path /\ f.path \in Seq(Name) /\ Len(f.path) \in Nat \ {0}
           /\ \A i \in 0..(Len(f.path) - 1) :
                 /\ Upto(f.path, i) \in Seq(Name)
                 /\ \A n \in Name : Append(Upto(f.path, i), n) \in Seq(Name)
           /\ f.dir = "down" => \A i \in 0..(Len(f.trees) - 1) : i \in 0..(Len(f.path) - 1)
<1>1. f.path \in Path
  BY DEF PathFrames
<1>2. f.path \in Seq(Name) /\ Len(f.path) \in Nat \ {0}
  BY <1>1, PathLength
<1>3. \A i \in 0..(Len(f.path) - 1) : Upto(f.path, i) \in Seq(Name)
  BY <1>1, Turns
<1>4. ASSUME f.dir = "down", NEW i \in 0..(Len(f.trees) - 1)
      PROVE  i \in 0..(Len(f.path) - 1)
  <2>1. f.at \in 1..Len(f.path) /\ Len(f.trees) = f.at
    BY <1>4 DEF PathFrames
  <2> QED BY <1>2, <2>1
<1>5. \A q \in Seq(Name), n \in Name : Append(q, n) \in Seq(Name)
  OBVIOUS
<1> QED BY <1>1, <1>2, <1>3, <1>4, <1>5

(* Where nothing changes the walk knows what it knew. *)
LEMMA WovenStays ==
    ASSUME Still, NEW f, f.path \in Path, f.dir = "down" => Len(f.trees) \in 1..Len(f.path),
           NEW F, Woven(F, f)
    PROVE  Woven(F, f)'
<1>1. \A q \in Seq(Name) : Met(q)' = Met(q) /\ (Wooded(q) => Wooded(q)')
  BY DEF Still, Wooded
<1>2. ASSUME NEW i \in 0..(Len(f.path) - 1)
      PROVE  /\ Upto(f.path, i) \in Seq(Name)
             /\ \A n \in Name : Append(Upto(f.path, i), n) \in Seq(Name)
  <2>1. Upto(f.path, i) \in Seq(Name)
    BY Turns
  <2> QED BY <2>1, Segments
<1>3. ASSUME f.dir = "down", NEW i \in 0..(Len(f.trees) - 1)
      PROVE  Reading(Upto(f.path, i), f.trees[i + 1])'
  <2>1. Reading(Upto(f.path, i), f.trees[i + 1])
    BY <1>3 DEF Woven
  <2>2. i \in 0..(Len(f.path) - 1)
    BY <1>3, PathLength
  <2> QED BY <1>1, <1>2, <2>1, <2>2 DEF Reading
<1>4. ASSUME f.dir \in {"up", "save"}, NEW i \in 0..(Len(f.path) - 1)
      PROVE  Rises(F, f, i)'
  <2>1. Rises(F, f, i)
    BY <1>4 DEF Woven
  <2> QED BY <1>1, <1>2, <2>1 DEF Rises, Apart
<1> QED BY <1>3, <1>4 DEF Woven

(* What branches off a path lies neither above it nor below. *)
LEMMA Aside ==
    ASSUME NEW p \in Path, NEW i \in 0..(Len(p) - 1), NEW n \in Name, n # p[i + 1]
    PROVE  LET q == Append(Upto(p, i), n)
           IN  q \in Seq(Name) /\ ~AtOrBelow(p, q) /\ ~AtOrBelow(q, p)
<1> DEFINE u == Upto(p, i)
           q == Append(u, n)
<1>1. p \in Seq(Name) /\ Len(p) \in Nat /\ u \in Seq(Name) /\ Len(u) = i
  BY PathLength, Turns
<1> HIDE DEF u
<1>2. q \in Seq(Name) /\ Len(q) = i + 1 /\ q[i + 1] = n
  BY <1>1
<1> HIDE DEF q
<1>3. i + 1 \in 1..Len(p) /\ i + 1 \in 1..Len(q)
  BY <1>1, <1>2
<1>4. p[i + 1] # q[i + 1]
  BY <1>2
<1>5. ~AtOrBelow(p, q) /\ ~AtOrBelow(q, p)
  BY <1>1, <1>2, <1>3, <1>4, PrefixIs
<1> QED BY <1>2, <1>5 DEF q, u

(* A walk that has not begun to write is not disturbed by what happens     *)
(* at its leaf or below.                                                   *)
LEMMA WovenBeside ==
    ASSUME NEW f \in PathFrames, NEW F, NEW G, Woven(F, f), f.dir = "up",
           f.at + 1 = Len(f.path), Spares(f.path)
    PROVE  Woven(G, f)'
<1>1. Len(f.trees) = Len(f.path) /\ Len(f.path) \in Nat
  BY PathLength DEF PathFrames
<1>2. ASSUME NEW i \in 0..(Len(f.path) - 1)
      PROVE  Rises(G, f, i)'
  <2>1. Rises(F, f, i)
    BY <1>2 DEF Woven
  <2>2. TreeAt(F, f, i) = f.trees[i + 1] /\ TreeAt(G, f, i) = f.trees[i + 1]
    BY <1>1 DEF TreeAt
  <2>3. f.path \in Path
    BY DEF PathFrames
  <2>4. /\ Upto(f.path, i) \in Seq(Name) /\ ~AtOrBelow(f.path, Upto(f.path, i))
    BY <2>3, Turns
  <2>5. Wooded(Upto(f.path, i))'
    BY <2>1, <2>4 DEF Rises, Spares
  <2>6. \A n \in Name : n # f.path[i + 1] =>
            Met(Append(Upto(f.path, i), n))' = Met(Append(Upto(f.path, i), n))
    BY <2>3, Aside DEF Spares
  <2> QED BY <2>1, <2>2, <2>5, <2>6 DEF Rises, Apart
<1> QED BY <1>2 DEF Woven

-----------------------------------------------------------------------------
(* While no commit runs what one meets by path is a file. *)
OnFiles == \A q : Present(q) = File(q)

LEMMA NoneCommits ==
    ASSUME IInv, Alone, NEW h \in Handle, mem[h] # None, ~Running(h, "commit")
    PROVE  /\ OnFiles
           /\ (\A g \in Handle \ {h} : calls'[g] = calls[g]) /\ ~Running(h, "commit")' => OnFiles'
<1>1. \A g \in Handle \ {h} : calls[g] = <<>>
  BY Others
<1>2. \A g \in Handle : ~Running(g, "commit")
  BY <1>1 DEF Running
<1>3. ASSUME \A g \in Handle \ {h} : calls'[g] = calls[g], ~Running(h, "commit")'
      PROVE  \A g \in Handle : ~Running(g, "commit")'
  BY <1>1, <1>3 DEF Running
<1> QED BY <1>2, <1>3 DEF OnFiles, Present

(* What is read at a reference shows what is met below it. *)
LEMMA TreeIsRead ==
    ASSUME IInv, OnFiles, Unfolds, NEW q \in Seq(Name), NEW ref \in AnyRef,
           Met(q) = {ref} \ {None}, SegTree(ref) # None
    PROVE  Reading(q, SegTree(ref))
<1>1. \A n \in Name :
         Met(Append(q, n)) = {ObjectOf(r).refs[n] : r \in {s \in Met(q) : IsTree(ObjectOf(s))}} \ {None}
  BY DEF Unfolds
<1>2. CASE ref = None
  <2>1. Met(q) = {}
    BY <1>2
  <2>2. \A n \in Name : Met(Append(q, n)) = {}
    BY <1>1, <2>1
  <2>3. \A n \in Name : SegTree(ref).refs[n] = None
    BY <1>2 DEF SegTree, EmptyTree, TreeObj
  <2> QED BY <2>1, <2>2, <2>3 DEF Reading, Wooded
<1>3. CASE ref # None
  <2> DEFINE t == SegTree(ref)
  <2>1. t = TreeOf(ref) /\ t # None /\ IsTree(t)
    <3>1. TreeOf(ref) \in Trees(Objects) \union {None}
      BY IInvInv, TreeOfType
    <3> QED BY <1>3, <3>1 DEF SegTree, Trees, IsTree
  <2>2. ObjectOf(ref) = t
    <3>1. CASE IsPathRef(ref)
      <4>1. ~IsIdRef(ref) /\ t = File(ref.path)
        BY <2>1, <3>1 DEF TreeOf, IsPathRef, IsIdRef
      <4> QED BY <3>1, <4>1 DEF ObjectOf, OnFiles, IsPathRef
    <3>2. CASE ~IsPathRef(ref)
      <4>1. IsIdRef(ref) /\ t = ref.id
        BY <2>1, <3>2 DEF TreeOf
      <4> QED BY <3>2, <4>1 DEF ObjectOf
    <3> QED BY <3>1, <3>2
  <2> HIDE DEF t
  <2>3. Met(q) = {ref}
    BY <1>3
  <2>4. Wooded(q)
    BY <2>1, <2>2, <2>3 DEF Wooded
  <2>5. \A n \in Name : Met(Append(q, n)) = {t.refs[n]} \ {None}
    BY <1>1, <2>1, <2>2, <2>3
  <2> QED BY <2>4, <2>5 DEF Reading, t
<1> QED BY <1>2, <1>3

(* A walk turns at its leaf, *)
LEMMA WovenTurns ==
    ASSUME NEW f \in PathFrames, NEW F, NEW G, Woven(F, f), f.dir = "down",
           f.at = Len(f.path), f.op \in PathOps, Spares(f.path),
           NEW ref, IsPathRef(ref) => ref.path = f.path,
           NEW g, g.op = f.op, g.path = f.path, g.dir = "up", g.at + 1 = Len(f.path), g.at \in Nat,
           Len(g.trees) = Len(f.path),
           \A i \in 1..(Len(f.path) - 1) : g.trees[i] = f.trees[i],
           g.trees[Len(f.path)] = Link(f.trees[Len(f.path)], f.path[Len(f.path)], ref)
    PROVE  Woven(G, g)'
<1> DEFINE p == f.path
           l == Len(p)
<1>1. p \in Path /\ p \in Seq(Name) /\ l \in Nat \ {0}
  BY FrameTurns
<1>2. f.trees \in Seq(Trees(Objects)) /\ Len(f.trees) = l
  BY DEF PathFrames
<1>3. ASSUME NEW i \in 0..(l - 1)
      PROVE  Rises(G, g, i)'
  <2> DEFINE t == f.trees[i + 1]
             x == g.trees[i + 1]
  <2>1. Reading(Upto(p, i), t)
    BY <1>1, <1>2 DEF Woven
  <2>2. TreeAt(G, g, i) = x
    BY <1>1 DEF TreeAt
  <2>3. t \in Trees(Objects) /\ p[i + 1] \in Name
    BY <1>1, <1>2
  <2>4. i + 1 = l \/ i + 1 \in 1..(l - 1)
    BY <1>1
  <2>5. \A n \in Name : n # p[i + 1] => x.refs[n] = t.refs[n]
    <3>1. CASE i + 1 = l
      <4>1. x = Link(t, p[i + 1], ref)
        BY <3>1
      <4> QED BY <2>3, <4>1, LinkRefs
    <3>2. CASE i + 1 \in 1..(l - 1)
      BY <3>2
    <3> QED BY <2>4, <3>1, <3>2
  <2>6. /\ Upto(p, i) \in Seq(Name) /\ ~AtOrBelow(p, Upto(p, i))
    BY <1>1, Turns
  <2>7. Wooded(Upto(p, i))'
    BY <2>1, <2>6 DEF Reading, Spares
  <2>8. \A n \in Name : n # p[i + 1] => Met(Append(Upto(p, i), n))' = Met(Append(Upto(p, i), n))
    BY <1>1, Aside DEF Spares
  <2>9. ASSUME i >= g.at
        PROVE  LeadsOver(x, p, i)
    <3>1. i + 1 = l
      BY <1>1, <2>9
    <3>2. x = Link(t, p[i + 1], ref)
      BY <3>1
    <3>3. IsTree(x) /\ x.refs[p[i + 1]] = ref
      BY <2>3, <3>2, LinkRefs
    <3>4. Upto(p, i + 1) = p
      <4>1. Len(p) \in 0..Len(p)
        BY <1>1
      <4> QED BY <1>1, <3>1, <4>1, PathPrefix
    <3>5. ~(i + 1 < Len(p))
      BY <1>1, <3>1
    <3>6. IsPathRef(x.refs[p[i + 1]]) => x.refs[p[i + 1]].path = Upto(p, i + 1)
      BY <3>3, <3>4
    <3> QED BY ONLY <3>3, <3>5, <3>6 DEF LeadsOver
  <2> HIDE DEF x, t
  <2>10. Apart(p, i, x)'
    BY <2>1, <2>5, <2>8 DEF Apart, Reading
  <2>11. g.dir # "save" /\ g.path = p
    OBVIOUS
  <2> HIDE DEF p
  <2> QED BY <2>2, <2>7, <2>9, <2>10, <2>11 DEF Rises
<1> QED BY <1>3 DEF Woven

(* and comes up, writing the trees of its path one by one. *)
LEMMA WovenRises ==
    ASSUME Unfolds, Unfolds', MetInPlace, UNCHANGED edata,
           NEW f \in PathFrames, NEW F, NEW G, Woven(F, f),
           NEW j \in 0..(Len(f.path) - 1), (f.dir = "up" /\ j = f.at) \/ (f.dir = "save" /\ j = 0),
           \A i \in 0..(Len(f.path) - 1) :
              /\ G[Upto(f.path, i)] = IF i = j THEN TreeAt(F, f, j) ELSE F[Upto(f.path, i)]
              /\ \A slash \in BOOLEAN : ObjectOf(PathRef(Upto(f.path, i), slash))' = G[Upto(f.path, i)],
           \A r \in AnyRef : ~(IsPathRef(r) /\ r.path = Upto(f.path, j)) => ObjectOf(r)' = ObjectOf(r),
           Met(Root)' = Met(Root) \/ (j = 0 /\ Met(Root)' = {RootRef})
    PROVE  /\ Spares(f.path)
           /\ \A i \in 0..(Len(f.path) - 1) :
                 /\ Wooded(Upto(f.path, i))' /\ Apart(f.path, i, TreeAt(F, f, i))'
                 /\ i >= j => TreeAt(F, f, i) = G[Upto(f.path, i)] /\ LeadsOver(TreeAt(F, f, i), f.path, i)
<1> DEFINE p == f.path
           T == [i \in 0..(Len(p) - 1) |-> G[Upto(p, i)]]
<1>1. p \in Path /\ p \in Seq(Name) /\ Len(p) \in Nat \ {0}
  BY FrameTurns
<1>2. f.dir = "up" => Len(f.trees) = f.at + 1 /\ f.at \in Nat
  BY DEF PathFrames
<1>3. ASSUME NEW i \in 0..(Len(p) - 1)
      PROVE  Rises(F, f, i)
  BY <1>3 DEF Woven
<1>4. ASSUME NEW i \in j..(Len(p) - 1)
      PROVE  i \in 0..(Len(p) - 1) /\ TreeAt(F, f, i) = G[Upto(p, i)] /\ LeadsOver(TreeAt(F, f, i), p, i)
  <2>1. i \in 0..(Len(p) - 1) /\ i \in Nat /\ j \in Nat /\ i >= j
    BY <1>1
  <2>2. i # j => TreeAt(F, f, i) = F[Upto(p, i)]
    BY <1>2, <2>1 DEF TreeAt
  <2>3. f.dir = "save" \/ i >= f.at
    BY <2>1
  <2>4. LeadsOver(TreeAt(F, f, i), p, i)
    BY <1>3, <2>1, <2>3 DEF Rises
  <2> HIDE DEF p
  <2>5. G[Upto(p, i)] = IF i = j THEN TreeAt(F, f, j) ELSE F[Upto(p, i)]
    BY <2>1 DEF p
  <2> QED BY <2>1, <2>2, <2>4, <2>5
<1>5. ASSUME NEW i \in j..(Len(p) - 1)
      PROVE  Laid(p, T, i)
  <2>1. i \in 0..(Len(p) - 1) /\ TreeAt(F, f, i) = T[i] /\ LeadsOver(T[i], p, i) /\ T[i] = G[Upto(p, i)]
    BY <1>4
  <2>2. Apart(p, i, T[i])
    BY <1>3, <2>1 DEF Rises
  <2>3. \A slash \in BOOLEAN : ObjectOf(PathRef(Upto(p, i), slash))' = T[i]
    BY <2>1
  <2> HIDE DEF T, p
  <2> QED BY <2>1, <2>2, <2>3 DEF Laid, LeadsOver, Apart
<1>6. \A i \in 0..(Len(p) - 1) : Wooded(Upto(p, i))
  BY <1>3 DEF Rises
<1> HIDE DEF T
<1>7. /\ Spares(p)
      /\ \A i \in 0..(Len(p) - 1) : \A n \in Name :
            n # p[i + 1] => Met(Append(Upto(p, i), n))' = Met(Append(Upto(p, i), n))
  BY <1>1, <1>5, <1>6, WeaveSpares
<1>8. ASSUME NEW i \in 0..(Len(p) - 1)
      PROVE  /\ Wooded(Upto(p, i))' /\ Apart(p, i, TreeAt(F, f, i))'
             /\ i >= j => TreeAt(F, f, i) = G[Upto(p, i)] /\ LeadsOver(TreeAt(F, f, i), p, i)
  <2>1. Upto(p, i) \in Seq(Name) /\ ~AtOrBelow(p, Upto(p, i))
    BY <1>1, Turns
  <2>2. Wooded(Upto(p, i))'
    BY <1>6, <1>7, <2>1 DEF Spares
  <2>3. Apart(p, i, TreeAt(F, f, i))'
    BY <1>3, <1>7 DEF Rises, Apart
  <2>4. i >= j => i \in j..(Len(p) - 1)
    BY <1>1
  <2> QED BY <1>4, <2>2, <2>3, <2>4
<1> QED BY <1>7, <1>8

-----------------------------------------------------------------------------
(* What a step that writes one file does. *)
LEMMA PlacedStays ==
    ASSUME IInv, Placed, NEW q \in Node, NEW obj, files' = [files EXCEPT ![q] = obj],
           IsTree(obj) => \A n \in TransientNames(obj) : obj.refs[n].path = Append(q, n)
    PROVE  Placed'
<1>1. \A x \in Node : files'[x] = IF x = q THEN obj ELSE files[x]
  BY DEF IInv, TypeOK
<1>2. ASSUME NEW x \in Node, IsTree(files'[x])
      PROVE  \A n \in TransientNames(files'[x]) : files'[x].refs[n].path = Append(x, n)
  BY <1>1, <1>2 DEF Placed
<1> QED BY <1>2 DEF Placed, TransientNames

LEMMA FileObjects ==
    ASSUME IInv, OnFiles, OnFiles', NEW q \in Node, NEW obj, files' = [files EXCEPT ![q] = obj]
    PROVE  /\ \A r \in AnyRef : ~(IsPathRef(r) /\ r.path = q) => ObjectOf(r)' = ObjectOf(r)
           /\ \A x \in Node, slash \in BOOLEAN :
                 ObjectOf(PathRef(x, slash))' = IF x = q THEN obj ELSE files[x]
<1>1. \A x \in Node : files'[x] = IF x = q THEN obj ELSE files[x]
  BY DEF IInv, TypeOK
<1>2. \A x : Present(x) = File(x) /\ Present(x)' = File(x)'
  BY DEF OnFiles
<1>3. \A x : x # q => File(x)' = File(x)
  BY <1>1 DEF File
<1>4. ASSUME NEW r \in AnyRef, ~(IsPathRef(r) /\ r.path = q)
      PROVE  ObjectOf(r)' = ObjectOf(r)
  BY <1>2, <1>3, <1>4 DEF ObjectOf
<1>5. ASSUME NEW x \in Node, NEW slash \in BOOLEAN
      PROVE  ObjectOf(PathRef(x, slash))' = IF x = q THEN obj ELSE files[x]
  <2> DEFINE ref == PathRef(x, slash)
  <2>1. IsPathRef(ref) /\ ~IsIdRef(ref) /\ ref.path = x
    BY DEF PathRef, IsPathRef, IsIdRef
  <2>2. ObjectOf(ref)' = File(x)'
    BY <1>2, <2>1 DEF ObjectOf, IsPathRef, IsIdRef
  <2>3. File(x)' = files'[x]
    BY DEF File
  <2> QED BY <1>1, <2>2, <2>3
<1> QED BY <1>4, <1>5

LEMMA SameObjects ==
    ASSUME OnFiles, OnFiles', UNCHANGED files
    PROVE  \A r \in AnyRef : ObjectOf(r)' = ObjectOf(r)
<1>1. \A x : Present(x)' = Present(x)
  BY DEF OnFiles, File
<1> QED BY <1>1 DEF ObjectOf

(* The tree that a walk writes refers to its own children. *)
LEMMA RisenPlaced ==
    ASSUME MetInPlace, NEW f \in PathFrames, NEW F, NEW j \in 0..(Len(f.path) - 1),
           Rises(F, f, j), LeadsOver(TreeAt(F, f, j), f.path, j)
    PROVE  LET t == TreeAt(F, f, j)
           IN  \A n \in TransientNames(t) : t.refs[n].path = Append(Upto(f.path, j), n)
<1> DEFINE t == TreeAt(F, f, j)
           p == f.path
<1> SUFFICES ASSUME NEW n \in TransientNames(t)
             PROVE  t.refs[n].path = Append(Upto(p, j), n)
  OBVIOUS
<1>1. n \in Name /\ IsPathRef(t.refs[n]) /\ t.refs[n] # None
  BY DEF TransientNames, IsPathRef, None
<1>2. p \in Path
  BY FrameTurns
<1>3. CASE n = p[j + 1]
  <2>1. t.refs[n].path = Upto(p, j + 1)
    BY <1>1, <1>3 DEF LeadsOver
  <2> QED BY <1>2, <1>3, <2>1, Turns
<1>4. CASE n # p[j + 1]
  <2>1. Met(Append(Upto(p, j), n)) = {t.refs[n]} \ {None}
    BY <1>1, <1>4 DEF Rises, Apart
  <2> HIDE DEF t
  <2>2. t.refs[n] \in Met(Append(Upto(p, j), n)) /\ Append(Upto(p, j), n) \in Seq(Name)
    BY <1>1, <1>2, <1>4, <2>1, Aside
  <2> QED BY <1>1, <2>2 DEF MetInPlace, MetAt
<1> QED BY <1>3, <1>4

-----------------------------------------------------------------------------
(* The path that a search has taken to a place z. *)
LEMMA StackWay ==
    ASSUME NEW stack \in Seq(Visits), stack # <<>>, NEW p \in Seq(Name), Chain(stack, p),
           Last(stack).path \in Seq(Name), NEW z \in Path, TurnedTo(Last(stack), z),
           \A k \in 1..Len(stack) : k < Len(stack) => TurnedTo(stack[k], stack[k + 1].path)
    PROVE  /\ \A k \in 1..Len(stack) : \E i \in 0..(Len(z) - 1) :
                 stack[k].path = Upto(z, i) /\ z[i + 1] \notin stack[k].todo
           /\ AtOrBelow(p, z)
           /\ \A i \in Len(p)..(Len(z) - 1) : \E k \in 1..Len(stack) : stack[k].path = Upto(z, i)
<1> DEFINE q == Last(stack).path
           l == Len(stack)
<1>1. PICK m \in Name : m \notin Last(stack).todo /\ z = Append(q, m)
  BY DEF TurnedTo
<1>2. z \in Seq(Name) /\ Len(z) \in Nat
  BY PathLength
<1>3. q \in Seq(Name) /\ Len(z) = Len(q) + 1 /\ \A i \in 0..Len(q) : Upto(z, i) = Upto(q, i)
  BY <1>1, Segments
<1>4. /\ l \in Nat \ {0} /\ Len(p) \in Nat /\ Len(q) \in Nat
      /\ Len(q) + 1 = Len(p) + l
      /\ \A k \in 1..l : stack[k].path = Upto(q, Len(p) + k - 1)
      /\ Last(stack) = stack[l]
  BY <1>3 DEF Chain, Last
<1> HIDE DEF q, l
<1>5. ASSUME NEW k \in 1..l
      PROVE  /\ Len(p) + k - 1 \in 0..(Len(z) - 1) /\ stack[k].path = Upto(z, Len(p) + k - 1)
             /\ z[Len(p) + k - 1 + 1] \notin stack[k].todo
  <2> DEFINE i == Len(p) + k - 1
  <2>1. i \in 0..(Len(z) - 1) /\ i \in 0..Len(q) /\ i + 1 \in 0..Len(z) /\ i + 1 = Len(p) + k
    BY <1>3, <1>4
  <2>2. stack[k].path = Upto(z, i)
    BY <1>3, <1>4, <2>1
  <2>3. PICK n \in Name : n \notin stack[k].todo /\ Upto(z, i + 1) = Append(Upto(z, i), n)
    <3>1. CASE k = l
      <4>1. i = Len(q) /\ i + 1 = Len(z)
        BY <1>3, <1>4, <3>1
      <4>2. Upto(z, Len(z)) = z /\ Upto(q, Len(q)) = q
        <5>1. Len(z) \in 0..Len(z) /\ Len(q) \in 0..Len(q)
          BY <1>2, <1>4
        <5> QED BY <1>2, <1>3, <5>1, PathPrefix
      <4>3. Upto(z, i) = q
        BY <1>3, <2>1, <4>1, <4>2
      <4> QED BY <1>1, <1>4, <3>1, <4>1, <4>2, <4>3
    <3>2. CASE k < l
      <4> DEFINE k1 == k + 1
      <4>1. k1 \in 1..l /\ Len(p) + k1 - 1 = i + 1 /\ i + 1 \in 0..Len(q)
        BY <1>4, <2>1, <3>2
      <4>2. stack[k1].path = Upto(z, i + 1)
        BY <1>3, <1>4, <4>1
      <4>3. TurnedTo(stack[k], stack[k1].path)
        BY <3>2 DEF l
      <4> HIDE DEF k1, i
      <4> QED BY <2>2, <4>2, <4>3 DEF TurnedTo
    <3> QED BY <1>4, <3>1, <3>2
  <2> HIDE DEF i
  <2>4. i \in 0..(Len(z) - 1) /\ z[i + 1] \in Name /\ Upto(z, i + 1) = Append(Upto(z, i), z[i + 1])
    BY <2>1, Turns
  <2>5. z[i + 1] = n
    <3>1. Upto(z, i) \in Seq(Name)
      BY <2>1, Turns
    <3> QED BY <2>3, <2>4, <3>1, Segments
  <2> QED BY <2>1, <2>2, <2>3, <2>5 DEF i
<1>6. AtOrBelow(p, z)
  <2>1. 1 \in 1..l /\ stack[1].path = p /\ Len(p) + 1 - 1 = Len(p)
    BY <1>4 DEF Chain
  <2>2. p = Upto(z, Len(p)) /\ Len(p) \in 0..(Len(z) - 1)
    BY <1>5, <2>1
  <2> QED BY <2>2, Turns
<1>7. ASSUME NEW i \in Len(p)..(Len(z) - 1)
      PROVE  \E k \in 1..l : stack[k].path = Upto(z, i)
  <2> DEFINE k == i - Len(p) + 1
  <2>1. k \in 1..l /\ Len(p) + k - 1 = i
    BY <1>3, <1>4
  <2> QED BY <1>5, <2>1
<1>8. \A k \in 1..l : \E i \in 0..(Len(z) - 1) :
         stack[k].path = Upto(z, i) /\ z[i + 1] \notin stack[k].todo
  BY <1>5
<1> QED BY <1>6, <1>7, <1>8 DEF l

(* A search knows what it knew when z alone changes, or what is below it. *)
LEMMA SearchedStays ==
    ASSUME NEW stack \in Seq(Visits), Searched(stack), NEW z \in Path, Spares(z),
           \A k \in 1..Len(stack) : \E i \in 0..(Len(z) - 1) :
              stack[k].path = Upto(z, i) /\ z[i + 1] \notin stack[k].todo
    PROVE  Searched(stack)'
<1> SUFFICES ASSUME NEW k \in 1..Len(stack)
             PROVE  /\ Wooded(stack[k].path)'
                    /\ \A n \in stack[k].todo : \A r \in Met(Append(stack[k].path, n))' : IsPathRef(r)
                    /\ k < Len(stack) => TurnedTo(stack[k], stack[k + 1].path)
  BY DEF Searched, TurnedTo
<1>1. PICK i \in 0..(Len(z) - 1) : stack[k].path = Upto(z, i) /\ z[i + 1] \notin stack[k].todo
  OBVIOUS
<1>2. Upto(z, i) \in Seq(Name) /\ ~AtOrBelow(z, Upto(z, i))
  BY Turns
<1>3. Wooded(Upto(z, i))'
  BY <1>1, <1>2 DEF Searched, Spares
<1>4. stack[k].todo \subseteq Name
  BY DEF Visits
<1>5. ASSUME NEW n \in stack[k].todo
      PROVE  Met(Append(Upto(z, i), n))' = Met(Append(Upto(z, i), n))
  <2>1. n \in Name /\ n # z[i + 1]
    BY <1>1, <1>4
  <2> QED BY <2>1, Aside DEF Spares
<1> QED BY <1>1, <1>3, <1>5 DEF Searched

-----------------------------------------------------------------------------
(* The call as a whole.                                                    *)

Context == IInv /\ ChildInv /\ Unfolds /\ WeaveInv

LEMMA InContext ==
    ASSUME Context
    PROVE  /\ IInv /\ ChildInv /\ Unfolds /\ WeaveInv /\ Placed /\ MetInPlace
           /\ Alone /\ CommitFindsChildren
BY MetAreInPlace DEF Context, WeaveInv, ChildInv

(* It goes on, or ends. *)
LEMMA WeavesOn ==
    ASSUME Context, NEW h \in Handle, mem[h] # None,
           NEW s, calls' = [calls EXCEPT ![h] = s],
           NEW F, F = files', s = <<>> \/ CallWoven(F, s)', Placed'
    PROVE  WeaveInv'
<1>1. calls'[h] = s /\ \A g \in Handle \ {h} : calls'[g] = calls[g]
  BY InContext DEF IInv, TypeOK
<1>2. \A g \in Handle \ {h} : calls'[g] = <<>>
  BY <1>1, InContext, Others
<1>3. ASSUME NEW g \in Handle, NEW t, t = calls'[g], t # <<>>
      PROVE  CallWoven(F, t)'
  <2>1. t = s
    BY <1>1, <1>2, <1>3
  <2> QED BY <1>3, <2>1
<1> QED BY <1>3 DEF WeaveInv

LEMMA SearchStack ==
    ASSUME NEW r \in RemoveFrames
    PROVE  /\ r.stack \in Seq(Visits)
           /\ r.stack # <<>> => /\ Last(r.stack).path \in Path /\ Last(r.stack).path \in Seq(Name)
                                /\ Last(r.stack) \in Visits
<1> DEFINE V == {v \in Visits : v.path # Root}
<1>1. r.stack \in Seq(V) /\ V \subseteq Visits
  BY DEF RemoveFrames
<1> HIDE DEF V
<1>2. r.stack \in Seq(Visits)
  BY <1>1, Wider
<1>3. r.stack # <<>> => Last(r.stack) \in V
  BY <1>1, Ends
<1>4. \A v \in V : v \in Visits /\ v.path \in Path /\ v.path \in Seq(Name)
  BY NodeIsPath, PathLength DEF V, Visits
<1> QED BY <1>2, <1>3, <1>4

(* A walk that is a client's call, or that a search has made. *)
LEMMA WalkWeaves ==
    ASSUME Context, Unfolds', NEW h \in Handle, calls[h] # <<>>, Top(h).op \in PathOps,
           NEW f, f = Top(h)
    PROVE  /\ f \in PathFrames /\ f.path \in Path /\ f.path \in Seq(Name)
           /\ mem[h] # None /\ Woven(files, f) /\ OnFiles
           /\ Call(h).op \in PathOps /\ Call(h).path \in Path
           /\ Spares(f.path) => Spares(Call(h).path)
<1>1. IInv /\ ChildInv /\ calls[h] \in Seq(Frames) /\ f \in PathFrames /\ f.op # "commit"
  BY PathTop, InContext DEF IInv, TypeOK
<1>2. mem[h] # None
  BY <1>1 DEF IInv, RootInv, InCall
<1>3. OnFiles
  BY <1>1, <1>2, InContext, NoneCommits DEF Running
<1>4. f.path \in Path /\ f.path \in Seq(Name)
  BY <1>1, FrameTurns
<1>5. f = calls[h][1] /\ CallWoven(files, calls[h])
  BY <1>1, BelowTop, InContext DEF Top, WeaveInv
<1>6. CASE Len(calls[h]) = 1
  <2>1. Call(h) = f
    BY <1>1, <1>5, <1>6 DEF Call, Last
  <2>2. f.path \in Path /\ f.op \in PathOps
    BY <1>4
  <2> QED BY <1>1, <1>2, <1>3, <1>4, <1>5, <1>6, <2>1 DEF CallWoven
<1>7. CASE Len(calls[h]) # 1
  <2> DEFINE r == calls[h][2]
             u == calls[h][3]
  <2>1. /\ NestedFits(f, r) /\ RemoveFits(files, r, u) /\ r \in RemoveFrames /\ u \in PathFrames
        /\ Len(calls[h]) = 3
    BY <1>1, <1>7, WalkNested
  <2>2. Call(h) = u /\ u.op \in PathOps /\ u.path \in Path /\ u.path \in Seq(Name)
    BY <1>1, <2>1, FrameTurns DEF Call, Last, RemoveFits
  <2>3. Woven(files, f) /\ Searched(r.stack) /\ TurnedTo(Last(r.stack), f.path)
    BY <1>1, <1>5, <2>1 DEF CallWoven
  <2> HIDE DEF r, u
  <2>4. AtOrBelow(u.path, f.path)
    <3>1. /\ r.stack \in Seq(Visits) /\ r.stack # <<>> /\ Chain(r.stack, u.path)
          /\ Last(r.stack).path \in Seq(Name)
      BY <2>1, SearchStack DEF NestedFits, RemoveFits
    <3> QED BY <1>4, <2>2, <2>3, <3>1, StackWay DEF Searched
  <2> QED BY <1>1, <1>2, <1>3, <1>4, <2>2, <2>3, <2>4, SparesAbove
<1> QED BY <1>6, <1>7

(* The search that has made a walk knows what it knew. *)
LEMMA SearchWaits ==
    ASSUME Context, Unfolds', NEW h \in Handle, calls[h] # <<>>, Top(h).op \in PathOps,
           Len(calls[h]) # 1, Spares(Top(h).path),
           NEW r, r = calls[h][2], NEW u, u = calls[h][3], NEW F
    PROVE  /\ Base = RootRef /\ Searched(r.stack)' /\ Woven(F, u)'
           /\ TurnedTo(Last(r.stack), Top(h).path)
<1>1. PICK f, stack : f = Top(h) /\ stack = r.stack
  OBVIOUS
<1>2. /\ IInv /\ ChildInv /\ calls[h] \in Seq(Frames) /\ f \in PathFrames
      /\ f.op # "commit" /\ mem[h] # None /\ f.path \in Path /\ Spares(f.path)
  BY <1>1, WalkWeaves, PathTop, InContext DEF IInv, TypeOK
<1>3. f = calls[h][1] /\ CallWoven(files, calls[h])
  BY <1>1, <1>2, BelowTop, InContext DEF Top, WeaveInv
<1>4. /\ NestedFits(f, r) /\ RemoveFits(files, r, u) /\ r \in RemoveFrames /\ u \in PathFrames
      /\ Len(calls[h]) = 3
  BY <1>1, <1>2, WalkNested
<1>5. /\ Woven(files, u) /\ Searched(stack) /\ Base = RootRef
      /\ TurnedTo(Last(stack), f.path)
  <2>1. Woven(files, u) /\ Searched(r.stack) /\ Base = RootRef /\ TurnedTo(Last(r.stack), f.path)
    BY <1>2, <1>3, <1>4 DEF CallWoven
  <2> QED BY <1>1, <2>1
<1>6. /\ stack \in Seq(Visits) /\ stack # <<>> /\ Chain(stack, u.path)
      /\ Last(stack).path \in Seq(Name) /\ u.path \in Seq(Name)
  BY <1>1, <1>4, SearchStack, FrameTurns DEF NestedFits, RemoveFits
<1>7. /\ AtOrBelow(u.path, f.path)
      /\ \A k \in 1..Len(stack) : \E i \in 0..(Len(f.path) - 1) :
            stack[k].path = Upto(f.path, i) /\ f.path[i + 1] \notin stack[k].todo
  BY <1>2, <1>5, <1>6, StackWay DEF Searched
<1>8. Searched(stack)'
  BY <1>2, <1>5, <1>6, <1>7, SearchedStays
<1>9. Woven(F, u)'
  <2>1. Spares(u.path)
    BY <1>2, <1>6, <1>7, PathLength, SparesAbove
  <2> QED BY <1>4, <1>5, <2>1, WovenBeside DEF RemoveFits
<1> QED BY <1>1, <1>5, <1>8, <1>9

(* It goes on. *)
LEMMA WalkWeavesOn ==
    ASSUME Context, Unfolds', NEW h \in Handle, calls[h] # <<>>, Top(h).op \in PathOps,
           NEW f, f = Top(h), NEW g, Continue(h, g), g.path = f.path,
           NEW F, F = files', Woven(F, g)', Spares(f.path), Base' = Base, Placed'
    PROVE  WeaveInv'
<1>1. IInv /\ ChildInv /\ mem[h] # None
  BY WalkWeaves, InContext
<1>2. CASE Len(calls[h]) = 1
  <2>1. calls' = [calls EXCEPT ![h] = <<g>>]
    BY <1>1, <1>2, WalkAlone DEF Continue
  <2> DEFINE s == <<g>>
  <2>2. Len(s) = 1 /\ s[1] = g /\ s # <<>>
    OBVIOUS
  <2> HIDE DEF s
  <2>3. PICK t : t = s
    OBVIOUS
  <2>4. CallWoven(F, t)'
    BY <2>2, <2>3 DEF CallWoven
  <2> QED BY <1>1, <2>1, <2>3, <2>4, WeavesOn DEF s
<1>3. CASE Len(calls[h]) # 1
  <2>1. PICK r, u, s : r = calls[h][2] /\ u = calls[h][3] /\ s = <<g>> \o Tail(calls[h])
    OBVIOUS
  <2>2. Len(s) = 3 /\ s[1] = g /\ s[2] = r /\ s[3] = u
    BY <1>1, <1>3, <2>1, WalkNested
  <2>3. PICK stack : stack = r.stack
    OBVIOUS
  <2>4. Searched(stack)' /\ Woven(F, u)' /\ Base = RootRef /\ TurnedTo(Last(stack), g.path)
    BY <1>3, <2>1, <2>3, SearchWaits
  <2>5. CallWoven(F, s)'
    BY <2>2, <2>3, <2>4 DEF CallWoven
  <2>6. calls' = [calls EXCEPT ![h] = s]
    BY <2>1 DEF Continue
  <2> QED BY <1>1, <2>5, <2>6, WeavesOn
<1> QED BY <1>2, <1>3

-----------------------------------------------------------------------------
(* The steps of a walk.                                                    *)

LEMMA NextOnFiles ==
    ASSUME Context, NEW h \in Handle, mem[h] # None, ~Running(h, "commit"),
           NEW s, calls' = [calls EXCEPT ![h] = s], s = <<>> \/ Head(s).op # "commit"
    PROVE  OnFiles'
<1>1. calls'[h] = s /\ \A g \in Handle \ {h} : calls'[g] = calls[g]
  BY InContext DEF IInv, TypeOK
<1>2. ~Running(h, "commit")'
  BY <1>1 DEF Running, Top
<1> QED BY <1>1, <1>2, InContext, NoneCommits

LEMMA WalkOnFiles ==
    ASSUME Context, Unfolds', NEW h \in Handle, calls[h] # <<>>, Top(h).op \in PathOps,
           NEW g, Continue(h, g), g.op \in PathOps
    PROVE  OnFiles /\ OnFiles'
<1> DEFINE s == <<g>> \o Tail(calls[h])
<1>1. mem[h] # None /\ OnFiles /\ ~Running(h, "commit")
  <2>1. PICK f : f = Top(h)
    OBVIOUS
  <2> QED BY <2>1, WalkWeaves DEF Running, PathOps
<1>2. calls' = [calls EXCEPT ![h] = s]
  BY DEF Continue
<1>3. Head(s).op # "commit"
  <2>1. calls[h] \in Seq(Frames)
    BY InContext DEF IInv, TypeOK
  <2>2. Tail(calls[h]) \in Seq(Frames)
    BY <2>1, Ends
  <2>3. Head(s) = g
    BY <2>2, OnTop
  <2> QED BY <2>3 DEF PathOps
<1> HIDE DEF s
<1> QED BY <1>1, <1>2, <1>3, NextOnFiles

(* Down to the next tree nothing changes. *)
LEMMA DescendWeaves ==
    ASSUME Context, Unfolds', NEW h \in Handle, Descend(h)
    PROVE  WeaveInv' /\ Spares(Call(h).path) /\ Spares(Top(h).path)
<1>1. PICK f : f = Top(h)
  OBVIOUS
<1>2. PICK F, child, g : F = files' /\ child = SegTree(SegRef(f))
                         /\ g = [f EXCEPT !.trees = Append(f.trees, child), !.at = f.at + 1]
  OBVIOUS
<1>3. /\ calls[h] # <<>> /\ f \in PathFrames /\ f.op \in PathOps /\ f.dir = "down"
      /\ f.at \in 1..Len(f.path) /\ f.trees \in Seq(Trees(Objects)) /\ Len(f.trees) = f.at
      /\ SegRef(f) \in Refs(Objects) /\ f.at # Len(f.path) /\ child # None
  BY <1>1, <1>2, DownTop, InContext DEF Descend, AtLeaf
<1>4. f.path \in Path /\ f.path \in Seq(Name) /\ Woven(files, f) /\ OnFiles /\ Call(h).path \in Path
      /\ (Spares(f.path) => Spares(Call(h).path))
  BY <1>1, <1>3, WalkWeaves
<1>5. /\ g.op = f.op /\ g.path = f.path /\ g.dir = "down" /\ g.trees = Append(f.trees, child)
  BY <1>2, <1>3 DEF PathFrames
<1>6. Continue(h, g) /\ UNCHANGED <<files, edata, disk>>
  BY <1>1, <1>2 DEF Descend, transient
<1>7. OnFiles'
  BY <1>1, <1>3, <1>5, <1>6, WalkOnFiles
<1>8. Still
  <2>1. Base' = Base
    BY <1>6 DEF Base
  <2> QED BY <1>4, <1>6, <1>7, <2>1, InContext, SameObjects, StillIs
<1>9. Spares(f.path)
  BY <1>4, <1>6, <1>8, InContext, StillSpares
<1>10. Len(f.path) \in Nat /\ f.at \in Nat /\ f.at \in 0..(Len(f.path) - 1) /\ f.at - 1 \in 0..(Len(f.path) - 1)
       /\ f.at - 1 + 1 = f.at /\ f.at - 1 \in 0..(Len(f.trees) - 1)
  BY <1>3, <1>4, PathLength
<1>11. Reading(Upto(f.path, f.at), child)
  <2>1. Reading(Upto(f.path, f.at - 1), f.trees[f.at])
    BY <1>3, <1>4, <1>10 DEF Woven
  <2>2. SegRef(f) = f.trees[f.at].refs[f.path[f.at]]
    BY <1>3 DEF SegRef, Last
  <2>3. f.path[f.at] \in Name /\ Upto(f.path, f.at) = Append(Upto(f.path, f.at - 1), f.path[f.at])
        /\ Upto(f.path, f.at) \in Seq(Name)
    <3> DEFINE p == f.path
               k == f.at - 1
    <3>1. p \in Path /\ k \in 0..(Len(p) - 1) /\ k + 1 = f.at /\ f.at \in 0..(Len(p) - 1)
      BY <1>4, <1>10
    <3> HIDE DEF p, k
    <3>2. p[k + 1] \in Name /\ Upto(p, k + 1) = Append(Upto(p, k), p[k + 1])
      BY ONLY <3>1, Turns
    <3>3. Upto(p, f.at) \in Seq(Name)
      BY ONLY <3>1, Turns
    <3> QED BY <3>1, <3>2, <3>3 DEF p, k
  <2>4. Met(Upto(f.path, f.at)) = {SegRef(f)} \ {None}
    BY <2>1, <2>2, <2>3 DEF Reading
  <2> QED BY <1>2, <1>3, <1>4, <2>3, <2>4, InContext, TreeIsRead DEF AnyRef
<1>12. /\ Len(g.trees) = f.at + 1 /\ g.trees[f.at + 1] = child
       /\ \A i \in 1..f.at : g.trees[i] = f.trees[i]
  BY <1>3, <1>5
<1>13. Woven(files, g)
  <2>1. ASSUME NEW i \in 0..(Len(g.trees) - 1)
        PROVE  Reading(Upto(g.path, i), g.trees[i + 1])
    <3>1. CASE i = f.at
      BY <1>5, <1>11, <1>12, <3>1
    <3>2. CASE i # f.at
      <4>1. i \in 0..(Len(f.trees) - 1) /\ i + 1 \in 1..f.at
        BY <1>3, <1>10, <1>12, <2>1, <3>2
      <4>2. Reading(Upto(f.path, i), f.trees[i + 1])
        BY <1>3, <1>4, <4>1 DEF Woven
      <4> QED BY <1>5, <1>12, <4>1, <4>2
    <3> QED BY <3>1, <3>2
  <2> QED BY <1>3, <1>5, <2>1 DEF Woven
<1>14. Woven(F, g)'
  <2>1. Len(g.trees) \in 1..Len(g.path)
    BY <1>5, <1>10, <1>12
  <2>2. Woven(F, g)
    BY <1>2, <1>6, <1>13
  <2> QED BY <1>4, <1>5, <1>8, <2>1, <2>2, WovenStays
<1>15. Placed' /\ Base' = Base
  BY <1>6, InContext DEF Placed, TransientNames, Base
<1>16. WeaveInv'
  BY <1>1, <1>2, <1>3, <1>5, <1>6, <1>9, <1>14, <1>15, WalkWeavesOn
<1> QED BY <1>1, <1>4, <1>9, <1>16

(* At the leaf the walk turns. *)
LEMMA LeafWeaves ==
    ASSUME Context, Unfolds', NEW h \in Handle, Descending(h), AtLeaf(Top(h)),
           NEW f, f = Top(h), NEW ref, IsPathRef(ref) => ref.path = f.path,
           Continue(h, Ascend(f, ref)), Spares(f.path), Base' = Base, Placed'
    PROVE  WeaveInv' /\ Spares(Call(h).path) /\ Spares(Top(h).path)
<1>1. PICK F, g : F = files' /\ g = Ascend(f, ref)
  OBVIOUS
<1>2. /\ f \in PathFrames /\ f.path \in Path /\ f.op \in PathOps
      /\ f.at = Len(f.path) /\ f.dir = "down" /\ calls[h] # <<>>
      /\ Len(f.trees) = Len(f.path)
      /\ g.op = f.op /\ g.path = f.path /\ g.dir = "up" /\ g.at + 1 = Len(f.path)
      /\ Len(g.trees) = Len(f.path)
      /\ \A i \in 1..(Len(f.path) - 1) : g.trees[i] = f.trees[i]
      /\ g.trees[Len(f.path)] = Link(f.trees[Len(f.path)], f.path[Len(f.path)], ref)
  BY <1>1, TurnTrees, InContext
<1>3. Woven(files, f) /\ (Spares(f.path) => Spares(Call(h).path))
  BY <1>2, WalkWeaves
<1>4. g.at \in Nat
  <2>1. g.at = f.at - 1
    BY <1>1, <1>2 DEF Ascend, PathFrames
  <2> QED BY <1>2, <2>1, PathLength
<1>5. Woven(F, g)'
  BY <1>2, <1>3, <1>4, WovenTurns
<1>6. Continue(h, g)
  BY <1>1
<1>7. WeaveInv'
  BY <1>1, <1>2, <1>5, <1>6, WalkWeavesOn
<1> QED BY <1>3, <1>7

-----------------------------------------------------------------------------
(* What a walk does at its leaf.                                           *)

LEMMA LeafContinues ==
    ASSUME Context, Unfolds', NEW h \in Handle, Descending(h), AtLeaf(Top(h)),
           NEW f, f = Top(h), NEW ref, Continue(h, Ascend(f, ref))
    PROVE  /\ calls[h] # <<>> /\ f \in PathFrames /\ f.path \in Path /\ f.path \in Seq(Name) /\ f.path \in Node
           /\ OnFiles /\ OnFiles'
<1>1. PICK g : g = Ascend(f, ref)
  OBVIOUS
<1>2. f \in PathFrames /\ calls[h] # <<>> /\ f.op \in PathOps /\ g.op = f.op
  BY <1>1, TurnTrees, InContext
<1>3. f.path \in Path /\ f.path \in Seq(Name) /\ f.path \in Node
  BY <1>2, FrameTurns DEF Node
<1>4. Continue(h, g) /\ g.op \in PathOps
  BY <1>1, <1>2
<1>5. OnFiles /\ OnFiles'
  BY <1>2, <1>4, WalkOnFiles
<1> QED BY <1>2, <1>3, <1>5

(* It writes the leaf, or removes it, *)
LEMMA LeafWritten ==
    ASSUME Context, Unfolds', NEW h \in Handle, Descending(h), AtLeaf(Top(h)),
           NEW f, f = Top(h), NEW ref, IsPathRef(ref) => ref.path = f.path,
           Continue(h, Ascend(f, ref)), UNCHANGED disk,
           NEW obj, ~IsTree(obj), files' = [files EXCEPT ![f.path] = obj],
           \A q \in Seq(Name) : q # f.path => DataFile(q)' = DataFile(q)
    PROVE  WeaveInv' /\ Spares(Call(h).path) /\ Spares(Top(h).path)
<1>1. PICK p : p = f.path
  OBVIOUS
<1>2. p \in Path /\ p \in Seq(Name) /\ p \in Node /\ OnFiles /\ OnFiles'
  BY <1>1, LeafContinues
<1>3. files' = [files EXCEPT ![p] = obj]
  BY <1>1
<1>4. \A r \in AnyRef : ~(IsPathRef(r) /\ r.path = p) => ObjectOf(r)' = ObjectOf(r)
  BY <1>2, <1>3, InContext, FileObjects
<1>5. Base' = Base
  BY DEF Base
<1>6. Met(Root)' = Met(Root)
  BY <1>5, InContext DEF Unfolds
<1>7. Spares(p)
  BY <1>1, <1>2, <1>4, <1>6, InContext, ChangeSpares
<1>8. Placed'
  BY <1>2, <1>3, InContext, PlacedStays
<1> QED BY <1>1, <1>5, <1>7, <1>8, LeafWeaves

(* or there was nothing to remove. *)
LEMMA LeafKept ==
    ASSUME Context, Unfolds', NEW h \in Handle, Descending(h), AtLeaf(Top(h)),
           NEW f, f = Top(h), Continue(h, Ascend(f, None)), UNCHANGED <<files, edata, disk>>
    PROVE  WeaveInv' /\ Spares(Call(h).path) /\ Spares(Top(h).path)
<1>1. f.path \in Seq(Name) /\ OnFiles /\ OnFiles'
  BY LeafContinues
<1>2. Base' = Base
  BY DEF Base
<1>3. Still
  BY <1>1, <1>2, InContext, SameObjects, StillIs
<1>4. Spares(f.path)
  BY <1>1, <1>3, InContext, StillSpares
<1>5. Placed'
  BY InContext DEF Placed, TransientNames
<1>6. ~IsPathRef(None)
  BY DEF IsPathRef, None
<1> QED BY <1>2, <1>4, <1>5, <1>6, LeafWeaves

LEMMA StoreLeafWeaves ==
    ASSUME Context, Unfolds', NEW h \in Handle, StoreLeaf(h)
    PROVE  WeaveInv' /\ Spares(Call(h).path) /\ Spares(Top(h).path)
<1>1. PICK f, ref : f = Top(h) /\ ref = PlaceOf(f.path, f.leaf)
  OBVIOUS
<1>2. /\ Descending(h) /\ AtLeaf(Top(h)) /\ f.op = "store" /\ Continue(h, Ascend(f, ref))
      /\ UNCHANGED <<edata, disk>> /\ files' = [files EXCEPT ![f.path] = f.leaf]
  BY <1>1 DEF StoreLeaf
<1>3. f \in PathFrames
  BY <1>1, <1>2, LeafContinues
<1>4. ~IsTree(f.leaf)
  BY <1>2, <1>3 DEF PathFrames, Entities, IsTree, None
<1>5. ref.path = f.path
  BY <1>1 DEF PlaceOf, PathRef
<1>6. \A q : DataFile(q)' = DataFile(q)
  BY <1>2 DEF DataFile
<1> QED BY <1>1, <1>2, <1>4, <1>5, <1>6, LeafWritten

LEMMA DeleteEntityLeafWeaves ==
    ASSUME Context, Unfolds', NEW h \in Handle, DeleteEntityLeaf(h)
    PROVE  WeaveInv' /\ Spares(Call(h).path) /\ Spares(Top(h).path)
<1>1. PICK f : f = Top(h)
  OBVIOUS
<1>2. Descending(h) /\ AtLeaf(Top(h)) /\ Continue(h, Ascend(f, None)) /\ UNCHANGED disk
  BY <1>1 DEF DeleteEntityLeaf
<1>3. CASE IsPathRef(SegRef(f))
  <2>1. files' = [files EXCEPT ![f.path] = None] /\ edata' = [edata EXCEPT ![f.path] = None]
    BY <1>1, <1>3 DEF DeleteEntityLeaf, FilesWithout
  <2>2. \A q \in Seq(Name) : q # f.path => DataFile(q)' = DataFile(q)
    BY <2>1, InContext DEF DataFile, IInv, TypeOK
  <2>3. ~IsTree(None) /\ ~IsPathRef(None)
    BY DEF IsPathRef, IsTree, None
  <2> QED BY <1>1, <1>2, <2>1, <2>2, <2>3, LeafWritten
<1>4. CASE ~IsPathRef(SegRef(f))
  <2>1. UNCHANGED <<files, edata>>
    BY <1>1, <1>4 DEF DeleteEntityLeaf, transient
  <2> QED BY <1>1, <1>2, <2>1, LeafKept
<1> QED BY <1>3, <1>4

-----------------------------------------------------------------------------
(* objectReferenceForPath finds what is met at a path.                     *)
OnWay(x, n) == IF TreeOf(x) = None THEN x ELSE TreeOf(x).refs[n]

FollowsTo(h, n, p, r) ==
    /\ r \in [0..n -> AnyRef]
    /\ r[0] = mem[h].root
    /\ \A i \in 1..n : r[i] = OnWay(r[i - 1], p[i])
    /\ RefForPath(h, p) = r[n]

LEMMA OnWayType ==
    ASSUME IInv, NEW x \in AnyRef, NEW n \in Name
    PROVE  OnWay(x, n) \in AnyRef
<1>1. TreeOf(x) \in Trees(Objects) \union {None}
  BY IInvInv, TreeOfType
<1> QED BY <1>1 DEF OnWay, Trees, AnyRef

LEMMA WayFollowed ==
    ASSUME IInv, NEW h \in Handle, mem[h] # None, NEW p \in Seq(Name)
    PROVE  \E r : FollowsTo(h, Len(p), p, r)
<1> DEFINE n == Len(p)
           D == AnyRef
           a == mem[h].root
           g == [i \in 1..n |-> [x \in D |-> OnWay(x, p[i])]]
           Is(q) == q = [i \in 0..n |-> IF i = 0 THEN a ELSE OnWay(q[i - 1], p[i])]
<1>1. n \in Nat /\ \A i \in 1..n : p[i] \in Name
  OBVIOUS
<1>2. g \in [1..n -> [D -> D]]
  BY <1>1, OnWayType
<1>3. \A i \in 1..n : \A x \in D : g[i][x] = OnWay(x, p[i])
  OBVIOUS
<1>4. RefForPath(h, p) = (CHOOSE q : Is(q))[n]
  BY DEF RefForPath, OnWay
<1>5. a \in D
  <2>1. a \in {None, RootRef} \union IdRefs(trees)
    BY DEF IInv, TypeOK, WorkspaceObjs
  <2> QED BY <2>1 DEF AnyRef, Refs, IdRefs, Objects
<1> HIDE DEF n, g, D
<1>6. PICK r : Steps(n, D, a, g, r)
  BY <1>1, <1>2, <1>5, Recursion
<1>7. r \in [0..n -> D] /\ r[0] = a /\ \A i \in 1..n : r[i] = OnWay(r[i - 1], p[i])
  <2>1. \A i \in 1..n : i - 1 \in 0..n
    BY <1>1
  <2>2. r \in [0..n -> D] /\ r[0] = a /\ \A i \in 1..n : r[i] = g[i][r[i - 1]]
    BY <1>6 DEF Steps
  <2>3. \A i \in 1..n : r[i - 1] \in D
    BY <2>1, <2>2
  <2> QED BY <1>3, <2>2, <2>3
<1> HIDE DEF a
<1>8. Is(r)
  <2>1. \A i \in 0..n : i # 0 => i \in 1..n
    BY <1>1
  <2>2. \A i \in 0..n : r[i] = IF i = 0 THEN a ELSE OnWay(r[i - 1], p[i])
    BY <1>7, <2>1
  <2>3. r = [i \in 0..n |-> r[i]]
    BY <1>7
  <2> QED BY <2>2, <2>3
<1>9. ASSUME NEW q, Is(q)
      PROVE  q = r
  <2>1. \A i \in 0..n : q[i] = IF i = 0 THEN a ELSE OnWay(q[i - 1], p[i])
    BY <1>9
  <2>2. q = [i \in 0..n |-> q[i]] /\ r = [i \in 0..n |-> r[i]]
    BY <1>7, <1>9
  <2> HIDE DEF Is
  <2>3. q[0] = r[0]
    BY <1>1, <1>7, <2>1
  <2>4. ASSUME NEW i \in 1..n, q[i - 1] = r[i - 1]
        PROVE  q[i] = r[i]
    <3>1. i \in 0..n /\ i # 0
      BY <1>1
    <3> QED BY <1>7, <2>1, <2>4, <3>1
  <2>5. TakeSameSteps(n, q, r)
    BY <2>3, <2>4 DEF TakeSameSteps
  <2>6. AreSame(n, q, r)
    BY <1>1, <2>5, Unique
  <2> QED BY <2>2, <2>6 DEF AreSame
<1> HIDE DEF Is
<1>10. (CHOOSE q : Is(q)) = r
  BY <1>8, <1>9
<1>11. FollowsTo(h, n, p, r)
  BY <1>4, <1>7, <1>10 DEF FollowsTo, D, a
<1> QED BY <1>11 DEF n

(* The tree that is read at a reference is the object there. *)
LEMMA TreeIsObject ==
    ASSUME IInv, OnFiles, NEW x \in AnyRef, x # None
    PROVE  /\ IsTree(ObjectOf(x)) <=> TreeOf(x) # None
           /\ TreeOf(x) # None => TreeOf(x) = ObjectOf(x)
<1>1. Inv
  BY IInvInv
<1>2. CASE IsPathRef(x)
  <2>1. ObjectOf(x) = File(x.path) /\ ~IsIdRef(x)
    BY <1>2 DEF ObjectOf, OnFiles, IsPathRef, IsIdRef
  <2>2. ~IsTree(None)
    BY DEF IsTree, None
  <2> QED BY <1>2, <2>1, <2>2 DEF TreeOf
<1>3. CASE ~IsPathRef(x)
  <2>1. IsIdRef(x) /\ x.id \in Objects
    BY <1>3 DEF AnyRef, Refs, IdRefs, PathRefs, IsIdRef, IsPathRef, RootRef, PathRef, None
  <2>2. ObjectOf(x) = x.id /\ TreeOf(x) = IF x.id \in trees THEN x.id ELSE None
    BY <1>3, <2>1 DEF ObjectOf, TreeOf
  <2>3. IsTree(x.id) <=> x.id \in trees
    BY <1>1, <2>1, StoredTypes DEF Objects, Trees, Entities, IsTree
  <2>4. x.id \in trees => x.id # None
    BY <2>3 DEF IsTree, None
  <2> QED BY <2>2, <2>3, <2>4
<1> QED BY <1>2, <1>3

LEMMA RefIsMet ==
    ASSUME IInv, OnFiles, Unfolds, NEW h \in Handle, mem[h] # None, mem[h].root = Base,
           NEW p \in Path, \A i \in 0..(Len(p) - 1) : Wooded(Upto(p, i))
    PROVE  RefForPath(h, p) \in AnyRef /\ Met(p) = {RefForPath(h, p)} \ {None}
<1> DEFINE n == Len(p)
<1>1. p \in Seq(Name) /\ n \in Nat
  BY PathLength
<1>2. PICK r : FollowsTo(h, n, p, r)
  BY <1>1, WayFollowed
<1> DEFINE S == {k \in Nat : k <= n => Met(Upto(p, k)) = {r[k]} \ {None}}
<1>3. 0 \in S
  <2>1. Upto(p, 0) = Root
    BY DEF Upto, Root
  <2> QED BY <1>2, <2>1 DEF Unfolds, FollowsTo
<1>4. ASSUME NEW k \in Nat, k \in S
      PROVE  k + 1 \in S
  <2> SUFFICES ASSUME k + 1 <= n
               PROVE  Met(Upto(p, k + 1)) = {r[k + 1]} \ {None}
    OBVIOUS
  <2> DEFINE x == r[k]
             m == p[k + 1]
  <2>1. k \in 0..(Len(p) - 1) /\ k \in 0..n /\ k <= n /\ k + 1 \in 1..n /\ (k + 1) - 1 = k
    BY <1>1
  <2>2. m \in Name /\ Upto(p, k + 1) = Append(Upto(p, k), m) /\ Upto(p, k) \in Seq(Name)
    BY <2>1, Turns
  <2>3. Met(Upto(p, k)) = {x} \ {None} /\ Wooded(Upto(p, k))
    BY <1>4, <2>1
  <2>4. x \in AnyRef /\ r[k + 1] = OnWay(x, m)
    BY <1>2, <2>1 DEF FollowsTo
  <2> HIDE DEF x, m, n
  <2>5. Met(Upto(p, k + 1))
          = {ObjectOf(s).refs[m] : s \in {t \in Met(Upto(p, k)) : IsTree(ObjectOf(t))}} \ {None}
    BY <2>2 DEF Unfolds
  <2>6. CASE x = None
    <3>1. TreeOf(None) = None
      BY DEF TreeOf, IsPathRef, IsIdRef, None
    <3> QED BY <2>3, <2>4, <2>5, <2>6, <3>1 DEF OnWay
  <2>7. CASE x # None
    <3>1. IsTree(ObjectOf(x))
      BY <2>3, <2>7 DEF Wooded
    <3>2. OnWay(x, m) = ObjectOf(x).refs[m]
      BY <2>4, <2>7, <3>1, TreeIsObject DEF OnWay
    <3> QED BY <2>3, <2>4, <2>5, <2>7, <3>1, <3>2
  <2> QED BY <2>6, <2>7
<1> HIDE DEF S
<1>5. n \in S
  BY <1>1, <1>3, <1>4, Induction
<1>6. Met(Upto(p, n)) = {r[n]} \ {None} /\ Upto(p, n) = p
  BY <1>1, <1>5, PathPrefix DEF S
<1> QED BY <1>1, <1>2, <1>6 DEF FollowsTo

(* A file is met only where the workspace's root is one. *)
LEMMA RootIsMet ==
    ASSUME IInv, Unfolds, MetInPlace, CommitFindsChildren,
           NEW p \in Seq(Name), NEW x \in Met(p), IsPathRef(x)
    PROVE  Base = RootRef
<1> SUFFICES ASSUME ~IsPathRef(Base)
             PROVE  FALSE
  <2>1. disk # None => disk.root \in {None, RootRef} \union IdRefs(trees)
    BY DEF IInv, TypeOK, WorkspaceObjs
  <2> QED BY <2>1 DEF Base, IdRefs, IsPathRef, None
<1> DEFINE S == {k \in Nat : \A q \in Seq(Name) : Len(q) = k => \A y \in Met(q) : ~IsPathRef(y)}
<1>1. 0 \in S
  <2>1. \A q \in Seq(Name) : Len(q) = 0 => q = Root
    BY DEF Root
  <2>2. \A y \in Met(Root) : y = Base
    BY DEF Unfolds
  <2> QED BY <2>1, <2>2
<1>2. ASSUME NEW k \in Nat, k \in S
      PROVE  k + 1 \in S
  <2>1. ASSUME NEW z \in Seq(Name), Len(z) = k + 1, NEW y \in Met(z), IsPathRef(y)
        PROVE  FALSE
    <3> DEFINE q == Upto(z, k)
               n == z[k + 1]
    <3>1. q \in Seq(Name) /\ n \in Name /\ z = Append(q, n) /\ Len(q) = k
      BY <2>1, Longer
    <3> HIDE DEF q, n
    <3>2. PICK s \in Met(q) : IsTree(ObjectOf(s)) /\ y = ObjectOf(s).refs[n]
      BY <2>1, <3>1 DEF Unfolds
    <3>3. ~IsPathRef(s) /\ s \in AnyRef /\ s # None
      BY <1>2, <3>1, <3>2 DEF MetInPlace, MetAt
    <3>4. s.id \in Objects /\ ObjectOf(s) = s.id
      BY <3>3 DEF AnyRef, Refs, IdRefs, PathRefs, IsIdRef, IsPathRef, RootRef, PathRef, None, ObjectOf
    <3>5. ObjectOf(s) \notin entities
      BY <3>2, IInvInv, StoredTypes DEF Entities, IsTree
    <3>6. TransientNames(ObjectOf(s)) = {}
      BY <3>4, <3>5 DEF Objects, CommitFindsChildren
    <3> QED BY <2>1, <3>1, <3>2, <3>6 DEF TransientNames
  <2> QED BY <2>1
<1> HIDE DEF S
<1>3. \A k \in Nat : k \in S
  BY <1>1, <1>2, Induction
<1>4. Len(p) \in Nat
  OBVIOUS
<1> QED BY <1>3, <1>4 DEF S

-----------------------------------------------------------------------------
(* A tree that deleteTree is to remove is searched. *)
LEMMA SearchBegins ==
    ASSUME Context, Unfolds', NEW h \in Handle, DeleteTreeLeaf(h),
           IsPathRef(SegRef(Top(h))), GetTree(h, Top(h).path) # None
    PROVE  WeaveInv' /\ Spares(Call(h).path) /\ Spares(Top(h).path)
<1>1. PICK f, g, tree, F : f = Top(h) /\ g = Ascend(f, None) /\ tree = GetTree(h, f.path) /\ F = files'
  OBVIOUS
<1> DEFINE v == Visit(f.path, None, tree)
           stack == <<v>>
           search == [op |-> "remove", stack |-> stack]
           s == <<search>> \o <<g>>
<1>2. /\ Descending(h) /\ AtLeaf(Top(h)) /\ f.op = "deleteTree"
      /\ calls' = [calls EXCEPT ![h] = <<search>> \o (<<g>> \o Tail(calls[h]))]
      /\ UNCHANGED <<files, edata, disk, mem>> /\ tree # None /\ IsPathRef(SegRef(f))
  BY <1>1 DEF DeleteTreeLeaf, transient
<1>3. /\ f \in PathFrames /\ f.path \in Path /\ f.path \in Node /\ f.op \in PathOps
      /\ f.at = Len(f.path) /\ f.dir = "down" /\ calls[h] # <<>>
      /\ Len(f.trees) = Len(f.path)
      /\ g.op = f.op /\ g.path = f.path /\ g.dir = "up" /\ g.at + 1 = Len(f.path)
      /\ Len(g.trees) = Len(f.path)
      /\ \A i \in 1..(Len(f.path) - 1) : g.trees[i] = f.trees[i]
      /\ g.trees[Len(f.path)] = Link(f.trees[Len(f.path)], f.path[Len(f.path)], None)
  BY <1>1, <1>2, TurnTrees, InContext
<1>4. /\ f.path \in Seq(Name) /\ mem[h] # None /\ Woven(files, f) /\ OnFiles
      /\ (Spares(f.path) => Spares(Call(h).path))
  BY <1>1, <1>3, WalkWeaves
<1>5. Len(calls[h]) = 1 /\ Tail(calls[h]) = <<>>
  BY <1>1, <1>2, <1>3, InContext, WalkNested, WalkAlone
<1> HIDE DEF s, stack, search, v
<1>6. calls' = [calls EXCEPT ![h] = s]
  <2>1. <<g>> \o <<>> = <<g>>
    OBVIOUS
  <2> QED BY <1>2, <1>5, <2>1 DEF s
<1>7. OnFiles'
  <2>1. Head(s).op # "commit" /\ ~Running(h, "commit")
    BY <1>1, <1>2, OnTop DEF search, s, Running
  <2> QED BY <1>4, <1>6, <2>1, NextOnFiles
<1>8. Base' = Base
  BY <1>2 DEF Base
<1>9. Still
  BY <1>2, <1>4, <1>7, <1>8, InContext, SameObjects, StillIs
<1>10. Spares(f.path)
  BY <1>2, <1>4, <1>9, InContext, StillSpares
<1>11. \A i \in 0..(Len(f.path) - 1) : Reading(Upto(f.path, i), f.trees[i + 1])
  BY <1>3, <1>4 DEF Woven
<1>12. Met(f.path) = {SegRef(f)}
  <2> DEFINE k == Len(f.path) - 1
  <2>1. k \in 0..(Len(f.path) - 1) /\ k + 1 = Len(f.path)
    BY <1>3, PathLength
  <2> HIDE DEF k
  <2>2. Reading(Upto(f.path, k), f.trees[k + 1])
    BY <1>11, <2>1
  <2>3. f.path[k + 1] \in Name /\ Upto(f.path, k + 1) = Append(Upto(f.path, k), f.path[k + 1])
    BY <1>3, <2>1, Turns
  <2>4. Upto(f.path, k + 1) = f.path
    BY <1>4, <2>1, PathPrefix, PathLength
  <2>5. SegRef(f) = f.trees[k + 1].refs[f.path[k + 1]]
    BY <1>3, <2>1 DEF SegRef, Last
  <2>6. Met(f.path) = {SegRef(f)} \ {None}
    BY <2>2, <2>3, <2>4, <2>5 DEF Reading
  <2> QED BY <1>2, <2>6 DEF IsPathRef, None
<1>13. Base = RootRef /\ SegRef(f).path = f.path
  BY <1>2, <1>4, <1>12, InContext, RootIsMet DEF MetInPlace, MetAt
<1>14. tree = files[f.path] /\ IsTree(tree)
  <2>1. mem[h].root = RootRef
    BY <1>1, <1>2, <1>3, InContext, NoCommitBelow
  <2>2. RefForPath(h, f.path) = SegRef(f)
    <3>1. \A i \in 0..(Len(f.path) - 1) : Wooded(Upto(f.path, i))
      BY <1>11 DEF Reading
    <3>2. Met(f.path) = {RefForPath(h, f.path)} \ {None}
      BY <1>3, <1>4, <1>13, <2>1, <3>1, InContext, RefIsMet
    <3> QED BY <1>12, <3>2
  <2>3. ~IsIdRef(SegRef(f))
    BY <1>2 DEF IsIdRef, IsPathRef
  <2> QED BY <1>1, <1>2, <2>2, <2>3 DEF GetTree
<1>15. ObjectOf(SegRef(f)) = tree
  <2>1. ~IsIdRef(SegRef(f))
    BY <1>2 DEF IsIdRef, IsPathRef
  <2>2. ObjectOf(SegRef(f)) = Present(f.path)
    BY <1>2, <1>13, <2>1 DEF ObjectOf
  <2> QED BY <1>3, <1>4, <1>14, <2>2 DEF OnFiles, File
<1>16. Searched(stack)
  <2>1. v.path = f.path /\ v.todo = TransientNames(tree)
    BY DEF v, Visit
  <2>2. Wooded(f.path)
    BY <1>12, <1>14, <1>15 DEF Wooded
  <2>3. ASSUME NEW n \in TransientNames(tree), NEW r \in Met(Append(f.path, n))
        PROVE  IsPathRef(r)
    <3>1. n \in Name /\ IsPathRef(tree.refs[n])
      BY DEF TransientNames
    <3>2. r = tree.refs[n]
      BY <1>4, <1>12, <1>14, <1>15, <3>1, InContext DEF Unfolds
    <3> QED BY <3>1, <3>2
  <2>4. Len(stack) = 1 /\ stack[1] = v
    BY DEF stack
  <2> QED BY <2>1, <2>2, <2>3, <2>4 DEF Searched
<1>17. Searched(stack)'
  <2>1. v.path = f.path /\ v.todo = TransientNames(tree)
    BY DEF v, Visit
  <2>2. \A q \in Seq(Name) : Met(q)' = Met(q) /\ (Wooded(q) => Wooded(q)')
    BY <1>9 DEF Still, Wooded
  <2>3. \A n \in TransientNames(tree) : Append(f.path, n) \in Seq(Name)
    BY <1>4 DEF TransientNames
  <2>4. Len(stack) = 1 /\ stack[1] = v
    BY DEF stack
  <2>5. \A k \in 1..Len(stack) : k = 1 /\ ~(k < Len(stack))
    BY <2>4
  <2> QED BY <1>4, <1>16, <2>1, <2>2, <2>3, <2>4, <2>5 DEF Searched
<1>18. Woven(F, g)'
  <2>1. g.at \in Nat
    <3>1. g.at = f.at - 1
      BY <1>1, <1>3 DEF Ascend, PathFrames
    <3> QED BY <1>3, <3>1, PathLength
  <2>2. ~IsPathRef(None)
    BY DEF IsPathRef, None
  <2> QED BY <1>3, <1>4, <1>10, <2>1, <2>2, WovenTurns
<1>19. CallWoven(F, s)'
  <2>1. Len(s) = 2 /\ s[1] = search /\ s[2] = g
    <3>1. <<g>> \in Seq({g}) /\ Len(<<g>>) = 1 /\ <<g>>[1] = g
      OBVIOUS
    <3>2. Len(s) = Len(<<g>>) + 1 /\ \A i \in 1..Len(s) : s[i] = IF i = 1 THEN search ELSE <<g>>[i - 1]
      BY <3>1, OnTop DEF s
    <3> QED BY <3>1, <3>2
  <2>2. search.stack = stack
    BY DEF search
  <2> QED BY <1>8, <1>13, <1>17, <1>18, <2>1, <2>2 DEF CallWoven
<1>20. Placed'
  BY <1>2, InContext DEF Placed, TransientNames
<1>21. WeaveInv'
  BY <1>1, <1>4, <1>6, <1>19, <1>20, WeavesOn
<1> QED BY <1>1, <1>4, <1>10, <1>21

LEMMA DeleteTreeLeafWeaves ==
    ASSUME Context, Unfolds', NEW h \in Handle, DeleteTreeLeaf(h)
    PROVE  WeaveInv' /\ Spares(Call(h).path) /\ Spares(Top(h).path)
<1>1. PICK f : f = Top(h)
  OBVIOUS
<1>2. CASE IsPathRef(SegRef(f)) /\ GetTree(h, f.path) # None
  BY <1>1, <1>2, SearchBegins
<1>3. CASE ~(IsPathRef(SegRef(f)) /\ GetTree(h, f.path) # None)
  <2>1. Descending(h) /\ AtLeaf(Top(h)) /\ Continue(h, Ascend(f, None)) /\ UNCHANGED <<files, edata, disk>>
    BY <1>1, <1>3 DEF DeleteTreeLeaf, transient
  <2> QED BY <1>1, <2>1, LeafKept
<1> QED BY <1>2, <1>3

-----------------------------------------------------------------------------
(* A walk that comes up writes a tree of its path. *)
Writing(f, F, G, j, t) ==
    /\ f \in PathFrames /\ Woven(F, f) /\ f.dir = "up" /\ j = f.at /\ t = TreeAt(F, f, j)
    /\ F = files /\ G = files' /\ files' = [files EXCEPT ![Upto(f.path, j)] = t]
    /\ UNCHANGED <<edata, disk>>

LEMMA TreeWritten ==
    ASSUME Context, Unfolds', OnFiles, OnFiles', NEW f, NEW F, NEW G, NEW j, NEW t,
           Writing(f, F, G, j, t)
    PROVE  /\ Spares(f.path) /\ Placed' /\ Base' = Base
           /\ \A i \in 0..(Len(f.path) - 1) :
                 /\ Wooded(Upto(f.path, i))' /\ Apart(f.path, i, TreeAt(F, f, i))'
                 /\ i >= j => TreeAt(F, f, i) = G[Upto(f.path, i)] /\ LeadsOver(TreeAt(F, f, i), f.path, i)
<1> USE DEF Writing
<1> DEFINE p == f.path
           q == Upto(p, j)
<1>1. p \in Path /\ p \in Seq(Name) /\ Len(p) \in Nat \ {0}
  BY FrameTurns
<1>2. j \in 0..(Len(p) - 1)
  BY DEF PathFrames
<1>3. \A i \in 0..(Len(p) - 1) : Upto(p, i) \in Node /\ (i # j => Upto(p, i) # q)
  <2>1. ASSUME NEW i \in 0..(Len(p) - 1)
        PROVE  Upto(p, i) \in Node
    <3>1. CASE i = 0
      BY <1>1, <1>2, <3>1, Turns DEF Node
    <3>2. CASE i # 0
      <4>1. i \in 1..Len(p)
        BY <1>1, <3>2
      <4> QED BY <1>1, <4>1, PrefixIsPath DEF Node
    <3> QED BY <3>1, <3>2
  <2>2. \A i \in 0..(Len(p) - 1) : Len(Upto(p, i)) = i
    BY <1>1, Turns
  <2> QED BY <1>2, <2>1, <2>2
<1>4. q \in Node /\ files' = [files EXCEPT ![q] = t]
  BY <1>2, <1>3
<1> HIDE DEF q
<1>5. /\ \A r \in AnyRef : ~(IsPathRef(r) /\ r.path = q) => ObjectOf(r)' = ObjectOf(r)
      /\ \A x \in Node, slash \in BOOLEAN :
            ObjectOf(PathRef(x, slash))' = IF x = q THEN t ELSE files[x]
  <2>1. IInv
    BY InContext
  <2> QED BY ONLY <2>1, OnFiles, OnFiles', <1>4, FileObjects
<1>6. \A x \in Node : G[x] = IF x = q THEN t ELSE F[x]
  BY <1>4, InContext DEF IInv, TypeOK
<1>7. ASSUME NEW i \in 0..(Len(p) - 1)
      PROVE  /\ G[Upto(p, i)] = IF i = j THEN TreeAt(F, f, j) ELSE F[Upto(p, i)]
             /\ \A slash \in BOOLEAN : ObjectOf(PathRef(Upto(p, i), slash))' = G[Upto(p, i)]
  <2>1. G[Upto(p, i)] = IF i = j THEN t ELSE F[Upto(p, i)]
    BY <1>3, <1>6 DEF q
  <2>2. \A slash \in BOOLEAN : ObjectOf(PathRef(Upto(p, i), slash))' = IF Upto(p, i) = q THEN t ELSE F[Upto(p, i)]
    BY <1>3, <1>5
  <2>3. \A slash \in BOOLEAN : ObjectOf(PathRef(Upto(p, i), slash))' = G[Upto(p, i)]
    BY <1>3, <1>6, <2>2
  <2> QED BY <2>1, <2>3
<1>8. Base' = Base /\ Met(Root)' = Met(Root)
  <2>1. Base' = Base
    BY DEF Base
  <2> QED BY <2>1, InContext DEF Unfolds
<1>9. /\ Spares(f.path)
      /\ \A i \in 0..(Len(f.path) - 1) :
            /\ Wooded(Upto(f.path, i))' /\ Apart(f.path, i, TreeAt(F, f, i))'
            /\ i >= j => TreeAt(F, f, i) = G[Upto(f.path, i)] /\ LeadsOver(TreeAt(F, f, i), f.path, i)
  <2>1. \A r \in AnyRef : ~(IsPathRef(r) /\ r.path = Upto(f.path, j)) => ObjectOf(r)' = ObjectOf(r)
    BY <1>5 DEF q
  <2>2. Unfolds /\ MetInPlace
    BY InContext
  <2>3. (f.dir = "up" /\ j = f.at) /\ UNCHANGED edata /\ Woven(F, f)
    OBVIOUS
  <2> QED BY ONLY <1>2, <1>7, <1>8, <2>1, <2>2, <2>3, Unfolds', f \in PathFrames, WovenRises
<1>10. Placed'
  <2>1. Rises(F, f, j) /\ LeadsOver(TreeAt(F, f, j), f.path, j)
    BY <1>1, <1>2, <1>9 DEF Woven
  <2>2. \A n \in TransientNames(t) : t.refs[n].path = Append(q, n)
    BY <1>2, <2>1, InContext, RisenPlaced DEF q
  <2> QED BY <1>4, <2>2, InContext, PlacedStays
<1> QED BY <1>8, <1>9, <1>10

LEMMA StoreTreeOfPathWeaves ==
    ASSUME Context, Unfolds', NEW h \in Handle, StoreTreeOfPath(h)
    PROVE  WeaveInv' /\ Spares(Call(h).path) /\ Spares(Top(h).path)
<1>1. PICK f, F, G : f = Top(h) /\ F = files /\ G = files'
  OBVIOUS
<1>2. PICK ts, g, j : ts = Front(f.trees) /\ g = Ascend([f EXCEPT !.trees = ts], SegPlace(f)) /\ j = f.at
  OBVIOUS
<1>3. /\ calls[h] # <<>> /\ f.op \in PathOps /\ f.dir = "up" /\ j > 0
      /\ files' = [files EXCEPT ![Upto(f.path, j)] = Last(f.trees)]
      /\ Continue(h, g) /\ UNCHANGED <<edata, disk, mem>>
  BY <1>1, <1>2 DEF StoreTreeOfPath, SegPlace, PathRef, PathOps
<1>4. /\ f \in PathFrames /\ f.path \in Path /\ f.path \in Seq(Name) /\ Woven(F, f) /\ OnFiles
      /\ (Spares(f.path) => Spares(Call(h).path))
  BY <1>1, <1>3, WalkWeaves
<1>5. /\ f.trees \in Seq(Trees(Objects)) /\ Len(f.trees) = j + 1
      /\ j \in 1..(Len(f.path) - 1) /\ j \in 1..Len(f.path) /\ Len(f.path) \in Nat
  BY <1>2, <1>3, <1>4, PathLength DEF PathFrames
<1>6. /\ ts \in Seq(Trees(Objects)) /\ Len(ts) = j /\ Last(f.trees) = f.trees[j + 1]
      /\ \A i \in 1..j : ts[i] = f.trees[i]
  BY <1>2, <1>5, Ends DEF Front, Last
<1>7. /\ g.op = f.op /\ g.path = f.path /\ g.dir = "up" /\ g.at = j - 1 /\ Len(g.trees) = j
      /\ \A i \in 1..(j - 1) : g.trees[i] = f.trees[i]
      /\ g.trees[j] = Link(f.trees[j], f.path[j], PathRef(Upto(f.path, j), TRUE))
  <2>1. SegPlace(f) = PathRef(Upto(f.path, j), TRUE)
    BY <1>2 DEF SegPlace
  <2>2. /\ g.op = f.op /\ g.path = f.path /\ g.dir = "up" /\ g.at = j - 1 /\ Len(g.trees) = j
        /\ \A i \in 1..(j - 1) : g.trees[i] = ts[i]
        /\ g.trees[j] = Link(ts[j], f.path[j], SegPlace(f))
    <3>1. PICK ref, k : ref = SegPlace(f) /\ k = Ascend([f EXCEPT !.trees = ts], ref)
      OBVIOUS
    <3>2. f \in PathFrames /\ f.at \in 1..Len(f.path) /\ ts \in Seq(Trees(Objects)) /\ Len(ts) = f.at
      BY <1>2, <1>4, <1>5, <1>6
    <3>3. /\ k.op = f.op /\ k.path = f.path /\ k.dir = "up" /\ k.at = f.at - 1 /\ Len(k.trees) = f.at
          /\ \A i \in 1..(f.at - 1) : k.trees[i] = ts[i]
          /\ k.trees[f.at] = Link(ts[f.at], f.path[f.at], ref)
      BY ONLY <3>1, <3>2, AscendTrees
    <3> QED BY <1>2, <3>1, <3>3
  <2>3. j \in 1..j /\ \A i \in 1..(j - 1) : i \in 1..j
    BY <1>5
  <2>4. ts[j] = f.trees[j] /\ \A i \in 1..(j - 1) : ts[i] = f.trees[i]
    BY <1>6, <2>3
  <2> QED BY <2>1, <2>2, <2>4
<1>8. OnFiles'
  BY <1>1, <1>3, <1>7, WalkOnFiles
<1>9. TreeAt(F, f, j) = Last(f.trees)
  BY <1>3, <1>5, <1>6 DEF TreeAt
<1>10. /\ Spares(f.path) /\ Placed' /\ Base' = Base
       /\ \A i \in 0..(Len(f.path) - 1) :
             /\ Wooded(Upto(f.path, i))' /\ Apart(f.path, i, TreeAt(F, f, i))'
             /\ i >= j => TreeAt(F, f, i) = G[Upto(f.path, i)] /\ LeadsOver(TreeAt(F, f, i), f.path, i)
  <2>1. Writing(f, F, G, j, Last(f.trees))
    BY <1>1, <1>2, <1>3, <1>4, <1>9 DEF Writing
  <2> QED BY <1>4, <1>8, <2>1, TreeWritten
<1>11. ASSUME NEW i \in 0..(Len(f.path) - 1)
       PROVE  Rises(G, g, i)'
  <2>1. CASE i >= j
    <3>1. TreeAt(G, g, i) = G[Upto(f.path, i)] /\ TreeAt(G, g, i) = TreeAt(F, f, i)
      BY <1>5, <1>7, <1>10, <2>1 DEF TreeAt
    <3> QED BY <1>7, <1>10, <2>1, <3>1 DEF Rises
  <2>2. CASE i < j - 1
    <3>1. i + 1 \in 1..(j - 1) /\ i < Len(g.trees) /\ i < Len(f.trees) /\ ~(i >= g.at)
      BY <1>5, <1>7, <2>2
    <3>2. TreeAt(G, g, i) = TreeAt(F, f, i)
      BY <1>3, <1>7, <3>1 DEF TreeAt
    <3>3. g.dir # "save"
      BY <1>7
    <3> QED BY <1>7, <1>10, <3>1, <3>2, <3>3 DEF Rises
  <2>3. CASE i = j - 1
    <3> DEFINE x == TreeAt(G, g, i)
               y == TreeAt(F, f, i)
    <3>1. i + 1 = j /\ i < Len(g.trees) /\ i < Len(f.trees)
      BY <1>5, <1>7, <2>3
    <3>2. x = Link(y, f.path[i + 1], PathRef(Upto(f.path, i + 1), TRUE)) /\ y \in Trees(Objects)
      <4>1. x = g.trees[i + 1] /\ y = f.trees[i + 1]
        BY <1>3, <1>7, <3>1 DEF TreeAt
      <4>2. j \in 1..Len(f.trees)
        BY <1>5
      <4>3. f.trees[j] \in Trees(Objects)
        BY <1>5, <4>2
      <4> QED BY <1>7, <3>1, <4>1, <4>3
    <3> DEFINE m == f.path[i + 1]
               place == PathRef(Upto(f.path, i + 1), TRUE)
    <3>3. m \in Name
      BY <1>4, Turns
    <3> HIDE DEF x, y, m, place
    <3>4. IsTree(x) /\ \A n \in Name : x.refs[n] = IF n = m THEN place ELSE y.refs[n]
      <4>1. x = Link(y, m, place) /\ y \in Trees(Objects)
        BY <3>2 DEF m, place
      <4> QED BY ONLY <3>3, <4>1, LinkRefs
    <3>5. Apart(f.path, i, x)'
      BY <1>10, <3>4 DEF Apart, y, m
    <3>6. LeadsOver(x, f.path, i)
      <4>1. x.refs[m] = place /\ place.path = Upto(f.path, i + 1)
        BY <3>3, <3>4 DEF place, PathRef
      <4> QED BY <3>4, <4>1 DEF LeadsOver, m, place
    <3> QED BY <1>7, <1>10, <3>5, <3>6 DEF Rises, x
  <2> QED BY <1>5, <2>1, <2>2, <2>3
<1>12. Woven(G, g)'
  BY <1>3, <1>7, <1>11 DEF Woven
<1>13. WeaveInv'
  BY <1>1, <1>3, <1>7, <1>10, <1>12, WalkWeavesOn
<1> QED BY <1>1, <1>4, <1>10, <1>13

LEMMA StoreRootWeaves ==
    ASSUME Context, Unfolds', NEW h \in Handle, StoreRoot(h)
    PROVE  WeaveInv' /\ Spares(Call(h).path) /\ Spares(Top(h).path)
<1>1. PICK f, F, G : f = Top(h) /\ F = files /\ G = files'
  OBVIOUS
<1>2. PICK g : g = [f EXCEPT !.dir = "save"]
  OBVIOUS
<1>3. /\ calls[h] # <<>> /\ f.op \in PathOps /\ (f.dir = "root" \/ (f.dir = "up" /\ f.at = 0))
      /\ files' = [files EXCEPT ![Root] = Last(f.trees)]
      /\ Continue(h, g) /\ UNCHANGED <<edata, disk, mem>>
  BY <1>1, <1>2 DEF StoreRoot, PathOps
<1>4. /\ f \in PathFrames /\ f.path \in Path /\ f.path \in Seq(Name) /\ Woven(F, f) /\ OnFiles
      /\ (Spares(f.path) => Spares(Call(h).path))
  BY <1>1, <1>3, WalkWeaves
<1>5. /\ f.dir = "up" /\ f.at = 0 /\ Len(f.trees) = 1 /\ f.trees \in Seq(Trees(Objects))
      /\ Len(f.path) \in Nat \ {0}
  <2>1. f.dir = "up" /\ f.at = 0
    BY <1>3, <1>4 DEF Woven
  <2>2. f.trees \in Seq(Trees(Objects)) /\ Len(f.trees) = f.at + 1
    BY <1>4, <2>1 DEF PathFrames
  <2>3. Len(f.path) \in Nat \ {0}
    BY <1>4, PathLength
  <2> QED BY <2>1, <2>2, <2>3
<1>6. g.op = f.op /\ g.path = f.path /\ g.dir = "save"
  BY <1>2, <1>4 DEF PathFrames
<1>7. OnFiles'
  BY <1>1, <1>3, <1>6, WalkOnFiles
<1>8. TreeAt(F, f, 0) = Last(f.trees) /\ Upto(f.path, 0) = Root
  BY <1>4, <1>5, PathPrefix DEF TreeAt, Last
<1>9. /\ Spares(f.path) /\ Placed' /\ Base' = Base
      /\ \A i \in 0..(Len(f.path) - 1) :
            /\ Wooded(Upto(f.path, i))' /\ Apart(f.path, i, TreeAt(F, f, i))'
            /\ i >= 0 => TreeAt(F, f, i) = G[Upto(f.path, i)] /\ LeadsOver(TreeAt(F, f, i), f.path, i)
  <2> DEFINE j == 0
  <2>1. Writing(f, F, G, j, Last(f.trees))
    BY <1>1, <1>3, <1>4, <1>5, <1>8 DEF Writing
  <2> HIDE DEF j
  <2>2. /\ Spares(f.path) /\ Placed' /\ Base' = Base
        /\ \A i \in 0..(Len(f.path) - 1) :
              /\ Wooded(Upto(f.path, i))' /\ Apart(f.path, i, TreeAt(F, f, i))'
              /\ i >= j => TreeAt(F, f, i) = G[Upto(f.path, i)] /\ LeadsOver(TreeAt(F, f, i), f.path, i)
    BY <1>4, <1>7, <2>1, TreeWritten
  <2> QED BY <2>2 DEF j
<1>10. ASSUME NEW i \in 0..(Len(f.path) - 1)
       PROVE  Rises(G, g, i)'
  <2>1. TreeAt(G, g, i) = G[Upto(f.path, i)] /\ i >= 0
    BY <1>6 DEF TreeAt
  <2> QED BY <1>6, <1>9, <2>1 DEF Rises
<1>11. Woven(G, g)'
  BY <1>3, <1>6, <1>10 DEF Woven
<1>12. WeaveInv'
  BY <1>1, <1>3, <1>6, <1>9, <1>11, WalkWeavesOn
<1> QED BY <1>1, <1>4, <1>9, <1>12

-----------------------------------------------------------------------------
(* It ends: from now on the workspace's root is the file there. *)
LEMMA SaveWeaves ==
    ASSUME Context, Unfolds', NEW h \in Handle, SaveWorkspace(h)
    PROVE  WeaveInv' /\ Spares(Call(h).path) /\ Spares(Top(h).path)
<1>1. PICK f, F, s : f = Top(h) /\ F = files /\ s = Tail(calls[h])
  OBVIOUS
<1>2. /\ calls[h] # <<>> /\ f.op \in PathOps /\ f.dir = "save" /\ disk' = mem[h]
      /\ calls' = [calls EXCEPT ![h] = s] /\ UNCHANGED <<files, edata, mem>>
  BY <1>1 DEF SaveWorkspace, Return, transient, PathOps
<1>3. /\ f \in PathFrames /\ f.path \in Path /\ f.path \in Seq(Name) /\ Woven(F, f) /\ OnFiles
      /\ mem[h] # None /\ (Spares(f.path) => Spares(Call(h).path))
  BY <1>1, <1>2, WalkWeaves
<1>4. f.op # "commit" /\ mem[h].root = RootRef /\ s \in Seq(Frames) /\ \A i \in 1..Len(s) : s[i].op # "commit"
  <2>1. f.op # "commit"
    BY <1>2 DEF PathOps
  <2> QED BY <1>1, <1>2, <2>1, InContext, NoCommitBelow
<1>5. Base' = RootRef /\ Met(Root)' = {RootRef}
  <2>1. Base' = RootRef
    BY <1>2, <1>3, <1>4 DEF Base
  <2> QED BY <2>1 DEF Unfolds, RootRef, PathRef, None
<1>6. OnFiles'
  <2>1. s = <<>> \/ Head(s).op # "commit"
    <3>1. s # <<>> => Head(s) = s[1] /\ 1 \in 1..Len(s)
      BY <1>4
    <3> QED BY <1>4, <3>1
  <2>2. ~Running(h, "commit")
    BY <1>1, <1>4 DEF Running
  <2> QED BY <1>2, <1>3, <2>1, <2>2, NextOnFiles
<1>7. \A r \in AnyRef : ObjectOf(r)' = ObjectOf(r)
  BY <1>2, <1>3, <1>6, SameObjects
<1>8. ASSUME NEW i \in 0..(Len(f.path) - 1)
      PROVE  /\ F[Upto(f.path, i)] = IF i = 0 THEN TreeAt(F, f, 0) ELSE F[Upto(f.path, i)]
             /\ \A slash \in BOOLEAN : ObjectOf(PathRef(Upto(f.path, i), slash))' = F[Upto(f.path, i)]
  <2> DEFINE x == Upto(f.path, i)
  <2>1. x \in Node
    <3>1. CASE i = 0
      BY <1>3, <3>1, Turns DEF Node
    <3>2. CASE i # 0
      <4>1. i \in 1..Len(f.path)
        BY <1>3, <3>2, PathLength
      <4> QED BY <1>3, <4>1, PrefixIsPath DEF Node
    <3> QED BY <3>1, <3>2
  <2>2. TreeAt(F, f, 0) = F[Upto(f.path, 0)]
    BY <1>2 DEF TreeAt
  <2> HIDE DEF x
  <2>3. ASSUME NEW slash \in BOOLEAN
        PROVE  ObjectOf(PathRef(x, slash))' = F[x]
    <3>1. IsPathRef(PathRef(x, slash)) /\ ~IsIdRef(PathRef(x, slash)) /\ PathRef(x, slash).path = x
      BY DEF PathRef, IsPathRef, IsIdRef
    <3>2. ObjectOf(PathRef(x, slash))' = Present(x)'
      BY <3>1 DEF ObjectOf, IsPathRef, IsIdRef
    <3>3. Present(x)' = File(x)'
      BY <1>6 DEF OnFiles
    <3> QED BY <1>1, <1>2, <2>1, <3>2, <3>3 DEF File
  <2> QED BY <2>2, <2>3 DEF x
<1>9. Spares(f.path)
  <2>1. 0 \in 0..(Len(f.path) - 1)
    BY <1>3, PathLength
  <2>2. Unfolds /\ MetInPlace /\ UNCHANGED edata
    BY <1>2, InContext
  <2>3. \A r \in AnyRef : ~(IsPathRef(r) /\ r.path = Upto(f.path, 0)) => ObjectOf(r)' = ObjectOf(r)
    BY <1>7
  <2> QED BY ONLY Unfolds', <1>2, <1>3, <1>5, <1>8, <2>1, <2>2, <2>3, WovenRises
<1>10. Placed'
  BY <1>2, InContext DEF Placed, TransientNames
<1>11. CASE Len(calls[h]) = 1
  <2>1. s = <<>>
    BY <1>1, <1>2, <1>11, InContext, WalkAlone
  <2>2. WeaveInv'
    BY <1>2, <1>3, <1>10, <2>1, WeavesOn
  <2> QED BY <1>1, <1>3, <1>9, <2>2
<1>12. CASE Len(calls[h]) # 1
  <2>1. PICK r, u : r = calls[h][2] /\ u = calls[h][3]
    OBVIOUS
  <2>2. Len(s) = 2 /\ s[1] = r /\ s[2] = u
    BY <1>1, <1>2, <1>12, <2>1, InContext, WalkNested
  <2>3. PICK stack : stack = r.stack
    OBVIOUS
  <2>4. Searched(stack)' /\ Woven(F, u)'
    BY <1>1, <1>2, <1>9, <1>12, <2>1, <2>3, SearchWaits
  <2>5. CallWoven(F, s)'
    BY <1>5, <2>2, <2>3, <2>4 DEF CallWoven
  <2>6. F = files'
    BY <1>1, <1>2
  <2>7. WeaveInv'
    BY <1>2, <1>3, <1>10, <2>5, <2>6, WeavesOn
  <2> QED BY <1>1, <1>3, <1>9, <2>7
<1> QED BY <1>11, <1>12

-----------------------------------------------------------------------------
(* The way to where a search has turned.                                   *)
LEMMA WayIsWooded ==
    ASSUME NEW F, NEW u \in PathFrames, Woven(F, u), u.dir = "up",
           NEW stack \in Seq(Visits), stack # <<>>, Searched(stack), Chain(stack, u.path),
           Last(stack).path \in Seq(Name), NEW z \in Path, TurnedTo(Last(stack), z)
    PROVE  \A i \in 0..(Len(z) - 1) : Wooded(Upto(z, i))
<1>1. PICK p : p = u.path
  OBVIOUS
<1>2. p \in Path /\ p \in Seq(Name) /\ Chain(stack, p) /\ Len(p) \in Nat
  BY <1>1, FrameTurns
<1>3. z \in Seq(Name) /\ Len(z) \in Nat
  BY PathLength
<1>4. \A k \in 1..Len(stack) : k < Len(stack) => TurnedTo(stack[k], stack[k + 1].path)
  BY DEF Searched
<1>5. /\ \A k \in 1..Len(stack) : \E i \in 0..(Len(z) - 1) :
            stack[k].path = Upto(z, i) /\ z[i + 1] \notin stack[k].todo
      /\ AtOrBelow(p, z)
      /\ \A i \in Len(p)..(Len(z) - 1) : \E k \in 1..Len(stack) : stack[k].path = Upto(z, i)
  BY <1>2, <1>4, StackWay
<1>6. ASSUME NEW j \in 0..(Len(z) - 1)
      PROVE  Wooded(Upto(z, j))
  <2>1. CASE j \in Len(p)..(Len(z) - 1)
    <3>1. PICK k \in 1..Len(stack) : stack[k].path = Upto(z, j)
      BY <1>5, <2>1
    <3> QED BY <3>1 DEF Searched
  <2>2. CASE j \notin Len(p)..(Len(z) - 1)
    <3>1. j \in 0..(Len(p) - 1) /\ j \in 0..Len(p)
      BY <1>2, <1>3, <2>2
    <3>2. p = stack[1].path /\ 1 \in 1..Len(stack)
      BY <1>2 DEF Chain
    <3>3. PICK i \in 0..(Len(z) - 1) : p = Upto(z, i)
      BY <1>5, <3>2
    <3>4. i \in 0..Len(z)
      BY <1>3
    <3>5. Len(p) = i /\ \A k \in 0..i : Upto(p, k) = Upto(z, k)
      BY <1>3, <3>3, <3>4, PathPrefix
    <3>6. Upto(z, j) = Upto(p, j)
      BY <3>1, <3>5
    <3>7. Rises(F, u, j)
      BY <1>1, <3>1 DEF Woven
    <3> QED BY <1>1, <3>6, <3>7 DEF Rises
  <2> QED BY <2>1, <2>2
<1> QED BY <1>6

(* A search that removes meets no segment that is not a tree. *)
LEMMA NeverBlocked ==
    ASSUME Context, Unfolds', NEW h \in Handle, BlockedBelowEntity(h), Len(calls[h]) # 1
    PROVE  FALSE
<1>1. PICK f, r, u, stack : f = Top(h) /\ r = calls[h][2] /\ u = calls[h][3] /\ stack = r.stack
  OBVIOUS
<1>2. PICK ref : ref = SegRef(f)
  OBVIOUS
<1>3. /\ calls[h] # <<>> /\ f \in PathFrames /\ f.op \in PathOps /\ f.dir = "down"
      /\ f.at \in 1..Len(f.path) /\ f.trees \in Seq(Trees(Objects)) /\ Len(f.trees) = f.at
      /\ ref \in Refs(Objects) /\ f.at # Len(f.path) /\ SegTree(ref) = None
  BY <1>1, <1>2, DownTop, InContext DEF BlockedBelowEntity, AtLeaf
<1>4. f.path \in Path /\ f.path \in Seq(Name) /\ Woven(files, f) /\ OnFiles
  BY <1>1, <1>3, WalkWeaves
<1>5. f = calls[h][1] /\ CallWoven(files, calls[h]) /\ f.op # "commit"
  BY <1>1, <1>3, BelowTop, InContext DEF Top, WeaveInv, IInv, TypeOK, PathOps
<1>6. /\ NestedFits(f, r) /\ RemoveFits(files, r, u) /\ r \in RemoveFrames /\ u \in PathFrames
      /\ Len(calls[h]) = 3
  BY <1>1, <1>3, InContext, WalkNested
<1>7. Woven(files, u) /\ Searched(stack) /\ TurnedTo(Last(stack), f.path)
  <2>1. Woven(files, u) /\ Searched(r.stack) /\ TurnedTo(Last(r.stack), f.path)
    BY <1>1, <1>5, <1>6 DEF CallWoven
  <2> QED BY <1>1, <2>1
<1>8. /\ stack \in Seq(Visits) /\ stack # <<>> /\ Chain(stack, u.path)
      /\ Last(stack).path \in Seq(Name) /\ u.path \in Seq(Name) /\ u.path \in Path
  BY <1>1, <1>6, SearchStack, FrameTurns DEF NestedFits, RemoveFits
<1>10. PICK q, k : q = Upto(f.path, f.at) /\ k = f.at - 1
  OBVIOUS
<1>11. Len(f.path) \in Nat /\ k \in 0..(Len(f.path) - 1) /\ k + 1 = f.at /\ f.at \in 0..(Len(f.path) - 1)
       /\ k \in 0..(Len(f.trees) - 1) /\ f.at \in Nat
  BY <1>3, <1>4, <1>10, PathLength
<1>12. q \in Seq(Name) /\ Met(q) = {ref} \ {None}
  <2>1. Reading(Upto(f.path, k), f.trees[k + 1])
    BY <1>3, <1>4, <1>11 DEF Woven
  <2>2. ref = f.trees[k + 1].refs[f.path[k + 1]]
    BY <1>2, <1>3, <1>11 DEF SegRef, Last
  <2>3. f.path[k + 1] \in Name /\ Upto(f.path, k + 1) = Append(Upto(f.path, k), f.path[k + 1])
    BY <1>4, <1>11, Turns
  <2>4. q \in Seq(Name) /\ q = Upto(f.path, k + 1)
    BY <1>4, <1>10, <1>11, Turns
  <2> QED BY <2>1, <2>2, <2>3, <2>4 DEF Reading
<1>13. Wooded(q)
  <2>1. u.dir = "up"
    BY <1>6 DEF RemoveFits
  <2>2. \A i \in 0..(Len(f.path) - 1) : Wooded(Upto(f.path, i))
    BY <1>4, <1>6, <1>7, <1>8, <2>1, WayIsWooded
  <2> QED BY <1>10, <1>11, <2>2
<1>14. ref # None
  BY <1>3 DEF SegTree, EmptyTree, TreeObj, None
<1>15. TreeOf(ref) = None /\ ref \in AnyRef
  BY <1>3, <1>14 DEF SegTree, AnyRef
<1>16. IsTree(ObjectOf(ref))
  BY <1>12, <1>13, <1>14 DEF Wooded
<1> QED BY <1>4, <1>14, <1>15, <1>16, InContext, TreeIsObject

(* A step of a walk, if no client's call has met a segment that is no tree. *)
LEMMA PathStepWeaves ==
    ASSUME Context, Unfolds', NEW h \in Handle, PathStep(h), Undisturbed
    PROVE  333 \in failed' \/ (WeaveInv' /\ Spares(Call(h).path))
<1>1. CASE BlockedBelowEntity(h)
  <2>1. Len(calls[h]) > 1
    BY <1>1 DEF Undisturbed
  <2>2. Len(calls[h]) # 1
    <3>1. calls[h] \in Seq(Frames)
      BY InContext DEF IInv, TypeOK
    <3>2. Len(calls[h]) \in Nat
      BY <3>1
    <3>3. ASSUME Len(calls[h]) = 1
          PROVE  FALSE
      BY ONLY <2>1, <3>2, <3>3
    <3> QED BY <3>3
  <2> QED BY <1>1, <2>2, NeverBlocked
<1>2. CASE SegUntracked(h)
  BY <1>2 DEF SegUntracked, Abort
<1> QED BY <1>1, <1>2, DescendWeaves, StoreLeafWeaves, DeleteEntityLeafWeaves, DeleteTreeLeafWeaves,
           StoreTreeOfPathWeaves, StoreRootWeaves, SaveWeaves DEF PathStep

-----------------------------------------------------------------------------
(* The steps of a search that removes.                                     *)

LEMMA SearchedStill ==
    ASSUME Still, NEW stack \in Seq(Visits), Searched(stack)
    PROVE  Searched(stack)'
<1>1. \A q \in Seq(Name) : Met(q)' = Met(q) /\ (Wooded(q) => Wooded(q)')
  BY DEF Still, Wooded
<1>2. ASSUME NEW k \in 1..Len(stack)
      PROVE  /\ stack[k].path \in Seq(Name)
             /\ \A n \in stack[k].todo : Append(stack[k].path, n) \in Seq(Name)
  <2>1. stack[k] \in Visits
    OBVIOUS
  <2>2. stack[k].path \in Seq(Name) /\ stack[k].todo \subseteq Name
    BY <2>1, NodeIsPath DEF Visits
  <2> QED BY <2>2
<1> QED BY <1>1, <1>2 DEF Searched

LEMMA SearchWeaves ==
    ASSUME Context, NEW h \in Handle, Running(h, "remove"), NEW f, f = Top(h),
           NEW u, u = calls[h][2]
    PROVE  /\ calls[h] # <<>> /\ mem[h] # None /\ mem[h].root = RootRef /\ Base = RootRef
           /\ Woven(files, u) /\ Searched(f.stack) /\ OnFiles /\ Call(h) = u
           /\ u \in PathFrames /\ u.op \in PathOps /\ u.dir = "up" /\ u.at + 1 = Len(u.path)
           /\ u.path \in Path /\ u.path \in Seq(Name)
           /\ f \in RemoveFrames /\ f.stack \in Seq(Visits) /\ Chain(f.stack, u.path)
           /\ f.stack # <<>> => /\ Last(f.stack).path \in Path /\ Last(f.stack).path \in Seq(Name)
                                /\ Last(f.stack) \in Visits
<1>1. /\ calls[h] # <<>> /\ mem[h] # None
      /\ RemoveFits(files, f, u) /\ u \in PathFrames /\ f \in RemoveFrames
      /\ Len(Tail(calls[h])) = 1
  BY InContext, SearchFrames
<1>2. calls[h] \in Seq(Frames)
  BY InContext DEF IInv, TypeOK
<1>3. f = calls[h][1] /\ Len(calls[h]) = 2
  <2>1. Len(Tail(calls[h])) = Len(calls[h]) - 1 /\ Head(calls[h]) = calls[h][1] /\ Len(calls[h]) \in Nat
    BY <1>1, <1>2, BelowTop
  <2> QED BY <1>1, <2>1 DEF Top
<1>4. f.op = "remove"
  BY DEF Running
<1>5. CallWoven(files, calls[h])
  BY <1>1, InContext DEF WeaveInv
<1>6. Base = RootRef /\ Woven(files, u) /\ Searched(f.stack)
  BY <1>3, <1>4, <1>5 DEF CallWoven
<1>7. OnFiles
  BY <1>1, <1>4, InContext, NoneCommits DEF Running
<1>8. mem[h].root = RootRef
  BY <1>1, <1>3, <1>4, InContext DEF IInv, RootInv, InCall
<1>9. Call(h) = u
  BY <1>3 DEF Call, Last
<1> QED BY <1>1, <1>6, <1>7, <1>8, <1>9, FrameTurns, SearchStack DEF RemoveFits

(* A call begins at the tree of the root. *)
LEMMA RootIsRead ==
    ASSUME Context, OnFiles, NEW h \in Handle, mem[h] # None, mem[h].root = Base
    PROVE  Reading(Root, RootTree(mem[h])) /\ Root \in Seq(Name)
<1>1. PICK ref : ref = Base
  OBVIOUS
<1>2. RootTree(mem[h]) = SegTree(ref) /\ ref \in AnyRef
  BY <1>1, InContext, BaseType DEF RootTree, SegTree
<1>3. Root \in Seq(Name)
  BY DEF Root
<1>4. Met(Root) = {ref} \ {None}
  BY <1>1, InContext DEF Unfolds
<1>5. SegTree(ref) # None
  <2>1. CASE ref = None
    BY <2>1 DEF SegTree, EmptyTree, TreeObj, None
  <2>2. CASE ref # None
    <3>1. RootWritten
      BY <1>1, <2>2, InContext DEF IInv, RootInv, Base
    <3>2. mem[h] \in WorkspaceObjs(trees, Len(commits)) /\ Inv
      BY InContext, IInvInv DEF IInv, TypeOK
    <3>3. IsTree(TreeOf(ref))
      BY <1>1, <2>2, <3>1, <3>2, RootReadable
    <3> QED BY <2>2, <3>3 DEF SegTree, IsTree, None
  <2> QED BY <2>1, <2>2
<1> QED BY <1>2, <1>3, <1>4, <1>5, InContext, TreeIsRead

LEMMA EntersWoven ==
    ASSUME Context, OnFiles, Still, NEW h \in Handle, mem[h] # None, mem[h].root = Base,
           NEW op \in PathOps, NEW p \in Path, NEW leaf, NEW F,
           NEW g, g = PathCall(op, p, leaf, RootTree(mem[h]))
    PROVE  Woven(F, g)'
<1>1. PICK t : t = RootTree(mem[h])
  OBVIOUS
<1>2. g.op = op /\ g.path = p /\ g.dir = "down" /\ Len(g.trees) = 1 /\ g.trees[1] = t
  BY <1>1 DEF PathCall
<1>3. Reading(Root, t) /\ Len(p) \in Nat \ {0} /\ Upto(p, 0) = Root
  <2>1. Len(p) \in Nat \ {0} /\ p \in Seq(Name)
    BY PathLength
  <2>2. 0 \in 0..(Len(p) - 1)
    BY <2>1
  <2> QED BY <1>1, <2>1, <2>2, RootIsRead, Turns
<1>4. \A i \in 0..(Len(g.trees) - 1) : i = 0 /\ i + 1 = 1
  BY <1>2
<1>5. Woven(F, g)
  BY <1>2, <1>3, <1>4 DEF Woven
<1>6. Len(g.trees) \in 1..Len(g.path)
  BY <1>2, <1>3
<1> QED BY <1>2, <1>5, <1>6, WovenStays

-----------------------------------------------------------------------------
(* A search that removes turns to a child.                                 *)

LEMMA PassedOn ==
    ASSUME NEW f \in RemoveFrames, f.stack \in Seq(Visits), f.stack # <<>>, Searched(f.stack),
           NEW n \in Last(f.stack).todo, NEW t, t = PassTo(f, n).stack
    PROVE  /\ t \in Seq(Visits) /\ t # <<>> /\ Searched(t)
           /\ PassTo(f, n).op = f.op
           /\ Last(t).path = Last(f.stack).path
           /\ TurnedTo(Last(t), Append(Last(f.stack).path, n))
           /\ \A p : Chain(f.stack, p) => Chain(t, p)
<1>1. PICK s, l : s = f.stack /\ l = Len(s)
  OBVIOUS
<1>2. /\ t \in Seq(Visits) /\ t # <<>> /\ Len(t) = l /\ PassTo(f, n).op = f.op
      /\ Last(t) = [Last(s) EXCEPT !.todo = @ \ {n}] /\ Last(t) = t[l]
      /\ \A k \in 1..(l - 1) : t[k] = s[k]
      /\ \A k \in 1..l : t[k].path = s[k].path
      /\ Last(t).path = Last(s).path
      /\ \A p : Chain(s, p) => Chain(t, p)
  <2>1. LET g == PassTo(f, n)
            z == f.stack
            y == g.stack
        IN  /\ g.op = f.op
            /\ y \in Seq(Visits) /\ y # <<>> /\ Len(y) = Len(z)
            /\ Last(y) = [Last(z) EXCEPT !.todo = @ \ {n}] /\ Last(y) = y[Len(z)]
            /\ \A k \in 1..(Len(z) - 1) : y[k] = z[k]
            /\ \A k \in 1..Len(z) : y[k].path = z[k].path
            /\ Last(y).path = Last(z).path
            /\ \A p : Chain(z, p) => Chain(y, p)
    BY Passing
  <2> QED BY <1>1, <2>1
<1>3. l \in Nat \ {0} /\ s[l] \in Visits /\ Last(s) = s[l] /\ Last(s) \in Visits
  <2>1. l \in Nat \ {0} /\ Last(s) \in Visits
    BY <1>1, Ends
  <2> QED BY <1>1, <2>1 DEF Last
<1>4. n \in Name /\ Last(t).todo = Last(s).todo \ {n}
  BY <1>1, <1>2, <1>3, TodoRef DEF Visits
<1>5. ASSUME NEW k \in 1..l
      PROVE  /\ Wooded(t[k].path)
             /\ \A m \in t[k].todo : \A r \in Met(Append(t[k].path, m)) : IsPathRef(r)
             /\ k < l => TurnedTo(t[k], t[k + 1].path)
  <2>1. /\ Wooded(s[k].path) /\ t[k].path = s[k].path
        /\ \A m \in s[k].todo : \A r \in Met(Append(s[k].path, m)) : IsPathRef(r)
        /\ k < l => TurnedTo(s[k], s[k + 1].path)
    BY <1>1, <1>2 DEF Searched
  <2>2. CASE k = l
    <3>1. t[k].todo \subseteq s[k].todo
      BY <1>2, <1>3, <1>4, <2>2
    <3> QED BY <1>3, <2>1, <2>2, <3>1
  <2>3. CASE k # l
    <3>1. k \in 1..(l - 1) /\ k + 1 \in 1..l
      BY <1>3, <2>3
    <3> QED BY <1>2, <2>1, <3>1
  <2> QED BY <2>2, <2>3
<1>6. TurnedTo(Last(t), Append(Last(s).path, n))
  BY <1>2, <1>4 DEF TurnedTo
<1> QED BY <1>1, <1>2, <1>5, <1>6 DEF Searched

(* Nothing one meets changes. *)
LEMMA SearchStill ==
    ASSUME Context, Unfolds', NEW h \in Handle, Running(h, "remove"),
           UNCHANGED <<files, edata, disk>>,
           NEW s, calls' = [calls EXCEPT ![h] = s], s = <<>> \/ Head(s).op # "commit"
    PROVE  /\ Still /\ Placed' /\ Base' = Base /\ OnFiles
           /\ Spares(Call(h).path)
<1>1. PICK f, u : f = Top(h) /\ u = calls[h][2]
  OBVIOUS
<1>2. mem[h] # None /\ OnFiles /\ Call(h) = u /\ u.path \in Seq(Name)
  BY <1>1, SearchWeaves
<1>3. OnFiles'
  BY <1>2, NextOnFiles DEF Running
<1>4. Base' = Base /\ Placed'
  BY InContext DEF Base, Placed, TransientNames
<1>5. Still
  BY <1>2, <1>3, <1>4, InContext, SameObjects, StillIs
<1>6. Spares(u.path)
  BY <1>2, <1>5, InContext, StillSpares
<1> QED BY <1>2, <1>4, <1>5, <1>6

(* It goes on with another stack. *)
LEMMA SearchGoesOn ==
    ASSUME Context, Unfolds', NEW h \in Handle, Running(h, "remove"),
           NEW x, x.op = "remove", Continue(h, x), NEW stack, stack = x.stack, Searched(stack)',
           NEW u, u = calls[h][2], NEW F, F = files', Woven(F, u)', Base' = Base, Placed'
    PROVE  WeaveInv'
<1>1. PICK s : s = <<x>> \o Tail(calls[h])
  OBVIOUS
<1>2. Len(s) = 2 /\ s[1] = x /\ s[2] = u
  BY <1>1, InContext, SearchFrames
<1>3. mem[h] # None /\ Base = RootRef
  <2>1. PICK f : f = Top(h)
    OBVIOUS
  <2> QED BY <2>1, SearchWeaves
<1>4. CallWoven(F, s)'
  BY <1>2, <1>3 DEF CallWoven
<1>5. calls' = [calls EXCEPT ![h] = s]
  BY <1>1 DEF Continue
<1> QED BY <1>3, <1>4, <1>5, WeavesOn

(* What it finds for the child is what one meets there. *)
LEMMA FoundIsMet ==
    ASSUME Context, NEW h \in Handle, Running(h, "remove"), NEW f, f = Top(h), f.stack # <<>>,
           NEW n \in Last(f.stack).todo, NEW p, p = Append(Last(f.stack).path, n),
           Found(h, p) # None
    PROVE  \A r \in Met(p) : ObjectOf(r) = Found(h, p)
<1>1. PICK u, stack, t : u = calls[h][2] /\ stack = f.stack /\ t = PassTo(f, n).stack
  OBVIOUS
<1>2. /\ mem[h] # None /\ mem[h].root = RootRef /\ Base = RootRef
      /\ Woven(files, u) /\ Searched(stack) /\ OnFiles
      /\ u \in PathFrames /\ u.dir = "up" /\ f \in RemoveFrames /\ stack \in Seq(Visits)
      /\ Chain(stack, u.path) /\ stack # <<>>
      /\ Last(stack).path \in Path /\ Last(stack).path \in Seq(Name) /\ Last(stack) \in Visits
  BY <1>1, SearchWeaves
<1>3. n \in Name /\ p \in Seq(Name)
  <2>1. n \in Last(stack).todo
    BY <1>1
  <2>2. n \in Name
    BY <1>2, <2>1, TodoRef
  <2> QED BY <1>1, <1>2, <2>2
<1>4. p \in Path
  <2>1. p \in Node
    BY InContext, IInvInv, FoundType
  <2>2. p # Root
    BY <1>1, <1>2 DEF Root
  <2> QED BY <2>1, <2>2 DEF Node
<1>5. ASSUME NEW r \in Met(p)
      PROVE  IsPathRef(r) /\ r.path = p /\ r # None /\ ObjectOf(r) = files[p]
  <2>1. IsPathRef(r)
    <3>1. Len(stack) \in 1..Len(stack) /\ Last(stack) = stack[Len(stack)]
      BY <1>2 DEF Last
    <3> QED BY <1>1, <1>2, <3>1 DEF Searched
  <2>2. r.path = p /\ r # None
    BY <1>3, <2>1, InContext DEF MetInPlace, MetAt
  <2>3. ~IsIdRef(r)
    BY <2>1 DEF IsIdRef, IsPathRef
  <2>4. ObjectOf(r) = Present(p)
    BY <2>1, <2>2, <2>3 DEF ObjectOf
  <2> QED BY <1>2, <1>4, <2>1, <2>2, <2>4 DEF OnFiles, File, Node
<1>6. CASE files[p] # None
  BY <1>4, <1>5, <1>6 DEF Found, File, Node
<1>7. CASE files[p] = None
  <2>1. /\ t \in Seq(Visits) /\ t # <<>> /\ Searched(t) /\ Last(t).path = Last(stack).path
        /\ TurnedTo(Last(t), p) /\ Chain(t, u.path)
    <3>1. /\ f.stack \in Seq(Visits) /\ f.stack # <<>> /\ Searched(f.stack)
          /\ n \in Last(f.stack).todo
      BY <1>1, <1>2
    <3>2. /\ t \in Seq(Visits) /\ t # <<>> /\ Searched(t) /\ Last(t).path = Last(f.stack).path
          /\ TurnedTo(Last(t), Append(Last(f.stack).path, n))
          /\ \A q : Chain(f.stack, q) => Chain(t, q)
      <4>1. t = PassTo(f, n).stack /\ f \in RemoveFrames
        BY <1>1, <1>2
      <4> QED BY ONLY <3>1, <4>1, PassedOn
    <3> QED BY <1>1, <1>2, <3>2
  <2>2. \A i \in 0..(Len(p) - 1) : Wooded(Upto(p, i))
    BY <1>2, <1>4, <2>1, WayIsWooded
  <2>3. Met(p) = {RefForPath(h, p)} \ {None}
    BY <1>2, <1>4, <2>2, InContext, RefIsMet
  <2>4. ASSUME NEW r \in Met(p)
        PROVE  FALSE
    <3>1. IsPathRef(RefForPath(h, p))
      BY <1>5, <2>3, <2>4
    <3>2. ~IsIdRef(RefForPath(h, p))
      BY <3>1 DEF IsIdRef, IsPathRef
    <3> QED BY <1>4, <1>7, <3>2 DEF Found, File, Node
  <2> QED BY <2>4
<1> QED BY <1>6, <1>7

-----------------------------------------------------------------------------
(* The search turns to a child: it deletes an entity, goes deeper, or      *)
(* passes over what it does not find.                                      *)
LEMMA RemoveChildWeaves ==
    ASSUME Context, Unfolds', NEW h \in Handle, NEW n \in Name, RemoveChild(h, n)
    PROVE  WeaveInv' /\ Spares(Call(h).path)
<1>1. PICK f, u, top, p, next, obj, F, t :
         /\ f = Top(h) /\ u = calls[h][2] /\ top = Last(f.stack) /\ p = Append(top.path, n)
         /\ next = PassTo(f, n) /\ obj = Found(h, p) /\ F = files' /\ t = next.stack
  OBVIOUS
<1>2. Running(h, "remove") /\ f.stack # <<>> /\ n \in top.todo /\ UNCHANGED <<files, edata, disk>>
  BY <1>1 DEF RemoveChild, Removing, transient
<1>3. /\ calls[h] # <<>> /\ mem[h] # None /\ mem[h].root = Base /\ Base = RootRef
      /\ Woven(files, u) /\ Searched(f.stack) /\ OnFiles
      /\ u \in PathFrames /\ u.dir = "up" /\ u.path \in Path
      /\ f \in RemoveFrames /\ f.stack \in Seq(Visits) /\ f.op = "remove"
      /\ top \in Visits
  BY <1>1, <1>2, SearchWeaves DEF Running
<1>4. /\ t \in Seq(Visits) /\ t # <<>> /\ Searched(t) /\ next.op = "remove"
      /\ Last(t).path = top.path /\ TurnedTo(Last(t), p)
  <2>1. /\ t \in Seq(Visits) /\ t # <<>> /\ Searched(t) /\ PassTo(f, n).op = f.op
        /\ Last(t).path = Last(f.stack).path /\ TurnedTo(Last(t), Append(Last(f.stack).path, n))
    BY <1>1, <1>2, <1>3, PassedOn
  <2> QED BY <1>1, <1>3, <2>1
<1>5. CASE IsEntity(obj)
  <2>1. PICK g, y, s : /\ g = PathCall("deleteEntity", p, None, RootTree(mem[h]))
                       /\ y = <<next>> \o Tail(calls[h]) /\ s = <<g>> \o y
    OBVIOUS
  <2>2. calls' = [calls EXCEPT ![h] = s]
    BY <1>1, <1>5, <2>1 DEF RemoveChild, EnterPath
  <2>3. Len(s) = 3 /\ s[1] = g /\ s[2] = next /\ s[3] = u /\ Head(s) = g
    <3>1. y \in Seq(Frames \union {next}) /\ Len(y) = 2 /\ y[1] = next /\ y[2] = u
      BY <1>1, <1>2, <2>1, InContext, SearchFrames
    <3> QED BY <2>1, <3>1, OnTop
  <2>4. g.op # "commit"
    BY <2>1 DEF PathCall
  <2>5. Still /\ Placed' /\ Base' = Base /\ Spares(Call(h).path)
    BY <1>2, <2>2, <2>3, <2>4, SearchStill
  <2>6. Searched(t)'
    BY <1>4, <2>5, SearchedStill
  <2>7. Woven(F, u)'
    BY <1>1, <1>2, <1>3, <2>5, WovenStays
  <2>8. p \in Path
    <3>1. p \in Node /\ top.path \in Seq(Name)
      BY <1>1, <1>3, <1>5, InContext, IInvInv, FoundType, NodeIsPath DEF IsEntity, None, Visits
    <3>2. p # Root
      BY <1>1, <3>1 DEF Root
    <3> QED BY <3>1, <3>2 DEF Node
  <2>9. Woven(F, g)'
    <3>1. "deleteEntity" \in PathOps
      BY DEF PathOps
    <3> QED BY <1>3, <2>1, <2>5, <2>8, <3>1, EntersWoven
  <2>10. g.path = p
    BY <2>1 DEF PathCall
  <2>11. CallWoven(F, s)'
    BY <1>1, <1>3, <1>4, <2>3, <2>5, <2>6, <2>7, <2>9, <2>10 DEF CallWoven
  <2>12. WeaveInv'
    BY <1>1, <1>3, <2>2, <2>5, <2>11, WeavesOn
  <2> QED BY <2>5, <2>12
<1>6. CASE ~IsEntity(obj)
  <2>1. PICK ref, v, x, stack :
           /\ ref = top.tree.refs[n] /\ v = Visit(p, ref, obj)
           /\ x = (IF obj = None THEN next ELSE Deeper(next, p, ref, obj))
           /\ stack = (IF obj = None THEN t ELSE Append(t, v))
    OBVIOUS
  <2>2. Continue(h, x)
    BY <1>1, <1>6, <2>1 DEF RemoveChild
  <2>3. x.op = "remove" /\ x.stack = stack
    <3>1. next \in [op : {"remove"}, stack : Seq(Visits)]
      <4>1. next = [f EXCEPT !.stack = t]
        BY <1>1, <1>3 DEF PassTo, RemoveFrames
      <4> QED BY <1>3, <1>4, <4>1 DEF RemoveFrames
    <3> QED BY <1>1, <1>4, <2>1, <3>1 DEF Deeper
  <2>4. stack \in Seq(Visits) /\ Searched(stack)
    <3>1. CASE obj = None
      BY <1>4, <2>1, <3>1
    <3>2. CASE obj # None
      <4>1. obj \in Trees(Objects) /\ IsTree(obj) /\ p \in Node /\ p \in Seq(Name)
        <5>1. obj \in Trees(Objects) \union Entities(datas) \union {None} /\ p \in Node
          BY <1>1, <3>2, InContext, IInvInv, FoundType
        <5>2. IsTree(obj)
          BY <1>6, <3>2, <5>1, Kinds
        <5> QED BY <5>1, <5>2, Kinds, NodeIsPath
      <4>2. ref \in PathRefs
        BY <1>2, <1>3, <2>1, TodoRef
      <4>3. v \in Visits /\ v.path = p /\ v.todo = TransientNames(obj)
        BY <2>1, <4>1, <4>2, VisitType DEF Visit
      <4>4. \A r \in Met(p) : ObjectOf(r) = obj
        BY <1>1, <1>2, <3>2, FoundIsMet
      <4>5. ASSUME NEW m \in TransientNames(obj), NEW r \in Met(Append(p, m))
            PROVE  IsPathRef(r)
        <5>1. m \in Name /\ IsPathRef(obj.refs[m])
          BY DEF TransientNames
        <5>2. r = obj.refs[m]
          BY <4>1, <4>4, <4>5, <5>1, InContext DEF Unfolds
        <5> QED BY <5>1, <5>2
      <4>6. Wooded(p)
        BY <4>1, <4>4 DEF Wooded
      <4>7. stack = Append(t, v)
        BY <2>1, <3>2
      <4>8. PICK l : l = Len(t)
        OBVIOUS
      <4>9. /\ l \in Nat \ {0} /\ Last(t) = t[l]
            /\ stack \in Seq(Visits) /\ Len(stack) = l + 1 /\ stack[l + 1] = v
            /\ \A k \in 1..l : stack[k] = t[k]
        BY <1>4, <4>3, <4>7, <4>8 DEF Last
      <4>10. ASSUME NEW k \in 1..(l + 1)
             PROVE  /\ Wooded(stack[k].path)
                    /\ \A m \in stack[k].todo : \A r \in Met(Append(stack[k].path, m)) : IsPathRef(r)
                    /\ k < l + 1 => TurnedTo(stack[k], stack[k + 1].path)
        <5>1. CASE k = l + 1
          BY <4>3, <4>5, <4>6, <4>9, <5>1
        <5>2. CASE k # l + 1
          <6>1. k \in 1..l
            BY <4>9, <5>2
          <6>2. /\ Wooded(t[k].path)
                /\ \A m \in t[k].todo : \A r \in Met(Append(t[k].path, m)) : IsPathRef(r)
                /\ k < l => TurnedTo(t[k], t[k + 1].path)
            BY <1>4, <4>8, <6>1 DEF Searched
          <6>3. CASE k = l
            BY <1>4, <4>3, <4>9, <6>1, <6>2, <6>3
          <6>4. CASE k # l
            <7>1. k < l /\ k + 1 \in 1..l
              BY <4>9, <6>1, <6>4
            <7> QED BY <4>9, <6>1, <6>2, <7>1
          <6> QED BY <6>3, <6>4
        <5> QED BY <5>1, <5>2
      <4> QED BY <4>9, <4>10 DEF Searched
    <3> QED BY <3>1, <3>2
  <2>5. PICK s : s = <<x>> \o Tail(calls[h])
    OBVIOUS
  <2>6. calls' = [calls EXCEPT ![h] = s] /\ Head(s) = x
    <3>1. s \in Seq(Frames \union {x}) /\ s # <<>> /\ s[1] = x
      BY <1>2, <2>5, InContext, SearchFrames
    <3>2. Head(s) = s[1]
      BY <3>1, BelowTop
    <3> QED BY <2>2, <2>5, <3>1, <3>2 DEF Continue
  <2>7. Still /\ Placed' /\ Base' = Base /\ Spares(Call(h).path)
    BY <1>2, <2>3, <2>6, SearchStill
  <2>8. Searched(stack)'
    BY <2>4, <2>7, SearchedStill
  <2>9. Woven(F, u)'
    BY <1>1, <1>2, <1>3, <2>7, WovenStays
  <2>10. WeaveInv'
    BY <1>1, <1>2, <2>2, <2>3, <2>7, <2>8, <2>9, SearchGoesOn
  <2> QED BY <2>7, <2>10
<1> QED BY <1>5, <1>6

-----------------------------------------------------------------------------
(* The tree on top is removed. *)
LEMMA RemoveTreeWeaves ==
    ASSUME Context, Unfolds', NEW h \in Handle, RemoveTree(h)
    PROVE  /\ WeaveInv' /\ Spares(Call(h).path)
           /\ Spares(Last(Top(h).stack).path) /\ AtOrBelow(Call(h).path, Last(Top(h).stack).path)
<1>1. PICK f, u, p, stack, q, F, rest, x :
         /\ f = Top(h) /\ u = calls[h][2] /\ p = u.path /\ stack = f.stack /\ q = Last(stack).path
         /\ F = files' /\ rest = Front(stack) /\ x = [f EXCEPT !.stack = Front(@)]
  OBVIOUS
<1>2. Running(h, "remove") /\ f.stack # <<>> /\ Continue(h, x) /\ UNCHANGED <<edata, disk>>
      /\ files' = [files EXCEPT ![q] = None]
  BY <1>1 DEF RemoveTree, Removing, FilesWithout
<1>3. /\ mem[h] # None /\ Searched(stack) /\ Woven(files, u) /\ OnFiles /\ Call(h) = u
      /\ u \in PathFrames /\ u.dir = "up" /\ u.at + 1 = Len(u.path) /\ p \in Path /\ p \in Seq(Name)
      /\ f \in RemoveFrames /\ f.op = "remove" /\ stack \in Seq(Visits) /\ Chain(stack, p)
      /\ q \in Path /\ q \in Seq(Name) /\ stack # <<>>
  BY <1>1, <1>2, SearchWeaves DEF Running
<1>4. x.op = "remove" /\ x.stack = rest
  BY <1>1, <1>3 DEF RemoveFrames
<1>5. OnFiles'
  <2>1. PICK s : s = <<x>> \o Tail(calls[h])
    OBVIOUS
  <2>2. s \in Seq(Frames \union {x}) /\ s # <<>> /\ s[1] = x
    BY <1>2, <2>1, InContext, SearchFrames
  <2>3. Head(s) = x
    BY <2>2, BelowTop
  <2>4. calls' = [calls EXCEPT ![h] = s]
    BY <1>2, <2>1 DEF Continue
  <2> QED BY <1>1, <1>3, <1>4, <2>3, <2>4, NextOnFiles DEF Running
<1>6. Base' = Base
  BY <1>2 DEF Base
<1>7. q \in Node
  BY <1>3 DEF Node
<1>8. \A r \in AnyRef : ~(IsPathRef(r) /\ r.path = q) => ObjectOf(r)' = ObjectOf(r)
  BY <1>2, <1>3, <1>5, <1>7, InContext, FileObjects
<1>9. Met(Root)' = Met(Root)
  BY <1>6, InContext DEF Unfolds
<1>10. \A z \in Seq(Name) : z # q => DataFile(z)' = DataFile(z)
  BY <1>2 DEF DataFile
<1>11. Spares(q)
  BY <1>3, <1>8, <1>9, <1>10, InContext, ChangeSpares
<1>12. Placed'
  <2>1. ~IsTree(None)
    BY DEF IsTree, None
  <2> QED BY <1>2, <1>7, <2>1, InContext, PlacedStays
<1>13. AtOrBelow(p, q)
  <2>1. Last(stack).path \in Seq(Name)
    BY <1>1, <1>3
  <2>2. p = Upto(Last(stack).path, Len(p)) /\ Len(p) \in 0..Len(Last(stack).path)
    BY <1>3, <2>1, StackPlaces
  <2>3. p = Upto(q, Len(p)) /\ Len(p) \in 0..Len(q) /\ Len(q) \in Nat
    BY <1>1, <1>3, <2>2, PathLength
  <2>4. CASE Len(p) = Len(q)
    <3>1. p = q
      BY <1>3, <2>3, <2>4, PathPrefix
    <3> QED BY <1>3, <3>1, PrefixIs
  <2>5. CASE Len(p) # Len(q)
    <3>1. Len(p) \in 0..(Len(q) - 1)
      BY <2>3, <2>5
    <3> QED BY <1>3, <2>3, <3>1, Turns
  <2> QED BY <2>4, <2>5
<1>14. Spares(p)
  BY <1>3, <1>11, <1>13, SparesAbove
<1>15. Woven(F, u)'
  BY <1>1, <1>3, <1>14, WovenBeside
<1>16. rest \in Seq(Visits)
  BY <1>1, <1>3, Ends
<1>17. Searched(rest)'
  <2>1. /\ Chain(rest, p) /\ Len(rest) = Len(stack) - 1 /\ Len(stack) \in Nat \ {0}
        /\ \A k \in 1..(Len(stack) - 1) : rest[k] = stack[k]
        /\ rest # <<>> => Last(rest) = stack[Len(stack) - 1] /\ Last(rest).path \in Seq(Name)
    <3>1. Last(stack).path \in Seq(Name)
      BY <1>1, <1>3
    <3> QED BY <1>1, <1>3, <3>1, ChainShrinks, Ends
  <2>2. CASE rest = <<>>
    BY <2>2 DEF Searched
  <2>3. CASE rest # <<>>
    <3>1. PICK l : l = Len(stack)
      OBVIOUS
    <3>2. l \in Nat /\ l - 1 \in Nat /\ l - 1 # 0 /\ l - 1 + 1 = l /\ l - 1 \in 1..l /\ Len(rest) = l - 1
      BY <1>16, <2>1, <2>3, <3>1, Ends
    <3>3. TurnedTo(stack[l - 1], stack[l].path)
      <4>1. \A k \in 1..Len(stack) : k < Len(stack) => TurnedTo(stack[k], stack[k + 1].path)
        BY <1>3 DEF Searched
      <4> QED BY <3>1, <3>2, <4>1
    <3>4. TurnedTo(Last(rest), q)
      BY <1>1, <2>1, <2>3, <3>1, <3>2, <3>3 DEF Last
    <3>5. \A k \in 1..Len(rest) : /\ rest[k] = stack[k] /\ k \in 1..Len(stack)
                                  /\ k < Len(rest) => k < Len(stack) /\ k + 1 \in 1..(l - 1)
      BY <2>1, <3>1, <3>2
    <3>6. Searched(rest)
      BY <1>3, <2>1, <3>1, <3>5 DEF Searched
    <3>7. \A k \in 1..Len(rest) : k < Len(rest) => TurnedTo(rest[k], rest[k + 1].path)
      BY <3>6 DEF Searched
    <3>8. \A k \in 1..Len(rest) : \E i \in 0..(Len(q) - 1) :
             rest[k].path = Upto(q, i) /\ q[i + 1] \notin rest[k].todo
      BY <1>3, <1>16, <2>1, <2>3, <3>4, <3>7, StackWay
    <3> QED BY <1>3, <1>11, <1>16, <3>6, <3>8, SearchedStays
  <2> QED BY <2>2, <2>3
<1>18. WeaveInv'
  BY <1>1, <1>2, <1>4, <1>6, <1>12, <1>15, <1>17, SearchGoesOn
<1> QED BY <1>1, <1>3, <1>11, <1>13, <1>14, <1>18

(* The search ends, the walk that waited goes on. *)
LEMMA RemoveEndsWeaves ==
    ASSUME Context, Unfolds', NEW h \in Handle, RemoveEnds(h)
    PROVE  WeaveInv' /\ Spares(Call(h).path)
<1>1. PICK f, u, F, s : f = Top(h) /\ u = calls[h][2] /\ F = files' /\ s = Tail(calls[h])
  OBVIOUS
<1>2. Running(h, "remove") /\ UNCHANGED <<files, edata, disk>> /\ calls' = [calls EXCEPT ![h] = s]
  BY <1>1 DEF RemoveEnds, Return, transient
<1>3. /\ calls[h] # <<>> /\ mem[h] # None /\ Woven(files, u)
      /\ u \in PathFrames /\ u.op \in PathOps /\ u.dir = "up" /\ u.path \in Path
  BY <1>1, <1>2, SearchWeaves
<1>4. s # <<>> /\ Len(s) = 1 /\ s[1] = u
  BY <1>1, <1>2, InContext, SearchFrames
<1>5. Head(s).op # "commit"
  <2>1. calls[h] \in Seq(Frames)
    BY InContext DEF IInv, TypeOK
  <2>2. s \in Seq(Frames)
    BY <1>1, <1>3, <2>1, Ends
  <2>3. Head(s) = u
    BY <1>4, <2>2, BelowTop
  <2> QED BY <1>3, <2>3 DEF PathOps
<1>6. Still /\ Placed' /\ Base' = Base /\ Spares(Call(h).path)
  BY <1>2, <1>5, SearchStill
<1>7. Woven(F, u)'
  BY <1>1, <1>2, <1>3, <1>6, WovenStays
<1>8. CallWoven(F, s)'
  BY <1>4, <1>7 DEF CallWoven
<1> QED BY <1>1, <1>2, <1>3, <1>6, <1>8, WeavesOn

(* A step of a search. *)
LEMMA RemoveStepWeaves ==
    ASSUME Context, Unfolds', NEW h \in Handle, RemoveStep(h)
    PROVE  WeaveInv' /\ Spares(Call(h).path)
BY RemoveChildWeaves, RemoveTreeWeaves, RemoveEndsWeaves DEF RemoveStep

-----------------------------------------------------------------------------
(* What clients do between the steps of calls.                             *)

LEMMA AllRest ==
    ASSUME Placed', \A g \in Handle : calls'[g] = <<>>
    PROVE  WeaveInv'
BY DEF WeaveInv

(* A call begins. *)
LEMMA EnterWeaves ==
    ASSUME Context, Unfolds', NEW h \in Handle, Idle(h), NEW op \in PathOps, NEW p \in Path,
           NEW leaf, EnterPath(h, op, p, leaf, <<>>), UNCHANGED <<files, edata, disk>>
    PROVE  WeaveInv'
<1>1. PICK g, F, s : g = PathCall(op, p, leaf, RootTree(mem[h])) /\ F = files' /\ s = <<g>>
  OBVIOUS
<1>2. mem[h] # None /\ calls[h] = <<>> /\ disk # None /\ mem[h] = disk
  BY InContext DEF Idle, ChildInv
<1>3. calls' = [calls EXCEPT ![h] = s]
  <2>1. <<g>> \o <<>> = <<g>>
    OBVIOUS
  <2> QED BY <1>1, <2>1 DEF EnterPath
<1>4. Len(s) = 1 /\ s[1] = g /\ Head(s) = g
  BY <1>1
<1>5. g.op # "commit"
  BY <1>1 DEF PathCall, PathOps
<1>6. OnFiles /\ OnFiles' /\ mem[h].root = Base
  <2>1. ~Running(h, "commit")
    BY <1>2 DEF Running
  <2>2. OnFiles
    BY <1>2, <2>1, InContext, NoneCommits
  <2> QED BY <1>2, <1>3, <1>4, <1>5, <2>1, <2>2, NextOnFiles DEF Base
<1>7. Base' = Base /\ Placed'
  BY InContext DEF Base, Placed, TransientNames
<1>8. Still
  BY <1>6, <1>7, InContext, SameObjects, StillIs
<1>9. Woven(F, g)'
  BY <1>1, <1>2, <1>6, <1>8, EntersWoven
<1>10. CallWoven(F, s)'
  BY <1>4, <1>9 DEF CallWoven
<1> QED BY <1>1, <1>2, <1>3, <1>7, <1>10, WeavesOn

LEMMA ClientStepWeaves ==
    ASSUME Context, Unfolds', NEW h \in Handle, ClientStep(h), Alone'
    PROVE  WeaveInv'
<1>1. IInv /\ Alone /\ Placed /\ ChildInv /\ mem \in [Handle -> WorkspaceObjs(trees, Len(commits)) \union {None}]
      /\ calls \in [Handle -> Seq(Frames)]
  BY InContext DEF IInv, TypeOK
<1>2. ASSUME NEW g \in Handle, mem[g] = None
      PROVE  calls[g] = <<>>
  BY <1>1, <1>2 DEF IInv, RootInv, InCall
<1>3. ASSUME UNCHANGED <<files, calls>>, mem[h] = None, mem'[h] # None,
             \A g \in Handle \ {h} : mem'[g] = mem[g]
      PROVE  WeaveInv'
  <2>1. \A g \in Handle \ {h} : mem[g] = None
    BY <1>3 DEF Alone
  <2>2. \A g \in Handle : calls'[g] = <<>>
    BY <1>2, <1>3, <2>1
  <2>3. Placed'
    BY <1>1, <1>3 DEF Placed, TransientNames
  <2> QED BY <2>2, <2>3, AllRest
<1>4. ASSUME Idle(h), UNCHANGED <<files, calls>>
      PROVE  WeaveInv'
  <2>1. \A g \in Handle : calls'[g] = <<>>
    BY <1>1, <1>4, Others DEF Idle
  <2>2. Placed'
    BY <1>1, <1>4 DEF Placed, TransientNames
  <2> QED BY <2>1, <2>2, AllRest
<1>5. ASSUME NEW parent, CreateWorkspace(h, parent)
      PROVE  WeaveInv'
  <2>1. UNCHANGED <<files, calls>> /\ mem[h] = None /\ mem' = [mem EXCEPT ![h] = disk']
        /\ disk' = [parent |-> parent, root |-> None, tracked |-> {}]
    BY <1>5 DEF CreateWorkspace, transient
  <2>2. disk' # None
    BY <2>1 DEF None
  <2> QED BY <1>1, <1>3, <2>1, <2>2
<1>6. ASSUME OpenWorkspace(h)
      PROVE  WeaveInv'
  BY <1>1, <1>3, <1>6 DEF OpenWorkspace, transient
<1>7. ASSUME CloseWorkspace(h)
      PROVE  WeaveInv'
  BY <1>4, <1>7 DEF CloseWorkspace, transient
<1>8. ASSUME NEW p \in Path, NEW d, WriteData(h, p, d)
      PROVE  WeaveInv'
  BY <1>4, <1>8 DEF WriteData
<1>9. "store" \in PathOps /\ "deleteEntity" \in PathOps /\ "deleteTree" \in PathOps
  BY DEF PathOps
<1>10. ASSUME NEW p \in Path, NEW m, StoreEntity(h, p, m)
       PROVE  WeaveInv'
  BY <1>9, <1>10, EnterWeaves DEF StoreEntity, transient
<1>11. ASSUME NEW p \in Path, NEW m, EditEntity(h, p, m)
       PROVE  WeaveInv'
  BY <1>9, <1>11, EnterWeaves DEF EditEntity, transient
<1>12. ASSUME NEW p \in Path, DeleteEntity(h, p)
       PROVE  WeaveInv'
  BY <1>9, <1>12, EnterWeaves DEF DeleteEntity, transient
<1>13. ASSUME NEW p \in Path, DeleteTree(h, p)
       PROVE  WeaveInv'
  BY <1>9, <1>13, EnterWeaves DEF DeleteTree, transient
<1>14. ASSUME BeginCommit(h)
       PROVE  WeaveInv'
  <2>1. PICK f, s, F : /\ f = [op |-> "commit",
                               stack |-> IF mem[h].root = None THEN <<>>
                                         ELSE <<Visit(Root, None, TreeOf(mem[h].root))>>,
                               cur |-> None, done |-> {}, made |-> 0]
                       /\ s = <<f>> /\ F = files'
    OBVIOUS
  <2>2. Idle(h) /\ calls' = [calls EXCEPT ![h] = s] /\ UNCHANGED files
    BY <1>14, <2>1 DEF BeginCommit, transient
  <2>3. s[1].op = "commit"
    BY <2>1
  <2>4. CallWoven(F, s)'
    BY <2>3 DEF CallWoven
  <2>5. Placed'
    BY <1>1, <2>2 DEF Placed, TransientNames
  <2> QED BY <2>1, <2>2, <2>4, <2>5, WeavesOn DEF Idle
<1> QED BY <1>5, <1>6, <1>7, <1>8, <1>10, <1>11, <1>12, <1>13, <1>14 DEF ClientStep

(* The workspace object is removed while no handle has it open. *)
LEMMA DropWeaves ==
    ASSUME Context, DeleteWorkspaceForced, \A h \in Handle : mem[h] = None
    PROVE  WeaveInv'
<1>1. \A g \in Handle : calls'[g] = <<>>
  BY InContext DEF DeleteWorkspaceForced, IInv, RootInv, InCall
<1>2. Placed'
  BY InContext DEF DeleteWorkspaceForced, transient, Placed, TransientNames
<1> QED BY <1>1, <1>2, AllRest

-----------------------------------------------------------------------------
(* What a commit knows of the map.                                         *)

Single(done) == \A d, e \in done : d.path = e.path => d = e

(* The root has been recorded when the stack is empty. *)
Rooted(f) ==
    /\ Base = None => f.stack = <<>> /\ f.done = {}
    /\ Base # None /\ f.stack # <<>> => f.stack[1].tree = TreeOf(Base)
    /\ Base # None /\ f.stack = <<>> => /\ IdOf(f.done, Root) # None
                                        /\ IsIdRef(Base) => IdOf(f.done, Root) = Base.id
    /\ f.made # 0 => commits[f.made].root = IdOf(f.done, Root)

(* What is yet to be done has not been recorded. *)
Ahead(stack, p) ==
    \A k \in 1..Len(stack) :
        stack[k].path # p /\ \A n \in stack[k].todo : ~AtOrBelow(Append(stack[k].path, n), p)

Fresh(f) ==
    /\ Single(f.done)
    /\ \A e \in f.done : /\ Ahead(f.stack, e.path)
                         /\ f.cur # None /\ f.cur.step \in {"data", "entity"} => f.cur.path # e.path

(* What has been recorded is in the store with its data, what has not been *)
(* is in the files.                                                        *)
Moved(f) ==
    /\ \A e \in f.done : e.path # Root /\ IsEntity(e.id) => DataFile(e.path) = None
    /\ \A k \in 1..Len(f.stack) : k # 1 => f.stack[k].tree = files[f.stack[k].path]
    /\ f.cur # None =>
          /\ f.cur.step = "data" => f.cur.obj = files[f.cur.path]
          /\ f.cur.step \in {"entity", "remove"} => DataFile(f.cur.path) = None
          /\ f.cur.step = "remove" => IdOf(f.done, f.cur.path) # None
          /\ f.cur.step = "removeTree" /\ IsPathRef(f.cur.ref) => IdOf(f.done, f.cur.ref.path) # None

CommitInv == \A h \in Handle : Running(h, "commit") => Rooted(Top(h)) /\ Fresh(Top(h)) /\ Moved(Top(h))

LEMMA CommitInvStays ==
    ASSUME CommitInv, UNCHANGED <<trees, commits, files, edata, disk, calls>>
    PROVE  CommitInv'
<1> SUFFICES ASSUME NEW h \in Handle, Running(h, "commit")'
             PROVE  Rooted(Top(h))' /\ Fresh(Top(h))' /\ Moved(Top(h))'
  BY DEF CommitInv
<1>1. PICK f : f = Top(h)
  OBVIOUS
<1>2. Rooted(f) /\ Fresh(f) /\ Moved(f) /\ Top(h)' = f
  BY <1>1 DEF CommitInv, Running, Top
<1>3. Rooted(f)'
  <2>1. Base' = Base /\ \A r : TreeOf(r)' = TreeOf(r)
    BY DEF Base, TreeOf, File
  <2> QED BY <1>2, <2>1 DEF Rooted
<1>4. Moved(f)'
  BY <1>2 DEF Moved, DataFile
<1> QED BY <1>2, <1>3, <1>4 DEF Fresh

(* What is recorded. *)
LEMMA RecordIs ==
    ASSUME NEW done, Single(done)
    PROVE  /\ \A e \in done : IdOf(done, e.path) = e.id
           /\ \A p : IdOf(done, p) # None => \E e \in done : e.path = p
<1>1. ASSUME NEW e \in done
      PROVE  IdOf(done, e.path) = e.id
  <2> DEFINE d == CHOOSE x \in done : x.path = e.path
  <2>1. d \in done /\ d.path = e.path
    OBVIOUS
  <2>2. d = e
    BY <2>1 DEF Single
  <2>3. IdOf(done, e.path) = d.id
    BY DEF IdOf
  <2> QED BY <2>2, <2>3
<1>2. \A p : IdOf(done, p) # None => \E e \in done : e.path = p
  BY DEF IdOf
<1> QED BY <1>1, <1>2

LEMMA NewRecord ==
    ASSUME NEW done, Single(done), NEW p, \A e \in done : e.path # p, NEW obj,
           NEW new, new = Record(done, {Entry(p, obj)})
    PROVE  /\ new = done \union {Entry(p, obj)} /\ Single(new)
           /\ Entry(p, obj).path = p /\ Entry(p, obj).id = obj
           /\ IdOf(new, p) = obj
           /\ \A q : q # p => IdOf(new, q) = IdOf(done, q)
<1>1. Entry(p, obj).path = p /\ Entry(p, obj).id = obj
  BY DEF Entry
<1>2. PICK e : e = Entry(p, obj)
  OBVIOUS
<1>3. new = done \union {e} /\ e.path = p /\ e.id = obj
  <2>1. e.path = p /\ e.id = obj
    BY <1>1, <1>2
  <2> QED BY <1>2, <2>1 DEF Record
<1>4. Single(new)
  BY <1>3 DEF Single
<1>5. IdOf(new, p) = obj
  BY <1>3, <1>4, RecordIs
<1>6. ASSUME NEW q, q # p
      PROVE  IdOf(new, q) = IdOf(done, q)
  <2>1. CASE \E d \in done : d.path = q
    <3>1. PICK d \in done : d.path = q
      BY <2>1
    <3>2. IdOf(done, d.path) = d.id
      BY RecordIs
    <3>3. IdOf(new, d.path) = d.id
      BY <1>3, <1>4, RecordIs
    <3> QED BY <3>1, <3>2, <3>3
  <2>2. CASE ~\E d \in done : d.path = q
    <3>1. ~\E d \in new : d.path = q
      BY <1>3, <1>6, <2>2
    <3> QED BY <2>2, <3>1 DEF IdOf
  <2> QED BY <2>1, <2>2
<1> QED BY <1>1, <1>2, <1>3, <1>4, <1>5, <1>6

(* The object at a path that a commit shows. *)
Sees(f, q) ==
    IF f.cur # None /\ f.cur.step = "entity" /\ f.cur.path = q THEN f.cur.obj
    ELSE IF IdOf(f.done, q) # None THEN IdOf(f.done, q) ELSE File(q)

LEMMA CommitSees ==
    ASSUME Context, NEW h \in Handle, Running(h, "commit"), NEW f, f = Top(h)
    PROVE  \A q : Present(q) = Sees(f, q)
<1> DEFINE committing == {k \in Handle : Running(k, "commit")}
<1>1. \A k \in Handle \ {h} : ~Running(k, "commit")
  BY InContext, CommitAlone, Others DEF Running
<1>2. committing = {h}
  BY <1>1
<1> HIDE DEF committing
<1>3. (CHOOSE k \in committing : TRUE) = h /\ committing # {}
  BY <1>2
<1> QED BY <1>3 DEF Present, Sees, committing

LEMMA CommitWillSee ==
    ASSUME Context, NEW h \in Handle, Running(h, "commit"), NEW g, Continue(h, g), g.op = "commit"
    PROVE  /\ \A q : Present(q)' = Sees(g, q)'
           /\ Running(h, "commit")' /\ g = Top(h)' /\ \A k \in Handle \ {h} : ~Running(k, "commit")'
<1> DEFINE committing == {k \in Handle : Running(k, "commit")}
<1>1. /\ calls' = [calls EXCEPT ![h] = <<g>>] /\ calls \in [Handle -> Seq(Frames)]
      /\ \A k \in Handle \ {h} : calls[k] = <<>>
  BY InContext, CommitAlone, Others DEF IInv, TypeOK
<1>2. calls'[h] = <<g>> /\ \A k \in Handle \ {h} : calls'[k] = <<>>
  BY <1>1
<1>3. Running(h, "commit")' /\ g = Top(h)' /\ \A k \in Handle \ {h} : ~Running(k, "commit")'
  BY <1>2 DEF Running, Top
<1>4. committing' = {h}
  BY <1>3
<1> HIDE DEF committing
<1>5. (CHOOSE k \in committing' : TRUE) = h /\ committing' # {}
  BY <1>4
<1>6. \A q : Present(q)' = Sees(g, q)'
  BY <1>3, <1>5 DEF Present, Sees, committing
<1> QED BY <1>3, <1>6

(* It goes on. *)
LEMMA CommitWeavesOn ==
    ASSUME Context, NEW h \in Handle, Running(h, "commit"), NEW g, Continue(h, g), g.op = "commit",
           Placed', Rooted(g)', Fresh(g), Moved(g)'
    PROVE  WeaveInv' /\ CommitInv'
<1>1. PICK s, F : s = <<g>> /\ F = files'
  OBVIOUS
<1>2. mem[h] # None /\ calls' = [calls EXCEPT ![h] = s] /\ s[1].op = "commit"
  BY <1>1, InContext, CommitAlone
<1>3. CallWoven(F, s)'
  BY <1>2 DEF CallWoven
<1>4. WeaveInv'
  BY <1>1, <1>2, <1>3, WeavesOn
<1>5. CommitInv'
  BY CommitWillSee DEF CommitInv, Fresh, Single, Ahead
<1> QED BY <1>4, <1>5

-----------------------------------------------------------------------------
(* What holds while a commit runs.                                         *)

(* Where the search has turned lies ahead of all it has yet to turn to. *)
LEMMA AheadOf ==
    ASSUME NEW stack \in Seq(Visits), Chain(stack, Root),
           \A k \in 1..Len(stack) : k < Len(stack) => TurnedTo(stack[k], stack[k + 1].path),
           NEW z \in Path, stack # <<>> => Last(stack).path \in Seq(Name) /\ TurnedTo(Last(stack), z)
    PROVE  Ahead(stack, z)
<1>1. CASE stack = <<>>
  BY <1>1 DEF Ahead
<1>2. CASE stack # <<>>
  <2>1. Root \in Seq(Name)
    BY DEF Root
  <2>2. \A k \in 1..Len(stack) : \E i \in 0..(Len(z) - 1) :
           stack[k].path = Upto(z, i) /\ z[i + 1] \notin stack[k].todo
    BY <1>2, <2>1, StackWay
  <2>3. ASSUME NEW k \in 1..Len(stack)
        PROVE  stack[k].path # z /\ \A n \in stack[k].todo : ~AtOrBelow(Append(stack[k].path, n), z)
    <3>1. PICK i \in 0..(Len(z) - 1) : stack[k].path = Upto(z, i) /\ z[i + 1] \notin stack[k].todo
      BY <2>2
    <3>2. stack[k].path # z
      <4>1. Len(Upto(z, i)) = i /\ Len(z) \in Nat
        BY Turns
      <4>2. i # Len(z)
        BY <4>1
      <4> QED BY <3>1, <4>1, <4>2
    <3>3. ASSUME NEW n \in stack[k].todo
          PROVE  ~AtOrBelow(Append(Upto(z, i), n), z)
      <4>1. n \in Name /\ n # z[i + 1]
        <5>1. stack[k] \in Visits
          OBVIOUS
        <5> QED BY <3>1, <5>1 DEF Visits
      <4> QED BY <4>1, Aside
    <3> QED BY <3>1, <3>2, <3>3
  <2> QED BY <2>3 DEF Ahead
<1> QED BY <1>1, <1>2

LEMMA InCommit ==
    ASSUME Context, CommitInv, NEW h \in Handle, Running(h, "commit"), NEW f, f = Top(h)
    PROVE  /\ mem[h] # None /\ f \in CommitFrames /\ f.op = "commit"
           /\ Rooted(f) /\ Fresh(f) /\ Moved(f) /\ CommitFits(files, f) /\ CurFits(files, f)
           /\ f.stack \in Seq(Visits) /\ Chain(f.stack, Root)
           /\ \A k \in 1..Len(f.stack) : k < Len(f.stack) => TurnedTo(f.stack[k], f.stack[k + 1].path)
           /\ f.stack # <<>> => Last(f.stack) \in Visits /\ Last(f.stack).path \in Seq(Name)
           /\ \A q : Present(q) = Sees(f, q)
           /\ files \in [Node -> Trees(Objects) \union Entities(datas) \union {None}]
           /\ edata \in [Path -> Data \union {None}]
<1>1. /\ CommitFits(files, f) /\ f \in CommitFrames /\ f.stack \in Seq(Visits) /\ mem[h] # None
  BY InContext, CommitAlone
<1>2. f.op = "commit" /\ Rooted(f) /\ Fresh(f) /\ Moved(f)
  BY DEF Running, CommitInv
<1>3. /\ Chain(f.stack, Root) /\ CurFits(files, f)
      /\ \A k \in 1..Len(f.stack) : k < Len(f.stack) => TurnedTo(f.stack[k], f.stack[k + 1].path)
  BY <1>1 DEF CommitFits
<1>4. ASSUME f.stack # <<>>
      PROVE  Last(f.stack) \in Visits /\ Last(f.stack).path \in Seq(Name)
  <2>1. Last(f.stack) \in Visits
    BY <1>1, <1>4, Ends
  <2> QED BY <2>1, NodeIsPath DEF Visits
<1>5. \A q : Present(q) = Sees(f, q)
  BY CommitSees
<1> QED BY <1>1, <1>2, <1>3, <1>4, <1>5, InContext DEF IInv, TypeOK

(* What is in the root's file, or in the store, stays. *)
LEMMA BaseTreeStays ==
    ASSUME IInv, files'[Root] = files[Root], trees \subseteq trees', Base' = Base
    PROVE  TreeOf(Base)' = TreeOf(Base)
<1>1. Base \in {None, RootRef} \union IdRefs(trees)
  BY DEF IInv, TypeOK, WorkspaceObjs, Base
<1>2. CASE Base = None
  BY <1>2 DEF TreeOf, IsPathRef, IsIdRef, None
<1>3. CASE Base = RootRef
  <2>1. RootRef.path = Root /\ ~IsIdRef(RootRef) /\ IsPathRef(RootRef)
    BY DEF RootRef, PathRef, IsIdRef, IsPathRef
  <2>2. File(Root)' = File(Root)
    BY DEF File, Node
  <2> QED BY <1>3, <2>1, <2>2 DEF TreeOf
<1>4. CASE Base \in IdRefs(trees)
  <2>1. ~IsPathRef(Base) /\ IsIdRef(Base) /\ Base.id \in trees
    BY <1>4 DEF IdRefs, IsPathRef, IsIdRef
  <2> QED BY <2>1 DEF TreeOf
<1> QED BY <1>1, <1>2, <1>3, <1>4

LEMMA RootedStays ==
    ASSUME IInv, files'[Root] = files[Root], trees \subseteq trees', Base' = Base,
           NEW f, NEW g, Rooted(f), f.stack = <<>> <=> g.stack = <<>>,
           f.stack # <<>> => g.stack[1].tree = f.stack[1].tree,
           IdOf(g.done, Root) = IdOf(f.done, Root), f.stack = <<>> => g.done = f.done,
           g.made # 0 => commits'[g.made].root = IdOf(f.done, Root)
    PROVE  Rooted(g)'
<1>1. TreeOf(Base)' = TreeOf(Base)
  BY BaseTreeStays
<1> QED BY <1>1 DEF Rooted

(* The map stays when all objects do. *)
LEMMA CommitStill ==
    ASSUME Context, Unfolds', UNCHANGED <<disk, edata>>, \A q : Present(q)' = Present(q)
    PROVE  \A q \in Path : At(q)' = At(q)
<1>1. \A r \in AnyRef : ObjectOf(r)' = ObjectOf(r)
  BY DEF ObjectOf
<1>2. Base' = Base
  BY DEF Base
<1>3. Still
  BY <1>1, <1>2, InContext, StillIs
<1>4. Root \in Seq(Name)
  BY DEF Root
<1> QED BY <1>3, <1>4, InContext, StillSpares

-----------------------------------------------------------------------------
(* A commit turns to a child. *)

(* A path that lies elsewhere lies elsewhere further down, too. *)
LEMMA FurtherAside ==
    ASSUME NEW p \in Seq(Name), NEW n \in Name, NEW q \in Seq(Name), ~AtOrBelow(p, q)
    PROVE  ~AtOrBelow(Append(p, n), q) /\ p # q
<1>1. Append(p, n) \in Seq(Name) /\ Len(Append(p, n)) = Len(p) + 1 /\ Len(p) \in Nat /\ Len(q) \in Nat
      /\ \A i \in 1..Len(p) : Append(p, n)[i] = p[i]
  OBVIOUS
<1>2. p # q
  <2>1. AtOrBelow(p, p)
    BY PrefixIs
  <2> QED BY <2>1
<1>3. ASSUME AtOrBelow(Append(p, n), q)
      PROVE  FALSE
  <2>1. Len(Append(p, n)) <= Len(q) /\ \A i \in 1..Len(Append(p, n)) : Append(p, n)[i] = q[i]
    BY <1>1, <1>3, PrefixIs
  <2>2. PICK d : d = Append(p, n)
    OBVIOUS
  <2>3. Len(d) = Len(p) + 1 /\ Len(d) <= Len(q) /\ (\A i \in 1..Len(d) : d[i] = q[i])
        /\ \A i \in 1..Len(p) : d[i] = p[i]
    BY <1>1, <2>1, <2>2
  <2>4. \A i \in 1..Len(p) : i \in 1..Len(d)
    BY <1>1, <2>3
  <2>5. Len(p) <= Len(q) /\ \A i \in 1..Len(p) : p[i] = q[i]
    BY <1>1, <2>3, <2>4
  <2> QED BY <2>5, PrefixIs
<1> QED BY <1>2, <1>3

(* The stack but for the child turned to. *)
TurnedOn(f, g, p) ==
    /\ g \in CommitFrames /\ g.op = "commit" /\ g.cur = None /\ g.done = f.done /\ g.made = 0
    /\ g.stack \in Seq(Visits) /\ g.stack # <<>> /\ Len(g.stack) \in Nat \ {0}
    /\ g.stack[1].tree = f.stack[1].tree
    /\ \A k \in 1..Len(g.stack) : k # 1 => g.stack[k].tree = files[g.stack[k].path]
    /\ \A e \in f.done : /\ e.path \in Seq(Name) /\ Ahead(g.stack, e.path)
                         /\ p # e.path /\ \A x \in Name : ~AtOrBelow(Append(p, x), e.path)

LEMMA CommitTurns ==
    ASSUME Context, CommitInv, NEW h \in Handle, Searching(h), NEW f, f = Top(h),
           NEW n \in Last(f.stack).todo
    PROVE  TurnedOn(f, PassTo(f, n), Append(Last(f.stack).path, n))
<1> DEFINE g == PassTo(f, n)
           p == Append(Last(f.stack).path, n)
<1> HIDE DEF g, p
<1>1. PICK s, t, m : s = f.stack /\ t = g.stack /\ m = Len(s)
  OBVIOUS
<1>2. f.stack # <<>> /\ Running(h, "commit")
  BY DEF Searching
<1>3. /\ f \in CommitFrames /\ Fresh(f) /\ Moved(f)
      /\ s \in Seq(Visits) /\ s # <<>>
      /\ Last(s) \in Visits /\ Last(s).path \in Seq(Name)
  BY <1>1, <1>2, InCommit
<1>4. /\ g = [f EXCEPT !.stack = t] /\ g.op = "commit" /\ g.cur = None /\ g.done = f.done /\ g.made = 0
      /\ t \in Seq(Visits) /\ t # <<>> /\ Len(t) = m
  <2>1. LET y == PassTo(Top(h), n)
        IN  y = [Top(h) EXCEPT !.stack = y.stack] /\ Turning(Top(h), y, n)
    BY InContext, CommitPasses
  <2>2. g = [f EXCEPT !.stack = t] /\ Turning(f, g, n)
    BY <1>1, <2>1 DEF g
  <2> QED BY <1>1, <2>2 DEF Turning
<1>5. /\ Last(t) = [Last(s) EXCEPT !.todo = @ \ {n}] /\ Last(t) = t[m]
      /\ \A k \in 1..(m - 1) : t[k] = s[k]
  <2>1. LET x == PassTo(f, n)
            z == f.stack
            y == x.stack
        IN  /\ Last(y) = [Last(z) EXCEPT !.todo = @ \ {n}] /\ Last(y) = y[Len(z)]
            /\ \A k \in 1..(Len(z) - 1) : y[k] = z[k]
    BY <1>2, <1>3, <1>1, Passing
  <2> QED BY <1>1, <2>1 DEF g
<1>6. m \in Nat \ {0} /\ Last(s) = s[m] /\ n \in Name /\ n \in s[m].todo
  <2>1. m \in Nat \ {0} /\ Last(s) = s[m]
    BY <1>1, <1>3, Ends DEF Last
  <2> QED BY <1>1, <1>3, <2>1 DEF Visits
<1>7. ASSUME NEW k \in 1..m
      PROVE  t[k].path = s[k].path /\ t[k].tree = s[k].tree /\ t[k].todo \subseteq s[k].todo
  <2>1. CASE k = m
    <3>1. t[m] = [s[m] EXCEPT !.todo = @ \ {n}] /\ s[m] \in Visits
      BY <1>3, <1>5, <1>6
    <3> QED BY <2>1, <3>1 DEF Visits
  <2>2. CASE k # m
    <3>1. k \in 1..(m - 1)
      BY <1>6, <2>2
    <3> QED BY <1>5, <3>1
  <2> QED BY <2>1, <2>2
<1>8. \A k \in 1..m : k # 1 => t[k].tree = files[t[k].path]
  BY <1>1, <1>3, <1>7 DEF Moved
<1>9. 1 \in 1..m /\ m \in 1..m
  BY <1>6
<1>10. g \in CommitFrames
  BY <1>3, <1>4 DEF CommitFrames
<1>11. p \in Seq(Name) /\ p = Append(s[m].path, n)
  BY <1>1, <1>3, <1>6 DEF p
<1>12. ASSUME NEW e \in f.done
       PROVE  /\ e.path \in Seq(Name) /\ Ahead(t, e.path)
              /\ p # e.path /\ \A x \in Name : ~AtOrBelow(Append(p, x), e.path)
  <2>1. e.path \in Seq(Name)
    <3>1. f.done \in Records(Objects)
      BY <1>2, InContext, CommitTop
    <3> QED BY <3>1, NodeIsPath DEF Records
  <2>2. Ahead(s, e.path)
    BY <1>1, <1>3 DEF Fresh
  <2>3. Ahead(t, e.path)
    BY <1>1, <1>4, <1>7, <2>2 DEF Ahead
  <2>4. ~AtOrBelow(p, e.path)
    BY <1>1, <1>6, <1>9, <1>11, <2>2 DEF Ahead
  <2>5. p # e.path /\ \A x \in Name : ~AtOrBelow(Append(p, x), e.path)
    BY <1>6, <1>11, <2>1, <2>4, FurtherAside
  <2> QED BY <2>1, <2>3, <2>5
<1>13. TurnedOn(f, g, p)
  BY <1>1, <1>4, <1>6, <1>7, <1>8, <1>9, <1>10, <1>12 DEF TurnedOn
<1> QED BY <1>13 DEF g, p

(* It goes down into a tree, *)
LEMMA CommitDescends ==
    ASSUME Context, CommitInv, NEW h \in Handle, Searching(h), NEW n \in Last(Top(h).stack).todo,
           UNCHANGED <<store, transient, disk, mem>>, NEW f, f = Top(h),
           NEW p, p = Append(Last(f.stack).path, n), IsTree(files[p]),
           Continue(h, Deeper(PassTo(f, n), p, Last(f.stack).tree.refs[n], files[p]))
    PROVE  WeaveInv' /\ CommitInv' /\ \A q : Present(q)' = Present(q)
<1>1. PICK g, s, t, m : g = PassTo(f, n) /\ s = f.stack /\ t = g.stack /\ m = Len(t)
  OBVIOUS
<1>2. PICK v, x, u : /\ v = Visit(p, Last(s).tree.refs[n], files[p]) /\ x = Deeper(g, p, Last(s).tree.refs[n], files[p])
                     /\ u = Append(t, v)
  OBVIOUS
<1>3. Running(h, "commit") /\ s # <<>> /\ f.cur = None
  BY <1>1 DEF Searching
<1>4. /\ g \in CommitFrames /\ g.op = "commit" /\ g.cur = None /\ g.done = f.done /\ g.made = 0
      /\ t \in Seq(Visits) /\ t # <<>> /\ m \in Nat \ {0} /\ t[1].tree = s[1].tree
      /\ \A k \in 1..m : k # 1 => t[k].tree = files[t[k].path]
      /\ \A e \in f.done : /\ Ahead(t, e.path) /\ p # e.path
                           /\ \A y \in Name : ~AtOrBelow(Append(p, y), e.path)
  <2>1. TurnedOn(f, PassTo(f, n), Append(Last(f.stack).path, n))
    BY CommitTurns
  <2> QED BY <1>1, <2>1 DEF TurnedOn
<1>5. x.op = "commit" /\ x.cur = None /\ x.done = f.done /\ x.made = 0 /\ x.stack = u
  <2>1. x = [g EXCEPT !.stack = u]
    BY <1>1, <1>2 DEF Deeper
  <2> QED BY <1>4, <2>1 DEF CommitFrames
<1>6. /\ v.path = p /\ v.tree = files[p] /\ v.todo \subseteq Name
  BY <1>2 DEF Visit, TransientNames
<1>7. /\ u # <<>> /\ Len(u) = m + 1 /\ \A k \in 1..(m + 1) : u[k] = IF k = m + 1 THEN v ELSE t[k]
  <2>1. t \in Seq(Visits \union {v}) /\ v \in Visits \union {v} /\ Len(t) = m /\ m \in Nat
    BY <1>1, <1>4, Wider
  <2>2. /\ Append(t, v) # <<>> /\ Len(Append(t, v)) = m + 1
        /\ \A k \in 1..m : Append(t, v)[k] = t[k]
        /\ Append(t, v)[m + 1] = v
    BY ONLY <2>1, AppendProperties
  <2>3. \A k \in 1..(m + 1) : k # m + 1 => k \in 1..m
    BY <2>1
  <2> QED BY ONLY <1>2, <2>2, <2>3
<1>8. Continue(h, x) /\ UNCHANGED <<store, files, edata, disk>>
  BY <1>1, <1>2 DEF transient
<1>9. /\ Rooted(f) /\ Fresh(f) /\ Moved(f) /\ f.op = "commit" /\ \A q : Present(q) = Sees(f, q)
  BY <1>3, InCommit
<1>10. Moved(x)'
  <2>1. \A k \in 1..Len(u) : k # 1 => u[k].tree = files[u[k].path]
    <3> SUFFICES ASSUME NEW k \in 1..(m + 1), k # 1 PROVE u[k].tree = files[u[k].path]
      BY <1>7
    <3>1. CASE k = m + 1
      BY <1>6, <1>7, <3>1
    <3>2. CASE k # m + 1
      <4>1. k \in 1..m
        BY <1>4, <3>2
      <4> QED BY <1>4, <1>7, <3>2, <4>1
    <3> QED BY <3>1, <3>2
  <2>2. \A e \in f.done : e.path # Root /\ IsEntity(e.id) => DataFile(e.path) = None
    BY <1>9 DEF Moved
  <2> QED BY <1>5, <1>8, <2>1, <2>2 DEF Moved, DataFile
<1>11. Fresh(x)
  <2>1. ASSUME NEW e \in f.done
        PROVE  Ahead(u, e.path)
    <3> SUFFICES ASSUME NEW k \in 1..(m + 1)
                 PROVE  u[k].path # e.path /\ \A y \in u[k].todo : ~AtOrBelow(Append(u[k].path, y), e.path)
      BY <1>7 DEF Ahead
    <3>1. CASE k = m + 1
      BY <1>4, <1>6, <1>7, <3>1
    <3>2. CASE k # m + 1
      <4>1. k \in 1..m
        BY <1>4, <3>2
      <4> QED BY <1>1, <1>4, <1>7, <3>2, <4>1 DEF Ahead
    <3> QED BY <3>1, <3>2
  <2> QED BY <1>5, <1>9, <2>1 DEF Fresh
<1>12. Base' = Base
  BY <1>8 DEF Base
<1>13. Rooted(x)'
  <2>1. u[1].tree = f.stack[1].tree
    <3>1. 1 \in 1..(m + 1) /\ 1 # m + 1
      BY <1>4
    <3> QED BY <1>1, <1>4, <1>7, <3>1
  <2>2. files'[Root] = files[Root] /\ trees \subseteq trees'
    BY <1>8 DEF store
  <2> QED BY <1>1, <1>3, <1>5, <1>7, <1>9, <1>12, <2>1, <2>2, RootedStays, InContext
<1>14. Placed'
  BY <1>8, InContext DEF Placed
<1>15. WeaveInv' /\ CommitInv'
  BY <1>3, <1>5, <1>8, <1>10, <1>11, <1>13, <1>14, CommitWeavesOn
<1>16. \A q : Present(q)' = Sees(x, q)'
  BY <1>3, <1>5, <1>8, CommitWillSee
<1>17. \A q : Sees(x, q)' = Sees(f, q)
  BY <1>3, <1>5, <1>8 DEF Sees, File
<1> QED BY <1>9, <1>15, <1>16, <1>17

(* or to an entity. *)
LEMMA CommitComesToEntity ==
    ASSUME Context, CommitInv, NEW h \in Handle, Searching(h), NEW n \in Last(Top(h).stack).todo,
           UNCHANGED <<store, transient, disk, mem>>, NEW f, f = Top(h),
           NEW p, p = Append(Last(f.stack).path, n), NEW c,
           c.step = "data" /\ c.path = p /\ c.obj = files[p] /\ c # None,
           Continue(h, [PassTo(f, n) EXCEPT !.cur = c])
    PROVE  WeaveInv' /\ CommitInv' /\ \A q : Present(q)' = Present(q)
<1>1. PICK g, s, t, m, x : /\ g = PassTo(f, n) /\ s = f.stack /\ t = g.stack /\ m = Len(t)
                           /\ x = [g EXCEPT !.cur = c]
  OBVIOUS
<1>3. Running(h, "commit") /\ s # <<>> /\ f.cur = None
  BY <1>1 DEF Searching
<1>4. /\ g \in CommitFrames /\ g.op = "commit" /\ g.cur = None /\ g.done = f.done /\ g.made = 0
      /\ t \in Seq(Visits) /\ t # <<>> /\ m \in Nat \ {0} /\ t[1].tree = s[1].tree
      /\ \A k \in 1..m : k # 1 => t[k].tree = files[t[k].path]
      /\ \A e \in f.done : Ahead(t, e.path) /\ p # e.path
  <2>1. TurnedOn(f, PassTo(f, n), Append(Last(f.stack).path, n))
    BY CommitTurns
  <2> QED BY <1>1, <2>1 DEF TurnedOn
<1>5. x.op = "commit" /\ x.cur = c /\ x.done = f.done /\ x.made = 0 /\ x.stack = t
  BY <1>1, <1>4 DEF CommitFrames
<1>8. Continue(h, x) /\ UNCHANGED <<store, files, edata, disk>>
  BY <1>1 DEF transient
<1>9. /\ Rooted(f) /\ Fresh(f) /\ Moved(f) /\ f.op = "commit" /\ \A q : Present(q) = Sees(f, q)
  BY <1>3, InCommit
<1>10. Moved(x)'
  <2>2. \A e \in f.done : e.path # Root /\ IsEntity(e.id) => DataFile(e.path) = None
    BY <1>9 DEF Moved
  <2> QED BY <1>1, <1>4, <1>5, <1>8, <2>2 DEF Moved, DataFile
<1>11. Fresh(x)
  BY <1>4, <1>5, <1>9 DEF Fresh
<1>12. Base' = Base
  BY <1>8 DEF Base
<1>13. Rooted(x)'
  <2>2. files'[Root] = files[Root] /\ trees \subseteq trees'
    BY <1>8 DEF store
  <2> QED BY <1>1, <1>3, <1>4, <1>5, <1>9, <1>12, <2>2, RootedStays, InContext
<1>14. Placed'
  BY <1>8, InContext DEF Placed
<1>15. WeaveInv' /\ CommitInv'
  BY <1>3, <1>5, <1>8, <1>10, <1>11, <1>13, <1>14, CommitWeavesOn
<1>16. \A q : Present(q)' = Sees(x, q)'
  BY <1>3, <1>5, <1>8, CommitWillSee
<1>17. \A q : Sees(x, q)' = Sees(f, q)
  BY <1>3, <1>5, <1>8 DEF Sees, File
<1> QED BY <1>9, <1>15, <1>16, <1>17

(* CommitChild *)
LEMMA CommitChildWeaves ==
    ASSUME Context, CommitInv, Unfolds', NEW h \in Handle, NEW n \in Name, CommitChild(h, n)
    PROVE  WeaveInv' /\ CommitInv' /\ \A q \in Path : At(q)' = At(q)
<1>1. PICK f, p, F : f = Top(h) /\ p = Append(Last(f.stack).path, n) /\ F = files[p]
  OBVIOUS
<1>2. /\ Searching(h) /\ n \in Last(f.stack).todo /\ UNCHANGED <<store, transient, disk, mem>>
      /\ Found(h, p) = F /\ F # None
  <2>1. Searching(h) /\ n \in Last(Top(h).stack).todo /\ UNCHANGED <<store, transient, disk, mem>>
    BY DEF CommitChild
  <2> QED BY <1>1, <2>1, InContext, ChildIsThere
<1>3. \/ IsTree(F) /\ Continue(h, Deeper(PassTo(f, n), p, Last(f.stack).tree.refs[n], F))
      \/ Continue(h, [PassTo(f, n) EXCEPT !.cur = [step |-> "data", path |-> p,
                                                   ref |-> Last(f.stack).tree.refs[n], obj |-> F]])
  BY <1>1, <1>2 DEF CommitChild
<1>4. WeaveInv' /\ CommitInv' /\ \A q : Present(q)' = Present(q)
  <2>1. CASE IsTree(F) /\ Continue(h, Deeper(PassTo(f, n), p, Last(f.stack).tree.refs[n], F))
    BY <1>1, <1>2, <2>1, CommitDescends
  <2>2. CASE Continue(h, [PassTo(f, n) EXCEPT !.cur = [step |-> "data", path |-> p,
                                                       ref |-> Last(f.stack).tree.refs[n], obj |-> F]])
    <3>1. PICK c : c = [step |-> "data", path |-> p, ref |-> Last(f.stack).tree.refs[n], obj |-> F]
      OBVIOUS
    <3>2. c.step = "data" /\ c.path = p /\ c.obj = F /\ c # None
      BY <3>1 DEF None
    <3> QED BY <1>1, <1>2, <2>2, <3>1, <3>2, CommitComesToEntity
  <2> QED BY <1>3, <2>1, <2>2
<1> QED BY <1>2, <1>4, CommitStill DEF transient

-----------------------------------------------------------------------------
(* A commit puts an entity into the store. *)

(* The entity in hand. *)
LEMMA EntityInHand ==
    ASSUME Context, CommitInv, NEW h \in Handle, Running(h, "commit"), NEW f, f = Top(h),
           f.cur # None, f.cur.step # "removeTree", NEW z, z = f.cur.path
    PROVE  /\ z \in Path /\ z \in Node /\ z \in Seq(Name) /\ z # Root /\ z = f.cur.ref.path
           /\ f.stack # <<>> /\ f.made = 0 /\ Ahead(f.stack, z)
           /\ f.cur.step \in {"data", "entity", "remove"}
           /\ f.cur.obj \in Entities(datas)
           /\ f.cur.step = "data" => IsEntity(files[z])
           /\ f.cur.step # "remove" => f.cur \in [step : {"data", "entity"}, path : Path, ref : PathRefs, obj : Entities(datas)]
<1>1. /\ f \in CommitFrames /\ CurFits(files, f) /\ f.stack \in Seq(Visits) /\ Chain(f.stack, Root)
      /\ \A k \in 1..Len(f.stack) : k < Len(f.stack) => TurnedTo(f.stack[k], f.stack[k + 1].path)
      /\ f.stack # <<>> => Last(f.stack).path \in Seq(Name)
  BY InCommit
<1>2. f.cur \in Currents
  BY <1>1 DEF CommitFrames
<1>3. entities \subseteq Entities(datas)
  BY InContext, IInvInv, StoredTypes
<1>4. /\ z \in Path /\ f.cur.step \in {"data", "entity", "remove"} /\ f.cur.obj \in Entities(datas)
      /\ f.cur.step # "remove" => f.cur \in [step : {"data", "entity"}, path : Path, ref : PathRefs, obj : Entities(datas)]
  BY <1>2, <1>3 DEF Currents
<1>5. f.stack # <<>> /\ f.made = 0 /\ z = f.cur.ref.path /\ TurnedTo(Last(f.stack), z)
      /\ (f.cur.step = "data" => IsEntity(files[z]))
  BY <1>1 DEF CurFits
<1>6. Ahead(f.stack, z)
  BY <1>1, <1>4, <1>5, AheadOf
<1> QED BY <1>4, <1>5, <1>6, PathLength

(* The stack stays and what has been recorded as the root, too. *)
Advances(h, f, g) ==
    /\ Running(h, "commit") /\ f = Top(h) /\ Continue(h, g)
    /\ g.op = "commit" /\ g.stack = f.stack /\ g.made = 0
    /\ IdOf(g.done, Root) = IdOf(f.done, Root) /\ (f.stack = <<>> => g.done = f.done)
    /\ Fresh(g) /\ Moved(g)' /\ Placed'
    /\ files'[Root] = files[Root] /\ trees \subseteq trees' /\ UNCHANGED disk

LEMMA CommitAdvances ==
    ASSUME Context, CommitInv, Unfolds', NEW h \in Handle, NEW f, NEW g, Advances(h, f, g)
    PROVE  WeaveInv' /\ CommitInv' /\ \A q : Present(q)' = Sees(g, q)'
<1>1. Base' = Base
  BY DEF Base, Advances
<1>2. Rooted(f)
  BY InCommit DEF Advances
<1>3. Rooted(g)'
  BY <1>1, <1>2, InContext, RootedStays DEF Advances
<1>4. WeaveInv' /\ CommitInv'
  BY <1>3, CommitWeavesOn DEF Advances
<1> QED BY <1>4, CommitWillSee DEF Advances

(* PersistEntity *)
LEMMA PersistEntityWeaves ==
    ASSUME Context, CommitInv, Unfolds', NEW h \in Handle, PersistEntity(h)
    PROVE  WeaveInv' /\ CommitInv' /\ \A q \in Path : At(q)' = At(q)
<1>1. PICK f, z, obj, new, c, g :
         /\ f = Top(h) /\ z = f.cur.path /\ obj = f.cur.obj /\ new = Record(f.done, {Entry(z, obj)})
         /\ c = [f.cur EXCEPT !.step = "remove"]
         /\ g = [f EXCEPT !.cur.step = "remove", !.done = Record(@, {Entry(z, obj)})]
  OBVIOUS
<1>2. /\ Running(h, "commit") /\ f.cur # None /\ f.cur.step = "entity" /\ Continue(h, g)
      /\ UNCHANGED <<files, edata, disk, trees>>
  BY <1>1 DEF PersistEntity, transient
<1>3. /\ f \in CommitFrames /\ f.op = "commit" /\ Fresh(f) /\ Moved(f) /\ \A q : Present(q) = Sees(f, q)
      /\ f.cur # None /\ f.cur.step # "removeTree"
  BY <1>1, <1>2, InCommit
<1>4. /\ z \in Path /\ z # Root /\ f.stack # <<>> /\ f.made = 0 /\ Ahead(f.stack, z)
      /\ f.cur \in [step : {"data", "entity"}, path : Path, ref : PathRefs, obj : Entities(datas)]
  BY <1>1, <1>2, <1>3, EntityInHand
<1>5. c.step = "remove" /\ c.path = z /\ c # None /\ obj # None
  BY <1>1, <1>4 DEF None, Entities
<1>6. g.op = "commit" /\ g.stack = f.stack /\ g.made = 0 /\ g.done = new /\ g.cur = c
  <2>1. g = [[f EXCEPT !.cur = c] EXCEPT !.done = new]
    BY <1>1, <1>3, <1>4 DEF CommitFrames
  <2> QED BY <1>3, <1>4, <2>1 DEF CommitFrames
<1>7. Single(f.done) /\ \A e \in f.done : e.path # z
  BY <1>1, <1>2, <1>3 DEF Fresh
<1>8. /\ new = f.done \union {Entry(z, obj)} /\ Single(new) /\ Entry(z, obj).path = z
      /\ IdOf(new, z) = obj /\ \A q : q # z => IdOf(new, q) = IdOf(f.done, q)
  <2>1. new = Record(f.done, {Entry(z, obj)})
    BY <1>1
  <2> QED BY ONLY <1>7, <2>1, NewRecord
<1>9. \A e \in new : e \in f.done \/ e.path = z
  BY <1>8
<1>10. DataFile(z) = None
  BY <1>1, <1>2, <1>3 DEF Moved
<1>11. Fresh(g)
  BY <1>3, <1>4, <1>5, <1>6, <1>8, <1>9 DEF Fresh
<1>12. Moved(g)'
  <2>1. \A e \in new : e.path # Root /\ IsEntity(e.id) => DataFile(e.path) = None
    BY <1>3, <1>9, <1>10 DEF Moved
  <2>2. \A k \in 1..Len(f.stack) : k # 1 => f.stack[k].tree = files[f.stack[k].path]
    BY <1>3 DEF Moved
  <2> QED BY <1>2, <1>5, <1>6, <1>8, <1>10, <2>1, <2>2 DEF Moved, DataFile
<1>13. Placed'
  BY <1>2, InContext DEF Placed
<1>14. WeaveInv' /\ CommitInv' /\ \A q : Present(q)' = Sees(g, q)'
  <2>1. IdOf(g.done, Root) = IdOf(f.done, Root)
    BY <1>4, <1>6, <1>8
  <2>2. Advances(h, f, g)
    BY <1>1, <1>2, <1>4, <1>6, <1>11, <1>12, <1>13, <2>1 DEF Advances
  <2> QED BY <2>2, CommitAdvances
<1>15. \A q : Sees(g, q)' = Sees(f, q)
  <2>1. f.cur.step = "entity" /\ f.cur.path = z /\ f.cur.obj = obj /\ f.cur # None
    BY <1>1, <1>2, <1>3
  <2>2. Sees(g, z)' = obj /\ Sees(f, z) = obj
    BY <1>5, <1>6, <1>8, <2>1 DEF Sees
  <2>3. ASSUME NEW q, q # z
        PROVE  Sees(g, q)' = Sees(f, q)
    <3>1. IdOf(new, q) = IdOf(f.done, q) /\ File(q)' = File(q)
      BY <1>2, <1>8, <2>3 DEF File
    <3> QED BY <1>6, <2>1, <2>3, <3>1, <1>5 DEF Sees
  <2> QED BY <2>2, <2>3
<1> QED BY <1>2, <1>3, <1>14, <1>15, CommitStill

(* RemovePersisted *)
LEMMA RemovePersistedWeaves ==
    ASSUME Context, CommitInv, Unfolds', NEW h \in Handle, RemovePersisted(h)
    PROVE  WeaveInv' /\ CommitInv' /\ \A q \in Path : At(q)' = At(q)
<1>1. PICK f, z, g : f = Top(h) /\ z = f.cur.path /\ g = [f EXCEPT !.cur = None]
  OBVIOUS
<1>2. /\ Running(h, "commit") /\ f.cur # None /\ f.cur.step = "remove" /\ Continue(h, g)
      /\ UNCHANGED <<disk, trees>>
      /\ files' = [files EXCEPT ![f.cur.ref.path] = None]
      /\ edata' = [edata EXCEPT ![f.cur.ref.path] = None]
  BY <1>1 DEF RemovePersisted, FilesWithout, store
<1>3. /\ f \in CommitFrames /\ f.op = "commit" /\ Fresh(f) /\ Moved(f) /\ \A q : Present(q) = Sees(f, q)
      /\ f.cur # None /\ f.cur.step # "removeTree"
      /\ files \in [Node -> Trees(Objects) \union Entities(datas) \union {None}]
      /\ edata \in [Path -> Data \union {None}]
  BY <1>1, <1>2, InCommit
<1>4. /\ z \in Path /\ z \in Node /\ z # Root /\ f.stack # <<>> /\ f.made = 0 /\ Ahead(f.stack, z) /\ z = f.cur.ref.path
  BY <1>1, <1>2, <1>3, EntityInHand
<1>5. g.op = "commit" /\ g.stack = f.stack /\ g.made = 0 /\ g.done = f.done /\ g.cur = None
  BY <1>1, <1>3, <1>4 DEF CommitFrames
<1>6. DataFile(z) = None /\ IdOf(f.done, z) # None
  BY <1>1, <1>2, <1>3 DEF Moved
<1>7. UNCHANGED edata
  BY <1>2, <1>3, <1>4, <1>6 DEF DataFile
<1>8. files' = [files EXCEPT ![z] = None] /\ \A q : q # z => files'[q] = files[q]
  BY <1>2, <1>3, <1>4
<1>9. Fresh(g)
  BY <1>3, <1>5 DEF Fresh
<1>10. Moved(g)'
  <2>1. \A k \in 1..Len(f.stack) : f.stack[k].path # z
    BY <1>4 DEF Ahead
  <2> QED BY <1>3, <1>5, <1>7, <1>8, <2>1 DEF Moved, DataFile
<1>11. Placed'
  <2>1. ~IsTree(None)
    BY DEF IsTree, None
  <2> QED BY <1>4, <1>8, <2>1, InContext, PlacedStays
<1>12. WeaveInv' /\ CommitInv' /\ \A q : Present(q)' = Sees(g, q)'
  <2>1. Advances(h, f, g)
    BY <1>1, <1>2, <1>4, <1>5, <1>8, <1>9, <1>10, <1>11 DEF Advances
  <2> QED BY <2>1, CommitAdvances
<1>13. \A q : Sees(g, q)' = Sees(f, q)
  BY <1>2, <1>5, <1>6, <1>8 DEF Sees, File
<1> QED BY <1>2, <1>3, <1>7, <1>12, <1>13, CommitStill

(* RemovePersistedTree *)
LEMMA RemovePersistedTreeWeaves ==
    ASSUME Context, CommitInv, Unfolds', NEW h \in Handle, RemovePersistedTree(h)
    PROVE  WeaveInv' /\ CommitInv' /\ \A q \in Path : At(q)' = At(q)
<1>1. PICK f, z, g : f = Top(h) /\ z = f.cur.ref.path /\ g = [f EXCEPT !.cur = None]
  OBVIOUS
<1>2. /\ Running(h, "commit") /\ f.cur # None /\ f.cur.step = "removeTree" /\ Continue(h, g)
      /\ UNCHANGED <<disk, edata, trees>>
      /\ files' = IF IsPathRef(f.cur.ref) THEN [files EXCEPT ![z] = None] ELSE files
  BY <1>1 DEF RemovePersistedTree, FilesWithout, store
<1>3. /\ f \in CommitFrames /\ f.op = "commit" /\ Fresh(f) /\ Moved(f) /\ \A q : Present(q) = Sees(f, q)
      /\ CurFits(files, f) /\ f.stack \in Seq(Visits) /\ Chain(f.stack, Root)
      /\ \A k \in 1..Len(f.stack) : k < Len(f.stack) => TurnedTo(f.stack[k], f.stack[k + 1].path)
      /\ f.stack # <<>> => Last(f.stack).path \in Seq(Name)
      /\ files \in [Node -> Trees(Objects) \union Entities(datas) \union {None}]
  BY <1>1, <1>2, InCommit
<1>4. /\ f.made = 0 /\ (IsPathRef(f.cur.ref) <=> f.stack # <<>>)
      /\ f.stack # <<>> => TurnedTo(Last(f.stack), z)
  BY <1>1, <1>2, <1>3 DEF CurFits
<1>5. g.op = "commit" /\ g.stack = f.stack /\ g.made = 0 /\ g.done = f.done /\ g.cur = None
  BY <1>1, <1>3, <1>4 DEF CommitFrames
<1>6. ASSUME IsPathRef(f.cur.ref)
      PROVE  /\ z \in Node /\ z # Root /\ IdOf(f.done, z) # None
             /\ \A k \in 1..Len(f.stack) : f.stack[k].path # z
  <2>1. f.cur \in Currents
    BY <1>3 DEF CommitFrames
  <2>2. f.cur.ref \in {None} \union PathRefs
    BY <1>2, <2>1 DEF Currents
  <2>3. z \in Path
    BY <1>1, <1>6, <2>2 DEF PathRefs, IsPathRef, None
  <2>4. Ahead(f.stack, z)
    BY <1>3, <1>4, <2>3, AheadOf
  <2>5. IdOf(f.done, z) # None
    BY <1>1, <1>2, <1>3, <1>6 DEF Moved
  <2> QED BY <2>3, <2>4, <2>5, PathLength DEF Ahead
<1>7. \A q : File(q)' = File(q) \/ IdOf(f.done, q) # None
  BY <1>2, <1>3, <1>6 DEF File
<1>8. Fresh(g)
  BY <1>3, <1>5 DEF Fresh
<1>9. Moved(g)'
  <2>1. \A k \in 1..Len(f.stack) : files'[f.stack[k].path] = files[f.stack[k].path]
    BY <1>2, <1>3, <1>6
  <2> QED BY <1>2, <1>3, <1>5, <2>1 DEF Moved, DataFile
<1>10. Placed' /\ files'[Root] = files[Root]
  <2>1. CASE IsPathRef(f.cur.ref)
    <3>1. ~IsTree(None)
      BY DEF IsTree, None
    <3>2. z \in Node /\ z # Root /\ files' = [files EXCEPT ![z] = None]
      BY <1>2, <1>6, <2>1
    <3>3. Placed'
      BY <3>1, <3>2, InContext, PlacedStays
    <3> QED BY <1>3, <3>2, <3>3
  <2>2. CASE ~IsPathRef(f.cur.ref)
    BY <1>2, <2>2, InContext DEF Placed
  <2> QED BY <2>1, <2>2
<1>11. WeaveInv' /\ CommitInv' /\ \A q : Present(q)' = Sees(g, q)'
  <2>1. Advances(h, f, g)
    BY <1>1, <1>2, <1>4, <1>5, <1>8, <1>9, <1>10 DEF Advances
  <2> QED BY <2>1, CommitAdvances
<1>12. \A q : Sees(g, q)' = Sees(f, q)
  BY <1>2, <1>5, <1>7 DEF Sees
<1> QED BY <1>2, <1>3, <1>11, <1>12, CommitStill

-----------------------------------------------------------------------------
(* A commit moves the data of an entity. *)

(* Induction on paths. *)
LEMMA PathInduction ==
    ASSUME NEW G, Root \in G, \A q \in Seq(Name), n \in Name : q \in G => Append(q, n) \in G
    PROVE  Seq(Name) \subseteq G
<1> DEFINE S == {k \in Nat : \A q \in Seq(Name) : Len(q) = k => q \in G}
<1>1. 0 \in S
  <2>1. \A q \in Seq(Name) : Len(q) = 0 => q = Root
    BY DEF Root
  <2> QED BY <2>1
<1>2. ASSUME NEW k \in Nat, k \in S
      PROVE  k + 1 \in S
  <2> SUFFICES ASSUME NEW p \in Seq(Name), Len(p) = k + 1
               PROVE  p \in G
    OBVIOUS
  <2>1. PICK q, n : q = Upto(p, k) /\ n = p[k + 1]
    OBVIOUS
  <2>2. q \in Seq(Name) /\ n \in Name /\ p = Append(q, n) /\ Len(q) = k
    BY <2>1, Longer
  <2>3. q \in G
    BY <1>2, <2>2
  <2> QED BY <2>2, <2>3
<1> HIDE DEF S
<1>3. \A k \in Nat : k \in S
  BY <1>1, <1>2, Induction
<1>4. \A q \in Seq(Name) : Len(q) \in Nat
  OBVIOUS
<1> QED BY <1>3, <1>4 DEF S

(* One meets the same as long as the trees one meets are the same. *)
LEMMA SameMet ==
    ASSUME Unfolds, Unfolds', Met(Root)' = Met(Root),
           \A q \in Seq(Name) : \A r \in Met(q) :
              IsTree(ObjectOf(r)) \/ IsTree(ObjectOf(r))' => ObjectOf(r)' = ObjectOf(r)
    PROVE  \A q \in Seq(Name) : Met(q)' = Met(q)
<1> DEFINE G == {q \in Seq(Name) : Met(q)' = Met(q)}
<1>1. Root \in G
  BY DEF Root
<1>2. ASSUME NEW q \in Seq(Name), NEW n \in Name, q \in G
      PROVE  Append(q, n) \in G
  <2>1. Append(q, n) \in Seq(Name)
    OBVIOUS
  <2>2. Met(q)' = Met(q)
    BY <1>2
  <2>3. \A r \in Met(q) : /\ IsTree(ObjectOf(r)) <=> IsTree(ObjectOf(r)')
                          /\ IsTree(ObjectOf(r)) => ObjectOf(r)' = ObjectOf(r)
    BY DEF IsTree
  <2>4. Met(Append(q, n)) = {ObjectOf(r).refs[n] : r \in {s \in Met(q) : IsTree(ObjectOf(s))}} \ {None}
    BY DEF Unfolds
  <2>5. Met(Append(q, n))' = {ObjectOf(r)'.refs[n] : r \in {s \in Met(q)' : IsTree(ObjectOf(s)')}} \ {None}
    BY DEF Unfolds
  <2>6. Met(Append(q, n))' = Met(Append(q, n))
    BY ONLY <2>2, <2>3, <2>4, <2>5
  <2> QED BY <2>1, <2>6
<1> HIDE DEF G
<1>3. Seq(Name) \subseteq G
  BY <1>1, <1>2, PathInduction
<1> QED BY <1>3 DEF G

(* The map shows the same when what is met says the same. *)
LEMMA SameSaid ==
    ASSUME Unfolds, Unfolds', NEW q \in Path, Met(q)' = Met(q),
           \A r \in Met(q) : Contents(r)' = Contents(r)
    PROVE  At(q)' = At(q)
<1>1. UNION {Contents(r)' : r \in Met(q)'} = UNION {Contents(r) : r \in Met(q)}
  OBVIOUS
<1>2. At(q) = Shown(UNION {Contents(r) : r \in Met(q)})
  BY DEF Unfolds
<1>3. At(q)' = Shown(UNION {Contents(r)' : r \in Met(q)'})
  BY DEF Unfolds
<1> QED BY ONLY <1>1, <1>2, <1>3

(* PersistData *)
LEMMA PersistDataWeaves ==
    ASSUME Context, CommitInv, Unfolds', NEW h \in Handle, PersistData(h)
    PROVE  WeaveInv' /\ CommitInv' /\ \A q \in Path : At(q)' = At(q)
<1>1. PICK f, z, d, e, obj, c, g :
         /\ f = Top(h) /\ z = f.cur.path /\ d = DataFile(z) /\ e = files[z] /\ obj = WithDataId(e, d)
         /\ c = [f.cur EXCEPT !.step = "entity", !.obj = obj]
         /\ g = [f EXCEPT !.cur.step = "entity", !.cur.obj = obj]
  OBVIOUS
<1>2. /\ Running(h, "commit") /\ f.cur # None /\ f.cur.step = "data"
      /\ UNCHANGED <<files, disk, trees, entities>>
      /\ edata' = [edata EXCEPT ![f.cur.ref.path] = None]
  BY <1>1 DEF PersistData
<1>3. /\ f \in CommitFrames /\ f.op = "commit" /\ Fresh(f) /\ Moved(f) /\ \A q : Present(q) = Sees(f, q)
      /\ f.cur # None /\ f.cur.step # "removeTree"
      /\ edata \in [Path -> Data \union {None}]
  BY <1>1, <1>2, InCommit
<1>4. /\ z \in Path /\ z \in Node /\ z # Root /\ z = f.cur.ref.path /\ f.stack # <<>> /\ f.made = 0
      /\ f.cur \in [step : {"data", "entity"}, path : Path, ref : PathRefs, obj : Entities(datas)]
      /\ IsEntity(files[z])
  BY <1>1, <1>2, <1>3, EntityInHand
<1>5. e = f.cur.obj /\ e \in Entities(datas) /\ IsEntity(e) /\ File(z) = e
  BY <1>1, <1>2, <1>3, <1>4 DEF Moved, File
<1>6. Continue(h, g)
  <2>1. IsEntity(File(f.cur.ref.path)) /\ DataFile(f.cur.ref.path) = d /\ WithDataId(f.cur.obj, d) = obj
    BY <1>1, <1>4, <1>5
  <2>2. /\ f = Top(h)
        /\ IsEntity(File(f.cur.ref.path)) =>
              Continue(h, [f EXCEPT !.cur.step = "entity",
                                    !.cur.obj = WithDataId(f.cur.obj, DataFile(f.cur.ref.path))])
    BY <1>1 DEF PersistData
  <2> QED BY <1>1, <2>1, <2>2
<1>7. c.step = "entity" /\ c.path = z /\ c.obj = obj /\ c # None
  BY <1>1, <1>4 DEF None
<1>8. g.op = "commit" /\ g.stack = f.stack /\ g.made = 0 /\ g.done = f.done /\ g.cur = c
  <2>1. g = [f EXCEPT !.cur = c]
    BY <1>1, <1>3, <1>4 DEF CommitFrames
  <2> QED BY <1>3, <1>4, <2>1 DEF CommitFrames
<1>9. /\ IsEntity(obj) /\ ~IsTree(obj) /\ ~IsTree(e) /\ obj.meta = e.meta
      /\ obj.dataid = IF d # None THEN d ELSE e.dataid
  BY <1>1, <1>5 DEF WithDataId, Entities, IsEntity, IsTree
<1>10. DataFile(z)' = None /\ \A q : q # z => DataFile(q)' = DataFile(q)
  BY <1>2, <1>3, <1>4 DEF DataFile
<1>11. \A x \in f.done : x.path # z
  BY <1>1, <1>2, <1>3 DEF Fresh
<1>12. Fresh(g)
  BY <1>3, <1>7, <1>8, <1>11 DEF Fresh
<1>13. Moved(g)'
  <2>1. \A x \in f.done : x.path # Root /\ IsEntity(x.id) => DataFile(x.path)' = None
    BY <1>3, <1>10, <1>11 DEF Moved
  <2>2. \A k \in 1..Len(f.stack) : k # 1 => f.stack[k].tree = files[f.stack[k].path]
    BY <1>3 DEF Moved
  <2> QED BY <1>2, <1>7, <1>8, <1>10, <2>1, <2>2 DEF Moved
<1>14. Placed'
  BY <1>2, InContext DEF Placed
<1>15. WeaveInv' /\ CommitInv' /\ \A q : Present(q)' = Sees(g, q)'
  <2>1. Advances(h, f, g)
    BY <1>1, <1>2, <1>4, <1>6, <1>8, <1>12, <1>13, <1>14 DEF Advances
  <2> QED BY <2>1, CommitAdvances
<1>16. IdOf(f.done, z) = None
  BY <1>11 DEF IdOf
<1>17. /\ Present(z) = e /\ Present(z)' = obj
       /\ \A q : q # z => Present(q)' = Present(q)
  <2>1. Sees(f, z) = e /\ Sees(g, z)' = obj
    BY <1>2, <1>5, <1>7, <1>8, <1>16 DEF Sees
  <2>2. \A q : q # z => Sees(g, q)' = Sees(f, q)
    BY <1>2, <1>7, <1>8 DEF Sees, File
  <2> QED BY <1>3, <1>15, <2>1, <2>2
<1>18. \A r : IF IsPathRef(r) /\ r.path = z THEN ObjectOf(r) = e /\ ObjectOf(r)' = obj
                                           ELSE ObjectOf(r)' = ObjectOf(r)
  <2> SUFFICES ASSUME NEW r
               PROVE  IF IsPathRef(r) /\ r.path = z THEN ObjectOf(r) = e /\ ObjectOf(r)' = obj
                                                     ELSE ObjectOf(r)' = ObjectOf(r)
    OBVIOUS
  <2>1. CASE IsPathRef(r)
    <3>1. ~IsIdRef(r)
      BY <2>1 DEF IsPathRef, IsIdRef
    <3>2. ObjectOf(r) = Present(r.path) /\ ObjectOf(r)' = Present(r.path)'
      BY <2>1, <3>1 DEF ObjectOf
    <3> QED BY <1>17, <2>1, <3>2
  <2>2. CASE ~IsPathRef(r)
    BY <2>2 DEF ObjectOf
  <2> QED BY <2>1, <2>2
<1>19. \A q \in Seq(Name) : Met(q)' = Met(q)
  <2>1. Met(Root)' = Met(Root)
    <3>1. Base' = Base
      BY <1>2 DEF Base
    <3> QED BY <3>1, InContext DEF Unfolds
  <2>2. \A q \in Seq(Name) : \A r \in Met(q) :
           IsTree(ObjectOf(r)) \/ IsTree(ObjectOf(r))' => ObjectOf(r)' = ObjectOf(r)
    BY <1>9, <1>18 DEF IsTree
  <2> QED BY <2>1, <2>2, InContext, SameMet
<1>20. ASSUME NEW r
       PROVE  Contents(r)' = Contents(r)
  <2>1. Contents(r)
          = {[meta |-> o.meta,
              data |-> IF IsPathRef(r) /\ DataFile(r.path) # None THEN DataFile(r.path) ELSE o.dataid] :
                o \in {x \in {ObjectOf(r)} : IsEntity(x)}}
    BY DEF Contents, DataOf
  <2>2. Contents(r)'
          = {[meta |-> o.meta,
              data |-> IF IsPathRef(r) /\ DataFile(r.path)' # None THEN DataFile(r.path)' ELSE o.dataid] :
                o \in {x \in {ObjectOf(r)'} : IsEntity(x)}}
    BY DEF Contents, DataOf
  <2>3. CASE IsPathRef(r) /\ r.path = z
    <3>1. ObjectOf(r) = e /\ ObjectOf(r)' = obj /\ DataFile(r.path) = d /\ DataFile(r.path)' = None
      BY <1>1, <1>10, <1>18, <2>3
    <3>2. Contents(r) = {[meta |-> e.meta, data |-> IF d # None THEN d ELSE e.dataid]}
      <4>1. {x \in {e} : IsEntity(x)} = {e}
        BY <1>5
      <4> QED BY <2>1, <2>3, <3>1, <4>1
    <3>3. Contents(r)' = {[meta |-> obj.meta, data |-> obj.dataid]}
      <4>1. {x \in {obj} : IsEntity(x)} = {obj}
        BY <1>9
      <4> QED BY <2>2, <3>1, <4>1
    <3> QED BY ONLY <1>9, <3>2, <3>3
  <2>4. CASE ~(IsPathRef(r) /\ r.path = z)
    <3>1. ObjectOf(r)' = ObjectOf(r) /\ (IsPathRef(r) => DataFile(r.path)' = DataFile(r.path))
      BY <1>10, <1>18, <2>4
    <3> QED BY ONLY <2>1, <2>2, <3>1
  <2> QED BY <2>3, <2>4
<1>21. \A q \in Path : At(q)' = At(q)
  BY <1>19, <1>20, InContext, SameSaid, PathLength
<1> QED BY <1>15, <1>21

-----------------------------------------------------------------------------
(* A commit puts a tree into the store. *)

(* The trees one meets, and what the map shows. *)
Wood(q) == {o \in {ObjectOf(r) : r \in Met(q)} : IsTree(o)}

Told(q) == UNION {Contents(r) : r \in Met(q)}

LEMMA WoodBelow ==
    ASSUME NEW q \in Seq(Name), NEW n \in Name
    PROVE  /\ Unfolds => Met(Append(q, n)) = {t.refs[n] : t \in Wood(q)} \ {None}
           /\ Unfolds' => Met(Append(q, n))' = {t.refs[n] : t \in Wood(q)'} \ {None}
<1>1. ASSUME Unfolds
      PROVE  Met(Append(q, n)) = {t.refs[n] : t \in Wood(q)} \ {None}
  <2>1. Met(Append(q, n)) = {ObjectOf(r).refs[n] : r \in {s \in Met(q) : IsTree(ObjectOf(s))}} \ {None}
    BY <1>1 DEF Unfolds
  <2>2. {ObjectOf(r).refs[n] : r \in {s \in Met(q) : IsTree(ObjectOf(s))}} = {t.refs[n] : t \in Wood(q)}
    BY DEF Wood
  <2> QED BY <2>1, <2>2
<1>2. ASSUME Unfolds'
      PROVE  Met(Append(q, n))' = {t.refs[n] : t \in Wood(q)'} \ {None}
  <2>1. Met(Append(q, n))' = {ObjectOf(r)'.refs[n] : r \in {s \in Met(q)' : IsTree(ObjectOf(s)')}} \ {None}
    BY <1>2 DEF Unfolds
  <2>2. Wood(q)' = {o \in {ObjectOf(r)' : r \in Met(q)'} : IsTree(o)}
    BY DEF Wood
  <2>3. {ObjectOf(r)'.refs[n] : r \in {s \in Met(q)' : IsTree(ObjectOf(s)')}} = {t.refs[n] : t \in Wood(q)'}
    BY <2>2
  <2> QED BY <2>1, <2>3
<1> QED BY <1>1, <1>2

LEMMA ToldIs ==
    ASSUME NEW q \in Path
    PROVE  /\ Unfolds => At(q) = Shown(Told(q))
           /\ Unfolds' => At(q)' = Shown(Told(q)')
<1>1. Unfolds => At(q) = Shown(Told(q))
  BY DEF Unfolds, Told
<1>2. Unfolds' => At(q)' = Shown(Told(q)')
  <2>1. Told(q)' = UNION {Contents(r)' : r \in Met(q)'}
    BY DEF Told
  <2>2. Unfolds' => At(q)' = Shown(UNION {Contents(r)' : r \in Met(q)'})
    BY DEF Unfolds
  <2> QED BY <2>1, <2>2
<1> QED BY <1>1, <1>2

(* The references met at a path say the same, where they differ. *)
LEMMA SaysSame ==
    ASSUME NEW M, NEW N, NEW q,
           \A r \in M : \E s \in N : ObjectOf(s)' = ObjectOf(r) /\ Contents(s)' = Contents(r),
           \A s \in N : \E r \in M : ObjectOf(s)' = ObjectOf(r) /\ Contents(s)' = Contents(r),
           M = Met(q), N = Met(q)'
    PROVE  Wood(q)' = Wood(q) /\ Told(q)' = Told(q)
<1>1. Wood(q) = {o \in {ObjectOf(r) : r \in M} : IsTree(o)}
  BY DEF Wood
<1>2. Wood(q)' = {o \in {ObjectOf(s)' : s \in N} : IsTree(o)}
  BY DEF Wood
<1>3. Told(q) = UNION {Contents(r) : r \in M}
  BY DEF Told
<1>4. Told(q)' = UNION {Contents(s)' : s \in N}
  BY DEF Told
<1>5. {ObjectOf(r) : r \in M} = {ObjectOf(s)' : s \in N}
  OBVIOUS
<1>6. {Contents(r) : r \in M} = {Contents(s)' : s \in N}
  OBVIOUS
<1> QED BY ONLY <1>1, <1>2, <1>3, <1>4, <1>5, <1>6

(* The tree in hand, at p, and its form for the store. *)
Shelved(f, p, T, T1) ==
    /\ p \in Node /\ p \in Seq(Name) /\ T \in Trees(Objects) /\ IsTree(T) /\ IsTree(T1)
    /\ \A n \in TransientNames(T) :
          /\ T.refs[n].path = Append(p, n) /\ IsPathRef(T.refs[n])
          /\ IdOf(f.done, Append(p, n)) # None
          /\ T1.refs[n] = IdRef(IdOf(f.done, Append(p, n)))
    /\ \A n \in Name : n \notin TransientNames(T) => T1.refs[n] = T.refs[n]
    /\ T1 = TreeObj([n \in Name |-> T1.refs[n]])
    /\ \A e \in f.done : e.path # p
    /\ IF Len(f.stack) = 1 THEN p = Root /\ T = TreeOf(Base) ELSE p # Root /\ T = files[p]

LEMMA TreeInHand ==
    ASSUME Context, CommitInv, NEW h \in Handle, TreeIsDone(h), NEW f, f = Top(h)
    PROVE  /\ Shelved(f, Last(f.stack).path, Last(f.stack).tree, PersistentForm(f))
           /\ Base # None /\ Unrecorded(f) = {}
<1>1. PICK s, m, p, T : s = f.stack /\ m = Len(s) /\ p = Last(s).path /\ T = Last(s).tree
  OBVIOUS
<1>2. Searching(h) /\ Last(s).todo = {} /\ Running(h, "commit")
  BY <1>1 DEF TreeIsDone, Searching
<1>3. /\ s \in Seq(Visits) /\ s # <<>> /\ m \in Nat \ {0} /\ m \in 1..m /\ Last(s) = s[m] /\ s[m] \in Visits
      /\ s[m].path \in Seq(Name) /\ Len(s[m].path) = m - 1
      /\ \A j \in TransientNames(s[m].tree) :
            /\ s[m].tree.refs[j].path = Append(s[m].path, j)
            /\ j \notin s[m].todo => \/ Recorded(f, s[m], j)
                                     \/ m < m /\ s[m + 1].path = Append(s[m].path, j)
  <2>1. LET y == Top(h)
            z == y.stack
            l == Len(z)
        IN  /\ z \in Seq(Visits) /\ z # <<>> /\ l \in Nat \ {0} /\ l \in 1..l /\ Last(z) = z[l]
            /\ \A k \in 1..l : z[k] \in Visits /\ z[k].path \in Seq(Name) /\ Len(z[k].path) = k - 1
            /\ \A k \in 1..l : \A j \in TransientNames(z[k].tree) :
                  /\ z[k].tree.refs[j].path = Append(z[k].path, j)
                  /\ j \notin z[k].todo => \/ Recorded(y, z[k], j)
                                           \/ k < l /\ z[k + 1].path = Append(z[k].path, j)
    BY <1>2, InContext, SearchingFits
  <2> QED BY <1>1, <2>1
<1>4. /\ p \in Node /\ p \in Seq(Name) /\ T \in Trees(Objects) /\ IsTree(T) /\ Len(p) = m - 1
      /\ p = s[m].path /\ T = s[m].tree
  BY <1>1, <1>3 DEF Visits, Trees, IsTree
<1>5. /\ Rooted(f) /\ Fresh(f) /\ Moved(f) /\ Chain(s, Root)
  BY <1>1, <1>2, InCommit
<1>6. \A e \in f.done : e.path # p
  <2> SUFFICES ASSUME NEW e \in f.done PROVE e.path # p
    OBVIOUS
  <2>1. Ahead(s, e.path)
    BY <1>1, <1>5 DEF Fresh
  <2> QED BY <1>1, <1>3, <1>4, <2>1 DEF Ahead
<1>7. Base # None
  BY <1>1, <1>3, <1>5 DEF Rooted
<1>8. \A n \in TransientNames(T) :
         /\ T.refs[n].path = Append(p, n) /\ IsPathRef(T.refs[n])
         /\ IdOf(f.done, Append(p, n)) # None
  <2>1. ~(m < m)
    BY <1>3
  <2> QED BY <1>2, <1>3, <1>4, <2>1 DEF Recorded, TransientNames
<1>9. Unrecorded(f) = {}
  BY InContext, AllRecorded
<1>10. PICK to : to = [n \in Name |-> IF n \in TransientNames(T)
                                      THEN IdRef(IdOf(f.done, T.refs[n].path)) ELSE T.refs[n]]
  OBVIOUS
<1>11. PersistentForm(f) = TreeObj(to)
  BY <1>1, <1>9, <1>10 DEF PersistentForm
<1>12. PICK T1 : T1 = TreeObj(to)
  OBVIOUS
<1>13. /\ T1.refs = to /\ IsTree(T1) /\ TransientNames(T) \subseteq Name
  BY <1>12 DEF TreeObj, IsTree, TransientNames
<1>14. /\ \A n \in TransientNames(T) : T1.refs[n] = IdRef(IdOf(f.done, Append(p, n)))
       /\ \A n \in Name : n \notin TransientNames(T) => T1.refs[n] = T.refs[n]
       /\ T1 = TreeObj([n \in Name |-> T1.refs[n]])
  <2>1. \A n \in Name : T1.refs[n] = IF n \in TransientNames(T)
                                      THEN IdRef(IdOf(f.done, T.refs[n].path)) ELSE T.refs[n]
    BY <1>10, <1>13
  <2>2. to = [n \in Name |-> T1.refs[n]]
    BY <1>10, <1>13
  <2> QED BY <1>8, <1>12, <1>13, <2>1, <2>2
<1>15. IF m = 1 THEN p = Root /\ T = TreeOf(Base) ELSE p # Root /\ T = files[p]
  <2>1. CASE m = 1
    <3>1. s[1].path = Root
      BY <1>3, <1>5 DEF Chain
    <3> QED BY <1>1, <1>3, <1>4, <1>5, <1>7, <2>1, <3>1 DEF Rooted
  <2>2. CASE m # 1
    <3>1. Len(p) # 0 /\ Len(Root) = 0
      BY <1>3, <1>4, <2>2 DEF Root
    <3>2. \A k \in 1..Len(f.stack) : k # 1 => f.stack[k].tree = files[f.stack[k].path]
      BY <1>5 DEF Moved
    <3>3. s[m].tree = files[s[m].path]
      BY ONLY Zenon, <1>1, <1>3, <2>2, <3>2
    <3> QED BY <1>4, <2>2, <3>1, <3>3
  <2> QED BY <2>1, <2>2
<1>16. Shelved(f, p, T, T1)
  BY Zenon, <1>1, <1>4, <1>6, <1>8, <1>13, <1>14, <1>15 DEF Shelved
<1> QED BY <1>1, <1>7, <1>9, <1>11, <1>12, <1>16

(* What the commit shows next. *)
LEMMA PersistTreeRecords ==
    ASSUME Context, CommitInv, Unfolds', NEW h \in Handle, PersistTree(h),
           NEW f, f = Top(h), NEW p, p = Last(f.stack).path, NEW T, T = Last(f.stack).tree,
           NEW T1, T1 = PersistentForm(f)
    PROVE  /\ WeaveInv' /\ CommitInv'
           /\ Shelved(f, p, T, T1) /\ Single(f.done)
           /\ \A q : Present(q) = IF IdOf(f.done, q) # None THEN IdOf(f.done, q) ELSE File(q)
           /\ Present(p)' = T1 /\ \A q : q # p => Present(q)' = Present(q)
<1>1. PICK s, m, w, top, c, new, g :
         /\ s = f.stack /\ m = Len(s) /\ w = Front(s) /\ top = Last(s)
         /\ c = [step |-> "removeTree", ref |-> top.ref]
         /\ new = Record(f.done, {Entry(p, T1)})
         /\ g = [f EXCEPT !.cur = c, !.done = Record(Record(@, EmptyIds(f)), {Entry(p, T1)}), !.stack = w]
  OBVIOUS
<1>2. /\ TreeIsDone(h) /\ Running(h, "commit") /\ f.cur = None /\ s # <<>> /\ Searching(h)
      /\ trees' = trees \union {T1} /\ Continue(h, g)
      /\ UNCHANGED <<files, edata, disk, commits>>
  BY <1>1 DEF PersistTree, TreeIsDone, Searching, transient
<1>3. Shelved(f, p, T, T1) /\ Base # None /\ Unrecorded(f) = {}
  BY <1>2, TreeInHand
<1>4. /\ f \in CommitFrames /\ f.op = "commit" /\ Rooted(f) /\ Fresh(f) /\ Moved(f) /\ CommitFits(files, f)
      /\ s \in Seq(Visits) /\ Chain(s, Root) /\ Last(s).path \in Seq(Name)
      /\ \A q : Present(q) = Sees(f, q)
  BY <1>1, <1>2, InCommit
<1>5. f.made = 0 /\ m \in Nat \ {0} /\ Last(s) = s[m]
  BY <1>1, <1>2, InContext, SearchingFits
<1>6. EmptyIds(f) = {} /\ Record(f.done, EmptyIds(f)) = f.done
  <2>1. EmptyIds(f) = {}
    BY <1>3 DEF EmptyIds
  <2> QED BY <2>1 DEF Record
<1>7. g.op = "commit" /\ g.stack = w /\ g.cur = c /\ g.done = new /\ g.made = 0
  <2>1. g = [f EXCEPT !.cur = c, !.done = new, !.stack = w]
    BY <1>1, <1>6
  <2> QED BY <1>4, <1>5, <2>1 DEF CommitFrames
<1>8. c.step = "removeTree" /\ c.ref = top.ref /\ c # None
  BY <1>1 DEF None
<1>9. Single(f.done) /\ \A e \in f.done : e.path # p
  BY <1>3, <1>4 DEF Fresh, Shelved
<1>10. /\ new = f.done \union {Entry(p, T1)} /\ Single(new) /\ Entry(p, T1).path = p /\ Entry(p, T1).id = T1
       /\ IdOf(new, p) = T1 /\ \A q : q # p => IdOf(new, q) = IdOf(f.done, q)
  <2>1. PICK done : done = f.done
    OBVIOUS
  <2>2. Single(done) /\ (\A e \in done : e.path # p) /\ new = Record(done, {Entry(p, T1)})
    BY <1>1, <1>9, <2>1
  <2>3. /\ new = done \union {Entry(p, T1)} /\ Single(new) /\ Entry(p, T1).path = p /\ Entry(p, T1).id = T1
        /\ IdOf(new, p) = T1 /\ \A q : q # p => IdOf(new, q) = IdOf(done, q)
    BY ONLY <2>2, NewRecord
  <2> QED BY <2>1, <2>3
<1>11. \A e \in new : e \in f.done \/ (e.path = p /\ e.id = T1)
  BY <1>10
<1>12. IsTree(T1) /\ T1 # None /\ ~IsEntity(T1)
  BY <1>3 DEF Shelved, IsTree, IsEntity, None
<1>13. /\ Chain(w, Root) /\ Len(w) = m - 1 /\ w \in Seq(Visits)
       /\ \A k \in 1..(m - 1) : w[k] = s[k]
       /\ w # <<>> => Last(w) = s[m - 1] /\ Last(w).path \in Seq(Name)
  <2>1. Root \in Seq(Name) /\ s # <<>>
    BY <1>2 DEF Root
  <2>2. w \in Seq(Visits)
    BY <1>1, <1>4, <2>1, Ends
  <2> QED BY <1>1, <1>4, <2>1, <2>2, ChainShrinks
<1>14. \A k \in 1..(m - 1) : k \in 1..m /\ k < m /\ k + 1 \in 1..m /\ (k < m - 1 => k + 1 \in 1..(m - 1))
  BY <1>5
<1>15. w = <<>> <=> m = 1
  <2>1. w = <<>> => m - 1 = 0
    BY <1>13
  <2>2. m = 1 => w = <<>>
    BY <1>13, EmptySeq
  <2> QED BY <1>5, <2>1, <2>2
<1>16. /\ \A k \in 1..m : k < m => TurnedTo(s[k], s[k + 1].path)
       /\ \A k \in 1..m : IF k = 1 THEN s[k].ref = None ELSE IsPathRef(s[k].ref) /\ s[k].ref.path = s[k].path
  BY <1>1, <1>4 DEF CommitFits
<1>17. Ahead(w, p)
  <2>1. CASE m = 1
    BY <1>15, <2>1 DEF Ahead
  <2>2. CASE m # 1
    <3>1. p \in Path
      BY <1>1, <1>3, <2>2, NodeIsPath DEF Shelved
    <3>2. \A k \in 1..Len(w) : k < Len(w) => TurnedTo(w[k], w[k + 1].path)
      BY <1>13, <1>14, <1>16
    <3>3. m - 1 \in 1..m /\ m - 1 < m /\ (m - 1) + 1 = m
      BY <1>5, <2>2
    <3>4. w # <<>> /\ TurnedTo(Last(w), p)
      <4>1. PICK k : k = m - 1
        OBVIOUS
      <4>2. k \in 1..m /\ k < m /\ k + 1 = m
        BY <3>3, <4>1
      <4>3. TurnedTo(s[k], s[k + 1].path)
        BY <1>16, <4>2
      <4>4. s[k + 1].path = p
        BY <1>1, <1>5, <4>2
      <4>5. w # <<>> /\ Last(w) = s[k]
        BY <1>13, <1>15, <2>2, <4>1
      <4> QED BY <4>3, <4>4, <4>5
    <3> QED BY <1>13, <3>1, <3>2, <3>4, AheadOf
  <2> QED BY <2>1, <2>2
<1>18. \A q : Ahead(s, q) => Ahead(w, q)
  BY <1>1, <1>13, <1>14 DEF Ahead
<1>19. Fresh(g)
  <2>1. \A e \in f.done : Ahead(s, e.path)
    BY <1>1, <1>4 DEF Fresh
  <2>2. \A e \in new : Ahead(w, e.path)
    BY <1>11, <1>17, <1>18, <2>1
  <2> QED BY <1>7, <1>8, <1>10, <2>2 DEF Fresh
<1>20. Moved(g)'
  <2>1. \A e \in new : e.path # Root /\ IsEntity(e.id) => DataFile(e.path) = None
    BY <1>4, <1>11, <1>12 DEF Moved
  <2>2. \A k \in 1..Len(w) : k # 1 => w[k].tree = files[w[k].path]
    <3>1. \A k \in 1..m : k # 1 => s[k].tree = files[s[k].path]
      BY <1>1, <1>4 DEF Moved
    <3> QED BY <1>13, <1>14, <3>1
  <2>3. IsPathRef(c.ref) => c.ref.path = p
    <3>1. m \in 1..m
      BY <1>5
    <3>2. IF m = 1 THEN top.ref = None ELSE IsPathRef(top.ref) /\ top.ref.path = top.path
      <4>1. IF m = 1 THEN s[m].ref = None ELSE IsPathRef(s[m].ref) /\ s[m].ref.path = s[m].path
        BY <1>16, <3>1
      <4>2. top = s[m]
        BY <1>1, <1>5
      <4> QED BY <4>1, <4>2
    <3> QED BY <1>1, <1>8, <3>2 DEF IsPathRef, None
  <2> QED BY <1>2, <1>7, <1>8, <1>10, <1>12, <2>1, <2>2, <2>3 DEF Moved, DataFile
<1>21. Base' = Base
  BY <1>2 DEF Base
<1>22. Rooted(g)'
  <2>1. TreeOf(Base)' = TreeOf(Base)
    BY <1>2, <1>21, InContext, BaseTreeStays
  <2>2. ASSUME w # <<>>
        PROVE  w[1].tree = TreeOf(Base)
    <3>1. 1 \in 1..(m - 1)
      BY <1>5, <1>15, <2>2
    <3> QED BY <1>1, <1>2, <1>3, <1>4, <1>13, <3>1 DEF Rooted
  <2>3. ASSUME w = <<>>
        PROVE  IdOf(new, Root) # None /\ (IsIdRef(Base) => IdOf(new, Root) = Base.id)
    <3>1. p = Root /\ T = TreeOf(Base) /\ IdOf(new, Root) = T1
      BY <1>1, <1>3, <1>10, <1>15, <2>3 DEF Shelved
    <3>2. ASSUME IsIdRef(Base)
          PROVE  T1 = Base.id
      <4>1. disk # None => disk.root \in {None, RootRef} \union IdRefs(trees)
        BY InContext DEF IInv, TypeOK, WorkspaceObjs
      <4>2. Base.id \in trees /\ ~IsPathRef(Base)
        BY <3>2, <4>1 DEF Base, IdRefs, IsIdRef, IsPathRef, RootRef, PathRef, None
      <4>3. T = Base.id
        BY <3>1, <3>2, <4>2 DEF TreeOf
      <4>4. TransientNames(T) = {}
        BY <4>2, <4>3, InContext DEF CommitFindsChildren
      <4>5. T = TreeObj([n \in Name |-> T.refs[n]])
        BY <1>3 DEF Shelved, Trees, TreeObj
      <4>6. T1 = TreeObj([n \in Name |-> T1.refs[n]]) /\ \A n \in Name : T1.refs[n] = T.refs[n]
        BY <1>3, <4>4 DEF Shelved
      <4>7. [n \in Name |-> T1.refs[n]] = [n \in Name |-> T.refs[n]]
        BY <4>6
      <4> QED BY <4>3, <4>5, <4>6, <4>7
    <3> QED BY <1>12, <3>1, <3>2
  <2> QED BY <1>3, <1>7, <1>21, <2>1, <2>2, <2>3 DEF Rooted
<1>23. Placed'
  BY <1>2, InContext DEF Placed
<1>24. WeaveInv' /\ CommitInv'
  BY <1>2, <1>7, <1>19, <1>20, <1>22, <1>23, CommitWeavesOn
<1>25. \A q : Present(q)' = Sees(g, q)'
  BY <1>2, <1>7, CommitWillSee
<1>26. Present(p)' = T1 /\ \A q : q # p => Present(q)' = Present(q)
  BY <1>2, <1>4, <1>7, <1>8, <1>10, <1>12, <1>25 DEF Sees, File
<1>27. \A q : Present(q) = IF IdOf(f.done, q) # None THEN IdOf(f.done, q) ELSE File(q)
  BY <1>2, <1>4 DEF Sees
<1> QED BY <1>3, <1>9, <1>24, <1>26, <1>27

(* References that say the same before and after a step. *)
SaysAs(r, x) == ObjectOf(x)' = ObjectOf(r) /\ Contents(x)' = Contents(r)

LEMMA StaysSaid ==
    ASSUME UNCHANGED edata, NEW r, ObjectOf(r)' = ObjectOf(r)
    PROVE  SaysAs(r, r)
<1>1. Contents(r)
        = {[meta |-> o.meta,
            data |-> IF IsPathRef(r) /\ DataFile(r.path) # None THEN DataFile(r.path) ELSE o.dataid] :
              o \in {x \in {ObjectOf(r)} : IsEntity(x)}}
  BY DEF Contents, DataOf
<1>2. Contents(r)'
        = {[meta |-> o.meta,
            data |-> IF IsPathRef(r) /\ DataFile(r.path)' # None THEN DataFile(r.path)' ELSE o.dataid] :
              o \in {x \in {ObjectOf(r)'} : IsEntity(x)}}
  BY DEF Contents, DataOf
<1>3. \A q : DataFile(q)' = DataFile(q)
  BY DEF DataFile
<1> QED BY <1>1, <1>2, <1>3 DEF SaysAs

(* A reference by path and one to the object it leads to. *)
LEMMA MovedSays ==
    ASSUME UNCHANGED edata, NEW r, NEW obj, IsPathRef(r), ObjectOf(r) = obj,
           IsEntity(obj) => DataFile(r.path) = None
    PROVE  SaysAs(r, IdRef(obj))
<1>1. PICK x : x = IdRef(obj)
  OBVIOUS
<1>2. IsIdRef(x) /\ ~IsPathRef(x) /\ x.id = obj
  BY <1>1 DEF IdRef, IsIdRef, IsPathRef
<1>3. ObjectOf(x)' = obj
  BY <1>2 DEF ObjectOf
<1>4. Contents(r)
        = {[meta |-> o.meta,
            data |-> IF IsPathRef(r) /\ DataFile(r.path) # None THEN DataFile(r.path) ELSE o.dataid] :
              o \in {y \in {obj} : IsEntity(y)}}
  BY DEF Contents, DataOf
<1>5. Contents(x)'
        = {[meta |-> o.meta,
            data |-> IF IsPathRef(x) /\ DataFile(x.path)' # None THEN DataFile(x.path)' ELSE o.dataid] :
              o \in {y \in {obj} : IsEntity(y)}}
  BY <1>3 DEF Contents, DataOf
<1>6. CASE IsEntity(obj)
  <2>1. DataFile(r.path) = None
    BY <1>6
  <2> QED BY <1>1, <1>2, <1>3, <1>4, <1>5, <2>1 DEF SaysAs
<1>7. CASE ~IsEntity(obj)
  <2>1. {y \in {obj} : IsEntity(y)} = {}
    BY <1>7
  <2> QED BY <1>1, <1>3, <1>4, <1>5, <2>1 DEF SaysAs
<1> QED BY <1>6, <1>7

(* Where a tree is met nothing is told. *)
LEMMA TreesTellNothing ==
    /\ \A r : IsTree(ObjectOf(r)) => Contents(r) = {}
    /\ \A r : IsTree(ObjectOf(r))' => Contents(r)' = {}
<1>1. ASSUME NEW r, IsTree(ObjectOf(r))
      PROVE  Contents(r) = {}
  <2>1. {o \in {ObjectOf(r)} : IsEntity(o)} = {}
    BY <1>1 DEF IsTree, IsEntity
  <2> QED BY <2>1 DEF Contents
<1>2. ASSUME NEW r, IsTree(ObjectOf(r))'
      PROVE  Contents(r)' = {}
  <2>1. IsTree(ObjectOf(r)') /\ {o \in {ObjectOf(r)'} : IsEntity(o)} = {}
    BY <1>2 DEF IsTree, IsEntity
  <2> QED BY <2>1 DEF Contents
<1> QED BY <1>1, <1>2

(* PersistTree: the map stays, though a tree gives way to its form for the *)
(* store.                                                                  *)
LEMMA FormSpares ==
    ASSUME Context, CommitInv, Unfolds', NEW h \in Handle, PersistTree(h)
    PROVE  WeaveInv' /\ CommitInv' /\ \A q \in Path : At(q)' = At(q)
<1>1. PICK f, p, T, T1 : /\ f = Top(h) /\ p = Last(f.stack).path /\ T = Last(f.stack).tree
                         /\ T1 = PersistentForm(f)
  OBVIOUS
<1>2. /\ WeaveInv' /\ CommitInv'
      /\ Shelved(f, p, T, T1) /\ Single(f.done)
      /\ \A q : Present(q) = IF IdOf(f.done, q) # None THEN IdOf(f.done, q) ELSE File(q)
      /\ Present(p)' = T1 /\ \A q : q # p => Present(q)' = Present(q)
  BY <1>1, PersistTreeRecords
<1>3. UNCHANGED <<disk, edata>> /\ Running(h, "commit")
  BY DEF PersistTree, TreeIsDone, Searching, transient
<1>4. Moved(f)
  BY <1>1, <1>3, InCommit
<1>5. Met(Root)' = Met(Root) /\ Met(Root) = {Base} \ {None}
  <2>1. Base' = Base
    BY <1>3 DEF Base
  <2> QED BY <2>1, InContext DEF Unfolds
<1>6. ASSUME NEW r, ~(IsPathRef(r) /\ r.path = p)
      PROVE  ObjectOf(r)' = ObjectOf(r) /\ SaysAs(r, r)
  <2>1. ObjectOf(r)' = ObjectOf(r)
    BY <1>2, <1>6 DEF ObjectOf
  <2> QED BY <1>3, <2>1, StaysSaid
<1>7. \A q \in Seq(Name) : \A r \in Met(q) : /\ IsPathRef(r) => r.path = q
                                             /\ r \in AnyRef /\ r # None
                                             /\ \A x \in Met(q) : x = r
  BY InContext DEF MetInPlace, MetAt
<1>8. ASSUME NEW r \in Met(p), IsPathRef(r)
      PROVE  ObjectOf(r) = T /\ ObjectOf(r)' = T1
  <2>1. r.path = p /\ ~IsIdRef(r) /\ r \in AnyRef
    BY Zenon, <1>2, <1>7, <1>8 DEF IsPathRef, IsIdRef, Shelved
  <2>2. ObjectOf(r) = Present(p) /\ ObjectOf(r)' = Present(p)'
    BY Zenon, <1>8, <2>1 DEF ObjectOf
  <2>3. Present(p) = File(p)
    BY Zenon, <1>2 DEF Shelved, IdOf
  <2>4. File(p) = T
    <3>1. CASE p # Root
      BY Zenon, <1>2, <3>1 DEF Shelved, File
    <3>2. CASE p = Root
      <4>1. r = Base
        BY Zenon, <1>5, <1>8, <3>2
      <4>2. T = TreeOf(Base) /\ IsTree(T)
        BY Zenon, <1>2, <3>2 DEF Shelved
      <4>3. ~IsTree(None)
        BY DEF IsTree, None
      <4> QED BY <2>1, <1>8, <4>1, <4>2, <4>3 DEF TreeOf
    <3> QED BY Zenon, <3>1, <3>2
  <2> QED BY Zenon, <1>2, <2>2, <2>3, <2>4
<1>9. ASSUME NEW q \in Seq(Name), q # p, Met(q)' = Met(q)
      PROVE  Wood(q)' = Wood(q) /\ Told(q)' = Told(q)
  <2>1. \A r \in Met(q) : SaysAs(r, r)
    BY <1>6, <1>7, <1>9
  <2> QED BY <1>9, <2>1, SaysSame DEF SaysAs
<1>10. ASSUME NEW n \in Name, Met(p)' = Met(p)
       PROVE  /\ Wood(Append(p, n))' = Wood(Append(p, n))
              /\ Told(Append(p, n))' = Told(Append(p, n))
  <2>1. PICK z : z = Append(p, n)
    BY Zenon
  <2>2. p \in Seq(Name) /\ z \in Seq(Name) /\ z # p
    <3>1. p \in Seq(Name)
      BY Zenon, <1>2 DEF Shelved
    <3> QED BY <2>1, <3>1, Segments
  <2>3. /\ Met(z) = {t.refs[n] : t \in Wood(p)} \ {None}
        /\ Met(z)' = {t.refs[n] : t \in Wood(p)'} \ {None}
    <3>1. Met(z) = {t.refs[n] : t \in Wood(p)} \ {None}
      BY <2>1, <2>2, InContext, WoodBelow
    <3>2. Met(z)' = {t.refs[n] : t \in Wood(p)'} \ {None}
      BY <2>1, <2>2, WoodBelow
    <3> QED BY <3>1, <3>2
  <2>4. CASE \E r \in Met(p) : IsPathRef(r)
    <3>1. PICK r \in Met(p) : IsPathRef(r)
      BY <2>4
    <3>2. Met(p) = {r} /\ Met(p)' = {r}
      BY <1>7, <1>10, <2>2, <3>1
    <3>3. ObjectOf(r) = T /\ ObjectOf(r)' = T1 /\ IsTree(T) /\ IsTree(T1)
      BY Zenon, <1>2, <1>8, <3>1 DEF Shelved
    <3>4. Wood(p) = {T} /\ Wood(p)' = {T1}
      <4>1. Wood(p) = {T}
        BY <3>2, <3>3 DEF Wood
      <4>2. Wood(p)' = {o \in {ObjectOf(x)' : x \in Met(p)'} : IsTree(o)}
        BY DEF Wood
      <4>3. Wood(p)' = {T1}
        BY <3>2, <3>3, <4>2
      <4> QED BY <4>1, <4>3
    <3>5. Met(z) = {T.refs[n]} \ {None} /\ Met(z)' = {T1.refs[n]} \ {None}
      BY <2>3, <3>4
    <3>6. CASE n \in TransientNames(T)
      <4>1. PICK x, y, obj : x = T.refs[n] /\ obj = IdOf(f.done, z) /\ y = T1.refs[n]
        BY Zenon
      <4>2. IsPathRef(x) /\ x.path = z /\ obj # None /\ y = IdRef(obj)
        BY Zenon, <1>2, <2>1, <3>6, <4>1 DEF Shelved
      <4>3. ObjectOf(x) = obj
        <5>1. ~IsIdRef(x)
          BY <4>2 DEF IsPathRef, IsIdRef
        <5>2. ObjectOf(x) = Present(z)
          BY <4>2, <5>1 DEF ObjectOf
        <5> QED BY <1>2, <4>1, <4>2, <5>2
      <4>4. ASSUME IsEntity(obj)
            PROVE  DataFile(z) = None
        <5>1. PICK e \in f.done : e.path = z
          BY <1>2, <4>1, <4>2, RecordIs
        <5>2. e.id = obj
          BY <1>2, <4>1, <5>1, RecordIs
        <5>3. z # Root
          BY <2>1, <2>2 DEF Root
        <5> QED BY <1>4, <4>4, <5>1, <5>2, <5>3 DEF Moved
      <4>5. SaysAs(x, y)
        BY <1>3, <4>2, <4>3, <4>4, MovedSays
      <4>6. x # None /\ y # None
        BY <4>2 DEF IsPathRef, IdRef, None
      <4>7. Met(z) = {x} /\ Met(z)' = {y}
        BY <3>5, <4>1, <4>6
      <4>8. Wood(z)' = Wood(z) /\ Told(z)' = Told(z)
        BY <4>5, <4>7, SaysSame DEF SaysAs
      <4> QED BY <2>1, <4>8
    <3>7. CASE n \notin TransientNames(T)
      <4>1. Met(z)' = Met(z)
        BY Zenon, <1>2, <3>5, <3>7 DEF Shelved
      <4> QED BY Zenon, <1>9, <2>1, <2>2, <4>1
    <3> QED BY <3>6, <3>7
  <2>5. CASE ~\E r \in Met(p) : IsPathRef(r)
    <3>1. \A r \in Met(p) : SaysAs(r, r)
      BY <1>6, <2>5
    <3>2. Wood(p)' = Wood(p)
      BY <1>10, <3>1, SaysSame DEF SaysAs
    <3>3. Met(z)' = Met(z)
      BY <2>3, <3>2
    <3> QED BY <1>9, <2>1, <2>2, <3>3
  <2> QED BY <2>4, <2>5
<1> DEFINE G == {q \in Seq(Name) : IF q = p THEN Met(q)' = Met(q)
                                   ELSE Wood(q)' = Wood(q) /\ Told(q)' = Told(q)}
<1>11. Root \in G
  <2>1. Root \in Seq(Name)
    BY DEF Root
  <2> QED BY <1>5, <1>9, <2>1
<1>12. ASSUME NEW q \in Seq(Name), NEW n \in Name, q \in G
       PROVE  Append(q, n) \in G
  <2>1. Append(q, n) \in Seq(Name) /\ Append(q, n) # q
    BY Segments
  <2>2. CASE q = p
    <3>1. Met(p)' = Met(p)
      BY <1>12, <2>2
    <3> QED BY <1>10, <2>1, <2>2, <3>1
  <2>3. CASE q # p
    <3>1. Wood(q)' = Wood(q)
      BY <1>12, <2>3
    <3>2. Met(Append(q, n)) = {t.refs[n] : t \in Wood(q)} \ {None}
      BY InContext, WoodBelow
    <3>3. Met(Append(q, n))' = {t.refs[n] : t \in Wood(q)'} \ {None}
      BY WoodBelow
    <3>4. Met(Append(q, n))' = Met(Append(q, n))
      BY <3>1, <3>2, <3>3
    <3> QED BY <1>9, <2>1, <3>4
  <2> QED BY <2>2, <2>3
<1> HIDE DEF G
<1>13. Seq(Name) \subseteq G
  BY <1>11, <1>12, PathInduction
<1>14. ASSUME NEW q \in Path
       PROVE  Told(q)' = Told(q)
  <2>1. q \in Seq(Name)
    BY PathLength
  <2>2. CASE q # p
    BY <1>13, <2>1, <2>2 DEF G
  <2>3. CASE q = p
    <3>1. Met(q)' = Met(q)
      BY <1>13, <2>1, <2>3 DEF G
    <3>2. \A r \in Met(q) : Contents(r)' = Contents(r)
      <4> SUFFICES ASSUME NEW r \in Met(q) PROVE Contents(r)' = Contents(r)
        OBVIOUS
      <4>1. CASE IsPathRef(r)
        <5>1. ObjectOf(r) = T /\ ObjectOf(r)' = T1 /\ IsTree(T) /\ IsTree(T1)
          BY Zenon, <1>2, <1>8, <2>3, <4>1 DEF Shelved
        <5>2. IsTree(ObjectOf(r)) /\ IsTree(ObjectOf(r))'
          BY <5>1 DEF IsTree
        <5> QED BY Zenon, <5>2, TreesTellNothing
      <4>2. CASE ~IsPathRef(r)
        BY <1>6, <4>2 DEF SaysAs
      <4> QED BY <4>1, <4>2
    <3>3. Told(q) = UNION {Contents(r) : r \in Met(q)}
      BY DEF Told
    <3>4. Told(q)' = UNION {Contents(r)' : r \in Met(q)'}
      BY DEF Told
    <3> QED BY ONLY <3>1, <3>2, <3>3, <3>4
  <2> QED BY <2>2, <2>3
<1>15. ASSUME NEW q \in Path
       PROVE  At(q)' = At(q)
  <2>1. At(q) = Shown(Told(q))
    BY InContext, ToldIs
  <2>2. At(q)' = Shown(Told(q)')
    BY ToldIs
  <2> QED BY <1>14, <2>1, <2>2
<1> QED BY <1>2, <1>15

-----------------------------------------------------------------------------
(* What a commit records.                                                  *)

(* Below two roots that lead to the same tree one meets the same. *)
LEMMA SameBelow ==
    ASSUME IInv, NEW root \in AnyRef, NEW other \in AnyRef, ObjectOf(root) = ObjectOf(other),
           NEW p \in Path
    PROVE  ContentBelow(root, p) = ContentBelow(other, p)
<1>1. PICK n : n = Len(p)
  OBVIOUS
<1>2. p \in Seq(Name) /\ n \in Nat \ {0} /\ \A i \in 1..n : i - 1 \in 0..n
  BY <1>1, PathLength
<1>3. PICK r : GoesDown(root, n, p, r)
  BY <1>1, <1>2, WayDown
<1>4. PICK s : GoesDown(other, n, p, s)
  BY <1>1, <1>2, WayDown
<1>5. \A m : Children({root}, m) = Children({other}, m)
  BY DEF Children
<1>6. PICK k \in Nat : k + 1 = n
  <2>1. n - 1 \in Nat /\ (n - 1) + 1 = n
    BY <1>2
  <2> QED BY <2>1
<1> DEFINE x == [i \in 0..k |-> r[i + 1]]
           y == [i \in 0..k |-> s[i + 1]]
<1>7. TakeSameSteps(k, x, y)
  <2>1. r[1] = s[1]
    <3>1. PICK i \in 1..n : i = 1 /\ i - 1 = 0
      BY <1>2
    <3>2. r[i] = Children(r[i - 1], p[i]) /\ r[0] = {root}
      BY <1>3 DEF GoesDown
    <3>3. s[i] = Children(s[i - 1], p[i]) /\ s[0] = {other}
      BY <1>4 DEF GoesDown
    <3> QED BY <1>5, <3>1, <3>2, <3>3
  <2>2. ASSUME NEW i \in 1..k, x[i - 1] = y[i - 1]
        PROVE  x[i] = y[i]
    <3>1. i - 1 \in 0..k /\ i \in 0..k /\ (i - 1) + 1 = i /\ i + 1 \in 1..n /\ (i + 1) - 1 = i
      BY <1>2, <1>6
    <3>2. r[i] = s[i]
      BY <2>2, <3>1
    <3>3. r[i + 1] = Children(r[i], p[i + 1]) /\ s[i + 1] = Children(s[i], p[i + 1])
      BY <1>3, <1>4, <3>1 DEF GoesDown
    <3> QED BY <3>1, <3>2, <3>3
  <2>3. x[0] = r[1] /\ y[0] = s[1]
    BY <1>6
  <2> HIDE DEF x, y
  <2> QED BY <2>1, <2>2, <2>3 DEF TakeSameSteps
<1>8. r[n] = s[n]
  <2>1. x[k] = r[n] /\ y[k] = s[n]
    BY <1>6
  <2> HIDE DEF x, y
  <2>2. AreSame(k, x, y)
    BY <1>6, <1>7, Unique
  <2>3. k \in 0..k
    BY <1>6
  <2> QED BY <2>1, <2>2, <2>3 DEF AreSame
<1>9. RefsBelow(root, p) = RefsBelow(other, p)
  BY <1>3, <1>4, <1>8 DEF GoesDown
<1> QED BY <1>9 DEF ContentBelow

(* The commit a call has made shows what the workspace shows. *)
ShowsMap ==
    \A h \in Handle : Running(h, "commit") /\ Top(h).made # 0
        => \A p \in Path : AtIn(commits[Top(h).made], p) = At(p)

LEMMA CommitShows ==
    ASSUME Context, CommitInv
    PROVE  ShowsMap
<1> SUFFICES ASSUME NEW h \in Handle, Running(h, "commit"), Top(h).made # 0, NEW p \in Path
             PROVE  AtIn(commits[Top(h).made], p) = At(p)
  BY DEF ShowsMap
<1>1. PICK f, obj, c : f = Top(h) /\ obj = IdOf(f.done, Root) /\ c = commits[f.made]
  OBVIOUS
<1>2. f \in CommitFrames /\ Rooted(f) /\ CommitFits(files, f) /\ \A q : Present(q) = Sees(f, q)
  BY <1>1, InCommit
<1>3. f.stack = <<>> /\ f.cur = None /\ c.root = obj
  BY <1>1, <1>2 DEF CommitFits, Rooted
<1>4. At(p) = ContentBelow(Base, p) /\ AtIn(c, p) = ContentBelow(StoredRoot(c), p)
  BY DEF At, AtIn, Base, StoredRoot
<1>5. CASE Base = None
  <2>1. obj = None
    BY <1>1, <1>2, <1>5 DEF Rooted, IdOf
  <2> QED BY <1>1, <1>3, <1>4, <1>5, <2>1 DEF StoredRoot
<1>6. CASE Base # None
  <2>1. obj # None /\ (IsIdRef(Base) => obj = Base.id)
    BY <1>1, <1>2, <1>3, <1>6 DEF Rooted
  <2>2. obj \in Objects
    <3>1. \E e \in f.done : e.id = obj
      BY <1>1, <2>1 DEF IdOf
    <3> QED BY <1>2, <2>1, <3>1 DEF CommitFrames
  <2>3. PICK x : x = IdRef(obj)
    OBVIOUS
  <2>4. /\ StoredRoot(c) = x /\ x \in AnyRef /\ ~IsPathRef(x) /\ IsIdRef(x) /\ x.id = obj
    BY <1>3, <2>1, <2>2, <2>3 DEF StoredRoot, IdRef, IdRefs, AnyRef, Refs, IsPathRef, IsIdRef
  <2>5. ObjectOf(x) = obj
    BY <2>4 DEF ObjectOf
  <2>6. ObjectOf(Base) = obj
    <3>1. CASE IsIdRef(Base)
      <4>1. ~IsPathRef(Base)
        BY <3>1 DEF IsIdRef, IsPathRef
      <4> QED BY <2>1, <3>1, <4>1 DEF ObjectOf
    <3>2. CASE ~IsIdRef(Base)
      <4>1. Base = RootRef
        <5>1. Base \in {None, RootRef} \union IdRefs(trees)
          BY InContext DEF IInv, TypeOK, WorkspaceObjs, Base
        <5> QED BY <1>6, <3>2, <5>1 DEF IdRefs, IsIdRef
      <4>2. IsPathRef(Base) /\ Base.path = Root
        BY <4>1 DEF RootRef, PathRef, IsPathRef
      <4>3. Present(Root) = obj
        BY <1>1, <1>2, <1>3, <2>1 DEF Sees
      <4>4. ObjectOf(Base) = Present(Base.path)
        BY <3>2, <4>2 DEF ObjectOf
      <4> QED BY <4>2, <4>3, <4>4
    <3> QED BY <3>1, <3>2
  <2>7. Base \in AnyRef
    BY InContext, BaseType
  <2>8. ContentBelow(Base, p) = ContentBelow(x, p)
    BY <2>4, <2>5, <2>6, <2>7, InContext, SameBelow
  <2> QED BY <1>1, <1>4, <2>4, <2>8
<1> QED BY <1>5, <1>6

(* CreateCommit *)
LEMMA CreateCommitWeaves ==
    ASSUME Context, CommitInv, Unfolds', NEW h \in Handle, CreateCommit(h)
    PROVE  WeaveInv' /\ CommitInv' /\ \A q \in Path : At(q)' = At(q)
<1>1. PICK f, n, c, g : /\ f = Top(h) /\ n = Len(commits) + 1
                        /\ c = [parent |-> mem[h].parent, root |-> IdOf(f.done, Root)]
                        /\ g = [f EXCEPT !.made = n]
  OBVIOUS
<1>2. /\ Running(h, "commit") /\ f.cur = None /\ f.stack = <<>> /\ Continue(h, g)
      /\ commits' = Append(commits, c) /\ UNCHANGED <<files, edata, disk, trees>>
  BY <1>1 DEF CreateCommit, transient
<1>3. /\ f \in CommitFrames /\ f.op = "commit" /\ Rooted(f) /\ Fresh(f) /\ Moved(f)
      /\ \A q : Present(q) = Sees(f, q)
  BY <1>1, <1>2, InCommit
<1>4. g.op = "commit" /\ g.stack = f.stack /\ g.made = n /\ g.done = f.done /\ g.cur = None
  BY <1>1, <1>2, <1>3 DEF CommitFrames
<1>5. commits'[n] = c
  <2>1. commits \in Seq([parent : 0..Len(commits), root : trees \union {None}])
    BY InContext DEF IInv, StoreClosed
  <2> QED BY <1>1, <1>2, <2>1
<1>6. c.root = IdOf(f.done, Root)
  BY <1>1
<1>7. Base' = Base
  BY <1>2 DEF Base
<1>8. Rooted(g)'
  BY <1>2, <1>3, <1>4, <1>5, <1>6, <1>7, InContext, RootedStays
<1>9. Fresh(g) /\ Moved(g)'
  BY <1>2, <1>3, <1>4 DEF Fresh, Moved, DataFile
<1>10. Placed'
  BY <1>2, InContext DEF Placed
<1>11. WeaveInv' /\ CommitInv'
  BY <1>2, <1>4, <1>8, <1>9, <1>10, CommitWeavesOn
<1>12. \A q : Present(q)' = Sees(g, q)'
  BY <1>2, <1>4, CommitWillSee
<1>13. \A q : Sees(g, q)' = Sees(f, q)
  BY <1>2, <1>4 DEF Sees, File
<1> QED BY <1>2, <1>3, <1>11, <1>12, <1>13, CommitStill

(* The commit is as it was, and its tree is the workspace's now. *)
LEMMA EndCommitWeaves ==
    ASSUME Context, CommitInv, NEW h \in Handle, EndCommit(h),
           ShowsMap, TreesAreStored, TreesAreStored'
    PROVE  WeaveInv' /\ CommitInv' /\ \A q \in Path : At(q)' = At(q)
<1>1. PICK f, m, c : f = Top(h) /\ m = f.made /\ c = commits[m]
  OBVIOUS
<1>2. /\ Running(h, "commit") /\ m # 0 /\ disk' # None /\ disk'.root = StoredRoot(c) /\ Return(h)
      /\ UNCHANGED <<files, commits>>
  BY <1>1 DEF EndCommit, store, transient, StoredRoot, None
<1>3. \A g \in Handle : calls'[g] = <<>>
  <2>1. /\ mem[h] # None /\ Tail(calls[h]) = <<>>
        /\ calls' = [calls EXCEPT ![h] = Tail(calls[h])] /\ calls \in [Handle -> Seq(Frames)]
    BY <1>2, InContext, CommitAlone DEF Return, IInv, TypeOK
  <2>2. \A g \in Handle \ {h} : calls[g] = <<>>
    BY <2>1, InContext, Others
  <2> QED BY <2>1, <2>2
<1>4. WeaveInv'
  <2>1. Placed'
    BY <1>2, InContext DEF Placed
  <2> QED BY <1>3, <2>1, AllRest
<1>5. CommitInv'
  BY <1>3 DEF CommitInv, Running
<1>6. m \in 1..Len(commits)
  <2>1. f \in CommitFrames
    BY <1>1, <1>2, InCommit
  <2>2. m \in 0..Len(commits)
    BY <1>1, <2>1 DEF CommitFrames
  <2>3. Len(commits) \in Nat
    BY InContext DEF IInv, StoreClosed
  <2> QED BY <1>2, <2>2, <2>3
<1>7. ASSUME NEW q \in Path
      PROVE  At(q)' = At(q)
  <2>1. AtIn(c, q) = At(q)
    BY <1>1, <1>2 DEF ShowsMap
  <2>2. AtIn(c, q) = StoredAt(StoredRoot(c), q)
    BY <1>1, <1>6 DEF TreesAreStored
  <2>3. AtIn(c, q)' = StoredAt(StoredRoot(c), q)
    <3>1. m \in 1..Len(commits')
      BY <1>2, <1>6
    <3>2. AtIn(commits[m], q)' = StoredAt(StoredRoot(commits'[m]), q)
      BY <3>1 DEF TreesAreStored
    <3>3. commits'[m] = c
      BY <1>1, <1>2
    <3> QED BY <3>2, <3>3
  <2>4. At(q)' = AtIn(c, q)'
    BY <1>2 DEF At, AtIn, StoredRoot
  <2> QED BY <2>1, <2>2, <2>3, <2>4
<1> QED BY <1>4, <1>5, <1>7

-----------------------------------------------------------------------------
(* No commit begins but by BeginCommit.                                    *)

LEMMA NoneBegins ==
    ASSUME Context, NEW h \in Handle, calls[h] # <<>>, \A k \in Handle \ {h} : calls'[k] = calls[k],
           ~Running(h, "commit")'
    PROVE  CommitInv'
<1>1. IInv /\ Alone /\ mem[h] # None
  BY InContext DEF IInv, RootInv, InCall
<1>2. \A k \in Handle \ {h} : calls[k] = <<>>
  BY <1>1, Others
<1>3. \A k \in Handle : ~Running(k, "commit")'
  BY <1>2 DEF Running
<1> QED BY <1>3 DEF CommitInv

(* A walk or a search goes on with frames g and s on top. *)
LEMMA PutOnTop ==
    ASSUME Context, NEW h \in Handle, calls[h] # <<>>, NEW g, NEW S, NEW s \in Seq(S),
           calls' = [calls EXCEPT ![h] = <<g>> \o s], g.op # "commit"
    PROVE  CommitInv'
<1>1. calls \in [Handle -> Seq(Frames)]
  BY InContext DEF IInv, TypeOK
<1>2. calls'[h] = <<g>> \o s /\ \A k \in Handle \ {h} : calls'[k] = calls[k]
  BY <1>1
<1>3. Head(calls'[h]) = g
  BY <1>2, OnTop
<1>4. ~Running(h, "commit")'
  BY <1>3 DEF Running, Top
<1> QED BY <1>2, <1>4, NoneBegins

LEMMA ContinuesWalk ==
    ASSUME Context, NEW h \in Handle, calls[h] # <<>>, NEW g, Continue(h, g), g.op # "commit"
    PROVE  CommitInv'
<1>1. calls \in [Handle -> Seq(Frames)]
  BY InContext DEF IInv, TypeOK
<1>2. Tail(calls[h]) \in Seq(Frames) /\ calls' = [calls EXCEPT ![h] = <<g>> \o Tail(calls[h])]
  BY <1>1, Ends DEF Continue
<1> QED BY <1>2, PutOnTop

LEMMA PathStepNoCommit ==
    ASSUME Context, NEW h \in Handle, PathStep(h)
    PROVE  CommitInv'
<1>1. PICK f : f = Top(h)
  OBVIOUS
<1>2. calls[h] # <<>> /\ f.op \in PathOps
  BY <1>1 DEF PathStep, Descend, BlockedBelowEntity, SegUntracked, StoreLeaf, DeleteEntityLeaf,
              DeleteTreeLeaf, Descending, StoreTreeOfPath, StoreRoot, SaveWorkspace, PathOps
<1>3. f \in PathFrames /\ calls \in [Handle -> Seq(Frames)] /\ f.op # "commit"
  BY <1>1, <1>2, PathTop, InContext DEF IInv, TypeOK
<1>4. \A x, y, z : /\ [f EXCEPT !.trees = x, !.at = y].op # "commit"
                   /\ [f EXCEPT !.dir = z].op # "commit"
                   /\ [f EXCEPT !.trees = x, !.at = y, !.dir = z].op # "commit"
                   /\ [[f EXCEPT !.trees = x] EXCEPT !.trees = y, !.at = z, !.dir = "up"].op # "commit"
  BY <1>3 DEF PathFrames
<1>5. ASSUME NEW ref
      PROVE  Ascend(f, ref).op # "commit"
  BY <1>4 DEF Ascend
<1>6. CASE Descend(h)
  <2>1. \E x, y : Continue(h, [f EXCEPT !.trees = x, !.at = y])
    BY <1>1, <1>6 DEF Descend
  <2> QED BY <1>2, <1>4, <2>1, ContinuesWalk
<1>7. CASE BlockedBelowEntity(h)
  <2>1. Continue(h, [f EXCEPT !.dir = "root"])
    BY <1>1, <1>7 DEF BlockedBelowEntity
  <2> QED BY <1>2, <1>4, <2>1, ContinuesWalk
<1>8. CASE SegUntracked(h)
  <2>1. calls' = [calls EXCEPT ![h] = <<>>]
    BY <1>8 DEF SegUntracked, Abort
  <2>2. calls'[h] = <<>> /\ \A k \in Handle \ {h} : calls'[k] = calls[k]
    BY <1>3, <2>1
  <2> QED BY <1>2, <2>2, NoneBegins DEF Running
<1>9. CASE StoreLeaf(h)
  <2>1. \E ref : Continue(h, Ascend(f, ref))
    BY <1>1, <1>9 DEF StoreLeaf
  <2> QED BY <1>2, <1>5, <2>1, ContinuesWalk
<1>10. CASE DeleteEntityLeaf(h)
  <2>1. Continue(h, Ascend(f, None))
    BY <1>1, <1>10 DEF DeleteEntityLeaf
  <2> QED BY <1>2, <1>5, <2>1, ContinuesWalk
<1>11. CASE DeleteTreeLeaf(h)
  <2>1. PICK search, g, s : /\ search.op = "remove" /\ g = Ascend(f, None)
                            /\ s = <<g>> \o Tail(calls[h])
                            /\ calls' = [calls EXCEPT ![h] = <<search>> \o s] \/ Continue(h, g)
    <3>1. PICK search : /\ search = [op |-> "remove", stack |-> <<Visit(f.path, None, GetTree(h, f.path))>>]
      OBVIOUS
    <3>2. search.op = "remove"
      BY <3>1
    <3>3. \/ calls' = [calls EXCEPT ![h] = <<search>> \o (<<Ascend(f, None)>> \o Tail(calls[h]))]
          \/ Continue(h, Ascend(f, None))
      BY <1>1, <1>11, <3>1 DEF DeleteTreeLeaf
    <3> QED BY <3>2, <3>3
  <2>2. Tail(calls[h]) \in Seq(Frames)
    BY <1>2, <1>3, Ends
  <2>3. s \in Seq(Frames \union {g})
    <3>1. Tail(calls[h]) \in Seq(Frames \union {g}) /\ <<g>> \in Seq(Frames \union {g})
      BY <2>2
    <3> QED BY <2>1, <3>1
  <2>4. g.op # "commit" /\ search.op # "commit"
    BY <1>5, <2>1
  <2>5. CASE Continue(h, g)
    BY <1>2, <2>4, <2>5, ContinuesWalk
  <2>6. CASE calls' = [calls EXCEPT ![h] = <<search>> \o s]
    BY <1>2, <2>3, <2>4, <2>6, PutOnTop
  <2> QED BY <2>1, <2>5, <2>6
<1>12. CASE StoreTreeOfPath(h)
  <2>1. PICK x, ref : Continue(h, Ascend([f EXCEPT !.trees = x], ref))
    BY <1>1, <1>12 DEF StoreTreeOfPath
  <2>2. Ascend([f EXCEPT !.trees = x], ref).op # "commit"
    BY <1>3 DEF Ascend, PathFrames
  <2> QED BY <1>2, <2>1, <2>2, ContinuesWalk
<1>13. CASE StoreRoot(h)
  <2>1. Continue(h, [f EXCEPT !.dir = "save"])
    BY <1>1, <1>13 DEF StoreRoot
  <2> QED BY <1>2, <1>4, <2>1, ContinuesWalk
<1>14. CASE SaveWorkspace(h)
  <2>1. calls' = [calls EXCEPT ![h] = Tail(calls[h])]
    BY <1>14 DEF SaveWorkspace, Return
  <2>2. calls'[h] = Tail(calls[h]) /\ \A k \in Handle \ {h} : calls'[k] = calls[k]
    BY <1>3, <2>1
  <2>3. ~Running(h, "commit")'
    <3>1. CASE Len(calls[h]) = 1
      <4>1. Tail(calls[h]) = <<>>
        BY <1>1, <1>2, <3>1, InContext, WalkAlone
      <4> QED BY <2>2, <4>1 DEF Running
    <3>2. CASE Len(calls[h]) # 1
      <4>1. PICK r : r = calls[h][2]
        OBVIOUS
      <4>2. Tail(calls[h]) # <<>> /\ Tail(calls[h])[1] = r /\ r \in RemoveFrames
        BY <1>1, <1>2, <3>2, <4>1, InContext, WalkNested
      <4>3. Tail(calls[h]) \in Seq(Frames)
        BY <1>2, <1>3, Ends
      <4>4. Head(Tail(calls[h])) = r /\ r.op = "remove"
        BY <4>2, <4>3, BelowTop DEF RemoveFrames
      <4> QED BY <2>2, <4>4 DEF Running, Top
    <3> QED BY <3>1, <3>2
  <2> QED BY <1>2, <2>2, <2>3, NoneBegins
<1> QED BY <1>6, <1>7, <1>8, <1>9, <1>10, <1>11, <1>12, <1>13, <1>14 DEF PathStep

LEMMA RemoveStepNoCommit ==
    ASSUME Context, NEW h \in Handle, RemoveStep(h)
    PROVE  CommitInv'
<1>1. PICK f, u : f = Top(h) /\ u = calls[h][2]
  OBVIOUS
<1>2. Running(h, "remove")
  BY DEF RemoveStep, RemoveChild, RemoveTree, RemoveEnds, Removing
<1>3. /\ calls[h] # <<>> /\ calls \in [Handle -> Seq(Frames)] /\ f \in RemoveFrames
      /\ u \in PathFrames /\ Tail(calls[h]) # <<>> /\ Tail(calls[h])[1] = u
  BY <1>1, <1>2, InContext, SearchFrames DEF IInv, TypeOK
<1>4. Tail(calls[h]) \in Seq(Frames)
  BY <1>3, Ends
<1>5. ASSUME NEW x
      PROVE  [f EXCEPT !.stack = x].op # "commit"
  BY <1>3 DEF RemoveFrames
<1>6. CASE RemoveEnds(h)
  <2>1. calls' = [calls EXCEPT ![h] = Tail(calls[h])]
    BY <1>6 DEF RemoveEnds, Return
  <2>2. calls'[h] = Tail(calls[h]) /\ \A k \in Handle \ {h} : calls'[k] = calls[k]
    BY <1>3, <2>1
  <2>3. Head(Tail(calls[h])) = u /\ u.op # "commit"
    BY <1>3, <1>4, BelowTop DEF PathFrames
  <2> QED BY <1>3, <2>2, <2>3, NoneBegins DEF Running, Top
<1>7. CASE RemoveTree(h)
  <2>1. Continue(h, [f EXCEPT !.stack = Front(@)])
    BY <1>1, <1>7 DEF RemoveTree
  <2> QED BY <1>3, <1>5, <2>1, ContinuesWalk
<1>8. ASSUME NEW n, RemoveChild(h, n)
      PROVE  CommitInv'
  <2>1. PICK x, next : x = Append(Front(f.stack), [Last(f.stack) EXCEPT !.todo = Last(f.stack).todo \ {n}])
                       /\ next = [f EXCEPT !.stack = x]
    OBVIOUS
  <2>2. next = PassTo(f, n)
    BY <2>1 DEF PassTo
  <2>3. next.op # "commit" /\ \A y : [next EXCEPT !.stack = y].op # "commit"
    BY <1>3, <2>1 DEF RemoveFrames
  <2>4. \/ \E p : EnterPath(h, "deleteEntity", p, None, <<next>> \o Tail(calls[h]))
        \/ Continue(h, next)
        \/ \E y : Continue(h, [next EXCEPT !.stack = y])
    BY <1>1, <1>8, <2>2 DEF RemoveChild, Deeper
  <2>5. ASSUME NEW p, EnterPath(h, "deleteEntity", p, None, <<next>> \o Tail(calls[h]))
        PROVE  CommitInv'
    <3>1. PICK g, s : g = PathCall("deleteEntity", p, None, RootTree(mem[h])) /\ s = <<next>> \o Tail(calls[h])
      OBVIOUS
    <3>2. g.op # "commit" /\ calls' = [calls EXCEPT ![h] = <<g>> \o s]
      BY <2>5, <3>1 DEF EnterPath, PathCall
    <3>3. s \in Seq(Frames \union {next})
      <4>1. Tail(calls[h]) \in Seq(Frames \union {next}) /\ <<next>> \in Seq(Frames \union {next})
        BY <1>4
      <4> QED BY <3>1, <4>1
    <3> QED BY <1>3, <3>2, <3>3, PutOnTop
  <2> QED BY <1>3, <2>3, <2>4, <2>5, ContinuesWalk
<1> QED BY <1>6, <1>7, <1>8 DEF RemoveStep

-----------------------------------------------------------------------------
(* Clients' steps.                                                         *)

LEMMA BeginCommitBegins ==
    ASSUME Context, NEW h \in Handle, BeginCommit(h)
    PROVE  CommitInv'
<1>1. PICK f : f = [op |-> "commit",
                    stack |-> IF mem[h].root = None THEN <<>>
                              ELSE <<Visit(Root, None, TreeOf(mem[h].root))>>,
                    cur |-> None, done |-> {}, made |-> 0]
  OBVIOUS
<1>2. /\ Idle(h) /\ mem[h] # None /\ calls' = [calls EXCEPT ![h] = <<f>>]
      /\ UNCHANGED <<files, disk, trees>> /\ calls \in [Handle -> Seq(Frames)]
  BY <1>1, InContext DEF BeginCommit, Idle, store, transient, IInv, TypeOK
<1>3. calls'[h] = <<f>> /\ \A k \in Handle \ {h} : calls'[k] = <<>>
  BY <1>2, InContext, Others
<1>4. f.op = "commit" /\ f.cur = None /\ f.done = {} /\ f.made = 0
  BY <1>1
<1>5. Base = mem[h].root /\ Base' = Base
  BY <1>2, InContext, RestingFits DEF Base
<1>6. TreeOf(Base)' = TreeOf(Base)
  BY <1>2, <1>5, InContext, BaseTreeStays DEF IInv, TypeOK
<1>7. IF Base = None THEN f.stack = <<>>
      ELSE Len(f.stack) = 1 /\ f.stack # <<>> /\ f.stack[1].tree = TreeOf(Base)
  <2>1. CASE Base = None
    BY <1>1, <1>5, <2>1
  <2>2. CASE Base # None
    <3>1. PICK v : v = Visit(Root, None, TreeOf(Base))
      OBVIOUS
    <3>2. f.stack = <<v>> /\ v.tree = TreeOf(Base)
      BY <1>1, <1>5, <2>2, <3>1 DEF Visit
    <3> QED BY <2>2, <3>2
  <2> QED BY <2>1, <2>2
<1>8. Rooted(f)'
  BY <1>4, <1>5, <1>6, <1>7 DEF Rooted
<1>9. Fresh(f)
  BY <1>4 DEF Fresh, Single
<1>10. Moved(f)'
  <2>1. ASSUME NEW k \in 1..Len(f.stack)
        PROVE  k = 1
    <3>1. CASE f.stack = <<>>
      BY <2>1, <3>1
    <3>2. CASE Len(f.stack) = 1
      BY <2>1, <3>2
    <3> QED BY <1>7, <3>1, <3>2
  <2> QED BY <1>4, <2>1 DEF Moved
<1>11. ASSUME NEW g \in Handle, Running(g, "commit")'
       PROVE  Rooted(Top(g))' /\ Fresh(Top(g))' /\ Moved(Top(g))'
  <2>1. g = h
    BY <1>3, <1>11 DEF Running
  <2>2. Top(g)' = f
    BY <1>3, <2>1 DEF Top
  <2> QED BY <1>8, <1>9, <1>10, <2>2 DEF Rooted, Fresh, Single, Ahead, Moved
<1> QED BY <1>11 DEF CommitInv

LEMMA ClientStepBegins ==
    ASSUME Context, NEW h \in Handle, ClientStep(h), Alone'
    PROVE  CommitInv'
<1>1. IInv /\ Alone /\ ChildInv /\ calls \in [Handle -> Seq(Frames)]
  BY InContext DEF IInv, TypeOK
<1>2. ASSUME UNCHANGED calls, \A k \in Handle : calls[k] = <<>>
      PROVE  CommitInv'
  BY <1>2 DEF CommitInv, Running
<1>3. ASSUME Idle(h)
      PROVE  \A k \in Handle : calls[k] = <<>>
  BY <1>1, <1>3, Others DEF Idle
<1>4. ASSUME mem[h] = None, mem'[h] # None, \A g \in Handle \ {h} : mem'[g] = mem[g]
      PROVE  \A k \in Handle : calls[k] = <<>>
  <2>1. \A g \in Handle : mem[g] = None
    BY <1>4 DEF Alone
  <2> QED BY <1>1, <2>1 DEF IInv, RootInv, InCall
<1>5. mem \in [Handle -> WorkspaceObjs(trees, Len(commits)) \union {None}]
  BY <1>1 DEF IInv, TypeOK
<1>6. ASSUME NEW parent, CreateWorkspace(h, parent)
      PROVE  CommitInv'
  <2>1. UNCHANGED calls /\ mem[h] = None /\ mem' = [mem EXCEPT ![h] = disk']
        /\ disk' = [parent |-> parent, root |-> None, tracked |-> {}]
    BY <1>6 DEF CreateWorkspace
  <2>2. disk' # None
    BY <2>1 DEF None
  <2> QED BY <1>2, <1>4, <1>5, <2>1, <2>2
<1>7. ASSUME OpenWorkspace(h)
      PROVE  CommitInv'
  BY <1>2, <1>4, <1>5, <1>7 DEF OpenWorkspace
<1>8. ASSUME CloseWorkspace(h) \/ \E p \in Path, d \in Data : WriteData(h, p, d)
      PROVE  CommitInv'
  BY <1>2, <1>3, <1>8 DEF CloseWorkspace, WriteData
<1>9. ASSUME NEW op \in PathOps, NEW p, NEW leaf, Idle(h), EnterPath(h, op, p, leaf, <<>>)
      PROVE  CommitInv'
  <2>1. PICK f : f = PathCall(op, p, leaf, RootTree(mem[h]))
    OBVIOUS
  <2>2. f.op # "commit" /\ calls' = [calls EXCEPT ![h] = <<f>> \o <<>>]
    BY <1>9, <2>1 DEF EnterPath, PathCall, PathOps
  <2>3. calls' = [calls EXCEPT ![h] = <<f>>]
    BY <2>2
  <2>4. calls'[h] = <<f>> /\ \A k \in Handle \ {h} : calls'[k] = <<>>
    BY <1>1, <1>3, <1>9, <2>3
  <2>5. \A k \in Handle : ~Running(k, "commit")'
    BY <2>2, <2>4 DEF Running, Top
  <2> QED BY <2>5 DEF CommitInv
<1>10. "store" \in PathOps /\ "deleteEntity" \in PathOps /\ "deleteTree" \in PathOps
  BY DEF PathOps
<1>11. ASSUME NEW p \in Path, NEW m \in Meta, StoreEntity(h, p, m) \/ EditEntity(h, p, m)
       PROVE  CommitInv'
  BY <1>9, <1>10, <1>11 DEF StoreEntity, EditEntity
<1>12. ASSUME NEW p \in Path, DeleteEntity(h, p) \/ DeleteTree(h, p)
       PROVE  CommitInv'
  BY <1>9, <1>10, <1>12 DEF DeleteEntity, DeleteTree
<1>13. ASSUME BeginCommit(h)
       PROVE  CommitInv'
  BY <1>13, BeginCommitBegins
<1> QED BY <1>6, <1>7, <1>8, <1>11, <1>12, <1>13 DEF ClientStep

-----------------------------------------------------------------------------
(* Every step.                                                             *)

(* The steps of a commit leave the map as it is. *)
LEMMA CommitStepWeaves ==
    ASSUME Context, CommitInv, Unfolds', NEW h \in Handle, CommitStep(h),
           ShowsMap, TreesAreStored, TreesAreStored'
    PROVE  WeaveInv' /\ CommitInv' /\ \A q \in Path : At(q)' = At(q)
<1>1. CASE ReadEmptyData(h)
  <2>1. UNCHANGED vars
    BY <1>1 DEF ReadEmptyData
  <2>2. UNCHANGED <<trees, entities, datas, commits, files, edata, disk, mem, calls, failed, crashes>>
    BY <2>1 DEF vars, store, transient
  <2>3. \A q : Present(q)' = Present(q)
    BY <2>2 DEF Present, Running, Top, File
  <2>4. WeaveInv'
    <3>1. PICK s : s = calls[h]
      OBVIOUS
    <3>2. Running(h, "commit") /\ calls \in [Handle -> Seq(Frames)]
      BY <1>1, InContext DEF ReadEmptyData, ReadsNoBytes, IInv, TypeOK
    <3>3. mem[h] # None /\ calls' = [calls EXCEPT ![h] = s] /\ s[1].op = "commit"
      <4>1. s # <<>> /\ Head(s) = s[1]
        BY <3>1, <3>2, BelowTop DEF Running
      <4> QED BY <2>2, <3>1, <3>2, <4>1, InContext, CommitAlone DEF Running, Top
    <3>4. Placed'
      BY <2>2, InContext DEF Placed
    <3>5. PICK F : F = files'
      OBVIOUS
    <3>6. CallWoven(F, s)'
      BY <3>3 DEF CallWoven
    <3> QED BY <3>3, <3>4, <3>5, <3>6, WeavesOn
  <2>5. CommitInv'
    BY <2>2, CommitInvStays
  <2> QED BY <2>2, <2>3, <2>4, <2>5, CommitStill
<1>2. CASE CommitUnrecorded(h)
  BY <1>2, InContext, AllRecorded DEF CommitUnrecorded
<1> QED BY <1>1, <1>2, CommitChildWeaves, PersistDataWeaves, PersistEntityWeaves, RemovePersistedWeaves,
           FormSpares, RemovePersistedTreeWeaves, CreateCommitWeaves, EndCommitWeaves DEF CommitStep

(* A step of a call changes the map only where the call's path leads. *)
OnlyThere ==
    \A h \in Handle : CallStep(h)
      => \A q \in Path : (Call(h).op # "commit" /\ AtOrBelow(Call(h).path, q)) \/ At(q)' = At(q)

Weaves == Context /\ CommitInv /\ ShowsMap /\ TreesAreStored

LEMMA CallStepWeaves ==
    ASSUME Weaves, Unfolds', TreesAreStored', Undisturbed, NEW h \in Handle, CallStep(h)
    PROVE  333 \in failed' \/ (/\ WeaveInv' /\ CommitInv'
                               /\ \A q \in Path : \/ Call(h).op # "commit" /\ AtOrBelow(Call(h).path, q)
                                                  \/ At(q)' = At(q))
<1>1. Context /\ CommitInv /\ ShowsMap /\ TreesAreStored
  BY DEF Weaves
<1>2. CASE CommitStep(h)
  BY <1>1, <1>2, CommitStepWeaves
<1>3. ASSUME PathStep(h) \/ RemoveStep(h)
      PROVE  Call(h).op # "commit"
  <2>1. CASE PathStep(h)
    <3>1. calls[h] # <<>> /\ Top(h).op \in PathOps
      BY <2>1 DEF PathStep, Descend, BlockedBelowEntity, SegUntracked, StoreLeaf, DeleteEntityLeaf,
                  DeleteTreeLeaf, Descending, StoreTreeOfPath, StoreRoot, SaveWorkspace, PathOps
    <3> QED BY <1>1, <3>1, WalkWeaves DEF PathOps
  <2>2. CASE RemoveStep(h)
    <3>1. Running(h, "remove")
      BY <2>2 DEF RemoveStep, RemoveChild, RemoveTree, RemoveEnds, Removing
    <3> QED BY <1>1, <3>1, SearchWeaves DEF PathOps
  <2> QED BY <1>3, <2>1, <2>2
<1>4. CASE PathStep(h)
  <2>1. 333 \in failed' \/ (WeaveInv' /\ Spares(Call(h).path))
    BY <1>1, <1>4, PathStepWeaves
  <2>2. CommitInv'
    BY <1>1, <1>4, PathStepNoCommit
  <2>3. \A q \in Path : q \in Seq(Name)
    BY PathLength
  <2> QED BY <1>3, <1>4, <2>1, <2>2, <2>3 DEF Spares
<1>5. CASE RemoveStep(h)
  <2>1. WeaveInv' /\ Spares(Call(h).path)
    BY <1>1, <1>5, RemoveStepWeaves
  <2>2. CommitInv'
    BY <1>1, <1>5, RemoveStepNoCommit
  <2>3. \A q \in Path : q \in Seq(Name)
    BY PathLength
  <2> QED BY <1>3, <1>5, <2>1, <2>2, <2>3 DEF Spares
<1> QED BY <1>2, <1>4, <1>5 DEF CallStep

(* The trees a walk holds on its way down. *)
LEMMA WalkShape ==
    ASSUME NEW f \in PathFrames
    PROVE  f.path \in Path /\ (f.dir = "down" => Len(f.trees) \in 1..Len(f.path))
<1>1. f.path \in Path /\ (f.dir = "down" => f.at \in 1..Len(f.path) /\ Len(f.trees) = f.at)
  BY DEF PathFrames
<1> QED BY <1>1

(* A search that removes and the walk that waits for it. *)
LEMMA SearchPair ==
    ASSUME IInv, ChildInv, NEW h \in Handle, Running(h, "remove"), NEW s, s = calls[h]
    PROVE  s[1] \in RemoveFrames /\ s[2] \in PathFrames /\ Len(s) = 2
<1>1. PICK u : u = s[2]
  OBVIOUS
<1>2. /\ Top(h) \in RemoveFrames /\ u \in PathFrames /\ s # <<>> /\ Len(Tail(s)) = 1
      /\ s \in Seq(Frames)
  BY <1>1, SearchFrames DEF IInv, TypeOK
<1>3. Len(s) = 2 /\ Top(h) = s[1]
  <2>1. Len(Tail(s)) = Len(s) - 1 /\ Head(s) = s[1] /\ Len(s) \in Nat
    BY <1>2, BelowTop, Ends
  <2> QED BY <1>2, <2>1 DEF Top
<1> QED BY <1>1, <1>2, <1>3

(* What holds is kept until an assertion of line 333 fails. *)
LEMMA NextWeaves ==
    ASSUME Weaves, Unfolds', TreesAreStored', [Next /\ Undisturbed]_vars
    PROVE  /\ 333 \in failed' \/ (WeaveInv' /\ CommitInv')
           /\ 333 \in failed' \/ [OnlyThere]_vars
<1>1. Context /\ CommitInv /\ ShowsMap /\ TreesAreStored
  BY DEF Weaves
<1>2. CASE UNCHANGED vars
  <2>1. UNCHANGED <<trees, entities, datas, commits, files, edata, disk, mem, calls, failed, crashes>>
    BY <1>2 DEF vars, store, transient
  <2>2. CommitInv'
    BY <1>1, <2>1, CommitInvStays
  <2>3. WeaveInv'
    <3>1. Base' = Base /\ \A q : Present(q)' = Present(q)
      BY <2>1 DEF Base, Present, Running, Top, File
    <3>2. Placed'
      BY <1>1, <2>1, InContext DEF Placed
    <3>3. Still
      <4>1. \A r \in AnyRef : ObjectOf(r)' = ObjectOf(r)
        BY <3>1 DEF ObjectOf
      <4> QED BY <1>1, <3>1, <4>1, InContext, StillIs
    <3>4. ASSUME NEW h \in Handle, calls[h] # <<>>
          PROVE  CallWoven(files, calls[h])'
      <4>1. PICK s, F : s = calls[h] /\ F = files /\ s = calls'[h] /\ F = files'
        BY <2>1
      <4>2. /\ CallWoven(F, s) /\ IInv /\ ChildInv /\ s # <<>> /\ s \in Seq(Frames) /\ Top(h) = s[1]
        <5>1. /\ CallWoven(files, calls[h]) /\ IInv /\ ChildInv /\ calls[h] # <<>>
              /\ calls[h] \in Seq(Frames)
          BY <1>1, <3>4, InContext DEF WeaveInv, IInv, TypeOK
        <5> QED BY <4>1, <5>1, BelowTop DEF Top
      <4>3. CASE s[1].op = "commit"
        BY <4>1, <4>3 DEF CallWoven
      <4>4. CASE s[1].op \in PathOps /\ Len(s) = 1
        <5>1. s[1] \in PathFrames /\ Woven(F, s[1])
          BY <3>4, <4>1, <4>2, <4>4, PathTop DEF CallWoven
        <5>2. Woven(F, s[1])'
          BY <3>3, <5>1, WalkShape, WovenStays
        <5> QED BY <4>1, <4>4, <5>2 DEF CallWoven
      <4>5. CASE s[1].op \in PathOps /\ Len(s) # 1
        <5>1. /\ s[1] \in PathFrames /\ s[2] \in RemoveFrames /\ s[3] \in PathFrames /\ Len(s) = 3
              /\ s[1].op # "commit"
          BY <3>4, <4>1, <4>2, <4>5, PathTop, WalkNested
        <5>2. /\ Woven(F, s[1]) /\ Woven(F, s[3]) /\ Searched(s[2].stack) /\ Base = RootRef
              /\ TurnedTo(Last(s[2].stack), s[1].path)
          BY <4>2, <5>1 DEF CallWoven
        <5>3. s[2].stack \in Seq(Visits)
          BY <5>1, SearchStack
        <5>4. Woven(F, s[1])' /\ Woven(F, s[3])' /\ Searched(s[2].stack)'
          <6>1. Woven(F, s[1])'
            BY <3>3, <5>1, <5>2, WalkShape, WovenStays
          <6>2. Woven(F, s[3])'
            BY <3>3, <5>1, <5>2, WalkShape, WovenStays
          <6>3. Searched(s[2].stack)'
            BY <3>3, <5>2, <5>3, SearchedStill
          <6> QED BY <6>1, <6>2, <6>3
        <5> QED BY <3>1, <4>1, <5>1, <5>2, <5>4 DEF CallWoven
      <4>6. CASE s[1].op = "remove"
        <5>1. Running(h, "remove")
          BY <3>4, <4>2, <4>6 DEF Running
        <5>2. s[1] \in RemoveFrames /\ s[2] \in PathFrames /\ Len(s) = 2
          BY <4>1, <4>2, <5>1, SearchPair
        <5>3. Woven(F, s[2]) /\ Searched(s[1].stack) /\ Base = RootRef
          BY <4>2, <4>6, <5>2 DEF CallWoven
        <5>4. s[1].stack \in Seq(Visits)
          BY <5>2, SearchStack
        <5>5. Woven(F, s[2])' /\ Searched(s[1].stack)'
          <6>1. Woven(F, s[2])'
            BY <3>3, <5>2, <5>3, WalkShape, WovenStays
          <6>2. Searched(s[1].stack)'
            BY <3>3, <5>3, <5>4, SearchedStill
          <6> QED BY <6>1, <6>2
        <5> QED BY <3>1, <4>1, <5>2, <5>3, <5>5 DEF CallWoven
      <4>7. s[1].op \in PathOps \union {"remove", "commit"}
        <5>1. s[1] \in Frames
          BY <4>2
        <5> QED BY <5>1 DEF Frames, PathFrames, RemoveFrames, CommitFrames, PathOps
      <4> QED BY <4>3, <4>4, <4>5, <4>6, <4>7
    <3> QED BY <2>1, <3>2, <3>4 DEF WeaveInv
  <2> QED BY <1>2, <2>2, <2>3
<1>3. ASSUME Undisturbed, NEW h \in Handle, CallStep(h)
      PROVE  333 \in failed' \/ (WeaveInv' /\ CommitInv')
  BY <1>3, CallStepWeaves
<1>4. ASSUME Undisturbed, NEW h \in Handle, ClientStep(h)
      PROVE  WeaveInv' /\ CommitInv'
  BY <1>1, <1>4, ClientStepWeaves, ClientStepBegins DEF Undisturbed
<1>5. ASSUME Undisturbed, NEW h \in Handle, Crash(h)
      PROVE  FALSE
  BY <1>1, <1>5, InContext DEF Crash, Undisturbed, IInv, TypeOK
<1>6. ASSUME Undisturbed, DeleteWorkspaceForced
      PROVE  WeaveInv' /\ CommitInv'
  <2>0. \A h \in Handle : mem[h] = None
    BY <1>6 DEF Undisturbed
  <2>1. \A g \in Handle : calls'[g] = <<>>
    BY <1>1, <1>6, <2>0, InContext DEF DeleteWorkspaceForced, IInv, RootInv, InCall
  <2> QED BY <1>1, <1>6, <2>0, <2>1, DropWeaves DEF CommitInv, Running
<1>7. Undisturbed /\ Next => 333 \in failed' \/ (WeaveInv' /\ CommitInv')
  BY <1>3, <1>4, <1>5, <1>6 DEF Next
<1>8. Undisturbed /\ Next => 333 \in failed' \/ OnlyThere
  BY CallStepWeaves DEF OnlyThere
<1> QED BY <1>2, <1>7, <1>8

-----------------------------------------------------------------------------
(* What holds in every state of a process alone that the assertion of line *)
(* 333 does not end.                                                       *)

LEMMA InitWeaves ==
    ASSUME Init
    PROVE  WeaveInv /\ CommitInv
<1>1. /\ files = [q \in Node |-> None] /\ \A h \in Handle : calls[h] = <<>>
  BY DEF Init, NothingYet
<1>2. Placed
  BY <1>1 DEF Placed, IsTree, None
<1> QED BY <1>1, <1>2 DEF WeaveInv, CommitInv, Running

LEMMA LoneFits == LoneSpec /\ []SegmentsAreTracked => [](IInv /\ ChildInv)
<1> DEFINE K == IInv /\ ChildInv
<1>1. Init => K
  BY InitIInv, InitChildInv
<1>2. K /\ SegmentsAreTracked' /\ [Next /\ Undisturbed]_vars => K'
  <2> SUFFICES ASSUME K, SegmentsAreTracked', [Next /\ Undisturbed]_vars PROVE K'
    OBVIOUS
  <2>1. [Next]_vars
    OBVIOUS
  <2>2. IInv'
    BY <2>1, NextIInv
  <2>3. 333 \notin failed'
    BY DEF SegmentsAreTracked
  <2> QED BY <2>2, <2>3, NextFits
<1> QED BY <1>1, <1>2, PTL DEF LoneSpec

LEMMA LoneWeaves == LoneSpec /\ []SegmentsAreTracked => [](Unfolds /\ Weaves)
<1> DEFINE W == WeaveInv /\ CommitInv
<1>1. IInv /\ ChildInv => Unfolds /\ TreesAreStored
  BY Unfolding, AtIsStored DEF ChildInv
<1>2. Init => W
  BY InitWeaves
<1>3. IInv /\ ChildInv /\ Unfolds /\ TreesAreStored /\ W => Weaves
  BY CommitShows DEF Weaves, Context
<1>4. W /\ Weaves /\ Unfolds' /\ TreesAreStored' /\ SegmentsAreTracked' /\ [Next /\ Undisturbed]_vars => W'
  BY NextWeaves DEF SegmentsAreTracked
<1> QED BY <1>1, <1>2, <1>3, <1>4, LoneFits, PTL DEF LoneSpec

(* A call changes the map at its path or below it and nowhere else, though *)
(* createPath (workspaceimpl.h) rewrites every tree above and a search     *)
(* removes one file after the other; a commit (repositoryimpl.cpp) changes *)
(* the map nowhere, though it moves every object and its data into the     *)
(* store.  For any paths, data and handles, of a process that has the      *)
(* workspace to itself.                                                    *)
THEOREM CallsKeepToTheirPath ==
    LoneSpec /\ []SegmentsAreTracked => OnlyItsPath
<1>1. /\ Weaves /\ Unfolds' /\ Weaves' /\ SegmentsAreTracked' /\ [Next /\ Undisturbed]_vars
      => [OnlyThere]_vars
  BY NextWeaves DEF SegmentsAreTracked, Weaves
<1> QED BY <1>1, LoneWeaves, PTL DEF LoneSpec, OnlyItsPath, OnlyThere

-----------------------------------------------------------------------------
(* The history.                                                            *)

(* A step that makes no commit leaves the list as it is. *)
LEMMA OnlyCreates ==
    ASSUME [Next]_vars, \A h \in Handle : ~CreateCommit(h)
    PROVE  commits' = commits
<1>1. ASSUME NEW h \in Handle, PathStep(h)
      PROVE  commits' = commits
  BY <1>1 DEF PathStep, Descend, BlockedBelowEntity, SegUntracked, Abort, StoreLeaf,
     DeleteEntityLeaf, DeleteTreeLeaf, StoreTreeOfPath, StoreRoot, SaveWorkspace, store
<1>2. ASSUME NEW h \in Handle, RemoveStep(h)
      PROVE  commits' = commits
  BY <1>2 DEF RemoveStep, RemoveChild, RemoveTree, RemoveEnds, store
<1>3. ASSUME NEW h \in Handle, CommitStep(h)
      PROVE  commits' = commits
  BY <1>3 DEF CommitStep, CommitChild, PersistData, ReadEmptyData, PersistEntity, RemovePersisted,
     CommitUnrecorded, Abort, PersistTree, RemovePersistedTree, EndCommit, store, vars
<1>4. ASSUME NEW h \in Handle, ClientStep(h) \/ Crash(h)
      PROVE  commits' = commits
  BY <1>4 DEF ClientStep, CreateWorkspace, OpenWorkspace, CloseWorkspace, StoreEntity, EditEntity,
     WriteData, DeleteEntity, DeleteTree, BeginCommit, Crash, store
<1>5. DeleteWorkspaceForced => commits' = commits
  BY DEF DeleteWorkspaceForced, store
<1>6. UNCHANGED vars => commits' = commits
  BY DEF vars, store
<1> QED BY <1>1, <1>2, <1>3, <1>4, <1>5, <1>6 DEF Next, CallStep

LEMMA Extends ==
    ASSUME NEW n \in Nat, NEW S, NEW s \in [1..n -> S], NEW t \in [1..(n + 1) -> S], NEW e,
           \A i \in 1..n : t[i] = s[i], t[n + 1] = e
    PROVE  t = Append(s, e)
<1>1. s \in Seq(S) /\ Len(s) = n /\ e \in S /\ t = [i \in 1..(n + 1) |-> t[i]]
  OBVIOUS
<1>2. PICK u : u = Append(s, e)
  OBVIOUS
<1>3. /\ Len(u) = n + 1 /\ u = [i \in 1..(n + 1) |-> u[i]]
      /\ u[n + 1] = e /\ \A i \in 1..n : u[i] = s[i]
  <2>1. u \in Seq(S) /\ Len(u) = n + 1 /\ u[n + 1] = e /\ \A i \in 1..n : u[i] = s[i]
    BY <1>1, <1>2
  <2>2. u = [i \in 1..Len(u) |-> u[i]]
    BY <2>1
  <2> QED BY <2>1, <2>2
<1>4. \A i \in 1..(n + 1) : t[i] = u[i]
  <2>1. \A i \in 1..(n + 1) : i \in 1..n \/ i = n + 1
    OBVIOUS
  <2> QED BY <1>3, <2>1
<1> QED BY <1>2, <1>3, <1>4

(* createCommit records the map that the client sees, and nothing else     *)
(* changes the history.                                                    *)
CommitsRecord ==
    IF \E h \in Handle : CreateCommit(h) THEN History' = Append(History, Map) /\ Map' = Map
    ELSE History' = History

LEMMA HistoryRecords ==
    ASSUME Weaves, Unfolds', Weaves', [Next]_vars
    PROVE  CommitsRecord
<1>1. /\ Context /\ CommitInv /\ TreesAreStored /\ TreesAreStored' /\ ShowsMap'
      /\ IInv /\ commits \in Seq([parent : 0..Len(commits), root : trees \union {None}])
  BY InContext DEF Weaves, IInv, StoreClosed
<1>2. PICK n, H, H1, M : /\ n = Len(commits) /\ H = History /\ H1 = History' /\ M = Map
  OBVIOUS
<1>3. n \in Nat
  BY <1>1, <1>2
<1>4. /\ H = [i \in 1..n |-> [p \in Path |-> AtIn(commits[i], p)]]
      /\ H1 = [i \in 1..Len(commits') |-> [p \in Path |-> AtIn(commits[i], p)']]
      /\ M = [p \in Path |-> At(p)]
  BY <1>2 DEF History, Map
<1>5. ASSUME NEW i \in 1..n, n <= Len(commits'), Len(commits') \in Nat, commits'[i] = commits[i]
      PROVE  H1[i] = H[i]
  <2>1. i \in 1..Len(commits')
    BY <1>3, <1>5
  <2>2. ASSUME NEW p \in Path
        PROVE  AtIn(commits[i], p)' = AtIn(commits[i], p)
    <3>1. AtIn(commits[i], p) = StoredAt(StoredRoot(commits[i]), p)
      BY <1>1, <1>2 DEF TreesAreStored
    <3>2. AtIn(commits[i], p)' = StoredAt(StoredRoot(commits'[i]), p)
      BY <1>1, <2>1 DEF TreesAreStored
    <3> QED BY <1>5, <3>1, <3>2
  <2>3. H1[i] = [p \in Path |-> AtIn(commits[i], p)']
    BY <1>4, <2>1
  <2>4. H[i] = [p \in Path |-> AtIn(commits[i], p)]
    BY <1>4
  <2> QED BY <2>2, <2>3, <2>4
<1>6. CASE \E h \in Handle : CreateCommit(h)
  <2>1. PICK h \in Handle : CreateCommit(h)
    BY <1>6
  <2>2. \A q \in Path : At(q)' = At(q)
    BY <1>1, <2>1, CreateCommitWeaves
  <2>3. PICK c : commits' = Append(commits, c)
    BY <2>1 DEF CreateCommit
  <2>4. Len(commits') = n + 1 /\ \A i \in 1..n : commits'[i] = commits[i]
    BY <1>1, <1>2, <2>3
  <2>5. Running(h, "commit")' /\ Top(h)'.made = n + 1
    <3>1. PICK f, g : f = Top(h) /\ g = [f EXCEPT !.made = n + 1]
      OBVIOUS
    <3>2. Running(h, "commit") /\ Continue(h, g) /\ f \in CommitFrames
      BY <1>1, <1>2, <2>1, <3>1, InCommit DEF CreateCommit
    <3>3. g.op = "commit" /\ g.made = n + 1
      BY <3>1, <3>2 DEF CommitFrames
    <3> QED BY <1>1, <3>2, <3>3, CommitWillSee
  <2>6. PICK m : m = n + 1
    OBVIOUS
  <2>7. \A p \in Path : AtIn(commits[m], p)' = At(p)
    <3>1. \A p \in Path : AtIn(commits[Top(h).made], p)' = At(p)'
      BY <1>1, <1>3, <2>5 DEF ShowsMap
    <3>2. Top(h)'.made = m
      BY <2>5, <2>6
    <3>3. \A p \in Path : AtIn(commits[m], p)' = At(p)'
      BY <3>1, <3>2
    <3> QED BY <2>2, <3>3
  <2>8. H1[m] = M
    <3>1. m \in 1..Len(commits')
      BY <1>3, <2>4, <2>6
    <3>2. H1[m] = [p \in Path |-> AtIn(commits[m], p)']
      BY <1>4, <3>1
    <3> QED BY <1>4, <2>7, <3>2
  <2>9. H1 = Append(H, M)
    <3> DEFINE S == {H1[i] : i \in 1..(n + 1)}
    <3>2. \A i \in 1..n : H1[i] = H[i]
      BY <1>3, <1>5, <2>4
    <3>3. H1[n + 1] = M
      BY <2>6, <2>8
    <3>4. H1 \in [1..(n + 1) -> S]
      BY <1>4, <2>4
    <3>5. H \in [1..n -> S]
      <4>1. \A i \in 1..n : H[i] \in S
        BY <1>3, <3>2
      <4> HIDE DEF S
      <4> QED BY <1>4, <4>1
    <3> HIDE DEF S
    <3> QED BY <1>3, <3>2, <3>3, <3>4, <3>5, Extends
  <2>10. Map' = Map
    BY <2>2 DEF Map
  <2> QED BY <1>2, <1>6, <2>9, <2>10 DEF CommitsRecord
<1>7. CASE ~\E h \in Handle : CreateCommit(h)
  <2>1. commits' = commits
    BY <1>7, OnlyCreates
  <2>2. \A i \in 1..n : H1[i] = H[i]
    BY <1>2, <1>3, <1>5, <2>1
  <2>3. H = [i \in 1..n |-> H[i]] /\ H1 = [i \in 1..n |-> H1[i]]
    BY <1>2, <1>4, <2>1
  <2> QED BY <1>2, <1>7, <2>2, <2>3 DEF CommitsRecord
<1> QED BY <1>6, <1>7

(* createCommit (repositoryimpl.cpp) records exactly the map that the      *)
(* client sees when the commit ends as when it began, and no other step    *)
(* changes what is recorded: for any paths, data and handles, with or      *)
(* without assertions.                                                     *)
THEOREM CommitRecordsTheMap ==
    LoneSpec /\ []SegmentsAreTracked => [][CommitsRecord]_vars
<1>1. Weaves /\ Unfolds' /\ Weaves' /\ [Next /\ Undisturbed]_vars => [CommitsRecord]_vars
  BY HistoryRecords
<1> QED BY <1>1, LoneWeaves, PTL DEF LoneSpec

-----------------------------------------------------------------------------
(* What a reader of one path finds.  getEntity looks at the file first,    *)
(* whatever the references say, so an entity's file that no reference      *)
(* leads to would be found where the map shows nothing, or in place of     *)
(* what the map shows.                                                     *)

(* The file of a path is an entity's. *)
Filed(q) == q \in Path /\ IsEntity(files[q])

(* One gets to a path by path, *)
Held(q) == \E r \in Met(q) : IsPathRef(r)

AllHeld == \A q \in Path : Filed(q) => Held(q)

(* over trees that are files. *)
StrungTo(q, i) ==
    LET tree == files[Upto(q, i)] IN IsTree(tree) /\ IsPathRef(tree.refs[q[i + 1]])

Strung(q) == Base = RootRef /\ \A i \in 0..(Len(q) - 1) : StrungTo(q, i)

(* A search will still turn to a child that leads to q. *)
Left(stack, q) ==
    \E k \in 1..Len(stack) : \E n \in stack[k].todo : AtOrBelow(Append(stack[k].path, n), q)

(* What is filed at the path of a walk or below it: what it is to remove,  *)
(* or the entity it has written.                                           *)
Clears(f) ==
    \A q \in Path : Filed(q) /\ AtOrBelow(f.path, q) =>
        IF f.dir = "down" THEN f.op = "deleteTree" <=> q # f.path
        ELSE f.op = "store" /\ q = f.path

WalkStrays(f) ==
    /\ Clears(f)
    /\ \A q \in Path : Filed(q) => Held(q) \/ (f.op = "store" /\ f.dir # "down" /\ q = f.path)

(* A search r that removes what is below the path of u.                    *)
SearchStrays(r, u) ==
    /\ AllHeld
    /\ \A q \in Path : Filed(q) /\ AtOrBelow(u.path, q) => Left(r.stack, q)

(* It has called deleteEntity.                                             *)
NestedStrays(n, r, u) ==
    /\ AllHeld
    /\ Clears(n)
    /\ \A q \in Path : Filed(q) /\ AtOrBelow(u.path, q) =>
          Left(r.stack, q) \/ (n.dir = "down" /\ q = n.path)

(* A commit moves what is filed; what is left is before it, or at hand.    *)
Awaits(f, q) ==
    \/ Left(f.stack, q)
    \/ f.cur # None /\ f.cur.step # "removeTree" /\ f.cur.path = q

CommitStrays(f) == \A q \in Path : Filed(q) => Strung(q) /\ Awaits(f, q)

CallStrays(s) ==
    \/ s[1].op = "commit" /\ CommitStrays(s[1])
    \/ s[1].op # "commit" /\ Len(s) = 1 /\ WalkStrays(s[1])
    \/ Len(s) = 2 /\ SearchStrays(s[1], s[2])
    \/ Len(s) = 3 /\ NestedStrays(s[1], s[2], s[3])

StrayInv ==
    /\ (\A h \in Handle : calls[h] = <<>>) => AllHeld
    /\ \A h \in Handle : calls[h] # <<>> => CallStrays(calls[h])

(* The way to what one gets to by path. *)
LEMMA HeldAbove ==
    ASSUME Context, OnFiles, NEW q \in Seq(Name), NEW n \in Name, Held(Append(q, n))
    PROVE  /\ Held(q) /\ q \in Node /\ IsTree(files[q]) /\ IsPathRef(files[q].refs[n])
           /\ Base = RootRef
<1>1. Append(q, n) \in Seq(Name)
  OBVIOUS
<1>2. PICK y \in Met(Append(q, n)) : IsPathRef(y)
  BY DEF Held
<1>3. PICK s \in Met(q) : IsTree(ObjectOf(s)) /\ y = ObjectOf(s).refs[n]
  BY <1>2, InContext DEF Unfolds
<1>4. s \in AnyRef /\ s # None /\ (IsPathRef(s) => s.path = q)
  BY <1>3, InContext DEF MetInPlace, MetAt
<1>5. IsPathRef(s)
  <2> SUFFICES ASSUME ~IsPathRef(s)
               PROVE  FALSE
    OBVIOUS
  <2>1. s.id \in Objects /\ ObjectOf(s) = s.id
    BY <1>4 DEF AnyRef, Refs, IdRefs, PathRefs, IsIdRef, IsPathRef, RootRef, PathRef, None, ObjectOf
  <2>2. ObjectOf(s) \notin entities
    BY <1>3, InContext, IInvInv, StoredTypes DEF Entities, IsTree
  <2>3. TransientNames(ObjectOf(s)) = {}
    BY <2>1, <2>2, InContext DEF Objects, CommitFindsChildren
  <2> QED BY <1>2, <1>3, <2>3 DEF TransientNames
<1>6. ObjectOf(s) = File(q)
  <2>1. ~IsIdRef(s)
    BY <1>5 DEF IsIdRef, IsPathRef
  <2> QED BY <1>4, <1>5, <2>1 DEF ObjectOf, OnFiles
<1>7. q \in Node /\ ObjectOf(s) = files[q]
  BY <1>3, <1>6 DEF File, IsTree, None
<1>8. Base = RootRef
  BY <1>1, <1>2, InContext, RootIsMet
<1> QED BY <1>2, <1>3, <1>5, <1>7, <1>8 DEF Held

LEMMA HeldIsStrung ==
    ASSUME Context, OnFiles, NEW q \in Seq(Name), Held(q)
    PROVE  Strung(q) /\ \A i \in 0..Len(q) : Held(Upto(q, i))
<1> DEFINE G == {z \in Seq(Name) : Held(z) =>
                    /\ \A i \in 0..(Len(z) - 1) : StrungTo(z, i)
                    /\ \A i \in 0..Len(z) : Held(Upto(z, i))}
<1>1. Root \in G
  <2>1. Root \in Seq(Name) /\ Len(Root) = 0
    BY DEF Root
  <2>2. Upto(Root, 0) = Root
    BY <2>1, PathPrefix
  <2>3. 0..(Len(Root) - 1) = {} /\ 0..Len(Root) = {0}
    BY <2>1
  <2> QED BY <2>1, <2>2, <2>3
<1>2. ASSUME NEW z \in Seq(Name), NEW n \in Name, z \in G
      PROVE  Append(z, n) \in G
  <2> DEFINE x == Append(z, n)
  <2>1. /\ x \in Seq(Name) /\ Len(z) \in Nat /\ Len(x) = Len(z) + 1 /\ x[Len(z) + 1] = n
        /\ \A i \in 1..Len(z) : x[i] = z[i]
    OBVIOUS
  <2>2. Upto(x, Len(z)) = z
    BY <2>1 DEF Upto
  <2>3. \A i \in 0..Len(z) : Upto(x, i) = Upto(z, i)
    <3>1. Len(z) \in 0..Len(x)
      BY <2>1
    <3>2. \A i \in 0..Len(z) : Upto(Upto(x, Len(z)), i) = Upto(x, i)
      BY <2>1, <3>1, PathPrefix
    <3> QED BY <2>2, <3>2
  <2>4. Upto(x, Len(x)) = x
    <3>1. 0 \in 0..Len(x)
      BY <2>1
    <3> QED BY <2>1, <3>1, PathPrefix
  <2> HIDE DEF x
  <2>5. ASSUME Held(x)
        PROVE  /\ \A i \in 0..(Len(x) - 1) : StrungTo(x, i)
               /\ \A i \in 0..Len(x) : Held(Upto(x, i))
    <3>1. Held(z) /\ IsTree(files[z]) /\ IsPathRef(files[z].refs[n])
      BY <2>5, HeldAbove DEF x
    <3>2. /\ \A i \in 0..(Len(z) - 1) : StrungTo(z, i)
          /\ \A i \in 0..Len(z) : Held(Upto(z, i))
      BY <1>2, <3>1
    <3>3. ASSUME NEW i \in 0..(Len(x) - 1)
          PROVE  StrungTo(x, i)
      <4>1. CASE i = Len(z)
        BY <2>1, <2>2, <3>1, <4>1 DEF StrungTo
      <4>2. CASE i # Len(z)
        <5>1. i \in 0..(Len(z) - 1) /\ i \in 0..Len(z) /\ i + 1 \in 1..Len(z)
          BY <2>1, <3>3, <4>2
        <5> QED BY <2>1, <2>3, <3>2, <5>1 DEF StrungTo
      <4> QED BY <4>1, <4>2
    <3>4. ASSUME NEW i \in 0..Len(x)
          PROVE  Held(Upto(x, i))
      <4>1. CASE i = Len(x)
        BY <2>4, <2>5, <4>1
      <4>2. CASE i # Len(x)
        <5>1. i \in 0..Len(z)
          BY <2>1, <3>4, <4>2
        <5> QED BY <2>3, <3>2, <5>1
      <4> QED BY <4>1, <4>2
    <3> QED BY <3>3, <3>4
  <2>6. Append(z, n) = x
    BY DEF x
  <2> QED BY <2>1, <2>5, <2>6
<1>3. q \in G
  <2> HIDE DEF G
  <2> QED BY <1>1, <1>2, PathInduction
<1>4. Base = RootRef
  BY InContext, RootIsMet DEF Held
<1> QED BY <1>3, <1>4 DEF Strung

(* What is met there is the file. *)
LEMMA HeldObject ==
    ASSUME Context, OnFiles, NEW q \in Node, Held(q)
    PROVE  \A r \in Met(q) : IsPathRef(r) /\ ~IsIdRef(r) /\ ObjectOf(r) = files[q]
<1>1. PICK s \in Met(q) : IsPathRef(s)
  BY DEF Held
<1>2. q \in Seq(Name)
  BY NodeIsPath
<1>3. s.path = q /\ \A r \in Met(q) : r = s
  BY <1>1, <1>2, InContext DEF MetInPlace, MetAt
<1>4. ~IsIdRef(s)
  BY <1>1 DEF IsIdRef, IsPathRef
<1>5. ObjectOf(s) = files[q]
  BY <1>1, <1>3, <1>4 DEF ObjectOf, OnFiles, File
<1> QED BY <1>1, <1>3, <1>4, <1>5

(* An entity that one gets to is still there when another path changes. *)
LEMMA HeldStays ==
    ASSUME Context, OnFiles, NEW p \in Seq(Name), Spares(p),
           \A i \in 0..(Len(p) - 1) : Wooded(Upto(p, i)),
           NEW q \in Path, Filed(q), Held(q), ~AtOrBelow(p, q)
    PROVE  Held(q)'
<1>1. q \in Seq(Name) /\ q \in Node
  BY PathLength
<1>2. PICK r \in Met(q) : IsPathRef(r) /\ ObjectOf(r) = files[q]
  BY <1>1, HeldObject DEF Held
<1>3. ~AtOrBelow(q, p)
  <2> SUFFICES ASSUME AtOrBelow(q, p)
               PROVE  FALSE
    OBVIOUS
  <2>1. Len(q) \in Nat /\ Len(p) \in Nat /\ Len(q) <= Len(p) /\ q = Upto(p, Len(q))
    <3>1. Len(q) \in Nat /\ Len(p) \in Nat
      BY <1>1
    <3>2. Len(q) <= Len(p) /\ SubSeq(q, 1, Len(q)) = SubSeq(p, 1, Len(q))
      BY DEF AtOrBelow, IsPrefix
    <3>3. SubSeq(q, 1, Len(q)) = q
      BY <1>1
    <3> QED BY <3>1, <3>2, <3>3 DEF Upto
  <2>2. Len(q) # Len(p)
    <3> SUFFICES ASSUME Len(q) = Len(p)
                 PROVE  FALSE
      OBVIOUS
    <3>1. Upto(p, Len(p)) = p
      BY DEF Upto
    <3>2. q = p
      BY <2>1, <3>1
    <3> QED BY <3>2
  <2>3. Wooded(q)
    <3>1. Len(q) \in 0..(Len(p) - 1)
      BY <2>1, <2>2
    <3> QED BY <2>1, <3>1
  <2> QED BY <1>2, <2>3 DEF Wooded, Filed, IsTree, IsEntity
<1>4. Met(q)' = Met(q)
  BY <1>1, <1>3 DEF Spares
<1> QED BY <1>2, <1>4 DEF Held

(* When nothing changes that one meets, nor a file, it all stays. *)
LEMMA StillStrays ==
    ASSUME Still, UNCHANGED files
    PROVE  /\ \A q \in Path : (Filed(q)' <=> Filed(q)) /\ (Held(q)' <=> Held(q)) /\ (Strung(q)' <=> Strung(q))
           /\ AllHeld => AllHeld'
           /\ \A f : Clears(f) => Clears(f)'
<1>1. \A q \in Path : Met(q)' = Met(q)
  BY PathLength DEF Still
<1>2. \A q \in Path : (Filed(q)' <=> Filed(q)) /\ (Held(q)' <=> Held(q))
  BY <1>1 DEF Filed, Held
<1>3. \A q \in Path : Strung(q)' <=> Strung(q)
  BY DEF Strung, StrungTo, Still
<1>4. \A f : Clears(f) => Clears(f)'
  BY <1>2 DEF Clears
<1> QED BY <1>2, <1>3, <1>4 DEF AllHeld

(* What is filed below a path that one passes. *)
LEMMA StrungBelow ==
    ASSUME NEW p \in Seq(Name), NEW q \in Path, Strung(q), AtOrBelow(p, q), q # p
    PROVE  /\ IsTree(files[p]) /\ Base = RootRef
           /\ p = Upto(q, Len(p)) /\ Len(p) \in 0..(Len(q) - 1)
           /\ \E n \in TransientNames(files[p]) : AtOrBelow(Append(p, n), q)
<1>1. /\ p \in Seq(Name) /\ q \in Seq(Name) /\ Len(p) \in Nat /\ Len(q) \in Nat
  BY PathLength
<1>2. Len(p) <= Len(q) /\ \A i \in 1..Len(p) : p[i] = q[i]
  BY <1>1, PrefixIs
<1>3. Upto(q, Len(p)) = p
  <2>1. SubSeq(p, 1, Len(p)) = SubSeq(q, 1, Len(p)) /\ SubSeq(p, 1, Len(p)) = p
    BY <1>1 DEF AtOrBelow, IsPrefix
  <2> QED BY <2>1 DEF Upto
<1>4. Len(p) # Len(q)
  <2> SUFFICES ASSUME Len(p) = Len(q)
               PROVE  FALSE
    OBVIOUS
  <2>1. Upto(q, Len(q)) = q
    BY <1>1 DEF Upto
  <2> QED BY <1>3, <2>1
<1> DEFINE k == Len(p)
           n == q[k + 1]
<1>5. k \in 0..(Len(q) - 1) /\ n \in Name
  BY <1>1, <1>2, <1>4
<1>6. IsTree(files[p]) /\ IsPathRef(files[p].refs[n])
  BY <1>3, <1>5 DEF Strung, StrungTo
<1>7. AtOrBelow(Append(p, n), q)
  <2>1. Append(p, n) \in Seq(Name) /\ Len(Append(p, n)) = k + 1 /\ k + 1 <= Len(q)
    BY <1>1, <1>2, <1>4, <1>5
  <2>2. \A i \in 1..(k + 1) : Append(p, n)[i] = q[i]
    BY <1>1, <1>2, <1>5
  <2> QED BY <1>1, <2>1, <2>2, PrefixIs
<1>8. Base = RootRef
  BY DEF Strung
<1> HIDE DEF n
<1> QED BY <1>3, <1>5, <1>6, <1>7, <1>8 DEF TransientNames

(* A search does not come back to where it has turned. *)
LEMMA NeverLeft ==
    ASSUME NEW stack \in Seq(Visits), NEW p \in Seq(Name), Chain(stack, p),
           stack # <<>> => Last(stack).path \in Seq(Name),
           \A k \in 1..Len(stack) : k < Len(stack) => TurnedTo(stack[k], stack[k + 1].path),
           NEW z \in Path, stack # <<>> => TurnedTo(Last(stack), z),
           NEW q \in Path, AtOrBelow(z, q)
    PROVE  ~Left(stack, q)
<1> SUFFICES ASSUME NEW k \in 1..Len(stack), NEW n \in stack[k].todo,
                    AtOrBelow(Append(stack[k].path, n), q)
             PROVE  FALSE
  BY DEF Left
<1>1. stack # <<>>
  OBVIOUS
<1>2. PICK i \in 0..(Len(z) - 1) : stack[k].path = Upto(z, i) /\ z[i + 1] \notin stack[k].todo
  BY <1>1, StackWay
<1>3. /\ z \in Seq(Name) /\ q \in Seq(Name) /\ Len(z) \in Nat /\ Len(q) \in Nat
      /\ Upto(z, i) \in Seq(Name) /\ Len(Upto(z, i)) = i /\ n \in Name
  <2>1. stack[k] \in Visits
    OBVIOUS
  <2> QED BY <2>1, PathLength, Turns DEF Visits
<1>4. z[i + 1] = q[i + 1]
  <2>1. i + 1 \in 1..Len(z)
    BY <1>3
  <2> QED BY <1>3, <2>1, PrefixIs
<1>5. n = q[i + 1]
  <2> DEFINE x == Append(Upto(z, i), n)
  <2>1. x \in Seq(Name) /\ Len(x) = i + 1 /\ x[i + 1] = n
    BY <1>3
  <2>2. AtOrBelow(x, q) /\ i + 1 \in 1..Len(x)
    BY <1>2, <2>1
  <2> HIDE DEF x
  <2>3. x[i + 1] = q[i + 1]
    BY <1>3, <2>1, <2>2, PrefixIs
  <2> QED BY <2>1, <2>3
<1> QED BY <1>2, <1>4, <1>5

(* What is left when the search turns to a child, *)
LEMMA LeftOn ==
    ASSUME NEW f \in RemoveFrames \union CommitFrames, f.stack \in Seq(Visits), f.stack # <<>>,
           NEW n, NEW q, Left(f.stack, q)
    PROVE  \/ Left(PassTo(f, n).stack, q)
           \/ AtOrBelow(Append(Last(f.stack).path, n), q)
<1>1. PICK stack, l, top, t : /\ stack = f.stack /\ l = Len(stack) /\ top = Last(stack)
                              /\ t = PassTo(f, n).stack
  OBVIOUS
<1>2. stack \in Seq(Visits) /\ l \in Nat \ {0} /\ top = stack[l] /\ top \in Visits
  BY <1>1, Ends DEF Last
<1>3. /\ Len(t) = l /\ t[l] = [top EXCEPT !.todo = @ \ {n}] /\ t[l].path = top.path
      /\ \A k \in 1..(l - 1) : t[k] = stack[k]
  <2>1. LET y == PassTo(f, n).stack
            z == f.stack
        IN  /\ Len(y) = Len(z)
            /\ Last(y) = [Last(z) EXCEPT !.todo = @ \ {n}] /\ Last(y) = y[Len(z)]
            /\ \A k \in 1..(Len(z) - 1) : y[k] = z[k]
            /\ Last(y).path = Last(z).path
    BY Passing
  <2> QED BY <1>1, <2>1
<1>4. t[l].todo = top.todo \ {n}
  BY <1>2, <1>3 DEF Visits
<1>5. PICK k \in 1..l : \E m \in stack[k].todo : AtOrBelow(Append(stack[k].path, m), q)
  BY <1>1 DEF Left
<1>6. PICK m \in stack[k].todo : AtOrBelow(Append(stack[k].path, m), q)
  BY <1>5
<1>7. CASE k = l /\ m = n
  BY <1>1, <1>2, <1>6, <1>7
<1>8. CASE k = l /\ m # n
  <2>1. m \in t[k].todo /\ t[k].path = stack[k].path /\ k \in 1..Len(t)
    BY <1>2, <1>3, <1>4, <1>6, <1>8
  <2> QED BY <1>1, <1>6, <2>1 DEF Left
<1>9. CASE k # l
  <2>1. t[k] = stack[k] /\ k \in 1..Len(t)
    BY <1>2, <1>3, <1>6, <1>9
  <2> QED BY <1>1, <1>6, <2>1 DEF Left
<1> QED BY <1>7, <1>8, <1>9

(* and when it goes deeper. *)
LEMMA LeftDeeper ==
    ASSUME NEW stack \in Seq(Visits), NEW p, NEW ref, NEW tree, NEW t, t = Append(stack, Visit(p, ref, tree)),
           NEW q \in Path,
           \/ Left(stack, q)
           \/ \E n \in TransientNames(tree) : AtOrBelow(Append(p, n), q)
    PROVE  Left(t, q)
<1>1. PICK v : v = Visit(p, ref, tree)
  OBVIOUS
<1>2. Len(stack) \in Nat
  OBVIOUS
<1>3. Len(t) = Len(stack) + 1 /\ t[Len(stack) + 1] = v /\ \A k \in 1..Len(stack) : t[k] = stack[k]
  BY <1>1, <1>2
<1>4. v.path = p /\ v.todo = TransientNames(tree)
  BY <1>1 DEF Visit
<1>5. CASE Left(stack, q)
  <2>1. PICK k \in 1..Len(stack) : \E n \in stack[k].todo : AtOrBelow(Append(stack[k].path, n), q)
    BY <1>5 DEF Left
  <2>2. k \in 1..Len(t) /\ t[k] = stack[k]
    BY <1>2, <1>3
  <2> QED BY <2>1, <2>2 DEF Left
<1>6. CASE \E n \in TransientNames(tree) : AtOrBelow(Append(p, n), q)
  <2>1. Len(stack) + 1 \in 1..Len(t)
    BY <1>2, <1>3
  <2> QED BY <1>3, <1>4, <1>6, <2>1 DEF Left
<1> QED BY <1>5, <1>6

(* When the tree on top has nothing left it is left to the others. *)
LEMMA LeftBelow ==
    ASSUME NEW stack \in Seq(Visits), stack # <<>>, Last(stack).todo = {}, NEW q, Left(stack, q)
    PROVE  Left(Front(stack), q)
<1>1. PICK k \in 1..Len(stack) : \E n \in stack[k].todo : AtOrBelow(Append(stack[k].path, n), q)
  BY DEF Left
<1>2. Len(stack) \in Nat \ {0} /\ Len(Front(stack)) = Len(stack) - 1
  BY Ends
<1>3. k # Len(stack)
  BY <1>1 DEF Last
<1>4. k \in 1..Len(Front(stack)) /\ Front(stack)[k] = stack[k]
  BY <1>1, <1>2, <1>3 DEF Front
<1> QED BY <1>1, <1>4 DEF Left

-----------------------------------------------------------------------------
(* Of the only call. *)
LEMMA StraysOn ==
    ASSUME Context, NEW h \in Handle, mem[h] # None, NEW s, calls' = [calls EXCEPT ![h] = s],
           IF s = <<>> THEN AllHeld' ELSE CallStrays(s)'
    PROVE  StrayInv'
<1>1. \A g \in Handle \ {h} : calls[g] = <<>>
  BY InContext, Others
<1>2. calls'[h] = s /\ \A g \in Handle \ {h} : calls'[g] = <<>>
  BY <1>1, InContext DEF IInv, TypeOK
<1>3. \A g \in Handle : calls'[g] # <<>> => g = h /\ s # <<>>
  BY <1>2
<1>4. \A g \in Handle : calls'[g] # <<>> => CallStrays(calls[g])'
  <2>1. s # <<>> => CallStrays(calls[h])'
    <3>1. PICK t : t = calls'[h]
      OBVIOUS
    <3>2. t = s
      BY <1>2, <3>1
    <3>3. s # <<>> => CallStrays(t)'
      BY <3>2
    <3> QED BY <3>1, <3>3
  <2> QED BY <1>3, <2>1
<1> QED BY <1>2, <1>4 DEF StrayInv

(* What is filed while a walk goes on. *)
LEMMA WalkStrayed ==
    ASSUME Context, StrayInv, NEW h \in Handle, calls[h] # <<>>, Top(h).op \in PathOps,
           NEW f, f = Top(h)
    PROVE  /\ Clears(f)
           /\ Len(calls[h]) # 1 => NestedStrays(f, calls[h][2], calls[h][3])
           /\ \A q \in Path : Filed(q) => Held(q) \/ (f.op = "store" /\ f.dir # "down" /\ q = f.path)
<1>1. f = calls[h][1] /\ f.op # "commit"
  <2>1. calls[h] \in Seq(Frames)
    BY InContext DEF IInv, TypeOK
  <2> QED BY <2>1, BelowTop DEF Top, PathOps
<1>2. CallStrays(calls[h])
  BY DEF StrayInv
<1>3. CASE Len(calls[h]) = 1
  BY <1>1, <1>2, <1>3 DEF CallStrays, WalkStrays
<1>4. CASE Len(calls[h]) # 1
  <2>1. Len(calls[h]) = 3
    BY <1>4, InContext, WalkNested
  <2>2. NestedStrays(f, calls[h][2], calls[h][3])
    BY <1>1, <1>2, <2>1 DEF CallStrays
  <2> QED BY <2>2 DEF NestedStrays, AllHeld
<1> QED BY <1>3, <1>4

(* It has turned at its leaf, or comes up. *)
LEMMA WalkStraysOn ==
    ASSUME Context, StrayInv, NEW h \in Handle, calls[h] # <<>>, Top(h).op \in PathOps,
           NEW f, f = Top(h), NEW g, Continue(h, g), g.op = f.op, g.path = f.path, g.dir # "down",
           Spares(f.path), \A i \in 0..(Len(f.path) - 1) : Wooded(Upto(f.path, i)), OnFiles,
           \A q \in Path : Filed(q)' /\ ~AtOrBelow(f.path, q) => Filed(q), Clears(g)'
    PROVE  StrayInv'
<1>1. IInv /\ ChildInv
  BY InContext
<1>2. /\ f \in PathFrames /\ f.op # "commit" /\ f.path \in Path /\ f.path \in Seq(Name)
  BY <1>1, PathTop, FrameTurns
<1>3. mem[h] # None
  BY <1>1, <1>2, NoCommitBelow
<1>4. ASSUME NEW q \in Path, Filed(q)', ~AtOrBelow(f.path, q)
      PROVE  Filed(q) /\ Held(q)'
  <2>1. Filed(q)
    BY <1>4
  <2>2. AtOrBelow(f.path, f.path)
    BY <1>2, PrefixIs
  <2>3. Held(q)
    BY <1>4, <2>1, <2>2, WalkStrayed
  <2> QED BY <1>2, <1>4, <2>1, <2>3, HeldStays
<1>5. ASSUME NEW q \in Path, Filed(q)', AtOrBelow(f.path, q)
      PROVE  f.op = "store" /\ q = f.path
  BY <1>5 DEF Clears
<1>6. CASE Len(calls[h]) = 1
  <2> DEFINE s == <<g>>
  <2>1. calls' = [calls EXCEPT ![h] = s] /\ Len(s) = 1 /\ s[1] = g /\ s # <<>>
    BY <1>1, <1>6, WalkAlone DEF Continue
  <2> HIDE DEF s
  <2>2. WalkStrays(g)'
    BY <1>4, <1>5 DEF WalkStrays
  <2>3. PICK t : t = s
    OBVIOUS
  <2>4. CallStrays(t)'
    BY <1>2, <2>1, <2>2, <2>3 DEF CallStrays
  <2> QED BY <1>3, <2>1, <2>3, <2>4, StraysOn
<1>7. CASE Len(calls[h]) # 1
  <2>1. PICK r, u, s : r = calls[h][2] /\ u = calls[h][3] /\ s = <<g>> \o Tail(calls[h])
    OBVIOUS
  <2>2. s # <<>> /\ Len(s) = 3 /\ s[1] = g /\ s[2] = r /\ s[3] = u /\ f.op = "deleteEntity"
    BY <1>1, <1>7, <2>1, WalkNested
  <2>3. NestedStrays(f, r, u)
    BY <1>7, <2>1, WalkStrayed
  <2>4. AllHeld'
    BY <1>4, <1>5, <2>2 DEF AllHeld
  <2>5. ASSUME NEW q \in Path, Filed(q)', AtOrBelow(u.path, q)
        PROVE  Left(r.stack, q)
    <3>1. ~AtOrBelow(f.path, q)
      BY <1>5, <2>2, <2>5
    <3>2. Filed(q) /\ q # f.path
      BY <1>2, <1>4, <2>5, <3>1, PrefixIs
    <3> QED BY <2>3, <2>5, <3>2 DEF NestedStrays
  <2>6. NestedStrays(g, r, u)'
    BY <2>4, <2>5 DEF NestedStrays, Left
  <2>7. CallStrays(s)'
    BY <2>2, <2>6 DEF CallStrays
  <2>8. calls' = [calls EXCEPT ![h] = s]
    BY <2>1 DEF Continue
  <2> QED BY <1>3, <2>2, <2>7, <2>8, StraysOn
<1> QED BY <1>6, <1>7

(* The way of a walk that has come to its leaf. *)
LEMMA WalkWooded ==
    ASSUME NEW F, NEW f \in PathFrames, Woven(F, f), f.dir = "down" => f.at = Len(f.path)
    PROVE  \A i \in 0..(Len(f.path) - 1) : Wooded(Upto(f.path, i))
<1>1. CASE f.dir = "down"
  <2>1. Len(f.trees) = Len(f.path)
    BY <1>1 DEF PathFrames
  <2> QED BY <1>1, <2>1 DEF Woven, Reading
<1>2. CASE f.dir # "down"
  <2>1. f.dir \in {"up", "save"}
    BY <1>2 DEF PathFrames, Woven
  <2> QED BY <2>1 DEF Woven, Rises
<1> QED BY <1>1, <1>2

(* What is met at the leaf. *)
LEMMA LeafMet ==
    ASSUME Context, Unfolds', NEW h \in Handle, Descending(h), AtLeaf(Top(h)), NEW f, f = Top(h)
    PROVE  /\ Met(f.path) = {SegRef(f)} \ {None}
           /\ \A i \in 0..(Len(f.path) - 1) : Wooded(Upto(f.path, i))
           /\ calls[h] # <<>> /\ f \in PathFrames /\ f.path \in Path /\ f.op \in PathOps /\ f.dir = "down"
           /\ mem[h] # None /\ OnFiles
           /\ \A ref : LET g == Ascend(f, ref) IN g.op = f.op /\ g.path = f.path /\ g.dir = "up"
<1>1. /\ calls[h] # <<>> /\ f \in PathFrames /\ f.path \in Path /\ f.op \in PathOps /\ f.dir = "down"
      /\ f.at = Len(f.path) /\ Len(f.trees) = Len(f.path)
      /\ \A ref : LET g == Ascend(f, ref) IN g.op = f.op /\ g.path = f.path /\ g.dir = "up"
  BY InContext, TurnTrees
<1>2. Woven(files, f) /\ mem[h] # None /\ OnFiles
  BY <1>1, WalkWeaves
<1>3. \A i \in 0..(Len(f.path) - 1) : Wooded(Upto(f.path, i))
  BY <1>1, <1>2, WalkWooded
<1> DEFINE k == Len(f.path) - 1
<1>4. k \in 0..(Len(f.path) - 1) /\ k + 1 = Len(f.path) /\ f.path \in Seq(Name)
  BY <1>1, PathLength
<1> HIDE DEF k
<1>5. Reading(Upto(f.path, k), f.trees[k + 1])
  BY <1>1, <1>2, <1>4 DEF Woven
<1>6. f.path[k + 1] \in Name /\ Upto(f.path, k + 1) = Append(Upto(f.path, k), f.path[k + 1])
  BY <1>1, <1>4, Turns
<1>7. Upto(f.path, k + 1) = f.path
  BY <1>4 DEF Upto
<1>8. SegRef(f) = f.trees[k + 1].refs[f.path[k + 1]]
  BY <1>1, <1>4 DEF SegRef, Last
<1>9. Met(f.path) = {SegRef(f)} \ {None}
  BY <1>5, <1>6, <1>7, <1>8 DEF Reading
<1> QED BY <1>1, <1>2, <1>3, <1>9

-----------------------------------------------------------------------------
(* The steps of a walk.                                                    *)

(* A file that is written where none is an entity's. *)
LEMMA FiledStays ==
    ASSUME IInv, NEW x \in Node, NEW obj, files' = [files EXCEPT ![x] = obj]
    PROVE  \A q \in Path : Filed(q)' => (q = x /\ IsEntity(obj)) \/ Filed(q)
BY DEF IInv, TypeOK, Filed, Node

LEMMA DescendStrays ==
    ASSUME Context, Unfolds', StrayInv, NEW h \in Handle, Descend(h)
    PROVE  StrayInv'
<1>1. PICK f, child, g : /\ f = Top(h) /\ child = SegTree(SegRef(f))
                         /\ g = [f EXCEPT !.trees = Append(f.trees, child), !.at = f.at + 1]
  OBVIOUS
<1>2. /\ calls[h] # <<>> /\ f \in PathFrames /\ f.op \in PathOps /\ f.op # "commit" /\ f.dir = "down"
  BY <1>1, DownTop, InContext DEF Descend
<1>3. g.op = f.op /\ g.path = f.path /\ g.dir = f.dir
  BY <1>1, <1>2 DEF PathFrames
<1>4. Continue(h, g) /\ UNCHANGED <<files, edata, disk>>
  BY <1>1 DEF Descend, transient
<1>5. mem[h] # None /\ OnFiles /\ OnFiles'
  BY <1>1, <1>2, <1>3, <1>4, WalkOnFiles, WalkWeaves
<1>6. Still
  <2>1. Base' = Base
    BY <1>4 DEF Base
  <2> QED BY <1>4, <1>5, <2>1, InContext, SameObjects, StillIs
<1>7. Clears(g)'
  <2>1. Clears(f)
    BY <1>1, <1>2, WalkStrayed
  <2>2. Clears(g)
    BY <1>3, <2>1 DEF Clears
  <2> QED BY <1>4, <1>6, <2>2, StillStrays
<1>8. AllHeld'
  <2>1. AllHeld
    BY <1>1, <1>2, WalkStrayed DEF AllHeld
  <2> QED BY <1>4, <1>6, <2>1, StillStrays
<1>9. CASE Len(calls[h]) = 1
  <2> DEFINE s == <<g>>
  <2>1. calls' = [calls EXCEPT ![h] = s] /\ Len(s) = 1 /\ s[1] = g /\ s # <<>>
    BY <1>1, <1>2, <1>4, <1>9, InContext, WalkAlone DEF Continue
  <2> HIDE DEF s
  <2>2. WalkStrays(g)'
    BY <1>7, <1>8 DEF WalkStrays, AllHeld
  <2>3. PICK t : t = s
    OBVIOUS
  <2>4. CallStrays(t)'
    BY <1>2, <1>3, <2>1, <2>2, <2>3 DEF CallStrays
  <2> QED BY <1>5, <2>1, <2>3, <2>4, StraysOn
<1>10. CASE Len(calls[h]) # 1
  <2>1. PICK r, u, s : r = calls[h][2] /\ u = calls[h][3] /\ s = <<g>> \o Tail(calls[h])
    OBVIOUS
  <2>2. s # <<>> /\ Len(s) = 3 /\ s[1] = g /\ s[2] = r /\ s[3] = u
    BY <1>1, <1>2, <1>10, <2>1, InContext, WalkNested
  <2>3. NestedStrays(f, r, u)
    BY <1>1, <1>2, <1>10, <2>1, WalkStrayed
  <2>4. \A q \in Path : Filed(q)' => Filed(q)
    BY <1>4, <1>6, StillStrays
  <2>5. NestedStrays(g, r, u)'
    BY <1>3, <1>7, <1>8, <2>3, <2>4 DEF NestedStrays, Left
  <2>6. CallStrays(s)'
    BY <2>2, <2>5 DEF CallStrays
  <2>7. calls' = [calls EXCEPT ![h] = s]
    BY <1>4, <2>1 DEF Continue
  <2> QED BY <1>5, <2>2, <2>6, <2>7, StraysOn
<1> QED BY <1>9, <1>10

LEMMA StoreLeafStrays ==
    ASSUME Context, Unfolds', StrayInv, NEW h \in Handle, StoreLeaf(h)
    PROVE  StrayInv'
<1>1. PICK f, g : f = Top(h) /\ g = Ascend(f, PlaceOf(f.path, f.leaf))
  OBVIOUS
<1>2. /\ Descending(h) /\ AtLeaf(Top(h)) /\ f.op = "store" /\ Continue(h, g)
      /\ files' = [files EXCEPT ![f.path] = f.leaf]
  BY <1>1 DEF StoreLeaf
<1>3. /\ calls[h] # <<>> /\ f \in PathFrames /\ f.path \in Path /\ f.op \in PathOps /\ f.dir = "down"
      /\ OnFiles /\ g.op = f.op /\ g.path = f.path /\ g.dir = "up"
      /\ \A i \in 0..(Len(f.path) - 1) : Wooded(Upto(f.path, i))
  BY <1>1, <1>2, LeafMet
<1>4. Spares(f.path)
  BY <1>1, StoreLeafWeaves
<1>5. f.path \in Node /\ f.path \in Seq(Name) /\ AtOrBelow(f.path, f.path)
  BY <1>3, PathLength, PrefixIs
<1>6. \A q \in Path : Filed(q)' => q = f.path \/ Filed(q)
  BY <1>2, <1>5, InContext, FiledStays
<1>7. Clears(f)
  BY <1>1, <1>3, WalkStrayed
<1>8. Clears(g)'
  BY <1>2, <1>3, <1>6, <1>7 DEF Clears
<1> QED BY <1>1, <1>2, <1>3, <1>4, <1>5, <1>6, <1>8, WalkStraysOn

LEMMA DeleteEntityLeafStrays ==
    ASSUME Context, Unfolds', StrayInv, NEW h \in Handle, DeleteEntityLeaf(h)
    PROVE  StrayInv'
<1>1. PICK f, g : f = Top(h) /\ g = Ascend(f, None)
  OBVIOUS
<1>2. /\ Descending(h) /\ AtLeaf(Top(h)) /\ f.op = "deleteEntity" /\ Continue(h, g)
      /\ files' = IF IsPathRef(SegRef(f)) THEN [files EXCEPT ![f.path] = None] ELSE files
  BY <1>1 DEF DeleteEntityLeaf, FilesWithout, transient
<1>3. /\ calls[h] # <<>> /\ f \in PathFrames /\ f.path \in Path /\ f.op \in PathOps /\ f.dir = "down"
      /\ OnFiles /\ g.op = f.op /\ g.path = f.path /\ g.dir = "up"
      /\ Met(f.path) = {SegRef(f)} \ {None}
      /\ \A i \in 0..(Len(f.path) - 1) : Wooded(Upto(f.path, i))
  BY <1>1, <1>2, LeafMet
<1>4. Spares(f.path)
  BY <1>1, DeleteEntityLeafWeaves
<1>5. f.path \in Node /\ f.path \in Seq(Name)
  BY <1>3, PathLength
<1>6. ~IsEntity(None)
  BY DEF IsEntity, None
<1>7. \A q \in Path : Filed(q)' => Filed(q)
  <2>1. CASE IsPathRef(SegRef(f))
    <3>1. files' = [files EXCEPT ![f.path] = None]
      BY <1>2, <2>1
    <3> QED BY <1>5, <1>6, <3>1, InContext, FiledStays
  <2>2. CASE ~IsPathRef(SegRef(f))
    BY <1>2, <2>2 DEF Filed
  <2> QED BY <2>1, <2>2
<1>8. ~Filed(f.path)'
  <2>1. CASE IsPathRef(SegRef(f))
    <3>1. files'[f.path] = None
      BY <1>2, <1>5, <2>1, InContext DEF IInv, TypeOK
    <3> QED BY <1>6, <3>1 DEF Filed
  <2>2. CASE ~IsPathRef(SegRef(f))
    <3> SUFFICES ASSUME Filed(f.path)
                 PROVE  FALSE
      BY <1>3, <1>7
    <3>1. Held(f.path)
      BY <1>1, <1>2, <1>3, WalkStrayed
    <3> QED BY <1>3, <2>2, <3>1 DEF Held
  <2> QED BY <2>1, <2>2
<1>9. Clears(f)
  BY <1>1, <1>3, WalkStrayed
<1>10. Clears(g)'
  BY <1>2, <1>3, <1>7, <1>8, <1>9 DEF Clears
<1> QED BY <1>1, <1>2, <1>3, <1>4, <1>7, <1>10, WalkStraysOn

(* Below a tree that deleteTree is to remove it is all by path. *)
LEMMA FiledBelow ==
    ASSUME Context, OnFiles, NEW p \in Path, NEW q \in Path, Filed(q), Held(q), AtOrBelow(p, q), q # p
    PROVE  /\ IsTree(files[p]) /\ Held(p) /\ Base = RootRef
           /\ \E n \in TransientNames(files[p]) : AtOrBelow(Append(p, n), q)
           /\ \A i \in 0..(Len(p) - 1) : Wooded(Upto(p, i))
<1>1. p \in Seq(Name) /\ q \in Seq(Name) /\ Len(p) \in Nat /\ Len(q) \in Nat
  BY PathLength
<1>2. Strung(q) /\ \A i \in 0..Len(q) : Held(Upto(q, i))
  BY <1>1, HeldIsStrung
<1>3. /\ IsTree(files[p]) /\ Base = RootRef
      /\ p = Upto(q, Len(p)) /\ Len(p) \in 0..(Len(q) - 1)
      /\ \E n \in TransientNames(files[p]) : AtOrBelow(Append(p, n), q)
  BY <1>1, <1>2, StrungBelow
<1>4. Held(p)
  <2>1. Len(p) \in 0..Len(q)
    BY <1>1, <1>3
  <2> QED BY <1>2, <1>3, <2>1
<1>5. ASSUME NEW i \in 0..(Len(p) - 1)
      PROVE  Wooded(Upto(p, i))
  <2>1. i \in 0..(Len(q) - 1) /\ i \in 0..Len(q) /\ i \in 0..Len(p) /\ Len(p) \in 0..Len(q)
    BY <1>1, <1>3
  <2>2. Upto(p, i) = Upto(q, i)
    <3>1. \A j \in 0..Len(p) : Upto(Upto(q, Len(p)), j) = Upto(q, j)
      BY <1>1, <2>1, PathPrefix
    <3> QED BY <1>3, <2>1, <3>1
  <2>3. Held(Upto(q, i)) /\ IsTree(files[Upto(q, i)])
    BY <1>2, <2>1 DEF Strung, StrungTo
  <2>4. Upto(q, i) \in Node
    <3>1. CASE i = 0
      BY <1>1, <2>1, <3>1, PathPrefix DEF Node
    <3>2. CASE i # 0
      <4>1. i \in 1..Len(q)
        BY <2>1, <3>2
      <4> QED BY <4>1, PrefixIsPath DEF Node
    <3> QED BY <3>1, <3>2
  <2>5. \A r \in Met(Upto(q, i)) : ObjectOf(r) = files[Upto(q, i)]
    BY <2>3, <2>4, HeldObject
  <2> QED BY <2>2, <2>3, <2>5 DEF Wooded
<1> QED BY <1>3, <1>4, <1>5

LEMMA DeleteTreeLeafStrays ==
    ASSUME Context, Unfolds', StrayInv, NEW h \in Handle, DeleteTreeLeaf(h)
    PROVE  StrayInv'
<1>1. PICK f, g, tree : f = Top(h) /\ g = Ascend(f, None) /\ tree = GetTree(h, f.path)
  OBVIOUS
<1>2. /\ Descending(h) /\ AtLeaf(Top(h)) /\ f.op = "deleteTree" /\ UNCHANGED <<files, edata, disk>>
  BY <1>1 DEF DeleteTreeLeaf, transient
<1>3. /\ calls[h] # <<>> /\ f \in PathFrames /\ f.path \in Path /\ f.op \in PathOps /\ f.dir = "down"
      /\ mem[h] # None /\ OnFiles /\ g.op = f.op /\ g.path = f.path /\ g.dir = "up"
      /\ Met(f.path) = {SegRef(f)} \ {None}
      /\ \A i \in 0..(Len(f.path) - 1) : Wooded(Upto(f.path, i))
  BY <1>1, <1>2, LeafMet
<1>4. Spares(f.path)
  BY <1>1, DeleteTreeLeafWeaves
<1>5. \A q \in Path : (Filed(q)' <=> Filed(q)) /\ (Filed(q) => Held(q))
  <2>1. \A q \in Path : Filed(q) => Held(q)
    BY <1>1, <1>2, <1>3, WalkStrayed
  <2> QED BY <1>2, <2>1 DEF Filed
<1>6. ASSUME NEW q \in Path, Filed(q), AtOrBelow(f.path, q)
      PROVE  /\ IsPathRef(SegRef(f)) /\ tree = files[f.path] /\ tree # None
             /\ \E n \in TransientNames(tree) : AtOrBelow(Append(f.path, n), q)
  <2>1. q # f.path
    BY <1>1, <1>2, <1>3, <1>6, WalkStrayed DEF Clears
  <2>2. /\ IsTree(files[f.path]) /\ Held(f.path)
        /\ \E n \in TransientNames(files[f.path]) : AtOrBelow(Append(f.path, n), q)
    BY <1>3, <1>5, <1>6, <2>1, FiledBelow
  <2>3. IsPathRef(SegRef(f))
    BY <1>3, <2>2 DEF Held
  <2>4. tree = files[f.path] /\ tree # None
    BY <1>1, <2>2 DEF GetTree, IsTree, None
  <2> QED BY <2>2, <2>3, <2>4
<1>7. CASE ~(IsPathRef(SegRef(f)) /\ tree # None)
  <2>1. Continue(h, g)
    BY <1>1, <1>7 DEF DeleteTreeLeaf
  <2>2. \A q \in Path : ~(Filed(q)' /\ AtOrBelow(f.path, q))
    BY <1>5, <1>6, <1>7
  <2>3. Clears(g)'
    BY <1>3, <2>2 DEF Clears
  <2> QED BY <1>1, <1>3, <1>4, <1>5, <2>1, <2>3, WalkStraysOn
<1>8. CASE IsPathRef(SegRef(f)) /\ tree # None
  <2> DEFINE v == Visit(f.path, None, tree)
             stack == <<v>>
             search == [op |-> "remove", stack |-> stack]
             s == <<search>> \o <<g>>
  <2>1. /\ calls' = [calls EXCEPT ![h] = <<search>> \o (<<g>> \o Tail(calls[h]))]
    BY <1>1, <1>8 DEF DeleteTreeLeaf
  <2>2. Tail(calls[h]) = <<>>
    BY <1>1, <1>2, <1>3, InContext, WalkNested, WalkAlone
  <2>3. v.path = f.path /\ v.todo = TransientNames(tree)
    BY DEF Visit
  <2> HIDE DEF s, stack, search, v
  <2>4. calls' = [calls EXCEPT ![h] = s]
    <3>1. <<g>> \o <<>> = <<g>>
      OBVIOUS
    <3> QED BY <2>1, <2>2, <3>1 DEF s
  <2>5. s # <<>> /\ Len(s) = 2 /\ s[1] = search /\ s[2] = g
    <3>1. <<g>> \in Seq({g}) /\ Len(<<g>>) = 1 /\ <<g>>[1] = g
      OBVIOUS
    <3>2. /\ s # <<>> /\ Len(s) = Len(<<g>>) + 1
          /\ \A i \in 1..Len(s) : s[i] = IF i = 1 THEN search ELSE <<g>>[i - 1]
      BY <3>1, OnTop DEF s
    <3> QED BY <3>1, <3>2
  <2>6. search.stack = stack /\ Len(stack) = 1 /\ stack[1] = v
    BY DEF search, stack
  <2>7. OnFiles'
    <3>1. Head(s).op # "commit" /\ ~Running(h, "commit")
      BY <1>1, <1>2, OnTop DEF search, s, Running
    <3> QED BY <1>3, <2>4, <3>1, NextOnFiles
  <2>8. AllHeld'
    <3>1. Base' = Base
      BY <1>2 DEF Base
    <3>2. Still
      BY <1>2, <1>3, <2>7, <3>1, InContext, SameObjects, StillIs
    <3> QED BY <1>2, <1>5, <3>2, StillStrays DEF AllHeld
  <2>9. ASSUME NEW q \in Path, Filed(q)', AtOrBelow(g.path, q)
        PROVE  Left(stack, q)
    <3>1. \E n \in TransientNames(tree) : AtOrBelow(Append(f.path, n), q)
      BY <1>3, <1>5, <1>6, <2>9
    <3> QED BY <2>3, <2>6, <3>1 DEF Left
  <2>10. PICK r, t : r = search /\ t = s
    OBVIOUS
  <2>11. SearchStrays(r, g)'
    BY <2>6, <2>8, <2>9, <2>10 DEF SearchStrays, Left
  <2>12. CallStrays(t)'
    BY <2>5, <2>10, <2>11 DEF CallStrays
  <2> QED BY <1>3, <2>4, <2>5, <2>10, <2>12, StraysOn
<1> QED BY <1>7, <1>8

LEMMA StoreTreeOfPathStrays ==
    ASSUME Context, Unfolds', StrayInv, NEW h \in Handle, StoreTreeOfPath(h)
    PROVE  StrayInv'
<1>1. PICK f, ts, g : /\ f = Top(h) /\ ts = Front(f.trees)
                      /\ g = Ascend([f EXCEPT !.trees = ts], SegPlace(f))
  OBVIOUS
<1>2. /\ calls[h] # <<>> /\ f.op \in PathOps /\ f.dir = "up" /\ f.at > 0
      /\ files' = [files EXCEPT ![Upto(f.path, f.at)] = Last(f.trees)]
      /\ Continue(h, g)
  BY <1>1 DEF StoreTreeOfPath, SegPlace, PathRef, PathOps
<1>3. /\ f \in PathFrames /\ f.path \in Path /\ f.path \in Seq(Name) /\ Woven(files, f) /\ OnFiles
  BY <1>1, <1>2, WalkWeaves
<1>4. /\ f.trees \in Seq(Trees(Objects)) /\ Len(f.trees) = f.at + 1 /\ f.trees # <<>>
      /\ f.at \in 1..Len(f.path) /\ f.at \in Nat
  BY <1>2, <1>3, PathLength DEF PathFrames
<1>5. IsTree(Last(f.trees)) /\ ts \in Seq(Trees(Objects)) /\ Len(ts) = f.at
  <2>1. Last(f.trees) \in Trees(Objects) /\ ts \in Seq(Trees(Objects)) /\ Len(ts) = Len(f.trees) - 1
    BY <1>1, <1>4, Ends
  <2> QED BY <1>4, <2>1 DEF Trees, IsTree
<1>6. g.op = f.op /\ g.path = f.path /\ g.dir = "up"
  BY <1>1, <1>3, <1>4, <1>5, AscendTrees
<1>7. \A q \in Path : Filed(q)' => Filed(q)
  <2>1. Upto(f.path, f.at) \in Node /\ ~IsEntity(Last(f.trees))
    BY <1>3, <1>4, <1>5, PrefixIsPath DEF Node, IsTree, IsEntity
  <2> QED BY <1>2, <2>1, InContext, FiledStays
<1>8. Clears(g)'
  <2>1. Clears(f)
    BY <1>1, <1>2, WalkStrayed
  <2> QED BY <1>2, <1>6, <1>7, <2>1 DEF Clears
<1>9. Spares(f.path) /\ \A i \in 0..(Len(f.path) - 1) : Wooded(Upto(f.path, i))
  BY <1>1, <1>2, <1>3, StoreTreeOfPathWeaves, WalkWooded
<1> QED BY <1>1, <1>2, <1>3, <1>6, <1>7, <1>8, <1>9, WalkStraysOn

LEMMA StoreRootStrays ==
    ASSUME Context, Unfolds', StrayInv, NEW h \in Handle, StoreRoot(h)
    PROVE  StrayInv'
<1>1. PICK f, g : f = Top(h) /\ g = [f EXCEPT !.dir = "save"]
  OBVIOUS
<1>2. /\ calls[h] # <<>> /\ f.op \in PathOps /\ (f.dir = "root" \/ (f.dir = "up" /\ f.at = 0))
      /\ files' = [files EXCEPT ![Root] = Last(f.trees)] /\ Continue(h, g)
  BY <1>1 DEF StoreRoot, PathOps
<1>3. /\ f \in PathFrames /\ f.path \in Path /\ Woven(files, f) /\ OnFiles
  BY <1>1, <1>2, WalkWeaves
<1>4. f.dir = "up" /\ g.op = f.op /\ g.path = f.path /\ g.dir = "save"
  BY <1>1, <1>2, <1>3 DEF Woven, PathFrames
<1>5. \A q \in Path : Filed(q)' => Filed(q)
  BY <1>2, PathLength, InContext DEF Filed, IInv, TypeOK
<1>6. Clears(g)'
  <2>1. Clears(f)
    BY <1>1, <1>2, WalkStrayed
  <2> QED BY <1>4, <1>5, <2>1 DEF Clears
<1>7. Spares(f.path) /\ \A i \in 0..(Len(f.path) - 1) : Wooded(Upto(f.path, i))
  BY <1>1, <1>3, <1>4, StoreRootWeaves, WalkWooded
<1> QED BY <1>1, <1>2, <1>3, <1>4, <1>5, <1>6, <1>7, WalkStraysOn

-----------------------------------------------------------------------------
(* A walk returns.  From a trail that leads to what it has stored one      *)
(* meets it.                                                               *)
TrailsMeet == \A p \in Path : \A ref : Quiet /\ Trail(p, ref) => Met(p) = {ref} \ {None}

LEMMA TrailsAreMet == IInv => TrailsMeet
<1> SUFFICES ASSUME IInv, NEW p \in Path, NEW ref, Quiet, Trail(p, ref)
             PROVE  Met(p) = {ref} \ {None}
  BY DEF TrailsMeet
<1>1. p \in Seq(Name) /\ AtOrBelow(p, p)
  BY PathLength, PrefixIs
<1>2. RefsBelow(RootRef, p) = {ref}
  BY <1>1, Followed DEF IInv
<1>3. Base = RootRef
  BY DEF Quiet, Base, None
<1> QED BY <1>2, <1>3 DEF Met

LEMMA SaveStrays ==
    ASSUME Context, Unfolds', TrailsMeet', LeadInv, Alone', StrayInv, NEW h \in Handle, SaveWorkspace(h)
    PROVE  StrayInv'
<1>1. PICK f, s : f = Top(h) /\ s = Tail(calls[h])
  OBVIOUS
<1>2. /\ calls[h] # <<>> /\ f.op \in PathOps /\ f.dir = "save"
      /\ calls' = [calls EXCEPT ![h] = s] /\ UNCHANGED <<files, edata, mem>>
  BY <1>1 DEF SaveWorkspace, Return, transient, PathOps
<1>3. /\ f \in PathFrames /\ f.path \in Path /\ f.path \in Seq(Name) /\ Woven(files, f) /\ OnFiles
      /\ mem[h] # None
  BY <1>1, <1>2, WalkWeaves
<1>4. Spares(f.path) /\ \A i \in 0..(Len(f.path) - 1) : Wooded(Upto(f.path, i))
  BY <1>1, <1>2, <1>3, SaveWeaves, WalkWooded
<1>5. \A q \in Path : Filed(q)' <=> Filed(q)
  BY <1>2 DEF Filed
<1>6. \A q \in Path : Filed(q) /\ AtOrBelow(f.path, q) => f.op = "store" /\ q = f.path
  BY <1>1, <1>2, WalkStrayed DEF Clears
<1>7. ASSUME NEW q \in Path, Filed(q), ~AtOrBelow(f.path, q)
      PROVE  Held(q)'
  <2>1. AtOrBelow(f.path, f.path)
    BY <1>3, PrefixIs
  <2>2. Held(q)
    BY <1>1, <1>2, <1>7, <2>1, WalkStrayed
  <2> QED BY <1>3, <1>4, <1>7, <2>2, HeldStays
<1>8. CASE Len(calls[h]) = 1
  <2>1. s = <<>>
    BY <1>1, <1>2, <1>8, InContext, WalkAlone
  <2>2. PICK p : p = f.path
    OBVIOUS
  <2>3. f.op = "store" => Held(p)'
    <3> SUFFICES ASSUME f.op = "store"
                 PROVE  Held(p)'
      OBVIOUS
    <3>1. Returns(h) /\ Call(h) = f
      <4>1. Call(h) = calls[h][1]
        BY <1>8 DEF Call, Last
      <4>2. Top(h) = calls[h][1]
        BY <1>2, <1>8, InContext, ClientWalk
      <4> QED BY <1>1, <1>8, <4>1, <4>2 DEF Returns
    <3>2. Quiet' /\ Trail(p, PathRef(p, FALSE))' /\ p \in Path
      BY <1>3, <2>2, <3>1, InContext, ReturnLeaves
    <3>3. Met(p)' = {PathRef(p, FALSE)} \ {None}
      BY <3>2 DEF TrailsMeet
    <3>4. PathRef(p, FALSE) # None /\ IsPathRef(PathRef(p, FALSE))
      BY DEF PathRef, None, IsPathRef
    <3> QED BY <3>3, <3>4 DEF Held
  <2>4. AllHeld'
    BY <1>5, <1>6, <1>7, <2>2, <2>3 DEF AllHeld
  <2> QED BY <1>2, <1>3, <2>1, <2>4, StraysOn
<1>9. CASE Len(calls[h]) # 1
  <2>1. PICK r, u : r = calls[h][2] /\ u = calls[h][3]
    OBVIOUS
  <2>2. Len(s) = 2 /\ s[1] = r /\ s[2] = u /\ s # <<>> /\ f.op = "deleteEntity"
    BY <1>1, <1>2, <1>9, <2>1, InContext, WalkNested
  <2>3. NestedStrays(f, r, u)
    BY <1>1, <1>2, <1>9, <2>1, WalkStrayed
  <2>4. AllHeld'
    BY <1>5, <1>6, <1>7, <2>2 DEF AllHeld
  <2>5. SearchStrays(r, u)'
    BY <1>2, <1>5, <2>3, <2>4 DEF NestedStrays, SearchStrays, Left
  <2>6. CallStrays(s)'
    BY <2>2, <2>5 DEF CallStrays
  <2> QED BY <1>2, <1>3, <2>2, <2>6, StraysOn
<1> QED BY <1>8, <1>9

(* A step of a walk. *)
LEMMA PathStepStrays ==
    ASSUME Context, Unfolds', TrailsMeet', LeadInv, Undisturbed, StrayInv, NEW h \in Handle, PathStep(h)
    PROVE  333 \in failed' \/ StrayInv'
<1>1. CASE BlockedBelowEntity(h)
  <2>1. Len(calls[h]) > 1
    BY <1>1 DEF Undisturbed
  <2>2. Len(calls[h]) # 1
    <3>1. calls[h] \in Seq(Frames)
      BY InContext DEF IInv, TypeOK
    <3>2. Len(calls[h]) \in Nat
      BY <3>1
    <3>3. ASSUME Len(calls[h]) = 1
          PROVE  FALSE
      BY ONLY <2>1, <3>2, <3>3
    <3> QED BY <3>3
  <2> QED BY <1>1, <2>2, NeverBlocked
<1>2. CASE SegUntracked(h)
  BY <1>2 DEF SegUntracked, Abort
<1>3. Alone'
  BY DEF Undisturbed
<1> QED BY <1>1, <1>2, <1>3, DescendStrays, StoreLeafStrays, DeleteEntityLeafStrays, DeleteTreeLeafStrays,
           StoreTreeOfPathStrays, StoreRootStrays, SaveStrays DEF PathStep

-----------------------------------------------------------------------------
(* The steps of a search.                                                  *)

(* A search finds what is filed where it turns, and the way to what is     *)
(* filed below.                                                            *)
LEMMA FindsFiled ==
    ASSUME Context, OnFiles, NEW h \in Handle, NEW p \in Seq(Name), p # Root,
           NEW q \in Path, Filed(q), Held(q), AtOrBelow(p, q)
    PROVE  /\ p \in Path /\ Found(h, p) = files[p] /\ Found(h, p) # None
           /\ q = p => IsEntity(Found(h, p)) /\ ~IsTree(Found(h, p))
           /\ q # p => /\ IsTree(Found(h, p)) /\ ~IsEntity(Found(h, p))
                       /\ \E n \in TransientNames(Found(h, p)) : AtOrBelow(Append(p, n), q)
<1>1. q \in Seq(Name) /\ Len(q) \in Nat /\ Len(p) \in Nat \ {0}
  <2>1. Len(p) # 0
    BY EmptySeq DEF Root
  <2> QED BY <2>1, PathLength
<1>2. p \in Path
  <2>1. Len(p) <= Len(q) /\ SubSeq(p, 1, Len(p)) = SubSeq(q, 1, Len(p)) /\ SubSeq(p, 1, Len(p)) = p
    BY <1>1 DEF AtOrBelow, IsPrefix
  <2>2. Len(p) \in 1..Len(q) /\ p = Upto(q, Len(p))
    BY <1>1, <2>1 DEF Upto
  <2> QED BY <2>2, PrefixIsPath
<1>3. CASE q = p
  <2>1. files[p] # None /\ IsEntity(files[p]) /\ ~IsTree(files[p])
    BY <1>3 DEF Filed, IsEntity, IsTree, None
  <2> QED BY <1>2, <1>3, <2>1 DEF Found, File, Node
<1>4. CASE q # p
  <2>1. IsTree(files[p]) /\ \E n \in TransientNames(files[p]) : AtOrBelow(Append(p, n), q)
    BY <1>2, <1>4, FiledBelow
  <2>2. files[p] # None /\ ~IsEntity(files[p])
    BY <2>1 DEF IsEntity, IsTree, None
  <2> QED BY <1>2, <1>4, <2>1, <2>2 DEF Found, File, Node
<1> QED BY <1>3, <1>4

(* What is filed while a search goes on. *)
LEMMA SearchStrayed ==
    ASSUME Context, StrayInv, NEW h \in Handle, Running(h, "remove")
    PROVE  SearchStrays(Top(h), calls[h][2])
<1>1. calls[h] # <<>> /\ Top(h).op = "remove" /\ calls[h] \in Seq(Frames)
  BY InContext DEF Running, IInv, TypeOK
<1>2. Top(h) = calls[h][1]
  BY <1>1, BelowTop DEF Top
<1>3. Len(calls[h]) = 2
  <2>1. Tail(calls[h]) # <<>> /\ Len(Tail(calls[h])) = 1
    BY InContext, SearchFrames
  <2>2. Len(Tail(calls[h])) = Len(calls[h]) - 1 /\ Len(calls[h]) \in Nat
    BY <1>1, BelowTop
  <2> QED BY <2>1, <2>2
<1>4. CallStrays(calls[h])
  BY <1>1 DEF StrayInv
<1> QED BY <1>1, <1>2, <1>3, <1>4 DEF CallStrays

LEMMA RemoveChildStrays ==
    ASSUME Context, Unfolds', StrayInv, NEW h \in Handle, NEW n \in Name, RemoveChild(h, n)
    PROVE  StrayInv'
<1>1. PICK f, u, top, p, next, obj, t :
         /\ f = Top(h) /\ u = calls[h][2] /\ top = Last(f.stack) /\ p = Append(top.path, n)
         /\ next = PassTo(f, n) /\ obj = Found(h, p) /\ t = next.stack
  OBVIOUS
<1>2. Running(h, "remove") /\ f.stack # <<>> /\ n \in top.todo /\ UNCHANGED <<files, edata, disk>>
  BY <1>1 DEF RemoveChild, Removing, transient
<1>3. /\ mem[h] # None /\ Searched(f.stack) /\ OnFiles /\ u.path \in Path
      /\ f \in RemoveFrames /\ f.stack \in Seq(Visits) /\ f.op = "remove"
      /\ top \in Visits /\ top.path \in Seq(Name)
  BY <1>1, <1>2, SearchWeaves DEF Running
<1>4. t \in Seq(Visits) /\ next = [f EXCEPT !.stack = t] /\ next.op = "remove"
  <2>1. LET g == PassTo(f, n)
        IN  g = [f EXCEPT !.stack = g.stack] /\ g.op = f.op /\ g.stack \in Seq(Visits)
    BY <1>2, <1>3, Passing
  <2> QED BY <1>1, <1>3, <2>1
<1>5. p \in Seq(Name) /\ p # Root
  <2>1. p \in Seq(Name) /\ Len(p) = Len(top.path) + 1 /\ Len(top.path) \in Nat
    BY <1>1, <1>3
  <2>2. Len(p) # 0
    BY <2>1
  <2> QED BY <2>1, <2>2 DEF Root
<1>6. AllHeld /\ \A q \in Path : Filed(q) /\ AtOrBelow(u.path, q) => Left(f.stack, q)
  BY <1>1, <1>2, SearchStrayed DEF SearchStrays
<1>7. ASSUME NEW q \in Path, Filed(q), AtOrBelow(p, q)
      PROVE  /\ obj # None
             /\ q = p => IsEntity(obj) /\ ~IsTree(obj)
             /\ q # p => /\ IsTree(obj) /\ ~IsEntity(obj)
                         /\ \E m \in TransientNames(obj) : AtOrBelow(Append(p, m), q)
  BY <1>1, <1>3, <1>5, <1>6, <1>7, FindsFiled DEF AllHeld
<1>8. ASSUME NEW q \in Path, Filed(q), AtOrBelow(u.path, q)
      PROVE  Left(t, q) \/ AtOrBelow(p, q)
  <2>1. Left(f.stack, q) /\ f \in RemoveFrames \union CommitFrames
    BY <1>3, <1>6, <1>8
  <2>2. Left(PassTo(f, n).stack, q) \/ AtOrBelow(Append(Last(f.stack).path, n), q)
    BY <1>2, <1>3, <2>1, LeftOn
  <2> QED BY <1>1, <2>2
<1>9. CASE IsEntity(obj)
  <2>1. PICK g, y, s : /\ g = PathCall("deleteEntity", p, None, RootTree(mem[h]))
                       /\ y = <<next>> \o Tail(calls[h]) /\ s = <<g>> \o y
    OBVIOUS
  <2>2. calls' = [calls EXCEPT ![h] = s]
    BY <1>1, <1>9, <2>1 DEF RemoveChild, EnterPath
  <2>3. s # <<>> /\ Len(s) = 3 /\ s[1] = g /\ s[2] = next /\ s[3] = u /\ Head(s) = g
    <3>1. y \in Seq(Frames \union {next}) /\ Len(y) = 2 /\ y[1] = next /\ y[2] = u
      BY <1>1, <1>2, <2>1, InContext, SearchFrames
    <3> QED BY <2>1, <3>1, OnTop
  <2>4. g.op = "deleteEntity" /\ g.path = p /\ g.dir = "down"
    BY <2>1 DEF PathCall
  <2>5. Still
    BY <1>2, <2>2, <2>3, <2>4, SearchStill
  <2>6. AllHeld' /\ \A q \in Path : Filed(q)' <=> Filed(q)
    BY <1>2, <1>6, <2>5, StillStrays
  <2>7. \A q \in Path : Filed(q) /\ AtOrBelow(p, q) => q = p
    BY <1>7, <1>9
  <2>8. Clears(g)'
    BY <2>4, <2>6, <2>7 DEF Clears
  <2>9. NestedStrays(g, next, u)'
    BY <1>1, <1>8, <2>4, <2>6, <2>7, <2>8 DEF NestedStrays, Left
  <2>10. CallStrays(s)'
    BY <2>3, <2>9 DEF CallStrays
  <2> QED BY <1>3, <2>2, <2>3, <2>10, StraysOn
<1>10. CASE ~IsEntity(obj)
  <2>1. PICK ref, v, x, stack :
           /\ ref = top.tree.refs[n] /\ v = Visit(p, ref, obj)
           /\ x = (IF obj = None THEN next ELSE Deeper(next, p, ref, obj))
           /\ stack = (IF obj = None THEN t ELSE Append(t, v))
    OBVIOUS
  <2>2. Continue(h, x)
    BY <1>1, <1>10, <2>1 DEF RemoveChild
  <2>3. x.op = "remove" /\ x.stack = stack
    <3>1. next \in [op : {"remove"}, stack : Seq(Visits)]
      BY <1>3, <1>4 DEF RemoveFrames
    <3> QED BY <1>1, <1>4, <2>1, <3>1 DEF Deeper
  <2>4. ASSUME NEW q \in Path, Filed(q), AtOrBelow(u.path, q)
        PROVE  Left(stack, q)
    <3>1. CASE obj = None
      BY <1>7, <1>8, <2>1, <2>4, <3>1
    <3>2. CASE obj # None
      <4>1. Left(t, q) \/ \E m \in TransientNames(obj) : AtOrBelow(Append(p, m), q)
        BY <1>7, <1>8, <1>10, <2>4
      <4> QED BY <1>4, <2>1, <3>2, <4>1, LeftDeeper
    <3> QED BY <3>1, <3>2
  <2>5. PICK s : s = <<x>> \o Tail(calls[h])
    OBVIOUS
  <2>6. calls' = [calls EXCEPT ![h] = s] /\ Head(s) = x /\ s # <<>> /\ Len(s) = 2 /\ s[1] = x /\ s[2] = u
    <3>1. s \in Seq(Frames \union {x}) /\ s # <<>> /\ s[1] = x /\ Len(s) = 2 /\ s[2] = u
      BY Zenon, <1>1, <1>2, <2>5, InContext, SearchFrames
    <3>2. Head(s) = s[1]
      BY <3>1, BelowTop
    <3> QED BY <2>2, <2>5, <3>1, <3>2 DEF Continue
  <2>7. Still
    BY <1>2, <2>3, <2>6, SearchStill
  <2>8. AllHeld' /\ \A q \in Path : Filed(q)' <=> Filed(q)
    BY <1>2, <1>6, <2>7, StillStrays
  <2>9. SearchStrays(x, u)'
    BY <2>3, <2>4, <2>8 DEF SearchStrays, Left
  <2>10. CallStrays(s)'
    BY <2>6, <2>9 DEF CallStrays
  <2> QED BY <1>3, <2>6, <2>10, StraysOn
<1> QED BY <1>9, <1>10

LEMMA RemoveTreeStrays ==
    ASSUME Context, Unfolds', StrayInv, NEW h \in Handle, RemoveTree(h)
    PROVE  StrayInv'
<1>1. PICK f, u, p, stack, z, rest, x :
         /\ f = Top(h) /\ u = calls[h][2] /\ p = u.path /\ stack = f.stack /\ z = Last(stack).path
         /\ rest = Front(stack) /\ x = [f EXCEPT !.stack = Front(@)]
  OBVIOUS
<1>2. Running(h, "remove") /\ f.stack # <<>> /\ Continue(h, x) /\ Last(stack).todo = {}
      /\ files' = [files EXCEPT ![z] = None]
  BY <1>1 DEF RemoveTree, Removing, FilesWithout
<1>3. /\ mem[h] # None /\ Searched(stack) /\ Woven(files, u) /\ OnFiles /\ Call(h) = u
      /\ u \in PathFrames /\ u.dir = "up" /\ p \in Path /\ p \in Seq(Name)
      /\ f \in RemoveFrames /\ f.op = "remove" /\ stack \in Seq(Visits) /\ Chain(stack, p)
      /\ z \in Path /\ z \in Seq(Name) /\ stack # <<>> /\ z \in Node
  BY <1>1, <1>2, SearchWeaves DEF Running, Node
<1>4. x.op = "remove" /\ x.stack = rest /\ rest \in Seq(Visits)
  <2>1. rest \in Seq(Visits)
    BY <1>1, <1>3, Ends
  <2> QED BY <1>1, <1>3, <2>1 DEF RemoveFrames
<1>5. Spares(z) /\ AtOrBelow(p, z)
  BY <1>1, <1>3, RemoveTreeWeaves
<1>6. /\ Chain(rest, p) /\ Len(rest) = Len(stack) - 1 /\ Len(stack) \in Nat \ {0}
      /\ \A k \in 1..(Len(stack) - 1) : rest[k] = stack[k]
      /\ rest # <<>> => Last(rest) = stack[Len(stack) - 1] /\ Last(rest).path \in Seq(Name)
  <2>1. Last(stack).path \in Seq(Name)
    BY <1>1, <1>3
  <2> QED BY <1>1, <1>3, <2>1, ChainShrinks, Ends
<1>7. /\ \A k \in 1..Len(stack) : k < Len(stack) => TurnedTo(stack[k], stack[k + 1].path)
      /\ \A k \in 1..Len(stack) : Wooded(stack[k].path)
  BY <1>3 DEF Searched
<1>8. \A k \in 1..Len(rest) : k < Len(rest) => TurnedTo(rest[k], rest[k + 1].path)
  <2> SUFFICES ASSUME NEW k \in 1..Len(rest), k < Len(rest)
               PROVE  TurnedTo(rest[k], rest[k + 1].path)
    OBVIOUS
  <2>1. k \in 1..(Len(stack) - 1) /\ k + 1 \in 1..(Len(stack) - 1) /\ k \in 1..Len(stack) /\ k < Len(stack)
    BY <1>6
  <2> QED BY <1>6, <1>7, <2>1
<1>9. rest # <<>> => TurnedTo(Last(rest), z)
  <2> SUFFICES ASSUME rest # <<>>
               PROVE  TurnedTo(Last(rest), z)
    OBVIOUS
  <2>1. PICK l : l = Len(stack)
    OBVIOUS
  <2>2. l \in Nat /\ l - 1 # 0 /\ l - 1 \in 1..l /\ l - 1 < l /\ l - 1 + 1 = l
    <3>1. Len(rest) # 0
      BY <1>4, EmptySeq
    <3> QED BY <1>6, <2>1, <3>1
  <2>3. TurnedTo(stack[l - 1], stack[l - 1 + 1].path)
    BY <1>7, <2>1, <2>2
  <2> QED BY <1>1, <1>6, <2>1, <2>2, <2>3 DEF Last
<1>10. ASSUME NEW i \in 0..(Len(z) - 1)
       PROVE  Wooded(Upto(z, i))
  <2>1. CASE rest # <<>>
    <3>1. Searched(rest)
      <4> SUFFICES ASSUME NEW k \in 1..Len(rest)
                   PROVE  /\ Wooded(rest[k].path)
                          /\ \A m \in rest[k].todo : \A r \in Met(Append(rest[k].path, m)) : IsPathRef(r)
        BY <1>8 DEF Searched
      <4>1. k \in 1..Len(stack) /\ rest[k] = stack[k]
        BY <1>6
      <4> QED BY <1>3, <4>1 DEF Searched
    <3>2. \A j \in 0..(Len(z) - 1) : Wooded(Upto(z, j))
      BY <1>1, <1>3, <1>4, <1>6, <1>9, <2>1, <3>1, WayIsWooded
    <3> QED BY <3>2
  <2>2. CASE rest = <<>>
    <3>1. Len(stack) = 1
      BY <1>6, <2>2
    <3>2. z = p
      BY <1>1, <1>3, <3>1 DEF Chain, Last
    <3>3. \A j \in 0..(Len(p) - 1) : Wooded(Upto(p, j))
      BY <1>1, <1>3, WalkWooded
    <3> QED BY <3>2, <3>3
  <2> QED BY <2>1, <2>2
<1>11. AllHeld /\ \A q \in Path : Filed(q) /\ AtOrBelow(p, q) => Left(stack, q)
  BY <1>1, <1>2, SearchStrayed DEF SearchStrays
<1>12. \A q \in Path : Filed(q) /\ AtOrBelow(p, q) => Left(rest, q)
  BY <1>1, <1>2, <1>3, <1>11, LeftBelow
<1>13. ASSUME NEW q \in Path, Filed(q), AtOrBelow(z, q)
       PROVE  FALSE
  <2>1. AtOrBelow(p, q)
    <3>1. q \in Seq(Name) /\ Len(p) \in Nat /\ Len(z) \in Nat /\ Len(q) \in Nat
      BY <1>3, PathLength
    <3>2. Len(p) <= Len(z) /\ (\A i \in 1..Len(p) : p[i] = z[i])
          /\ Len(z) <= Len(q) /\ (\A i \in 1..Len(z) : z[i] = q[i])
      BY <1>3, <1>5, <1>13, <3>1, PrefixIs
    <3>3. Len(p) <= Len(q) /\ \A i \in 1..Len(p) : p[i] = q[i]
      BY <3>1, <3>2
    <3> QED BY <1>3, <3>1, <3>3, PrefixIs
  <2>2. ~Left(rest, q)
    BY <1>3, <1>4, <1>6, <1>8, <1>9, <1>13, NeverLeft
  <2> QED BY <1>12, <1>13, <2>1, <2>2
<1>14. \A q \in Path : Filed(q)' => Filed(q)
  <2>1. ~IsEntity(None)
    BY DEF IsEntity, None
  <2> QED BY <1>2, <1>3, <2>1, InContext, FiledStays
<1>15. AllHeld'
  <2> SUFFICES ASSUME NEW q \in Path, Filed(q)'
               PROVE  Held(q)'
    BY DEF AllHeld
  <2>1. Filed(q) /\ ~AtOrBelow(z, q)
    BY <1>13, <1>14
  <2>2. Held(q)
    BY <1>11, <2>1 DEF AllHeld
  <2> QED BY <1>3, <1>5, <1>10, <2>1, <2>2, HeldStays
<1>16. PICK s : s = <<x>> \o Tail(calls[h])
  OBVIOUS
<1>17. calls' = [calls EXCEPT ![h] = s] /\ s # <<>> /\ Len(s) = 2 /\ s[1] = x /\ s[2] = u
  BY <1>1, <1>2, <1>16, InContext, SearchFrames DEF Continue
<1>18. SearchStrays(x, u)'
  BY <1>1, <1>4, <1>12, <1>14, <1>15 DEF SearchStrays, Left
<1>19. CallStrays(s)'
  BY <1>17, <1>18 DEF CallStrays
<1> QED BY <1>3, <1>17, <1>19, StraysOn

LEMMA RemoveEndsStrays ==
    ASSUME Context, Unfolds', StrayInv, NEW h \in Handle, RemoveEnds(h)
    PROVE  StrayInv'
<1>1. PICK f, u, s : f = Top(h) /\ u = calls[h][2] /\ s = Tail(calls[h])
  OBVIOUS
<1>2. Running(h, "remove") /\ f.stack = <<>> /\ UNCHANGED <<files, edata, disk>>
      /\ calls' = [calls EXCEPT ![h] = s]
  BY <1>1 DEF RemoveEnds, Return, transient
<1>3. calls[h] # <<>> /\ mem[h] # None /\ u.op \in PathOps /\ u.dir = "up"
  BY <1>1, <1>2, SearchWeaves
<1>4. s # <<>> /\ Len(s) = 1 /\ s[1] = u
  BY <1>1, <1>2, InContext, SearchFrames
<1>5. Head(s).op # "commit" /\ u.op # "commit"
  <2>1. calls[h] \in Seq(Frames)
    BY InContext DEF IInv, TypeOK
  <2>2. s \in Seq(Frames)
    BY <1>1, <1>3, <2>1, Ends
  <2>3. Head(s) = u
    BY <1>4, <2>2, BelowTop
  <2> QED BY <1>3, <2>3 DEF PathOps
<1>6. Still
  BY <1>2, <1>5, SearchStill
<1>7. AllHeld /\ \A q \in Path : Filed(q) /\ AtOrBelow(u.path, q) => Left(f.stack, q)
  BY <1>1, <1>2, SearchStrayed DEF SearchStrays
<1>8. \A q \in Path : ~Left(f.stack, q)
  BY <1>2 DEF Left
<1>9. AllHeld' /\ \A q \in Path : Filed(q)' <=> Filed(q)
  BY <1>2, <1>6, <1>7, StillStrays
<1>10. Clears(u)'
  BY <1>7, <1>8, <1>9 DEF Clears
<1>11. WalkStrays(u)'
  BY <1>9, <1>10 DEF WalkStrays, AllHeld
<1>12. CallStrays(s)'
  BY <1>4, <1>5, <1>11 DEF CallStrays
<1> QED BY <1>2, <1>3, <1>4, <1>12, StraysOn

LEMMA RemoveStepStrays ==
    ASSUME Context, Unfolds', StrayInv, NEW h \in Handle, RemoveStep(h)
    PROVE  StrayInv'
BY RemoveChildStrays, RemoveTreeStrays, RemoveEndsStrays DEF RemoveStep

-----------------------------------------------------------------------------
(* What clients do between the steps of calls.                             *)

LEMMA RestHeld ==
    ASSUME Context, StrayInv, \A g \in Handle : calls[g] = <<>>
    PROVE  AllHeld /\ OnFiles
<1>1. AllHeld
  BY DEF StrayInv
<1>2. \A g \in Handle : ~Running(g, "commit")
  BY DEF Running
<1> QED BY <1>1, <1>2 DEF OnFiles, Present

LEMMA NoneRuns ==
    ASSUME \A g \in Handle : calls'[g] = <<>>
    PROVE  OnFiles'
<1>1. \A g \in Handle : ~Running(g, "commit")'
  BY DEF Running
<1> QED BY <1>1 DEF OnFiles, Present, File

(* No call begins. *)
LEMMA RestStrays ==
    ASSUME Context, Unfolds', StrayInv, \A g \in Handle : calls[g] = <<>>, UNCHANGED <<files, calls>>,
           Base' = Base
    PROVE  StrayInv'
<1>1. AllHeld /\ OnFiles
  BY RestHeld
<1>2. \A g \in Handle : calls'[g] = <<>>
  OBVIOUS
<1>3. OnFiles'
  BY <1>2, NoneRuns
<1>4. Still
  BY <1>1, <1>3, InContext, SameObjects, StillIs
<1>5. AllHeld'
  BY <1>1, <1>4, StillStrays
<1> QED BY <1>2, <1>5 DEF StrayInv

(* A call begins. *)
LEMMA EnterStrays ==
    ASSUME Context, Unfolds', StrayInv, NEW h \in Handle, Idle(h), NEW op \in PathOps, NEW p \in Path,
           NEW leaf, EnterPath(h, op, p, leaf, <<>>), UNCHANGED <<files, edata, disk>>,
           \A q \in Path : Filed(q) /\ AtOrBelow(p, q) => (op = "deleteTree" <=> q # p)
    PROVE  StrayInv'
<1>1. PICK g, s : g = PathCall(op, p, leaf, RootTree(mem[h])) /\ s = <<g>>
  OBVIOUS
<1>2. mem[h] # None /\ calls[h] = <<>>
  BY DEF Idle
<1>3. calls' = [calls EXCEPT ![h] = s]
  <2>1. <<g>> \o <<>> = <<g>>
    OBVIOUS
  <2> QED BY <1>1, <2>1 DEF EnterPath
<1>4. Len(s) = 1 /\ s[1] = g /\ Head(s) = g /\ s # <<>>
  BY <1>1
<1>5. g.op # "commit" /\ g.op = op /\ g.path = p /\ g.dir = "down"
  BY <1>1 DEF PathCall, PathOps
<1>6. \A k \in Handle : calls[k] = <<>>
  BY <1>2, InContext, Others
<1>7. AllHeld /\ OnFiles
  BY <1>6, RestHeld
<1>8. OnFiles'
  <2>1. ~Running(h, "commit")
    BY <1>2 DEF Running
  <2> QED BY <1>2, <1>3, <1>4, <1>5, <2>1, NextOnFiles
<1>9. Still
  <2>1. Base' = Base
    BY DEF Base
  <2> QED BY <1>7, <1>8, <2>1, InContext, SameObjects, StillIs
<1>10. AllHeld' /\ \A q \in Path : Filed(q)' <=> Filed(q)
  BY <1>7, <1>9, StillStrays
<1>11. Clears(g)'
  BY <1>5, <1>10 DEF Clears
<1>12. WalkStrays(g)'
  BY <1>10, <1>11 DEF WalkStrays, AllHeld
<1>13. CallStrays(s)'
  BY <1>4, <1>5, <1>12 DEF CallStrays
<1> QED BY <1>2, <1>3, <1>4, <1>13, StraysOn

(* What callers that look find at a path where something is filed. *)
LEMMA LooksFind ==
    ASSUME Context, StrayInv, NEW h \in Handle, Idle(h), NEW p \in Path, NEW q \in Path, Filed(q),
           AtOrBelow(p, q)
    PROVE  IF q = p THEN GetEntity(h, p) # None
           ELSE GetEntity(h, p) = None /\ GetTree(h, p) # None
<1>1. mem[h] # None /\ calls[h] = <<>> /\ disk # None /\ mem[h] = disk
  BY InContext DEF Idle, ChildInv
<1>2. \A k \in Handle : calls[k] = <<>>
  BY <1>1, InContext, Others
<1>3. AllHeld /\ OnFiles
  BY <1>2, RestHeld
<1>4. CASE q = p
  <2>1. IsEntity(files[p]) /\ files[p] # None
    BY <1>4 DEF Filed, IsEntity, None
  <2> QED BY <1>4, <2>1 DEF GetEntity
<1>5. CASE q # p
  <2>1. /\ IsTree(files[p]) /\ Held(p) /\ \A i \in 0..(Len(p) - 1) : Wooded(Upto(p, i))
    BY <1>3, <1>5, FiledBelow DEF AllHeld
  <2>2. mem[h].root = Base
    BY <1>1 DEF Base
  <2>3. Met(p) = {RefForPath(h, p)} \ {None}
    BY <1>1, <1>3, <2>1, <2>2, InContext, RefIsMet
  <2>4. ~IsIdRef(RefForPath(h, p))
    BY <2>1, <2>3 DEF Held, IsIdRef, IsPathRef
  <2>5. files[p] # None /\ ~IsEntity(files[p])
    BY <2>1 DEF IsEntity, IsTree, None
  <2> QED BY <1>5, <2>1, <2>4, <2>5 DEF GetEntity, GetTree
<1> QED BY <1>4, <1>5

(* A commit finds by path all that is filed. *)
LEMMA BeginCommitStrays ==
    ASSUME Context, Unfolds', StrayInv, NEW h \in Handle, BeginCommit(h)
    PROVE  StrayInv'
<1>1. PICK v, f : /\ v = Visit(Root, None, TreeOf(mem[h].root))
                  /\ f = [op |-> "commit", stack |-> IF mem[h].root = None THEN <<>> ELSE <<v>>,
                          cur |-> None, done |-> {}, made |-> 0]
  OBVIOUS
<1>2. PICK s : s = <<f>>
  OBVIOUS
<1>3. Idle(h) /\ mem[h] # None /\ calls[h] = <<>> /\ calls' = [calls EXCEPT ![h] = s]
      /\ UNCHANGED <<files, disk>>
  BY <1>1, <1>2 DEF BeginCommit, Idle, transient
<1>4. s # <<>> /\ s[1] = f /\ f.op = "commit"
  BY <1>1, <1>2
<1>5. \A k \in Handle : calls[k] = <<>>
  BY <1>3, InContext, Others
<1>6. AllHeld /\ OnFiles
  BY <1>5, RestHeld
<1>7. mem[h].root = Base /\ Base' = Base
  BY <1>3, InContext, RestingFits DEF Base
<1>8. ASSUME NEW q \in Path, Filed(q)
      PROVE  Strung(q) /\ Left(f.stack, q)
  <2>1. Strung(q)
    BY <1>6, <1>8, PathLength, HeldIsStrung DEF AllHeld
  <2>2. Root \in Seq(Name) /\ AtOrBelow(Root, q) /\ q # Root
    <3>1. Root \in Seq(Name) /\ Len(Root) = 0 /\ q \in Seq(Name) /\ Len(q) \in Nat \ {0}
      BY PathLength DEF Root
    <3>2. AtOrBelow(Root, q)
      <4>1. Len(Root) <= Len(q) /\ 1..Len(Root) = {}
        BY <3>1
      <4> QED BY <3>1, <4>1, PrefixIs
    <3>3. q # Root
      BY <3>1
    <3> QED BY <3>1, <3>2, <3>3
  <2>3. /\ IsTree(files[Root]) /\ Base = RootRef
        /\ \E n \in TransientNames(files[Root]) : AtOrBelow(Append(Root, n), q)
    BY <2>1, <2>2, StrungBelow
  <2>4. TreeOf(RootRef) = files[Root] /\ RootRef # None
    BY <2>3 DEF TreeOf, RootRef, PathRef, IsPathRef, IsIdRef, File, Node, None
  <2>5. v.path = Root /\ v.todo = TransientNames(files[Root])
    BY <1>1, <1>7, <2>3, <2>4 DEF Visit
  <2>6. f.stack = <<v>>
    BY <1>1, <1>7, <2>3, <2>4
  <2>7. Len(f.stack) = 1 /\ f.stack[1] = v
    BY <2>6
  <2> QED BY <2>1, <2>3, <2>5, <2>7 DEF Left
<1>9. CommitStrays(f)'
  <2> SUFFICES ASSUME NEW q \in Path, Filed(q)'
               PROVE  Strung(q)' /\ Left(f.stack, q)
    BY DEF CommitStrays, Awaits, Left
  <2>1. Filed(q)
    BY <1>3 DEF Filed
  <2>2. Strung(q) /\ Left(f.stack, q)
    BY <1>8, <2>1
  <2> QED BY <1>3, <1>7, <2>2 DEF Strung, StrungTo
<1>10. CallStrays(s)'
  BY <1>4, <1>9 DEF CallStrays
<1> QED BY <1>3, <1>4, <1>10, StraysOn

LEMMA ClientStepStrays ==
    ASSUME Context, Unfolds', StrayInv, Checked, NEW h \in Handle, ClientStep(h), Alone'
    PROVE  StrayInv'
<1>1. IInv /\ Alone /\ mem \in [Handle -> WorkspaceObjs(trees, Len(commits)) \union {None}]
  BY InContext DEF IInv, TypeOK
<1>2. ASSUME mem[h] = None, mem'[h] # None, \A g \in Handle \ {h} : mem'[g] = mem[g]
      PROVE  \A g \in Handle : calls[g] = <<>>
  <2>1. \A g \in Handle : mem[g] = None
    BY <1>2 DEF Alone
  <2> QED BY <1>1, <2>1 DEF IInv, RootInv, InCall
<1>3. ASSUME Idle(h)
      PROVE  \A g \in Handle : calls[g] = <<>>
  BY <1>1, <1>3, Others DEF Idle
<1>4. ASSUME NEW parent, CreateWorkspace(h, parent)
      PROVE  StrayInv'
  <2>1. UNCHANGED <<files, calls>> /\ mem[h] = None /\ mem' = [mem EXCEPT ![h] = disk']
        /\ disk' = [parent |-> parent, root |-> None, tracked |-> {}] /\ disk = None
    BY <1>4 DEF CreateWorkspace, transient
  <2>2. disk' # None
    BY <2>1 DEF None
  <2>3. \A g \in Handle : calls[g] = <<>>
    BY <1>1, <1>2, <2>1, <2>2
  <2>4. Base' = Base
    BY <2>1 DEF Base
  <2> QED BY <2>1, <2>3, <2>4, RestStrays
<1>5. ASSUME OpenWorkspace(h)
      PROVE  StrayInv'
  <2>1. UNCHANGED <<files, calls>> /\ Base' = Base
    BY <1>5 DEF OpenWorkspace, transient, Base
  <2>2. \A g \in Handle : calls[g] = <<>>
    BY <1>1, <1>2, <1>5 DEF OpenWorkspace
  <2> QED BY <2>1, <2>2, RestStrays
<1>6. ASSUME CloseWorkspace(h) \/ \E p \in Path, d \in Data : WriteData(h, p, d)
      PROVE  StrayInv'
  <2>1. UNCHANGED <<files, calls>> /\ Base' = Base /\ Idle(h)
    BY <1>6 DEF CloseWorkspace, WriteData, transient, Base
  <2> QED BY <1>3, <2>1, RestStrays
<1>7. "store" \in PathOps /\ "deleteEntity" \in PathOps /\ "deleteTree" \in PathOps
  BY DEF PathOps
<1>8. ASSUME NEW p \in Path, NEW leaf, Idle(h), MayStore(h, p), EnterPath(h, "store", p, leaf, <<>>),
             UNCHANGED <<files, edata, disk>>
      PROVE  StrayInv'
  <2>1. GetTree(h, p) = None
    BY <1>8 DEF MayStore
  <2>2. \A q \in Path : Filed(q) /\ AtOrBelow(p, q) => q = p
    BY <1>8, <2>1, LooksFind
  <2> QED BY <1>7, <1>8, <2>2, EnterStrays
<1>9. ASSUME NEW p \in Path, NEW m \in Meta, StoreEntity(h, p, m) \/ EditEntity(h, p, m)
      PROVE  StrayInv'
  <2>1. CASE StoreEntity(h, p, m)
    BY <1>8, <2>1 DEF StoreEntity, transient
  <2>2. CASE EditEntity(h, p, m)
    BY <1>8, <2>2 DEF EditEntity, transient
  <2> QED BY <1>9, <2>1, <2>2
<1>10. ASSUME NEW p \in Path, DeleteEntity(h, p)
       PROVE  StrayInv'
  <2>1. Idle(h) /\ EnterPath(h, "deleteEntity", p, None, <<>>) /\ GetEntity(h, p) # None
        /\ UNCHANGED <<files, edata, disk>>
    BY <1>10 DEF DeleteEntity, transient
  <2>2. \A q \in Path : Filed(q) /\ AtOrBelow(p, q) => q = p
    BY <2>1, LooksFind
  <2> QED BY <1>7, <2>1, <2>2, EnterStrays
<1>11. ASSUME NEW p \in Path, DeleteTree(h, p)
       PROVE  StrayInv'
  <2>1. Idle(h) /\ EnterPath(h, "deleteTree", p, None, <<>>) /\ GetEntity(h, p) = None
        /\ UNCHANGED <<files, edata, disk>>
    BY <1>11 DEF DeleteTree, transient
  <2>2. \A q \in Path : Filed(q) /\ AtOrBelow(p, q) => q # p
    BY <2>1, LooksFind
  <2> QED BY <1>7, <2>1, <2>2, EnterStrays
<1> QED BY <1>4, <1>5, <1>6, <1>9, <1>10, <1>11, BeginCommitStrays DEF ClientStep

(* Nothing happens. *)
LEMMA StutterStrays ==
    ASSUME Context, StrayInv, UNCHANGED vars, Unfolds'
    PROVE  StrayInv'
<1>1. UNCHANGED <<files, edata, disk, calls>>
  BY DEF vars, transient
<1>2. Still
  <2>1. Base' = Base /\ \A q : Present(q)' = Present(q)
    BY <1>1 DEF Base, Present, Running, Top, File
  <2>2. \A r \in AnyRef : ObjectOf(r)' = ObjectOf(r)
    BY <2>1 DEF ObjectOf
  <2> QED BY <2>1, <2>2, InContext, StillIs
<1>3. /\ \A q \in Path : (Filed(q)' <=> Filed(q)) /\ (Held(q)' <=> Held(q)) /\ (Strung(q)' <=> Strung(q))
      /\ AllHeld => AllHeld'
      /\ \A f : Clears(f) => Clears(f)'
  BY <1>1, <1>2, StillStrays
<1>4. \A s : CallStrays(s) => CallStrays(s)'
  <2>1. \A f : WalkStrays(f) => WalkStrays(f)'
    BY <1>3 DEF WalkStrays
  <2>2. \A r, u : SearchStrays(r, u) => SearchStrays(r, u)'
    BY <1>3 DEF SearchStrays, Left
  <2>3. \A n, r, u : NestedStrays(n, r, u) => NestedStrays(n, r, u)'
    BY <1>3 DEF NestedStrays, Left
  <2>4. \A f : CommitStrays(f) => CommitStrays(f)'
    BY <1>3 DEF CommitStrays, Awaits, Left
  <2> QED BY <2>1, <2>2, <2>3, <2>4 DEF CallStrays
<1>5. ASSUME NEW h \in Handle, calls'[h] # <<>>
      PROVE  CallStrays(calls[h])'
  <2>1. PICK s : s = calls[h] /\ s = calls'[h]
    BY <1>1
  <2>2. CallStrays(s)
    BY <1>5, <2>1 DEF StrayInv
  <2>3. CallStrays(s)'
    BY <1>4, <2>2
  <2> QED BY <2>1, <2>3
<1> QED BY <1>1, <1>3, <1>5 DEF StrayInv

-----------------------------------------------------------------------------
(* The steps of a commit.                                                  *)

LEMMA CommitStrayed ==
    ASSUME Context, StrayInv, NEW h \in Handle, Running(h, "commit"), NEW f, f = Top(h)
    PROVE  CommitStrays(f)
<1>1. /\ Len(calls[h]) = 1 /\ calls[h] # <<>> /\ calls[h] \in Seq(Frames)
  BY InContext, CommitTop DEF IInv, TypeOK
<1>2. f = calls[h][1]
  BY <1>1, BelowTop DEF Top
<1>3. CallStrays(calls[h])
  BY <1>1 DEF StrayInv
<1> QED BY <1>1, <1>2, <1>3 DEF CallStrays, Running

(* It goes on. *)
LEMMA CommitStraysOn ==
    ASSUME Context, StrayInv, NEW h \in Handle, Running(h, "commit"), NEW f, f = Top(h),
           NEW g, Continue(h, g), g.op = "commit",
           \A q \in Path : Filed(q)' => Filed(q),
           \A q \in Path : Filed(q)' /\ Filed(q) /\ Strung(q) /\ Awaits(f, q) => Strung(q)' /\ Awaits(g, q)
    PROVE  StrayInv'
<1>1. PICK s : s = <<g>>
  OBVIOUS
<1>2. mem[h] # None /\ calls' = [calls EXCEPT ![h] = s]
  BY <1>1, InContext, CommitAlone
<1>3. s # <<>> /\ s[1] = g
  BY <1>1
<1>4. CommitStrays(f)
  BY CommitStrayed
<1>5. CommitStrays(g)'
  <2> SUFFICES ASSUME NEW q \in Path, Filed(q)'
               PROVE  Strung(q)' /\ Awaits(g, q)
    BY DEF CommitStrays, Awaits, Left
  <2>1. Filed(q) /\ Strung(q) /\ Awaits(f, q)
    BY <1>4 DEF CommitStrays
  <2> QED BY <2>1
<1>6. CallStrays(s)'
  BY <1>3, <1>5 DEF CallStrays
<1> QED BY <1>2, <1>3, <1>6, StraysOn

(* The files stay. *)
LEMMA CommitFilesStay ==
    ASSUME UNCHANGED <<files, disk>>
    PROVE  \A q \in Path : (Filed(q)' <=> Filed(q)) /\ (Strung(q)' <=> Strung(q))
BY DEF Filed, Strung, StrungTo, Base

LEMMA CommitChildStrays ==
    ASSUME Context, CommitInv, StrayInv, NEW h \in Handle, NEW n \in Name, CommitChild(h, n)
    PROVE  StrayInv'
<1>1. PICK f, p, F, ref, t, next :
         /\ f = Top(h) /\ p = Append(Last(f.stack).path, n) /\ F = files[p]
         /\ ref = Last(f.stack).tree.refs[n] /\ next = PassTo(f, n) /\ t = next.stack
  OBVIOUS
<1>2. /\ Searching(h) /\ n \in Last(f.stack).todo /\ UNCHANGED <<files, disk>>
      /\ Found(h, p) = F /\ F # None
  <2>1. Searching(h) /\ n \in Last(Top(h).stack).todo /\ UNCHANGED <<files, disk>>
    BY DEF CommitChild, transient
  <2> QED BY <1>1, <2>1, InContext, ChildIsThere
<1>3. Running(h, "commit") /\ f.stack # <<>> /\ f.cur = None
  BY <1>1, <1>2 DEF Searching
<1>4. /\ f \in CommitFrames /\ f.op = "commit" /\ f.stack \in Seq(Visits) /\ Last(f.stack).path \in Seq(Name)
  BY <1>1, <1>3, InCommit
<1>5. t \in Seq(Visits) /\ next = [f EXCEPT !.stack = t] /\ next.op = "commit"
  <2>1. LET g == PassTo(f, n)
        IN  g = [f EXCEPT !.stack = g.stack] /\ g.op = f.op /\ g.stack \in Seq(Visits)
    BY <1>3, <1>4, Passing
  <2> QED BY <1>1, <1>4, <2>1
<1>6. next \in CommitFrames
  <2>1. TurnedOn(f, PassTo(f, n), Append(Last(f.stack).path, n))
    BY <1>1, <1>2, CommitTurns
  <2> QED BY <1>1, <2>1 DEF TurnedOn
<1>7. p \in Seq(Name)
  <2>1. PICK a : a = Last(f.stack).path
    OBVIOUS
  <2>2. a \in Seq(Name) /\ p = Append(a, n)
    BY <1>1, <1>4, <2>1
  <2> QED BY <2>2
<1>8. \A q \in Path : (Filed(q)' <=> Filed(q)) /\ (Strung(q)' <=> Strung(q))
  BY <1>2, CommitFilesStay
<1>9. ASSUME NEW q \in Path, Awaits(f, q)
      PROVE  Left(t, q) \/ AtOrBelow(p, q)
  <2>1. Left(f.stack, q) /\ f \in RemoveFrames \union CommitFrames
    BY <1>3, <1>4, <1>9 DEF Awaits
  <2>2. Left(PassTo(f, n).stack, q) \/ AtOrBelow(Append(Last(f.stack).path, n), q)
    BY <1>3, <1>4, <2>1, LeftOn
  <2> QED BY <1>1, <2>2
<1>10. ~(IsTree(F) /\ IsEntity(F))
  BY DEF IsTree, IsEntity
<1>11. CASE IsTree(F) /\ Continue(h, Deeper(next, p, ref, F))
  <2>1. PICK g, u : g = Deeper(next, p, ref, F) /\ u = Append(t, Visit(p, ref, F))
    OBVIOUS
  <2>2. g.op = "commit" /\ g.stack = u
    BY <1>1, <1>5, <1>6, <2>1 DEF Deeper, CommitFrames
  <2>3. ASSUME NEW q \in Path, Filed(q), Strung(q), Awaits(f, q)
        PROVE  Awaits(g, q)
    <3>1. AtOrBelow(p, q) => \E m \in TransientNames(F) : AtOrBelow(Append(p, m), q)
      <4> SUFFICES ASSUME AtOrBelow(p, q)
                   PROVE  \E m \in TransientNames(F) : AtOrBelow(Append(p, m), q)
        OBVIOUS
      <4>1. q # p
        BY <1>1, <1>10, <1>11, <2>3 DEF Filed
      <4> QED BY <1>1, <1>7, <2>3, <4>1, StrungBelow
    <3>2. Left(t, q) \/ \E m \in TransientNames(F) : AtOrBelow(Append(p, m), q)
      BY <1>9, <2>3, <3>1
    <3>3. Left(u, q)
      BY <1>5, <2>1, <3>2, LeftDeeper
    <3> QED BY <2>2, <3>3 DEF Awaits
  <2>4. Continue(h, g)
    BY <1>11, <2>1
  <2> QED BY <1>1, <1>3, <1>8, <2>2, <2>3, <2>4, CommitStraysOn
<1>12. ASSUME NEW c, c = [step |-> "data", path |-> p, ref |-> ref, obj |-> F], IsEntity(F),
              Continue(h, [next EXCEPT !.cur = c])
       PROVE  StrayInv'
  <2>1. PICK g : g = [next EXCEPT !.cur = c]
    OBVIOUS
  <2>2. g.op = "commit" /\ g.stack = t /\ g.cur = c
    BY <1>1, <1>5, <1>6, <2>1 DEF CommitFrames
  <2>3. c # None /\ c.step # "removeTree" /\ c.path = p
    BY <1>12 DEF None
  <2>4. ASSUME NEW q \in Path, Filed(q), Strung(q), Awaits(f, q)
        PROVE  Awaits(g, q)
    <3>1. ~IsTree(files[p])
      BY <1>1, <1>10, <1>12
    <3>2. AtOrBelow(p, q) => q = p
      BY <1>7, <2>4, <3>1, StrungBelow
    <3>3. Left(t, q) \/ q = p
      BY <1>9, <2>4, <3>2
    <3> QED BY <2>2, <2>3, <3>3 DEF Awaits
  <2>5. Continue(h, g)
    BY <1>12, <2>1
  <2> QED BY <1>1, <1>3, <1>8, <2>2, <2>4, <2>5, CommitStraysOn
<1>13. \/ IsTree(F) /\ Continue(h, Deeper(next, p, ref, F))
       \/ IsEntity(F) /\ Continue(h, [next EXCEPT !.cur = [step |-> "data", path |-> p, ref |-> ref, obj |-> F]])
  BY <1>1, <1>2 DEF CommitChild
<1> QED BY <1>11, <1>12, <1>13

(* The entity in hand stays there. *)
LEMMA InHandStrays ==
    ASSUME Context, StrayInv, NEW h \in Handle, Running(h, "commit"), NEW f, f = Top(h),
           UNCHANGED <<files, disk>>, NEW g, Continue(h, g), g.op = "commit", g.stack = f.stack,
           f.cur # None => g.cur # None /\ g.cur.path = f.cur.path /\ g.cur.step # "removeTree"
    PROVE  StrayInv'
<1>1. \A q \in Path : (Filed(q)' <=> Filed(q)) /\ (Strung(q)' <=> Strung(q))
  BY CommitFilesStay
<1>2. \A q : Awaits(f, q) => Awaits(g, q)
  BY DEF Awaits
<1> QED BY <1>1, <1>2, CommitStraysOn

LEMMA PersistDataStrays ==
    ASSUME Context, CommitInv, StrayInv, NEW h \in Handle, PersistData(h)
    PROVE  StrayInv'
<1>1. PICK f, z, d, obj, c, g :
         /\ f = Top(h) /\ z = f.cur.path /\ d = DataFile(z) /\ obj = WithDataId(f.cur.obj, d)
         /\ c = [f.cur EXCEPT !.step = "entity", !.obj = obj]
         /\ g = [f EXCEPT !.cur.step = "entity", !.cur.obj = obj]
  OBVIOUS
<1>2. Running(h, "commit") /\ f.cur # None /\ f.cur.step = "data" /\ UNCHANGED <<files, disk>>
  BY <1>1 DEF PersistData
<1>3. f \in CommitFrames /\ f.op = "commit" /\ f.cur.step # "removeTree"
  BY <1>1, <1>2, InCommit
<1>4. /\ z \in Node /\ z = f.cur.ref.path /\ IsEntity(files[z])
      /\ f.cur \in [step : {"data", "entity"}, path : Path, ref : PathRefs, obj : Entities(datas)]
  BY <1>1, <1>2, <1>3, EntityInHand
<1>5. Continue(h, g)
  <2>1. IsEntity(File(f.cur.ref.path)) /\ WithDataId(f.cur.obj, DataFile(f.cur.ref.path)) = obj
    BY <1>1, <1>4 DEF File
  <2>2. /\ f = Top(h)
        /\ IsEntity(File(f.cur.ref.path)) =>
              Continue(h, [f EXCEPT !.cur.step = "entity",
                                    !.cur.obj = WithDataId(f.cur.obj, DataFile(f.cur.ref.path))])
    BY <1>1 DEF PersistData
  <2> QED BY <1>1, <2>1, <2>2
<1>6. c.step # "removeTree" /\ c.path = z /\ c # None
  BY <1>1, <1>4 DEF None
<1>7. g.op = "commit" /\ g.stack = f.stack /\ g.cur = c
  <2>1. g = [f EXCEPT !.cur = c]
    BY <1>1, <1>3, <1>4 DEF CommitFrames
  <2> QED BY <1>3, <2>1 DEF CommitFrames
<1>8. g.cur # None /\ g.cur.path = f.cur.path /\ g.cur.step # "removeTree"
  BY <1>1, <1>6, <1>7
<1>9. f = Top(h)
  BY <1>1
<1> QED BY <1>2, <1>5, <1>7, <1>8, <1>9, InHandStrays

LEMMA PersistEntityStrays ==
    ASSUME Context, CommitInv, StrayInv, NEW h \in Handle, PersistEntity(h)
    PROVE  StrayInv'
<1>1. PICK f, new, c, g :
         /\ f = Top(h) /\ new = Record(f.done, {Entry(f.cur.path, f.cur.obj)})
         /\ c = [f.cur EXCEPT !.step = "remove"]
         /\ g = [f EXCEPT !.cur.step = "remove", !.done = Record(@, {Entry(f.cur.path, f.cur.obj)})]
  OBVIOUS
<1>2. /\ Running(h, "commit") /\ f.cur # None /\ f.cur.step = "entity" /\ Continue(h, g)
      /\ UNCHANGED <<files, disk>>
  BY <1>1 DEF PersistEntity, transient
<1>3. f \in CommitFrames /\ f.op = "commit" /\ f.cur.step # "removeTree"
  BY <1>1, <1>2, InCommit
<1>4. f.cur \in [step : {"data", "entity"}, path : Path, ref : PathRefs, obj : Entities(datas)]
  BY <1>1, <1>2, <1>3, EntityInHand
<1>5. c.step # "removeTree" /\ c.path = f.cur.path /\ c # None
  BY <1>1, <1>4 DEF None
<1>6. g.op = "commit" /\ g.stack = f.stack /\ g.cur = c
  <2>1. g = [[f EXCEPT !.cur = c] EXCEPT !.done = new]
    BY <1>1, <1>3, <1>4 DEF CommitFrames
  <2> QED BY <1>3, <2>1 DEF CommitFrames
<1>7. g.cur # None /\ g.cur.path = f.cur.path /\ g.cur.step # "removeTree"
  BY <1>5, <1>6
<1>8. f = Top(h)
  BY <1>1
<1> QED BY <1>2, <1>6, <1>7, <1>8, InHandStrays

(* A file goes that no search will turn to, nor to anything below it. *)
LEMMA FileGoesStrays ==
    ASSUME Context, CommitInv, StrayInv, NEW h \in Handle, Running(h, "commit"), NEW f, f = Top(h),
           NEW z \in Path, files' = [files EXCEPT ![z] = None], UNCHANGED disk,
           f.cur # None, f.cur.step = "removeTree" \/ f.cur.path = z,
           f.stack # <<>>, TurnedTo(Last(f.stack), z),
           NEW g, Continue(h, g), g.op = "commit", g.stack = f.stack
    PROVE  StrayInv'
<1>1. /\ f.stack \in Seq(Visits) /\ Chain(f.stack, Root) /\ Root \in Seq(Name)
      /\ \A k \in 1..Len(f.stack) : k < Len(f.stack) => TurnedTo(f.stack[k], f.stack[k + 1].path)
      /\ Last(f.stack).path \in Seq(Name)
      /\ files \in [Node -> Trees(Objects) \union Entities(datas) \union {None}]
  BY InCommit DEF Root
<1>2. z \in Node /\ files'[z] = None /\ \A q \in Node : q # z => files'[q] = files[q]
  BY <1>1, PathLength
<1>3. ~IsEntity(None)
  BY DEF IsEntity, None
<1>4. ASSUME NEW q \in Path, Filed(q)'
      PROVE  q # z /\ Filed(q)
  BY <1>2, <1>3, <1>4, PathLength DEF Filed
<1>5. ASSUME NEW q \in Path, Filed(q)', Strung(q), Awaits(f, q)
      PROVE  Strung(q)' /\ Awaits(g, q)
  <2>1. q # z
    BY <1>4, <1>5
  <2>2. Left(f.stack, q)
    BY <1>5, <2>1 DEF Awaits
  <2>3. ~AtOrBelow(z, q)
    BY <1>1, <2>2, NeverLeft
  <2>4. ASSUME NEW i \in 0..(Len(q) - 1)
        PROVE  StrungTo(q, i)'
    <3>1. q \in Seq(Name)
      BY PathLength
    <3>2. StrungTo(q, i)
      BY <1>5 DEF Strung
    <3>3. AtOrBelow(Upto(q, i), q)
      BY Turns
    <3>4. Upto(q, i) # z
      BY <2>3, <3>3
    <3>5. files'[Upto(q, i)] = files[Upto(q, i)]
      BY <3>4
    <3> QED BY <3>2, <3>5 DEF StrungTo
  <2>5. Strung(q)'
    BY <1>5, <2>4 DEF Strung, Base
  <2> QED BY <2>2, <2>5 DEF Awaits
<1> QED BY <1>4, <1>5, CommitStraysOn

LEMMA RemovePersistedStrays ==
    ASSUME Context, CommitInv, StrayInv, NEW h \in Handle, RemovePersisted(h)
    PROVE  StrayInv'
<1>1. PICK f, z, g : f = Top(h) /\ z = f.cur.path /\ g = [f EXCEPT !.cur = None]
  OBVIOUS
<1>2. /\ Running(h, "commit") /\ f.cur # None /\ f.cur.step = "remove" /\ Continue(h, g) /\ UNCHANGED disk
      /\ files' = [files EXCEPT ![f.cur.ref.path] = None]
  BY <1>1 DEF RemovePersisted, FilesWithout
<1>3. f \in CommitFrames /\ f.op = "commit" /\ CurFits(files, f) /\ f.cur.step # "removeTree"
  BY <1>1, <1>2, InCommit
<1>4. z \in Path /\ z = f.cur.ref.path /\ f.stack # <<>>
  BY <1>1, <1>2, <1>3, EntityInHand
<1>5. TurnedTo(Last(f.stack), z)
  BY <1>2, <1>3, <1>4 DEF CurFits
<1>6. g.op = "commit" /\ g.stack = f.stack
  BY <1>1, <1>3 DEF CommitFrames
<1>7. files' = [files EXCEPT ![z] = None]
  BY <1>2, <1>4
<1> QED BY <1>1, <1>2, <1>4, <1>5, <1>6, <1>7, FileGoesStrays

LEMMA RemovePersistedTreeStrays ==
    ASSUME Context, CommitInv, StrayInv, NEW h \in Handle, RemovePersistedTree(h)
    PROVE  StrayInv'
<1>1. PICK f, z, g : f = Top(h) /\ z = f.cur.ref.path /\ g = [f EXCEPT !.cur = None]
  OBVIOUS
<1>2. /\ Running(h, "commit") /\ f.cur # None /\ f.cur.step = "removeTree" /\ Continue(h, g)
      /\ UNCHANGED disk
      /\ files' = IF IsPathRef(f.cur.ref) THEN [files EXCEPT ![z] = None] ELSE files
  BY <1>1 DEF RemovePersistedTree, FilesWithout
<1>3. f \in CommitFrames /\ f.op = "commit" /\ CurFits(files, f)
  BY <1>1, <1>2, InCommit
<1>4. /\ IsPathRef(f.cur.ref) <=> f.stack # <<>>
      /\ f.stack # <<>> => TurnedTo(Last(f.stack), z)
  BY <1>1, <1>2, <1>3 DEF CurFits
<1>5. g.op = "commit" /\ g.stack = f.stack
  BY <1>1, <1>3 DEF CommitFrames
<1>6. CASE IsPathRef(f.cur.ref)
  <2>1. f.cur.ref \in {None} \union PathRefs
    BY <1>2, <1>3 DEF CommitFrames, Currents
  <2>2. z \in Path
    BY <1>1, <1>6, <2>1 DEF PathRefs, IsPathRef, None
  <2> QED BY <1>1, <1>2, <1>4, <1>5, <1>6, <2>2, FileGoesStrays
<1>7. CASE ~IsPathRef(f.cur.ref)
  <2>1. UNCHANGED <<files, disk>> /\ f.stack = <<>>
    BY <1>2, <1>4, <1>7
  <2>2. \A q \in Path : (Filed(q)' <=> Filed(q)) /\ (Strung(q)' <=> Strung(q))
    BY <2>1, CommitFilesStay
  <2>3. \A q : ~Awaits(f, q)
    BY <1>2, <2>1 DEF Awaits, Left
  <2> QED BY <1>1, <1>2, <1>5, <2>2, <2>3, CommitStraysOn
<1> QED BY <1>6, <1>7

LEMMA PersistTreeStrays ==
    ASSUME Context, CommitInv, StrayInv, NEW h \in Handle, PersistTree(h)
    PROVE  StrayInv'
<1>1. PICK f, top, c, new, w, g :
         /\ f = Top(h) /\ top = Last(f.stack) /\ c = [step |-> "removeTree", ref |-> top.ref]
         /\ new = Record(Record(f.done, EmptyIds(f)), {Entry(top.path, PersistentForm(f))})
         /\ w = Front(f.stack)
         /\ g = [f EXCEPT !.cur = c, !.done = new, !.stack = w]
  OBVIOUS
<1>2. /\ Running(h, "commit") /\ f.stack # <<>> /\ f.cur = None /\ top.todo = {} /\ UNCHANGED <<files, disk>>
  BY <1>1 DEF PersistTree, TreeIsDone, Searching, transient
<1>3. Continue(h, g)
  BY <1>1 DEF PersistTree
<1>4. f \in CommitFrames /\ f.op = "commit" /\ f.stack \in Seq(Visits)
  BY <1>1, <1>2, InCommit
<1>5. g.op = "commit" /\ g.stack = w
  BY <1>1, <1>4 DEF CommitFrames
<1>6. \A q \in Path : (Filed(q)' <=> Filed(q)) /\ (Strung(q)' <=> Strung(q))
  BY <1>2, CommitFilesStay
<1>7. ASSUME NEW q \in Path, Awaits(f, q)
      PROVE  Awaits(g, q)
  <2>1. Left(f.stack, q)
    BY <1>2, <1>7 DEF Awaits
  <2>2. Left(Front(f.stack), q)
    BY <1>1, <1>2, <1>4, <2>1, LeftBelow
  <2> QED BY <1>1, <1>5, <2>2 DEF Awaits
<1> QED BY <1>1, <1>2, <1>3, <1>5, <1>6, <1>7, CommitStraysOn

LEMMA CreateCommitStrays ==
    ASSUME Context, CommitInv, StrayInv, NEW h \in Handle, CreateCommit(h)
    PROVE  StrayInv'
<1>1. PICK f, g : f = Top(h) /\ g = [f EXCEPT !.made = Len(commits) + 1]
  OBVIOUS
<1>2. /\ Running(h, "commit") /\ f.cur = None /\ f.stack = <<>> /\ Continue(h, g)
      /\ UNCHANGED <<files, disk>>
  BY <1>1 DEF CreateCommit, transient
<1>3. f \in CommitFrames /\ f.op = "commit"
  BY <1>1, <1>2, InCommit
<1>4. g.op = "commit" /\ g.stack = f.stack
  BY <1>1, <1>3 DEF CommitFrames
<1> QED BY <1>1, <1>2, <1>4, InHandStrays

LEMMA EndCommitStrays ==
    ASSUME Context, CommitInv, StrayInv, NEW h \in Handle, EndCommit(h)
    PROVE  StrayInv'
<1>1. PICK f : f = Top(h)
  OBVIOUS
<1>2. Running(h, "commit") /\ f.made # 0 /\ Return(h) /\ UNCHANGED files
  BY <1>1 DEF EndCommit, transient
<1>3. CommitFits(files, f) /\ mem[h] # None /\ Tail(calls[h]) = <<>>
  BY <1>1, <1>2, InContext, CommitAlone
<1>4. f.cur = None /\ f.stack = <<>>
  BY <1>2, <1>3 DEF CommitFits
<1>5. \A q : ~Awaits(f, q)
  BY <1>4 DEF Awaits, Left
<1>6. \A q \in Path : ~Filed(q)
  BY <1>1, <1>2, <1>5, CommitStrayed DEF CommitStrays
<1>7. AllHeld'
  BY <1>2, <1>6 DEF AllHeld, Filed
<1>8. PICK s : s = <<>>
  OBVIOUS
<1>9. calls' = [calls EXCEPT ![h] = s]
  BY <1>2, <1>3, <1>8 DEF Return
<1> QED BY <1>3, <1>7, <1>8, <1>9, StraysOn

(* A step of a commit. *)
LEMMA CommitStepStrays ==
    ASSUME Context, CommitInv, Unfolds', StrayInv, NEW h \in Handle, CommitStep(h)
    PROVE  StrayInv'
<1>1. CASE ReadEmptyData(h)
  BY <1>1, StutterStrays DEF ReadEmptyData
<1>2. CASE CommitUnrecorded(h)
  BY <1>2, InContext, AllRecorded DEF CommitUnrecorded
<1> QED BY <1>1, <1>2, CommitChildStrays, PersistDataStrays, PersistEntityStrays, RemovePersistedStrays,
           PersistTreeStrays, RemovePersistedTreeStrays, CreateCommitStrays, EndCommitStrays DEF CommitStep

-----------------------------------------------------------------------------
(* What readers find is what the map shows.                                *)

(* What a step of a process alone keeps. *)
LEMMA NextStrays ==
    ASSUME Checked, ~Drops, Context, CommitInv, LeadInv, StrayInv, Unfolds', TrailsMeet',
           [Next /\ Undisturbed]_vars
    PROVE  333 \in failed' \/ StrayInv'
<1>1. CASE UNCHANGED vars
  BY <1>1, StutterStrays
<1>2. ASSUME Undisturbed, NEW h \in Handle, CallStep(h)
      PROVE  333 \in failed' \/ StrayInv'
  <2>1. CASE PathStep(h)
    BY <1>2, <2>1, PathStepStrays
  <2>2. CASE RemoveStep(h)
    BY <2>2, RemoveStepStrays
  <2>3. CASE CommitStep(h)
    BY <2>3, CommitStepStrays
  <2> QED BY <1>2, <2>1, <2>2, <2>3 DEF CallStep
<1>3. ASSUME Undisturbed, NEW h \in Handle, ClientStep(h)
      PROVE  StrayInv'
  BY <1>3, ClientStepStrays DEF Undisturbed
<1>4. ASSUME Undisturbed, NEW h \in Handle, Crash(h)
      PROVE  FALSE
  BY <1>4, InContext DEF Crash, Undisturbed, IInv, TypeOK
<1>5. ~DeleteWorkspaceForced
  BY DEF DeleteWorkspaceForced
<1> QED BY <1>1, <1>2, <1>3, <1>4, <1>5 DEF Next

LEMMA InitStrays == Init => StrayInv
<1> SUFFICES ASSUME Init
             PROVE  StrayInv
  OBVIOUS
<1>1. files = [q \in Node |-> None] /\ \A h \in Handle : calls[h] = <<>>
  BY DEF Init, NothingYet
<1>2. \A q \in Path : ~Filed(q)
  <2>1. ~IsEntity(None)
    BY DEF IsEntity, None
  <2> QED BY <1>1, <2>1, PathLength DEF Filed
<1> QED BY <1>1, <1>2 DEF StrayInv, AllHeld

LEMMA LoneStrays ==
    ASSUME Checked, ~Drops
    PROVE  LoneSpec /\ []SegmentsAreTracked => [](Context /\ StrayInv)
<1> DEFINE J == LeadInv /\ StrayInv
<1>1. Weaves => Context /\ CommitInv /\ IInv /\ TrailsMeet
  BY InContext, TrailsAreMet DEF Weaves
<1>2. Init => J
  BY InitLeads, InitStrays
<1>3. J /\ Weaves /\ Unfolds' /\ TrailsMeet' /\ SegmentsAreTracked' /\ [Next /\ Undisturbed]_vars => J'
  <2> SUFFICES ASSUME J, Weaves, Unfolds', TrailsMeet', SegmentsAreTracked', [Next /\ Undisturbed]_vars
               PROVE  J'
    OBVIOUS
  <2>1. Context /\ CommitInv /\ IInv
    BY <1>1
  <2>2. [Next /\ Unblocked]_vars
    BY DEF Undisturbed, Unblocked
  <2>3. LeadInv'
    BY <2>1, <2>2, NextLeads
  <2>4. 333 \in failed' \/ StrayInv'
    BY <2>1, NextStrays
  <2> QED BY <2>3, <2>4 DEF SegmentsAreTracked
<1> QED BY <1>1, <1>2, <1>3, LoneWeaves, PTL DEF LoneSpec

(* One meets an object wherever a reference is, whether it leads to the    *)
(* store or to a file: no reference dangles while no call is going on.     *)
LEMMA MetIsThere ==
    ASSUME Context, OnFiles, \A g \in Handle : calls[g] = <<>>,
           NEW q \in Seq(Name), NEW n \in Name, NEW r \in Met(Append(q, n))
    PROVE  IsTree(ObjectOf(r)) \/ IsEntity(ObjectOf(r))
<1>1. Append(q, n) \in Seq(Name)
  OBVIOUS
<1>2. r \in AnyRef /\ r # None
  BY <1>1, InContext DEF MetInPlace, MetAt
<1>3. CASE IsPathRef(r)
  <2>1. Held(Append(q, n))
    BY <1>3 DEF Held
  <2>2. q \in Node /\ IsTree(files[q]) /\ IsPathRef(files[q].refs[n]) /\ Base = RootRef
    BY <2>1, HeldAbove
  <2>3. Sound(files, Node)
    <3>1. disk # None /\ disk.root = RootRef
      BY <2>2 DEF Base, RootRef, PathRef, None
    <3> QED BY <3>1, InContext DEF ChildInv, AtRestFits
  <2>4. Append(q, n) \in Node /\ files[Append(q, n)] # None
    BY <2>2, <2>3 DEF Sound, Fits, Lies, TransientNames
  <2>5. ObjectOf(r) = files[Append(q, n)]
    BY <2>1, <2>4, HeldObject
  <2>6. files[Append(q, n)] \in Trees(Objects) \union Entities(datas)
    BY <2>4, InContext DEF IInv, TypeOK
  <2> QED BY <2>5, <2>6 DEF Trees, TreeObj, Entities, EntityObj, IsTree, IsEntity
<1>4. CASE ~IsPathRef(r)
  <2>1. r.id \in Objects /\ ObjectOf(r) = r.id
    BY <1>2, <1>4 DEF AnyRef, Refs, IdRefs, PathRefs, IsIdRef, IsPathRef, RootRef, PathRef, None, ObjectOf
  <2>2. \A x \in trees : IsTree(x)
    BY InContext, IInvInv, StoredTypes DEF Trees, TreeObj, IsTree
  <2>3. \A x \in entities : IsEntity(x)
    BY InContext, IInvInv, StoredTypes DEF Entities, EntityObj, IsEntity
  <2> QED BY <2>1, <2>2, <2>3 DEF Objects
<1> QED BY <1>3, <1>4

(* What the map shows of an entity. *)
LEMMA EntityShows ==
    ASSUME Context, NEW q \in Path, NEW r \in Met(q), IsEntity(ObjectOf(r))
    PROVE  At(q) # None /\ At(q).meta = ObjectOf(r).meta
<1>1. q \in Seq(Name)
  BY PathLength
<1>2. Met(q) = {r}
  BY <1>1, InContext DEF MetInPlace, MetAt
<1>3. PICK c : c = [meta |-> ObjectOf(r).meta, data |-> DataOf(r, ObjectOf(r))]
  OBVIOUS
<1>4. Contents(r) = {c}
  BY <1>3 DEF Contents
<1>5. UNION {Contents(x) : x \in Met(q)} = {c}
  BY <1>2, <1>4
<1>6. At(q) = c
  BY <1>5, InContext DEF Unfolds, Shown
<1> QED BY <1>3, <1>6 DEF None

(* Where no entity is on the way there are only trees. *)
LEMMA WayWooded ==
    ASSUME Context, OnFiles, \A g \in Handle : calls[g] = <<>>,
           NEW h \in Handle, mem[h] # None, mem[h].root = Base,
           NEW p \in Path, \A q \in ProperPrefixes(p) : At(q) = None
    PROVE  \A i \in 0..(Len(p) - 1) : Wooded(Upto(p, i))
<1> SUFFICES ASSUME NEW i \in 0..(Len(p) - 1)
             PROVE  Wooded(Upto(p, i))
  OBVIOUS
<1>1. Len(p) \in Nat \ {0} /\ p \in Seq(Name)
  BY PathLength
<1>2. CASE i = 0
  <2>1. Upto(p, i) = Root
    BY <1>2, Turns
  <2> QED BY <2>1, RootIsRead DEF Reading
<1>3. CASE i # 0
  <2>1. PICK k, q, z, n : k = i - 1 /\ q = Upto(p, i) /\ z = Upto(p, k) /\ n = p[i]
    OBVIOUS
  <2>2. k \in 0..(Len(p) - 1) /\ k + 1 = i /\ i \in 1..(Len(p) - 1) /\ i \in 1..Len(p)
    BY <1>1, <1>3, <2>1
  <2>3. z \in Seq(Name) /\ n \in Name /\ q = Append(z, n)
    BY <2>1, <2>2, Turns
  <2>4. q \in Path /\ At(q) = None
    BY <2>1, <2>2, PrefixAssumption DEF ProperPrefixes, Upto
  <2>5. \A r \in Met(q) : IsTree(ObjectOf(r))
    BY <2>3, <2>4, MetIsThere, EntityShows
  <2> QED BY <2>1, <2>5 DEF Wooded
<1> QED BY <1>2, <1>3

LEMMA ReadersAgree == Context /\ StrayInv => ReadsAgree
<1> SUFFICES ASSUME Context, StrayInv, NEW h \in Handle, Idle(h), NEW p \in Path,
                    \A q \in ProperPrefixes(p) : At(q) = None
             PROVE  IF At(p) = None THEN GetEntity(h, p) = None
                    ELSE GetEntity(h, p) # None /\ GetEntity(h, p).meta = At(p).meta
  BY DEF ReadsAgree
<1>1. mem[h] # None /\ calls[h] = <<>> /\ disk # None /\ mem[h] = disk
  BY InContext DEF Idle, ChildInv
<1>2. (\A g \in Handle : calls[g] = <<>>) /\ mem[h].root = Base
  BY <1>1, InContext, Others DEF Base
<1>3. AllHeld /\ OnFiles
  BY <1>2, RestHeld
<1>4. \A i \in 0..(Len(p) - 1) : Wooded(Upto(p, i))
  BY <1>1, <1>2, <1>3, WayWooded
<1>5. PICK ref : ref = RefForPath(h, p)
  OBVIOUS
<1>6. ref \in AnyRef /\ Met(p) = {ref} \ {None}
  BY <1>1, <1>2, <1>3, <1>4, <1>5, InContext, RefIsMet
<1>7. GetEntity(h, p) = IF Filed(p) THEN files[p]
                        ELSE IF IsIdRef(ref) /\ ref.id \in entities THEN ref.id ELSE None
  BY <1>5 DEF GetEntity, Filed
<1>8. p \in Seq(Name) /\ p \in Node
  BY PathLength
<1>9. ~IsEntity(None)
  BY DEF IsEntity, None
<1>10. CASE Filed(p)
  <2>1. PICK r \in Met(p) : ObjectOf(r) = files[p]
    BY <1>3, <1>8, <1>10, HeldObject DEF AllHeld, Held
  <2>2. IsEntity(files[p]) /\ files[p] # None
    BY <1>9, <1>10 DEF Filed
  <2>3. At(p) # None /\ At(p).meta = files[p].meta
    BY <2>1, <2>2, EntityShows
  <2> QED BY <1>7, <1>10, <2>2, <2>3
<1>11. CASE ~Filed(p) /\ IsIdRef(ref) /\ ref.id \in entities
  <2>1. ref.id \in Entities(datas) /\ ref # None /\ ~IsPathRef(ref)
    BY <1>11, InContext, IInvInv, StoredTypes DEF IsIdRef, IsPathRef, None
  <2>2. IsEntity(ref.id)
    BY <2>1 DEF Entities, EntityObj, IsEntity
  <2>3. ObjectOf(ref) = ref.id /\ ref \in Met(p)
    BY <1>6, <1>11, <2>1 DEF ObjectOf
  <2>4. At(p) # None /\ At(p).meta = ref.id.meta
    BY <2>2, <2>3, EntityShows
  <2>5. ref.id # None
    BY <1>9, <2>2
  <2> QED BY <1>7, <1>11, <2>4, <2>5
<1>12. CASE ~Filed(p) /\ ~(IsIdRef(ref) /\ ref.id \in entities)
  <2>1. ASSUME NEW r \in Met(p), IsEntity(ObjectOf(r))
        PROVE  FALSE
    <3>1. r = ref /\ r \in AnyRef /\ r # None
      BY <1>6
    <3>2. CASE IsPathRef(r)
      <4>1. Held(p)
        BY <3>2 DEF Held
      <4>2. ObjectOf(r) = files[p]
        BY <1>3, <1>8, <4>1, HeldObject
      <4> QED BY <1>12, <2>1, <4>2 DEF Filed
    <3>3. CASE ~IsPathRef(r)
      <4>1. IsIdRef(r) /\ r.id \in Objects /\ ObjectOf(r) = r.id
        BY <3>1, <3>3 DEF AnyRef, Refs, IdRefs, PathRefs, IsIdRef, IsPathRef, RootRef, PathRef, None, ObjectOf
      <4>2. \A x \in trees : ~IsEntity(x)
        BY InContext, IInvInv, StoredTypes DEF Trees, TreeObj, IsEntity
      <4> QED BY <1>12, <2>1, <3>1, <4>1, <4>2 DEF Objects
    <3> QED BY <3>2, <3>3
  <2>2. \A r \in Met(p) : Contents(r) = {}
    BY <2>1 DEF Contents
  <2>3. UNION {Contents(r) : r \in Met(p)} = {}
    BY <2>2
  <2>4. At(p) = None
    BY <2>3, InContext DEF Unfolds, Shown
  <2> QED BY <1>7, <1>12, <2>4
<1> QED BY <1>10, <1>11, <1>12

(* getEntity (workspaceimpl.cpp) looks at the transient file first and     *)
(* else at the reference of the path, which a walk of its own follows:     *)
(* whenever no call is going on both tell what the map shows, below trees. *)
(* For any paths, data and handles, of a process that has the workspace to *)
(* itself and looks before it stores and deletes.                          *)
THEOREM ReadsAreTheMap ==
    ASSUME Checked, ~Drops
    PROVE  LoneSpec /\ []SegmentsAreTracked => []ReadsAgree
<1>1. LoneSpec /\ []SegmentsAreTracked => [](Context /\ StrayInv)
  BY LoneStrays
<1> QED BY <1>1, ReadersAgree, PTL

=============================================================================
