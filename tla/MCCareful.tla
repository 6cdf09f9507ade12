------------------------------ MODULE MCCareful ------------------------------
(***************************************************************************)
(* Two instances of Workspace for one run of TLC: a careful client that    *)
(* spreads over two children of the root, of which one may be a tree, and  *)
(* writes empty data, and one that keeps to the first child, which may be  *)
(* a tree, and has two versions of everything and two commits.             *)
(***************************************************************************)
EXTENDS MCWorkspace

CONSTANTS m1, m2, d1, d2, nobytes

CarefulPaths == Siblings \union TwoLevels

CallsOn(paths) ==
    \E h \in Handle : calls[h] # <<>> /\ Call(h).op # "commit" /\ Call(h).path \in paths

LiesAt(paths) == \E p \in paths : files[p] # None \/ edata[p] # None

Spreads ==
    \/ CallsOn(Siblings \ TwoLevels)
    \/ LiesAt(Siblings \ TwoLevels)
    \/ \E p \in Path : edata[p] = nobytes
    \/ \E t \in trees : t.refs[b] # None

Leaves == {Call(h).leaf : h \in {g \in Handle : calls[g] # <<>> /\ Call(g).op = "store"}}

OtherMeta ==
    \E e \in Leaves \union entities \union {files[p] : p \in Path} : IsEntity(e) /\ e.meta = m2

OtherData == d2 \in datas \/ \E p \in Path : edata[p] = d2

HasVersions ==
    \/ OtherMeta \/ OtherData
    \/ CallsOn(TwoLevels \ Siblings)
    \/ LiesAt(TwoLevels \ Siblings)
    \/ Len(commits) = 2
    \/ Len(commits) = 1 /\ \E h \in Handle : Running(h, "commit")

OneOfThem == ~(Spreads' /\ HasVersions') /\ ~(OtherMeta' /\ OtherData')

=============================================================================
