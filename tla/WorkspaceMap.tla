---------------------------- MODULE WorkspaceMap ----------------------------
(***************************************************************************)
(* The map that the files of a repository stand for, and the statement     *)
(* that Workspace implements VersionedMap.                                 *)
(***************************************************************************)
EXTENDS Workspace

(* The object at a transient path.  While a commit moves objects from the  *)
(* workspace to the store, the object is the one it has got hold of.       *)
Present(q) ==
    LET committing == {h \in Handle : Running(h, "commit")}
    IN  IF committing = {} THEN File(q)
        ELSE LET f == Top(CHOOSE h \in committing : TRUE)
             IN  IF f.cur # None /\ f.cur.step = "entity" /\ f.cur.path = q
                 THEN f.cur.obj
                 ELSE IF IdOf(f.done, q) # None THEN IdOf(f.done, q) ELSE File(q)

ObjectOf(ref) ==
    CASE IsPathRef(ref) -> Present(ref.path)
      [] IsIdRef(ref)   -> ref.id
      [] OTHER          -> None

(* Going down from a root, tree by tree: the reference at a path, in a set *)
(* that is empty when the way ends before.                                 *)
RefsBelow(root, p) ==
    LET refs[i \in 0..Len(p)] ==
          IF i = 0 THEN {root}
          ELSE {tree.refs[p[i]] : tree \in {t \in {ObjectOf(r) : r \in refs[i - 1]} : IsTree(t)}}
    IN  refs[Len(p)]

(* An entity with its data: the transient data file, or else the data that *)
(* the entity's own id names.                                              *)
DataOf(ref, e) ==
    IF IsPathRef(ref) /\ DataFile(ref.path) # None THEN DataFile(ref.path) ELSE e.dataid

ContentBelow(root, p) ==
    LET found == UNION {{[meta |-> e.meta, data |-> DataOf(ref, e)] :
                            e \in {o \in {ObjectOf(ref)} : IsEntity(o)}} :
                          ref \in RefsBelow(root, p)}
    IN  IF found = {} THEN None ELSE CHOOSE c \in found : TRUE

At(p) == ContentBelow(IF disk = None THEN None ELSE disk.root, p)

AtIn(commit, p) == ContentBelow(IF commit.root = None THEN None ELSE IdRef(commit.root), p)

Map == [p \in Path |-> At(p)]
History == [i \in 1..Len(commits) |-> [p \in Path |-> AtIn(commits[i], p)]]

Versioned == INSTANCE VersionedMap WITH map <- Map, history <- History

(* The workspace is a versioned map: every step of a call changes the map  *)
(* by one of the map's operations or not at all, and createCommit          *)
(* (repositoryimpl.cpp) records exactly the map the client sees.           *)
Implements == Versioned!Spec

-----------------------------------------------------------------------------
(* The call a client made is the last frame. *)
Call(h) == Last(calls[h])
Returns(h) == SaveWorkspace(h) /\ Len(calls[h]) = 1

(* When deleteEntity or deleteTree (workspaceimpl.cpp) returns, nothing is *)
(* left at the path or below it, be it transient, committed or a mixture.  *)
Deletes ==
    \A h \in Handle :
       Returns(h) /\ Call(h).op \in {"deleteEntity", "deleteTree"}
          => \A q \in Path : AtOrBelow(Call(h).path, q) => At(q)' = None

DeleteDeletes == [][Deletes]_vars

(* When storeEntity returns, the entity can be found at its path, with the *)
(* data its data id names unless newer data is there.                      *)
StoreStores ==
    [][\A h \in Handle :
          Returns(h) /\ Call(h).op = "store"
             => \A p \in Path : p = Call(h).path
                   => /\ At(p)' # None
                      /\ At(p)'.meta = Call(h).leaf.meta
                      /\ At(p)'.data \in {Call(h).leaf.dataid, edata[p]}]_vars

(* A call changes the map at its path or below it and nowhere else, though *)
(* it rewrites every tree above; a commit changes the map nowhere, though  *)
(* it moves every object.  It does not hold once a client's call has met   *)
(* an entity on its way: what it has collected then becomes the root, and  *)
(* siblings are lost (BlockedBelowEntity, workspaceimpl.h:347-350).        *)
OnlyItsPath ==
    [][\A h \in Handle : CallStep(h)
          => \A q \in Path :
                (Call(h).op # "commit" /\ AtOrBelow(Call(h).path, q)) \/ At(q)' = At(q)]_vars

(* getEntity(path) answers from the transient file or from the path's      *)
(* reference; the two ways agree with the map wherever no segment on the   *)
(* way is an entity.                                                       *)
ReadsAgree ==
    \A h \in Handle : Idle(h) =>
        \A p \in Path :
            (\A q \in ProperPrefixes(p) : At(q) = None)
                => LET e == GetEntity(h, p)
                       there == At(p)
                   IN  IF there = None THEN e = None
                       ELSE e # None /\ e.meta = there.meta

(* What was committed stays as it is, whatever happens to the workspace    *)
(* afterwards: crashes, other handles, callers that do not look.           *)
HistoryStays == [][IsPrefix(History, History')]_vars

(* Every call returns: the searches that recurse into the trees they       *)
(* change come to an end.  Only a commit that has come to data of no bytes *)
(* reads it for ever.                                                      *)
CallsReturn ==
    \A h \in Handle : calls[h] # <<>> ~> calls[h] = <<>> \/ ReadsNoBytes(h)

-----------------------------------------------------------------------------
(* What the repository says of itself and the code does not do.            *)

(* "if this happens, commit did not track objects correctly!"              *)
(* (workspaceimpl.h:333): createPath finds every transient object of its   *)
(* path in transientoidstoorigin.                                          *)
SegmentsAreTracked == 333 \notin failed

=============================================================================
