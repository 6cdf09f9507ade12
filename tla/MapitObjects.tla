---------------------------- MODULE MapitObjects ----------------------------
(***************************************************************************)
(* The values a mapit repository stores: trees, entities and the           *)
(* references between them (protobuf messages of libs/mapit-msgs, which    *)
(* libs/core/src/versioning and libs/core/src/serialization read and       *)
(* write).                                                                 *)
(*                                                                         *)
(* An object id is the SHA-256 of the object's content.  The model lets    *)
(* the content stand for its id: two ids are equal exactly when the        *)
(* contents are, i.e. SHA-256 is assumed free of collisions.               *)
(*                                                                         *)
(* A path is a non-empty sequence of segments.  An absolute transient path *)
(* "<workspace>/a/b/" keeps its trailing slash in the model, because the   *)
(* code stores trees under "a/b/" and entities under "a/b" and compares    *)
(* the two as strings.                                                     *)
(***************************************************************************)
EXTENDS Naturals, Sequences, SequencesExt

CONSTANTS Name,   \* path segments
          Path,   \* the paths clients use; closed under non-empty prefixes
          Meta,   \* what an entity says besides its data: type, frame, stamp
          Data,   \* contents of entity data files
          NoBytes \* the contents of an empty one, which Data may have or not

ASSUME PathAssumption == Path \subseteq Seq(Name) \ {<<>>}

ASSUME PrefixAssumption ==
    \A p \in Path : \A i \in 1..Len(p) : SubSeq(p, 1, i) \in Path

(* The absent object, reference, id or file: of no kind. *)
None == [is |-> "none", to |-> "none"]

ASSUME NoneAssumption == None \notin Data \union {NoBytes}

Root == <<>>                  \* the path "/"
Node == Path \union {Root}    \* the places of transient objects

-----------------------------------------------------------------------------
(* References.                                                             *)

IdRef(obj) == [to |-> "id", id |-> obj]
PathRef(p, slash) == [to |-> "path", path |-> p, slash |-> slash]

IsIdRef(ref) == ref.to = "id"
IsPathRef(ref) == ref.to = "path"

RootRef == PathRef(Root, TRUE)

-----------------------------------------------------------------------------
(* Objects.                                                                *)

TreeObj(refs) == [is |-> "tree", refs |-> refs]
EntityObj(m, d) == [is |-> "entity", meta |-> m, dataid |-> d]

IsTree(obj) == obj.is = "tree"
IsEntity(obj) == obj.is = "entity"

EmptyTree == TreeObj([n \in Name |-> None])

(* A tree with the reference of one child replaced, or removed (None). *)
LinkUnlessThere(tree, n, ref) ==           \* mutant: insert() without erase()
    IF tree.refs[n] # None /\ ref # None THEN tree
    ELSE [tree EXCEPT !.refs = [@ EXCEPT ![n] = ref]]

LinkOnly(tree, n, ref) ==                  \* mutant: a reference is never removed
    IF ref = None THEN tree ELSE [tree EXCEPT !.refs = [@ EXCEPT ![n] = ref]]

Link(tree, n, ref) == [tree EXCEPT !.refs = [@ EXCEPT ![n] = ref]]

(* The segments of a tree whose child is a transient object. *)
TransientNames(tree) == {n \in Name : IsPathRef(tree.refs[n])}

-----------------------------------------------------------------------------
(* Paths.                                                                  *)

Upto(p, i) == SubSeq(p, 1, i)

(* q lies at p or below it. *)
AtOrBelow(p, q) == IsPrefix(p, q)

(* The transient file of the object at p is an entity's "a/b" or a tree's  *)
(* "a/b/".                                                                 *)
PlaceOf(p, obj) == PathRef(p, IsTree(obj))

=============================================================================
