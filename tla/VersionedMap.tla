---------------------------- MODULE VersionedMap ----------------------------
(***************************************************************************)
(* What a workspace promises its clients (libs/interface_cpp, above all    *)
(* operators/versioning/workspacewritable.h and versioning/repository.h):  *)
(* a map from paths to entities with their data, of which a commit takes a *)
(* snapshot that stays for ever.                                           *)
(***************************************************************************)
EXTENDS Naturals, Sequences, SequencesExt

CONSTANTS Path, Meta, Data, None

VARIABLES map,      \* the entity at every path, or None
          history   \* the snapshots, oldest first

vars == <<map, history>>

Used(m) == {p \in Path : m[p] # None}

Init == map = [p \in Path |-> None] /\ history = <<>>

(* A new entity or another version of one.  Its data is empty or what was  *)
(* at the path before.  No entity has another one below it.                *)
Free(m) == {p \in Path : \A q \in Used(m) : IsPrefix(p, q) \/ IsPrefix(q, p) => q = p}

DataAt(m, p) == IF m[p] = None THEN {None} ELSE {None, m[p].data}

WithPut(m) ==
    UNION {{[m EXCEPT ![p] = [meta |-> x, data |-> d]] : x \in Meta, d \in DataAt(m, p)} :
              p \in Free(m)}

Put == map' \in WithPut(map) /\ UNCHANGED history

(* Other data for an entity. *)
WithData(m) == {[m EXCEPT ![p].data = d] : p \in Used(m), d \in Data}

SetData == map' \in WithData(map) /\ UNCHANGED history

(* Entities at or below a path disappear, all together or one by one. *)
Cut(m, gone) == [p \in Path |-> IF p \in gone THEN None ELSE m[p]]

WithRemoval(m) ==
    UNION {{Cut(m, gone) : gone \in SUBSET {q \in Used(m) : IsPrefix(p, q)}} : p \in Path}

Delete == map' \in WithRemoval(map) /\ UNCHANGED history

Commit == history' = Append(history, map) /\ UNCHANGED map

Next == Put \/ SetData \/ Delete \/ Commit

Spec == Init /\ [][Next]_vars

=============================================================================
