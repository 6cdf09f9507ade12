---------------------------- MODULE MCEntityData ----------------------------
(* Instances of EntityData for TLC. *)
EXTENDS EntityData, TLC

(* Objects, files and data are alike. *)
Symmetry == Permutations(Object) \union Permutations(Data) \union Permutations(File)

=============================================================================
