----------------------------- MODULE MCOperators -----------------------------
(* Instances of Operators for TLC: two paths, on which any operator may    *)
(* find any of three types of entities.                                    *)
EXTENDS Operators

CONSTANTS a, b

MCPath == {a, b}

(* The operators that work on trees, but for the addition of transforms. *)
Searching == {"copy", "voxelgrid", "scale"}

=============================================================================
