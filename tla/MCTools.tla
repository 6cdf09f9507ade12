------------------------------- MODULE MCTools -------------------------------
(* Instances of Tools for TLC: an entity at the root, and one in a tree.   *)
EXTENDS Tools

CONSTANTS a, f, b, t1, t2, w1, w2

MCTool == {t1, t2}
MCName == {w1, w2}

Alike == Permutations(MCTool) \union Permutations(MCName)

MCWalk == <<<<a>>, <<f>>, <<f, b>>>>
MCFolder == {<<f>>}

=============================================================================
