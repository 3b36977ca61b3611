--------------------------- MODULE MCConfiguration ---------------------------
(* One source, one scene, one item and two outputs.                        *)
EXTENDS Configuration, TLC

Symmetry == Permutations(Output)
=============================================================================
