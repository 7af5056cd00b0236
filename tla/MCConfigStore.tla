--------------------------- MODULE MCConfigStore ---------------------------
(* Three entries, of which imports may repeat ids, and two groups.         *)
EXTENDS ConfigStore, TLC

CONSTANTS i1, i2, i3

Symmetry == Permutations(Ids)
=============================================================================
