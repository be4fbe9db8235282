---------------------------- MODULE MCDataFolder ----------------------------
(* DataFolder for TLC: starts of one process are those of any other.       *)
EXTENDS DataFolder, TLC

Symmetry == Permutations(Starters)
=============================================================================
