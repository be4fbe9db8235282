------------------------- MODULE MCServerLifecycle -------------------------
(* ServerLifecycle for TLC: processes are alike, and so are commands.      *)
EXTENDS ServerLifecycle, TLC

Symmetry == Permutations(Servers) \cup Permutations(Commands)
=============================================================================
