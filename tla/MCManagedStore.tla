--------------------------- MODULE MCManagedStore ---------------------------
(* ManagedStore for TLC.  The calls are numbered in the order in which they *)
(* come, so that there is no symmetry left to use.                          *)
EXTENDS ManagedStore
=============================================================================
