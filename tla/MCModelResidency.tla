-------------------------- MODULE MCModelResidency --------------------------
(* ModelResidency for TLC: the requests are alike, and so are the          *)
(* administrative callers, which the safety run uses.                      *)
EXTENDS ModelResidency, TLC

Symmetry == Permutations(Requests) \cup Permutations(Admins)
=============================================================================
