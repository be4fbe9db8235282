------------------------- MODULE MCUpdateTransaction -------------------------
(***************************************************************************)
(* TLC instances of UpdateTransaction, and the refinement of AtomicUpdate: *)
(* while a transaction is pending the old version and the snapshot count,  *)
(* once there is one; otherwise what is on disk.                           *)
(***************************************************************************)
EXTENDS UpdateTransaction

WritesIn(d) == IF d = NoDb THEN 0 ELSE d.writes

Atomic == INSTANCE AtomicUpdate WITH
            version  <- IF Maintenance THEN "old" ELSE exe,
            accepted <- WritesIn(IF Maintenance /\ journal.snap THEN snapshot ELSE db),
            updating <- Maintenance,
            slipped  <- "commitUnsaved" \in slips

(* The journalled transaction implements the atomic update, up to a save of*)
(* "committed" that fails.                                                 *)
ImplementsAtomicUpdate == Atomic!Spec
==============================================================================
