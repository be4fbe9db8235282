--------------------------- MODULE MCInferenceQueue ---------------------------
(***************************************************************************)
(* TLC instances of InferenceQueue, and the refinement of InferenceSlot.   *)
(***************************************************************************)
EXTENDS InferenceQueue, FiniteSets, TLC

CONSTANT Nobody

Symmetry == Permutations(Requests) \cup Permutations(Models)

(* The owner is whoever's future, worker or channel holds the permit; the  *)
(* lines are the entries whose futures still exist.                        *)
Slot == INSTANCE InferenceSlot WITH
          owner    <- IF \E c \in Callers : Owns(c)
                      THEN CHOOSE c \in Callers : Owns(c) ELSE Nobody,
          urgent   <- SelectSeq(interactive, Live),
          ordinary <- SelectSeq(normal, Live)

(* The queue, with its entries, dead receivers and grants in flight,       *)
(* implements the single slot with two lines.                              *)
ImplementsSlot == Slot!Spec
===============================================================================
