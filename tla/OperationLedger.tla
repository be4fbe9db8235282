--------------------------- MODULE OperationLedger ---------------------------
(***************************************************************************)
(* What the durable operations of stt-server promise their clients.  An    *)
(* operation that has ended keeps its outcome.  A supply (an install or an *)
(* upload) is completed in the very step that puts its model on the shelf, *)
(* so a failed or cancelled one has changed nothing.  A batch may put      *)
(* several, and one more after it was cancelled.  Models leave the shelf   *)
(* at any time.  ManagedStore implements it.                               *)
(***************************************************************************)
CONSTANTS Ops, Models

VARIABLES sort,     \* what each operation is for
          outcome,  \* how it stands
          shelf     \* the models the store manages

ledgerVars == <<sort, outcome, shelf>>

Sorts == {"none", "supply", "batch", "other"}
Ends  == {"completed", "failed", "cancelled"}

Init == /\ sort = [o \in Ops |-> "none"]
        /\ outcome = [o \in Ops |-> "none"]
        /\ shelf \subseteq Models

Asked(o) ==
  /\ sort[o] = "none"
  /\ \E s \in Sorts \ {"none"} : sort' = [sort EXCEPT ![o] = s]
  /\ outcome' \in {outcome, [outcome EXCEPT ![o] = "pending"]}
  /\ UNCHANGED shelf

Accepted(o) ==
  /\ sort[o] # "none" /\ outcome[o] = "none"
  /\ outcome' = [outcome EXCEPT ![o] = "pending"]
  /\ UNCHANGED <<sort, shelf>>

Supplied(o, m) ==
  /\ m \notin shelf /\ shelf' = shelf \cup {m}
  /\ \/ /\ sort[o] = "supply" /\ outcome[o] = "pending"
        /\ outcome' = [outcome EXCEPT ![o] = "completed"]
     \/ /\ sort[o] = "batch" /\ outcome[o] \in {"pending", "cancelled"}
        /\ UNCHANGED outcome
  /\ UNCHANGED sort

(* Without a model: a supply fails or is cancelled; others may have        *)
(* nothing to supply, and may take models away.                            *)
Ended(o) ==
  /\ outcome[o] = "pending"
  /\ \E s \in Ends : /\ sort[o] = "supply" => s # "completed"
                     /\ outcome' = [outcome EXCEPT ![o] = s]
  /\ IF sort[o] = "other" THEN shelf' \subseteq shelf ELSE UNCHANGED shelf
  /\ UNCHANGED sort

Withdrawn == shelf' \subseteq shelf /\ UNCHANGED <<sort, outcome>>

(* The server starts again.                                                *)
Interrupted ==
  /\ outcome' = [o \in Ops |-> IF outcome[o] = "pending" THEN "failed" ELSE outcome[o]]
  /\ UNCHANGED <<sort, shelf>>

Next == \/ \E o \in Ops : Asked(o) \/ Accepted(o) \/ Ended(o)
        \/ \E o \in Ops, m \in Models : Supplied(o, m)
        \/ Withdrawn \/ Interrupted

Spec == Init /\ [][Next]_ledgerVars
===============================================================================
