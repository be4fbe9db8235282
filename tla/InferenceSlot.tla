---------------------------- MODULE InferenceSlot ----------------------------
(***************************************************************************)
(* What the inference queue promises its callers, without entries, grants  *)
(* in flight or a busy flag: one slot with at most one owner, two lines of *)
(* callers that still want it, and a slot that goes from its owner to the  *)
(* head of the urgent line, else of the ordinary one, else to nobody.      *)
(***************************************************************************)
EXTENDS Integers, Sequences

CONSTANTS Callers, Nobody

VARIABLES owner, urgent, ordinary

slotVars == <<owner, urgent, ordinary>>

Line == urgent \o ordinary

Wants(c) == \E i \in 1..Len(Line) : Line[i] = c

(* The line after the caller left it: nobody stands in it twice.           *)
Dropped(q, c) ==
  IF \E i \in 1..Len(q) : q[i] = c
  THEN LET i == CHOOSE j \in 1..Len(q) : q[j] = c
       IN  SubSeq(q, 1, i - 1) \o SubSeq(q, i + 1, Len(q))
  ELSE q

Init == owner = Nobody /\ urgent = <<>> /\ ordinary = <<>>

(* A free slot is taken at once: nobody can be waiting for it.             *)
Take(c) ==
  /\ owner = Nobody /\ Line = <<>>
  /\ owner' = c
  /\ UNCHANGED <<urgent, ordinary>>

Wait(c) ==
  /\ owner \notin {Nobody, c} /\ ~Wants(c)
  /\ \/ urgent' = Append(urgent, c) /\ UNCHANGED ordinary
     \/ ordinary' = Append(ordinary, c) /\ UNCHANGED urgent
  /\ UNCHANGED owner

Leave(c) ==
  /\ Wants(c)
  /\ urgent' = Dropped(urgent, c) /\ ordinary' = Dropped(ordinary, c)
  /\ UNCHANGED owner

Pass ==
  /\ owner # Nobody
  /\ \/ /\ urgent # <<>>
        /\ owner' = Head(urgent) /\ urgent' = Tail(urgent) /\ UNCHANGED ordinary
     \/ /\ urgent = <<>> /\ ordinary # <<>>
        /\ owner' = Head(ordinary) /\ ordinary' = Tail(ordinary) /\ UNCHANGED urgent
     \/ /\ urgent = <<>> /\ ordinary = <<>>
        /\ owner' = Nobody /\ UNCHANGED <<urgent, ordinary>>

Next == Pass \/ \E c \in Callers : Take(c) \/ Wait(c) \/ Leave(c)

(* An owner eventually passes the slot on.                                 *)
Spec == Init /\ [][Next]_slotVars /\ WF_slotVars(Pass)
=============================================================================
