---------------------------- MODULE AtomicUpdate ----------------------------
(***************************************************************************)
(* What a self-update promises the clients of stt-server: the installed    *)
(* version changes in one step or not at all, and no write a client was    *)
(* told had been accepted is lost on the way, whatever fails.              *)
(***************************************************************************)
EXTENDS Integers

VARIABLES version,    \* "old" or "new"
          accepted,   \* the client writes that are in the database
          updating,   \* an update is under way: clients are refused
          slipped     \* an update went through one of the gaps of the code

updateVars == <<version, accepted, updating, slipped>>

Init == version = "old" /\ accepted = 0 /\ updating = FALSE /\ slipped = FALSE

(* A write lands; one admitted before an update began may land during it.  *)
Accept == accepted' = accepted + 1 /\ UNCHANGED <<version, updating, slipped>>

Begin == ~updating /\ updating' = TRUE /\ UNCHANGED <<version, accepted, slipped>>

Commit == updating /\ version' = "new" /\ updating' = FALSE /\ UNCHANGED <<accepted, slipped>>

Abort == updating /\ updating' = FALSE /\ UNCHANGED <<version, accepted, slipped>>

(* From then on nothing is promised.                                       *)
Slip == slipped' = TRUE

Next == Accept \/ Begin \/ Commit \/ Abort \/ Slip

Spec == Init /\ [][Next]_updateVars
=============================================================================
