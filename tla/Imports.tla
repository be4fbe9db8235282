------------------------------- MODULE Imports -------------------------------
(***************************************************************************)
(* Models that come from the client's upload (src/import.rs) or from       *)
(* another install of the same user (src/import_user.rs).  The guard of an *)
(* upload moves its staged file to quarantine and fails the operation,     *)
(* however the handler ends; the copies that an import-user leaves behind  *)
(* are read by nobody and are left out.                                    *)
(***************************************************************************)
EXTENDS ModelTables

ImportCall(o, m) == row[m] = None /\ Call(o, "import", m, "insert")

(* The staged file is created and receives the upload.                     *)
ImportBegin(o) ==
  /\ At(o, "import", "begin")
  /\ staged' = [staged EXCEPT ![o] = Junk]
  /\ Goto(o, "receive")
  /\ UNCHANGED <<tables, file, part, late, world>>

(* Mutant of GuardDrops: the guard cleans up and tells nobody.             *)
GuardDropsSilently(o) ==
  /\ staged' = [staged EXCEPT ![o] = None]
  /\ Quit(o)
  /\ UNCHANGED op

(* ImportGuard::drop.                                                      *)
GuardDrops(o) ==
  /\ staged' = [staged EXCEPT ![o] = None]
  /\ op' = IF op[o].state \in ActiveStates THEN [op EXCEPT ![o].state = "failed"] ELSE op
  /\ Quit(o)

(* All of the upload is there; nobody asks whether it was cancelled.       *)
ImportReceived(o) ==
  /\ At(o, "import", "receive")
  /\ \/ /\ staged' = [staged EXCEPT ![o] = Arg(o)]
        /\ Goto(o, "promote") /\ UNCHANGED op
     \/ /\ staged' = [staged EXCEPT ![o] = None]   \* size or hash mismatch
        /\ Finish(o, "failed")
  /\ UNCHANGED <<sub, row, file, part, late, world>>

(* The client disconnects, sends too much, or a write fails.               *)
ImportCut(o) ==
  /\ At(o, "import", "begin") \/ At(o, "import", "receive")
  /\ GuardDrops(o)
  /\ UNCHANGED <<sub, row, file, part, late, world>>

ImportPromote(o) ==
  LET m == Arg(o)
  IN /\ At(o, "import", "promote")
     /\ \/ /\ op[o].state = "running" /\ row[m] = None
           /\ Promoted(m, "import", staged[o]) /\ tampered' = tampered \ {m}
           /\ staged' = [staged EXCEPT ![o] = None]
           /\ Finish(o, "completed")
        \/ GuardDrops(o) /\ UNCHANGED <<row, file, world>>
     /\ UNCHANGED <<sub, part, late>>

---------------------------------------------------------------------------
(* run_import_user: the operation has no model of its own, and no check    *)
(* for other operations is made.                                           *)
ImportUserCall(o) ==
  /\ server = "up" /\ Unused(o)
  /\ op' = [op EXCEPT ![o] = [kind |-> "import_user", model |-> None, state |-> "queued"]]
  /\ \E found \in SUBSET (Models \cup {Junk}) :
       task' = [task EXCEPT ![o] = [Idle EXCEPT !.pc = "begin", !.todo = found]]
  /\ UNCHANGED <<sub, row, folder, world>>

ImportUserBegin(o) ==
  /\ At(o, "import_user", "begin")
  /\ \/ op' = Updated(o, "running") /\ Goto(o, "next")
     \/ Finish(o, "failed")   \* the source folder cannot be read
  /\ UNCHANGED <<sub, row, folder, world>>

(* The next file of the source folder: skipped unless it is a catalog      *)
(* model's and that model is not installed.                                *)
ImportUserNext(o) ==
  /\ At(o, "import_user", "next") /\ task[o].todo # {}
  /\ \/ Cancelled(o) /\ Quit(o)
     \/ /\ ~Cancelled(o)
        /\ \E d \in task[o].todo :
             task' = [task EXCEPT ![o].todo = @ \ {d}, ![o].arg = d,
                        ![o].pc = IF d \in Models /\ row[d] = None THEN "copy" ELSE "next"]
  /\ UNCHANGED <<tables, folder, world>>

(* The copy is hashed again; a bad one goes to quarantine.                 *)
ImportUserCopy(o) ==
  /\ At(o, "import_user", "copy")
  /\ Goto(o, "sub") \/ Goto(o, "next")
  /\ UNCHANGED <<tables, folder, world>>

(* Each model gets an operation row of its own for the promotion.          *)
ImportUserSub(o) ==
  /\ At(o, "import_user", "sub")
  /\ sub' = [sub EXCEPT ![o] = Arg(o)]
  /\ Goto(o, "promote")
  /\ UNCHANGED <<op, row, folder, world>>

ImportUserPromote(o) ==
  /\ At(o, "import_user", "promote")
  /\ \/ /\ row[Arg(o)] = None
        /\ Promoted(Arg(o), "import_user", Arg(o)) /\ tampered' = tampered \ {Arg(o)}
        /\ sub' = [sub EXCEPT ![o] = None]
     \/ UNCHANGED <<sub, row, file, world>>
  /\ Goto(o, "drop")
  /\ UNCHANGED <<op, part, staged, late>>

ImportUserDropSub(o) ==
  /\ At(o, "import_user", "drop")
  /\ sub' = [sub EXCEPT ![o] = None]
  /\ Goto(o, "next")
  /\ UNCHANGED <<op, row, folder, world>>

ImportUserEnd(o) ==
  /\ At(o, "import_user", "next") /\ task[o].todo = {}
  /\ Finish(o, "completed")
  /\ UNCHANGED <<sub, row, folder, world>>

UploadStep(o) == ImportBegin(o) \/ ImportReceived(o) \/ ImportCut(o) \/ ImportPromote(o)
ImportUserStep(o) ==
  \/ ImportUserBegin(o) \/ ImportUserNext(o) \/ ImportUserCopy(o) \/ ImportUserSub(o)
  \/ ImportUserPromote(o) \/ ImportUserDropSub(o) \/ ImportUserEnd(o)
===============================================================================
