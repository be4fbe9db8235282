----------------------------- MODULE ManagedStore -----------------------------
(***************************************************************************)
(* The managed models of stt-server: downloads, uploads, imports from      *)
(* another install and drop-in refreshes, with verification and removal,   *)
(* cancellation, ends of the server, its reconciliation at the start       *)
(* (src/app.rs), and users who change the folder.                          *)
(***************************************************************************)
EXTENDS Downloads, Imports, DropInRefresh

vars == <<tables, folder, world, task, calm>>

(* What earlier operations can have left: nothing, a part of a download, a *)
(* model from any source, or a registered drop-in.                         *)
Left(m, source, p) ==
  [source |-> source, path |-> p, data |-> m, stamp |-> 0, flag |-> FALSE]

LeftBehind ==
  {[i \in Ids |-> None]} \cup
  {[i \in Ids |-> IF i = m THEN Left(m, s, m) ELSE None] :
     m \in Models, s \in {"catalog_download", "import_user"}} \cup
  {[i \in Ids |-> IF i = d THEN Left(d, "user_folder", p) ELSE None] : d \in Ids, p \in Drops}

Init ==
  /\ row \in LeftBehind
  /\ file = [p \in Paths |-> IF \E i \in Ids : row[i] # None /\ row[i].path = p
                             THEN Recorded(row[CHOOSE i \in Ids : row[i] # None /\ row[i].path = p])
                             ELSE None]
  /\ op = [o \in Ops |-> NoOp]
  /\ sub = [o \in Ops |-> None]
  /\ part = [m \in Models |-> None]
  /\ staged = [o \in Ops |-> None]
  /\ late = [o \in Ops |-> None]
  /\ task = [o \in Ops |-> Idle]
  /\ selection = None
  /\ server = "up"
  /\ faults = 0
  /\ tampered = {}
  /\ calm = {}

---------------------------------------------------------------------------
(* verify_model: the row is read, the operation inserted, the file hashed; *)
(* a confirmed mismatch waits for the selection lock (and the slot).       *)
VerifyCall(o, i) ==
  /\ row[i] # None
  /\ server = "up" /\ Unused(o)
  /\ op' = [op EXCEPT ![o] = [kind |-> "verify", model |-> i, state |-> "none"]]
  /\ task' = [task EXCEPT ![o] = [Idle EXCEPT !.pc = "insert", !.arg = i,
                                  !.snap = [id |-> i, rec |-> row[i]]]]
  /\ UNCHANGED <<sub, row, folder, world>>

VerifyBegin(o) ==
  /\ At(o, "verify", "begin")
  /\ IF Cancelled(o) THEN Quit(o) /\ UNCHANGED op
     ELSE op' = Updated(o, "running") /\ Goto(o, "hash")
  /\ UNCHANGED <<sub, row, folder, world>>

(* found stays None when the file cannot be read or changes meanwhile.     *)
VerifyHash(o) ==
  /\ At(o, "verify", "hash")
  /\ \E seen \in {file[task[o].snap.rec.path], None} :
       task' = [task EXCEPT ![o].pc = "judge", ![o].found = seen]
  /\ UNCHANGED <<tables, folder, world>>

VerifyJudge(o) ==
  LET t == task[o]
      i == t.arg
  IN /\ At(o, "verify", "judge")
     /\ \/ Cancelled(o) /\ Quit(o) /\ UNCHANGED <<op, row>>
        \/ /\ ~Cancelled(o) /\ t.found = None
           /\ row' = Flagged(i) /\ Finish(o, "failed")
        \/ /\ ~Cancelled(o) /\ t.found # None /\ t.found.data = t.snap.rec.data
           /\ row' = IF row[i] = None THEN row
                     ELSE [row EXCEPT ![i].stamp = t.found.stamp, ![i].flag = FALSE]
           /\ Goto(o, "saved") /\ UNCHANGED op
        \/ /\ ~Cancelled(o) /\ t.found # None /\ t.found.data # t.snap.rec.data
           /\ Goto(o, "wait") /\ UNCHANGED <<op, row>>
     /\ UNCHANGED <<sub, folder, world>>

VerifySaved(o) ==
  At(o, "verify", "saved") /\ Finish(o, "completed") /\ UNCHANGED <<sub, row, folder, world>>

(* With both locks and no await: a drop-in is flagged; a managed row goes, *)
(* and the file at its path moves to quarantine.                           *)
VerifyCondemn(o) ==
  LET r == task[o].snap
  IN /\ At(o, "verify", "wait") /\ selection = None
     /\ \/ Cancelled(o) /\ Quit(o) /\ UNCHANGED <<op, row, file>>
        \/ /\ ~Cancelled(o) /\ r.rec.source = "user_folder"
           /\ row' = Flagged(r.id) /\ Finish(o, "failed") /\ UNCHANGED file
        \/ /\ ~Cancelled(o) /\ r.rec.source # "user_folder"
           /\ row' = [row EXCEPT ![r.id] = None]
           /\ file' = [file EXCEPT ![r.rec.path] = None]
           /\ Finish(o, "failed")
     /\ UNCHANGED <<sub, part, staged, late, world>>

VerifyStep(o) ==
  VerifyBegin(o) \/ VerifyHash(o) \/ VerifyJudge(o) \/ VerifySaved(o) \/ VerifyCondemn(o)

---------------------------------------------------------------------------
(* remove_model holds the selection lock.  It has no operation row; the    *)
(* slot's kind says what the caller does.                                  *)
RemoveCall(o, i) == Call(o, "remove", i, "lock")

Release(o) == selection' = None /\ Quit(o) /\ UNCHANGED <<server, faults, tampered>>
Holding    == UNCHANGED <<server, faults, tampered>>

RemoveLock(o) ==
  /\ At(o, "remove", "lock") /\ selection = None
  /\ \/ /\ ~Active(Arg(o))
        /\ selection' = o /\ Goto(o, "look") /\ Holding
     \/ Active(Arg(o)) /\ Quit(o) /\ UNCHANGED world
  /\ UNCHANGED <<tables, folder>>

(* Not installed, the default, or to be removed.                           *)
RemoveLook(o) ==
  /\ At(o, "remove", "look")
  /\ \/ Release(o)
     \/ /\ row[Arg(o)] # None
        /\ task' = [task EXCEPT ![o].snap = [id |-> Arg(o), rec |-> row[Arg(o)]],
              ![o].pc = IF Managed(row[Arg(o)]) THEN "move" ELSE "forget"]
        /\ UNCHANGED world
  /\ UNCHANGED <<tables, folder>>

RemoveForget(o) ==
  /\ At(o, "remove", "forget")
  /\ row' = [row EXCEPT ![Arg(o)] = None]
  /\ Release(o)
  /\ UNCHANGED <<op, sub, folder>>

(* The file moves to staging/<uuid>.deleting; a missing file is an error.  *)
RemoveMove(o) ==
  LET p == task[o].snap.rec.path
  IN /\ At(o, "remove", "move")
     /\ \/ file[p] # None /\ file' = [file EXCEPT ![p] = None] /\ Goto(o, "delete") /\ UNCHANGED world
        \/ Release(o) /\ UNCHANGED file
     /\ UNCHANGED <<tables, part, staged, late>>

RemoveDelete(o) ==
  /\ At(o, "remove", "delete")
  /\ row' = [row EXCEPT ![Arg(o)] = None]
  /\ Release(o)
  /\ UNCHANGED <<op, sub, folder>>

(* The client disconnects: while the call waits for the lock, or while the *)
(* move it has started goes on, which then nobody finishes.                *)
RemoveCut(o) ==
  /\ \/ At(o, "remove", "lock") /\ Quit(o) /\ UNCHANGED world
     \/ /\ At(o, "remove", "delete")
        /\ tampered' = tampered \cup {task[o].snap.rec.path}
        /\ selection' = None /\ Quit(o) /\ UNCHANGED <<server, faults>>
  /\ UNCHANGED <<tables, folder>>

RemoveStep(o) ==
  RemoveLock(o) \/ RemoveLook(o) \/ RemoveForget(o) \/ RemoveMove(o) \/ RemoveDelete(o)

---------------------------------------------------------------------------
(* A user, or a fault, changes, adds or deletes a file.                    *)
EditFile ==
  /\ faults < MaxFaults
  /\ faults' = faults + 1
  /\ \E p \in Paths :
       /\ \E f \in {None} \cup {[data |-> d, stamp |-> faults'] : d \in Data} :
            file' = [file EXCEPT ![p] = f]
       /\ tampered' = tampered \cup {p}
  /\ UNCHANGED <<tables, part, staged, late, task, selection, server>>

(* A promotion has renamed its file, and its commit never comes.           *)
HalfPromoted(o, m) ==
  /\ task[o].pc = "promote" /\ Arg(o) = m /\ row[m] = None
  /\ op[o].kind # "import_user" => op[o].state = "running"
  /\ \/ /\ op[o].kind = "install" /\ part[m] # None
        /\ part' = [part EXCEPT ![m] = None]
        /\ file' = [file EXCEPT ![m] = [data |-> PartData(m), stamp |-> 0]]
        /\ UNCHANGED staged
     \/ /\ op[o].kind = "import"
        /\ staged' = [staged EXCEPT ![o] = None]
        /\ file' = [file EXCEPT ![m] = [data |-> staged[o], stamp |-> 0]]
        /\ UNCHANGED part
     \/ /\ op[o].kind = "import_user"
        /\ file' = [file EXCEPT ![m] = [data |-> m, stamp |-> 0]]
        /\ UNCHANGED <<part, staged>>

(* The process ends, maybe in the middle of a promotion.                   *)
Crash ==
  /\ server # "down" /\ faults < MaxFaults
  /\ faults' = faults + 1 /\ server' = "down" /\ selection' = None
  /\ \/ UNCHANGED <<file, part, staged>>
     \/ \E o \in Ops, m \in Models : HalfPromoted(o, m)
  /\ task' = [o \in Ops |-> Idle]
  /\ late' = [o \in Ops |-> None]
  /\ UNCHANGED <<tables, tampered>>

(* open_app_at_full: interrupted operations fail, and the uploads of       *)
(* failed imports leave the staging folder.                                *)
Sweep ==
  /\ server = "down"
  /\ op' = [o \in Ops |-> IF op[o].state \in ActiveStates
                          THEN [op[o] EXCEPT !.state = "failed"] ELSE op[o]]
  /\ sub' = [o \in Ops |-> None]
  /\ staged' = [o \in Ops |-> IF op'[o].kind = "import" /\ op'[o].state = "failed"
                              THEN None ELSE staged[o]]
  /\ server' = "swept"
  /\ UNCHANGED <<row, file, part, late, task, selection, faults, tampered>>

(* reconcile_installed compares size and time only, and never hashes; it   *)
(* may find a file locked.                                                 *)
Reconciled(r, locked) ==
  IF r = None THEN None
  ELSE IF r.source = "user_folder" /\ file[r.path] = None THEN None
  ELSE IF locked \/ file[r.path] # Recorded(r) THEN [r EXCEPT !.flag = TRUE]
  ELSE r

(* ... and prune_staging removes what is old, or installed.                *)
Reconcile ==
  /\ server = "swept"
  /\ \E locked \in SUBSET Ids : row' = [i \in Ids |-> Reconciled(row[i], i \in locked)]
  /\ \E old \in SUBSET Models :
       part' = [m \in Models |->
                  IF \/ m \in old
                     \/ \E i \in Ids : /\ row'[i] # None /\ row'[i].data = m
                                       /\ ~row'[i].flag /\ file[row'[i].path] # None
                  THEN None ELSE part[m]]
  /\ server' = "up"
  /\ UNCHANGED <<op, sub, file, staged, late, task, selection, faults, tampered>>

---------------------------------------------------------------------------
TaskStep(o) == \/ Insert(o) \/ DownloadStep(o) \/ UploadStep(o) \/ ImportUserStep(o)
               \/ VerifyStep(o) \/ RemoveStep(o) \/ RefreshStep(o)

Calls(o) == \/ \E m \in Models : InstallCall(o, m) \/ ImportCall(o, m)
            \/ \E i \in Ids : VerifyCall(o, i) \/ RemoveCall(o, i)
            \/ ImportUserCall(o)

(* calm keeps the refreshes beside which nothing else has moved.           *)
Next ==
  \/ \E o \in Ops : TaskStep(o) /\ calm' = IF task'[o] = Idle THEN {} ELSE calm \cap {o}
  \/ \E o \in Ops : Calls(o) /\ calm' = {}
  \/ \E o \in Ops : RefreshCall(o) /\ calm' = IF \A x \in Ops : task[x] = Idle THEN {o} ELSE {}
  \/ \E o \in Ops : (Cancel(o) \/ RemoveCut(o) \/ WriteLands(o)) /\ calm' = calm \cap {o}
  \/ (EditFile \/ Crash \/ Sweep \/ Reconcile) /\ calm' = {}

Spec == Init /\ [][Next]_vars

---------------------------------------------------------------------------
TypeOK ==
  /\ op \in [Ops -> [kind : Kinds, model : Ids \cup {None}, state : States]]
  /\ sub \in [Ops -> Models \cup {None}]
  /\ row \in [Ids -> Row \cup {None}]
  /\ file \in [Paths -> File \cup {None}]
  /\ \A m \in Models : part[m] = None \/ part[m] \in Part
  /\ staged \in [Ops -> Models \cup {Junk, None}]
  /\ \A o \in Ops : task[o].off \in 0 .. Chunks /\ task[o].tries \in 0 .. MaxTries - 1
  /\ selection \in Ops \cup {None}
  /\ server \in {"down", "swept", "up"}
  /\ tampered \subseteq Paths /\ calm \subseteq Ops

(* Removing m has moved the file and not yet deleted the row.              *)
Removing(m) == \E o \in Ops : At(o, "remove", "delete") /\ Arg(o) = m

(* While the server serves, a managed model that is not flagged has its    *)
(* file, and the file has the catalog's bytes: whatever sources sent, in   *)
(* whatever order cancelled and resumed downloads wrote, and wherever the  *)
(* server was stopped.  The exceptions, which tampered keeps until the     *)
(* model is promoted again: a file changed by others; a removal whose      *)
(* client left; and a .part that the late answer to a cancelled download   *)
(* truncated or removed after the download in its place had hashed it, and *)
(* before it renamed it.  The last is a finding: the code promotes what is *)
(* left without a second look.                                             *)
InstalledIsCatalog ==
  server = "up" =>
    \A m \in Models :
      Managed(row[m]) /\ ~row[m].flag /\ row[m].path \notin tampered /\ ~Removing(m)
        => file[row[m].path] # None /\ file[row[m].path].data = m

(* Nothing is left behind by a task that ended, however it ended: an       *)
(* operation that is queued or running has a task that will end it, a sub- *)
(* operation lives no longer than the import that made it (either would    *)
(* block every later operation on its model), and a staged upload belongs  *)
(* to a handler that runs, or to an import that was cancelled.             *)
NothingOrphaned ==
  server = "up" =>
    \A o \in Ops :
      /\ op[o].state \in ActiveStates => task[o] # Idle
      /\ sub[o] # None => At(o, "import_user", "promote") \/ At(o, "import_user", "drop")
      /\ staged[o] # None => task[o] # Idle \/ Cancelled(o)

(* A refresh whose folder is gone looks at no row: its rows stay as they   *)
(* were, unflagged, though their files are gone with the folder.           *)
FoundNoFolder(o) == At(o, "refresh", "folder") /\ \A p \in Paths : file[p] = None

(* What a refresh that nothing disturbed leaves: every usable file it met  *)
(* without a row is registered under some id, and every drop-in that is    *)
(* not flagged is the file its row describes.  A file it met with a row    *)
(* may have lost that row: a changed file that has become a catalog        *)
(* model's keeps its old id, which another file's content may claim.  The *)
(* exception, a finding, is the refresh that found no folder.              *)
TableAgrees(o) ==
  /\ \A p \in Paths \ (task[o].listed \cup task[o].seen) :
       file[p] # None /\ file[p].data # Junk
         => \E i \in Ids : row[i] # None /\ row[i].data = file[p].data
  /\ \A i \in Ids :
       row[i] # None /\ row[i].source = "user_folder" /\ ~row[i].flag
         => file[row[i].path] = Recorded(row[i])

RefreshAgrees ==
  [][\A o \in calm : op[o].kind = "refresh" /\ op[o].state = "running" /\ op'[o].state = "completed"
       => TableAgrees(o) \/ FoundNoFolder(o)]_vars

Sort(k) == IF k \in {"install", "import"} THEN "supply"
           ELSE IF k = "import_user" THEN "batch"
           ELSE IF k = "none" THEN "none" ELSE "other"

Ledger == INSTANCE OperationLedger WITH
            sort    <- [o \in Ops |-> Sort(op[o].kind)],
            outcome <- [o \in Ops |-> IF op[o].state \in ActiveStates THEN "pending"
                                      ELSE op[o].state],
            shelf   <- {m \in Models : Managed(row[m])}

(* The tables, tasks and restarts implement the ledger.                    *)
ImplementsLedger == Ledger!Spec
===============================================================================
