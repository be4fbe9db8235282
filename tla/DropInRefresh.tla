---------------------------- MODULE DropInRefresh ----------------------------
(***************************************************************************)
(* The refresh of the drop-in folder (src/dropin.rs): the rows it          *)
(* registered before, then the files of the folder.  It works on a         *)
(* snapshot of its rows, takes no lock across its steps and does not look  *)
(* at its own cancellation.  What it does to the default and the loaded    *)
(* model is in ModelResidency.                                             *)
(***************************************************************************)
EXTENDS ModelTables

RefreshCall(o) ==
  /\ server = "up" /\ Unused(o)
  /\ op' = [op EXCEPT ![o] = [kind |-> "refresh", model |-> None, state |-> "queued"]]
  /\ task' = [task EXCEPT ![o] = [Idle EXCEPT !.pc = "begin"]]
  /\ UNCHANGED <<sub, row, folder, world>>

UserRows == {r \in {[id |-> i, rec |-> row[i]] : i \in Ids} :
               r.rec # None /\ r.rec.source = "user_folder"}

RefreshBegin(o) ==
  /\ At(o, "refresh", "begin")
  /\ op' = Updated(o, "running") /\ Goto(o, "folder")
  /\ UNCHANGED <<sub, row, folder, world>>

(* The folder is listed and the rows are read; or the folder is not known  *)
(* or cannot be listed; or it is not there, and no row is looked at.       *)
RefreshFolder(o) ==
  /\ At(o, "refresh", "folder")
  /\ \/ task' = [task EXCEPT ![o].pc = "rows", ![o].todo = UserRows] /\ UNCHANGED op
     \/ Finish(o, "failed")
     \/ (\A p \in Paths : file[p] = None) /\ Finish(o, "completed")
  /\ UNCHANGED <<sub, row, folder, world>>

Recorded(rec) == [data |-> rec.data, stamp |-> rec.stamp]

Flagged(i) == IF row[i] = None THEN row ELSE [row EXCEPT ![i].flag = TRUE]

(* upsert_user_folder_row: ON CONFLICT takes the row over, whoever made it.*)
Upserted(i, p, d, stamp) ==
  [row EXCEPT ![i] = [source |-> "user_folder", path |-> p, data |-> d,
                      stamp |-> stamp, flag |-> FALSE]]

Settled(o, p, bad) ==
  task' = [task EXCEPT ![o].pc = "rows", ![o].seen = @ \cup {p}, ![o].listed = @ \cup bad,
                       ![o].snap = None, ![o].found = None]

(* Mutant of RefreshRow: a file that is there counts as unchanged.         *)
RefreshRowUnread(o) ==
  /\ At(o, "refresh", "rows")
  /\ \E r \in task[o].todo :
       LET p == r.rec.path
       IN /\ row' = IF file[p] = None THEN [row EXCEPT ![r.id] = None] ELSE row
          /\ task' = [task EXCEPT ![o].todo = @ \ {r}, ![o].seen = @ \cup {p}]
  /\ UNCHANGED <<op, sub, folder, world>>

(* The stat of one registered file: gone, unreadable, unchanged, or to be  *)
(* hashed again.  The time is read before the hash.                        *)
RefreshRow(o) ==
  /\ At(o, "refresh", "rows")
  /\ \E r \in task[o].todo :
       LET p    == r.rec.path
           rest == [task EXCEPT ![o].todo = @ \ {r}]
       IN \/ /\ file[p] = None
             /\ row' = [row EXCEPT ![r.id] = None] /\ task' = rest
          \/ /\ file[p] # None
             /\ row' = Flagged(r.id)
             /\ task' = [rest EXCEPT ![o].seen = @ \cup {p}, ![o].listed = @ \cup {p}]
          \/ /\ file[p] = Recorded(r.rec) /\ ~r.rec.flag
             /\ task' = [rest EXCEPT ![o].seen = @ \cup {p}] /\ UNCHANGED row
          \/ /\ file[p] # None /\ (file[p] # Recorded(r.rec) \/ r.rec.flag)
             /\ task' = [rest EXCEPT ![o].pc = "rehash", ![o].snap = r,
                                     ![o].found = file[p]]
             /\ UNCHANGED row
  /\ UNCHANGED <<op, sub, folder, world>>

(* hash_and_probe of a changed file; a failure keeps the row, flagged.     *)
RefreshRehash(o) ==
  LET r == task[o].snap
      p == r.rec.path
  IN /\ At(o, "refresh", "rehash")
     /\ \/ /\ row' = Flagged(r.id) /\ Settled(o, p, {p})
        \/ /\ file[p] # None
           /\ task' = [task EXCEPT ![o].pc = "store", ![o].found.data = file[p].data]
           /\ UNCHANGED row
     /\ UNCHANGED <<op, sub, folder, world>>

(* A catalog match keeps the row's id; a custom model gets the id of its   *)
(* content, and an old id that differs goes in a step of its own; anything *)
(* else is unregistered.                                                   *)
RefreshStore(o) ==
  LET r == task[o].snap
      p == r.rec.path
      d == task[o].found.data
  IN /\ At(o, "refresh", "store")
     /\ \/ /\ d \in Models
           /\ row' = Upserted(r.id, p, d, task[o].found.stamp) /\ Settled(o, p, {})
        \/ /\ d \in Customs
           /\ row' = Upserted(d, p, d, task[o].found.stamp)
           /\ IF d = r.id THEN Settled(o, p, {}) ELSE Goto(o, "unregister")
        \/ d = Junk /\ row' = [row EXCEPT ![r.id] = None] /\ Settled(o, p, {})
     /\ UNCHANGED <<op, sub, folder, world>>

RefreshUnregister(o) ==
  LET r == task[o].snap
  IN /\ At(o, "refresh", "unregister")
     /\ row' = [row EXCEPT ![r.id] = None]
     /\ Settled(o, r.rec.path, {})
     /\ UNCHANGED <<op, sub, folder, world>>

(* The files of the folder that the rows did not account for.              *)
RefreshCollect(o) ==
  /\ At(o, "refresh", "rows") /\ task[o].todo = {}
  /\ task' = [task EXCEPT ![o].pc = "scan",
                ![o].todo = {p \in Paths : file[p] # None /\ p \notin task[o].seen}]
  /\ UNCHANGED <<tables, folder, world>>

(* One of them is hashed: an error or an unsupported file is only listed.  *)
RefreshHash(o) ==
  /\ At(o, "refresh", "scan")
  /\ \E p \in task[o].todo :
       LET rest == [task EXCEPT ![o].todo = @ \ {p}]
       IN \/ file[p] # None /\ file[p].data = Junk /\ task' = rest
          \/ task' = [rest EXCEPT ![o].listed = @ \cup {p}]
          \/ /\ file[p] # None /\ file[p].data # Junk
             /\ task' = [rest EXCEPT ![o].arg = p, ![o].found = file[p],
                          ![o].pc = IF file[p].data \in Models THEN "match" ELSE "register"]
  /\ UNCHANGED <<tables, folder, world>>

(* installed_from_managed_store knows two of the three managed sources.    *)
InstalledFromManagedStore(m) ==
  row[m] # None /\ row[m].source \in {"catalog_download", "import"}

RefreshMatch(o) ==
  /\ At(o, "refresh", "match")
  /\ task' = [task EXCEPT ![o].pc =
                IF InstalledFromManagedStore(task[o].found.data) THEN "scan" ELSE "register"]
  /\ UNCHANGED <<tables, folder, world>>

(* The time is read again, after the hash.                                 *)
RefreshRegister(o) ==
  LET p == Arg(o)
      d == task[o].found.data
  IN /\ At(o, "refresh", "register")
     /\ row' = Upserted(d, p, d, IF file[p] = None THEN None ELSE file[p].stamp)
     /\ task' = [task EXCEPT ![o].pc = "scan", ![o].arg = None, ![o].found = None]
     /\ UNCHANGED <<op, sub, folder, world>>

RefreshEnd(o) ==
  /\ At(o, "refresh", "scan") /\ task[o].todo = {}
  /\ Finish(o, "completed")
  /\ UNCHANGED <<sub, row, folder, world>>

RefreshStep(o) ==
  \/ RefreshBegin(o) \/ RefreshFolder(o) \/ RefreshRow(o) \/ RefreshRehash(o)
  \/ RefreshStore(o) \/ RefreshUnregister(o) \/ RefreshCollect(o) \/ RefreshHash(o)
  \/ RefreshMatch(o) \/ RefreshRegister(o) \/ RefreshEnd(o)
===============================================================================
