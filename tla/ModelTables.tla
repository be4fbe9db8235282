----------------------------- MODULE ModelTables -----------------------------
(***************************************************************************)
(* The tables and folders that the model management of stt-server shares:  *)
(* the operations and installed tables of state.db, the models folder and  *)
(* the staging folder, and the tasks that change them.                     *)
(*                                                                         *)
(* Each statement under the database lock is one step; so is each file     *)
(* operation.  A catalog model has one file, models/<sha256>.gguf, named   *)
(* here by the model.  The drop-in folder is the models folder, as it is   *)
(* by default.  What a file holds is a catalog model's bytes, those of a   *)
(* custom model (a header the engine supports) or junk; files that differ  *)
(* differ in size or time, so a stat tells whether a file is the recorded  *)
(* one.                                                                    *)
(***************************************************************************)
EXTENDS Integers

CONSTANTS Models,      \* catalog models, and the names of their files
          Customs,     \* custom models, named by their content
          Drops,       \* the names of other .gguf files in the folder
          Junk, None,
          Chunks,      \* the length of a catalog file, in chunks
          MaxTries,    \* RETRY_BACKOFFS.len()
          MaxOps,      \* bound: operations and removals called
          MaxFaults    \* bound: ends of the server, and changes of the folder by others

ASSUME NamesAssumption  == /\ Models \cap (Customs \cup Drops) = {}
                           /\ {Junk, None} \cap (Models \cup Customs \cup Drops) = {}
ASSUME ChunksAssumption == Chunks \in Nat \ {0} /\ MaxTries \in Nat \ {0}
ASSUME BoundsAssumption == MaxOps \in Nat /\ MaxFaults \in Nat

VARIABLES op,        \* the operations table: kind, model and state
          sub,       \* the model of the running sub-operation of an import-user
          row,       \* the installed table
          file,      \* the models folder
          part,      \* staging/<sha256>.part
          staged,    \* staging/<operation>.part of an upload
          late,      \* a write handed to the pool that has not reached the file
          task,      \* where each operation's task stands
          selection, \* who holds the selection lock
          server,    \* "down", "swept" or "up"
          faults,    \* of MaxFaults, how many happened
          tampered,  \* files changed by others, by a removal cut short, or between
                     \* the hash and the rename by the answer to a cancelled download
          calm       \* refreshes that ran while nothing else moved

tables == <<op, sub, row>>
folder == <<file, part, staged, late>>
world  == <<selection, server, faults, tampered>>

Ops == 1 .. MaxOps

Paths == Models \cup Drops
Ids   == Models \cup Customs
Data  == Models \cup Customs \cup {Junk}
Kinds == {"none", "install", "import", "import_user", "verify", "refresh", "remove"}
States == {"none", "queued", "running", "completed", "failed", "cancelled"}
Sources == {"catalog_download", "import", "import_user", "user_folder"}
Stamps == 0 .. MaxFaults

File == [data : Data, stamp : Stamps]
Row  == [source : Sources, path : Paths, data : Data,
         stamp : Stamps \cup {None}, flag : BOOLEAN]
Snap == [id : Ids, rec : Row]
Part  == [len : Nat, good : BOOLEAN]
Write == [model : Models, pos : Nat, end : BOOLEAN, good : BOOLEAN]

ASSUME NoneAssumption ==
  None \notin File \cup Row \cup Snap \cup Part \cup Write \cup Ops \cup Stamps
             \cup [data : Data, stamp : {None}]

NoOp == [kind |-> "none", model |-> None, state |-> "none"]

(* pc: the place in the code.  arg: the model, id or path in hand.  off:   *)
(* bytes received.  handle: the open .part ("end" appends, "gone" when the *)
(* name no longer leads to it, or to what was hashed).  todo, seen: what a *)
(* loop has left and has settled; listed: files reported as unreadable.    *)
(* snap: a row read earlier.  found: what a hash or stat saw.              *)
Idle == [pc |-> "idle", arg |-> None, off |-> 0, handle |-> "none", tries |-> 0,
         todo |-> {}, seen |-> {}, listed |-> {}, snap |-> None, found |-> None]

At(o, kind, place) == op[o].kind = kind /\ task[o].pc = place
Arg(o) == task[o].arg

ActiveStates == {"queued", "running"}
Cancelled(o) == op[o].state = "cancelled"

(* SELECT count over the active operations of a model.                     *)
Active(m) == \E o \in Ops : \/ op[o].model = m /\ op[o].state \in ActiveStates
                            \/ sub[o] = m

(* update_operation_with_code: a cancelled operation keeps its state.      *)
Updated(o, s) == IF Cancelled(o) THEN op ELSE [op EXCEPT ![o].state = s]

Goto(o, place) == task' = [task EXCEPT ![o].pc = place]
Quit(o)        == task' = [task EXCEPT ![o] = Idle]
Finish(o, s)   == op' = Updated(o, s) /\ Quit(o)

(* The next call.  An id is never used again.                              *)
Unused(o) == op[o].kind = "none" /\ \A x \in 1 .. o - 1 : op[x].kind # "none"
Call(o, kind, id, place) ==
  /\ server = "up" /\ Unused(o)
  /\ op' = [op EXCEPT ![o] = [kind |-> kind, model |-> id, state |-> "none"]]
  /\ task' = [task EXCEPT ![o] = [Idle EXCEPT !.pc = place, !.arg = id]]
  /\ UNCHANGED <<sub, row, folder, world>>

(* Install, import and verify: the check for an active operation and the   *)
(* INSERT are one critical section; what was read before is not.           *)
Insert(o) ==
  /\ task[o].pc = "insert"
  /\ \/ Active(Arg(o)) /\ Quit(o) /\ UNCHANGED op
     \/ /\ ~Active(Arg(o))
        /\ op' = [op EXCEPT ![o].state = IF op[o].kind = "import" THEN "running" ELSE "queued"]
        /\ Goto(o, "begin")
  /\ UNCHANGED <<sub, row, folder, world>>

(* cancel_operation: its UPDATE repeats the condition it has read.         *)
Cancel(o) ==
  /\ server = "up" /\ op[o].state \in ActiveStates
  /\ op' = [op EXCEPT ![o].state = "cancelled"]
  /\ UNCHANGED <<sub, row, folder, task, world>>

Managed(r) == r # None /\ r.source # "user_folder"

(* promote_verified_model_with_source inserts the row, renames the staged  *)
(* file, whatever it holds, and completes the operation in one transaction.*)
Promoted(m, source, content) ==
  /\ row' = [row EXCEPT ![m] = [source |-> source, path |-> m, data |-> m,
                                stamp |-> 0, flag |-> FALSE]]
  /\ file' = [file EXCEPT ![m] = [data |-> content, stamp |-> 0]]
  /\ UNCHANGED <<selection, server, faults>>
===============================================================================
