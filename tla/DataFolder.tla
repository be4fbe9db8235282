----------------------------- MODULE DataFolder -----------------------------
(***************************************************************************)
(* What a start does before it serves: it finds its data folder and moves  *)
(* the folder of an older install to the new name (src/app.rs), takes the  *)
(* folder's locks, makes or reads the two tokens, and migrates the         *)
(* database to the schema of its executable (migrate in src/store.rs).     *)
(* Executables of several versions may be started, any number of times,    *)
(* and a start may fail or be killed at every step.                        *)
(*                                                                         *)
(* A schema is a number; 1 is the one that carried no version.  The two    *)
(* locks, which ServerLifecycle takes apart, are one here.                 *)
(***************************************************************************)
EXTENDS Integers

CONSTANTS Starters,   \* processes that start a server
          Newest,     \* the newest schema
          None

ASSUME SchemaAssumption   == Newest \in Nat /\ Newest >= 2
ASSUME StartersAssumption == None \notin Starters

Versions == 2..Newest           \* the schemas executables are built for
Kinds    == {"admin", "user"}   \* auth.token and user.token
Names    == {"new", "old"}

VARIABLES folder,    \* what is on disk under either name, or None
          starter    \* the processes; overtaken is history: the old folder
                     \* was moved by another since this one looked

vars == <<folder, starter>>

(* A folder: its token files, the version and the schema of its database,  *)
(* whether that holds what the install has gathered, the copies made of    *)
(* it, and who holds its locks.  A copy has its schema, 0 when torn.  Two  *)
(* are history: was is the schema the database had when its version was    *)
(* last set, and cut says that since then a start has died between         *)
(* changing the schema and setting the version.                            *)
Empty == [token |-> [k \in Kinds |-> None], version |-> 0, schema |-> 0, was |-> 0, cut |-> FALSE,
          data |-> FALSE, copies |-> [v \in 1..Newest |-> None], owner |-> None]

Folders == [token : [Kinds -> {"empty", "whole", None}], version : 0..Newest, schema : 0..Newest,
            was : 0..Newest, cut : BOOLEAN, data : BOOLEAN, copies : [1..Newest -> 0..Newest \cup {None}],
            owner : Starters \cup {None}]

ASSUME NoneAssumption == None \notin Folders

(* Folders an earlier version has left; the user token came later.         *)
Left == {[token   |-> [k \in Kinds |-> IF k = "admin" THEN "whole" ELSE t],
          version |-> IF s = 1 THEN 0 ELSE s, schema |-> s, was |-> s, cut |-> FALSE,
          data    |-> TRUE, copies  |-> [v \in 1..Newest |-> None], owner |-> None] :
           t \in {"whole", None}, s \in 1..Newest}

Begun(place, v) == [pc |-> place, version |-> v, at |-> "new", overtaken |-> FALSE]
Off == Begun("off", 2)

Init ==
  /\ starter = [p \in Starters |-> Off]
  /\ \/ folder = [n \in Names |-> None]
     \/ \E n \in Names, f \in Left : folder = [m \in Names |-> IF m = n THEN f ELSE None]

------------------------------------------------------------------------------

Exists(n) == folder[n] # None
Mine(p)   == folder[starter[p].at]
At(p, place)   == starter[p].pc = place
Goto(p, place) == starter' = [starter EXCEPT ![p].pc = place]
Change(p, f)   == folder' = [folder EXCEPT ![starter[p].at] = f]

Start(p) ==
  /\ At(p, "off")
  /\ \E v \in Versions : starter' = [starter EXCEPT ![p] = Begun("look", v)]
  /\ UNCHANGED folder

Look(p) ==
  /\ At(p, "look")
  /\ Goto(p, IF Exists("new") THEN "lock" ELSE "lookOld")
  /\ UNCHANGED folder

LookOld(p) ==
  /\ At(p, "lookOld")
  /\ \/ Exists("old") /\ Goto(p, "move")
     \/ /\ ~Exists("old")
        /\ starter' = [starter EXCEPT ![p].pc = "lock", ![p].overtaken = FALSE]
  /\ UNCHANGED folder

(* Mutant of Unmoved: the new name is used whether or not the move failed. *)
UnmovedNew(p) == Goto(p, "lock")

(* The old name is used, whatever kept the folder from being moved.        *)
Unmoved(p) == starter' = [starter EXCEPT ![p].pc = "lock", ![p].at = "old"]

(* A start that goes by what it has seen of the folders before the move.   *)
Trusting(p) == starter[p].pc \in {"lookOld", "move"}
               \/ (At(p, "lock") /\ starter[p].at = "old")

(* A folder cannot be moved while files in it are open.                    *)
Move(p) ==
  /\ At(p, "move")
  /\ \/ /\ Exists("old") /\ ~Exists("new") /\ folder["old"].owner = None
        /\ folder' = [n \in Names |-> IF n = "new" THEN folder["old"] ELSE None]
        /\ starter' = [q \in Starters |->
                         IF q = p THEN [starter[p] EXCEPT !.pc = "lock"]
                         ELSE IF Trusting(q) THEN [starter[q] EXCEPT !.overtaken = TRUE]
                         ELSE starter[q]]
     \/ Unmoved(p) /\ UNCHANGED folder

(* The folder is made first if there is none, even for a start that is     *)
(* then refused because another holds the locks.                           *)
Lock(p) ==
  /\ At(p, "lock")
  /\ LET f == IF Mine(p) = None THEN Empty ELSE Mine(p)
     IN \/ /\ f.owner = None
           /\ Change(p, [f EXCEPT !.owner = p]) /\ Goto(p, "admin")
        \/ /\ f.owner # None
           /\ Change(p, f) /\ Goto(p, "off")

After(kind)   == IF kind = "admin" THEN "user" ELSE "open"
Writing(kind) == IF kind = "admin" THEN "writeAdmin" ELSE "writeUser"

CreateToken(p, kind) ==
  /\ At(p, kind) /\ Mine(p).token[kind] = None
  /\ Change(p, [Mine(p) EXCEPT !.token[kind] = "empty"])
  /\ Goto(p, Writing(kind))

WriteToken(p, kind) ==
  /\ At(p, Writing(kind))
  /\ Change(p, [Mine(p) EXCEPT !.token[kind] = "whole"])
  /\ Goto(p, After(kind))

ReadToken(p, kind) ==
  /\ At(p, kind) /\ Mine(p).token[kind] = "whole"
  /\ Goto(p, After(kind))
  /\ UNCHANGED folder

(* The locks go with the process.                                          *)
Freed(f, p) == [f EXCEPT !.owner = None, !.cut = IF At(p, "stamp") THEN TRUE ELSE @]

(* An error, or a kill, at any step.                                       *)
End(p) ==
  /\ ~At(p, "off")
  /\ folder' = [n \in Names |-> IF Exists(n) /\ folder[n].owner = p
                                THEN Freed(folder[n], p) ELSE folder[n]]
  /\ Goto(p, "off")

(* Mutant of CopyNeeded: a database without a version is taken for new.    *)
CopyNeededVersioned(db, version) == db.version # 0 /\ db.version < version

CopyNeeded(db, version) ==
  \/ db.version = 0 /\ db.schema # 0
  \/ db.version # 0 /\ db.version < version

CopyName(db) == IF db.version = 0 THEN 1 ELSE db.version

(* A database of a newer version refuses the start.                        *)
OpenDatabase(p) ==
  /\ At(p, "open")
  /\ \/ Mine(p).version = starter[p].version /\ Goto(p, "serve")
     \/ Mine(p).version < starter[p].version
        /\ Goto(p, IF CopyNeeded(Mine(p), starter[p].version) THEN "copy" ELSE "change")
  /\ UNCHANGED folder

(* The copy is written over the last one of that name.                     *)
BeginCopy(p) ==
  /\ At(p, "copy")
  /\ Change(p, [Mine(p) EXCEPT !.copies[CopyName(Mine(p))] = 0])
  /\ Goto(p, "copying")

EndCopy(p) ==
  /\ At(p, "copying")
  /\ Change(p, [Mine(p) EXCEPT !.copies[CopyName(Mine(p))] = Mine(p).schema])
  /\ Goto(p, "change")

(* Columns that are there are left alone.                                  *)
ChangeSchema(p) ==
  /\ At(p, "change")
  /\ Change(p, [Mine(p) EXCEPT !.schema = IF @ < starter[p].version THEN starter[p].version ELSE @])
  /\ Goto(p, "stamp")

(* The version is set after the transaction, not in it.                    *)
Stamp(p) ==
  /\ At(p, "stamp")
  /\ Change(p, [Mine(p) EXCEPT !.version = starter[p].version, !.was = Mine(p).schema, !.cut = FALSE])
  /\ Goto(p, "serve")

(* A server in service writes what the install is to keep.                 *)
Gather(p) ==
  /\ At(p, "serve")
  /\ Change(p, [Mine(p) EXCEPT !.data = TRUE])
  /\ UNCHANGED starter

Next == \E p \in Starters :
  \/ Start(p) \/ Look(p) \/ LookOld(p) \/ Move(p) \/ Lock(p)
  \/ \E k \in Kinds : CreateToken(p, k) \/ WriteToken(p, k) \/ ReadToken(p, k)
  \/ OpenDatabase(p) \/ BeginCopy(p) \/ EndCopy(p) \/ ChangeSchema(p) \/ Stamp(p)
  \/ Gather(p)
  \/ End(p)

Spec == Init /\ [][Next]_vars
------------------------------------------------------------------------------
Serving(p) == At(p, "serve")

(* A server serves the folder in which the install has gathered its data,  *)
(* with the schema and the tokens it needs, wherever earlier starts have   *)
(* died; the only server that finds nothing is one whose look at the old   *)
(* folder another start overtook by moving it (app.rs migrate_dir_once:    *)
(* "rather than losing data or silently starting a second, empty data      *)
(* folder"; store.rs migrate).                                             *)
ServesTheData ==
  \A p \in Starters : Serving(p) =>
    /\ Mine(p).owner = p
    /\ Mine(p).version = starter[p].version /\ Mine(p).schema >= starter[p].version
    /\ \A k \in Kinds : Mine(p).token[k] = "whole"
    /\ (\E n \in Names : Exists(n) /\ folder[n].data) => Mine(p).data \/ starter[p].overtaken

(* The schema of a database that holds data is changed only when the copy  *)
(* is that very database, whichever starts died while they copied or       *)
(* migrated it.  And when its version is set, the copy of the old version  *)
(* still is what the database was while that version was set.  The         *)
(* exception is a start that died between the change and its version: the  *)
(* next one copies the changed database over that copy (store.rs           *)
(* backup_db, migrate; README.md "backing up the file to state.db.bak-v<old>*)
(* first when it already had data").                                       *)
CopiedBeforeChange ==
  [][\A n \in Names : LET f == folder[n]
                          g == folder'[n]
                      IN f # None /\ g # None /\ f.data =>
                           /\ g.schema # f.schema => f.copies[CopyName(f)] = f.schema
                           /\ g.version # f.version => f.copies[CopyName(f)] = f.was \/ f.cut]_vars
==============================================================================
