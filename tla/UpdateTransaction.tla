-------------------------- MODULE UpdateTransaction --------------------------
(***************************************************************************)
(* The journalled self-update of stt-server (update_transaction.rs), on    *)
(* Windows, the only platform whose recovery task can be registered.       *)
(*                                                                         *)
(* Processes: the `update install' CLI, which prepares a transaction and   *)
(* arms it; the worker it spawns, which applies it; the recovery worker    *)
(* the scheduled task starts at a logon or boot; and server processes,     *)
(* started by the user (or the service manager) or by a worker.  They      *)
(* share the installed executable, state.db, the journal, the work folder  *)
(* and two file locks.  Every journal save, rename and copy is a step; a   *)
(* process can be killed, and the machine can crash, between any two.      *)
(***************************************************************************)
EXTENDS Integers

CONSTANTS MaxUpdates,   \* bound: transactions prepared
          MaxFaults,    \* bound: steps that fail or time out
          MaxCrashes,   \* bound: processes killed and machine crashes
          MaxLaunches,  \* bound: server starts by the user
          MaxWrites,    \* bound: client writes accepted
          Fallible,     \* the places at which a step may fail
          NoJournal, NoDb

ASSUME BoundsAssumption ==
  {MaxUpdates, MaxFaults, MaxCrashes, MaxLaunches, MaxWrites} \subseteq Nat

VARIABLES exe,         \* the image at the installed path
          db,          \* state.db with its sidecars
          snapshot,    \* state.snapshot in the work folder
          work,        \* transactions whose work folder is complete
          journal,     \* update-journal.json
          task,        \* the recovery task is registered
          updateLock,  \* who holds update.lock
          serverLock,  \* who holds server.lock
          pc,          \* where each process stands
          mem,         \* the Journal value each worker and the CLI holds
          img,         \* the image each server process runs
          pinned,      \* processes running from the file at the installed path
          inflight,    \* servers with an admitted write that has not landed
          service,     \* launch.service: installed as a Windows service
          slips,       \* which of the two gaps below have been met
          left         \* what is left of the bounds

disk  == <<exe, db, snapshot, work, journal, task>>
locks == <<updateLock, serverLock>>
procs == <<pc, mem, img, pinned, inflight>>
vars  == <<disk, locks, procs, service, slips, left>>

(* The code has two gaps.  A save of "committed" that fails leaves the     *)
(* journal in memory disarmed, and the rollback that follows saves it so.  *)
(* The folders a worker has found finished are removed when the lock is no *)
(* longer held: the folder of the next transaction may be among them.      *)
Slips == {"commitUnsaved", "folderTaken"}

Workers   == {"apply", "recover"}
Servers   == {"user", "spawned"}
Processes == {"cli"} \cup Workers \cup Servers

Phases == {"prepared", "stopping", "snapshot", "replacing", "validating",
           "rollingBack", "committed", "restored"}
Terminal == {"committed", "restored"}

Journals == [id : 1..MaxUpdates, phase : Phases, armed : BOOLEAN,
             running : BOOLEAN,   \* was_running
             existed : BOOLEAN,   \* database_existed
             snap    : BOOLEAN,   \* database_sha256 is recorded
             gone    : BOOLEAN]   \* task_removed

Images    == {"old", "new"}
Databases == [schema : Images \cup {"torn"}, writes : 0..MaxWrites] \cup {NoDb}

ASSUME NullsAssumption ==
  NoJournal \notin Journals /\ NoDb \notin [schema : Images \cup {"torn"}, writes : 0..MaxWrites]

(* maintenance(): the gate of every client request but the probes.         *)
Pending(j)  == j # NoJournal /\ j.armed /\ j.phase \notin Terminal
Maintenance == Pending(journal)

(* The places of a worker: its route through run_worker, apply, rollback.  *)
Applying == {"stopping", "stop", "lock", "snapshot", "snapshotted", "replacing",
             "retire", "install", "validating", "start", "ready", "stopNew",
             "committing"}
Undoing  == {"undoing", "stopAgain", "lockAgain", "restoreExe", "restoreDb",
             "putDb", "startAgain", "readyAgain", "restoring"}
WorkerPlaces == Applying \cup Undoing \cup
                {"off", "polling", "polled", "abandon", "unarmed", "failed",
                 "stuck", "cleanup", "saveGone", "leaving", "pruning"}
CliPlaces    == {"off", "guarded", "tidied", "prepared", "saved", "registered", "refused",
                 "armed", "waiting"}
ServerPlaces == {"off", "launched", "guarded", "bypassed", "locked", "opened",
                 "up", "stopping"}

Init ==
  /\ exe = "old"
  /\ db \in {NoDb, [schema |-> "old", writes |-> 0]}
  /\ snapshot = NoDb
  /\ work = {}
  /\ journal = NoJournal
  /\ task = FALSE
  /\ pc \in {[p \in Processes |-> "off"], [[p \in Processes |-> "off"] EXCEPT !["user"] = "up"]}
  /\ pc["user"] = "up" => db # NoDb
  /\ updateLock = "free"
  /\ serverLock = IF pc["user"] = "up" THEN "user" ELSE "free"
  /\ mem = [p \in Processes |-> NoJournal]
  /\ img = [s \in Servers |-> "old"]
  /\ pinned = IF pc["user"] = "up" THEN {"user"} ELSE {}
  /\ inflight = {}
  /\ service \in BOOLEAN
  /\ slips = {}
  /\ left = [updates |-> MaxUpdates, faults |-> MaxFaults, crashes |-> MaxCrashes,
             launches |-> MaxLaunches]
-----------------------------------------------------------------------------
Goto(p, place) == pc' = [pc EXCEPT ![p] = place]

Freed(lock, p) == IF lock = p THEN "free" ELSE lock

Spend(kind) == left[kind] > 0 /\ left' = [left EXCEPT ![kind] = @ - 1]

(* A step of p fails although nothing prevents it: an I/O error, a busy    *)
(* database, a command or a probe that times out.                          *)
Fault(p) == pc[p] \in Fallible /\ Spend("faults")

(* Places whose step reads or writes the work folder; every save does.     *)
SavePlaces == {"saved", "refused", "registered", "abandon", "unarmed", "stopping",
               "snapshotted", "replacing", "validating", "committing", "undoing",
               "restoring", "failed", "stuck", "saveGone"}

(* The folder that the step of p needs is gone.                            *)
Robbed(p) ==
  /\ mem[p] # NoJournal /\ mem[p].id \notin work
  /\ \/ pc[p] \in SavePlaces \cup {"prepared", "armed", "install", "putDb"}
     \/ pc[p] = "snapshot" /\ db # NoDb
     \/ pc[p] = "restoreDb" /\ (mem[p].snap \/ ~mem[p].existed)

Fails(p) == Fault(p) \/ (Robbed(p) /\ UNCHANGED left)

(* The process is gone, its locks with it.                                 *)
Exit(p) ==
  /\ Goto(p, "off")
  /\ updateLock' = Freed(updateLock, p)
  /\ serverLock' = Freed(serverLock, p)
  /\ mem' = [mem EXCEPT ![p] = NoJournal]
  /\ pinned' = pinned \ {p}
  /\ inflight' = inflight \ {p}
  /\ UNCHANGED img
-----------------------------------------------------------------------------
(* install and prepare_with_id: the CLI, holding update.lock throughout.   *)

(* One CLI stands for the one that waits and for the next.                 *)
BeginInstall ==
  /\ pc["cli"] \in {"off", "waiting"} /\ exe = "old" /\ updateLock = "free"
  /\ Spend("updates")
  /\ updateLock' = "cli"
  /\ pinned' = pinned \cup {"cli"}
  /\ Goto("cli", "guarded")
  /\ mem' = [mem EXCEPT !["cli"] = NoJournal]
  /\ UNCHANGED <<disk, serverLock, img, inflight, service, slips>>

(* The folder of a transaction that is not over is kept.                   *)
Unfinished == IF journal # NoJournal /\ journal.phase \notin Terminal THEN {journal.id} ELSE {}

(* A pending transaction refuses the next; the task and the folder of any  *)
(* other are removed first ...                                             *)
Tidy ==
  /\ pc["cli"] = "guarded" /\ ~Maintenance
  /\ IF journal # NoJournal /\ ~journal.gone
     THEN journal.id \in work /\ task' = FALSE /\ journal' = [journal EXCEPT !.gone = TRUE]
     ELSE UNCHANGED <<task, journal>>
  /\ work' = IF journal = NoJournal THEN work ELSE work \cap Unfinished
  /\ Goto("cli", "tidied")
  /\ UNCHANGED <<exe, db, snapshot, locks, mem, img, pinned, inflight, service, slips, left>>

(* ... or the task goes and the save fails.                                *)
TidyFails ==
  /\ pc["cli"] = "guarded" /\ ~Maintenance
  /\ journal # NoJournal /\ ~journal.gone
  /\ \/ Fault("cli")
     \/ journal.id \notin work /\ UNCHANGED left
  /\ task' = FALSE
  /\ Exit("cli")
  /\ UNCHANGED <<exe, db, snapshot, work, journal, service, slips>>

(* No server runs, or the one that does answers the baseline probe.        *)
CanPrepare == serverLock \in Servers => pc[serverLock] = "up"

RefuseInstall ==
  /\ \/ pc["cli"] = "guarded" /\ Maintenance
     \/ pc["cli"] = "tidied" /\ ~CanPrepare
  /\ Exit("cli")
  /\ UNCHANGED <<disk, service, slips, left>>

(* server.lock is kept when no server runs; candidate.exe, previous.exe and*)
(* recovery.exe are staged.                                                *)
Prepare ==
  /\ pc["cli"] = "tidied" /\ CanPrepare
  /\ LET id == MaxUpdates - left.updates IN
       /\ mem' = [mem EXCEPT !["cli"] =
            [id |-> id, phase |-> "prepared", armed |-> FALSE,
             running |-> serverLock # "free", existed |-> db # NoDb,
             snap |-> FALSE, gone |-> FALSE]]
       /\ work' = work \cup {id}
  /\ serverLock' = IF serverLock = "free" THEN "cli" ELSE serverLock
  /\ Goto("cli", "prepared")
  /\ UNCHANGED <<exe, db, snapshot, journal, task, updateLock, img, pinned, inflight,
                 service, slips, left>>

SaveUnarmed ==
  /\ pc["cli"] = "prepared" /\ ~Robbed("cli")
  /\ journal' = mem["cli"]
  /\ Goto("cli", "saved")
  /\ UNCHANGED <<exe, db, snapshot, work, task, locks, mem, img, pinned, inflight, service, slips, left>>

(* tasks.register succeeds, or reports an error after or before it did.    *)
Register ==
  /\ pc["cli"] = "saved"
  /\ \/ ~Robbed("cli") /\ task' = TRUE /\ Goto("cli", "registered") /\ UNCHANGED left
     \/ task' \in (IF Robbed("cli") THEN {task} ELSE BOOLEAN)
        /\ Goto("cli", "refused") /\ Fails("cli")
  /\ UNCHANGED <<exe, db, snapshot, work, journal, locks, mem, img, pinned, inflight, service, slips>>

RegisterRefused ==
  /\ pc["cli"] = "refused" /\ ~Robbed("cli")
  /\ journal' = [mem["cli"] EXCEPT !.phase = "restored"]
  /\ Exit("cli")
  /\ UNCHANGED <<exe, db, snapshot, work, task, service, slips, left>>

(* Mutant of Arm: armed before the task is known to be registered.         *)
ArmEarly ==
  /\ pc["cli"] \in {"saved", "registered"} /\ ~Robbed("cli")
  /\ journal' = [mem["cli"] EXCEPT !.armed = TRUE]
  /\ serverLock' = Freed(serverLock, "cli")
  /\ Goto("cli", "armed")
  /\ UNCHANGED <<exe, db, snapshot, work, task, updateLock, mem, img, pinned, inflight, service, slips, left>>

Arm ==
  /\ pc["cli"] = "registered" /\ ~Robbed("cli")
  /\ journal' = [mem["cli"] EXCEPT !.armed = TRUE]
  /\ serverLock' = Freed(serverLock, "cli")
  /\ Goto("cli", "armed")
  /\ UNCHANGED <<exe, db, snapshot, work, task, updateLock, mem, img, pinned, inflight, service, slips, left>>

SpawnWorker ==
  /\ pc["cli"] = "armed" /\ pc["apply"] = "off" /\ ~Robbed("cli")
  /\ pc' = [pc EXCEPT !["cli"] = "waiting", !["apply"] = "polling"]
  /\ updateLock' = "free"
  /\ UNCHANGED <<disk, serverLock, mem, img, pinned, inflight, service, slips, left>>

SavedIds  == IF journal = NoJournal THEN {} ELSE {journal.id}
StagedIds == IF mem["cli"] = NoJournal THEN {} ELSE {mem["cli"].id}

(* The CLI waits for its child, or a step of its own fails before that.    *)
CliEnds ==
  /\ \/ pc["cli"] = "waiting" /\ pc["apply"] = "off" /\ UNCHANGED left
     \/ pc["cli"] \in {"guarded", "tidied", "prepared", "refused", "registered", "armed"}
        /\ Fails("cli")
  /\ Exit("cli")
  /\ work' = IF mem["cli"] # NoJournal /\ mem["cli"].id \notin SavedIds
             THEN work \ {mem["cli"].id} ELSE work
  /\ UNCHANGED <<exe, db, snapshot, journal, task, service, slips>>
-----------------------------------------------------------------------------
(* worker_entry and run_worker, up to the first change.                    *)

Logon ==
  /\ task /\ pc["recover"] = "off" /\ SavedIds \subseteq work
  /\ Goto("recover", "polling")
  /\ UNCHANGED <<disk, locks, mem, img, pinned, inflight, service, slips, left>>

(* worker_entry takes update.lock and drops it, or gives up after 30 s.    *)
Poll(w) ==
  /\ pc[w] = "polling" /\ updateLock = "free"
  /\ Goto(w, "polled")
  /\ UNCHANGED <<disk, locks, mem, img, pinned, inflight, service, slips, left>>

PollTimesOut(w) ==
  /\ pc[w] = "polling" /\ updateLock # "free"
  /\ Exit(w)
  /\ UNCHANGED <<disk, service, slips, left>>

(* Mutant of Route: a prepared transaction is left to the worker that was  *)
(* to apply it.                                                            *)
RouteLeavesPrepared(w, j, valid) ==
  CASE ~valid -> IF j.armed /\ j.phase = "prepared" THEN "abandon" ELSE "leaving"
    [] valid /\ j.phase \in Terminal -> "cleanup"
    [] valid /\ j.phase \notin Terminal /\ ~j.armed -> "unarmed"
    [] valid /\ Pending(j) ->
         IF j.phase # "prepared" THEN "failed"
         ELSE IF w = "apply" THEN "stopping" ELSE "leaving"

(* What the journal calls for; an invalid one that is armed and prepared   *)
(* has touched nothing and is abandoned.                                   *)
Route(w, j, valid) ==
  IF ~valid THEN IF j.armed /\ j.phase = "prepared" THEN "abandon" ELSE "leaving"
  ELSE IF j.phase \in Terminal THEN "cleanup"
  ELSE IF ~j.armed THEN "unarmed"
  ELSE IF w = "apply" /\ j.phase = "prepared" THEN "stopping" ELSE "failed"

(* run_worker: the lock, the journal, validate_journal (paths and the hash *)
(* of recovery.exe).                                                       *)
Enter(w) ==
  /\ pc[w] = "polled"
  /\ IF updateLock = "free" /\ journal # NoJournal
     THEN \E valid \in BOOLEAN :
            /\ \/ valid = (journal.id \in work) /\ UNCHANGED left
               \/ ~valid /\ Fault(w)
            /\ LET place == Route(w, journal, valid) IN
                 /\ Goto(w, place)
                 /\ updateLock' = IF place = "leaving" THEN updateLock ELSE w
                 /\ mem' = [mem EXCEPT ![w] = journal]
     ELSE Goto(w, "leaving") /\ UNCHANGED <<updateLock, mem, left>>
  /\ UNCHANGED <<disk, serverLock, img, pinned, inflight, service, slips>>
-----------------------------------------------------------------------------
(* Steps shared by apply and rollback.                                     *)

(* Journal::advance: the phase each saving place records, and what follows.*)
PhaseAt == [abandon |-> "restored", unarmed |-> "restored", stopping |-> "stopping",
            snapshotted |-> "snapshot", replacing |-> "replacing",
            validating |-> "validating", committing |-> "committed",
            undoing |-> "rollingBack", restoring |-> "restored"]
AfterSave == [abandon |-> "cleanup", unarmed |-> "cleanup", stopping |-> "stop",
              snapshotted |-> "replacing", replacing |-> "retire",
              validating |-> "start", committing |-> "cleanup",
              undoing |-> "stopAgain", restoring |-> "cleanup"]

(* Advanced in memory: a finished transaction is disarmed.                 *)
Advanced(j, phase) ==
  [j EXCEPT !.phase = phase, !.armed = @ /\ phase \notin Terminal]

(* Where `?' leads: to the rollback, out of it, or out of run_worker.      *)
FailTo(place) == IF place \in Applying THEN "failed"
                 ELSE IF place \in Undoing THEN "stuck" ELSE "leaving"

(* Worker w moves on; leaving a scope drops the lock it held.              *)
Move(w, place) ==
  /\ Goto(w, place)
  /\ serverLock' = IF place \in {"failed", "stuck", "leaving", "start", "startAgain",
                                 "restoring"}
                   THEN Freed(serverLock, w) ELSE serverLock
  /\ updateLock' = IF place \in {"leaving"} THEN Freed(updateLock, w) ELSE updateLock
  /\ UNCHANGED <<img, pinned, inflight, service>>

Advance(w) ==
  /\ pc[w] \in DOMAIN PhaseAt /\ ~Robbed(w)
  /\ mem' = [mem EXCEPT ![w] = Advanced(@, PhaseAt[pc[w]])]
  /\ journal' = mem'[w]
  /\ Move(w, AfterSave[pc[w]])
  /\ UNCHANGED <<exe, db, snapshot, work, task, slips, left>>

(* The save fails, the journal in memory has advanced.                     *)
AdvanceFails(w) ==
  /\ pc[w] \in DOMAIN PhaseAt /\ Fails(w)
  /\ mem' = [mem EXCEPT ![w] = Advanced(@, PhaseAt[pc[w]])]
  /\ slips' = IF pc[w] = "committing" THEN slips \cup {"commitUnsaved"} ELSE slips
  /\ Move(w, FailTo(pc[w]))
  /\ UNCHANGED disk

(* The error is saved, with whatever phase the journal in memory has.      *)
SaveError(w) ==
  /\ pc[w] \in {"failed", "stuck"}
  /\ \/ ~Robbed(w) /\ journal' = mem[w]
        /\ Move(w, IF pc[w] = "failed" THEN "undoing" ELSE "leaving")
        /\ UNCHANGED left
     \/ Fails(w) /\ Move(w, "leaving") /\ UNCHANGED journal
  /\ UNCHANGED <<exe, db, snapshot, work, task, mem, slips>>

(* Any other step that changes nothing when it fails.                      *)
StepFails(w) ==
  /\ pc[w] \in (Applying \cup Undoing \cup {"cleanup", "saveGone"}) \ DOMAIN PhaseAt
  /\ Fails(w)
  /\ Move(w, FailTo(pc[w]))
  /\ UNCHANGED <<disk, mem, slips>>

AfterStop == [stop |-> "lock", stopNew |-> "committing", stopAgain |-> "lockAgain"]

Stopped(w) ==
  /\ pc[w] \in DOMAIN AfterStop /\ serverLock = "free"
  /\ Move(w, AfterStop[pc[w]])
  /\ UNCHANGED <<disk, mem, slips, left>>

AskToStop(w) ==
  /\ pc[w] \in DOMAIN AfterStop
  /\ \E s \in Servers : serverLock = s /\ pc[s] = "up" /\ Goto(s, "stopping")
  /\ UNCHANGED <<disk, locks, mem, img, pinned, inflight, service, slips, left>>

(* A server that is starting has no server.json to reach it by.            *)
CannotStop(w) ==
  /\ pc[w] \in DOMAIN AfterStop
  /\ \E s \in Servers : serverLock = s /\ pc[s] \in {"locked", "opened"}
  /\ Move(w, FailTo(pc[w]))
  /\ UNCHANGED <<disk, mem, slips, left>>

(* Mutant of LockServer: a server that stopped is taken to stay down.      *)
LockServerAssumed(w) ==
  /\ pc[w] \in {"lock", "lockAgain"}
  /\ Goto(w, IF pc[w] = "lock" THEN "snapshot" ELSE "restoreExe")
  /\ UNCHANGED <<disk, locks, mem, img, pinned, inflight, service, slips, left>>

LockServer(w) ==
  /\ pc[w] \in {"lock", "lockAgain"}
  /\ IF serverLock = "free"
     THEN /\ serverLock' = w
          /\ Goto(w, IF pc[w] = "lock" THEN "snapshot" ELSE "restoreExe")
          /\ UNCHANGED <<updateLock, img, pinned, inflight, service>>
     ELSE Move(w, FailTo(pc[w]))
  /\ UNCHANGED <<disk, mem, slips, left>>

(* start: the server is spawned with the transaction's id (one such server *)
(* process at a time: one that lingers stands for both).                   *)
Start(w) ==
  /\ pc[w] \in {"start", "startAgain"}
  /\ LET next == IF pc[w] = "start" THEN "ready" ELSE "readyAgain" IN
       IF pc["spawned"] = "off"
       THEN /\ pc' = [pc EXCEPT ![w] = next, !["spawned"] = "launched"]
            /\ img' = [img EXCEPT !["spawned"] = exe]
            /\ pinned' = pinned \cup {"spawned"}
       ELSE Goto(w, next) /\ UNCHANGED <<img, pinned>>
  /\ UNCHANGED <<disk, locks, mem, inflight, service, slips, left>>

(* wait_ready: the server that answers reports its version.                *)
Ready(w) ==
  /\ pc[w] \in {"ready", "readyAgain"}
  /\ \E s \in Servers : pc[s] = "up" /\
       IF img[s] = (IF pc[w] = "ready" THEN "new" ELSE "old")
       THEN Move(w, IF pc[w] = "readyAgain" THEN "restoring"
                    ELSE IF mem[w].running THEN "committing" ELSE "stopNew")
       ELSE Move(w, FailTo(pc[w]))
  /\ UNCHANGED <<disk, mem, slips, left>>

(* ... or nobody is left to answer and the deadline passes.                *)
NobodyAnswers(w) ==
  /\ pc[w] \in {"ready", "readyAgain"}
  /\ \A s \in Servers : pc[s] = "off"
  /\ Move(w, FailTo(pc[w]))
  /\ UNCHANGED <<disk, mem, slips, left>>
-----------------------------------------------------------------------------
(* apply, with the server down and server.lock held.                       *)

(* snapshot_database: checkpoint, copy, hash.                              *)
Snapshot(w) ==
  /\ pc[w] = "snapshot" /\ ~Robbed(w)
  /\ snapshot' = db
  /\ mem' = [mem EXCEPT ![w].existed = db # NoDb, ![w].snap = db # NoDb]
  /\ Move(w, "snapshotted")
  /\ UNCHANGED <<exe, db, work, journal, task, slips, left>>

(* replace_binary: the installed file is renamed, running or not ...       *)
Retire(w) ==
  /\ pc[w] = "retire"
  /\ IF mem[w].id \in work
     THEN /\ exe' = "missing" /\ pinned' = {}
          /\ Goto(w, "install")
          /\ UNCHANGED <<locks, img, inflight, service>>
     ELSE Move(w, FailTo(pc[w])) /\ UNCHANGED exe
  /\ UNCHANGED <<db, snapshot, work, journal, task, mem, slips, left>>

(* ... and the candidate takes its name.                                   *)
InstallCandidate(w) ==
  /\ pc[w] = "install" /\ ~Robbed(w)
  /\ exe' = "new"
  /\ Move(w, "validating")
  /\ UNCHANGED <<db, snapshot, work, journal, task, mem, slips, left>>
-----------------------------------------------------------------------------
(* rollback, with the server down and server.lock held.                    *)

(* Mutant of RestoreExe: only a candidate in place is replaced.            *)
RestoreExeIfNew(w) ==
  /\ pc[w] = "restoreExe"
  /\ exe' = (IF exe = "new" /\ pinned = {} THEN "old" ELSE exe)
  /\ Move(w, "restoreDb")
  /\ UNCHANGED <<db, snapshot, work, journal, task, mem, slips, left>>

(* restore_binary: the backup has its hash, and the copy of it replaces the*)
(* installed file unless that file is executing.                           *)
RestoreExe(w) ==
  /\ pc[w] = "restoreExe"
  /\ IF pinned = {} /\ mem[w].id \in work
     THEN exe' = "old" /\ Move(w, "restoreDb")
     ELSE Move(w, FailTo(pc[w])) /\ UNCHANGED exe
  /\ UNCHANGED <<db, snapshot, work, journal, task, mem, slips, left>>

AfterRestore(w) == IF mem[w].running THEN "startAgain" ELSE "restoring"

(* Mutant of RestoreDb: the database is left to the previous version.      *)
RestoreDbSkipped(w) ==
  /\ pc[w] = "restoreDb"
  /\ Move(w, AfterRestore(w))
  /\ UNCHANGED <<disk, mem, slips, left>>

(* restore_database: the candidate's sidecars go first ...                 *)
RestoreDb(w) ==
  /\ pc[w] = "restoreDb" /\ ~Robbed(w)
  /\ IF mem[w].snap
     THEN db' = [snapshot EXCEPT !.schema = "torn"] /\ Move(w, "putDb")
     ELSE /\ db' = IF mem[w].existed THEN db ELSE NoDb
          /\ Move(w, AfterRestore(w))
  /\ UNCHANGED <<exe, snapshot, work, journal, task, mem, slips, left>>

(* ... then the staged copy of the snapshot replaces state.db.             *)
PutDb(w) ==
  /\ pc[w] = "putDb" /\ ~Robbed(w)
  /\ db' = snapshot
  /\ Move(w, AfterRestore(w))
  /\ UNCHANGED <<exe, snapshot, work, journal, task, mem, slips, left>>
-----------------------------------------------------------------------------
(* cleanup, and the pruning of old work folders after update.lock is free. *)

Cleanup(w) ==
  /\ pc[w] = "cleanup"
  /\ IF mem[w].gone
     THEN Move(w, "leaving") /\ UNCHANGED <<task, mem>>
     ELSE /\ task' = FALSE
          /\ mem' = [mem EXCEPT ![w].gone = TRUE]
          /\ Move(w, "saveGone")
  /\ UNCHANGED <<exe, db, snapshot, work, journal, slips, left>>

SaveGone(w) ==
  /\ pc[w] = "saveGone" /\ ~Robbed(w)
  /\ journal' = mem[w]
  /\ Move(w, "leaving")
  /\ UNCHANGED <<exe, db, snapshot, work, task, mem, slips, left>>

(* worker reads the journal again, without the lock ...                    *)
ReadFinished(w) ==
  /\ pc[w] = "leaving"
  /\ IF journal # NoJournal /\ journal.phase \in Terminal
     THEN /\ mem' = [mem EXCEPT ![w] = journal]
          /\ Goto(w, "pruning")
          /\ UNCHANGED <<locks, img, pinned, inflight>>
     ELSE Exit(w)
  /\ UNCHANGED <<disk, service, slips, left>>

(* ... and removes every work folder but the one of the journal it read,   *)
(* and that of an unfinished one if it finds it when it reads once more.   *)
Prune(w) ==
  /\ pc[w] = "pruning"
  /\ \E kept \in {{mem[w].id}, {mem[w].id} \cup Unfinished} :
       /\ work' = work \cap kept
       /\ slips' = IF (SavedIds \cup StagedIds) \cap work \subseteq kept
                   THEN slips ELSE slips \cup {"folderTaken"}
  /\ Exit(w)
  /\ UNCHANGED <<exe, db, snapshot, journal, task, service, left>>
-----------------------------------------------------------------------------
(* Server processes: startup_guard, server.lock, open_app_at_full, serving.*)

UserStarts ==
  /\ pc["user"] = "off" /\ exe # "missing"
  /\ Spend("launches")
  /\ Goto("user", "launched")
  /\ img' = [img EXCEPT !["user"] = exe]
  /\ pinned' = pinned \cup {"user"}
  /\ UNCHANGED <<disk, locks, mem, inflight, service, slips>>

(* The launches that may start against a pending transaction.              *)
Exempt(s) ==
  /\ journal.phase \in {"validating", "rollingBack"}
  /\ s = "spawned" \/ service

Guard(s) ==
  /\ pc[s] = "launched"
  /\ IF Maintenance /\ Exempt(s)
     THEN Goto(s, "bypassed") /\ UNCHANGED <<locks, mem, img, pinned, inflight>>
     ELSE IF ~Maintenance /\ updateLock = "free"
     THEN /\ Goto(s, "guarded") /\ updateLock' = s
          /\ UNCHANGED <<serverLock, mem, img, pinned, inflight>>
     ELSE Exit(s)
  /\ UNCHANGED <<disk, service, slips, left>>

TakeServerLock(s) ==
  /\ pc[s] \in {"guarded", "bypassed"}
  /\ IF serverLock = "free"
     THEN /\ serverLock' = s /\ Goto(s, "locked")
          /\ UNCHANGED <<updateLock, mem, img, pinned, inflight>>
     ELSE Exit(s)
  /\ UNCHANGED <<disk, service, slips, left>>

(* migrate refuses a newer schema and brings an older one up to date.      *)
Open(s) ==
  /\ pc[s] = "locked"
  /\ IF db # NoDb /\ img[s] = "old" /\ db.schema = "new"
     THEN Exit(s) /\ UNCHANGED db
     ELSE /\ db' = IF db = NoDb THEN [schema |-> img[s], writes |-> 0]
                   ELSE IF db.schema = "torn" THEN db
                   ELSE [db EXCEPT !.schema = img[s]]
          /\ Goto(s, "opened")
          /\ UNCHANGED <<locks, mem, img, pinned, inflight>>
  /\ UNCHANGED <<exe, snapshot, work, journal, task, service, slips, left>>

Serve(s) ==
  /\ pc[s] = "opened"
  /\ updateLock' = Freed(updateLock, s)
  /\ Goto(s, "up")
  /\ UNCHANGED <<disk, serverLock, mem, img, pinned, inflight, service, slips, left>>

(* Mutant of Admit: the gate is not consulted.                             *)
AdmitAlways(s) ==
  /\ pc[s] = "up" /\ db.writes < MaxWrites
  /\ inflight' = inflight \cup {s}
  /\ UNCHANGED <<disk, locks, pc, mem, img, pinned, service, slips, left>>

(* update_gate lets a client's request pass ...                            *)
Admit(s) ==
  /\ pc[s] = "up" /\ db.writes < MaxWrites
  /\ ~Maintenance
  /\ inflight' = inflight \cup {s}
  /\ UNCHANGED <<disk, locks, pc, mem, img, pinned, service, slips, left>>

(* Mutant of Land: the write is applied twice.                             *)
LandTwice(s) ==
  /\ s \in inflight
  /\ db' = [db EXCEPT !.writes = @ + 2]
  /\ inflight' = inflight \ {s}
  /\ UNCHANGED <<exe, snapshot, work, journal, task, locks, pc, mem, img, pinned, service, slips, left>>

(* ... and its handler writes, also while the server shuts down.           *)
Land(s) ==
  /\ s \in inflight
  /\ db' = [db EXCEPT !.writes = @ + 1]
  /\ inflight' = inflight \ {s}
  /\ UNCHANGED <<exe, snapshot, work, journal, task, locks, pc, mem, img, pinned, service, slips, left>>

(* Graceful shutdown ends when the requests under way have ended.          *)
Finish(s) ==
  /\ pc[s] = "stopping" /\ s \notin inflight
  /\ Exit(s)
  /\ UNCHANGED <<disk, service, slips, left>>

StartupFails(s) ==
  /\ pc[s] \in {"locked", "opened"} /\ Fault(s)
  /\ Exit(s)
  /\ UNCHANGED <<disk, service, slips>>
-----------------------------------------------------------------------------
Kill(p) ==
  /\ pc[p] # "off" /\ Spend("crashes")
  /\ Exit(p)
  /\ UNCHANGED <<disk, service, slips>>

MachineCrashes ==
  /\ \E p \in Processes : pc[p] # "off"
  /\ Spend("crashes")
  /\ pc' = [p \in Processes |-> "off"]
  /\ updateLock' = "free" /\ serverLock' = "free"
  /\ mem' = [p \in Processes |-> NoJournal]
  /\ pinned' = {} /\ inflight' = {}
  /\ UNCHANGED <<disk, img, service, slips>>

Cli == \/ BeginInstall \/ RefuseInstall \/ Tidy \/ TidyFails \/ Prepare
       \/ SaveUnarmed \/ Register \/ RegisterRefused \/ Arm \/ SpawnWorker \/ CliEnds

Worker(w) ==
  \/ Poll(w) \/ PollTimesOut(w) \/ Enter(w)
  \/ Advance(w) \/ AdvanceFails(w) \/ SaveError(w) \/ StepFails(w)
  \/ Stopped(w) \/ AskToStop(w) \/ CannotStop(w) \/ LockServer(w)
  \/ Start(w) \/ Ready(w) \/ NobodyAnswers(w)
  \/ Snapshot(w) \/ Retire(w) \/ InstallCandidate(w)
  \/ RestoreExe(w) \/ RestoreDb(w) \/ PutDb(w)
  \/ Cleanup(w) \/ SaveGone(w) \/ ReadFinished(w) \/ Prune(w)

Server(s) == \/ Guard(s) \/ TakeServerLock(s) \/ Open(s) \/ Serve(s)
             \/ Admit(s) \/ Land(s) \/ Finish(s) \/ StartupFails(s)

Next == \/ Cli \/ Logon \/ UserStarts \/ MachineCrashes
        \/ \E w \in Workers : Worker(w)
        \/ \E s \in Servers : Server(s)
        \/ \E p \in Processes : Kill(p)

Spec == Init /\ [][Next]_vars

(* A live process goes on; a user whose update is pending logs on again.   *)
(* Nothing makes the user install, start a server, or a client write.      *)
Goes(s) == \/ Guard(s) \/ TakeServerLock(s) \/ Open(s) \/ Serve(s)
           \/ Land(s) \/ Finish(s)

Fairness ==
  /\ WF_vars(Cli /\ ~BeginInstall)
  /\ WF_vars(Logon)
  /\ \A w \in Workers : WF_vars(Worker(w))
  /\ \A s \in Servers : WF_vars(Goes(s))

FairSpec == Spec /\ Fairness
-----------------------------------------------------------------------------
(* Every variable keeps the shape the code gives it.                       *)
TypeOK ==
  /\ exe \in Images \cup {"missing"}
  /\ db \in Databases /\ snapshot \in Databases
  /\ work \subseteq 1..MaxUpdates
  /\ journal \in Journals \cup {NoJournal}
  /\ task \in BOOLEAN
  /\ updateLock \in Processes \cup {"free"}
  /\ serverLock \in Processes \cup {"free"}
  /\ pc \in [Processes -> WorkerPlaces \cup CliPlaces \cup ServerPlaces]
  /\ mem \in [Processes -> Journals \cup {NoJournal}]
  /\ img \in [Servers -> Images]
  /\ pinned \subseteq Processes /\ inflight \subseteq Servers
  /\ service \in BOOLEAN
  /\ slips \subseteq Slips
  /\ left \in [{"updates", "faults", "crashes", "launches"} -> Nat]

(* "An interruption at any point leaves enough on disk to finish the job": *)
(* while a transaction is armed its recovery task is registered and its    *)
(* work folder complete, and a database the candidate may have migrated or *)
(* a restore may have torn has its snapshot recorded in the journal.  Two  *)
(* exceptions: a save of "committed" has failed, after which nothing here  *)
(* holds, or the folder of a transaction was taken, which leaves the rest. *)
Recoverable ==
  Maintenance /\ "commitUnsaved" \notin slips =>
    /\ task /\ (journal.id \in work \/ "folderTaken" \in slips)
    /\ ~journal.snap /\ journal.existed => db # NoDb /\ db.schema = "old"
    /\ journal.snap => snapshot # NoDb /\ snapshot.schema = "old"
    /\ exe # "old" => journal.phase \in {"replacing", "validating", "rollingBack"}

(* "Nothing can start against half-updated state": whenever normal startup *)
(* is allowed, the installed executable exists and can open state.db.  The *)
(* exception is a save of "committed" that failed: its rollback is open to *)
(* every start.                                                            *)
StartableOutsideMaintenance ==
  ~Maintenance /\ "commitUnsaved" \notin slips =>
    /\ exe # "missing"
    /\ db # NoDb => /\ db.schema # "torn"
                    /\ exe = "old" => db.schema = "old"

(* No server has state.db open while a worker copies, tears or replaces it,*)
(* whichever of a server start, a stop and a recovery run came first.      *)
ServerDownWhileReplaced ==
  \A w \in Workers :
    pc[w] \in {"snapshot", "snapshotted", "retire", "install", "validating",
               "restoreExe", "restoreDb", "putDb"}
      => \A s \in Servers : pc[s] \notin {"locked", "opened", "up", "stopping"}

(* The outcome on record is the outcome on disk, unless a save of          *)
(* "committed" has failed: the rollback it starts is disarmed, and one cut *)
(* short is recorded as "restored" over whatever it left.                  *)
OutcomeIsReal ==
  journal # NoJournal /\ "commitUnsaved" \notin slips =>
    /\ journal.phase = "restored" => exe = "old"
    /\ journal.phase = "committed" => exe = "new"

(* An armed transaction is always brought to an end, through failed steps, *)
(* kills and crashes, and its recovery task is removed: until then every   *)
(* client request is refused, and every logon starts a worker.  A folder   *)
(* that was taken is the exception: recovery.exe is gone with it.          *)
UpdateEnds ==
  Maintenance \/ task ~> \/ ~Maintenance /\ ~task
                        \/ "folderTaken" \in slips
=============================================================================
