------------------------ MODULE UpdateTransactionProofs ------------------------
(***************************************************************************)
(* Theorems about UpdateTransaction, for any bounds.                       *)
(*                                                                         *)
(* Whoever writes the journal holds update.lock, and whoever copies or     *)
(* replaces the database holds server.lock.  CoreInv says so, with the     *)
(* types, under every schedule and every failure.  UpdateInv adds that the *)
(* journal a worker remembers is the one on disk, and that what is on disk *)
(* is, at each of its places, what the phase on record says (Sound).  It   *)
(* holds until a save of "committed" fails (Clean); a folder that was taken*)
(* is counted as if it were still there (Folders).                         *)
(***************************************************************************)
EXTENDS MCUpdateTransaction, TLAPS

(* Places at which update.lock, or server.lock, is held.                   *)
Preparing == {"guarded", "tidied", "prepared", "saved", "registered", "refused", "armed"}
Doing     == Applying \cup Undoing \cup
             {"abandon", "unarmed", "failed", "stuck", "cleanup", "saveGone"}
Open4     == {"locked", "opened", "up", "stopping"}
Alone     == {"snapshot", "snapshotted", "replacing", "retire", "install", "validating",
              "restoreExe", "restoreDb", "putDb"}

Places ==
  /\ pc \in [Processes -> WorkerPlaces \cup CliPlaces \cup ServerPlaces]
  /\ pc["cli"] \in CliPlaces
  /\ \A w \in Workers : pc[w] \in WorkerPlaces
  /\ \A s \in Servers : pc[s] \in ServerPlaces

UpdateHeld ==
  /\ updateLock \in Processes \cup {"free"}
  /\ pc["cli"] \in Preparing => updateLock = "cli"
  /\ \A w \in Workers : pc[w] \in Doing => updateLock = w

ServerHeld ==
  /\ serverLock \in Processes \cup {"free"}
  /\ \A s \in Servers : pc[s] \in Open4 => serverLock = s
  /\ \A w \in Workers : pc[w] \in Alone => serverLock = w

ProcessTypes ==
  /\ img \in [Servers -> Images]
  /\ pinned \subseteq Processes /\ inflight \subseteq Servers
  /\ service \in BOOLEAN

CountsFit ==
  /\ left \in [{"updates", "faults", "crashes", "launches"} -> Nat]
  /\ left.updates <= MaxUpdates /\ (pc["cli"] # "off" => left.updates < MaxUpdates)

FolderTypes == work \subseteq 1..MaxUpdates /\ task \in BOOLEAN /\ slips \subseteq Slips

StoreTypes == db \in Databases /\ snapshot \in Databases

(* What is at the installed path, at the places that follow its change.    *)
ExeFits ==
  /\ exe \in Images \cup {"missing"}
  /\ \A w \in Workers :
       /\ pc[w] \in {"validating", "start", "ready", "stopNew", "committing"} => exe = "new"
       /\ pc[w] \in {"restoreDb", "putDb", "startAgain", "readyAgain", "restoring"}
            => exe = "old"

(* Writes under way are those of the one server that is up.                *)
WritesFit ==
  /\ \A s \in inflight : pc[s] \in {"up", "stopping"} /\ db.writes < MaxWrites
  /\ \A s \in Servers : pc[s] \in {"opened", "up", "stopping"} => db # NoDb

(* A journal with a snapshot on record has one on disk, and one whose      *)
(* server still runs has none yet.                                         *)
SnapFits(j) ==
  j.snap => snapshot # NoDb /\ j.phase \notin {"prepared", "stopping"}

JournalFits ==
  /\ journal \in Journals \cup {NoJournal}
  /\ journal # NoJournal => SnapFits(journal)

Holding == (Applying \ {"snapshotted"}) \cup Undoing \cup {"abandon", "unarmed", "cleanup"}

(* What the CLI and the workers hold of the journal.                       *)
MemoryTypes ==
  /\ mem \in [Processes -> Journals \cup {NoJournal}]
  /\ pc["cli"] \in {"prepared", "saved", "registered", "refused"}
       => mem["cli"] # NoJournal /\ ~mem["cli"].snap
  /\ \A w \in Workers : pc[w] \in Doing => mem[w] # NoJournal

MemoryFits ==
  \A w \in Workers :
       /\ pc[w] \in Holding => mem[w] = journal
       /\ pc[w] \in {"stopping", "stop", "lock", "snapshot"}
            => mem[w].phase \in {"prepared", "stopping"}
       /\ pc[w] \in {"failed", "stuck", "saveGone"} => SnapFits(mem[w])
       /\ pc[w] = "snapshotted" /\ mem[w].snap => snapshot # NoDb

CoreInv ==
  /\ Places /\ UpdateHeld /\ ServerHeld /\ ProcessTypes /\ CountsFit
  /\ FolderTypes /\ StoreTypes /\ ExeFits /\ WritesFit
  /\ JournalFits /\ MemoryTypes /\ MemoryFits
-----------------------------------------------------------------------------
(* Journals and databases, and what an assignment to their fields makes.   *)
LEMMA JournalIs ==
  ASSUME NEW j \in Journals
  PROVE  /\ j # NoJournal /\ j.id \in 1..MaxUpdates /\ j.phase \in Phases
         /\ j.armed \in BOOLEAN /\ j.running \in BOOLEAN /\ j.existed \in BOOLEAN
         /\ j.snap \in BOOLEAN /\ j.gone \in BOOLEAN
  BY NullsAssumption DEF Journals

(* k is j but for some fields.                                             *)
Alike(k, j) == k.id = j.id /\ k.running = j.running

LEMMA GoneIs ==
  ASSUME NEW j \in Journals, NEW k, k = [j EXCEPT !.gone = TRUE]
  PROVE  /\ k \in Journals /\ Alike(k, j) /\ k.phase = j.phase /\ k.armed = j.armed
         /\ k.existed = j.existed /\ k.snap = j.snap /\ k.gone = TRUE
  BY DEF Journals, Alike

LEMMA ArmedIs ==
  ASSUME NEW j \in Journals, NEW k, k = [j EXCEPT !.armed = TRUE]
  PROVE  /\ k \in Journals /\ Alike(k, j) /\ k.phase = j.phase /\ k.armed = TRUE
         /\ k.existed = j.existed /\ k.snap = j.snap
  BY DEF Journals, Alike

LEMMA RestoredIs ==
  ASSUME NEW j \in Journals, NEW k, k = [j EXCEPT !.phase = "restored"]
  PROVE  /\ k \in Journals /\ Alike(k, j) /\ k.phase = "restored" /\ k.armed = j.armed
         /\ k.existed = j.existed /\ k.snap = j.snap
  BY DEF Journals, Phases, Alike

LEMMA AdvancedIs ==
  ASSUME NEW j \in Journals, NEW phase \in Phases, NEW k, k = Advanced(j, phase)
  PROVE  /\ k \in Journals /\ Alike(k, j) /\ k.phase = phase
         /\ k.armed = (j.armed /\ phase \notin Terminal)
         /\ k.existed = j.existed /\ k.snap = j.snap
  BY DEF Journals, Advanced, Alike

LEMMA PicturedIs ==
  ASSUME NEW j \in Journals, NEW b \in BOOLEAN, NEW k,
         k = [j EXCEPT !.existed = b, !.snap = b]
  PROVE  /\ k \in Journals /\ Alike(k, j) /\ k.phase = j.phase /\ k.armed = j.armed
         /\ k.existed = b /\ k.snap = b
  BY DEF Journals, Alike

LEMMA DatabaseIs ==
  ASSUME NEW d \in Databases, d # NoDb
  PROVE  d.schema \in Images \cup {"torn"} /\ d.writes \in 0..MaxWrites
  BY DEF Databases

LEMMA SchemaIs ==
  ASSUME NEW d \in Databases, d # NoDb, NEW v \in Images \cup {"torn"},
         NEW e, e = [d EXCEPT !.schema = v]
  PROVE  e \in Databases /\ e # NoDb /\ e.schema = v /\ e.writes = d.writes
  BY NullsAssumption DEF Databases

LEMMA WrittenIs ==
  ASSUME NEW d \in Databases, d # NoDb, d.writes < MaxWrites,
         NEW e, e = [d EXCEPT !.writes = @ + 1]
  PROVE  e \in Databases /\ e # NoDb /\ e.schema = d.schema /\ e.writes = d.writes + 1
  BY BoundsAssumption, NullsAssumption DEF Databases

LEMMA CreatedIs ==
  ASSUME NEW v \in Images, NEW e, e = [schema |-> v, writes |-> 0]
  PROVE  e \in Databases /\ e # NoDb /\ e.schema = v /\ e.writes = 0
  BY BoundsAssumption, NullsAssumption DEF Databases
-----------------------------------------------------------------------------
(* What a worker saves, and what the CLI does, is a journal.               *)
LEMMA Saving ==
  ASSUME Places, MemoryTypes, NEW w \in Workers, pc[w] \in DOMAIN PhaseAt,
         NEW k, k = Advanced(mem[w], PhaseAt[pc[w]])
  PROVE  /\ mem[w] \in Journals /\ k \in Journals /\ Alike(k, mem[w])
         /\ k.phase = PhaseAt[pc[w]]
         /\ k.armed = (mem[w].armed /\ k.phase \notin Terminal)
         /\ k.existed = mem[w].existed /\ k.snap = mem[w].snap
<1>1. pc[w] \in Doing /\ PhaseAt[pc[w]] \in Phases
  BY DEF Doing, Applying, Undoing, PhaseAt, Phases
<1>2. mem[w] \in Journals
  BY <1>1 DEF MemoryTypes, Processes
<1> QED
  BY <1>1, <1>2, AdvancedIs

LEMMA Preparation ==
  ASSUME CountsFit, pc["cli"] # "off", NEW r \in BOOLEAN, NEW e \in BOOLEAN, NEW j,
         j = [id |-> MaxUpdates - left.updates, phase |-> "prepared", armed |-> FALSE,
              running |-> r, existed |-> e, snap |-> FALSE, gone |-> FALSE]
  PROVE  /\ j \in Journals /\ j # NoJournal /\ j.id = MaxUpdates - left.updates
         /\ j.id \in 1..MaxUpdates
         /\ j.phase = "prepared" /\ j.armed = FALSE /\ j.existed = e /\ j.snap = FALSE
<1>1. MaxUpdates - left.updates \in 1..MaxUpdates
  BY BoundsAssumption DEF CountsFit
<1>2. j \in Journals
  BY <1>1 DEF Journals, Phases
<1> QED
  BY <1>1, <1>2, JournalIs

(* Tidying leaves the journal, or notes in it that the task is gone.       *)
LEMMA TidyIs ==
  ASSUME JournalFits, Tidy
  PROVE  /\ pc["cli"] = "guarded" /\ UNCHANGED <<exe, db, snapshot, mem, slips, inflight>>
         /\ ~Maintenance /\ ~Maintenance'
         /\ \/ UNCHANGED journal
            \/ /\ journal \in Journals /\ journal' \in Journals
               /\ journal' = [journal EXCEPT !.gone = TRUE]
               /\ journal'.phase = journal.phase /\ journal'.snap = journal.snap
<1>1. /\ pc["cli"] = "guarded" /\ UNCHANGED <<exe, db, snapshot, mem, slips, inflight>>
      /\ ~Maintenance
      /\ \/ UNCHANGED journal
         \/ journal # NoJournal /\ journal' = [journal EXCEPT !.gone = TRUE]
  BY DEF Tidy
<1>2. CASE UNCHANGED journal
  BY <1>1, <1>2 DEF Maintenance
<1>3. CASE journal # NoJournal /\ journal' = [journal EXCEPT !.gone = TRUE]
  <2>1. journal \in Journals
    BY <1>3 DEF JournalFits
  <2>2. /\ journal' \in Journals /\ journal'.phase = journal.phase
        /\ journal'.snap = journal.snap /\ journal'.armed = journal.armed
    BY <1>3, <2>1, GoneIs
  <2>3. ~Maintenance'
    BY <1>1, <1>3, <2>2 DEF Maintenance, Pending
  <2> QED
    BY <1>1, <1>3, <2>1, <2>2, <2>3
<1> QED
  BY <1>1, <1>2, <1>3

(* Two workers are never about it at once.                                 *)
LEMMA OneWorker ==
  ASSUME UpdateHeld, NEW v \in Workers, NEW w \in Workers, pc[v] \in Doing, pc[w] \in Doing
  PROVE  v = w
  BY DEF UpdateHeld

(* A worker that moves on with a journal.                                  *)
LEMMA Remembering ==
  ASSUME Places, MemoryTypes, NEW w \in Workers, NEW k \in Journals, NEW place,
         Goto(w, place), mem' = [mem EXCEPT ![w] = k]
  PROVE  MemoryTypes'
<1>1. w # "cli" /\ w \in Processes /\ "cli" \in Processes
  BY DEF Processes, Workers
<1>2. /\ pc' = [pc EXCEPT ![w] = place]
      /\ pc \in [Processes -> WorkerPlaces \cup CliPlaces \cup ServerPlaces]
  BY DEF Goto, Places
<1>3. /\ mem' \in [Processes -> Journals \cup {NoJournal}] /\ mem'["cli"] = mem["cli"]
      /\ pc'["cli"] = pc["cli"]
  BY <1>1, <1>2 DEF MemoryTypes
<1>4. ASSUME NEW v \in Workers, pc'[v] \in Doing PROVE mem'[v] # NoJournal
  <2>1. CASE v = w
    BY <2>1, <1>1, JournalIs DEF MemoryTypes
  <2>2. CASE v # w
    BY <2>2, <1>1, <1>2, <1>4 DEF MemoryTypes, Processes
  <2> QED
    BY <2>1, <2>2
<1> QED
  BY <1>3, <1>4 DEF MemoryTypes
-----------------------------------------------------------------------------
(* Every step keeps each part of CoreInv.                                  *)
LEMMA KeepsPlaces ==
  ASSUME CoreInv, Next
  PROVE  Places'
<1>1. CASE Cli
  BY <1>1 DEF CoreInv, Places, Processes, Workers, Servers, WorkerPlaces, CliPlaces,
       ServerPlaces, Applying, Undoing, Cli, BeginInstall, RefuseInstall, Prepare,
       SaveUnarmed, Register, RegisterRefused, Arm, SpawnWorker, CliEnds, Spend, Goto,
       disk, CanPrepare, Exit, Terminal, locks, Fault, Freed, SavedIds, Maintenance,
       Pending, Tidy, TidyFails, Fails
<1>2. CASE Logon \/ UserStarts \/ MachineCrashes
  BY <1>2 DEF CoreInv, Places, Processes, Workers, Servers, WorkerPlaces, CliPlaces,
       ServerPlaces, Applying, Undoing, Logon, UserStarts, MachineCrashes, Goto, disk,
       locks
<1>3. ASSUME NEW w \in Workers, Worker(w) PROVE Places'
  <2>1. CASE Poll(w) \/ PollTimesOut(w) \/ ReadFinished(w) \/ Prune(w) \/ Enter(w)
    BY <2>1 DEF CoreInv, Places, Processes, Workers, Servers, WorkerPlaces, CliPlaces,
         ServerPlaces, Applying, Undoing, Poll, PollTimesOut, ReadFinished, Prune,
         Enter, Goto, disk, locks, Exit, Terminal, Fault, Route, Freed, Spend
  <2>2. CASE Advance(w) \/ AdvanceFails(w) \/ SaveError(w) \/ StepFails(w)
    BY <2>2 DEF CoreInv, Places, Processes, Workers, Servers, WorkerPlaces, CliPlaces,
         ServerPlaces, Applying, Undoing, Advance, AdvanceFails, SaveError, StepFails,
         PhaseAt, Advanced, Move, AfterSave, Fault, FailTo, disk, Terminal, Goto, Freed,
         Fails
  <2>3. CASE Stopped(w) \/ AskToStop(w) \/ CannotStop(w) \/ LockServer(w) \/ Start(w)
             \/ Ready(w) \/ NobodyAnswers(w)
    BY <2>3 DEF CoreInv, Places, Processes, Workers, Servers, WorkerPlaces, CliPlaces,
         ServerPlaces, Applying, Undoing, Stopped, AskToStop, CannotStop, LockServer,
         Start, Ready, NobodyAnswers, AfterStop, Move, disk, Goto, locks, FailTo, Freed
  <2>4. CASE Snapshot(w) \/ Retire(w) \/ InstallCandidate(w) \/ RestoreExe(w)
             \/ RestoreDb(w) \/ PutDb(w)
    BY <2>4 DEF CoreInv, Places, Processes, Workers, Servers, WorkerPlaces, CliPlaces,
         ServerPlaces, Applying, Undoing, Snapshot, Retire, InstallCandidate,
         RestoreExe, RestoreDb, PutDb, Move, Goto, locks, FailTo, AfterRestore, Freed
  <2>5. CASE Cleanup(w) \/ SaveGone(w)
    BY <2>5 DEF CoreInv, Places, Processes, Workers, Servers, WorkerPlaces, Undoing,
         Cleanup, SaveGone, Move, Goto, Fails
  <2> QED
    BY <1>3, <2>1, <2>2, <2>3, <2>4, <2>5 DEF Worker
<1>4. ASSUME NEW s \in Servers, Server(s) PROVE Places'
  BY <1>4 DEF CoreInv, Places, Processes, Workers, Servers, WorkerPlaces, CliPlaces,
       ServerPlaces, Applying, Undoing, Server, Guard, TakeServerLock, Open, Serve,
       Admit, Land, Finish, StartupFails, Maintenance, Exempt, Goto, locks, Exit, disk,
       Freed, Fault, Pending
<1>5. ASSUME NEW p \in Processes, Kill(p) PROVE Places'
  BY <1>5 DEF CoreInv, Places, WorkerPlaces, CliPlaces, ServerPlaces, Applying, Undoing,
       Kill, Spend, Exit, disk, Goto
<1> QED
  BY <1>1, <1>2, <1>3, <1>4, <1>5 DEF Next

LEMMA KeepsUpdateHeld ==
  ASSUME CoreInv, Next
  PROVE  UpdateHeld'
<1>1. CASE Cli
  <2>1. CASE BeginInstall \/ Tidy \/ Prepare
    BY <2>1 DEF CoreInv, UpdateHeld, Places, Processes, Workers, Servers, Doing,
         Preparing, Applying, Undoing, BeginInstall, Tidy, Prepare, Goto, locks
  <2>2. CASE RefuseInstall \/ TidyFails \/ RegisterRefused \/ CliEnds
    BY <2>2 DEF CoreInv, UpdateHeld, Places, Processes, Workers, Doing, Preparing,
         Applying, Undoing, RefuseInstall, TidyFails, RegisterRefused, CliEnds, Exit,
         Goto, Freed
  <2>3. CASE SaveUnarmed \/ Register \/ Arm \/ SpawnWorker
    BY <2>3 DEF CoreInv, UpdateHeld, Places, Processes, Workers, Doing, Preparing,
         Applying, Undoing, SaveUnarmed, Register, Arm, SpawnWorker, Goto, locks
  <2> QED
    BY <1>1, <2>1, <2>2, <2>3 DEF Cli
<1>2. CASE Logon \/ UserStarts \/ MachineCrashes
  BY <1>2 DEF CoreInv, UpdateHeld, Places, Processes, Workers, Servers, Doing,
       Preparing, Applying, Undoing, Logon, UserStarts, MachineCrashes, Goto, disk,
       locks, Spend, WorkerPlaces, CliPlaces, ServerPlaces
<1>3. ASSUME NEW w \in Workers, Worker(w) PROVE UpdateHeld'
  <2>1. CASE Poll(w) \/ PollTimesOut(w) \/ ReadFinished(w) \/ Prune(w) \/ Enter(w)
    BY <2>1 DEF CoreInv, UpdateHeld, Places, Processes, Workers, Servers, Doing,
         Preparing, Applying, Undoing, Poll, PollTimesOut, ReadFinished, Prune, Enter,
         Goto, disk, locks, Exit, Terminal, Fault, Route, WorkerPlaces, CliPlaces,
         ServerPlaces, Freed
  <2>2. CASE Advance(w) \/ AdvanceFails(w) \/ SaveError(w) \/ StepFails(w)
    BY <2>2 DEF CoreInv, UpdateHeld, Places, Processes, Workers, Servers, Doing,
         Preparing, Applying, Undoing, Advance, AdvanceFails, SaveError, StepFails,
         PhaseAt, Advanced, Move, AfterSave, Fault, FailTo, disk, WorkerPlaces,
         CliPlaces, ServerPlaces, Terminal, Goto, Freed, Spend, Fails
  <2>3. CASE Stopped(w) \/ AskToStop(w) \/ CannotStop(w) \/ LockServer(w) \/ Start(w)
             \/ Ready(w) \/ NobodyAnswers(w)
    BY <2>3 DEF CoreInv, UpdateHeld, Places, Processes, Workers, Servers, Doing,
         Preparing, Applying, Undoing, Stopped, AskToStop, CannotStop, LockServer,
         Start, Ready, NobodyAnswers, AfterStop, Move, disk, Goto, locks, FailTo,
         WorkerPlaces
  <2>4. CASE Snapshot(w) \/ Retire(w) \/ InstallCandidate(w) \/ RestoreExe(w)
             \/ RestoreDb(w) \/ PutDb(w)
    BY <2>4 DEF CoreInv, UpdateHeld, Places, Processes, Workers, Servers, Doing,
         Preparing, Applying, Undoing, Snapshot, Retire, InstallCandidate, RestoreExe,
         RestoreDb, PutDb, Move, Goto, locks, FailTo, AfterRestore, WorkerPlaces,
         CliPlaces, ServerPlaces
  <2>5. CASE Cleanup(w) \/ SaveGone(w)
    BY <2>5 DEF CoreInv, UpdateHeld, Places, Processes, Doing, Preparing, Applying,
         Undoing, Cleanup, SaveGone, Move, WorkerPlaces, CliPlaces, ServerPlaces, Goto,
         Freed, Fails
  <2> QED
    BY <1>3, <2>1, <2>2, <2>3, <2>4, <2>5 DEF Worker
<1>4. ASSUME NEW s \in Servers, Server(s) PROVE UpdateHeld'
  BY <1>4 DEF CoreInv, UpdateHeld, Places, Processes, Workers, Servers, Doing,
       Preparing, Applying, Undoing, Server, Guard, TakeServerLock, Open, Serve, Admit,
       Land, Finish, StartupFails, Maintenance, Exempt, Goto, locks, Exit, disk, Freed,
       Fault, WorkerPlaces, CliPlaces, ServerPlaces, Pending, Spend
<1>5. ASSUME NEW p \in Processes, Kill(p) PROVE UpdateHeld'
  BY <1>5 DEF CoreInv, UpdateHeld, Places, Doing, Preparing, Applying, Undoing, Kill,
       Spend, Exit, disk, WorkerPlaces, CliPlaces, ServerPlaces, Goto, Freed
<1> QED
  BY <1>1, <1>2, <1>3, <1>4, <1>5 DEF Next

LEMMA KeepsServerHeld ==
  ASSUME CoreInv, Next
  PROVE  ServerHeld'
<1>1. CASE Cli
  BY <1>1 DEF CoreInv, ServerHeld, Places, Processes, Workers, Servers, Alone, Open4,
       Applying, Undoing, Cli, BeginInstall, RefuseInstall, Prepare, SaveUnarmed,
       Register, RegisterRefused, Arm, SpawnWorker, CliEnds, Spend, Goto, disk,
       CanPrepare, Exit, Terminal, locks, Fault, Freed, SavedIds, WorkerPlaces,
       CliPlaces, Tidy, TidyFails, Fails
<1>2. CASE Logon \/ UserStarts \/ MachineCrashes
  BY <1>2 DEF CoreInv, ServerHeld, Places, Processes, Workers, Servers, Alone, Open4,
       Applying, Undoing, Logon, UserStarts, MachineCrashes, Goto, disk, locks, Spend,
       WorkerPlaces, CliPlaces, ServerPlaces
<1>3. ASSUME NEW w \in Workers, Worker(w) PROVE ServerHeld'
  <2>1. CASE Poll(w) \/ PollTimesOut(w) \/ ReadFinished(w) \/ Prune(w) \/ Enter(w)
    BY <2>1 DEF CoreInv, ServerHeld, Places, Processes, Workers, Servers, Alone, Open4,
         Applying, Undoing, Poll, PollTimesOut, ReadFinished, Prune, Enter, Goto, disk,
         locks, Exit, Terminal, Fault, Route, WorkerPlaces, CliPlaces, ServerPlaces,
         Freed
  <2>2. CASE Advance(w) \/ AdvanceFails(w) \/ SaveError(w) \/ StepFails(w)
    BY <2>2 DEF CoreInv, ServerHeld, Places, Processes, Workers, Servers, Alone, Open4,
         Applying, Undoing, Advance, AdvanceFails, SaveError, StepFails, PhaseAt,
         Advanced, Move, AfterSave, Fault, FailTo, disk, WorkerPlaces, CliPlaces,
         ServerPlaces, Terminal, Goto, Freed, Spend, Fails
  <2>3. CASE Stopped(w) \/ AskToStop(w) \/ CannotStop(w) \/ LockServer(w) \/ Start(w)
             \/ Ready(w) \/ NobodyAnswers(w)
    BY <2>3 DEF CoreInv, ServerHeld, Places, Processes, Workers, Servers, Alone, Open4,
         Applying, Undoing, Stopped, AskToStop, CannotStop, LockServer, Start, Ready,
         NobodyAnswers, AfterStop, Move, disk, Goto, locks, FailTo, WorkerPlaces,
         CliPlaces, ServerPlaces, Freed
  <2>4. CASE Snapshot(w) \/ Retire(w) \/ InstallCandidate(w) \/ RestoreExe(w)
             \/ RestoreDb(w) \/ PutDb(w)
    BY <2>4 DEF CoreInv, ServerHeld, Places, Processes, Workers, Servers, Alone, Open4,
         Applying, Undoing, Snapshot, Retire, InstallCandidate, RestoreExe, RestoreDb,
         PutDb, Move, Goto, locks, FailTo, AfterRestore, WorkerPlaces, CliPlaces,
         ServerPlaces, Freed
  <2>5. CASE Cleanup(w) \/ SaveGone(w)
    BY <2>5 DEF CoreInv, ServerHeld, Places, Processes, Alone, Open4, Applying, Undoing,
         Cleanup, SaveGone, Move, WorkerPlaces, CliPlaces, ServerPlaces, Goto, Freed,
         Fails
  <2> QED
    BY <1>3, <2>1, <2>2, <2>3, <2>4, <2>5 DEF Worker
<1>4. ASSUME NEW s \in Servers, Server(s) PROVE ServerHeld'
  BY <1>4 DEF CoreInv, ServerHeld, Places, Processes, Workers, Servers, Alone, Open4,
       Applying, Undoing, Server, Guard, TakeServerLock, Open, Serve, Admit, Land,
       Finish, StartupFails, Maintenance, Exempt, Goto, locks, Exit, disk, Freed, Fault,
       WorkerPlaces, CliPlaces, ServerPlaces, Pending, Spend
<1>5. ASSUME NEW p \in Processes, Kill(p) PROVE ServerHeld'
  BY <1>5 DEF CoreInv, ServerHeld, Places, Alone, Open4, Applying, Undoing, Kill, Spend,
       Exit, disk, WorkerPlaces, CliPlaces, ServerPlaces, Goto, Freed
<1> QED
  BY <1>1, <1>2, <1>3, <1>4, <1>5 DEF Next

LEMMA KeepsProcessTypes ==
  ASSUME CoreInv, Next
  PROVE  ProcessTypes'
<1>1. CASE Cli
  BY <1>1 DEF CoreInv, ProcessTypes, Processes, Workers, Servers, Cli, BeginInstall,
       RefuseInstall, Prepare, SaveUnarmed, Register, RegisterRefused, Arm, SpawnWorker,
       CliEnds, Spend, Goto, disk, CanPrepare, Exit, Terminal, Tidy, TidyFails, Fails
<1>2. CASE Logon
  BY <1>2 DEF CoreInv, ProcessTypes, Logon
<1>3. CASE UserStarts
  BY <1>3 DEF CoreInv, ProcessTypes, ExeFits, Processes, Workers, Servers, UserStarts,
       Spend, Goto
<1>4. CASE MachineCrashes
  BY <1>4 DEF CoreInv, ProcessTypes, MachineCrashes
<1>5. ASSUME NEW w \in Workers, Worker(w) PROVE ProcessTypes'
  <2>1. CASE Poll(w) \/ PollTimesOut(w) \/ ReadFinished(w) \/ Prune(w) \/ Enter(w)
    BY <2>1 DEF CoreInv, ProcessTypes, Poll, PollTimesOut, ReadFinished, Prune, Enter,
         Goto, disk, locks, Exit, Terminal
  <2>2. CASE Advance(w) \/ AdvanceFails(w) \/ SaveError(w) \/ StepFails(w)
    BY <2>2 DEF CoreInv, ProcessTypes, Advance, AdvanceFails, SaveError, StepFails,
         Move, AfterSave, Fails
  <2>3. CASE Stopped(w) \/ AskToStop(w) \/ CannotStop(w) \/ LockServer(w)
    BY <2>3 DEF CoreInv, ProcessTypes, Stopped, AskToStop, CannotStop, LockServer,
         AfterStop, Move
  <2>4. CASE Start(w)
    BY <2>4, Zenon DEF CoreInv, ProcessTypes, ExeFits, Processes, Workers, Servers,
         Images, Start
  <2>5. CASE Ready(w)
    BY <2>5 DEF CoreInv, ProcessTypes, Ready, Move
  <2>6. CASE NobodyAnswers(w)
    BY <2>6 DEF CoreInv, ProcessTypes, NobodyAnswers, Move
  <2>7. CASE Snapshot(w) \/ Retire(w) \/ InstallCandidate(w) \/ RestoreExe(w)
             \/ RestoreDb(w) \/ PutDb(w)
    BY <2>7 DEF CoreInv, ProcessTypes, Snapshot, Retire, InstallCandidate, RestoreExe,
         RestoreDb, PutDb, Move, Goto, locks, FailTo
  <2>8. CASE Cleanup(w) \/ SaveGone(w)
    BY <2>8 DEF CoreInv, ProcessTypes, Cleanup, SaveGone, Move, Images, Fails
  <2> QED
    BY <1>5, <2>1, <2>2, <2>3, <2>4, <2>5, <2>6, <2>7, <2>8 DEF Worker
<1>6. ASSUME NEW s \in Servers, Server(s) PROVE ProcessTypes'
  BY <1>6 DEF CoreInv, ProcessTypes, Server, Guard, TakeServerLock, Open, Serve, Admit,
       Land, Finish, StartupFails, Maintenance, Exempt, Goto, locks, Exit, disk, Freed,
       Fault, Images
<1>7. ASSUME NEW p \in Processes, Kill(p) PROVE ProcessTypes'
  BY <1>7 DEF CoreInv, ProcessTypes, Kill, Exit, disk
<1> QED
  BY <1>1, <1>2, <1>3, <1>4, <1>5, <1>6, <1>7 DEF Next

LEMMA KeepsCountsFit ==
  ASSUME CoreInv, Next
  PROVE  CountsFit'
<1>1. CASE Cli
  BY <1>1, BoundsAssumption DEF CoreInv, CountsFit, Places, Cli, BeginInstall,
       RefuseInstall, Prepare, SaveUnarmed, Register, RegisterRefused, Arm, SpawnWorker,
       CliEnds, Spend, Goto, disk, CanPrepare, Exit, Terminal, locks, Fault, Undoing,
       Pending, Tidy, TidyFails, Fails
<1>2. CASE Logon \/ UserStarts \/ MachineCrashes
  BY <1>2 DEF CoreInv, CountsFit, Places, Processes, Logon, UserStarts, MachineCrashes,
       Goto, disk, locks, Spend, WorkerPlaces, CliPlaces, ServerPlaces
<1>3. ASSUME NEW w \in Workers, Worker(w) PROVE CountsFit'
  <2>1. CASE Poll(w) \/ PollTimesOut(w) \/ ReadFinished(w) \/ Prune(w) \/ Enter(w)
    BY <2>1 DEF CoreInv, CountsFit, Places, Processes, Workers, Servers, Poll,
         PollTimesOut, ReadFinished, Prune, Enter, Goto, disk, locks, Exit, Terminal,
         Fault, Route, WorkerPlaces, CliPlaces, ServerPlaces, Freed, Spend, Applying
  <2>2. CASE Advance(w) \/ AdvanceFails(w) \/ SaveError(w) \/ StepFails(w)
    BY <2>2 DEF CoreInv, CountsFit, Places, Processes, Workers, Servers, Advance,
         AdvanceFails, SaveError, StepFails, PhaseAt, Advanced, Move, AfterSave, Fault,
         FailTo, disk, Applying, Undoing, WorkerPlaces, CliPlaces, ServerPlaces,
         Terminal, Goto, Freed, Spend, Fails
  <2>3. CASE Stopped(w) \/ AskToStop(w) \/ CannotStop(w) \/ LockServer(w) \/ Start(w)
             \/ Ready(w) \/ NobodyAnswers(w)
    BY <2>3 DEF CoreInv, CountsFit, Places, Processes, Workers, Servers, Stopped,
         AskToStop, CannotStop, LockServer, Start, Ready, NobodyAnswers, AfterStop,
         Move, disk, Goto, locks
  <2>4. CASE Snapshot(w) \/ Retire(w) \/ InstallCandidate(w) \/ RestoreExe(w)
             \/ RestoreDb(w) \/ PutDb(w)
    BY <2>4 DEF CoreInv, CountsFit, Places, Processes, Workers, Servers, Snapshot,
         Retire, InstallCandidate, RestoreExe, RestoreDb, PutDb, Move, Goto, locks,
         FailTo, AfterRestore, WorkerPlaces
  <2>5. CASE Cleanup(w) \/ SaveGone(w)
    BY <2>5 DEF CoreInv, CountsFit, Places, Processes, Cleanup, SaveGone, Move,
         WorkerPlaces, CliPlaces, ServerPlaces, Goto, Freed, Applying, Undoing, Fails
  <2> QED
    BY <1>3, <2>1, <2>2, <2>3, <2>4, <2>5 DEF Worker
<1>4. ASSUME NEW s \in Servers, Server(s) PROVE CountsFit'
  BY <1>4, BoundsAssumption DEF CoreInv, CountsFit, Places, Processes, Workers, Servers,
       Server, Guard, TakeServerLock, Open, Serve, Admit, Land, Finish, StartupFails,
       Maintenance, Exempt, Goto, locks, Exit, disk, Freed, Fault, WorkerPlaces,
       CliPlaces, ServerPlaces, Pending, Spend, Applying, Undoing, Terminal
<1>5. ASSUME NEW p \in Processes, Kill(p) PROVE CountsFit'
  BY <1>5 DEF CoreInv, CountsFit, Kill, Spend, Exit, ServerPlaces, Goto, Freed
<1> QED
  BY <1>1, <1>2, <1>3, <1>4, <1>5 DEF Next

LEMMA KeepsFolderTypes ==
  ASSUME CoreInv, Next
  PROVE  FolderTypes'
<1>1. CASE Cli
  <2>1. CASE BeginInstall
    BY <2>1 DEF CoreInv, FolderTypes, BeginInstall, disk
  <2>2. CASE RefuseInstall
    BY <2>2 DEF CoreInv, FolderTypes, RefuseInstall, CanPrepare, Exit, disk
  <2>t. CASE Tidy \/ TidyFails
    BY <2>t DEF CoreInv, FolderTypes, Tidy, TidyFails
  <2>3. CASE Prepare
    BY <2>3, Preparation, Zenon DEF CoreInv, FolderTypes, CountsFit, Places, Prepare
  <2>4. CASE SaveUnarmed
    BY <2>4 DEF CoreInv, FolderTypes, SaveUnarmed
  <2>5. CASE Register
    BY <2>5, Zenon DEF CoreInv, FolderTypes, Register, Fails
  <2>6. CASE RegisterRefused \/ Arm \/ SpawnWorker \/ CliEnds
    BY <2>6 DEF CoreInv, FolderTypes, RegisterRefused, Arm, SpawnWorker, CliEnds, disk,
         Fault, SavedIds, Fails
  <2> QED
    BY <1>1, <2>1, <2>2, <2>t, <2>3, <2>4, <2>5, <2>6 DEF Cli
<1>2. CASE Logon
  BY <1>2 DEF CoreInv, FolderTypes, Logon, disk
<1>3. CASE UserStarts
  BY <1>3 DEF CoreInv, FolderTypes, UserStarts, disk
<1>4. CASE MachineCrashes
  BY <1>4 DEF CoreInv, FolderTypes, MachineCrashes, disk
<1>5. ASSUME NEW w \in Workers, Worker(w) PROVE FolderTypes'
  <2>1. CASE Poll(w)
    BY <2>1 DEF CoreInv, FolderTypes, Poll, disk
  <2>2. CASE PollTimesOut(w)
    BY <2>2 DEF CoreInv, FolderTypes, PollTimesOut, disk
  <2>3. CASE ReadFinished(w)
    BY <2>3 DEF CoreInv, FolderTypes, ReadFinished, Exit, disk
  <2>4. CASE Prune(w)
    BY <2>4 DEF CoreInv, FolderTypes, Prune, Slips
  <2>5. CASE Enter(w)
    BY <2>5 DEF CoreInv, FolderTypes, Enter, disk, Spend
  <2>6. CASE Advance(w) \/ AdvanceFails(w) \/ SaveError(w) \/ StepFails(w)
    BY <2>6 DEF CoreInv, FolderTypes, Advance, AdvanceFails, SaveError, StepFails,
         PhaseAt, disk, Slips
  <2>7. CASE Stopped(w)
    BY <2>7 DEF CoreInv, FolderTypes, Stopped, Move, disk
  <2>8. CASE AskToStop(w)
    BY <2>8 DEF CoreInv, FolderTypes, AskToStop, disk
  <2>9. CASE CannotStop(w)
    BY <2>9 DEF CoreInv, FolderTypes, CannotStop, AfterStop, disk, Goto
  <2>10. CASE LockServer(w)
    BY <2>10 DEF CoreInv, FolderTypes, LockServer, Goto, disk, Freed
  <2>11. CASE Start(w)
    BY <2>11 DEF CoreInv, FolderTypes, Start, disk
  <2>12. CASE Ready(w)
    BY <2>12 DEF CoreInv, FolderTypes, Ready, Move, FailTo, disk
  <2>13. CASE NobodyAnswers(w)
    BY <2>13 DEF CoreInv, FolderTypes, NobodyAnswers, Move, FailTo, disk
  <2>14. CASE Snapshot(w) \/ Retire(w) \/ InstallCandidate(w) \/ RestoreExe(w)
              \/ RestoreDb(w) \/ PutDb(w)
    BY <2>14 DEF CoreInv, FolderTypes, Snapshot, Retire, InstallCandidate, RestoreExe,
         RestoreDb, PutDb
  <2>15. CASE Cleanup(w)
    BY <2>15, Zenon DEF CoreInv, FolderTypes, Cleanup
  <2>16. CASE SaveGone(w)
    BY <2>16 DEF CoreInv, FolderTypes, SaveGone, Fails
  <2> QED
    BY <1>5, <2>1, <2>2, <2>3, <2>4, <2>5, <2>6, <2>7, <2>8, <2>9, <2>10, <2>11, <2>12,
       <2>13, <2>14, <2>15, <2>16 DEF Worker
<1>6. ASSUME NEW s \in Servers, Server(s) PROVE FolderTypes'
  BY <1>6 DEF CoreInv, FolderTypes, Server, Guard, TakeServerLock, Open, Serve, Admit,
       Land, Finish, StartupFails, Maintenance, Exempt, Goto, locks, Exit, disk, Freed,
       Fault, Pending
<1>7. ASSUME NEW p \in Processes, Kill(p) PROVE FolderTypes'
  BY <1>7 DEF CoreInv, FolderTypes, Kill, Exit, disk
<1> QED
  BY <1>1, <1>2, <1>3, <1>4, <1>5, <1>6, <1>7 DEF Next

LEMMA KeepsStoreTypes ==
  ASSUME CoreInv, Next
  PROVE  StoreTypes'
<1>1. CASE Cli
  BY <1>1 DEF CoreInv, StoreTypes, Cli, BeginInstall, RefuseInstall, Prepare,
       SaveUnarmed, Register, RegisterRefused, Arm, SpawnWorker, CliEnds, Spend, Goto,
       disk, CanPrepare, Exit, Terminal, Tidy, TidyFails, Fails
<1>2. CASE Logon \/ UserStarts \/ MachineCrashes
  BY <1>2 DEF CoreInv, StoreTypes, Logon, UserStarts, MachineCrashes, Goto, disk, locks
<1>3. ASSUME NEW w \in Workers, Worker(w) PROVE StoreTypes'
  <2>1. CASE Poll(w) \/ PollTimesOut(w) \/ ReadFinished(w) \/ Prune(w) \/ Enter(w)
    BY <2>1 DEF CoreInv, StoreTypes, Poll, PollTimesOut, ReadFinished, Prune, Enter,
         Goto, disk
  <2>2. CASE Advance(w) \/ AdvanceFails(w) \/ SaveError(w) \/ StepFails(w)
    BY <2>2 DEF CoreInv, StoreTypes, Advance, AdvanceFails, SaveError, StepFails, Move,
         AfterSave, Fault, FailTo, disk, Applying, Undoing, Fails
  <2>3. CASE Stopped(w) \/ AskToStop(w) \/ CannotStop(w) \/ LockServer(w) \/ Start(w)
             \/ Ready(w) \/ NobodyAnswers(w)
    BY <2>3 DEF CoreInv, StoreTypes, Stopped, AskToStop, CannotStop, LockServer, Start,
         Ready, NobodyAnswers, AfterStop, Move, disk, Goto, locks, FailTo
  <2>4. CASE Snapshot(w) \/ Retire(w) \/ InstallCandidate(w) \/ RestoreExe(w)
             \/ RestoreDb(w) \/ PutDb(w)
    BY <2>4, SchemaIs, DatabaseIs DEF CoreInv, StoreTypes, MemoryTypes, MemoryFits,
         Doing, Applying, Undoing, Holding, JournalFits, SnapFits, Snapshot, Retire,
         InstallCandidate, RestoreExe, RestoreDb, PutDb, Move, Goto, locks, FailTo,
         AfterRestore, Databases, Journals, Freed, Images, Phases
  <2>5. CASE Cleanup(w) \/ SaveGone(w)
    BY <2>5 DEF CoreInv, StoreTypes, Cleanup, SaveGone, Fails
  <2> QED
    BY <1>3, <2>1, <2>2, <2>3, <2>4, <2>5 DEF Worker
<1>4. ASSUME NEW s \in Servers, Server(s) PROVE StoreTypes'
  <2>1. CASE Guard(s) \/ TakeServerLock(s) \/ Open(s) \/ Serve(s)
    BY <2>1, DatabaseIs, SchemaIs, CreatedIs DEF CoreInv, StoreTypes, ProcessTypes,
         Places, Guard, TakeServerLock, Open, Serve, Maintenance, Exempt, Goto, locks,
         Exit, disk, Freed, Databases, Images, WorkerPlaces
  <2>2. CASE Admit(s)
    BY <2>2 DEF CoreInv, StoreTypes, Admit, disk
  <2>3. CASE Land(s)
    BY <2>3, WrittenIs DEF CoreInv, StoreTypes, WritesFit, Land
  <2>4. CASE Finish(s) \/ StartupFails(s)
    BY <2>4 DEF CoreInv, StoreTypes, Finish, StartupFails, disk
  <2> QED
    BY <1>4, <2>1, <2>2, <2>3, <2>4 DEF Server
<1>5. ASSUME NEW p \in Processes, Kill(p) PROVE StoreTypes'
  BY <1>5 DEF CoreInv, StoreTypes, Kill, Spend, Exit, disk
<1> QED
  BY <1>1, <1>2, <1>3, <1>4, <1>5 DEF Next

LEMMA KeepsExeFits ==
  ASSUME CoreInv, Next
  PROVE  ExeFits'
<1>1. CASE Cli
  BY <1>1 DEF CoreInv, ExeFits, UpdateHeld, Places, Processes, Workers, Servers, Images,
       Doing, Applying, Undoing, Cli, BeginInstall, RefuseInstall, Prepare, SaveUnarmed,
       Register, RegisterRefused, Arm, SpawnWorker, CliEnds, Spend, Goto, disk,
       CanPrepare, Exit, Terminal, Tidy, TidyFails, Fails
<1>2. CASE Logon \/ UserStarts \/ MachineCrashes
  BY <1>2 DEF CoreInv, ExeFits, UpdateHeld, Places, Processes, Workers, Servers, Images,
       Doing, Applying, Undoing, Logon, UserStarts, MachineCrashes, Goto, disk, locks,
       Spend, Preparing, WorkerPlaces
<1>3. ASSUME NEW w \in Workers, Worker(w) PROVE ExeFits'
  <2>1. CASE Poll(w) \/ PollTimesOut(w) \/ ReadFinished(w) \/ Prune(w) \/ Enter(w)
    BY <2>1 DEF CoreInv, ExeFits, UpdateHeld, Places, Processes, Workers, Applying,
         Undoing, Poll, PollTimesOut, ReadFinished, Prune, Enter, Goto, disk, locks,
         Exit, Terminal, Fault, Route, Preparing, WorkerPlaces, CliPlaces, ServerPlaces,
         Freed
  <2>2. CASE Advance(w) \/ AdvanceFails(w) \/ SaveError(w) \/ StepFails(w)
    BY <2>2 DEF CoreInv, ExeFits, UpdateHeld, Places, Processes, Workers, Applying,
         Undoing, Advance, AdvanceFails, SaveError, StepFails, PhaseAt, Advanced, Move,
         AfterSave, Fault, FailTo, disk, Preparing, WorkerPlaces, CliPlaces,
         ServerPlaces, Terminal, Goto, Fails
  <2>3. CASE Stopped(w) \/ AskToStop(w) \/ CannotStop(w) \/ LockServer(w) \/ Start(w)
             \/ Ready(w) \/ NobodyAnswers(w)
    BY <2>3 DEF CoreInv, ExeFits, UpdateHeld, Places, Processes, Workers, Applying,
         Undoing, Stopped, AskToStop, CannotStop, LockServer, Start, Ready,
         NobodyAnswers, AfterStop, Move, disk, Goto, locks, FailTo, Preparing,
         WorkerPlaces, CliPlaces, ServerPlaces
  <2>4. CASE Snapshot(w) \/ Retire(w) \/ InstallCandidate(w) \/ RestoreExe(w)
             \/ RestoreDb(w) \/ PutDb(w)
    BY <2>4 DEF CoreInv, ExeFits, UpdateHeld, Places, Processes, Workers, Servers,
         Images, Doing, Applying, Undoing, Snapshot, Retire, InstallCandidate,
         RestoreExe, RestoreDb, PutDb, Move, Goto, locks, FailTo, AfterRestore,
         Preparing, WorkerPlaces
  <2>5. CASE Cleanup(w) \/ SaveGone(w)
    BY <2>5 DEF CoreInv, ExeFits, Places, Processes, Undoing, Cleanup, SaveGone, Move,
         ServerPlaces, Goto, Freed, Fails
  <2> QED
    BY <1>3, <2>1, <2>2, <2>3, <2>4, <2>5 DEF Worker
<1>4. ASSUME NEW s \in Servers, Server(s) PROVE ExeFits'
  BY <1>4 DEF CoreInv, ExeFits, UpdateHeld, Places, Processes, Workers, Servers, Images,
       Doing, Applying, Undoing, Server, Guard, TakeServerLock, Open, Serve, Admit,
       Land, Finish, StartupFails, Maintenance, Exempt, Goto, locks, Exit, disk, Freed,
       Fault, Preparing, WorkerPlaces, CliPlaces, ServerPlaces
<1>5. ASSUME NEW p \in Processes, Kill(p) PROVE ExeFits'
  BY <1>5 DEF CoreInv, ExeFits, Places, Kill, Spend, Exit, disk, Preparing, Goto, Freed
<1> QED
  BY <1>1, <1>2, <1>3, <1>4, <1>5 DEF Next

LEMMA KeepsWritesFit ==
  ASSUME CoreInv, Next
  PROVE  WritesFit'
<1>1. CASE Cli
  <2>1. CASE BeginInstall
    BY <2>1 DEF CoreInv, WritesFit, Places, BeginInstall, Spend, Goto, disk, Images
  <2>2. CASE RefuseInstall \/ TidyFails
    BY <2>2 DEF CoreInv, WritesFit, ProcessTypes, Places, Processes, Servers,
         RefuseInstall, TidyFails, Exit, disk, Goto
  <2>3. CASE Tidy \/ Prepare
    BY <2>3 DEF CoreInv, WritesFit, ProcessTypes, Places, Processes, Servers, Tidy,
         Prepare, Goto
  <2>4. CASE SaveUnarmed
    BY <2>4 DEF CoreInv, WritesFit, SaveUnarmed, Goto
  <2>5. CASE Register
    BY <2>5 DEF CoreInv, WritesFit, ProcessTypes, Places, Processes, Workers, Servers,
         Register, Goto, Fails
  <2>6. CASE RegisterRefused
    BY <2>6 DEF CoreInv, WritesFit, Places, RegisterRefused, Exit, ServerPlaces, Goto,
         Freed
  <2>7. CASE Arm
    BY <2>7 DEF CoreInv, WritesFit, Arm, Freed, Goto, Images, WorkerPlaces
  <2>8. CASE SpawnWorker
    BY <2>8 DEF CoreInv, WritesFit, ProcessTypes, Places, Processes, Workers, Servers,
         SpawnWorker, disk
  <2>9. CASE CliEnds
    BY <2>9 DEF CoreInv, WritesFit, CliEnds, Fault, Exit, SavedIds, Spend, Goto, Freed,
         Applying, Fails
  <2> QED
    BY <1>1, <2>1, <2>2, <2>3, <2>4, <2>5, <2>6, <2>7, <2>8, <2>9 DEF Cli
<1>2. CASE Logon
  BY <1>2 DEF CoreInv, WritesFit, Logon, Goto, disk
<1>3. CASE UserStarts
  BY <1>3 DEF CoreInv, WritesFit, Places, UserStarts, Spend, Goto, disk, locks
<1>4. CASE MachineCrashes
  BY <1>4 DEF WritesFit, Processes, Servers, MachineCrashes
<1>5. ASSUME NEW w \in Workers, Worker(w) PROVE WritesFit'
  <2>1. CASE Poll(w)
    BY <2>1 DEF CoreInv, WritesFit, Poll, Goto, disk
  <2>2. CASE PollTimesOut(w)
    BY <2>2 DEF CoreInv, WritesFit, Places, PollTimesOut, Exit, disk, Images,
         WorkerPlaces, CliPlaces, ServerPlaces, Goto
  <2>3. CASE ReadFinished(w)
    BY <2>3, Zenon DEF CoreInv, WritesFit, ProcessTypes, Places, Processes,
         ReadFinished, Terminal, Goto, locks, Exit, disk, Images
  <2>4. CASE Prune(w)
    BY <2>4 DEF CoreInv, WritesFit, Places, Prune, Exit, ServerPlaces, Goto, Freed
  <2>5. CASE Enter(w)
    BY <2>5 DEF CoreInv, WritesFit, ProcessTypes, Places, Processes, Workers, Servers,
         Enter, Fault, Route, Goto, disk, Images, WorkerPlaces, CliPlaces
  <2>6. CASE Advance(w)
    BY <2>6 DEF CoreInv, WritesFit, ProcessTypes, Places, Processes, Workers, Servers,
         Advance, PhaseAt, Advanced, Move, AfterSave, Images, WorkerPlaces, CliPlaces,
         ServerPlaces, Terminal, Goto, Freed, Applying
  <2>7. CASE AdvanceFails(w)
    BY <2>7 DEF CoreInv, WritesFit, ProcessTypes, Places, Processes, Workers, Servers,
         AdvanceFails, PhaseAt, Fault, Advanced, Move, FailTo, disk, Images,
         WorkerPlaces, CliPlaces, ServerPlaces, Spend, Terminal, Goto, Freed, Applying,
         Undoing, Fails
  <2>8. CASE SaveError(w)
    BY <2>8, Zenon DEF CoreInv, WritesFit, ProcessTypes, Places, Processes, SaveError,
         Move, Goto, Freed, Spend, Applying, Undoing, Fails
  <2>9. CASE StepFails(w)
    BY <2>9 DEF CoreInv, WritesFit, StepFails, Applying, Undoing, PhaseAt, Fault, Move,
         FailTo, disk, Spend, Goto, Fails
  <2>10. CASE Stopped(w)
    BY <2>10 DEF CoreInv, WritesFit, Stopped, AfterStop, Move, disk, Goto, Freed,
         Applying, Undoing
  <2>11. CASE AskToStop(w)
    BY <2>11 DEF CoreInv, WritesFit, Places, AskToStop, AfterStop, Goto, disk, locks
  <2>12. CASE CannotStop(w)
    BY <2>12 DEF CoreInv, WritesFit, CannotStop, AfterStop, Move, FailTo, disk, Images,
         WorkerPlaces, CliPlaces, ServerPlaces, Goto, Freed, Applying
  <2>13. CASE LockServer(w)
    BY <2>13, Zenon DEF CoreInv, WritesFit, ProcessTypes, Places, Processes, LockServer,
         Goto, Move, FailTo, disk, Images, WorkerPlaces
  <2>14. CASE Start(w)
    BY <2>14 DEF CoreInv, WritesFit, ProcessTypes, Places, Processes, Workers, Servers,
         Start, Goto, disk, locks, Images
  <2>15. CASE Ready(w)
    BY <2>15, Zenon DEF CoreInv, WritesFit, ProcessTypes, Places, Processes, Workers,
         Servers, Ready, Move, FailTo, disk, Images, WorkerPlaces, CliPlaces,
         ServerPlaces, Goto, Freed, Applying, Undoing
  <2>16. CASE NobodyAnswers(w)
    BY <2>16 DEF CoreInv, WritesFit, NobodyAnswers, Move, FailTo, disk, Goto, Freed,
         Applying, Undoing
  <2>17. CASE Snapshot(w)
    BY <2>17 DEF CoreInv, WritesFit, Places, Snapshot, Move, ServerPlaces, Goto, Freed
  <2>18. CASE Retire(w)
    BY <2>18, Zenon DEF CoreInv, WritesFit, ProcessTypes, Places, Processes, Retire,
         Goto, locks, Move, FailTo, Images, WorkerPlaces
  <2>19. CASE InstallCandidate(w)
    BY <2>19 DEF CoreInv, WritesFit, Places, InstallCandidate, Move, ServerPlaces, Goto,
         Freed
  <2>20. CASE RestoreExe(w)
    BY <2>20, Zenon DEF CoreInv, WritesFit, ProcessTypes, Places, Processes, Workers,
         Servers, RestoreExe, Move, FailTo, Images, WorkerPlaces, CliPlaces,
         ServerPlaces, Goto
  <2>21. CASE RestoreDb(w)
    BY <2>21 DEF CoreInv, WritesFit, ProcessTypes, Places, ServerHeld, Open4, Alone,
         Processes, Workers, Servers, RestoreDb, Move, AfterRestore, Images,
         WorkerPlaces, CliPlaces, ServerPlaces, Goto, Freed, Applying
  <2>22. CASE PutDb(w)
    BY <2>22 DEF CoreInv, WritesFit, ProcessTypes, Places, ServerHeld, Open4, Alone,
         PutDb, Move, AfterRestore, Images, WorkerPlaces, CliPlaces, ServerPlaces, Goto,
         Freed
  <2>23. CASE Cleanup(w)
    BY <2>23 DEF CoreInv, WritesFit, ProcessTypes, Places, Processes, Workers, Servers,
         Cleanup, Move, Images, WorkerPlaces, CliPlaces, ServerPlaces, Goto, Freed,
         Applying
  <2>24. CASE SaveGone(w)
    BY <2>24 DEF CoreInv, WritesFit, Places, SaveGone, Move, ServerPlaces, Goto, Freed,
         Fails
  <2> QED
    BY <1>5, <2>1, <2>2, <2>3, <2>4, <2>5, <2>6, <2>7, <2>8, <2>9, <2>10, <2>11, <2>12,
       <2>13, <2>14, <2>15, <2>16, <2>17, <2>18, <2>19, <2>20, <2>21, <2>22, <2>23, <2>24
       DEF Worker
<1>6. ASSUME NEW s \in Servers, Server(s) PROVE WritesFit'
  <2>1. CASE Guard(s)
    BY <2>1, Zenon DEF CoreInv, WritesFit, ProcessTypes, Places, Processes, Workers,
         Servers, Guard, Maintenance, Exempt, Goto, locks, Exit, disk, Images,
         WorkerPlaces, CliPlaces
  <2>2. CASE TakeServerLock(s)
    BY <2>2, Zenon DEF CoreInv, WritesFit, ProcessTypes, Places, Processes, Workers,
         Servers, TakeServerLock, Goto, Exit, disk
  <2>3. CASE Open(s)
    BY <2>3, DatabaseIs, SchemaIs, CreatedIs DEF CoreInv, WritesFit, ProcessTypes,
         Places, StoreTypes, Processes, Workers, Servers, Open, Exit, Goto, locks,
         Images, WorkerPlaces, CliPlaces
  <2>4. CASE Serve(s)
    BY <2>4 DEF CoreInv, WritesFit, Places, Serve, Freed, Goto, disk, Images
  <2>5. CASE Admit(s)
    BY <2>5 DEF CoreInv, WritesFit, Admit, disk, locks
  <2>6. CASE Land(s)
    BY <2>6, WrittenIs DEF CoreInv, WritesFit, ProcessTypes, Places, StoreTypes,
         ServerHeld, Open4, Land, locks
  <2>7. CASE Finish(s)
    BY <2>7 DEF CoreInv, WritesFit, Places, Finish, Exit, disk, Images, WorkerPlaces,
         CliPlaces, ServerPlaces, Goto
  <2>8. CASE StartupFails(s)
    BY <2>8 DEF CoreInv, WritesFit, StartupFails, Fault, Exit, disk, Spend, Goto, Freed,
         Applying
  <2> QED
    BY <1>6, <2>1, <2>2, <2>3, <2>4, <2>5, <2>6, <2>7, <2>8 DEF Server
<1>7. ASSUME NEW p \in Processes, Kill(p) PROVE WritesFit'
  BY <1>7 DEF CoreInv, WritesFit, Kill, Spend, Exit, disk, Goto, Freed, Applying,
       Undoing
<1> QED
  BY <1>1, <1>2, <1>3, <1>4, <1>5, <1>6, <1>7 DEF Next

LEMMA KeepsJournalFits ==
  ASSUME CoreInv, Next
  PROVE  JournalFits'
<1>1. CASE Cli
  <2>1. CASE BeginInstall \/ RefuseInstall \/ TidyFails \/ Prepare
    BY <2>1 DEF CoreInv, JournalFits, SnapFits, BeginInstall, RefuseInstall, TidyFails,
         Prepare, disk
  <2>2. CASE Tidy
    BY <2>2, TidyIs, JournalIs DEF CoreInv, JournalFits, SnapFits
  <2>3. CASE SaveUnarmed \/ Register
    BY <2>3 DEF CoreInv, JournalFits, MemoryTypes, Processes, SnapFits, SaveUnarmed,
         Register, Fails
  <2>4. CASE RegisterRefused
    BY <2>4, RestoredIs, JournalIs DEF CoreInv, JournalFits, MemoryTypes, Processes,
         SnapFits, RegisterRefused
  <2>5. CASE Arm
    <3>1. mem["cli"] \in Journals /\ ~mem["cli"].snap
      BY <2>5 DEF CoreInv, MemoryTypes, Processes, Arm
    <3>2. journal' = [mem["cli"] EXCEPT !.armed = TRUE] /\ UNCHANGED snapshot
      BY <2>5 DEF Arm
    <3>3. journal' \in Journals /\ journal'.snap = mem["cli"].snap
      BY <3>1, <3>2, ArmedIs, Zenon
    <3> QED
      BY <3>1, <3>3, JournalIs DEF JournalFits, SnapFits
  <2>6. CASE SpawnWorker \/ CliEnds
    BY <2>6 DEF CoreInv, JournalFits, SnapFits, SpawnWorker, CliEnds, disk, Fails
  <2> QED
    BY <1>1, <2>1, <2>2, <2>3, <2>4, <2>5, <2>6 DEF Cli
<1>2. CASE Logon \/ UserStarts \/ MachineCrashes
  BY <1>2 DEF CoreInv, JournalFits, SnapFits, Logon, UserStarts, MachineCrashes, Goto,
       disk, locks
<1>3. ASSUME NEW w \in Workers, Worker(w) PROVE JournalFits'
  <2>1. CASE Poll(w) \/ PollTimesOut(w) \/ ReadFinished(w) \/ Prune(w) \/ Enter(w)
    BY <2>1 DEF CoreInv, JournalFits, SnapFits, Poll, PollTimesOut, ReadFinished, Prune,
         Enter, Goto, disk, locks, Exit
  <2>2. CASE Advance(w)
    <3>1. /\ pc[w] \in DOMAIN PhaseAt /\ UNCHANGED snapshot
          /\ journal' = Advanced(mem[w], PhaseAt[pc[w]])
      BY <2>2 DEF CoreInv, Advance, MemoryTypes, Processes, Workers
    <3>2. mem[w].snap => snapshot # NoDb /\ PhaseAt[pc[w]] \notin {"prepared", "stopping"}
      BY <3>1 DEF CoreInv, JournalFits, SnapFits, MemoryTypes, MemoryFits, Doing,
           Holding, Applying, Undoing, PhaseAt, Journals, Phases
    <3>3. /\ journal' \in Journals /\ journal'.snap = mem[w].snap
          /\ journal'.phase = PhaseAt[pc[w]]
      BY <3>1, Saving DEF CoreInv
    <3> QED
      BY <3>1, <3>2, <3>3, JournalIs DEF JournalFits, SnapFits
  <2>3. CASE AdvanceFails(w)
    BY <2>3 DEF CoreInv, JournalFits, SnapFits, AdvanceFails, FailTo, disk, Fails
  <2>4. CASE SaveError(w) \/ StepFails(w)
    BY <2>4 DEF CoreInv, JournalFits, MemoryTypes, MemoryFits, Doing, Applying, Undoing,
         Processes, Workers, Servers, SnapFits, SaveError, StepFails, Move, Fault,
         PhaseAt, FailTo, disk, Fails
  <2>5. CASE Stopped(w) \/ AskToStop(w) \/ CannotStop(w) \/ LockServer(w) \/ Start(w)
             \/ Ready(w) \/ NobodyAnswers(w)
    BY <2>5 DEF CoreInv, JournalFits, SnapFits, Stopped, AskToStop, CannotStop,
         LockServer, Start, Ready, NobodyAnswers, AfterStop, Move, disk, Goto, locks
  <2>6. CASE Snapshot(w) \/ Retire(w) \/ InstallCandidate(w) \/ RestoreExe(w)
             \/ RestoreDb(w) \/ PutDb(w)
    BY <2>6 DEF CoreInv, JournalFits, MemoryFits, Holding, Applying, Undoing,
         UpdateHeld, Doing, SnapFits, Snapshot, Retire, InstallCandidate, RestoreExe,
         RestoreDb, PutDb, Move, Goto, locks
  <2>7. CASE Cleanup(w) \/ SaveGone(w)
    BY <2>7 DEF CoreInv, JournalFits, MemoryTypes, MemoryFits, Undoing, Processes,
         Workers, Servers, SnapFits, Cleanup, SaveGone, Move, Journals, Holding, Fails
  <2> QED
    BY <1>3, <2>1, <2>2, <2>3, <2>4, <2>5, <2>6, <2>7 DEF Worker
<1>4. ASSUME NEW s \in Servers, Server(s) PROVE JournalFits'
  BY <1>4 DEF CoreInv, JournalFits, SnapFits, Server, Guard, TakeServerLock, Open,
       Serve, Admit, Land, Finish, StartupFails, Maintenance, Exempt, Goto, locks, Exit,
       disk
<1>5. ASSUME NEW p \in Processes, Kill(p) PROVE JournalFits'
  BY <1>5 DEF CoreInv, JournalFits, SnapFits, Kill, disk, Journals
<1> QED
  BY <1>1, <1>2, <1>3, <1>4, <1>5 DEF Next

LEMMA KeepsMemoryTypes ==
  ASSUME CoreInv, Next
  PROVE  MemoryTypes'
<1>1. CASE Cli
  <2>1. CASE BeginInstall \/ RefuseInstall \/ Tidy \/ TidyFails
    BY <2>1 DEF CoreInv, MemoryTypes, Places, Processes, Workers, BeginInstall,
         RefuseInstall, Tidy, TidyFails, Goto, Exit
  <2>2. CASE Prepare
    BY <2>2, Preparation, Zenon DEF CoreInv, MemoryTypes, Places, CountsFit, Processes,
         Workers, Servers, Doing, Applying, Undoing, Prepare, CanPrepare, Terminal,
         Goto, Phases, Pending
  <2>3. CASE SaveUnarmed \/ Register
    BY <2>3 DEF CoreInv, MemoryTypes, Places, Processes, Workers, Servers, Undoing,
         SaveUnarmed, Register, Goto, locks, Fault, Journals, Fails
  <2>4. CASE RegisterRefused \/ Arm \/ SpawnWorker \/ CliEnds
    BY <2>4 DEF CoreInv, MemoryTypes, Places, Processes, Workers, Servers, Doing,
         Applying, Undoing, RegisterRefused, Arm, SpawnWorker, CliEnds, Exit, Freed,
         Goto, disk, Fault, Fails
  <2> QED
    BY <1>1, <2>1, <2>2, <2>3, <2>4 DEF Cli
<1>2. CASE Logon \/ UserStarts \/ MachineCrashes
  BY <1>2 DEF CoreInv, MemoryTypes, Places, Processes, Workers, Servers, Doing,
       Applying, Undoing, Logon, UserStarts, MachineCrashes, Goto, disk, locks
<1>3. ASSUME NEW w \in Workers, Worker(w) PROVE MemoryTypes'
  <2>1. CASE Poll(w) \/ PollTimesOut(w) \/ ReadFinished(w) \/ Prune(w) \/ Enter(w)
    BY <2>1 DEF CoreInv, MemoryTypes, Places, JournalFits, Processes, Workers, Servers,
         Doing, Applying, Undoing, Poll, PollTimesOut, ReadFinished, Prune, Enter, Goto,
         disk, locks, Exit, Terminal, Fault
  <2>2. CASE Advance(w)
    <3>1. /\ pc[w] \in DOMAIN PhaseAt /\ \E place : Goto(w, place)
          /\ mem' = [mem EXCEPT ![w] = Advanced(mem[w], PhaseAt[pc[w]])]
      BY <2>2 DEF Advance, Move
    <3>2. Advanced(mem[w], PhaseAt[pc[w]]) \in Journals
      BY <3>1, Saving DEF CoreInv
    <3> QED
      BY <3>1, <3>2, Remembering, Zenon DEF CoreInv
  <2>3. CASE AdvanceFails(w)
    <3>1. /\ pc[w] \in DOMAIN PhaseAt /\ \E place : Goto(w, place)
          /\ mem' = [mem EXCEPT ![w] = Advanced(mem[w], PhaseAt[pc[w]])]
      BY <2>3 DEF AdvanceFails, Move, Fails
    <3>2. Advanced(mem[w], PhaseAt[pc[w]]) \in Journals
      BY <3>1, Saving DEF CoreInv
    <3> QED
      BY <3>1, <3>2, Remembering, Zenon DEF CoreInv
  <2>4. CASE SaveError(w) \/ StepFails(w)
    BY <2>4 DEF CoreInv, MemoryTypes, Places, Processes, Workers, Servers, Doing,
         Applying, Undoing, SaveError, StepFails, Move, CliPlaces, ServerPlaces, Goto,
         Freed, Spend, Phases, Fails
  <2>5. CASE Stopped(w) \/ AskToStop(w) \/ CannotStop(w) \/ LockServer(w) \/ Start(w)
             \/ Ready(w) \/ NobodyAnswers(w)
    BY <2>5 DEF CoreInv, MemoryTypes, Places, Processes, Workers, Servers, Doing,
         Applying, Undoing, Stopped, AskToStop, CannotStop, LockServer, Start, Ready,
         NobodyAnswers, AfterStop, Move, disk, Goto, locks
  <2>6. CASE Snapshot(w)
    <3>1. /\ pc[w] = "snapshot" /\ \E place : Goto(w, place)
          /\ mem' = [mem EXCEPT ![w] = [mem[w] EXCEPT !.existed = db # NoDb, !.snap = db # NoDb]]
      BY <2>6, Zenon DEF Snapshot, Move
    <3>2. mem[w] \in Journals
      BY <3>1 DEF CoreInv, MemoryTypes, Doing, Applying, Processes, Journals
    <3>3. [mem[w] EXCEPT !.existed = db # NoDb, !.snap = db # NoDb] \in Journals
      BY <3>2, PicturedIs, Zenon
    <3> QED
      BY <3>1, <3>3, Remembering, Zenon DEF CoreInv
  <2>7. CASE Retire(w)
    BY <2>7 DEF CoreInv, MemoryTypes, Places, Processes, Workers, Servers, Doing,
         Applying, Undoing, Retire, Goto, locks, Move, FailTo, Journals
  <2>8. CASE InstallCandidate(w)
    BY <2>8 DEF CoreInv, MemoryTypes, Doing, Applying, Undoing, InstallCandidate, Move,
         Journals, Goto, Freed
  <2>9. CASE RestoreExe(w) \/ RestoreDb(w) \/ PutDb(w)
    BY <2>9 DEF CoreInv, MemoryTypes, Places, Processes, Doing, Applying, Undoing,
         RestoreExe, RestoreDb, PutDb, Move, FailTo, AfterRestore, Journals,
         WorkerPlaces, CliPlaces, ServerPlaces, Goto
  <2>10. CASE Cleanup(w)
    <3>1. /\ pc[w] = "cleanup" /\ \E place : Goto(w, place)
          /\ mem' = mem \/ mem' = [mem EXCEPT ![w] = [mem[w] EXCEPT !.gone = TRUE]]
      BY <2>10 DEF Cleanup, Move
    <3>2. mem[w] \in Journals
      BY <3>1 DEF CoreInv, MemoryTypes, Doing, Processes
    <3>3. [mem[w] EXCEPT !.gone = TRUE] \in Journals
      BY <3>2, GoneIs, Zenon
    <3>4. mem = [mem EXCEPT ![w] = mem[w]]
      BY DEF CoreInv, MemoryTypes
    <3> QED
      BY <3>1, <3>2, <3>3, <3>4, Remembering, Zenon DEF CoreInv
  <2>11. CASE SaveGone(w)
    BY <2>11 DEF CoreInv, MemoryTypes, Doing, Applying, Undoing, SaveGone, Move,
         Journals, Goto, Freed, Fails
  <2> QED
    BY <1>3, <2>1, <2>2, <2>3, <2>4, <2>5, <2>6, <2>7, <2>8, <2>9, <2>10, <2>11 DEF Worker
<1>4. ASSUME NEW s \in Servers, Server(s) PROVE MemoryTypes'
  BY <1>4 DEF CoreInv, MemoryTypes, Places, Processes, Workers, Servers, Doing,
       Applying, Undoing, Server, Guard, TakeServerLock, Open, Serve, Admit, Land,
       Finish, StartupFails, Maintenance, Exempt, Goto, locks, Exit, disk
<1>5. ASSUME NEW p \in Processes, Kill(p) PROVE MemoryTypes'
  BY <1>5 DEF CoreInv, MemoryTypes, Places, Doing, Applying, Undoing, Kill, Spend, Exit,
       disk, Journals, WorkerPlaces, CliPlaces, ServerPlaces, Goto, Freed
<1> QED
  BY <1>1, <1>2, <1>3, <1>4, <1>5 DEF Next

LEMMA KeepsMemoryFits ==
  ASSUME CoreInv, Next
  PROVE  MemoryFits'
<1>1. CASE Cli
  <2>1. CASE BeginInstall \/ RefuseInstall \/ Prepare \/ SaveUnarmed \/ Register
             \/ Tidy \/ TidyFails
    <3>1. /\ \A v \in Workers : pc'[v] = pc[v] /\ mem'[v] = mem[v]
          /\ snapshot' = snapshot
      BY <2>1 DEF CoreInv, MemoryTypes, Places, Processes, Workers, BeginInstall,
           RefuseInstall, Prepare, SaveUnarmed, Register, Tidy, TidyFails, Goto, Exit,
           disk
    <3>2. CASE BeginInstall \/ UNCHANGED journal
      BY <3>1, <3>2 DEF CoreInv, MemoryFits, SnapFits, BeginInstall, disk
    <3>3. CASE SaveUnarmed \/ Tidy
      <4>1. pc["cli"] \in Preparing
        BY <3>3 DEF SaveUnarmed, Tidy, Preparing
      <4>2. \A v \in Workers : pc[v] \notin Doing
        BY <4>1 DEF CoreInv, UpdateHeld, Workers
      <4>3. Holding \cup {"failed", "stuck", "saveGone", "snapshotted", "snapshot",
                          "stopping", "stop", "lock"} \subseteq Doing
        BY DEF Holding, Doing, Applying
      <4> QED
        BY <3>1, <4>2, <4>3 DEF MemoryFits
    <3> QED
      BY <2>1, <3>2, <3>3 DEF RefuseInstall, Prepare, Register, TidyFails, disk
  <2>2. CASE RegisterRefused \/ Arm
    BY <2>2 DEF CoreInv, MemoryFits, MemoryTypes, UpdateHeld, Places, Processes,
         Preparing, Holding, Doing, Applying, Undoing, RegisterRefused, Arm, Exit,
         Freed, Goto, Journals, WorkerPlaces, CliPlaces, ServerPlaces, Phases
  <2>3. CASE SpawnWorker
    BY <2>3 DEF CoreInv, MemoryFits, MemoryTypes, UpdateHeld, Places, Processes,
         Workers, Servers, SnapFits, Preparing, Holding, Doing, Applying, Undoing,
         SpawnWorker
  <2>4. CASE CliEnds
    BY <2>4 DEF CoreInv, MemoryFits, Places, SnapFits, Preparing, Holding, Doing,
         Applying, Undoing, CliEnds, Fault, Exit, SavedIds, Goto, Freed, Fails
  <2> QED
    BY <1>1, <2>1, <2>2, <2>3, <2>4 DEF Cli
<1>2. CASE Logon \/ UserStarts \/ MachineCrashes
  BY <1>2 DEF CoreInv, MemoryFits, MemoryTypes, UpdateHeld, Places, Processes, Workers,
       Servers, SnapFits, Preparing, Holding, Doing, Applying, Undoing, Logon,
       UserStarts, MachineCrashes, Goto, disk, locks, Spend, Journals, WorkerPlaces,
       CliPlaces
<1>3. ASSUME NEW w \in Workers, Worker(w) PROVE MemoryFits'
  <2>1. CASE Poll(w)
    BY <2>1 DEF CoreInv, MemoryFits, Places, SnapFits, Preparing, Holding, Doing,
         Applying, Undoing, Poll, Goto, disk, locks
  <2>2. CASE PollTimesOut(w)
    BY <2>2 DEF CoreInv, MemoryFits, Places, SnapFits, Preparing, Holding, Doing,
         Applying, Undoing, PollTimesOut, Exit, disk, Journals, WorkerPlaces, CliPlaces,
         ServerPlaces, Goto, Freed
  <2>3. CASE ReadFinished(w)
    BY <2>3 DEF CoreInv, MemoryFits, MemoryTypes, UpdateHeld, Places, Processes,
         Workers, Servers, SnapFits, Preparing, Holding, Doing, Applying, Undoing,
         ReadFinished, Terminal, Goto, locks, Exit, disk, Journals, WorkerPlaces,
         CliPlaces, ServerPlaces
  <2>4. CASE Prune(w)
    BY <2>4 DEF CoreInv, MemoryFits, Places, SnapFits, Preparing, Holding, Doing,
         Applying, Undoing, Prune, Exit, Journals, WorkerPlaces, CliPlaces,
         ServerPlaces, Goto, Freed, Phases
  <2>5. CASE Enter(w)
    BY <2>5 DEF CoreInv, MemoryFits, MemoryTypes, UpdateHeld, Places, JournalFits,
         Processes, Workers, Servers, SnapFits, Preparing, Holding, Doing, Applying,
         Undoing, Enter, Fault, Route, Goto, disk, Journals, WorkerPlaces, CliPlaces,
         ServerPlaces
  <2>6. CASE Advance(w)
    <3>1. /\ pc[w] \in DOMAIN PhaseAt /\ pc' = [pc EXCEPT ![w] = AfterSave[pc[w]]]
          /\ mem' = [mem EXCEPT ![w] = Advanced(mem[w], PhaseAt[pc[w]])] /\ journal' = mem'[w]
      BY <2>6 DEF Advance, Move, Goto
    <3>2. pc[w] \in Doing /\ AfterSave[pc[w]] \notin {"failed", "stuck", "saveGone", "snapshotted"}
      BY <3>1 DEF PhaseAt, AfterSave, Doing, Applying, Undoing
    <3>3. /\ mem'[w].phase = PhaseAt[pc[w]]
      BY <3>1, Saving DEF CoreInv, MemoryTypes, Processes
    <3>4. pc'[w] \in {"stopping", "stop", "lock", "snapshot"} => PhaseAt[pc[w]] = "stopping"
      BY <3>1 DEF PhaseAt, AfterSave
    <3>5. ASSUME NEW v \in Workers, v # w
          PROVE  pc'[v] = pc[v] /\ pc[v] \notin Doing
      BY <3>1, <3>2, <3>5, OneWorker DEF CoreInv
    <3>6. Holding \cup {"failed", "stuck", "saveGone", "snapshotted", "snapshot"} \subseteq Doing
      BY DEF Holding, Doing, Applying
    <3> QED
      BY <3>1, <3>2, <3>3, <3>4, <3>5, <3>6 DEF CoreInv, MemoryFits, Places, Processes
  <2>7. CASE AdvanceFails(w)
    BY <2>7, Saving DEF CoreInv, MemoryFits, MemoryTypes, UpdateHeld, Places,
         JournalFits, Processes, Workers, Servers, SnapFits, Preparing, Holding, Doing,
         Applying, Undoing, AdvanceFails, PhaseAt, Fault, Advanced, Move, FailTo, disk,
         Journals, WorkerPlaces, CliPlaces, ServerPlaces, Spend, Terminal, Goto, Freed,
         Phases, Fails
  <2>8. CASE SaveError(w)
    BY <2>8 DEF CoreInv, MemoryFits, MemoryTypes, UpdateHeld, Places, Processes,
         Workers, Servers, SnapFits, Preparing, Holding, Doing, Applying, Undoing,
         SaveError, Move, Fault, Journals, WorkerPlaces, CliPlaces, ServerPlaces, Goto,
         Freed, Spend, Fails
  <2>9. CASE StepFails(w)
    BY <2>9 DEF CoreInv, MemoryFits, MemoryTypes, UpdateHeld, Places, JournalFits,
         SnapFits, Preparing, Holding, Doing, Applying, Undoing, StepFails, PhaseAt,
         Fault, Move, FailTo, disk, Journals, WorkerPlaces, CliPlaces, ServerPlaces,
         Spend, Goto, Fails
  <2>10. CASE Stopped(w) \/ AskToStop(w)
    BY <2>10 DEF CoreInv, MemoryFits, MemoryTypes, UpdateHeld, Places, JournalFits,
         Processes, Workers, Servers, SnapFits, Preparing, Holding, Doing, Applying,
         Undoing, Stopped, AskToStop, AfterStop, Move, disk, Goto
  <2>11. CASE CannotStop(w)
    BY <2>11 DEF CoreInv, MemoryFits, MemoryTypes, UpdateHeld, Places, JournalFits,
         SnapFits, Preparing, Holding, Doing, Applying, Undoing, CannotStop, AfterStop,
         Move, FailTo, disk, Journals, WorkerPlaces, CliPlaces, ServerPlaces, Goto,
         Freed, Phases
  <2>12. CASE LockServer(w)
    BY <2>12 DEF CoreInv, MemoryFits, MemoryTypes, UpdateHeld, Places, JournalFits,
         Processes, Workers, Servers, SnapFits, Preparing, Holding, Doing, Applying,
         Undoing, LockServer, Goto, Move, FailTo, disk, Journals, WorkerPlaces,
         CliPlaces, ServerPlaces
  <2>13. CASE Start(w)
    BY <2>13 DEF CoreInv, MemoryFits, Places, Processes, Workers, Servers, SnapFits,
         Preparing, Holding, Doing, Applying, Undoing, Start, Goto, disk, locks,
         Journals, WorkerPlaces
  <2>14. CASE Ready(w)
    BY <2>14 DEF CoreInv, MemoryFits, MemoryTypes, UpdateHeld, Places, JournalFits,
         Processes, Workers, Servers, SnapFits, Preparing, Holding, Doing, Applying,
         Undoing, Ready, Move, FailTo, disk, Journals, WorkerPlaces, CliPlaces,
         ServerPlaces, Goto
  <2>15. CASE NobodyAnswers(w)
    BY <2>15 DEF CoreInv, MemoryFits, MemoryTypes, UpdateHeld, Places, JournalFits,
         SnapFits, Preparing, Holding, Doing, Applying, Undoing, NobodyAnswers, Move,
         FailTo, disk, Journals, WorkerPlaces, CliPlaces, ServerPlaces, Goto, Freed
  <2>16. CASE Snapshot(w)
    <3>1. /\ pc[w] = "snapshot" /\ pc' = [pc EXCEPT ![w] = "snapshotted"]
          /\ mem' = [mem EXCEPT ![w] = [mem[w] EXCEPT !.existed = db # NoDb, !.snap = db # NoDb]]
          /\ snapshot' = db
      BY <2>16, Zenon DEF Snapshot, Move, Goto
    <3>2. mem[w] \in Journals /\ pc[w] \in Doing
      BY <3>1 DEF CoreInv, MemoryTypes, Doing, Applying, Processes, Journals
    <3>3. mem'[w].snap = (db # NoDb)
      BY <3>1, <3>2, PicturedIs, Zenon DEF CoreInv, MemoryTypes, Processes, Journals,
           Doing
    <3>5. ASSUME NEW v \in Workers, v # w
          PROVE  pc'[v] = pc[v] /\ pc[v] \notin Doing
      BY <3>1, <3>2, <3>5, OneWorker DEF CoreInv
    <3>6. Holding \cup
          {"failed", "stuck", "saveGone", "snapshotted", "stopping", "stop", "lock", "snapshot"}
            \subseteq Doing
      BY DEF Holding, Doing, Applying
    <3>7. "snapshotted" \notin Holding
      BY DEF Holding, Undoing
    <3>8. pc'[w] = "snapshotted"
      BY <3>1 DEF CoreInv, Places, Processes
    <3>9. ASSUME NEW v \in Workers, v # w
          PROVE  pc'[v] \notin Holding \cup
                               {"failed", "stuck", "saveGone", "snapshotted", "stopping", "stop", "lock", "snapshot"}
      BY <3>5, <3>6, <3>9
    <3> QED
      BY <3>1, <3>3, <3>7, <3>8, <3>9, Zenon DEF MemoryFits
  <2>17. CASE Retire(w)
    BY <2>17 DEF CoreInv, MemoryFits, MemoryTypes, UpdateHeld, Places, JournalFits,
         Processes, Workers, Servers, SnapFits, Preparing, Holding, Doing, Applying,
         Undoing, Retire, Goto, locks, Move, FailTo, Journals, WorkerPlaces, CliPlaces,
         ServerPlaces
  <2>18. CASE InstallCandidate(w)
    BY <2>18 DEF CoreInv, MemoryFits, Places, SnapFits, Preparing, Holding, Doing,
         Applying, Undoing, InstallCandidate, Move, Journals, WorkerPlaces, CliPlaces,
         ServerPlaces, Goto, Freed, Phases
  <2>19. CASE RestoreExe(w) \/ RestoreDb(w) \/ PutDb(w)
    BY <2>19 DEF CoreInv, MemoryFits, MemoryTypes, UpdateHeld, Places, JournalFits,
         Processes, Workers, Servers, SnapFits, Preparing, Holding, Doing, Applying,
         Undoing, RestoreExe, RestoreDb, PutDb, Move, FailTo, AfterRestore, Journals,
         WorkerPlaces, CliPlaces, ServerPlaces, Goto, Freed, Phases
  <2>20. CASE Cleanup(w) \/ SaveGone(w)
    BY <2>20 DEF CoreInv, MemoryFits, MemoryTypes, UpdateHeld, Places, JournalFits,
         Processes, Workers, Servers, SnapFits, Preparing, Holding, Doing, Applying,
         Undoing, Cleanup, SaveGone, Move, Journals, WorkerPlaces, CliPlaces,
         ServerPlaces, Goto, Freed, Fails
  <2> QED
    BY <1>3, <2>1, <2>2, <2>3, <2>4, <2>5, <2>6, <2>7, <2>8, <2>9, <2>10, <2>11, <2>12,
       <2>13, <2>14, <2>15, <2>16, <2>17, <2>18, <2>19, <2>20 DEF Worker
<1>4. ASSUME NEW s \in Servers, Server(s) PROVE MemoryFits'
  <2>1. CASE Guard(s)
    BY <2>1 DEF CoreInv, MemoryFits, MemoryTypes, UpdateHeld, Places, Processes,
         Workers, Servers, SnapFits, Applying, Undoing, Guard, Maintenance, Exempt,
         Goto, locks, Exit, disk
  <2>2. CASE TakeServerLock(s)
    BY <2>2 DEF CoreInv, MemoryFits, MemoryTypes, UpdateHeld, Places, Processes,
         Workers, Servers, SnapFits, Applying, Undoing, TakeServerLock, Goto, Exit, disk
  <2>3. CASE Open(s)
    BY <2>3 DEF CoreInv, MemoryFits, MemoryTypes, UpdateHeld, Places, Processes,
         Workers, Servers, SnapFits, Applying, Undoing, Open, Exit, Goto, locks
  <2>4. CASE Serve(s)
    BY <2>4 DEF CoreInv, MemoryFits, Places, SnapFits, Preparing, Holding, Doing,
         Applying, Undoing, Serve, Freed, Goto, disk
  <2>5. CASE Admit(s) \/ Land(s)
    BY <2>5 DEF CoreInv, MemoryFits, Places, SnapFits, Preparing, Holding, Doing,
         Applying, Undoing, Admit, Land, Maintenance, disk
  <2>6. CASE Finish(s)
    BY <2>6 DEF CoreInv, MemoryFits, MemoryTypes, UpdateHeld, Places, SnapFits,
         Preparing, Holding, Doing, Applying, Undoing, Finish, Exit, disk, Journals,
         WorkerPlaces, CliPlaces, ServerPlaces, Goto, Freed
  <2>7. CASE StartupFails(s)
    BY <2>7 DEF CoreInv, MemoryFits, Places, SnapFits, Preparing, Holding, Doing,
         Applying, Undoing, StartupFails, Fault, Exit, disk, Goto, Freed
  <2> QED
    BY <1>4, <2>1, <2>2, <2>3, <2>4, <2>5, <2>6, <2>7 DEF Server
<1>5. ASSUME NEW p \in Processes, Kill(p) PROVE MemoryFits'
  BY <1>5 DEF CoreInv, MemoryFits, Places, SnapFits, Preparing, Holding, Doing,
       Applying, Undoing, Kill, Spend, Exit, disk, Journals, WorkerPlaces, CliPlaces,
       ServerPlaces, Goto
<1> QED
  BY <1>1, <1>2, <1>3, <1>4, <1>5 DEF Next
-----------------------------------------------------------------------------
(* Nothing runs at first, but perhaps a server.                            *)
LEMMA CoreInit ==
  ASSUME Init
  PROVE  CoreInv
<1>1. /\ pc["cli"] = "off" /\ \A w \in Workers : pc[w] = "off"
      /\ pc \in [Processes -> {"off", "up"}] /\ pc["spawned"] = "off"
  BY DEF Init, Processes, Workers, Servers
<1>2. Places
  <2>1. pc \in [Processes -> WorkerPlaces \cup CliPlaces \cup ServerPlaces]
    BY <1>1 DEF WorkerPlaces, CliPlaces, ServerPlaces
  <2>2. \A s \in Servers : pc[s] \in ServerPlaces
    BY <1>1 DEF Servers, Processes, ServerPlaces
  <2> QED
    BY <1>1, <2>1, <2>2 DEF Places, WorkerPlaces, CliPlaces
<1>3. UpdateHeld /\ ServerHeld
  BY <1>1 DEF Init, UpdateHeld, ServerHeld, Preparing, Doing, Applying, Undoing, Open4,
     Alone, Processes, Workers, Servers
<1>4. ProcessTypes /\ CountsFit
  <2>1. ProcessTypes
    BY DEF Init, ProcessTypes, Images, Processes, Servers
  <2>2. CountsFit
    BY <1>1, BoundsAssumption DEF Init, CountsFit
  <2> QED
    BY <2>1, <2>2
<1>5. db \in Databases /\ snapshot \in Databases
  BY CreatedIs DEF Init, Databases, Images
<1>6. FolderTypes /\ StoreTypes /\ ExeFits /\ WritesFit
  <2>1. FolderTypes /\ StoreTypes /\ ExeFits
    BY <1>1, <1>5 DEF Init, FolderTypes, StoreTypes, ExeFits, Images
  <2>2. inflight = {} /\ (pc["user"] = "up" => db # NoDb) /\ pc["user"] \in {"off", "up"}
    BY <1>1 DEF Init, Processes, Servers
  <2>3. WritesFit
    BY <1>1, <2>2 DEF WritesFit, Servers
  <2> QED
    BY <2>1, <2>3
<1>7. JournalFits /\ MemoryTypes /\ MemoryFits
  BY <1>1 DEF Init, JournalFits, MemoryTypes, MemoryFits, Doing, Applying, Undoing, Holding
<1> QED
  BY <1>2, <1>3, <1>4, <1>6, <1>7 DEF CoreInv

LEMMA CoreStutters ==
  ASSUME CoreInv, UNCHANGED vars
  PROVE  CoreInv'
<1>1. /\ UNCHANGED <<exe, db, snapshot, work, journal, task, updateLock, serverLock>>
      /\ UNCHANGED <<pc, mem, img, pinned, inflight, service, slips, left>>
  BY DEF vars, disk, locks, procs
<1>2. Places' /\ UpdateHeld' /\ ServerHeld' /\ ProcessTypes' /\ CountsFit'
  BY <1>1 DEF CoreInv, Places, UpdateHeld, ServerHeld, ProcessTypes, CountsFit
<1>3. FolderTypes' /\ StoreTypes' /\ ExeFits' /\ WritesFit'
  BY <1>1 DEF CoreInv, FolderTypes, StoreTypes, ExeFits, WritesFit
<1>4. JournalFits' /\ MemoryTypes' /\ MemoryFits'
  BY <1>1 DEF CoreInv, JournalFits, SnapFits, MemoryTypes, MemoryFits
<1> QED
  BY <1>2, <1>3, <1>4 DEF CoreInv

LEMMA CoreStep ==
  ASSUME CoreInv, [Next]_vars
  PROVE  CoreInv'
<1>1. CASE Next
  BY <1>1, KeepsPlaces, KeepsUpdateHeld, KeepsServerHeld, KeepsProcessTypes, KeepsCountsFit,
     KeepsFolderTypes, KeepsStoreTypes, KeepsExeFits, KeepsWritesFit, KeepsJournalFits,
     KeepsMemoryTypes, KeepsMemoryFits DEF CoreInv
<1>2. CASE UNCHANGED vars
  BY <1>2, CoreStutters
<1> QED
  BY <1>1, <1>2

LEMMA CoreHolds == Spec => []CoreInv
<1>1. Init => CoreInv
  BY CoreInit
<1>2. CoreInv /\ [Next]_vars => CoreInv'
  BY CoreStep
<1> QED
  BY <1>1, <1>2, PTL DEF Spec

(* Every variable keeps the shape the code gives it, whatever fails, is    *)
(* killed or crashes, and however many updates, servers and writes there   *)
(* are.                                                                    *)
THEOREM TypesHold == Spec => []TypeOK
<1>1. CoreInv => TypeOK
  BY DEF CoreInv, TypeOK, Places, UpdateHeld, ServerHeld, ProcessTypes, CountsFit,
     FolderTypes, StoreTypes, ExeFits, JournalFits, MemoryTypes
<1> QED
  BY <1>1, CoreHolds, PTL

(* No server has state.db open while a worker copies, tears or replaces    *)
(* it: both are states of holding server.lock, which one process holds.    *)
THEOREM ServerStaysDown == Spec => []ServerDownWhileReplaced
<1>1. CoreInv => ServerDownWhileReplaced
  <2>1. SUFFICES ASSUME ServerHeld, NEW w \in Workers, pc[w] \in Alone, NEW s \in Servers,
                        pc[s] \in Open4
                 PROVE  FALSE
    BY DEF CoreInv, ServerDownWhileReplaced, Alone, Open4
  <2>2. serverLock = w /\ serverLock = s
    BY <2>1 DEF ServerHeld
  <2> QED
    BY <2>2 DEF Workers, Servers
<1> QED
  BY <1>1, CoreHolds, PTL
-----------------------------------------------------------------------------
(* The second layer: what is on disk, and what a worker knows of it.       *)
(* CLI and workers: who is at work, and what the lock says of a worker.    *)
CliAlone == pc["cli"] \in Preparing =>
              exe = "old" /\ \A w \in Workers : pc[w] \notin Doing

LockFits == \A w \in Workers : serverLock = w => pc[w] \in Alone

(* A new image runs from the installed file, which is then the new one.    *)
ImagesPinned ==
  \A s \in Servers : pc[s] # "off" /\ img[s] = "new" => exe = "new" /\ s \in pinned

OldDb(d) == d # NoDb => d.schema = "old"

(* An executable e, a database d, a snapshot s, the complete folders k and *)
(* the servers f with writes under way let j be finished, or undone        *)
(* without losing a write.                                                 *)
Sound(j, e, d, s, k, f) ==
  /\ j.id \in k
  /\ j.snap => j.existed /\ s # NoDb /\ s.schema = "old"
  /\ e # "old" => j.phase \in {"replacing", "validating", "rollingBack"} /\ j.existed = j.snap
  /\ j.phase \in {"prepared", "stopping"} => ~j.snap
  /\ j.phase \in {"snapshot", "replacing", "validating"} => j.existed = j.snap
  /\ j.phase \in {"prepared", "stopping", "snapshot"} \/ (j.existed /\ ~j.snap) => OldDb(d)
  /\ j.existed => d # NoDb
  /\ d # NoDb /\ d.schema = "torn" => j.phase = "rollingBack" /\ j.snap
  /\ j.snap => f = {} /\ d.writes = s.writes
  /\ ~j.existed => f = {} /\ (d # NoDb => d.writes = 0)

(* The folders there would be but for those taken.                         *)
Folders == IF "folderTaken" \in slips THEN 1..MaxUpdates ELSE work

OnDisk(j) == Sound(j, exe, db, snapshot, Folders, inflight)

PendingSound == Maintenance => task /\ OnDisk(journal)

NormalSound == ~Maintenance =>
  /\ exe # "missing"
  /\ db # NoDb => db.schema # "torn" /\ (exe = "old" => db.schema = "old")
  /\ journal # NoJournal /\ journal.phase \notin Terminal => exe = "old"

(* What the CLI holds is what it is about to save or has saved.            *)
CliSound ==
  /\ pc["cli"] = "tidied" => ~Maintenance
  /\ pc["cli"] \in {"prepared", "saved", "registered", "refused"} =>
    LET j == mem["cli"] IN
    /\ ~Maintenance
    /\ j \in Journals /\ j.phase = "prepared" /\ ~j.armed /\ ~j.snap /\ j.id \in Folders
    /\ j.existed => db # NoDb
    /\ ~j.existed => db = NoDb /\ serverLock = "cli"
    /\ pc["cli"] # "prepared" => journal = j
    /\ pc["cli"] = "registered" => task

(* The phase on record at each place of a worker.                          *)
PhaseOnRecord ==
  \A w \in Workers :
    /\ pc[w] \in {"abandon", "stopping"} => journal.phase = "prepared"
    /\ pc[w] \in {"stop", "lock", "snapshot", "snapshotted"} => journal.phase = "stopping"
    /\ pc[w] = "replacing" => journal.phase = "snapshot"
    /\ pc[w] \in {"retire", "install", "validating"} => journal.phase = "replacing"
    /\ pc[w] \in {"start", "ready", "stopNew", "committing"} => journal.phase = "validating"
    /\ pc[w] \in Undoing \ {"undoing"} => journal.phase = "rollingBack"

(* Whether a transaction is pending at each place of a worker.             *)
Pends ==
  \A w \in Workers :
    /\ pc[w] = "unarmed" => ~journal.armed /\ journal.phase \notin Terminal
    /\ pc[w] \in {"cleanup", "saveGone"} =>
         journal # NoJournal /\ journal.phase \in Terminal
    /\ pc[w] \in Applying \cup Undoing \cup {"abandon", "failed", "stuck"} => Maintenance

(* What a worker has yet to save.                                          *)
Remembered ==
  \A w \in Workers :
    /\ pc[w] = "snapshotted" =>
         /\ mem[w] = [journal EXCEPT !.existed = db # NoDb, !.snap = db # NoDb]
         /\ snapshot = db
    /\ pc[w] = "failed" => Pending(mem[w]) /\ OnDisk(mem[w]) /\ mem[w].id = journal.id
    /\ pc[w] = "stuck" =>
         /\ mem[w].id = journal.id
         /\ \/ Pending(mem[w]) /\ OnDisk(mem[w])
            \/ /\ mem[w] = [journal EXCEPT !.phase = "restored", !.armed = FALSE]
               /\ exe = "old" /\ OldDb(db)
    /\ pc[w] = "saveGone" => mem[w] = [journal EXCEPT !.gone = TRUE]

(* What a worker has done to the executable and to the database.           *)
ExeRetired ==
  \A w \in Workers : /\ pc[w] = "retire" => exe = "old"
                     /\ pc[w] = "install" => exe = "missing"

DbRestored ==
  \A w \in Workers :
    /\ pc[w] = "putDb" => journal.snap
    /\ pc[w] \in {"startAgain", "readyAgain", "restoring"} => OldDb(db)

Outcome == journal # NoJournal =>
  /\ journal.phase = "restored" => exe = "old"
  /\ journal.phase = "committed" => exe = "new"

DiskFits == PendingSound /\ NormalSound /\ Outcome

UpdateInv ==
  /\ CoreInv /\ CliAlone /\ LockFits /\ ImagesPinned /\ DiskFits
  /\ CliSound /\ PhaseOnRecord /\ Pends /\ Remembered /\ ExeRetired
  /\ DbRestored

(* No save of "committed" has failed.                                      *)
Clean == "commitUnsaved" \notin slips
-----------------------------------------------------------------------------
(* What Sound says where, and the changes that keep it.                    *)
LEMMA SoundSays ==
  ASSUME NEW j, NEW e, NEW d, NEW s, NEW k, NEW f, Sound(j, e, d, s, k, f)
  PROVE  /\ j.id \in k
         /\ j.phase \in {"prepared", "stopping"} => e = "old" /\ OldDb(d) /\ ~j.snap
         /\ j.phase = "snapshot" => e = "old"
         /\ j.phase \in {"replacing", "validating"} => j.existed = j.snap
         /\ e # "old" => j.phase \in {"replacing", "validating", "rollingBack"}
         /\ d # NoDb /\ j.phase # "rollingBack" => d.schema # "torn"
         /\ j.snap => j.existed /\ s # NoDb /\ s.schema = "old" /\ d.writes = s.writes
         /\ j.existed => d # NoDb
         /\ ~j.snap /\ j.existed => OldDb(d)
  BY DEF Sound

LEMMA SoundFewer ==
  ASSUME NEW j, NEW e, NEW d, NEW s, NEW k, NEW f, NEW g, Sound(j, e, d, s, k, f), g \subseteq f
  PROVE  Sound(j, e, d, s, k, g)
  BY DEF Sound

LEMMA SoundFolders ==
  ASSUME NEW j, NEW e, NEW d, NEW s, NEW k, NEW f, NEW l, Sound(j, e, d, s, k, f), j.id \in l
  PROVE  Sound(j, e, d, s, l, f)
  BY DEF Sound

(* Phases in which the executable is whatever it is.                       *)
LEMMA SoundImage ==
  ASSUME NEW j, NEW e, NEW d, NEW s, NEW k, NEW f, Sound(j, e, d, s, k, f),
         NEW x, x = "old" \/ j.phase = "replacing"
  PROVE  Sound(j, x, d, s, k, f)
  BY DEF Sound

(* The phase advances to the next one, or to a rollback.                   *)
LEMMA SoundAdvances ==
  ASSUME NEW j, NEW e, NEW d, NEW s, NEW k, NEW f, Sound(j, e, d, s, k, f),
         NEW i, i.id = j.id, i.existed = j.existed, i.snap = j.snap,
         \/ j.phase = "prepared" /\ i.phase = "stopping"
         \/ j.phase = "snapshot" /\ i.phase = "replacing"
         \/ j.phase = "replacing" /\ i.phase = "validating"
         \/ i.phase = "rollingBack"
  PROVE  Sound(i, e, d, s, k, f)
  BY DEF Sound

LEMMA SoundArmed ==
  ASSUME NEW d, NEW s, NEW k, NEW f, NEW i,
         i.phase = "prepared", i.id \in k, ~i.snap, OldDb(d),
         i.existed => d # NoDb, ~i.existed => d = NoDb /\ f = {}
  PROVE  Sound(i, "old", d, s, k, f)
  BY DEF Sound, OldDb

(* A snapshot is taken, then recorded.                                     *)
LEMMA SoundCopied ==
  ASSUME NEW j, NEW e, NEW d, NEW s, NEW k, NEW f, Sound(j, e, d, s, k, f),
         j.phase = "stopping", NEW x
  PROVE  Sound(j, e, d, x, k, f)
  BY DEF Sound

LEMMA SoundPictured ==
  ASSUME NEW j, NEW e, NEW d, NEW s, NEW k, Sound(j, e, d, s, k, {}), j.phase = "stopping",
         NEW i, i.id = j.id, i.phase = "snapshot", i.existed = (d # NoDb), i.snap = (d # NoDb)
  PROVE  Sound(i, e, d, d, k, {})
  BY DEF Sound, OldDb

(* A server opens the database: the new image's only once it is installed. *)
LEMMA SoundOpened ==
  ASSUME NEW j, NEW e, NEW d, NEW s, NEW k, NEW f, Sound(j, e, d, s, k, f),
         NEW v \in Images, v = "new" => e = "new", j.snap \in BOOLEAN, j.existed \in BOOLEAN,
         NEW x, x # NoDb,
         d = NoDb => x.schema = v /\ x.writes = 0,
         d # NoDb => x.writes = d.writes
                     /\ x.schema = (IF d.schema = "torn" THEN "torn" ELSE v)
  PROVE  Sound(j, e, x, s, k, f)
  BY DEF Sound, OldDb, Images

(* An admitted write lands.                                                *)
LEMMA SoundLanded ==
  ASSUME NEW j, NEW e, NEW d, NEW s, NEW k, NEW f, Sound(j, e, d, s, k, f), f # {},
         d # NoDb, NEW x, x # NoDb, x.schema = d.schema, NEW g, g \subseteq f
  PROVE  Sound(j, e, x, s, k, g)
  BY DEF Sound, OldDb

(* A rollback restores the database: the sidecars go, then the snapshot.   *)
LEMMA SoundTorn ==
  ASSUME NEW j, NEW e, NEW d, NEW s, NEW k, NEW f, Sound(j, e, d, s, k, f),
         j.phase = "rollingBack", j.snap, NEW x, x # NoDb, x.writes = s.writes
  PROVE  Sound(j, e, x, s, k, f)
  BY DEF Sound

LEMMA SoundEmptied ==
  ASSUME NEW j, NEW e, NEW d, NEW s, NEW k, NEW f, Sound(j, e, d, s, k, f),
         j.phase = "rollingBack", ~j.existed
  PROVE  Sound(j, e, NoDb, s, k, f)
  BY DEF Sound
-----------------------------------------------------------------------------
(* A worker about it is alone.                                             *)
LEMMA Exclusion ==
  ASSUME UpdateInv, NEW w \in Workers, pc[w] \in Doing
  PROVE  /\ updateLock = w /\ pc["cli"] \notin Preparing
         /\ \A v \in Workers : v # w => pc[v] \notin Doing
<1>1. "polling" \notin Doing /\ "off" \notin Doing
  BY DEF Doing, Applying, Undoing
<1>2. pc["cli"] \notin Preparing
  BY <1>1 DEF UpdateInv, CliAlone
<1>3. updateLock = w
  BY DEF UpdateInv, CoreInv, UpdateHeld
<1> QED
  BY <1>2, <1>3, OneWorker DEF UpdateInv, CoreInv

LEMMA HeldIsSaved ==
  ASSUME UpdateInv, NEW w \in Workers, pc[w] \in Holding
  PROVE  pc[w] \in Doing /\ mem[w] = journal /\ journal \in Journals /\ journal # NoJournal
<1>1. pc[w] \in Doing
  BY DEF Holding, Doing
<1>2. mem[w] = journal
  BY DEF UpdateInv, CoreInv, MemoryFits
<1>3. mem[w] \in Journals
  BY <1>1 DEF UpdateInv, CoreInv, MemoryTypes, Processes
<1> QED
  BY <1>1, <1>2, <1>3, JournalIs

(* The database is not open while a worker holds server.lock.              *)
LEMMA NoWrites ==
  ASSUME UpdateInv, NEW w \in Workers, pc[w] \in Alone
  PROVE  inflight = {} /\ serverLock = w
<1>1. serverLock = w
  BY DEF UpdateInv, CoreInv, ServerHeld
<1>2. ASSUME NEW s \in inflight PROVE FALSE
  <2>1. s \in Servers /\ pc[s] \in Open4
    BY <1>2 DEF UpdateInv, CoreInv, WritesFit, ProcessTypes, Open4
  <2>2. serverLock = s
    BY <2>1 DEF UpdateInv, CoreInv, ServerHeld
  <2> QED
    BY <1>1, <2>1, <2>2 DEF Workers, Servers
<1> QED
  BY <1>1, <1>2

(* An advance within a transaction leaves it sound ...                     *)
LEMMA AdvanceGoesOn ==
  ASSUME UpdateInv, NEW w \in Workers,
         pc[w] \in {"stopping", "snapshotted", "replacing", "validating", "undoing"},
         NEW k, k = Advanced(mem[w], PhaseAt[pc[w]])
  PROVE  Pending(k) /\ OnDisk(k) /\ k.id = journal.id
<1>1. pc[w] \in Doing /\ pc[w] \in DOMAIN PhaseAt
  BY DEF Doing, Applying, Undoing, PhaseAt
<1>2. Maintenance /\ OnDisk(journal)
  BY DEF UpdateInv, Pends, DiskFits, PendingSound, Applying, Undoing
<1>3. /\ mem[w] \in Journals /\ k \in Journals /\ Alike(k, mem[w])
      /\ k.phase = PhaseAt[pc[w]]
      /\ k.armed = (mem[w].armed /\ k.phase \notin Terminal)
      /\ k.existed = mem[w].existed /\ k.snap = mem[w].snap
  BY <1>1, Saving DEF UpdateInv, CoreInv
<1>4. /\ pc[w] # "undoing" => PhaseAt[pc[w]] \in {"stopping", "snapshot", "replacing", "validating"}
      /\ pc[w] = "undoing" => PhaseAt[pc[w]] = "rollingBack"
  BY DEF PhaseAt
<1>5. k.phase \notin Terminal
  BY <1>3, <1>4 DEF Terminal
<1>6. journal \in Journals /\ journal.armed
  BY <1>2 DEF Maintenance, Pending, UpdateInv, CoreInv, JournalFits
<1>7. CASE pc[w] # "snapshotted"
  <2>1. mem[w] = journal
    BY <1>7, HeldIsSaved DEF Holding, Applying, Undoing
  <2>2. Pending(k)
    BY <1>3, <1>5, <1>6, <2>1, JournalIs DEF Pending
  <2>3. \/ journal.phase = "prepared" /\ k.phase = "stopping"
        \/ journal.phase = "snapshot" /\ k.phase = "replacing"
        \/ journal.phase = "replacing" /\ k.phase = "validating"
        \/ k.phase = "rollingBack"
    BY <1>3, <1>7 DEF UpdateInv, PhaseOnRecord, PhaseAt
  <2>4. OnDisk(k)
    BY <1>2, <1>3, <2>1, <2>3, SoundAdvances DEF OnDisk, Alike
  <2> QED
    BY <1>3, <2>1, <2>2, <2>4 DEF Alike
<1>8. CASE pc[w] = "snapshotted"
  <2>1. /\ mem[w] = [journal EXCEPT !.existed = db # NoDb, !.snap = db # NoDb]
        /\ snapshot = db /\ journal.phase = "stopping"
    BY <1>8 DEF UpdateInv, Remembered, PhaseOnRecord
  <2>2. /\ Alike(mem[w], journal) /\ mem[w].armed = journal.armed
        /\ mem[w].existed = (db # NoDb) /\ mem[w].snap = (db # NoDb)
    <3>1. PICK b \in BOOLEAN : b = (db # NoDb)
      OBVIOUS
    <3>2. mem[w] = [journal EXCEPT !.existed = b, !.snap = b]
      BY <2>1, <3>1
    <3> QED
      BY <1>6, <3>1, <3>2, PicturedIs
  <2>3. Pending(k)
    BY <1>3, <1>5, <1>6, <2>2, JournalIs DEF Pending
  <2>4. k.id = journal.id /\ k.phase = "snapshot" /\ k.existed = (db # NoDb) /\ k.snap = (db # NoDb)
    BY <1>3, <1>8, <2>2 DEF Alike, PhaseAt
  <2>5. inflight = {}
    BY <1>8, NoWrites DEF Alone
  <2>6. OnDisk(k)
    BY <1>2, <2>1, <2>4, <2>5, SoundPictured DEF OnDisk
  <2> QED
    BY <2>3, <2>4, <2>6
<1> QED
  BY <1>7, <1>8

(* ... and one that ends it records what is there.                         *)
LEMMA AdvanceEnds ==
  ASSUME UpdateInv, NEW w \in Workers,
         pc[w] \in {"abandon", "unarmed", "committing", "restoring"},
         NEW k, k = Advanced(mem[w], PhaseAt[pc[w]])
  PROVE  /\ k \in Journals /\ k.phase \in Terminal /\ k.id = journal.id
         /\ k.phase = "restored" => exe = "old" /\ OldDb(db)
         /\ k.phase = "committed" => exe = "new" /\ (db # NoDb => db.schema # "torn")
         /\ pc[w] # "committing" =>
              k = [journal EXCEPT !.phase = "restored", !.armed = FALSE]
<1>1. pc[w] \in DOMAIN PhaseAt /\ PhaseAt[pc[w]] \in Terminal
      /\ (PhaseAt[pc[w]] = "committed" <=> pc[w] = "committing")
  BY DEF PhaseAt, Terminal
<1>2. mem[w] = journal /\ journal \in Journals /\ journal # NoJournal
  BY HeldIsSaved DEF Holding, Applying, Undoing
<1>3. /\ k \in Journals /\ Alike(k, journal) /\ k.phase = PhaseAt[pc[w]]
  BY <1>1, <1>2, Saving DEF UpdateInv, CoreInv
<1>4. pc[w] # "committing" => exe = "old" /\ OldDb(db)
  <2>1. CASE pc[w] = "abandon"
    <3>1. Maintenance /\ journal.phase = "prepared"
      BY <2>1 DEF UpdateInv, Pends, PhaseOnRecord
    <3> QED
      BY <3>1, SoundSays DEF UpdateInv, DiskFits, PendingSound, OnDisk
  <2>2. CASE pc[w] = "unarmed"
    <3>1. ~Maintenance /\ journal.phase \notin Terminal
      BY <2>2 DEF UpdateInv, Pends, Maintenance, Pending
    <3> QED
      BY <1>2, <3>1 DEF UpdateInv, DiskFits, NormalSound, OldDb
  <2>3. CASE pc[w] = "restoring"
    BY <2>3 DEF UpdateInv, CoreInv, ExeFits, DbRestored
  <2> QED
    BY <2>1, <2>2, <2>3
<1>5. pc[w] = "committing" => exe = "new" /\ (db # NoDb => db.schema # "torn")
  <2>1. SUFFICES ASSUME pc[w] = "committing" PROVE exe = "new" /\ (db # NoDb => db.schema # "torn")
    OBVIOUS
  <2>2. Maintenance /\ journal.phase = "validating"
    BY <2>1 DEF UpdateInv, Pends, PhaseOnRecord, Applying
  <2>3. db # NoDb => db.schema # "torn"
    BY <2>2, SoundSays DEF UpdateInv, DiskFits, PendingSound, OnDisk
  <2> QED
    BY <2>1, <2>3 DEF UpdateInv, CoreInv, ExeFits
<1>6. pc[w] # "committing" => k = [journal EXCEPT !.phase = "restored", !.armed = FALSE]
  BY <1>1, <1>2 DEF Advanced, PhaseAt, Terminal, Journals
<1> QED
  BY <1>1, <1>3, <1>4, <1>5, <1>6 DEF Alike, Terminal

(* Where a save leaves the worker.                                         *)
LEMMA AfterAdvance ==
  ASSUME UpdateInv, NEW w \in Workers, Advance(w)
  PROVE  /\ pc[w] \in DOMAIN PhaseAt /\ pc[w] \in Doing
         /\ pc'[w] = AfterSave[pc[w]] /\ pc'["cli"] = pc["cli"]
         /\ journal' = Advanced(mem[w], PhaseAt[pc[w]]) /\ mem'[w] = journal'
         /\ journal' \in Journals /\ journal'.phase = PhaseAt[pc[w]]
         /\ \A v \in Workers : v # w =>
              pc'[v] = pc[v] /\ mem'[v] = mem[v] /\ pc[v] \notin Doing
         /\ UNCHANGED <<exe, db, snapshot, Folders, task, inflight, img, pinned>>
<1>1. /\ pc[w] \in DOMAIN PhaseAt /\ w \in Processes
      /\ pc' = [pc EXCEPT ![w] = AfterSave[pc[w]]] /\ journal' = mem'[w]
      /\ mem' = [mem EXCEPT ![w] = Advanced(mem[w], PhaseAt[pc[w]])]
      /\ UNCHANGED <<exe, db, snapshot, Folders, task, inflight, img, pinned>>
  BY DEF Advance, Move, Goto, Processes, Folders
<1>2. /\ pc \in [Processes -> WorkerPlaces \cup CliPlaces \cup ServerPlaces]
      /\ mem \in [Processes -> Journals \cup {NoJournal}]
  BY DEF UpdateInv, CoreInv, Places, MemoryTypes
<1>3. pc[w] \in Doing
  BY <1>1 DEF PhaseAt, Doing, Applying, Undoing
<1>4. mem'[w] = Advanced(mem[w], PhaseAt[pc[w]])
  BY <1>1, <1>2
<1>5. journal' \in Journals /\ journal'.phase = PhaseAt[pc[w]]
  BY <1>1, <1>4, Saving DEF UpdateInv, CoreInv
<1>6. ASSUME NEW v \in Workers, v # w
      PROVE  pc'[v] = pc[v] /\ mem'[v] = mem[v] /\ pc[v] \notin Doing
  BY <1>1, <1>2, <1>3, <1>6, Exclusion DEF Processes
<1>7. pc'[w] = AfterSave[pc[w]] /\ pc'["cli"] = pc["cli"]
  BY <1>1, <1>2 DEF Workers
<1> QED
  BY <1>1, <1>3, <1>4, <1>5, <1>6, <1>7

(* Steps that leave the disk alone.                                        *)
LEMMA QuietDisk ==
  ASSUME UpdateInv, UNCHANGED <<disk, slips>>, inflight' \subseteq inflight
  PROVE  DiskFits'
<1>1. UNCHANGED <<exe, db, snapshot, Folders, journal, task>>
  BY DEF disk, Folders
<1>2. PendingSound'
  BY <1>1, SoundFewer DEF UpdateInv, DiskFits, PendingSound, OnDisk, Maintenance
<1>3. NormalSound'
  BY <1>1 DEF UpdateInv, DiskFits, NormalSound, Maintenance
<1>4. Outcome'
  BY <1>1 DEF UpdateInv, DiskFits, Outcome
<1> QED
  BY <1>2, <1>3, <1>4 DEF DiskFits

LEMMA QuietMemory ==
  ASSUME UpdateInv, UNCHANGED <<disk, slips>>, inflight' \subseteq inflight,
         \A w \in Workers : pc'[w] \in {"snapshotted", "failed", "stuck", "saveGone"}
                              => pc'[w] = pc[w] /\ mem'[w] = mem[w]
  PROVE  Remembered'
<1>1. UNCHANGED <<exe, db, snapshot, Folders, journal, task>>
  BY DEF disk, Folders
<1>2. \A j : OnDisk(j) => Sound(j, exe', db', snapshot', Folders', inflight')
  BY <1>1, SoundFewer DEF OnDisk
<1> QED
  BY <1>1, <1>2 DEF UpdateInv, Remembered, OnDisk

(* A server that opens the database, or writes to it, keeps it sound.      *)
LEMMA OpenKeeps ==
  ASSUME UpdateInv, NEW s \in Servers, Open(s)
  PROVE  /\ UNCHANGED <<exe, snapshot, Folders, journal, task>> /\ inflight' \subseteq inflight
         /\ pc[s] = "locked" /\ \A w \in Workers : pc'[w] = pc[w] /\ mem'[w] = mem[w]
         /\ \A j \in Journals : OnDisk(j) => Sound(j, exe', db', snapshot', Folders', inflight')
         /\ exe = "old" /\ OldDb(db) => OldDb(db')
         /\ db' # NoDb /\ db'.schema = "torn" => db # NoDb /\ db.schema = "torn"
<1>1. /\ UNCHANGED <<exe, snapshot, Folders, journal, task>> /\ inflight' \subseteq inflight
      /\ pc[s] = "locked" /\ \E place : pc' = [pc EXCEPT ![s] = place]
      /\ \E j : mem' = mem \/ mem' = [mem EXCEPT ![s] = j]
  BY DEF Open, Exit, Goto, Folders
<1>2. \A w \in Workers : pc'[w] = pc[w] /\ mem'[w] = mem[w]
  BY <1>1 DEF Workers, Servers, Processes, UpdateInv, CoreInv, Places, MemoryTypes
<1>3. CASE UNCHANGED db
  BY <1>1, <1>2, <1>3, SoundFewer DEF OnDisk
<1>4. CASE ~UNCHANGED db
  <2>1. db' = IF db = NoDb THEN [schema |-> img[s], writes |-> 0]
              ELSE IF db.schema = "torn" THEN db
              ELSE [db EXCEPT !.schema = img[s]]
    BY <1>4 DEF Open
  <2>2. img[s] \in Images /\ db \in Databases /\ (img[s] = "new" => exe = "new")
    BY <1>1 DEF UpdateInv, CoreInv, ProcessTypes, StoreTypes, ImagesPinned
  <2>3. CASE db = NoDb
    <3>1. db' # NoDb /\ db'.schema = img[s] /\ db'.writes = 0
      BY <2>1, <2>2, <2>3, CreatedIs
    <3>2. \A j \in Journals : OnDisk(j) => Sound(j, exe, db', snapshot, Folders, inflight)
      BY <2>2, <2>3, <3>1, SoundOpened, JournalIs DEF OnDisk
    <3>3. \A j \in Journals : OnDisk(j) => Sound(j, exe', db', snapshot', Folders', inflight')
      BY <1>1, <3>2, SoundFewer
    <3> QED
      BY <1>1, <1>2, <2>2, <3>1, <3>3 DEF OldDb, Images
  <2>4. CASE db # NoDb
    <3>1. db.schema # "torn" /\ db' = [db EXCEPT !.schema = img[s]]
      BY <1>4, <2>1, <2>4
    <3>2. db' # NoDb /\ db'.schema = img[s] /\ db'.writes = db.writes
      BY <2>2, <2>4, <3>1, SchemaIs
    <3>3. \A j \in Journals : OnDisk(j) => Sound(j, exe, db', snapshot, Folders, inflight)
      BY <2>2, <2>4, <3>1, <3>2, SoundOpened, JournalIs DEF OnDisk
    <3>4. \A j \in Journals : OnDisk(j) => Sound(j, exe', db', snapshot', Folders', inflight')
      BY <1>1, <3>3, SoundFewer
    <3> QED
      BY <1>1, <1>2, <2>2, <3>2, <3>4 DEF OldDb, Images
  <2> QED
    BY <2>3, <2>4
<1> QED
  BY <1>3, <1>4

LEMMA LandKeeps ==
  ASSUME UpdateInv, NEW s \in Servers, Land(s)
  PROVE  /\ UNCHANGED <<exe, snapshot, Folders, journal, task, pc, mem>>
         /\ s \in inflight /\ db # NoDb /\ db' # NoDb /\ db'.schema = db.schema
         /\ \A j : OnDisk(j) => Sound(j, exe', db', snapshot', Folders', inflight')
<1>1. /\ UNCHANGED <<exe, snapshot, Folders, journal, task, pc, mem>> /\ inflight' \subseteq inflight
      /\ s \in inflight /\ db' = [db EXCEPT !.writes = @ + 1]
  BY DEF Land, Folders
<1>2. db # NoDb /\ db \in Databases /\ db.writes < MaxWrites
  BY <1>1 DEF UpdateInv, CoreInv, StoreTypes, WritesFit
<1>3. db' # NoDb /\ db'.schema = db.schema
  BY <1>1, <1>2, WrittenIs
<1> QED
  BY <1>1, <1>2, <1>3, SoundLanded DEF OnDisk

(* What the CLI is about to save.                                          *)
LEMMA CliReady ==
  ASSUME UpdateInv, NEW j, j = mem["cli"],
         pc["cli"] \in {"prepared", "saved", "registered", "refused"}
  PROVE  /\ ~Maintenance /\ exe = "old" /\ OldDb(db)
         /\ j \in Journals /\ j.phase = "prepared" /\ ~j.armed /\ ~j.snap /\ j.id \in Folders
         /\ j.existed => db # NoDb
         /\ ~j.existed => db = NoDb /\ inflight = {}
         /\ pc["cli"] = "registered" => task
<1>1. exe = "old"
  BY DEF UpdateInv, CliAlone, Preparing
<1>2. /\ ~Maintenance
      /\ j \in Journals /\ j.phase = "prepared" /\ ~j.armed /\ ~j.snap /\ j.id \in Folders
      /\ j.existed => db # NoDb
      /\ ~j.existed => db = NoDb
      /\ pc["cli"] = "registered" => task
  BY DEF UpdateInv, CliSound
<1>3. OldDb(db)
  BY <1>1, <1>2 DEF UpdateInv, DiskFits, NormalSound, OldDb
<1>4. db = NoDb => inflight = {}
  BY DEF UpdateInv, CoreInv, WritesFit, ProcessTypes
<1> QED
  BY <1>1, <1>2, <1>3, <1>4

(* No transaction is pending, and the journal only notes its removed task. *)
LEMMA IdleDisk ==
  ASSUME UpdateInv, ~Maintenance, UNCHANGED <<exe, db>>,
         \/ UNCHANGED journal
         \/ journal # NoJournal /\ journal' = [journal EXCEPT !.gone = TRUE]
  PROVE  DiskFits'
<1>1. /\ journal' # NoJournal => journal # NoJournal /\ journal'.phase = journal.phase
      /\ ~Pending(journal')
  <2>1. CASE UNCHANGED journal
    BY <2>1 DEF Maintenance
  <2>2. CASE journal # NoJournal /\ journal' = [journal EXCEPT !.gone = TRUE]
    <3>1. journal \in Journals
      BY <2>2 DEF UpdateInv, CoreInv, JournalFits
    <3>2. journal'.phase = journal.phase /\ journal'.armed = journal.armed
      BY <2>2, <3>1, GoneIs
    <3> QED
      BY <2>2, <3>2 DEF Maintenance, Pending
  <2> QED
    BY <2>1, <2>2
<1> QED
  BY <1>1 DEF UpdateInv, DiskFits, PendingSound, NormalSound, Outcome, Maintenance

(* A transaction is pending after the step, or over with the old version.  *)
LEMMA PendingDisk ==
  ASSUME Maintenance', task', Sound(journal', exe', db', snapshot', Folders', inflight')
  PROVE  DiskFits'
  BY DEF DiskFits, PendingSound, NormalSound, Outcome, OnDisk, Maintenance, Pending,
     Terminal

LEMMA EndedDisk ==
  ASSUME ~Maintenance', exe' = "old", OldDb(db'), journal'.phase # "committed"
  PROVE  DiskFits'
  BY DEF DiskFits, PendingSound, NormalSound, Outcome, OldDb

(* Steps that leave what the CLI holds, or find it idle.                   *)
LEMMA QuietCli ==
  ASSUME UpdateInv, UNCHANGED <<db, work, journal, task, slips>>, pc'["cli"] = pc["cli"],
         mem'["cli"] = mem["cli"], serverLock = "cli" => serverLock' = "cli"
  PROVE  CliSound'
<1>1. UNCHANGED Folders
  BY DEF Folders
<1> QED
  BY <1>1 DEF UpdateInv, CliSound, Maintenance

LEMMA IdleCli ==
  ASSUME UpdateInv, NEW w \in Workers, pc[w] \in Doing, pc'["cli"] = pc["cli"]
  PROVE  CliSound'
  BY DEF UpdateInv, CliAlone, CliSound, Preparing

(* Steps after which no worker, or only the one that took the step, is     *)
(* about it, and how a worker fails.                                       *)
LEMMA IdleMemory ==
  ASSUME UpdateInv, pc["cli"] \in Preparing, \A w \in Workers : pc'[w] = pc[w]
  PROVE  Remembered'
<1>1. {"snapshotted", "failed", "stuck", "saveGone"} \subseteq Doing
  BY DEF Doing, Applying
<1> QED
  BY <1>1 DEF UpdateInv, CliAlone, Remembered

(* Pruning keeps the folders of what is not over, or is caught at it.      *)
LEMMA PruneKeeps ==
  ASSUME UpdateInv, NEW w \in Workers, Prune(w),
         NEW i \in Unfinished \cup StagedIds, i \in Folders
  PROVE  i \in Folders'
<1>1. i \in SavedIds \cup StagedIds
  BY DEF Unfinished, SavedIds
<1> QED
  BY <1>1 DEF UpdateInv, CoreInv, FolderTypes, Prune, Folders

(* What the CLI leaves to the workers.                                     *)
LEMMA CliLeaves ==
  ASSUME UpdateInv, Cli
  PROVE  /\ UNCHANGED <<exe, db, snapshot>>
         /\ \A w \in Workers : pc'[w] = pc[w] \/ pc'[w] = "polling"
         /\ UNCHANGED journal \/ \A w \in Workers : pc[w] \notin Doing
<1>1. CASE BeginInstall \/ RefuseInstall \/ TidyFails \/ Prepare \/ Register \/ CliEnds
  BY <1>1 DEF UpdateInv, CoreInv, Places, Processes, Workers, BeginInstall,
     RefuseInstall, TidyFails, Prepare, Register, CliEnds, Exit, Goto, disk
<1>2. CASE Tidy \/ SaveUnarmed \/ RegisterRefused \/ Arm
  <2>1. pc["cli"] \in Preparing
    BY <1>2 DEF Tidy, SaveUnarmed, RegisterRefused, Arm, Preparing
  <2>2. \A w \in Workers : pc[w] \notin Doing
    BY <2>1 DEF UpdateInv, CliAlone
  <2> QED
    BY <1>2, <2>2 DEF UpdateInv, CoreInv, Places, Processes, Workers, Tidy, SaveUnarmed,
       RegisterRefused, Arm, Exit, Goto
<1>3. CASE SpawnWorker
  BY <1>3 DEF UpdateInv, CoreInv, Places, Processes, Workers, SpawnWorker, disk
<1> QED
  BY <1>1, <1>2, <1>3 DEF Cli

LEMMA OwnMemory ==
  ASSUME UpdateInv, NEW w \in Workers, pc[w] \in Doing,
         \A v \in Workers : v # w => pc'[v] = pc[v],
         pc'[w] \notin {"snapshotted", "failed", "stuck", "saveGone"}
  PROVE  Remembered'
<1>1. {"snapshotted", "failed", "stuck", "saveGone"} \subseteq Doing
  BY DEF Doing, Applying
<1>2. \A v \in Workers : pc'[v] \notin {"snapshotted", "failed", "stuck", "saveGone"}
  BY <1>1, Exclusion
<1> QED
  BY <1>2 DEF Remembered

LEMMA FailingMemory ==
  ASSUME UpdateInv, NEW w \in Workers, pc[w] \in (Applying \cup Undoing) \ {"snapshotted"},
         \A v \in Workers : v # w => pc'[v] = pc[v],
         pc'[w] = FailTo(pc[w]), mem'[w] = mem[w],
         UNCHANGED <<disk, slips>>, inflight' \subseteq inflight
  PROVE  Remembered'
<1>1. pc[w] \in Holding /\ pc[w] \in Doing /\ pc'[w] \in {"failed", "stuck"}
  BY DEF Holding, Doing, FailTo
<1>2. {"snapshotted", "failed", "stuck", "saveGone"} \subseteq Doing
  BY DEF Doing, Applying
<1>3. \A v \in Workers : v # w => pc'[v] \notin {"snapshotted", "failed", "stuck", "saveGone"}
  BY <1>1, <1>2, Exclusion
<1>4. mem[w] = journal
  BY <1>1, HeldIsSaved
<1>5. Maintenance /\ OnDisk(journal)
  BY DEF UpdateInv, Pends, DiskFits, PendingSound
<1>6. UNCHANGED <<exe, db, snapshot, Folders, journal>>
  BY DEF disk, Folders
<1>7. Sound(journal', exe', db', snapshot', Folders', inflight')
  BY <1>5, <1>6, SoundFewer DEF OnDisk
<1>8. Pending(mem'[w]) /\ mem'[w] = journal'
  BY <1>4, <1>5, <1>6 DEF Maintenance
<1> QED
  BY <1>1, <1>3, <1>7, <1>8 DEF Remembered, OnDisk

(* The writes that count are those in the database.                        *)
LEMMA AcceptedIs ==
  ASSUME NEW j, NEW e, NEW d, NEW s, NEW k, NEW f, Sound(j, e, d, s, k, f), j.snap
  PROVE  WritesIn(s) = WritesIn(d)
  BY SoundSays DEF WritesIn
-----------------------------------------------------------------------------
(* Every step keeps each part of UpdateInv.                                *)
LEMMA KeepsCliAlone ==
  ASSUME UpdateInv, Next, Clean'
  PROVE  CliAlone'
<1>1. UpdateHeld'
  BY KeepsUpdateHeld DEF UpdateInv
<1>2. SUFFICES ASSUME pc'["cli"] \in Preparing
               PROVE  exe' = "old" /\ \A w \in Workers : pc'[w] \notin Doing
  BY DEF CliAlone
<1>3. \A w \in Workers : pc'[w] \notin Doing
  BY <1>1, <1>2 DEF UpdateHeld, Workers
<1>4. CASE Cli
  <2>1. CASE BeginInstall
    BY <1>3, <2>1 DEF BeginInstall, disk
  <2>2. CASE Tidy \/ Prepare \/ SaveUnarmed \/ Register \/ Arm
    BY <1>3, <2>2 DEF UpdateInv, CliAlone, Preparing, Tidy, Prepare, SaveUnarmed,
       Register, Arm
  <2>3. CASE RefuseInstall \/ TidyFails \/ RegisterRefused \/ SpawnWorker \/ CliEnds
    BY <1>2, <2>3 DEF UpdateInv, CoreInv, Places, Processes, Workers, Preparing,
       RefuseInstall, TidyFails, RegisterRefused, SpawnWorker, CliEnds, Exit, Goto
  <2> QED
    BY <1>4, <2>1, <2>2, <2>3 DEF Cli
<1>5. CASE Logon \/ UserStarts \/ MachineCrashes
  BY <1>2, <1>3, <1>5 DEF UpdateInv, CoreInv, CliAlone, Places, Processes, Workers, Servers,
       Preparing, Logon, UserStarts, MachineCrashes, Goto, disk, locks, Spend,
       WorkerPlaces, CliPlaces, ServerPlaces, Applying, Undoing
<1>6. ASSUME NEW w \in Workers, Worker(w) PROVE exe' = "old"
  <2> DEFINE Leaves == /\ pc'["cli"] = pc["cli"]
                       /\ UNCHANGED exe \/ pc[w] \in {"retire", "install", "restoreExe"}
  <2>1. ASSUME Poll(w) \/ PollTimesOut(w) \/ ReadFinished(w) \/ Prune(w) \/ Enter(w)
         PROVE  Leaves
    BY <2>1 DEF UpdateInv, CoreInv, CliAlone, Places, UpdateHeld, Processes, Workers,
         Servers, Preparing, Poll, PollTimesOut, ReadFinished, Prune, Enter, Goto, disk,
         locks, Exit, Terminal, Fault, Route, WorkerPlaces, CliPlaces, ServerPlaces,
         Doing, Freed, Spend, Applying, Undoing
  <2>2. ASSUME Advance(w) \/ AdvanceFails(w) \/ SaveError(w) \/ StepFails(w)
         PROVE  Leaves
    BY <2>2 DEF UpdateInv, CoreInv, CliAlone, Places, Processes, Workers, Servers,
         Preparing, Advance, AdvanceFails, SaveError, StepFails, PhaseAt, Move,
         AfterSave, Fault, FailTo, disk, Applying, Undoing, WorkerPlaces, CliPlaces,
         ServerPlaces, Terminal, Goto, Freed, Spend, Fails
  <2>3. ASSUME Stopped(w) \/ AskToStop(w) \/ CannotStop(w) \/ LockServer(w)
               \/ Start(w) \/ Ready(w) \/ NobodyAnswers(w)
         PROVE  Leaves
    BY <2>3 DEF UpdateInv, CoreInv, CliAlone, Places, Processes, Workers, Servers,
         Preparing, Stopped, AskToStop, CannotStop, LockServer, Start, Ready,
         NobodyAnswers, AfterStop, Move, disk, Goto, locks, FailTo, WorkerPlaces,
         CliPlaces, ServerPlaces, Freed, Applying, Undoing
  <2>4. ASSUME Snapshot(w) \/ Retire(w) \/ InstallCandidate(w) \/ RestoreExe(w)
               \/ RestoreDb(w) \/ PutDb(w)
         PROVE  Leaves
    BY <2>4 DEF UpdateInv, CoreInv, CliAlone, Places, Processes, Workers, Servers,
         Preparing, Snapshot, Retire, InstallCandidate, RestoreExe, RestoreDb, PutDb,
         Move, Goto, locks, FailTo, AfterRestore, WorkerPlaces, CliPlaces, ServerPlaces,
         Freed, Applying, Undoing
  <2>5. ASSUME Cleanup(w) \/ SaveGone(w)
         PROVE  Leaves
    BY <2>5 DEF UpdateInv, CoreInv, CliAlone, Places, Processes, Workers, Servers,
         Preparing, Cleanup, SaveGone, Move, WorkerPlaces, CliPlaces, ServerPlaces,
         Goto, Freed, Applying, Undoing, Fails
  <2>6. Leaves
    BY <1>6, <2>1, <2>2, <2>3, <2>4, <2>5 DEF Worker
  <2>7. {"retire", "install", "restoreExe"} \subseteq Doing
    BY DEF Doing, Applying, Undoing
  <2> QED
    BY <1>2, <2>6, <2>7 DEF UpdateInv, CliAlone
<1>7. ASSUME NEW s \in Servers, Server(s) PROVE exe' = "old"
  BY <1>2, <1>7 DEF UpdateInv, CoreInv, CliAlone, Places, Processes, Workers, Servers,
       Preparing, Server, Guard, TakeServerLock, Open, Serve, Admit, Land, Finish,
       StartupFails, Maintenance, Exempt, Goto, locks, Exit, disk, Freed, Fault,
       WorkerPlaces, CliPlaces, ServerPlaces, Pending, Spend, Applying, Undoing,
       Terminal
<1>8. ASSUME NEW p \in Processes, Kill(p) PROVE exe' = "old"
  BY <1>2, <1>8 DEF UpdateInv, CoreInv, CliAlone, Places, Preparing, Kill, Spend, Exit, disk,
       WorkerPlaces, CliPlaces, ServerPlaces, Goto, Freed, Applying, Undoing
<1> QED
  BY <1>3, <1>4, <1>5, <1>6, <1>7, <1>8 DEF Next

LEMMA KeepsLockFits ==
  ASSUME UpdateInv, Next, Clean'
  PROVE  LockFits'
<1>1. CASE Cli
  BY <1>1 DEF UpdateInv, CoreInv, LockFits, Places, Alone, Processes, Workers, Servers,
       Cli, BeginInstall, RefuseInstall, Prepare, SaveUnarmed, Register,
       RegisterRefused, Arm, SpawnWorker, CliEnds, Spend, Goto, disk, CanPrepare, Exit,
       Terminal, locks, Fault, Freed, SavedIds, WorkerPlaces, CliPlaces, ServerPlaces,
       Maintenance, Applying, Undoing, Pending, Tidy, TidyFails, Fails
<1>2. CASE Logon \/ UserStarts \/ MachineCrashes
  BY <1>2 DEF UpdateInv, CoreInv, LockFits, Places, Processes, Workers, Servers, Alone,
       Logon, UserStarts, MachineCrashes, Goto, disk, locks, Spend, WorkerPlaces,
       CliPlaces, ServerPlaces, Applying, Undoing
<1>3. ASSUME NEW w \in Workers, Worker(w) PROVE LockFits'
  <2>1. CASE Poll(w) \/ PollTimesOut(w) \/ ReadFinished(w) \/ Prune(w) \/ Enter(w)
    BY <2>1 DEF UpdateInv, CoreInv, LockFits, Places, Processes, Workers, Servers,
         Alone, Poll, PollTimesOut, ReadFinished, Prune, Enter, Goto, disk, locks, Exit,
         Terminal, Fault, Route, WorkerPlaces, CliPlaces, ServerPlaces, Freed, Spend,
         Applying, Undoing
  <2>2. CASE Advance(w) \/ AdvanceFails(w) \/ SaveError(w) \/ StepFails(w)
    BY <2>2 DEF UpdateInv, CoreInv, LockFits, Places, Applying, Undoing, Processes,
         Workers, Servers, Alone, Advance, AdvanceFails, SaveError, StepFails, PhaseAt,
         Move, AfterSave, Fault, FailTo, disk, WorkerPlaces, CliPlaces, ServerPlaces,
         Terminal, Goto, Freed, Spend, Fails
  <2>3. CASE Stopped(w) \/ AskToStop(w) \/ CannotStop(w) \/ LockServer(w) \/ Start(w)
             \/ Ready(w) \/ NobodyAnswers(w)
    BY <2>3 DEF UpdateInv, CoreInv, LockFits, Places, Processes, Workers, Servers,
         Alone, Stopped, AskToStop, CannotStop, LockServer, Start, Ready, NobodyAnswers,
         AfterStop, Move, disk, Goto, locks, FailTo, WorkerPlaces, CliPlaces,
         ServerPlaces, Freed, Applying, Undoing
  <2>4. CASE Snapshot(w) \/ Retire(w) \/ InstallCandidate(w) \/ RestoreExe(w)
             \/ RestoreDb(w) \/ PutDb(w)
    BY <2>4 DEF UpdateInv, CoreInv, LockFits, Places, Processes, Workers, Servers,
         Alone, Snapshot, Retire, InstallCandidate, RestoreExe, RestoreDb, PutDb, Move,
         Goto, locks, FailTo, AfterRestore, WorkerPlaces, CliPlaces, ServerPlaces,
         Freed, Applying, Undoing
  <2>5. CASE Cleanup(w) \/ SaveGone(w)
    BY <2>5 DEF UpdateInv, CoreInv, LockFits, Places, Processes, Workers, Servers,
         Alone, Cleanup, SaveGone, Move, WorkerPlaces, CliPlaces, ServerPlaces, Goto,
         Freed, Applying, Undoing, Fails
  <2> QED
    BY <1>3, <2>1, <2>2, <2>3, <2>4, <2>5 DEF Worker
<1>4. ASSUME NEW s \in Servers, Server(s) PROVE LockFits'
  BY <1>4 DEF UpdateInv, CoreInv, LockFits, Places, Processes, Workers, Servers, Alone,
       Server, Guard, TakeServerLock, Open, Serve, Admit, Land, Finish, StartupFails,
       Maintenance, Exempt, Goto, locks, Exit, disk, Freed, Fault, WorkerPlaces,
       CliPlaces, ServerPlaces, Pending, Spend, Applying, Undoing, Terminal
<1>5. ASSUME NEW p \in Processes, Kill(p) PROVE LockFits'
  BY <1>5 DEF UpdateInv, CoreInv, LockFits, Places, Processes, Workers, Servers, Alone,
       Kill, Spend, Exit, disk, WorkerPlaces, CliPlaces, ServerPlaces, Goto, Freed,
       Applying, Undoing
<1> QED
  BY <1>1, <1>2, <1>3, <1>4, <1>5 DEF Next

LEMMA KeepsImagesPinned ==
  ASSUME UpdateInv, Next, Clean'
  PROVE  ImagesPinned'
<1>1. CASE Cli
  BY <1>1 DEF UpdateInv, CoreInv, ImagesPinned, Places, ProcessTypes, Processes,
       Workers, Servers, Cli, BeginInstall, RefuseInstall, Prepare, SaveUnarmed,
       Register, RegisterRefused, Arm, SpawnWorker, CliEnds, Spend, Goto, disk,
       CanPrepare, Exit, Terminal, locks, Fault, Freed, SavedIds, WorkerPlaces,
       CliPlaces, ServerPlaces, Images, Maintenance, Applying, Undoing, Pending, Tidy,
       TidyFails, Fails
<1>2. CASE Logon \/ UserStarts \/ MachineCrashes
  BY <1>2 DEF UpdateInv, CoreInv, ImagesPinned, Places, ProcessTypes, ExeFits,
       Processes, Workers, Servers, Logon, UserStarts, MachineCrashes, Goto, disk,
       locks, Spend, WorkerPlaces, CliPlaces, ServerPlaces, Images, Applying, Undoing
<1>3. ASSUME NEW w \in Workers, Worker(w) PROVE ImagesPinned'
  <2>1. CASE Poll(w) \/ PollTimesOut(w) \/ ReadFinished(w) \/ Prune(w) \/ Enter(w)
    BY <2>1 DEF UpdateInv, CoreInv, ImagesPinned, Places, ProcessTypes, Processes,
         Workers, Servers, Poll, PollTimesOut, ReadFinished, Prune, Enter, Goto, disk,
         locks, Exit, Terminal, Fault, Route, WorkerPlaces, CliPlaces, ServerPlaces,
         Images, Freed, Spend, Applying, Undoing
  <2>2. CASE Advance(w) \/ AdvanceFails(w) \/ SaveError(w) \/ StepFails(w)
    BY <2>2 DEF UpdateInv, CoreInv, ImagesPinned, Places, ProcessTypes, Processes,
         Workers, Servers, Advance, AdvanceFails, SaveError, StepFails, PhaseAt, Move,
         AfterSave, Fault, FailTo, disk, Applying, Undoing, WorkerPlaces, CliPlaces,
         ServerPlaces, Images, Terminal, Goto, Freed, Spend, Fails
  <2>3. CASE Stopped(w) \/ AskToStop(w) \/ CannotStop(w) \/ LockServer(w) \/ Start(w)
             \/ Ready(w) \/ NobodyAnswers(w)
    BY <2>3 DEF UpdateInv, CoreInv, ImagesPinned, Places, ProcessTypes, ExeFits,
         Processes, Workers, Servers, Stopped, AskToStop, CannotStop, LockServer, Start,
         Ready, NobodyAnswers, AfterStop, Move, disk, Goto, locks, FailTo, WorkerPlaces,
         CliPlaces, ServerPlaces, Images, Freed, Applying, Undoing
  <2>4. CASE Snapshot(w) \/ Retire(w) \/ InstallCandidate(w) \/ RestoreExe(w)
             \/ RestoreDb(w) \/ PutDb(w)
    BY <2>4 DEF UpdateInv, CoreInv, ImagesPinned, Places, ProcessTypes, ExeRetired,
         Processes, Workers, Servers, Snapshot, Retire, InstallCandidate, RestoreExe,
         RestoreDb, PutDb, Move, Goto, locks, FailTo, AfterRestore, WorkerPlaces,
         CliPlaces, ServerPlaces, Images, Freed, Applying, Undoing
  <2>5. CASE Cleanup(w) \/ SaveGone(w)
    BY <2>5 DEF UpdateInv, CoreInv, ImagesPinned, Places, ProcessTypes, Processes,
         Workers, Servers, Cleanup, SaveGone, Move, WorkerPlaces, CliPlaces,
         ServerPlaces, Images, Goto, Freed, Applying, Undoing, Fails
  <2> QED
    BY <1>3, <2>1, <2>2, <2>3, <2>4, <2>5 DEF Worker
<1>4. ASSUME NEW s \in Servers, Server(s) PROVE ImagesPinned'
  BY <1>4 DEF UpdateInv, CoreInv, ImagesPinned, Places, ProcessTypes, Processes,
       Workers, Servers, Server, Guard, TakeServerLock, Open, Serve, Admit, Land,
       Finish, StartupFails, Maintenance, Exempt, Goto, locks, Exit, disk, Freed, Fault,
       WorkerPlaces, CliPlaces, ServerPlaces, Images, Pending, Spend, Applying, Undoing,
       Terminal
<1>5. ASSUME NEW p \in Processes, Kill(p) PROVE ImagesPinned'
  BY <1>5 DEF UpdateInv, CoreInv, ImagesPinned, Places, ProcessTypes, Kill, Spend, Exit,
       disk, WorkerPlaces, CliPlaces, ServerPlaces, Images, Goto, Freed, Applying,
       Undoing
<1> QED
  BY <1>1, <1>2, <1>3, <1>4, <1>5 DEF Next

LEMMA KeepsPhaseOnRecord ==
  ASSUME UpdateInv, Next, Clean'
  PROVE  PhaseOnRecord'
<1>1. CASE Cli
  BY <1>1, CliLeaves DEF UpdateInv, PhaseOnRecord, Doing, Applying, Undoing
<1>2. CASE Logon \/ UserStarts \/ MachineCrashes
  BY <1>2 DEF UpdateInv, CoreInv, PhaseOnRecord, Places, Processes, Workers, Servers,
       Applying, Undoing, Logon, UserStarts, MachineCrashes, Goto, disk, locks, Spend,
       WorkerPlaces, CliPlaces, ServerPlaces
<1>3. ASSUME NEW w \in Workers, Worker(w) PROVE PhaseOnRecord'
  <2>1. CASE Poll(w) \/ PollTimesOut(w) \/ ReadFinished(w) \/ Prune(w) \/ Enter(w)
    BY <2>1 DEF UpdateInv, CoreInv, PhaseOnRecord, Places, Processes, Workers, Servers,
         Applying, Undoing, Poll, PollTimesOut, ReadFinished, Prune, Enter, Goto, disk,
         locks, Exit, Terminal, Fault, Route, WorkerPlaces, CliPlaces, ServerPlaces,
         Freed, Spend
  <2>2. CASE Advance(w)
      BY <2>2, AfterAdvance DEF UpdateInv, CoreInv, PhaseOnRecord, PhaseAt, AfterSave,
           Doing, Applying, Undoing
  <2>3. CASE AdvanceFails(w)
    BY <2>3 DEF UpdateInv, CoreInv, PhaseOnRecord, Places, Applying, Undoing,
         AdvanceFails, PhaseAt, Fault, Move, FailTo, disk, WorkerPlaces, CliPlaces,
         ServerPlaces, Spend, Terminal, Goto, Freed, Fails
  <2>4. CASE SaveError(w) \/ StepFails(w)
    BY <2>4, Exclusion DEF UpdateInv, CoreInv, PhaseOnRecord, Places, Doing, Applying,
         Undoing, Processes, Workers, Servers, SaveError, StepFails, Move, Fault,
         PhaseAt, FailTo, disk, WorkerPlaces, CliPlaces, ServerPlaces, Goto, Freed,
         Spend, Fails
  <2>5. CASE Stopped(w) \/ AskToStop(w) \/ CannotStop(w) \/ LockServer(w) \/ Start(w)
             \/ Ready(w) \/ NobodyAnswers(w)
    BY <2>5 DEF UpdateInv, CoreInv, PhaseOnRecord, Places, Processes, Workers, Servers,
         Applying, Undoing, Stopped, AskToStop, CannotStop, LockServer, Start, Ready,
         NobodyAnswers, AfterStop, Move, disk, Goto, locks, FailTo, WorkerPlaces,
         CliPlaces, ServerPlaces, Freed
  <2>6. CASE Snapshot(w) \/ Retire(w) \/ InstallCandidate(w) \/ RestoreExe(w)
             \/ RestoreDb(w) \/ PutDb(w)
    BY <2>6 DEF UpdateInv, CoreInv, PhaseOnRecord, Places, Processes, Workers, Servers,
         Applying, Undoing, Snapshot, Retire, InstallCandidate, RestoreExe, RestoreDb,
         PutDb, Move, Goto, locks, FailTo, AfterRestore, WorkerPlaces, CliPlaces,
         ServerPlaces, Freed
  <2>7. CASE Cleanup(w) \/ SaveGone(w)
    BY <2>7, Exclusion DEF UpdateInv, CoreInv, PhaseOnRecord, Places, Doing, Applying,
         Undoing, Processes, Workers, Servers, Cleanup, SaveGone, Move, WorkerPlaces,
         CliPlaces, ServerPlaces, Goto, Freed, Fails
  <2> QED
    BY <1>3, <2>1, <2>2, <2>3, <2>4, <2>5, <2>6, <2>7 DEF Worker
<1>4. ASSUME NEW s \in Servers, Server(s) PROVE PhaseOnRecord'
  BY <1>4 DEF UpdateInv, CoreInv, PhaseOnRecord, Places, Processes, Workers, Servers,
       Applying, Undoing, Server, Guard, TakeServerLock, Open, Serve, Admit, Land,
       Finish, StartupFails, Maintenance, Exempt, Goto, locks, Exit, disk, Freed, Fault,
       WorkerPlaces, CliPlaces, ServerPlaces, Pending, Spend, Terminal
<1>5. ASSUME NEW p \in Processes, Kill(p) PROVE PhaseOnRecord'
  BY <1>5 DEF UpdateInv, CoreInv, PhaseOnRecord, Places, Applying, Undoing, Kill, Spend,
       Exit, disk, WorkerPlaces, CliPlaces, ServerPlaces, Goto, Freed
<1> QED
  BY <1>1, <1>2, <1>3, <1>4, <1>5 DEF Next

LEMMA KeepsPends ==
  ASSUME UpdateInv, Next, Clean'
  PROVE  Pends'
<1>1. CASE Cli
  BY <1>1, CliLeaves DEF UpdateInv, Pends, Maintenance, Doing, Applying, Undoing
<1>2. CASE Logon \/ UserStarts \/ MachineCrashes
  BY <1>2 DEF UpdateInv, CoreInv, Pends, Places, Processes, Workers, Servers, Applying,
       Undoing, Maintenance, Pending, Logon, UserStarts, MachineCrashes, Goto, disk,
       locks, Spend, Terminal, WorkerPlaces, CliPlaces, ServerPlaces
<1>3. ASSUME NEW w \in Workers, Worker(w) PROVE Pends'
  <2>1. CASE Poll(w) \/ PollTimesOut(w) \/ ReadFinished(w) \/ Prune(w) \/ Enter(w)
    BY <2>1 DEF UpdateInv, CoreInv, Pends, Places, Processes, Workers, Servers,
         Applying, Undoing, Maintenance, Pending, Poll, PollTimesOut, ReadFinished,
         Prune, Enter, Goto, disk, locks, Exit, Terminal, Fault, Route, WorkerPlaces,
         CliPlaces, ServerPlaces, Freed, Spend
  <2>2. CASE Advance(w)
    <3>1. CASE pc[w] \in {"stopping", "snapshotted", "replacing", "validating", "undoing"}
      <4>1. Maintenance' /\ journal'.phase \notin Terminal
        BY <2>2, <3>1, AfterAdvance, AdvanceGoesOn DEF UpdateInv, CoreInv, Maintenance,
             Pending, Terminal
      <4>2. pc'[w] \in Applying \cup Undoing
        BY <2>2, <3>1, AfterAdvance DEF UpdateInv, CoreInv, AfterSave, Applying, Undoing
      <4>3. \A v \in Workers : v # w => pc'[v] \notin Doing
        BY <2>2, AfterAdvance
      <4> QED
        BY <4>1, <4>2, <4>3 DEF UpdateInv, CoreInv, Pends, Doing, Applying, Undoing,
             Terminal, Maintenance, Pending
    <3>2. CASE pc[w] \in {"abandon", "unarmed", "committing", "restoring"}
      <4>1. journal' # NoJournal /\ journal'.phase \in Terminal
        BY <2>2, <3>2, AfterAdvance, AdvanceEnds, JournalIs DEF UpdateInv, CoreInv
      <4>2. pc'[w] = "cleanup"
        BY <2>2, <3>2, AfterAdvance DEF UpdateInv, CoreInv, AfterSave
      <4>3. \A v \in Workers : v # w => pc'[v] \notin Doing
        BY <2>2, AfterAdvance DEF UpdateInv, CoreInv
      <4> QED
        BY <4>1, <4>2, <4>3 DEF UpdateInv, CoreInv, Pends, Doing, Applying, Undoing,
             Terminal, Maintenance, Pending
    <3> QED
      BY <2>2, <3>1, <3>2, AfterAdvance DEF UpdateInv, CoreInv, PhaseAt
  <2>3. CASE AdvanceFails(w)
    BY <2>3 DEF UpdateInv, CoreInv, Pends, Places, Applying, Undoing, Maintenance,
         Pending, AdvanceFails, PhaseAt, Fault, Move, FailTo, disk, Terminal,
         WorkerPlaces, CliPlaces, ServerPlaces, Spend, Goto, Freed, Fails
  <2>4. CASE SaveError(w) \/ StepFails(w)
    BY <2>4, Exclusion DEF UpdateInv, CoreInv, Pends, Places, Doing, Applying, Undoing,
         Remembered, Processes, Workers, Servers, Maintenance, Pending, SaveError,
         StepFails, Move, Fault, PhaseAt, FailTo, disk, Terminal, WorkerPlaces,
         CliPlaces, ServerPlaces, OnDisk, OldDb, Goto, Freed, Spend, Fails
  <2>5. CASE Stopped(w) \/ AskToStop(w) \/ CannotStop(w) \/ LockServer(w) \/ Start(w)
             \/ Ready(w) \/ NobodyAnswers(w)
    BY <2>5 DEF UpdateInv, CoreInv, Pends, Places, Processes, Workers, Servers,
         Applying, Undoing, Maintenance, Pending, Stopped, AskToStop, CannotStop,
         LockServer, Start, Ready, NobodyAnswers, AfterStop, Move, disk, Goto, locks,
         FailTo, Terminal, WorkerPlaces, CliPlaces, ServerPlaces, Freed
  <2>6. CASE Snapshot(w) \/ Retire(w) \/ InstallCandidate(w) \/ RestoreExe(w)
             \/ RestoreDb(w) \/ PutDb(w)
    BY <2>6 DEF UpdateInv, CoreInv, Pends, Places, Processes, Workers, Servers,
         Applying, Undoing, Maintenance, Pending, Snapshot, Retire, InstallCandidate,
         RestoreExe, RestoreDb, PutDb, Move, Goto, locks, FailTo, AfterRestore,
         Terminal, WorkerPlaces, CliPlaces, ServerPlaces, Freed
  <2>7. CASE Cleanup(w)
    BY <2>7 DEF UpdateInv, CoreInv, Pends, Places, Processes, Workers, Servers,
         Applying, Undoing, Maintenance, Pending, Cleanup, Move, Terminal, WorkerPlaces,
         CliPlaces, ServerPlaces, Goto, Freed
  <2>8. CASE SaveGone(w)
    <3>1. /\ pc[w] = "saveGone" /\ journal' = mem[w] /\ pc' = [pc EXCEPT ![w] = "leaving"]
      BY <2>8 DEF UpdateInv, CoreInv, SaveGone, Move, Goto, Freed, Fails
    <3>2. journal # NoJournal /\ journal.phase \in Terminal /\ journal \in Journals
      BY <3>1 DEF UpdateInv, CoreInv, Pends, JournalFits, Terminal, Applying, Undoing,
           Maintenance, Journals, SnapFits, Pending, Phases
    <3>3. journal' \in Journals /\ journal'.phase = journal.phase
      BY <3>1, <3>2, GoneIs, Zenon DEF UpdateInv, CoreInv, Remembered, Pending, OnDisk,
           OldDb, Terminal
    <3>4. ASSUME NEW v \in Workers, v # w PROVE pc'[v] \notin Doing
      BY <3>1, <3>4, Exclusion DEF UpdateInv, CoreInv, Places, Processes, Doing,
           WorkerPlaces, CliPlaces, ServerPlaces, Applying, Undoing
    <3>5. pc'[w] = "leaving"
      BY <3>1 DEF UpdateInv, CoreInv, Places, Processes, WorkerPlaces, CliPlaces,
           ServerPlaces, Applying, Undoing
    <3>6. journal' # NoJournal /\ journal'.phase \in Terminal
      BY <3>2, <3>3, JournalIs DEF UpdateInv, CoreInv
    <3> QED
      BY <3>4, <3>5, <3>6 DEF UpdateInv, CoreInv, Pends, Doing, Applying, Undoing,
           Terminal, Maintenance, Pending
  <2> QED
    BY <1>3, <2>1, <2>2, <2>3, <2>4, <2>5, <2>6, <2>7, <2>8 DEF Worker
<1>4. ASSUME NEW s \in Servers, Server(s) PROVE Pends'
  BY <1>4 DEF UpdateInv, CoreInv, Pends, Places, Processes, Workers, Servers, Applying,
       Undoing, Maintenance, Pending, Server, Guard, TakeServerLock, Open, Serve, Admit,
       Land, Finish, StartupFails, Exempt, Goto, locks, Exit, disk, Freed, Fault,
       Terminal, WorkerPlaces, CliPlaces, ServerPlaces, Spend
<1>5. ASSUME NEW p \in Processes, Kill(p) PROVE Pends'
  BY <1>5 DEF UpdateInv, CoreInv, Pends, Places, Applying, Undoing, Maintenance,
       Pending, Kill, Spend, Exit, disk, Terminal, WorkerPlaces, CliPlaces,
       ServerPlaces, Goto, Freed
<1> QED
  BY <1>1, <1>2, <1>3, <1>4, <1>5 DEF Next

LEMMA KeepsExeRetired ==
  ASSUME UpdateInv, Next, Clean'
  PROVE  ExeRetired'
<1>1. CASE Cli
  BY <1>1 DEF UpdateInv, CoreInv, ExeRetired, Places, Processes, Workers, Servers, Cli,
       BeginInstall, RefuseInstall, Prepare, SaveUnarmed, Register, RegisterRefused,
       Arm, SpawnWorker, CliEnds, Spend, Goto, disk, CanPrepare, Exit, Terminal, locks,
       Fault, Freed, SavedIds, WorkerPlaces, CliPlaces, ServerPlaces, Maintenance,
       Applying, Undoing, Pending, Tidy, TidyFails, Fails
<1>2. CASE Logon \/ UserStarts \/ MachineCrashes
  BY <1>2 DEF UpdateInv, CoreInv, ExeRetired, Places, Processes, Workers, Servers,
       Logon, UserStarts, MachineCrashes, Goto, disk, locks, Spend, WorkerPlaces,
       CliPlaces, ServerPlaces, Applying, Undoing
<1>3. ASSUME NEW w \in Workers, Worker(w) PROVE ExeRetired'
  <2>1. CASE Poll(w) \/ PollTimesOut(w) \/ ReadFinished(w) \/ Prune(w) \/ Enter(w)
    BY <2>1 DEF UpdateInv, CoreInv, ExeRetired, Places, Processes, Workers, Servers,
         Poll, PollTimesOut, ReadFinished, Prune, Enter, Goto, disk, locks, Exit,
         Terminal, Fault, Route, WorkerPlaces, CliPlaces, ServerPlaces, Freed, Spend,
         Applying, Undoing
  <2>2. CASE Advance(w)
    <3>1. pc[w] = "replacing" => exe = "old"
      <4>1. pc[w] = "replacing" => Maintenance /\ journal.phase = "snapshot"
        BY DEF UpdateInv, CoreInv, Pends, PhaseOnRecord, Applying, Terminal, Undoing,
             Maintenance, Pending
      <4> QED
        BY <4>1, SoundSays DEF UpdateInv, CoreInv, DiskFits, PendingSound, OnDisk,
             Maintenance, Terminal, Pending, OldDb
    <3> QED
      BY <2>2, <3>1, AfterAdvance DEF UpdateInv, CoreInv, ExeRetired, PhaseAt,
           AfterSave, Doing, Applying, Undoing
  <2>3. CASE AdvanceFails(w)
    BY <2>3 DEF UpdateInv, CoreInv, ExeRetired, Places, AdvanceFails, PhaseAt, Fault,
         Move, FailTo, disk, WorkerPlaces, CliPlaces, ServerPlaces, Spend, Terminal,
         Goto, Freed, Applying, Undoing, Fails
  <2>4. CASE SaveError(w) \/ StepFails(w)
    BY <2>4 DEF UpdateInv, CoreInv, ExeRetired, Places, Processes, Workers, Servers,
         SaveError, StepFails, Move, Fault, Applying, Undoing, PhaseAt, FailTo, disk,
         WorkerPlaces, CliPlaces, ServerPlaces, Goto, Freed, Spend, Fails
  <2>5. CASE Stopped(w) \/ AskToStop(w) \/ CannotStop(w) \/ LockServer(w) \/ Start(w)
             \/ Ready(w) \/ NobodyAnswers(w)
    BY <2>5 DEF UpdateInv, CoreInv, ExeRetired, Places, Processes, Workers, Servers,
         Stopped, AskToStop, CannotStop, LockServer, Start, Ready, NobodyAnswers,
         AfterStop, Move, disk, Goto, locks, FailTo, WorkerPlaces, CliPlaces,
         ServerPlaces, Freed, Applying, Undoing
  <2>6. CASE Snapshot(w)
    BY <2>6 DEF UpdateInv, CoreInv, ExeRetired, Places, Snapshot, Move, WorkerPlaces,
         CliPlaces, ServerPlaces, Goto, Freed, Applying, Undoing
  <2>7. CASE Retire(w)
    BY <2>7, Exclusion DEF UpdateInv, CoreInv, ExeRetired, Places, Doing, Applying,
         Undoing, Processes, Workers, Servers, Retire, Goto, locks, Move, FailTo,
         WorkerPlaces, CliPlaces, ServerPlaces, Freed
  <2>8. CASE InstallCandidate(w)
    BY <2>8, Exclusion DEF UpdateInv, CoreInv, ExeRetired, Places, Doing, Applying,
         Undoing, Processes, Workers, Servers, InstallCandidate, Move, WorkerPlaces,
         CliPlaces, ServerPlaces, Goto, Freed
  <2>9. CASE RestoreExe(w)
    BY <2>9, Exclusion DEF UpdateInv, CoreInv, ExeRetired, Places, Doing, Applying,
         Undoing, Processes, Workers, Servers, RestoreExe, Move, FailTo, WorkerPlaces,
         CliPlaces, ServerPlaces, Goto, Freed
  <2>10. CASE RestoreDb(w)
    BY <2>10 DEF UpdateInv, CoreInv, ExeRetired, Places, Processes, Workers, Servers,
         RestoreDb, Move, AfterRestore, WorkerPlaces, CliPlaces, ServerPlaces, Goto,
         Freed, Applying, Undoing
  <2>11. CASE PutDb(w)
    BY <2>11 DEF UpdateInv, CoreInv, ExeRetired, Places, PutDb, Move, AfterRestore,
         WorkerPlaces, CliPlaces, ServerPlaces, Goto, Freed, Applying, Undoing
  <2>12. CASE Cleanup(w) \/ SaveGone(w)
    BY <2>12 DEF UpdateInv, CoreInv, ExeRetired, Places, Processes, Workers, Servers,
         Cleanup, SaveGone, Move, WorkerPlaces, CliPlaces, ServerPlaces, Goto, Freed,
         Applying, Undoing, Fails
  <2> QED
    BY <1>3, <2>1, <2>2, <2>3, <2>4, <2>5, <2>6, <2>7, <2>8, <2>9, <2>10, <2>11, <2>12 DEF
       Worker
<1>4. ASSUME NEW s \in Servers, Server(s) PROVE ExeRetired'
  BY <1>4 DEF UpdateInv, CoreInv, ExeRetired, Places, Processes, Workers, Servers,
       Server, Guard, TakeServerLock, Open, Serve, Admit, Land, Finish, StartupFails,
       Maintenance, Exempt, Goto, locks, Exit, disk, Freed, Fault, WorkerPlaces,
       CliPlaces, ServerPlaces, Pending, Spend, Applying, Undoing, Terminal
<1>5. ASSUME NEW p \in Processes, Kill(p) PROVE ExeRetired'
  BY <1>5 DEF UpdateInv, CoreInv, ExeRetired, Places, Kill, Spend, Exit, disk,
       WorkerPlaces, CliPlaces, ServerPlaces, Goto, Freed, Applying, Undoing
<1> QED
  BY <1>1, <1>2, <1>3, <1>4, <1>5 DEF Next

LEMMA KeepsDbRestored ==
  ASSUME UpdateInv, Next, Clean'
  PROVE  DbRestored'
<1>1. CASE Cli
  BY <1>1, CliLeaves DEF UpdateInv, DbRestored, Doing, Undoing, OldDb
<1>2. CASE Logon \/ UserStarts \/ MachineCrashes
  BY <1>2 DEF UpdateInv, CoreInv, DbRestored, Places, Processes, Workers, Servers,
       Applying, Undoing, Logon, UserStarts, MachineCrashes, Goto, disk, locks, Spend,
       OldDb, WorkerPlaces, CliPlaces, ServerPlaces
<1>3. ASSUME NEW w \in Workers, Worker(w) PROVE DbRestored'
  <2>1. CASE Poll(w) \/ PollTimesOut(w) \/ ReadFinished(w) \/ Prune(w) \/ Enter(w)
    BY <2>1 DEF UpdateInv, CoreInv, DbRestored, Places, Processes, Workers, Servers,
         Applying, Undoing, Poll, PollTimesOut, ReadFinished, Prune, Enter, Goto, disk,
         locks, Exit, Terminal, Fault, Route, OldDb, WorkerPlaces, CliPlaces,
         ServerPlaces, Freed, Spend
  <2>2. CASE Advance(w)
    <3>1. pc'[w] \notin {"putDb", "startAgain", "readyAgain", "restoring"}
      BY <2>2, AfterAdvance DEF UpdateInv, CoreInv, PhaseAt, AfterSave
    <3> QED
      BY <2>2, <3>1, AfterAdvance DEF UpdateInv, CoreInv, DbRestored, Doing, Undoing,
           OldDb, Applying
  <2>3. CASE AdvanceFails(w)
    BY <2>3 DEF UpdateInv, CoreInv, DbRestored, Places, Applying, Undoing, AdvanceFails,
         PhaseAt, Fault, Move, FailTo, disk, OldDb, WorkerPlaces, CliPlaces,
         ServerPlaces, Spend, Terminal, Goto, Freed, Fails
  <2>4. CASE SaveError(w)
    BY <2>4, Exclusion DEF UpdateInv, CoreInv, DbRestored, Places, Doing, Applying,
         Undoing, Processes, Workers, Servers, SaveError, Move, Fault, OldDb,
         WorkerPlaces, CliPlaces, ServerPlaces, Goto, Freed, Spend, Fails
  <2>5. CASE StepFails(w)
    BY <2>5 DEF UpdateInv, CoreInv, DbRestored, Places, Applying, Undoing, StepFails,
         PhaseAt, Fault, Move, FailTo, disk, OldDb, WorkerPlaces, CliPlaces,
         ServerPlaces, Spend, Goto, Freed, Fails
  <2>6. CASE Stopped(w) \/ AskToStop(w) \/ CannotStop(w) \/ LockServer(w) \/ Start(w)
             \/ Ready(w) \/ NobodyAnswers(w)
    BY <2>6 DEF UpdateInv, CoreInv, DbRestored, Places, Processes, Workers, Servers,
         Applying, Undoing, Stopped, AskToStop, CannotStop, LockServer, Start, Ready,
         NobodyAnswers, AfterStop, Move, disk, Goto, locks, FailTo, OldDb, WorkerPlaces,
         CliPlaces, ServerPlaces, Freed
  <2>7. CASE Snapshot(w) \/ Retire(w) \/ InstallCandidate(w)
    BY <2>7 DEF UpdateInv, CoreInv, DbRestored, Places, Processes, Workers, Servers,
         Applying, Undoing, Snapshot, Retire, InstallCandidate, Move, Goto, locks,
         FailTo, OldDb, WorkerPlaces, CliPlaces, ServerPlaces, Freed
  <2>8. CASE RestoreExe(w)
    BY <2>8 DEF UpdateInv, CoreInv, DbRestored, Places, Processes, Workers, Servers,
         Applying, Undoing, RestoreExe, Move, FailTo, OldDb, WorkerPlaces, CliPlaces,
         ServerPlaces, Goto, Freed
  <2>9. CASE RestoreDb(w)
    <3>1. /\ pc[w] = "restoreDb" /\ mem[w] = journal /\ UNCHANGED journal
          /\ \E place : Goto(w, place) /\ (place = "putDb" <=> journal.snap)
          /\ ~journal.snap => db' = IF journal.existed THEN db ELSE NoDb
      BY <2>9, HeldIsSaved DEF UpdateInv, CoreInv, RestoreDb, Move, Goto, AfterRestore,
           Holding, Undoing, Freed, Applying
    <3>2. ~journal.snap => OldDb(db')
      <4>1. Maintenance
        BY <3>1 DEF UpdateInv, CoreInv, Pends, Undoing, Terminal, Applying, Maintenance,
             Pending
      <4>2. ~journal.snap /\ journal.existed => OldDb(db)
        BY <4>1, SoundSays DEF UpdateInv, CoreInv, DiskFits, PendingSound, OnDisk,
             Maintenance, Terminal, Pending, OldDb
      <4> QED
        BY <3>1, <4>2 DEF UpdateInv, CoreInv, OldDb
    <3>3. ASSUME NEW v \in Workers, v # w PROVE pc'[v] = pc[v] /\ pc[v] \notin Doing
      BY <3>1, <3>3, Exclusion DEF UpdateInv, CoreInv, Places, Processes, Goto, Doing,
           Undoing, WorkerPlaces, CliPlaces, ServerPlaces, Applying
    <3>4. (pc'[w] = "putDb") <=> journal.snap
      BY <3>1 DEF UpdateInv, CoreInv, Places, Processes, Goto, WorkerPlaces, CliPlaces,
           ServerPlaces, Applying, Undoing
    <3> QED
      BY <3>1, <3>2, <3>3, <3>4 DEF UpdateInv, CoreInv, DbRestored, Doing, Undoing,
           OldDb, Applying
  <2>10. CASE PutDb(w)
    <3>1. /\ pc[w] = "putDb" /\ db' = snapshot /\ UNCHANGED journal
          /\ Goto(w, AfterRestore(w)) /\ AfterRestore(w) # "putDb"
      BY <2>10 DEF UpdateInv, CoreInv, PutDb, Move, AfterRestore, Goto, Freed
    <3>2. OldDb(db')
      <4>1. Maintenance /\ journal.snap
        BY <3>1 DEF UpdateInv, CoreInv, Pends, DbRestored, Undoing, Terminal, Applying,
             Maintenance, OldDb, Pending
      <4> QED
        BY <3>1, <4>1, SoundSays DEF UpdateInv, CoreInv, DiskFits, PendingSound, OnDisk,
             OldDb, Maintenance, Terminal, Pending
    <3>3. ASSUME NEW v \in Workers, v # w PROVE pc'[v] = pc[v] /\ pc[v] \notin Doing
      BY <3>1, <3>3, Exclusion DEF UpdateInv, CoreInv, Places, Processes, Goto, Doing,
           Undoing, WorkerPlaces, CliPlaces, ServerPlaces, Applying
    <3>4. pc'[w] # "putDb"
      BY <3>1 DEF UpdateInv, CoreInv, Places, Processes, Goto, WorkerPlaces, CliPlaces,
           ServerPlaces, Applying, Undoing
    <3> QED
      BY <3>2, <3>3, <3>4 DEF UpdateInv, CoreInv, DbRestored, Doing, Undoing, OldDb,
           Applying
  <2>11. CASE Cleanup(w)
    BY <2>11 DEF UpdateInv, CoreInv, DbRestored, Places, Processes, Workers, Servers,
         Applying, Undoing, Cleanup, Move, OldDb, WorkerPlaces, CliPlaces, ServerPlaces,
         Goto, Freed
  <2>12. CASE SaveGone(w)
    BY <2>12, Exclusion DEF UpdateInv, CoreInv, DbRestored, Places, Doing, Applying,
         Undoing, SaveGone, Move, OldDb, WorkerPlaces, CliPlaces, ServerPlaces, Goto,
         Freed, Fails
  <2> QED
    BY <1>3, <2>1, <2>2, <2>3, <2>4, <2>5, <2>6, <2>7, <2>8, <2>9, <2>10, <2>11, <2>12 DEF
       Worker
<1>4. ASSUME NEW s \in Servers, Server(s) PROVE DbRestored'
  <2>1. CASE Guard(s) \/ TakeServerLock(s)
    BY <2>1 DEF UpdateInv, CoreInv, DbRestored, Places, Processes, Workers, Servers,
         Applying, Undoing, Guard, TakeServerLock, Maintenance, Exempt, Goto, locks,
         Exit, disk, OldDb, WorkerPlaces, CliPlaces, ServerPlaces, Pending, Freed,
         Terminal
  <2>2. CASE Open(s)
    <3>1. CASE UNCHANGED db
      BY <2>2, <3>1 DEF UpdateInv, CoreInv, DbRestored, Open, Exit, Goto, Places,
           Processes, Workers, Servers, OldDb, locks, Freed, WorkerPlaces, CliPlaces,
           ServerPlaces, Applying, Undoing
    <3>2. CASE ~UNCHANGED db
      <4>1. /\ pc[s] = "locked" /\ UNCHANGED journal /\ pc' = [pc EXCEPT ![s] = "opened"]
            /\ db' = IF db = NoDb THEN [schema |-> img[s], writes |-> 0]
                     ELSE IF db.schema = "torn" THEN db
                     ELSE [db EXCEPT !.schema = img[s]]
        BY <2>2, <3>2 DEF UpdateInv, CoreInv, Open, Goto, Exit, locks, Freed
      <4>2. ASSUME exe = "old" PROVE OldDb(db')
        <5>1. img[s] = "old" /\ db \in Databases
          BY <4>1, <4>2 DEF UpdateInv, CoreInv, ImagesPinned, ProcessTypes, StoreTypes,
               Images, Databases
        <5> QED
          BY <3>2, <4>1, <5>1, SchemaIs, CreatedIs DEF UpdateInv, CoreInv, OldDb, Images
      <4>3. \A w \in Workers : pc'[w] = pc[w]
        BY <4>1 DEF UpdateInv, CoreInv, Workers, Servers
      <4>4. \A w \in Workers : pc[w] \in {"startAgain", "readyAgain", "restoring"} => exe = "old"
        BY DEF UpdateInv, CoreInv, ExeFits, Images
      <4> QED
        BY <4>1, <4>2, <4>3, <4>4 DEF UpdateInv, CoreInv, DbRestored, OldDb
    <3> QED
      BY <3>1, <3>2 DEF UpdateInv, CoreInv
  <2>3. CASE Serve(s)
    BY <2>3 DEF UpdateInv, CoreInv, DbRestored, Places, Applying, Undoing, Serve, Freed,
         Goto, disk, OldDb, WorkerPlaces, CliPlaces, ServerPlaces
  <2>4. CASE Admit(s)
    BY <2>4 DEF UpdateInv, CoreInv, DbRestored, Places, Applying, Undoing, Admit,
         Maintenance, disk, locks, OldDb, WorkerPlaces, CliPlaces, ServerPlaces,
         Pending, Terminal
  <2>5. CASE Land(s)
    <3>1. /\ s \in inflight /\ db # NoDb /\ db \in Databases /\ db.writes < MaxWrites
          /\ db' = [db EXCEPT !.writes = @ + 1] /\ UNCHANGED <<pc, journal>>
      BY <2>5 DEF UpdateInv, CoreInv, Land, WritesFit, StoreTypes, procs, locks,
           Databases, Images
    <3>2. OldDb(db) => OldDb(db')
      BY <3>1, WrittenIs DEF UpdateInv, CoreInv, OldDb
    <3> QED
      BY <3>1, <3>2 DEF UpdateInv, CoreInv, DbRestored, OldDb
  <2>6. CASE Finish(s) \/ StartupFails(s)
    BY <2>6 DEF UpdateInv, CoreInv, DbRestored, Places, Processes, Workers, Servers,
         Applying, Undoing, Finish, StartupFails, Exit, disk, Fault, OldDb,
         WorkerPlaces, CliPlaces, ServerPlaces, Goto, Freed, Spend
  <2> QED
    BY <1>4, <2>1, <2>2, <2>3, <2>4, <2>5, <2>6 DEF Server
<1>5. ASSUME NEW p \in Processes, Kill(p) PROVE DbRestored'
  BY <1>5 DEF UpdateInv, CoreInv, DbRestored, Places, Applying, Undoing, Kill, Spend,
       Exit, disk, OldDb, WorkerPlaces, CliPlaces, ServerPlaces, Goto, Freed
<1> QED
  BY <1>1, <1>2, <1>3, <1>4, <1>5 DEF Next

LEMMA KeepsDiskFits ==
  ASSUME UpdateInv, Next, Clean'
  PROVE  DiskFits'
<1>1. CASE Cli
  <2>1. CASE BeginInstall \/ RefuseInstall \/ SpawnWorker
    BY <2>1, QuietDisk DEF UpdateInv, CoreInv, DiskFits, disk, BeginInstall,
         RefuseInstall, SpawnWorker, Spend, Goto, CanPrepare, Exit, Maintenance, Freed,
         OnDisk, Terminal, Pending, OldDb
  <2>2. CASE Tidy
    BY <2>2, TidyIs, IdleDisk, JournalIs DEF UpdateInv, CoreInv
  <2>8. CASE TidyFails \/ Prepare
    <3>1. ~Maintenance /\ UNCHANGED <<exe, db, journal>>
      BY <2>8 DEF UpdateInv, CliSound, TidyFails, Prepare
    <3> QED
      BY <3>1, IdleDisk
  <2>3. CASE SaveUnarmed
    <3>1. pc["cli"] = "prepared" /\ journal' = mem["cli"] /\ UNCHANGED <<exe, db>>
      BY <2>3 DEF UpdateInv, CoreInv, SaveUnarmed, Goto, locks
    <3>2. exe = "old" /\ OldDb(db) /\ journal'.phase = "prepared" /\ ~journal'.armed
      BY <3>1, CliReady DEF UpdateInv, CoreInv
    <3> QED
      BY <3>1, <3>2, EndedDisk DEF UpdateInv, CoreInv, Maintenance, Pending, Terminal
  <2>4. CASE Register
    <3>1. pc["cli"] = "saved" /\ UNCHANGED <<exe, db, journal>>
      BY <2>4 DEF UpdateInv, CoreInv, Register, Goto, Fault, locks, Spend, Fails
    <3> QED
      BY <3>1, CliReady, IdleDisk DEF UpdateInv, CoreInv
  <2>5. CASE RegisterRefused
    <3>1. /\ pc["cli"] = "refused" /\ journal' = [mem["cli"] EXCEPT !.phase = "restored"]
          /\ UNCHANGED <<exe, db>>
      BY <2>5 DEF UpdateInv, CoreInv, RegisterRefused, Exit, Goto, Freed
    <3>2. exe = "old" /\ OldDb(db) /\ mem["cli"] \in Journals
      BY <3>1, CliReady DEF UpdateInv, CoreInv
    <3>3. journal'.phase = "restored"
      BY <3>1, <3>2, RestoredIs DEF UpdateInv, CoreInv
    <3> QED
      BY <3>1, <3>2, <3>3, EndedDisk DEF UpdateInv, CoreInv, Maintenance, Pending,
           Terminal
  <2>6. CASE Arm
    <3>1. /\ pc["cli"] = "registered" /\ journal' = [mem["cli"] EXCEPT !.armed = TRUE]
          /\ UNCHANGED <<exe, db, snapshot, Folders, task, inflight>>
      BY <2>6 DEF UpdateInv, CoreInv, Arm, Freed, Goto, Folders
    <3>2. /\ exe = "old" /\ OldDb(db) /\ task /\ mem["cli"] \in Journals
          /\ mem["cli"].phase = "prepared" /\ ~mem["cli"].snap /\ mem["cli"].id \in Folders
          /\ mem["cli"].existed => db # NoDb
          /\ ~mem["cli"].existed => db = NoDb /\ inflight = {}
      BY <3>1, CliReady DEF UpdateInv, CoreInv
    <3>3. /\ journal' \in Journals /\ Alike(journal', mem["cli"]) /\ journal'.phase = "prepared"
          /\ journal'.armed /\ journal'.existed = mem["cli"].existed
          /\ journal'.snap = mem["cli"].snap
      BY <3>1, <3>2, ArmedIs, Zenon DEF UpdateInv, CoreInv
    <3>4. Maintenance'
      BY <3>3, JournalIs DEF UpdateInv, CoreInv, Maintenance, Pending, Terminal
    <3>5. Sound(journal', "old", db, snapshot, Folders, inflight)
      BY <3>2, <3>3, SoundArmed DEF UpdateInv, CoreInv, Alike
    <3> QED
      BY <3>1, <3>2, <3>4, <3>5, PendingDisk DEF UpdateInv, CoreInv
  <2>7. CASE CliEnds
    <3>1. /\ UNCHANGED <<exe, db, snapshot, journal, task>> /\ inflight' \subseteq inflight
          /\ \A i \in SavedIds : i \in Folders => i \in Folders'
      BY <2>7 DEF UpdateInv, CoreInv, CliEnds, Exit, Fault, SavedIds, Goto, Freed,
           Spend, Fails, Folders
    <3>2. CASE ~Maintenance
      BY <3>1, <3>2, IdleDisk DEF UpdateInv, CoreInv
    <3>3. CASE Maintenance
      <4>1. task /\ OnDisk(journal)
        BY <3>3 DEF UpdateInv, CoreInv, DiskFits, PendingSound, Maintenance, OnDisk,
             Terminal, Pending, OldDb
      <4>2. journal.id \in Folders'
        BY <3>1, <3>3, <4>1, SoundSays DEF UpdateInv, CoreInv, Maintenance, Pending,
             SavedIds, OnDisk, Terminal, OldDb
      <4>3. Sound(journal', exe', db', snapshot', Folders', inflight')
        BY <3>1, <4>1, <4>2, SoundFolders, SoundFewer DEF UpdateInv, CoreInv, OnDisk,
             OldDb
      <4>4. Maintenance'
        BY <3>1, <3>3 DEF UpdateInv, CoreInv, Maintenance, Pending, Terminal
      <4> QED
        BY <3>1, <4>1, <4>3, <4>4, PendingDisk DEF UpdateInv, CoreInv
    <3> QED
      BY <3>2, <3>3 DEF UpdateInv, CoreInv
  <2> QED
    BY <1>1, <2>1, <2>2, <2>3, <2>4, <2>5, <2>6, <2>7, <2>8 DEF Cli
<1>2. CASE Logon \/ UserStarts \/ MachineCrashes
  BY <1>2, QuietDisk DEF UpdateInv, CoreInv, DiskFits, disk, Logon, UserStarts,
       MachineCrashes, Goto, locks, Spend, Maintenance, OnDisk, Terminal, Pending, OldDb
<1>3. ASSUME NEW w \in Workers, Worker(w) PROVE DiskFits'
  <2>1. CASE Poll(w) \/ PollTimesOut(w) \/ ReadFinished(w)
    BY <2>1, QuietDisk DEF UpdateInv, CoreInv, DiskFits, disk, Poll, PollTimesOut,
         ReadFinished, Goto, locks, Exit, Terminal, Freed, Maintenance, OnDisk, Pending,
         OldDb
  <2>2. CASE Enter(w) \/ StepFails(w)
    BY <2>2, QuietDisk DEF Enter, StepFails, Goto, Move
  <2>16. CASE AdvanceFails(w)
    BY <2>16, QuietDisk DEF Clean, AdvanceFails, Move
  <2>3. CASE Stopped(w) \/ AskToStop(w) \/ CannotStop(w) \/ LockServer(w)
    BY <2>3, QuietDisk DEF UpdateInv, CoreInv, DiskFits, disk, Stopped, AskToStop,
         CannotStop, LockServer, AfterStop, Move, Goto, locks, FailTo, Freed, Applying,
         Undoing, Maintenance, OnDisk, Terminal, Pending, OldDb
  <2>4. CASE Start(w) \/ Ready(w) \/ NobodyAnswers(w)
    BY <2>4, QuietDisk DEF UpdateInv, CoreInv, DiskFits, disk, Start, Ready,
         NobodyAnswers, Goto, locks, Move, FailTo, Freed, Applying, Undoing,
         Maintenance, OnDisk, Terminal, Pending, OldDb
  <2>5. CASE Prune(w)
    <3>1. pc[w] = "pruning" /\ UNCHANGED journal /\ UNCHANGED <<exe, db>>
      BY <2>5 DEF UpdateInv, CoreInv, Prune, Exit, Goto, Freed
    <3>2. CASE ~Maintenance
      BY <3>1, <3>2, IdleDisk
    <3>3. CASE Maintenance
      <4>1. task /\ OnDisk(journal)
        BY <3>3 DEF UpdateInv, DiskFits, PendingSound
      <4>2. journal.id \in Unfinished /\ journal.id \in Folders
        BY <3>3, <4>1, SoundSays DEF Maintenance, Pending, Unfinished, OnDisk
      <4>3. journal.id \in Folders'
        BY <2>5, <4>2, PruneKeeps
      <4>4. UNCHANGED <<snapshot, task>> /\ inflight' \subseteq inflight
        BY <2>5 DEF Prune, Exit
      <4>5. Sound(journal', exe', db', snapshot', Folders', inflight')
        BY <3>1, <4>1, <4>3, <4>4, SoundFolders, SoundFewer DEF OnDisk
      <4>6. Maintenance'
        BY <3>1, <3>3 DEF Maintenance
      <4> QED
        BY <4>1, <4>4, <4>5, <4>6, PendingDisk
    <3> QED
      BY <3>2, <3>3
  <2>6. CASE Advance(w)
    <3>1. CASE pc[w] \in {"stopping", "snapshotted", "replacing", "validating", "undoing"}
      <4>1. Maintenance
        BY <3>1 DEF UpdateInv, CoreInv, Pends, Applying, Undoing, Terminal, Maintenance,
             Pending
      <4>2. Pending(journal') /\ OnDisk(journal')
        BY <2>6, <3>1, AfterAdvance, AdvanceGoesOn DEF UpdateInv, CoreInv
      <4>3. UNCHANGED <<exe, db, snapshot, Folders, task, inflight>>
        BY <2>6, AfterAdvance DEF UpdateInv, CoreInv
      <4>4. task
        BY <4>1 DEF UpdateInv, CoreInv, DiskFits, PendingSound, Maintenance, OnDisk,
             Terminal, Pending, OldDb
      <4> QED
        BY <4>2, <4>3, <4>4, PendingDisk DEF UpdateInv, CoreInv, OnDisk, Maintenance,
             Pending, OldDb, Terminal
    <3>2. CASE pc[w] \in {"abandon", "unarmed", "committing", "restoring"}
      <4>1. /\ journal' \in Journals /\ journal'.phase \in Terminal
            /\ journal'.phase = "restored" => exe = "old" /\ OldDb(db)
            /\ journal'.phase = "committed" => exe = "new" /\ (db # NoDb => db.schema # "torn")
        BY <2>6, <3>2, AfterAdvance, AdvanceEnds DEF UpdateInv, CoreInv
      <4>2. UNCHANGED <<exe, db>> /\ ~Maintenance'
        BY <2>6, <4>1, AfterAdvance DEF UpdateInv, CoreInv, Maintenance, Pending,
             Terminal
      <4>3. CASE journal'.phase = "restored"
        BY <4>1, <4>2, <4>3, EndedDisk DEF UpdateInv, CoreInv
      <4>4. CASE journal'.phase = "committed"
        BY <4>1, <4>2, <4>4 DEF UpdateInv, CoreInv, DiskFits, PendingSound, NormalSound,
             Outcome, Maintenance, OnDisk, Terminal, Pending, OldDb
      <4> QED
        BY <4>1, <4>3, <4>4 DEF UpdateInv, CoreInv, Terminal
    <3> QED
      BY <2>6, <3>1, <3>2, AfterAdvance DEF UpdateInv, CoreInv, PhaseAt
  <2>7. CASE SaveError(w)
    <3>1. /\ pc[w] \in {"failed", "stuck"} /\ (journal' = mem[w] \/ UNCHANGED journal)
          /\ UNCHANGED <<exe, db, snapshot, work, Folders, task, slips, inflight>>
      BY <2>7 DEF UpdateInv, CoreInv, SaveError, Move, Fault, Goto, Freed, Spend, Fails, Folders
    <3>2. Maintenance /\ task
      BY <3>1 DEF UpdateInv, CoreInv, Pends, DiskFits, PendingSound, Terminal, Applying,
           Undoing, Maintenance, OnDisk, Pending, OldDb
    <3>3. CASE UNCHANGED journal
      BY <3>1, <3>3, QuietDisk DEF UpdateInv, CoreInv, disk
    <3>4. CASE journal' = mem[w] /\ Pending(mem[w]) /\ OnDisk(mem[w])
      BY <3>1, <3>2, <3>4, PendingDisk DEF UpdateInv, CoreInv, OnDisk, Maintenance,
           Pending, OldDb, Terminal
    <3>5. CASE /\ journal' = mem[w] /\ exe = "old" /\ OldDb(db)
               /\ mem[w] = [journal EXCEPT !.phase = "restored", !.armed = FALSE]
      <4>1. journal'.phase = "restored"
        BY <3>2, <3>5 DEF UpdateInv, CoreInv, Maintenance, Pending, JournalFits,
             Journals, Terminal, SnapFits, Phases
      <4> QED
        BY <3>1, <3>5, <4>1, EndedDisk DEF UpdateInv, CoreInv, Maintenance, Pending,
             Terminal
    <3> QED
      BY <3>1, <3>3, <3>4, <3>5 DEF UpdateInv, CoreInv, Remembered, Pending, OnDisk,
           OldDb, Terminal
  <2>8. CASE Snapshot(w)
    <3>1. /\ pc[w] = "snapshot" /\ UNCHANGED <<journal, task, inflight, Folders>>
          /\ UNCHANGED <<exe, db>>
      BY <2>8 DEF UpdateInv, CoreInv, Snapshot, Move, Goto, Freed, Folders
    <3>2. /\ Maintenance /\ task /\ OnDisk(journal) /\ journal.phase = "stopping"
      BY <3>1 DEF UpdateInv, CoreInv, Pends, DiskFits, PendingSound, PhaseOnRecord,
           Applying, Undoing, Terminal, Maintenance, OnDisk, Pending, OldDb
    <3>3. Sound(journal, exe', db', snapshot', Folders, inflight)
      BY <3>1, <3>2, SoundCopied DEF UpdateInv, CoreInv, OnDisk, OldDb
    <3>4. Maintenance'
      BY <3>1, <3>2 DEF UpdateInv, CoreInv, Maintenance, Pending, Terminal
    <3> QED
      BY <3>1, <3>2, <3>3, <3>4, PendingDisk DEF UpdateInv, CoreInv
  <2>9. CASE Retire(w)
    <3>1. /\ pc[w] = "retire" /\ UNCHANGED <<journal, task, inflight, Folders>>
          /\ UNCHANGED <<db, snapshot>>
      BY <2>9 DEF UpdateInv, CoreInv, Retire, Move, Goto, locks, FailTo, Freed,
           Applying, Undoing, Folders
    <3>2. /\ Maintenance /\ task /\ OnDisk(journal) /\ journal.phase = "replacing"
      BY <3>1 DEF UpdateInv, CoreInv, Pends, DiskFits, PendingSound, PhaseOnRecord,
           Applying, Undoing, Terminal, Maintenance, OnDisk, Pending, OldDb
    <3>3. Sound(journal, exe', db', snapshot', Folders, inflight)
      BY <3>1, <3>2, SoundImage DEF UpdateInv, CoreInv, OnDisk, OldDb
    <3>4. Maintenance'
      BY <3>1, <3>2 DEF UpdateInv, CoreInv, Maintenance, Pending, Terminal
    <3> QED
      BY <3>1, <3>2, <3>3, <3>4, PendingDisk DEF UpdateInv, CoreInv
  <2>10. CASE InstallCandidate(w)
    <3>1. /\ pc[w] = "install" /\ UNCHANGED <<journal, task, inflight, Folders>>
          /\ UNCHANGED <<db, snapshot>>
      BY <2>10 DEF UpdateInv, CoreInv, InstallCandidate, Move, Goto, Freed, Folders
    <3>2. /\ Maintenance /\ task /\ OnDisk(journal) /\ journal.phase = "replacing"
      BY <3>1 DEF UpdateInv, CoreInv, Pends, DiskFits, PendingSound, PhaseOnRecord,
           Applying, Undoing, Terminal, Maintenance, OnDisk, Pending, OldDb
    <3>3. Sound(journal, exe', db', snapshot', Folders, inflight)
      BY <3>1, <3>2, SoundImage DEF UpdateInv, CoreInv, OnDisk, OldDb
    <3>4. Maintenance'
      BY <3>1, <3>2 DEF UpdateInv, CoreInv, Maintenance, Pending, Terminal
    <3> QED
      BY <3>1, <3>2, <3>3, <3>4, PendingDisk DEF UpdateInv, CoreInv
  <2>11. CASE RestoreExe(w)
    <3>1. /\ pc[w] = "restoreExe" /\ UNCHANGED <<journal, task, inflight, Folders>>
          /\ UNCHANGED <<db, snapshot>> /\ exe' \in {exe, "old"}
      BY <2>11 DEF UpdateInv, CoreInv, RestoreExe, Move, FailTo, Goto, Freed, Applying,
           Undoing, Folders
    <3>2. /\ Maintenance /\ task /\ OnDisk(journal) /\ journal.phase = "rollingBack"
      BY <3>1 DEF UpdateInv, CoreInv, Pends, DiskFits, PendingSound, PhaseOnRecord,
           Applying, Undoing, Terminal, Maintenance, OnDisk, Pending, OldDb
    <3>3. Sound(journal, exe', db', snapshot', Folders, inflight)
      BY <3>1, <3>2, SoundImage DEF UpdateInv, CoreInv, OnDisk, OldDb
    <3>4. Maintenance'
      BY <3>1, <3>2 DEF UpdateInv, CoreInv, Maintenance, Pending, Terminal
    <3> QED
      BY <3>1, <3>2, <3>3, <3>4, PendingDisk DEF UpdateInv, CoreInv
  <2>12. CASE RestoreDb(w)
    <3>1. /\ pc[w] = "restoreDb" /\ UNCHANGED <<journal, task, inflight, Folders>>
          /\ UNCHANGED <<exe, snapshot>> /\ mem[w] = journal
          /\ db' = IF journal.snap THEN [snapshot EXCEPT !.schema = "torn"]
                   ELSE IF journal.existed THEN db ELSE NoDb
      BY <2>12, HeldIsSaved DEF UpdateInv, CoreInv, RestoreDb, Move, Holding, Undoing,
           AfterRestore, Goto, Freed, Applying, Folders
    <3>2. /\ Maintenance /\ task /\ OnDisk(journal) /\ journal.phase = "rollingBack"
      BY <3>1 DEF UpdateInv, CoreInv, Pends, DiskFits, PendingSound, PhaseOnRecord,
           Applying, Undoing, Terminal, Maintenance, OnDisk, Pending, OldDb
    <3>3. Sound(journal, exe', db', snapshot', Folders, inflight)
      <4>1. CASE journal.snap
        <5>1. snapshot # NoDb /\ snapshot \in Databases
          BY <3>2, <4>1, SoundSays DEF UpdateInv, CoreInv, OnDisk, StoreTypes,
               Databases, OldDb, Images
        <5>2. db' # NoDb /\ db'.writes = snapshot.writes
          BY <3>1, <4>1, <5>1, SchemaIs DEF UpdateInv, CoreInv
        <5> QED
          BY <3>1, <3>2, <4>1, <5>2, SoundTorn, Zenon DEF UpdateInv, CoreInv, OnDisk,
               OldDb
      <4>2. CASE ~journal.snap /\ journal.existed
        BY <3>1, <3>2, <4>2 DEF UpdateInv, CoreInv, OnDisk, OldDb
      <4>3. CASE ~journal.snap /\ ~journal.existed
        BY <3>1, <3>2, <4>3, SoundEmptied DEF UpdateInv, CoreInv, OnDisk, OldDb
      <4> QED
        BY <4>1, <4>2, <4>3 DEF UpdateInv, CoreInv
    <3>4. Maintenance'
      BY <3>1, <3>2 DEF UpdateInv, CoreInv, Maintenance, Pending, Terminal
    <3> QED
      BY <3>1, <3>2, <3>3, <3>4, PendingDisk DEF UpdateInv, CoreInv
  <2>13. CASE PutDb(w)
    <3>1. /\ pc[w] = "putDb" /\ UNCHANGED <<journal, task, inflight, Folders>>
          /\ UNCHANGED <<exe, snapshot>> /\ db' = snapshot
      BY <2>13 DEF UpdateInv, CoreInv, PutDb, Move, AfterRestore, Goto, Freed, Folders
    <3>2. /\ Maintenance /\ task /\ OnDisk(journal) /\ journal.phase = "rollingBack"
      BY <3>1 DEF UpdateInv, CoreInv, Pends, DiskFits, PendingSound, PhaseOnRecord,
           Applying, Undoing, Terminal, Maintenance, OnDisk, Pending, OldDb
    <3>3. Sound(journal, exe', db', snapshot', Folders, inflight)
      <4>1. journal.snap
        BY <3>1 DEF UpdateInv, CoreInv, DbRestored, OldDb
      <4>2. snapshot # NoDb
        BY <3>2, <4>1, SoundSays DEF UpdateInv, CoreInv, OnDisk, OldDb
      <4> QED
        BY <3>1, <3>2, <4>1, <4>2, SoundTorn DEF UpdateInv, CoreInv, OnDisk, OldDb
    <3>4. Maintenance'
      BY <3>1, <3>2 DEF UpdateInv, CoreInv, Maintenance, Pending, Terminal
    <3> QED
      BY <3>1, <3>2, <3>3, <3>4, PendingDisk DEF UpdateInv, CoreInv
  <2>14. CASE Cleanup(w)
    <3>1. pc[w] = "cleanup" /\ UNCHANGED journal /\ UNCHANGED <<exe, db>>
      BY <2>14 DEF UpdateInv, CoreInv, Cleanup, Move, Goto, Freed
    <3>2. ~Maintenance /\ journal # NoJournal
      BY <3>1 DEF UpdateInv, CoreInv, Pends, Maintenance, Pending, Terminal, Applying,
           Undoing
    <3> QED
      BY <3>1, <3>2, IdleDisk DEF UpdateInv, CoreInv
  <2>15. CASE SaveGone(w)
    <3>1. pc[w] = "saveGone" /\ journal' = mem[w] /\ UNCHANGED <<exe, db>>
      BY <2>15 DEF UpdateInv, CoreInv, SaveGone, Move, Goto, Freed, Fails
    <3>2. ~Maintenance /\ journal # NoJournal
      BY <3>1 DEF UpdateInv, CoreInv, Pends, Maintenance, Pending, Terminal, Applying,
           Undoing
    <3> QED
      BY <3>1, <3>2, IdleDisk DEF UpdateInv, CoreInv, Remembered, Processes, Workers,
           Servers, Pending, OnDisk, OldDb, Terminal
  <2> QED
    BY <1>3, <2>1, <2>2, <2>3, <2>4, <2>5, <2>6, <2>7, <2>8, <2>9, <2>10, <2>11, <2>12,
       <2>13, <2>14, <2>15, <2>16 DEF Worker
<1>4. ASSUME NEW s \in Servers, Server(s) PROVE DiskFits'
  <2>1. CASE Guard(s) \/ TakeServerLock(s) \/ Serve(s) \/ Finish(s) \/ StartupFails(s)
    BY <2>1, QuietDisk DEF UpdateInv, CoreInv, DiskFits, disk, Guard, TakeServerLock,
         Serve, Finish, StartupFails, Maintenance, Exempt, Goto, locks, Exit, Freed,
         Fault, Pending, Spend, OnDisk, Terminal, OldDb
  <2>2. CASE Open(s)
    <3>1. CASE Maintenance
      <4>1. task /\ OnDisk(journal) /\ journal \in Journals
        BY <3>1 DEF UpdateInv, CoreInv, DiskFits, PendingSound, Maintenance, Pending,
             JournalFits, OnDisk, Terminal, Journals, SnapFits, Phases, OldDb
      <4>2. Sound(journal, exe', db', snapshot', Folders', inflight')
        BY <2>2, <4>1, OpenKeeps, Zenon DEF UpdateInv, CoreInv
      <4>3. Maintenance' /\ task' /\ UNCHANGED journal
        BY <2>2, <3>1, <4>1, OpenKeeps, Zenon DEF UpdateInv, CoreInv, Maintenance,
             Pending, Terminal
      <4> QED
        BY <4>2, <4>3, PendingDisk DEF UpdateInv, CoreInv
    <3>2. CASE ~Maintenance
      <4>1. /\ UNCHANGED <<exe, journal>> /\ (exe = "old" /\ OldDb(db) => OldDb(db'))
            /\ db' # NoDb /\ db'.schema = "torn" => db # NoDb /\ db.schema = "torn"
        BY <2>2, OpenKeeps DEF UpdateInv, CoreInv
      <4> QED
        BY <3>2, <4>1 DEF UpdateInv, CoreInv, DiskFits, PendingSound, NormalSound,
             Outcome, Maintenance, OldDb, OnDisk, Terminal, Pending
    <3> QED
      BY <3>1, <3>2 DEF UpdateInv, CoreInv
  <2>3. CASE Admit(s)
    <3>1. ~Maintenance /\ UNCHANGED <<exe, db, journal>>
      BY <2>3 DEF UpdateInv, CoreInv, Admit, disk, Maintenance, locks, Pending, Terminal
    <3> QED
      BY <3>1, IdleDisk DEF UpdateInv, CoreInv
  <2>4. CASE Land(s)
    <3>1. CASE Maintenance
      <4>1. task /\ OnDisk(journal)
        BY <3>1 DEF UpdateInv, CoreInv, DiskFits, PendingSound, Maintenance, OnDisk,
             Terminal, Pending, OldDb
      <4>2. Sound(journal, exe', db', snapshot', Folders', inflight')
        BY <2>4, <4>1, LandKeeps, Zenon DEF UpdateInv, CoreInv
      <4>3. Maintenance' /\ task' /\ UNCHANGED journal
        BY <2>4, <3>1, <4>1, LandKeeps, Zenon DEF UpdateInv, CoreInv, Maintenance,
             Pending, Terminal
      <4> QED
        BY <4>2, <4>3, PendingDisk DEF UpdateInv, CoreInv
    <3>2. CASE ~Maintenance
      <4>1. UNCHANGED <<exe, journal>> /\ db # NoDb /\ db'.schema = db.schema
        BY <2>4, LandKeeps DEF UpdateInv, CoreInv
      <4> QED
        BY <3>2, <4>1 DEF UpdateInv, CoreInv, DiskFits, PendingSound, NormalSound,
             Outcome, Maintenance, OnDisk, Terminal, Pending, OldDb
    <3> QED
      BY <3>1, <3>2 DEF UpdateInv, CoreInv
  <2> QED
    BY <1>4, <2>1, <2>2, <2>3, <2>4 DEF Server
<1>5. ASSUME NEW p \in Processes, Kill(p) PROVE DiskFits'
  BY <1>5, QuietDisk DEF UpdateInv, CoreInv, DiskFits, disk, Kill, Spend, Exit, Goto,
       Freed, Maintenance, OnDisk, Terminal, Pending, OldDb, Folders
<1> QED
  BY <1>1, <1>2, <1>3, <1>4, <1>5 DEF Next

LEMMA KeepsCliSound ==
  ASSUME UpdateInv, Next, Clean'
  PROVE  CliSound'
<1>1. CASE Cli
  <2>1. CASE BeginInstall \/ RefuseInstall \/ TidyFails \/ RegisterRefused
    BY <2>1 DEF UpdateInv, CoreInv, CliSound, Places, Processes, BeginInstall,
         RefuseInstall, TidyFails, RegisterRefused, Goto, Exit
  <2>6. CASE Tidy
    <3>1. pc'["cli"] = "tidied" /\ ~Maintenance'
      BY <2>6, TidyIs DEF UpdateInv, CoreInv, Places, Processes, Tidy, Goto
    <3> QED
      BY <3>1 DEF CliSound
  <2>2. CASE Prepare
    <3>1. /\ pc["cli"] = "tidied" /\ ~Maintenance /\ UNCHANGED <<db, journal>>
          /\ pc' = [pc EXCEPT !["cli"] = "prepared"]
          /\ serverLock \in Servers => pc[serverLock] = "up"
          /\ serverLock' = IF serverLock = "free" THEN "cli" ELSE serverLock
          /\ mem' = [mem EXCEPT !["cli"] =
               [id |-> MaxUpdates - left.updates, phase |-> "prepared", armed |-> FALSE,
                running |-> serverLock # "free", existed |-> db # NoDb,
                snap |-> FALSE, gone |-> FALSE]]
          /\ work' = work \cup {MaxUpdates - left.updates} /\ UNCHANGED slips
      BY <2>2 DEF UpdateInv, CliSound, Prepare, CanPrepare, Goto
    <3>6. MaxUpdates - left.updates \in Folders'
      <4>1. MaxUpdates - left.updates \in 1..MaxUpdates
        BY <3>1, BoundsAssumption DEF UpdateInv, CoreInv, CountsFit
      <4> QED
        BY <3>1, <4>1 DEF Folders
    <3>2. /\ mem'["cli"] =
               [id |-> MaxUpdates - left.updates, phase |-> "prepared", armed |-> FALSE,
                running |-> serverLock # "free", existed |-> db # NoDb,
                snap |-> FALSE, gone |-> FALSE]
          /\ pc'["cli"] = "prepared"
      BY <3>1 DEF UpdateInv, CoreInv, MemoryTypes, Places, Processes, Journals, Doing,
           WorkerPlaces, CliPlaces, ServerPlaces, Phases, Applying, Undoing
    <3>3. /\ mem'["cli"] \in Journals /\ mem'["cli"].phase = "prepared" /\ ~mem'["cli"].armed
          /\ ~mem'["cli"].snap /\ mem'["cli"].id \in Folders' /\ mem'["cli"].existed = (db # NoDb)
      <4>1. PICK r \in BOOLEAN, e \in BOOLEAN : r = (serverLock # "free") /\ e = (db # NoDb)
        OBVIOUS
      <4>2. PICK j : j = mem'["cli"]
        OBVIOUS
      <4>3. j = [id |-> MaxUpdates - left.updates, phase |-> "prepared",
                 armed |-> FALSE, running |-> r, existed |-> e, snap |-> FALSE, gone |-> FALSE]
        BY <3>2, <4>1, <4>2 DEF UpdateInv, CoreInv
      <4>4. CountsFit /\ pc["cli"] # "off"
        BY <3>1 DEF UpdateInv, CoreInv
      <4>5. /\ j \in Journals /\ j.id = MaxUpdates - left.updates
            /\ j.phase = "prepared" /\ j.armed = FALSE /\ j.existed = e /\ j.snap = FALSE
        BY <4>1, <4>3, <4>4, Preparation
      <4>6. j.id \in Folders'
        BY <4>5, <3>6
      <4> QED
        BY <4>1, <4>2, <4>5, <4>6
    <3>4. ~Maintenance'
      BY <3>1 DEF Maintenance
    <3>5. db = NoDb => serverLock' = "cli"
      <4>1. CASE serverLock \in Servers
        BY <3>1, <4>1 DEF UpdateInv, CoreInv, WritesFit
      <4>2. CASE serverLock \in Workers
        BY <3>1, <4>2 DEF UpdateInv, LockFits, CliAlone, Preparing, Alone, Doing,
             Applying, Undoing
      <4> QED
        BY <3>1, <4>1, <4>2 DEF UpdateInv, CoreInv, ServerHeld, Processes, Open4, Alone
    <3> QED
      BY <3>1, <3>2, <3>3, <3>4, <3>5, Zenon DEF UpdateInv, CoreInv, CliSound,
           Maintenance, Journals, Pending, Phases, Terminal
  <2>3. CASE SaveUnarmed
    <3>1. /\ pc["cli"] = "prepared" /\ journal' = mem["cli"] /\ pc' = [pc EXCEPT !["cli"] = "saved"]
          /\ UNCHANGED <<db, Folders, mem, serverLock>>
      BY <2>3 DEF UpdateInv, CoreInv, SaveUnarmed, Goto, locks, Folders
    <3>2. ~Maintenance'
      BY <3>1, CliReady DEF UpdateInv, CoreInv, Maintenance, Pending, Terminal
    <3>3. pc'["cli"] = "saved"
      BY <3>1 DEF UpdateInv, CoreInv, Places, Processes, WorkerPlaces, CliPlaces,
           ServerPlaces, Applying, Undoing
    <3> QED
      BY <3>1, <3>2, <3>3 DEF UpdateInv, CoreInv, CliSound, Maintenance, Journals,
           Pending, Phases, Terminal
  <2>4. CASE Register
    <3>1. /\ pc["cli"] = "saved" /\ UNCHANGED <<db, Folders, journal, mem, serverLock>>
          /\ \/ task' = TRUE /\ pc' = [pc EXCEPT !["cli"] = "registered"]
             \/ pc' = [pc EXCEPT !["cli"] = "refused"]
      BY <2>4 DEF UpdateInv, CoreInv, Register, Goto, locks, Fault, Spend, Fails, Folders
    <3>2. pc'["cli"] = "refused" \/ (pc'["cli"] = "registered" /\ task')
      BY <3>1 DEF UpdateInv, CoreInv, Places, Processes, WorkerPlaces, CliPlaces,
           ServerPlaces, Applying, Undoing
    <3> QED
      BY <3>1, <3>2 DEF UpdateInv, CoreInv, CliSound, Maintenance, Journals, Pending,
           Phases, Terminal
  <2>5. CASE Arm \/ SpawnWorker \/ CliEnds
    BY <2>5 DEF UpdateInv, CoreInv, CliSound, Places, Processes, Workers, Servers, Arm,
         SpawnWorker, CliEnds, Freed, Goto, disk, Fault, Exit, SavedIds, Maintenance,
         Journals, WorkerPlaces, CliPlaces, ServerPlaces, Spend, Pending, Phases,
         Applying, Undoing, Terminal, Fails
  <2> QED
    BY <1>1, <2>1, <2>2, <2>3, <2>4, <2>5, <2>6 DEF Cli
<1>2. CASE Logon \/ UserStarts
  BY <1>2, QuietCli DEF UpdateInv, CoreInv, CliSound, Places, Processes, Workers,
       Servers, Logon, UserStarts, Goto, disk, locks, Spend, Maintenance, Journals,
       WorkerPlaces, CliPlaces, ServerPlaces, Pending, Phases, Applying, Undoing,
       Terminal
<1>3. CASE MachineCrashes
  BY <1>3 DEF UpdateInv, CoreInv, CliSound, Places, Processes, Workers, Servers,
       MachineCrashes, Spend, disk, Maintenance, Journals, WorkerPlaces, CliPlaces,
       ServerPlaces, Pending, Phases, Applying, Undoing, Terminal
<1>4. ASSUME NEW w \in Workers, Worker(w) PROVE CliSound'
  <2>1. CASE Poll(w)
    BY <2>1, QuietCli DEF UpdateInv, CoreInv, CliSound, Places, Poll, Goto, disk, locks,
         Maintenance, Journals, WorkerPlaces, CliPlaces, ServerPlaces, Pending, Phases,
         Applying, Undoing, Terminal
  <2>2. CASE PollTimesOut(w)
    BY <2>2, QuietCli DEF UpdateInv, CoreInv, CliSound, Places, PollTimesOut, Exit,
         disk, Maintenance, Journals, WorkerPlaces, CliPlaces, ServerPlaces, Goto,
         Freed, Pending, Phases, Applying, Undoing, Terminal
  <2>3. CASE ReadFinished(w) \/ Enter(w)
    <3>1. /\ UNCHANGED <<db, work, journal, task, slips>> /\ w # "cli"
          /\ \E place : pc' = [pc EXCEPT ![w] = place]
          /\ UNCHANGED mem \/ \E j : mem' = [mem EXCEPT ![w] = j]
          /\ serverLock' \in {serverLock, Freed(serverLock, w)}
      BY <2>3 DEF ReadFinished, Enter, Exit, Goto, disk, locks, Workers
    <3> QED
      BY <3>1, QuietCli DEF UpdateInv, CoreInv, Places, MemoryTypes, Processes, Freed
  <2>8. CASE Prune(w)
    <3>1. /\ UNCHANGED <<db, journal, task>> /\ pc'["cli"] = pc["cli"]
          /\ mem'["cli"] = mem["cli"] /\ (serverLock = "cli" => serverLock' = "cli")
      BY <2>8 DEF UpdateInv, CoreInv, Places, MemoryTypes, Processes, Workers, Prune,
         Exit, Goto, Freed
    <3>2. mem["cli"] \in Journals /\ mem["cli"].id \in Folders => mem["cli"].id \in Folders'
      BY <2>8, PruneKeeps, JournalIs DEF StagedIds
    <3> QED
      BY <3>1, <3>2 DEF UpdateInv, CliSound, Maintenance
  <2>4. CASE Advance(w) \/ AdvanceFails(w) \/ SaveError(w) \/ StepFails(w)
    BY <2>4, IdleCli DEF UpdateInv, CoreInv, CliSound, Places, Doing, Processes, Workers,
         Servers, Advance, AdvanceFails, SaveError, StepFails, PhaseAt, Move, AfterSave,
         Fault, FailTo, disk, Applying, Undoing, Maintenance, Journals, WorkerPlaces,
         CliPlaces, ServerPlaces, Terminal, Goto, Freed, Spend, Pending, Phases, Fails
  <2>5. CASE Stopped(w) \/ AskToStop(w) \/ CannotStop(w) \/ LockServer(w) \/ Start(w)
             \/ Ready(w) \/ NobodyAnswers(w)
    BY <2>5, IdleCli DEF UpdateInv, CoreInv, CliSound, Places, Doing, Processes, Workers,
         Servers, Stopped, AskToStop, CannotStop, LockServer, Start, Ready,
         NobodyAnswers, AfterStop, Move, disk, Goto, locks, FailTo, Maintenance,
         Journals, WorkerPlaces, CliPlaces, ServerPlaces, Freed, Applying, Undoing,
         Pending, Phases, Terminal
  <2>6. CASE Snapshot(w) \/ Retire(w) \/ InstallCandidate(w) \/ RestoreExe(w)
             \/ RestoreDb(w) \/ PutDb(w)
    BY <2>6, IdleCli DEF UpdateInv, CoreInv, CliSound, Places, Doing, Processes, Workers,
         Servers, Snapshot, Retire, InstallCandidate, RestoreExe, RestoreDb, PutDb,
         Move, Goto, locks, FailTo, AfterRestore, Maintenance, Journals, WorkerPlaces,
         CliPlaces, ServerPlaces, Freed, Applying, Undoing, Pending, Phases, Terminal
  <2>7. CASE Cleanup(w) \/ SaveGone(w)
    BY <2>7, IdleCli DEF UpdateInv, CoreInv, CliSound, Places, Doing, Processes, Workers,
         Servers, Cleanup, SaveGone, Move, Maintenance, Journals, WorkerPlaces,
         CliPlaces, ServerPlaces, Goto, Freed, Pending, Phases, Applying, Undoing,
         Terminal, Fails
  <2> QED
    BY <1>4, <2>1, <2>2, <2>3, <2>4, <2>5, <2>6, <2>7, <2>8 DEF Worker
<1>5. ASSUME NEW s \in Servers, Server(s) PROVE CliSound'
  <2>1. CASE Guard(s)
    <3>1. UNCHANGED <<db, work, journal, task, slips>> /\ s # "cli"
      BY <2>1 DEF UpdateInv, CoreInv, Guard, disk, Servers, Maintenance, Exempt, Goto,
           locks, Exit, Pending, Freed, Terminal, Folders
    <3>2. serverLock = "cli" => serverLock' = "cli"
      BY <2>1, <3>1 DEF UpdateInv, CoreInv, Guard, Exit, Freed, locks, Maintenance,
           Exempt, Goto, disk, Pending, Terminal
    <3>3. pc'["cli"] = pc["cli"] /\ mem'["cli"] = mem["cli"]
      <4>1. /\ \E place : pc' = [pc EXCEPT ![s] = place]
            /\ UNCHANGED mem \/ mem' = [mem EXCEPT ![s] = NoJournal]
        BY <2>1 DEF UpdateInv, CoreInv, Guard, Exit, Goto, Maintenance, Exempt, locks,
             disk, Freed, Pending, Terminal
      <4> QED
        BY <3>1, <4>1 DEF UpdateInv, CoreInv, Places, MemoryTypes, Processes,
             WorkerPlaces, CliPlaces, ServerPlaces, Journals, Doing, Applying, Undoing,
             Phases
    <3> QED
      BY <3>1, <3>2, <3>3, QuietCli DEF UpdateInv, CoreInv
  <2>2. CASE TakeServerLock(s)
    <3>1. UNCHANGED <<db, work, journal, task, slips>> /\ s # "cli"
      BY <2>2 DEF UpdateInv, CoreInv, TakeServerLock, disk, Servers, Goto, Exit, Freed, Folders
    <3>2. serverLock = "cli" => serverLock' = "cli"
      BY <2>2, <3>1 DEF UpdateInv, CoreInv, TakeServerLock, Exit, Freed, locks, Goto,
           disk
    <3>3. pc'["cli"] = pc["cli"] /\ mem'["cli"] = mem["cli"]
      <4>1. /\ \E place : pc' = [pc EXCEPT ![s] = place]
            /\ UNCHANGED mem \/ mem' = [mem EXCEPT ![s] = NoJournal]
        BY <2>2 DEF UpdateInv, CoreInv, TakeServerLock, Exit, Goto, disk, Freed
      <4> QED
        BY <3>1, <4>1 DEF UpdateInv, CoreInv, Places, MemoryTypes, Processes,
             WorkerPlaces, CliPlaces, ServerPlaces, Journals, Doing, Applying, Undoing,
             Phases
    <3> QED
      BY <3>1, <3>2, <3>3, QuietCli DEF UpdateInv, CoreInv
  <2>3. CASE Serve(s) \/ Admit(s)
    BY <2>3, QuietCli DEF UpdateInv, CoreInv, CliSound, Places, Processes, Workers,
         Servers, Serve, Admit, Freed, Goto, disk, Maintenance, locks, Journals,
         WorkerPlaces, CliPlaces, ServerPlaces, Pending, Phases, Applying, Undoing,
         Terminal
  <2>4. CASE Finish(s)
    BY <2>4, QuietCli DEF UpdateInv, CoreInv, CliSound, Places, Finish, Exit, disk,
         Maintenance, Journals, WorkerPlaces, CliPlaces, ServerPlaces, Goto, Freed,
         Pending, Phases, Applying, Undoing, Terminal
  <2>5. CASE StartupFails(s)
    BY <2>5, QuietCli DEF UpdateInv, CoreInv, CliSound, Places, StartupFails, Fault,
         Exit, disk, Maintenance, Journals, WorkerPlaces, CliPlaces, ServerPlaces,
         Spend, Goto, Freed, Pending, Phases, Applying, Undoing, Terminal
  <2>6. CASE Open(s)
    <3>1. /\ pc[s] = "locked" /\ UNCHANGED <<Folders, journal, task>>
          /\ pc'["cli"] = pc["cli"] /\ mem'["cli"] = mem["cli"]
          /\ (db # NoDb => db' # NoDb) /\ s # "cli" /\ serverLock = s
      <4>1. /\ pc[s] = "locked" /\ UNCHANGED <<Folders, journal, task>> /\ s # "cli"
            /\ pc'["cli"] = pc["cli"] /\ mem'["cli"] = mem["cli"]
        BY <2>6 DEF UpdateInv, CoreInv, Open, Exit, Goto, Places, MemoryTypes,
             Processes, Servers, locks, Freed, WorkerPlaces, CliPlaces, ServerPlaces,
             Journals, Doing, Applying, Undoing, Phases, Folders
      <4>2. serverLock = s
        BY <4>1 DEF UpdateInv, CoreInv, ServerHeld, Open4, Alone
      <4>3. db # NoDb => db' # NoDb
        BY <2>6, SchemaIs DEF UpdateInv, CoreInv, Open, ProcessTypes, StoreTypes, Exit,
             Goto, locks, Images, Databases, Freed
      <4> QED
        BY <4>1, <4>2, <4>3 DEF UpdateInv, CoreInv
    <3> QED
      BY <3>1 DEF UpdateInv, CoreInv, CliSound, Maintenance, Journals, Pending, Phases,
           Terminal
  <2>7. CASE Land(s)
    <3>1. /\ UNCHANGED <<Folders, journal, task, pc, mem, serverLock>> /\ db # NoDb /\ db' # NoDb
      BY <2>7, LandKeeps DEF UpdateInv, CoreInv, Land, locks, Folders
    <3> QED
      BY <3>1 DEF UpdateInv, CoreInv, CliSound, Maintenance, Journals, Pending, Phases,
           Terminal
  <2> QED
    BY <1>5, <2>1, <2>2, <2>3, <2>4, <2>5, <2>6, <2>7 DEF Server
<1>6. ASSUME NEW p \in Processes, Kill(p) PROVE CliSound'
  BY <1>6, QuietCli DEF UpdateInv, CoreInv, CliSound, Places, MemoryTypes, Kill, Spend,
       Exit, disk, Maintenance, Journals, WorkerPlaces, CliPlaces, ServerPlaces, Doing,
       Goto, Freed, Pending, Phases, Applying, Undoing, Terminal
<1> QED
  BY <1>1, <1>2, <1>3, <1>4, <1>5, <1>6 DEF Next

LEMMA KeepsRemembered ==
  ASSUME UpdateInv, Next, Clean'
  PROVE  Remembered'
<1>1. CASE Cli
  <2>1. CASE BeginInstall \/ RefuseInstall \/ SpawnWorker
    BY <2>1, QuietMemory DEF UpdateInv, CoreInv, Remembered, Places, MemoryTypes, disk,
         Processes, Workers, Servers, BeginInstall, RefuseInstall, SpawnWorker, Spend,
         Goto, CanPrepare, Exit, Pending, OnDisk, OldDb, WorkerPlaces, CliPlaces,
         ServerPlaces, Journals, Doing, Maintenance, Freed, Terminal, Applying, Undoing,
         Phases
  <2>2. CASE Tidy \/ TidyFails \/ Prepare \/ SaveUnarmed \/ Register
    BY <2>2, IdleMemory DEF UpdateInv, CoreInv, Places, Preparing, Processes, Workers,
         Tidy, TidyFails, Prepare, SaveUnarmed, Register, Goto, Exit
  <2>3. CASE RegisterRefused \/ Arm
    BY <2>3, IdleMemory DEF UpdateInv, CoreInv, Remembered, Places, Preparing,
         Processes, Workers, Servers, RegisterRefused, Arm, Exit, Freed, Goto, Pending,
         OnDisk, OldDb, WorkerPlaces, CliPlaces, ServerPlaces, Terminal, Applying,
         Undoing
  <2>4. CASE CliEnds
    <3>1. /\ UNCHANGED <<exe, db, snapshot, journal>> /\ inflight' \subseteq inflight
          /\ \A i \in SavedIds : i \in Folders => i \in Folders'
          /\ \A w \in Workers : pc'[w] = pc[w] /\ mem'[w] = mem[w]
      BY <2>4 DEF UpdateInv, CoreInv, CliEnds, Exit, Goto, Places, MemoryTypes,
           Processes, Workers, Fault, SavedIds, Freed, WorkerPlaces, CliPlaces,
           ServerPlaces, Journals, Doing, Spend, Applying, Undoing, Phases, Fails, Folders
    <3>2. ASSUME NEW w \in Workers, pc[w] \in {"failed", "stuck"}, OnDisk(mem[w])
          PROVE  Sound(mem[w], exe', db', snapshot', Folders', inflight')
      <4>1. journal # NoJournal /\ mem[w].id = journal.id
        BY <3>2 DEF UpdateInv, CoreInv, Pends, Remembered, Maintenance, Pending,
             Terminal, Applying, Undoing, OnDisk, OldDb
      <4>2. mem[w].id \in Folders'
        BY <3>1, <3>2, <4>1, SoundSays DEF UpdateInv, CoreInv, OnDisk, SavedIds, OldDb
      <4> QED
        BY <3>1, <3>2, <4>2, SoundFolders, SoundFewer DEF UpdateInv, CoreInv, OnDisk,
             OldDb
    <3> QED
      BY <3>1, <3>2 DEF UpdateInv, CoreInv, Remembered, OnDisk, Processes, Workers,
           Servers, Pending, OldDb, Terminal
  <2> QED
    BY <1>1, <2>1, <2>2, <2>3, <2>4 DEF Cli
<1>2. CASE Logon \/ UserStarts
  BY <1>2, QuietMemory DEF UpdateInv, CoreInv, Remembered, Places, MemoryTypes, disk,
       Processes, Workers, Servers, Logon, UserStarts, Goto, locks, Spend, Pending,
       OnDisk, OldDb, WorkerPlaces, CliPlaces, ServerPlaces, Journals, Doing, Terminal,
       Applying, Undoing, Phases
<1>3. CASE MachineCrashes
  BY <1>3 DEF UpdateInv, CoreInv, Remembered, Places, Processes, Workers, Servers,
       MachineCrashes, Spend, disk, Pending, OnDisk, OldDb, WorkerPlaces, CliPlaces,
       ServerPlaces, Terminal, Applying, Undoing
<1>4. ASSUME NEW w \in Workers, Worker(w) PROVE Remembered'
  <2>1. CASE Poll(w) \/ PollTimesOut(w) \/ ReadFinished(w)
    BY <2>1, QuietMemory DEF UpdateInv, CoreInv, Remembered, Places, MemoryTypes, disk,
         Processes, Workers, Servers, Poll, PollTimesOut, ReadFinished, Goto, locks,
         Exit, Terminal, Pending, OnDisk, OldDb, WorkerPlaces, CliPlaces, ServerPlaces,
         Journals, Doing, Freed, Applying, Undoing, Phases
  <2>2. CASE Enter(w)
    <3>1. /\ pc[w] = "polled" /\ UNCHANGED <<exe, db, snapshot, Folders, journal, inflight>>
          /\ \/ pc' = [pc EXCEPT ![w] = "leaving"] /\ UNCHANGED mem
             \/ /\ journal # NoJournal /\ mem' = [mem EXCEPT ![w] = journal]
                /\ \E valid \in BOOLEAN : pc' = [pc EXCEPT ![w] = Route(w, journal, valid)]
      BY <2>2 DEF UpdateInv, CoreInv, Enter, Goto, disk, Fault, Route, Spend, Terminal, Folders
    <3>2. /\ \/ pc'[w] = "leaving"
             \/ /\ journal # NoJournal /\ mem'[w] = journal
                /\ \E valid \in BOOLEAN : pc'[w] = Route(w, journal, valid)
          /\ \A v \in Workers : v # w => pc'[v] = pc[v] /\ mem'[v] = mem[v]
      BY <3>1 DEF UpdateInv, CoreInv, Places, MemoryTypes, Processes, Workers, Servers,
           WorkerPlaces, CliPlaces, ServerPlaces, Journals, Doing, Applying, Undoing,
           Phases
    <3>3. /\ pc'[w] \notin {"snapshotted", "stuck", "saveGone"}
          /\ pc'[w] = "failed" => mem'[w] = journal /\ Maintenance
      BY <3>2 DEF UpdateInv, CoreInv, Route, Maintenance, Pending, Terminal
    <3>4. pc'[w] = "failed" => Pending(mem'[w]) /\ OnDisk(mem'[w])
      BY <3>3 DEF UpdateInv, CoreInv, DiskFits, PendingSound, Maintenance, OnDisk,
           Pending, Terminal, OldDb
    <3> QED
      BY <3>1, <3>2, <3>3, <3>4 DEF UpdateInv, CoreInv, Remembered, OnDisk, Processes,
           Workers, Servers, Pending, OldDb, Terminal
  <2>3. CASE Prune(w)
    <3>1. /\ UNCHANGED <<exe, db, snapshot, journal>> /\ inflight' \subseteq inflight
          /\ \A v \in Workers : (pc'[v] = pc[v] /\ mem'[v] = mem[v]) \/ pc'[v] = "off"
      BY <2>3 DEF UpdateInv, CoreInv, Prune, Exit, Goto, Places, MemoryTypes, Processes,
           Workers
    <3>2. ASSUME NEW v \in Workers, pc[v] \in {"failed", "stuck"}, OnDisk(mem[v])
          PROVE  Sound(mem[v], exe', db', snapshot', Folders', inflight')
      <4>1. journal.id \in Unfinished /\ mem[v].id = journal.id
        BY <3>2 DEF UpdateInv, Pends, Remembered, Maintenance, Pending, Unfinished
      <4>2. mem[v].id \in Folders
        BY <3>2, SoundSays DEF OnDisk
      <4>3. mem[v].id \in Folders'
        BY <2>3, <4>1, <4>2, PruneKeeps
      <4> QED
        BY <3>1, <3>2, <4>3, SoundFolders, SoundFewer DEF OnDisk
    <3> QED
      BY <3>1, <3>2 DEF UpdateInv, Remembered, OnDisk
  <2>4. CASE Advance(w)
    <3>1. pc'[w] \notin {"snapshotted", "failed", "stuck", "saveGone"}
      BY <2>4, AfterAdvance DEF UpdateInv, CoreInv, PhaseAt, AfterSave
    <3> QED
      BY <2>4, <3>1, AfterAdvance, OwnMemory DEF UpdateInv, CoreInv
  <2>5. CASE AdvanceFails(w)
    <3>1. /\ pc[w] \in DOMAIN PhaseAt /\ pc[w] # "committing"
          /\ pc' = [pc EXCEPT ![w] = FailTo(pc[w])]
          /\ mem' = [mem EXCEPT ![w] = Advanced(mem[w], PhaseAt[pc[w]])]
          /\ UNCHANGED <<exe, db, snapshot, Folders, journal, inflight>>
      BY <2>5 DEF UpdateInv, CoreInv, AdvanceFails, Fault, Move, Goto, disk, Clean,
           PhaseAt, FailTo, Spend, Freed, Terminal, Applying, Undoing, Fails, Folders
    <3>2. /\ pc'[w] = FailTo(pc[w]) /\ mem'[w] = Advanced(mem[w], PhaseAt[pc[w]])
          /\ \A v \in Workers : v # w => pc'[v] = pc[v]
      BY <3>1 DEF UpdateInv, CoreInv, Places, MemoryTypes, Processes, WorkerPlaces,
           CliPlaces, ServerPlaces, Journals, Doing, Applying, Undoing, Phases
    <3>3. pc[w] \in Doing
      BY <3>1 DEF UpdateInv, CoreInv, PhaseAt, Doing, Applying, Undoing
    <3>4. \A v \in Workers : v # w => pc'[v] \notin {"snapshotted", "failed", "stuck", "saveGone"}
      BY <3>2, <3>3, Exclusion DEF UpdateInv, CoreInv, Doing, Applying, Undoing
    <3>5. CASE pc[w] \in {"stopping", "snapshotted", "replacing", "validating", "undoing"}
      <4>1. Pending(mem'[w]) /\ OnDisk(mem'[w]) /\ mem'[w].id = journal.id
        BY <3>2, <3>5, AdvanceGoesOn DEF UpdateInv, CoreInv
      <4>2. pc'[w] \in {"failed", "stuck"}
        BY <3>2, <3>5 DEF UpdateInv, CoreInv, FailTo, Applying, Undoing
      <4> QED
        BY <3>1, <3>4, <4>1, <4>2 DEF UpdateInv, CoreInv, Remembered, OnDisk, Pending,
             OldDb, Terminal
    <3>6. CASE pc[w] = "restoring"
      <4>1. /\ mem'[w].id = journal.id /\ mem'[w] = [journal EXCEPT !.phase = "restored", !.armed = FALSE]
            /\ mem'[w].phase = "restored"
        BY <3>2, <3>6, AdvanceEnds, Zenon DEF UpdateInv, CoreInv, JournalFits, Pends,
             Maintenance, Pending, Undoing, Journals, SnapFits, Terminal, Applying,
             Phases
      <4>2. exe = "old" /\ OldDb(db)
        BY <3>6 DEF UpdateInv, CoreInv, ExeFits, DbRestored, Images, OldDb
      <4>3. pc'[w] = "stuck"
        BY <3>2, <3>6 DEF UpdateInv, CoreInv, FailTo, Applying, Undoing
      <4> QED
        BY <3>1, <3>4, <4>1, <4>2, <4>3 DEF UpdateInv, CoreInv, Remembered, Pending,
             OnDisk, OldDb, Terminal
    <3>7. CASE pc[w] \in {"abandon", "unarmed"}
      <4>1. pc'[w] = "leaving"
        BY <3>2, <3>7 DEF UpdateInv, CoreInv, FailTo, Applying, Undoing
      <4> QED
        BY <3>2, <3>3, <4>1, OwnMemory DEF UpdateInv, CoreInv
    <3> QED
      BY <3>1, <3>5, <3>6, <3>7 DEF UpdateInv, CoreInv, PhaseAt
  <2>6. CASE Snapshot(w)
    <3>1. /\ pc[w] = "snapshot" /\ pc' = [pc EXCEPT ![w] = "snapshotted"]
          /\ mem' = [mem EXCEPT ![w] = [mem[w] EXCEPT !.existed = db # NoDb, !.snap = db # NoDb]]
          /\ snapshot' = db /\ UNCHANGED <<db, journal>>
      BY <2>6, Zenon DEF UpdateInv, CoreInv, Snapshot, Move, Goto, MemoryTypes, Freed,
           Journals, Doing, Phases, Applying, Undoing
    <3>2. mem[w] = journal /\ pc[w] \in Doing
      BY <3>1, HeldIsSaved DEF UpdateInv, CoreInv, Holding, Doing, Applying, Undoing
    <3>3. /\ pc'[w] = "snapshotted"
          /\ mem'[w] = [journal EXCEPT !.existed = db # NoDb, !.snap = db # NoDb]
          /\ \A v \in Workers : v # w => pc'[v] = pc[v]
      BY <3>1, <3>2 DEF UpdateInv, CoreInv, Places, MemoryTypes, Processes,
           WorkerPlaces, CliPlaces, ServerPlaces, Journals, Doing, Applying, Undoing,
           Phases
    <3>4. \A v \in Workers : v # w => pc'[v] \notin {"snapshotted", "failed", "stuck", "saveGone"}
      BY <3>2, <3>3, Exclusion DEF UpdateInv, CoreInv, Doing, Applying, Undoing
    <3> QED
      BY <3>1, <3>3, <3>4, Zenon DEF UpdateInv, CoreInv, Remembered, Pending, OnDisk,
           OldDb, Terminal
  <2>7. CASE Cleanup(w)
    <3>1. /\ pc[w] = "cleanup" /\ UNCHANGED journal
          /\ \/ pc' = [pc EXCEPT ![w] = "leaving"]
             \/ /\ pc' = [pc EXCEPT ![w] = "saveGone"]
                /\ mem' = [mem EXCEPT ![w] = [mem[w] EXCEPT !.gone = TRUE]]
      BY <2>7 DEF UpdateInv, CoreInv, Cleanup, Move, Goto, MemoryTypes, Freed, Journals,
           Doing, Phases, Applying, Undoing
    <3>2. mem[w] = journal /\ pc[w] \in Doing
      BY <3>1, HeldIsSaved DEF UpdateInv, CoreInv, Holding, Doing, Applying, Undoing
    <3>3. /\ \/ pc'[w] = "leaving"
             \/ pc'[w] = "saveGone" /\ mem'[w] = [journal EXCEPT !.gone = TRUE]
          /\ \A v \in Workers : v # w => pc'[v] = pc[v]
      BY <3>1, <3>2, Zenon DEF UpdateInv, CoreInv, Places, MemoryTypes, Processes,
           WorkerPlaces, CliPlaces, ServerPlaces, Journals, Doing, Applying, Undoing,
           Phases
    <3>4. \A v \in Workers : v # w => pc'[v] \notin {"snapshotted", "failed", "stuck", "saveGone"}
      BY <3>2, <3>3, Exclusion DEF UpdateInv, CoreInv, Doing, Applying, Undoing
    <3> QED
      BY <3>1, <3>3, <3>4 DEF UpdateInv, CoreInv, Remembered, Processes, Workers,
           Servers, Pending, OnDisk, OldDb, Terminal
  <2>8. CASE AskToStop(w)
    BY <2>8, QuietMemory, Zenon DEF UpdateInv, CoreInv, Remembered, Places, MemoryTypes,
         disk, Processes, Workers, Servers, AskToStop, AfterStop, Goto, locks, Pending,
         OnDisk, OldDb, WorkerPlaces, CliPlaces, ServerPlaces, Journals, Doing,
         Terminal, Applying, Undoing, Phases
  <2>9. CASE SaveError(w) \/ Stopped(w) \/ Start(w)
    BY <2>9, OwnMemory DEF UpdateInv, CoreInv, Remembered, Places, Doing, Applying,
         Undoing, Processes, Workers, Servers, SaveError, Stopped, Start, Move, Fault,
         AfterStop, disk, Goto, locks, Pending, OnDisk, OldDb, WorkerPlaces, CliPlaces,
         ServerPlaces, Freed, Spend, Terminal, Fails
  <2>10. CASE InstallCandidate(w) \/ RestoreDb(w)
    BY <2>10, OwnMemory DEF UpdateInv, CoreInv, Remembered, Places, Doing, Applying,
         Undoing, Processes, Workers, Servers, InstallCandidate, RestoreDb, Move,
         AfterRestore, Pending, OnDisk, OldDb, WorkerPlaces, CliPlaces, ServerPlaces,
         Goto, Freed, Terminal
  <2>11. CASE PutDb(w) \/ SaveGone(w)
    BY <2>11, OwnMemory DEF UpdateInv, CoreInv, Remembered, Places, Doing, Applying,
         Undoing, Processes, Workers, Servers, PutDb, SaveGone, Move, AfterRestore,
         Pending, OnDisk, OldDb, WorkerPlaces, CliPlaces, ServerPlaces, Goto, Freed,
         Terminal, Fails
  <2>12. CASE StepFails(w)
    BY <2>12, OwnMemory, FailingMemory DEF UpdateInv, CoreInv, Remembered, Places,
         Doing, Applying, Undoing, Processes, Workers, Servers, StepFails, PhaseAt,
         Fault, Move, FailTo, disk, Pending, OnDisk, OldDb, WorkerPlaces, CliPlaces,
         ServerPlaces, Spend, Goto, Freed, Terminal, Fails
  <2>13. CASE CannotStop(w)
    BY <2>13, OwnMemory, FailingMemory DEF UpdateInv, CoreInv, Remembered, Places,
         Doing, Applying, Undoing, Processes, Workers, Servers, CannotStop, AfterStop,
         Move, FailTo, disk, Pending, OnDisk, OldDb, WorkerPlaces, CliPlaces,
         ServerPlaces, Goto, Freed, Terminal
  <2>14. CASE LockServer(w)
    BY <2>14, OwnMemory, FailingMemory DEF UpdateInv, CoreInv, Remembered, Places,
         Doing, Applying, Undoing, Processes, Workers, Servers, LockServer, Goto, Move,
         FailTo, disk, Pending, OnDisk, OldDb, WorkerPlaces, CliPlaces, ServerPlaces,
         Freed, Terminal
  <2>15. CASE Ready(w)
    BY <2>15, OwnMemory, FailingMemory DEF UpdateInv, CoreInv, Remembered, Places,
         Doing, Applying, Undoing, Processes, Workers, Servers, Ready, Move, FailTo,
         disk, Pending, OnDisk, OldDb, WorkerPlaces, CliPlaces, ServerPlaces, Goto,
         Freed, Terminal
  <2>16. CASE NobodyAnswers(w)
    BY <2>16, OwnMemory, FailingMemory DEF UpdateInv, CoreInv, Remembered, Places,
         Doing, Applying, Undoing, Processes, Workers, Servers, NobodyAnswers, Move,
         FailTo, disk, Pending, OnDisk, OldDb, WorkerPlaces, CliPlaces, ServerPlaces,
         Goto, Freed, Terminal
  <2>17. CASE Retire(w)
    <3>1. /\ pc[w] = "retire"
          /\ Goto(w, "install") \/ (Goto(w, FailTo(pc[w])) /\ UNCHANGED disk)
          /\ UNCHANGED <<mem, slips, inflight>>
      BY <2>17 DEF UpdateInv, CoreInv, Retire, Move, disk, Goto, locks, FailTo, Freed,
           Applying, Undoing
    <3>2. /\ pc'[w] = "install" \/ (pc'[w] = FailTo(pc[w]) /\ UNCHANGED disk)
          /\ \A v \in Workers : v # w => pc'[v] = pc[v]
      BY <3>1 DEF UpdateInv, CoreInv, Goto, Places, Processes, Workers, Servers,
           WorkerPlaces, CliPlaces, ServerPlaces, Applying, Undoing
    <3>3. pc[w] \in (Applying \cup Undoing) \ {"snapshotted"} /\ pc[w] \in Doing
      BY <3>1 DEF UpdateInv, CoreInv, Doing, Applying, Undoing
    <3>4. CASE pc'[w] = "install"
      BY <3>2, <3>3, <3>4, OwnMemory DEF UpdateInv, CoreInv
    <3>5. CASE pc'[w] = FailTo(pc[w]) /\ UNCHANGED disk
      BY <3>1, <3>2, <3>3, <3>5, FailingMemory DEF UpdateInv, CoreInv
    <3> QED
      BY <3>2, <3>4, <3>5 DEF UpdateInv, CoreInv
  <2>18. CASE RestoreExe(w)
    <3>1. /\ pc[w] = "restoreExe"
          /\ Goto(w, "restoreDb") \/ (Goto(w, FailTo(pc[w])) /\ UNCHANGED disk)
          /\ UNCHANGED <<mem, slips, inflight>>
      BY <2>18 DEF UpdateInv, CoreInv, RestoreExe, Move, disk, FailTo, Goto, Freed,
           Applying, Undoing
    <3>2. /\ pc'[w] = "restoreDb" \/ (pc'[w] = FailTo(pc[w]) /\ UNCHANGED disk)
          /\ \A v \in Workers : v # w => pc'[v] = pc[v]
      BY <3>1 DEF UpdateInv, CoreInv, Goto, Places, Processes, Workers, Servers,
           WorkerPlaces, CliPlaces, ServerPlaces, Applying, Undoing
    <3>3. pc[w] \in (Applying \cup Undoing) \ {"snapshotted"} /\ pc[w] \in Doing
      BY <3>1 DEF UpdateInv, CoreInv, Doing, Applying, Undoing
    <3>4. CASE pc'[w] = "restoreDb"
      BY <3>2, <3>3, <3>4, OwnMemory DEF UpdateInv, CoreInv
    <3>5. CASE pc'[w] = FailTo(pc[w]) /\ UNCHANGED disk
      BY <3>1, <3>2, <3>3, <3>5, FailingMemory DEF UpdateInv, CoreInv
    <3> QED
      BY <3>2, <3>4, <3>5 DEF UpdateInv, CoreInv
  <2> QED
    BY <1>4, <2>1, <2>2, <2>3, <2>4, <2>5, <2>6, <2>7, <2>8, <2>9, <2>10, <2>11, <2>12,
       <2>13, <2>14, <2>15, <2>16, <2>17, <2>18 DEF Worker
<1>5. ASSUME NEW s \in Servers, Server(s) PROVE Remembered'
  <2>1. CASE Guard(s) \/ TakeServerLock(s)
    BY <2>1, QuietMemory DEF UpdateInv, CoreInv, Remembered, Places, MemoryTypes, disk,
         Processes, Workers, Servers, Guard, TakeServerLock, Maintenance, Exempt, Goto,
         locks, Exit, Pending, OnDisk, OldDb, WorkerPlaces, CliPlaces, ServerPlaces,
         Journals, Doing, Freed, Terminal, Applying, Undoing, Phases
  <2>2. CASE Serve(s)
    BY <2>2, QuietMemory, Zenon DEF UpdateInv, CoreInv, Remembered, Places, MemoryTypes,
         disk, Processes, Workers, Servers, Serve, Freed, Goto, Pending, OnDisk, OldDb,
         WorkerPlaces, CliPlaces, ServerPlaces, Journals, Doing, Terminal, Applying,
         Undoing, Phases
  <2>3. CASE Finish(s) \/ StartupFails(s)
    BY <2>3, QuietMemory DEF UpdateInv, CoreInv, Remembered, Places, MemoryTypes, disk,
         Processes, Workers, Servers, Finish, StartupFails, Exit, Fault, Pending,
         OnDisk, OldDb, WorkerPlaces, CliPlaces, ServerPlaces, Journals, Doing, Goto,
         Freed, Spend, Terminal, Applying, Undoing, Phases
  <2>4. CASE Open(s)
    <3>1. /\ UNCHANGED <<exe, snapshot, Folders, journal>> /\ pc[s] = "locked"
          /\ \A w \in Workers : pc'[w] = pc[w] /\ mem'[w] = mem[w]
          /\ \A j \in Journals : OnDisk(j) => Sound(j, exe', db', snapshot', Folders', inflight')
          /\ exe = "old" /\ OldDb(db) => OldDb(db')
      BY <2>4, OpenKeeps DEF UpdateInv, CoreInv
    <3>2. \A w \in Workers : pc[w] \in {"failed", "stuck"} => mem[w] \in Journals
      BY DEF UpdateInv, CoreInv, MemoryTypes, Doing, Processes, Journals, Applying,
           Undoing, Phases
    <3>3. \A w \in Workers : pc[w] # "snapshotted"
      BY <3>1 DEF UpdateInv, CoreInv, ServerHeld, Open4, Alone, Workers, Servers
    <3> QED
      BY <3>1, <3>2, <3>3 DEF UpdateInv, CoreInv, Remembered, OnDisk, Processes,
           Workers, Servers, Pending, OldDb, Terminal
  <2>5. CASE Admit(s)
    <3>1. ~Maintenance /\ UNCHANGED <<exe, db, snapshot, Folders, journal, pc, mem>>
      BY <2>5 DEF UpdateInv, CoreInv, Admit, disk, Maintenance, locks, Pending, Terminal, Folders
    <3>2. \A w \in Workers : pc[w] \notin {"snapshotted", "failed", "stuck"}
      BY <3>1 DEF UpdateInv, CoreInv, Pends, Applying, Terminal, Undoing, Maintenance,
           Pending
    <3> QED
      BY <3>1, <3>2 DEF UpdateInv, CoreInv, Remembered, Processes, Workers, Servers,
           Pending, OnDisk, OldDb, Terminal
  <2>6. CASE Land(s)
    <3>1. /\ UNCHANGED <<exe, snapshot, Folders, journal, pc, mem>> /\ s \in inflight
          /\ \A j : OnDisk(j) => Sound(j, exe', db', snapshot', Folders', inflight')
          /\ OldDb(db) => OldDb(db')
      BY <2>6, LandKeeps DEF UpdateInv, CoreInv, OldDb
    <3>2. \A w \in Workers : pc[w] # "snapshotted"
      BY <3>1, NoWrites DEF UpdateInv, CoreInv, Alone
    <3> QED
      BY <3>1, <3>2 DEF UpdateInv, CoreInv, Remembered, OnDisk, Processes, Workers,
           Servers, Pending, OldDb, Terminal
  <2> QED
    BY <1>5, <2>1, <2>2, <2>3, <2>4, <2>5, <2>6 DEF Server
<1>6. ASSUME NEW p \in Processes, Kill(p) PROVE Remembered'
  BY <1>6, QuietMemory, Zenon DEF UpdateInv, CoreInv, Remembered, Places, MemoryTypes,
       disk, Processes, Workers, Servers, Kill, Spend, Exit, Pending, OnDisk, OldDb,
       WorkerPlaces, CliPlaces, ServerPlaces, Journals, Doing, Goto, Freed, Terminal,
       Applying, Undoing, Phases
<1> QED
  BY <1>1, <1>2, <1>3, <1>4, <1>5, <1>6 DEF Next
-----------------------------------------------------------------------------
LEMMA UpdateInit ==
  ASSUME Init
  PROVE  UpdateInv
<1>1. CoreInv
  BY CoreInit
<1>2. /\ pc["cli"] = "off" /\ \A w \in Workers : pc[w] = "off"
      /\ exe = "old" /\ journal = NoJournal /\ (serverLock = "free" \/ serverLock = "user")
      /\ OldDb(db) /\ \A s \in Servers : img[s] = "old"
  BY DEF Init, Processes, Workers, Servers, OldDb
<1>3. ~Maintenance
  BY <1>2 DEF Maintenance, Pending
<1>4. CliAlone /\ LockFits /\ ImagesPinned /\ CliSound
  BY <1>2 DEF CliAlone, LockFits, ImagesPinned, CliSound, Preparing, Workers
<1>5. DiskFits
  BY <1>2, <1>3 DEF DiskFits, PendingSound, NormalSound, Outcome, OldDb
<1>6. PhaseOnRecord /\ Pends /\ Remembered /\ ExeRetired /\ DbRestored
  BY <1>2 DEF PhaseOnRecord, Pends, Remembered, ExeRetired, DbRestored, Applying, Undoing
<1> QED
  BY <1>1, <1>4, <1>5, <1>6 DEF UpdateInv

LEMMA UpdateStutters ==
  ASSUME UpdateInv, UNCHANGED vars
  PROVE  UpdateInv'
<1>1. CoreInv'
  BY CoreStep DEF UpdateInv
<1>2. /\ UNCHANGED <<disk, slips>> /\ UNCHANGED <<serverLock, pc, mem, img, pinned, inflight>>
      /\ UNCHANGED <<exe, db, snapshot, work, Folders, journal, task>>
  BY DEF vars, disk, locks, procs, Folders
<1>3. CliAlone' /\ LockFits' /\ ImagesPinned'
  BY <1>2 DEF UpdateInv, CliAlone, LockFits, ImagesPinned
<1>4. DiskFits' /\ CliSound' /\ Remembered'
  BY <1>2, QuietDisk, QuietCli, QuietMemory
<1>5. PhaseOnRecord' /\ Pends' /\ ExeRetired' /\ DbRestored'
  BY <1>2 DEF UpdateInv, PhaseOnRecord, Pends, ExeRetired, DbRestored, Maintenance
<1> QED
  BY <1>1, <1>3, <1>4, <1>5 DEF UpdateInv

LEMMA SlipsStay ==
  ASSUME [Next]_vars
  PROVE  slips \subseteq slips'
<1>1. CASE Cli
  BY <1>1 DEF Cli, BeginInstall, RefuseInstall, Tidy, TidyFails, Prepare, SaveUnarmed,
     Register, RegisterRefused, Arm, SpawnWorker, CliEnds
<1>2. CASE Logon \/ UserStarts \/ MachineCrashes
  BY <1>2 DEF Logon, UserStarts, MachineCrashes
<1>3. ASSUME NEW w \in Workers, Worker(w) PROVE slips \subseteq slips'
  BY <1>3 DEF Worker, Poll, PollTimesOut, Enter, Advance, AdvanceFails, SaveError,
     StepFails, Stopped, AskToStop, CannotStop, LockServer, Start, Ready, NobodyAnswers,
     Snapshot, Retire, InstallCandidate, RestoreExe, RestoreDb, PutDb, Cleanup, SaveGone,
     ReadFinished, Prune
<1>4. ASSUME NEW s \in Servers, Server(s) PROVE slips \subseteq slips'
  BY <1>4 DEF Server, Guard, TakeServerLock, Open, Serve, Admit, Land, Finish, StartupFails
<1>5. ASSUME NEW p \in Processes, Kill(p) PROVE slips \subseteq slips'
  BY <1>5 DEF Kill
<1>6. CASE UNCHANGED vars
  BY <1>6 DEF vars
<1> QED
  BY <1>1, <1>2, <1>3, <1>4, <1>5, <1>6 DEF Next

LEMMA UpdateStep ==
  ASSUME UpdateInv, [Next]_vars, Clean'
  PROVE  UpdateInv'
<1>1. CASE Next
  <2>1. CoreInv'
    BY <1>1, CoreStep DEF UpdateInv
  <2> QED
    BY <1>1, <2>1, KeepsCliAlone, KeepsLockFits, KeepsImagesPinned, KeepsDiskFits,
       KeepsCliSound, KeepsPhaseOnRecord, KeepsPends, KeepsRemembered, KeepsExeRetired,
       KeepsDbRestored DEF UpdateInv
<1>2. CASE UNCHANGED vars
  BY <1>2, UpdateStutters
<1> QED
  BY <1>1, <1>2

LEMMA UpdateHolds == Spec => [](Clean => UpdateInv)
<1>1. Init => (Clean => UpdateInv)
  BY UpdateInit
<1>2. (Clean => UpdateInv) /\ [Next]_vars => (Clean => UpdateInv)'
  <2>1. SUFFICES ASSUME Clean => UpdateInv, [Next]_vars, Clean' PROVE UpdateInv'
    OBVIOUS
  <2>2. Clean
    BY <2>1, SlipsStay DEF Clean
  <2> QED
    BY <2>1, <2>2, UpdateStep
<1> QED
  BY <1>1, <1>2, PTL DEF Spec

(* "An interruption at any point leaves enough on disk to finish the job"  *)
(* (update_transaction.rs): after any kill, crash or failed step, a        *)
(* transaction that is armed has its recovery task, its work folder and    *)
(* what its database needs.  The two exceptions are named by the state: a  *)
(* save of "committed" that failed, and, for the folder, its being taken.  *)
THEOREM AlwaysRecoverable == Spec => []Recoverable
<1>1. (Clean => UpdateInv) => Recoverable
  <2>1. SUFFICES ASSUME Clean => UpdateInv, Maintenance, Clean PROVE Recoverable
    BY DEF Recoverable, Clean
  <2>2. task /\ OnDisk(journal)
    BY <2>1 DEF UpdateInv, DiskFits, PendingSound
  <2>3. journal.id \in work \/ "folderTaken" \in slips
    BY <2>2, SoundSays DEF OnDisk, Folders
  <2> QED
    BY <2>2, <2>3, SoundSays DEF Recoverable, OnDisk, OldDb
<1> QED
  BY <1>1, UpdateHolds, PTL

(* "Nothing can start against half-updated state": whenever a normal start *)
(* is let through, the executable is there and can open the database,      *)
(* unless a save of "committed" has failed.                                *)
THEOREM AlwaysStartable == Spec => []StartableOutsideMaintenance
<1>1. (Clean => UpdateInv) => StartableOutsideMaintenance
  BY DEF UpdateInv, DiskFits, NormalSound, StartableOutsideMaintenance, Clean
<1> QED
  BY <1>1, UpdateHolds, PTL

(* A journal that says committed, or restored, is true of the installed    *)
(* executable, unless a save of "committed" has failed.                    *)
THEOREM OutcomesAreReal == Spec => []OutcomeIsReal
<1>1. (Clean => UpdateInv) => OutcomeIsReal
  BY DEF UpdateInv, DiskFits, Outcome, OutcomeIsReal, Clean
<1> QED
  BY <1>1, UpdateHolds, PTL
-----------------------------------------------------------------------------
(* What a step does to what AtomicUpdate sees: the executable changes only *)
(* while a transaction is pending, one begins over the old version, and    *)
(* only a client's write changes what is accepted.                         *)
LEMMA ExeWaits ==
  ASSUME UpdateInv, Next
  PROVE  ~Maintenance => exe' = exe
<1>1. CASE Cli
  BY <1>1 DEF UpdateInv, CoreInv, Cli, BeginInstall, RefuseInstall, Prepare,
       SaveUnarmed, Register, RegisterRefused, Arm, SpawnWorker, CliEnds, Spend, Goto,
       disk, CanPrepare, Exit, Terminal, locks, Fault, Freed, SavedIds, Maintenance,
       Pending, Tidy, TidyFails, Fails
<1>2. CASE Logon \/ UserStarts \/ MachineCrashes
  BY <1>2 DEF UpdateInv, CoreInv, Logon, UserStarts, MachineCrashes, Goto, disk, locks,
       Spend
<1>3. ASSUME NEW w \in Workers, Worker(w) PROVE ~Maintenance => exe' = exe
  <2>1. CASE Poll(w) \/ PollTimesOut(w) \/ ReadFinished(w) \/ Prune(w) \/ Enter(w)
             \/ Advance(w) \/ AdvanceFails(w) \/ SaveError(w) \/ StepFails(w)
    BY <2>1 DEF UpdateInv, CoreInv, Poll, PollTimesOut, ReadFinished, Prune, Enter,
         Advance, AdvanceFails, SaveError, StepFails, Goto, disk, locks, Exit, Terminal,
         Fault, Route, PhaseAt, Move, AfterSave, FailTo, Applying, Undoing, Freed,
         Spend, Fails
  <2>2. CASE Stopped(w) \/ AskToStop(w) \/ CannotStop(w) \/ LockServer(w) \/ Start(w)
             \/ Ready(w) \/ NobodyAnswers(w)
    BY <2>2 DEF UpdateInv, CoreInv, Stopped, AskToStop, CannotStop, LockServer, Start,
         Ready, NobodyAnswers, AfterStop, Move, disk, Goto, locks, FailTo, Freed,
         Applying, Undoing
  <2>3. CASE Snapshot(w) \/ RestoreDb(w) \/ PutDb(w)
    BY <2>3 DEF UpdateInv, CoreInv, Snapshot, RestoreDb, PutDb, Move, AfterRestore,
         Goto, Freed
  <2>4. CASE Retire(w) \/ InstallCandidate(w) \/ RestoreExe(w)
    BY <2>4 DEF UpdateInv, CoreInv, Pends, Applying, Undoing, Retire, InstallCandidate,
         RestoreExe, Goto, locks, Move, FailTo, Terminal, Maintenance, Freed, Pending
  <2>5. CASE Cleanup(w) \/ SaveGone(w)
    BY <2>5 DEF UpdateInv, CoreInv, Cleanup, SaveGone, Move, Goto, Freed, Fails
  <2> QED
    BY <1>3, <2>1, <2>2, <2>3, <2>4, <2>5 DEF Worker
<1>4. ASSUME NEW s \in Servers, Server(s) PROVE ~Maintenance => exe' = exe
  BY <1>4 DEF UpdateInv, CoreInv, Server, Guard, TakeServerLock, Open, Serve, Admit,
       Land, Finish, StartupFails, Maintenance, Exempt, Goto, locks, Exit, disk, Freed,
       Fault, Pending, Spend, Terminal
<1>5. ASSUME NEW p \in Processes, Kill(p) PROVE ~Maintenance => exe' = exe
  BY <1>5 DEF UpdateInv, CoreInv, Kill, Spend, Exit, disk, Goto, Freed
<1> QED
  BY <1>1, <1>2, <1>3, <1>4, <1>5 DEF Next

LEMMA BeginsOld ==
  ASSUME UpdateInv, Next
  PROVE  ~Maintenance /\ Maintenance' => exe = "old"
<1>1. CASE Cli
  <2>1. CASE BeginInstall \/ RefuseInstall \/ Register \/ SpawnWorker \/ CliEnds
             \/ Tidy \/ TidyFails
    BY <2>1 DEF UpdateInv, CoreInv, Maintenance, BeginInstall, RefuseInstall, Register,
         Tidy, TidyFails, CliAlone, Preparing, SpawnWorker, CliEnds, Spend, Goto, disk, CanPrepare, Exit, Fault, locks,
         SavedIds, Pending, Freed, Terminal, Fails
  <2>2. CASE Prepare
    <3> QED
      BY <2>2 DEF UpdateInv, CoreInv, Prepare, CliAlone, Preparing, CanPrepare,
           Terminal, Goto, Maintenance, Pending
  <2>3. CASE SaveUnarmed \/ RegisterRefused \/ Arm
    BY <2>3 DEF UpdateInv, CoreInv, Maintenance, CliAlone, Preparing, SaveUnarmed,
         RegisterRefused, Arm, Goto, locks, Exit, Freed, Pending, Terminal
  <2> QED
    BY <1>1, <2>1, <2>2, <2>3 DEF Cli
<1>2. CASE Logon \/ UserStarts \/ MachineCrashes
  BY <1>2 DEF UpdateInv, CoreInv, Maintenance, Logon, UserStarts, MachineCrashes, Goto,
       disk, locks, Spend, Pending, Terminal
<1>3. ASSUME NEW w \in Workers, Worker(w) PROVE ~Maintenance /\ Maintenance' => exe = "old"
  <2>1. CASE Poll(w) \/ PollTimesOut(w) \/ ReadFinished(w) \/ Prune(w) \/ Enter(w)
    BY <2>1 DEF UpdateInv, CoreInv, Maintenance, Poll, PollTimesOut, ReadFinished,
         Prune, Enter, Goto, disk, locks, Exit, Terminal, Fault, Route, Pending, Freed,
         Spend
  <2>2. CASE Advance(w)
    <3>1. CASE pc[w] \in {"stopping", "snapshotted", "replacing", "validating", "undoing"}
      BY <3>1 DEF UpdateInv, CoreInv, Pends, Applying, Undoing, Terminal, Maintenance,
           Pending
    <3>2. CASE pc[w] \in {"abandon", "unarmed", "committing", "restoring"}
      <4>1. journal'.phase \in Terminal
        BY <2>2, <3>2, AfterAdvance, AdvanceEnds DEF UpdateInv, CoreInv
      <4> QED
        BY <4>1 DEF UpdateInv, CoreInv, Maintenance, Pending, Terminal
    <3> QED
      BY <2>2, <3>1, <3>2, AfterAdvance DEF UpdateInv, CoreInv, PhaseAt
  <2>3. CASE SaveError(w)
    BY <2>3 DEF UpdateInv, CoreInv, Maintenance, Pends, SaveError, Move, Fault, Pending,
         Terminal, Applying, Undoing, Goto, Freed, Spend, Fails
  <2>4. CASE SaveGone(w)
    <3>1. pc[w] = "saveGone" /\ journal' = mem[w]
      BY <2>4 DEF UpdateInv, CoreInv, SaveGone, Move, Goto, Freed, Fails
    <3>2. journal \in Journals /\ journal.phase \in Terminal /\ journal' = [journal EXCEPT !.gone = TRUE]
      BY <3>1 DEF UpdateInv, CoreInv, Pends, Remembered, JournalFits, Processes,
           Workers, Servers, Terminal, Applying, Undoing, Maintenance, Pending, OnDisk,
           OldDb, Journals, SnapFits, Phases
    <3>3. journal'.phase \in Terminal
      BY <3>2, GoneIs DEF UpdateInv, CoreInv
    <3> QED
      BY <3>3 DEF UpdateInv, CoreInv, Maintenance, Pending, Terminal
  <2>5. CASE AdvanceFails(w) \/ StepFails(w) \/ Stopped(w) \/ AskToStop(w)
             \/ CannotStop(w) \/ LockServer(w) \/ Start(w) \/ Ready(w)
             \/ NobodyAnswers(w)
    BY <2>5 DEF UpdateInv, CoreInv, Maintenance, AdvanceFails, StepFails, Stopped,
         AskToStop, CannotStop, LockServer, Start, Ready, NobodyAnswers, PhaseAt, Fault,
         Move, FailTo, disk, Applying, Undoing, AfterStop, Goto, locks, Pending, Spend,
         Terminal, Freed, Fails
  <2>6. CASE Snapshot(w) \/ Retire(w) \/ InstallCandidate(w) \/ RestoreExe(w)
             \/ RestoreDb(w) \/ PutDb(w) \/ Cleanup(w)
    BY <2>6 DEF UpdateInv, CoreInv, Maintenance, Snapshot, Retire, InstallCandidate,
         RestoreExe, RestoreDb, PutDb, Cleanup, Move, Goto, locks, FailTo, AfterRestore,
         Pending, Freed, Applying, Undoing, Terminal
  <2> QED
    BY <1>3, <2>1, <2>2, <2>3, <2>4, <2>5, <2>6 DEF Worker
<1>4. ASSUME NEW s \in Servers, Server(s) PROVE ~Maintenance /\ Maintenance' => exe = "old"
  BY <1>4 DEF UpdateInv, CoreInv, Maintenance, Server, Guard, TakeServerLock, Open,
       Serve, Admit, Land, Finish, StartupFails, Exempt, Goto, locks, Exit, disk, Freed,
       Fault, Pending, Spend, Terminal
<1>5. ASSUME NEW p \in Processes, Kill(p) PROVE ~Maintenance /\ Maintenance' => exe = "old"
  BY <1>5 DEF UpdateInv, CoreInv, Maintenance, Kill, Spend, Exit, disk, Pending, Goto,
       Freed, Terminal
<1> QED
  BY <1>1, <1>2, <1>3, <1>4, <1>5 DEF Next

LEMMA WritesKept ==
  ASSUME UpdateInv, Next
  PROVE  WritesIn(db') = WritesIn(db) \/ \E t \in Servers : Land(t)
<1>1. CASE Cli
  BY <1>1 DEF UpdateInv, CoreInv, Cli, BeginInstall, RefuseInstall, Prepare,
       SaveUnarmed, Register, RegisterRefused, Arm, SpawnWorker, CliEnds, Spend, Goto,
       disk, CanPrepare, Exit, Terminal, locks, Fault, Freed, SavedIds, Maintenance,
       Pending, Tidy, TidyFails, Fails
<1>2. CASE Logon \/ UserStarts \/ MachineCrashes
  BY <1>2 DEF UpdateInv, CoreInv, Logon, UserStarts, MachineCrashes, Goto, disk, locks,
       Spend
<1>3. ASSUME NEW w \in Workers, Worker(w) PROVE WritesIn(db') = WritesIn(db) \/ \E t \in Servers : Land(t)
  <2>1. CASE Poll(w) \/ PollTimesOut(w) \/ ReadFinished(w) \/ Prune(w) \/ Enter(w)
             \/ Advance(w) \/ AdvanceFails(w) \/ SaveError(w) \/ StepFails(w)
    BY <2>1 DEF UpdateInv, CoreInv, Poll, PollTimesOut, ReadFinished, Prune, Enter,
         Advance, AdvanceFails, SaveError, StepFails, Goto, disk, locks, Exit, Terminal,
         Fault, Route, PhaseAt, Move, AfterSave, FailTo, Applying, Undoing, Freed,
         Spend, Fails
  <2>2. CASE Stopped(w) \/ AskToStop(w) \/ CannotStop(w) \/ LockServer(w) \/ Start(w)
             \/ Ready(w) \/ NobodyAnswers(w)
    BY <2>2 DEF UpdateInv, CoreInv, Stopped, AskToStop, CannotStop, LockServer, Start,
         Ready, NobodyAnswers, AfterStop, Move, disk, Goto, locks, FailTo, Freed,
         Applying, Undoing
  <2>3. CASE Snapshot(w) \/ Retire(w) \/ InstallCandidate(w) \/ RestoreExe(w)
    BY <2>3 DEF UpdateInv, CoreInv, Snapshot, Retire, InstallCandidate, RestoreExe,
         Move, Goto, locks, FailTo, Freed, Applying, Undoing
  <2>4. CASE RestoreDb(w)
    <3>1. /\ pc[w] = "restoreDb" /\ mem[w] = journal
          /\ db' = IF journal.snap THEN [snapshot EXCEPT !.schema = "torn"]
                   ELSE IF journal.existed THEN db ELSE NoDb
      BY <2>4, HeldIsSaved DEF UpdateInv, CoreInv, RestoreDb, Holding, Undoing, Move,
           AfterRestore, Applying, Goto, Freed
    <3>2. Sound(journal, exe, db, snapshot, Folders, inflight)
      BY <3>1 DEF UpdateInv, CoreInv, Pends, DiskFits, PendingSound, Undoing, OnDisk,
           Terminal, Applying, Maintenance, Pending, OldDb
    <3>3. CASE journal.snap
      <4>1. snapshot # NoDb /\ snapshot \in Databases /\ db # NoDb /\ db.writes = snapshot.writes
        BY <3>2, <3>3, SoundSays DEF UpdateInv, CoreInv, StoreTypes, Databases, Images
      <4>2. db' # NoDb /\ db'.writes = snapshot.writes
        BY <3>1, <3>3, <4>1, SchemaIs DEF UpdateInv, CoreInv
      <4> QED
        BY <4>1, <4>2 DEF UpdateInv, CoreInv, WritesIn
    <3>4. CASE ~journal.snap /\ journal.existed
      BY <3>1, <3>4 DEF UpdateInv, CoreInv
    <3>5. CASE ~journal.snap /\ ~journal.existed
      BY <3>1, <3>2, <3>5 DEF UpdateInv, CoreInv, Sound, WritesIn, OldDb
    <3> QED
      BY <3>3, <3>4, <3>5 DEF UpdateInv, CoreInv
  <2>5. CASE PutDb(w)
    <3>1. pc[w] = "putDb" /\ db' = snapshot
      BY <2>5 DEF UpdateInv, CoreInv, PutDb, Move, AfterRestore, Goto, Freed
    <3>2. journal.snap /\ Sound(journal, exe, db, snapshot, Folders, inflight)
      BY <3>1 DEF UpdateInv, CoreInv, Pends, DiskFits, PendingSound, DbRestored,
           Undoing, OnDisk, Terminal, Applying, Maintenance, OldDb, Pending
    <3>3. snapshot # NoDb /\ db # NoDb /\ db.writes = snapshot.writes
      BY <3>2, SoundSays DEF UpdateInv, CoreInv
    <3> QED
      BY <3>1, <3>3 DEF UpdateInv, CoreInv, WritesIn
  <2>6. CASE Cleanup(w) \/ SaveGone(w)
    BY <2>6 DEF UpdateInv, CoreInv, Cleanup, SaveGone, Move, Goto, Freed, Fails
  <2> QED
    BY <1>3, <2>1, <2>2, <2>3, <2>4, <2>5, <2>6 DEF Worker
<1>4. ASSUME NEW s \in Servers, Server(s) PROVE WritesIn(db') = WritesIn(db) \/ \E t \in Servers : Land(t)
  <2>1. CASE Guard(s) \/ TakeServerLock(s) \/ Serve(s) \/ Finish(s) \/ StartupFails(s)
    BY <2>1 DEF UpdateInv, CoreInv, Guard, TakeServerLock, Serve, Finish, StartupFails,
         Maintenance, Exempt, Goto, locks, Exit, disk, Freed, Fault, Pending, Spend,
         Terminal
  <2>2. CASE Open(s)
    <3>1. \/ UNCHANGED db
          \/ db = NoDb /\ db' = [schema |-> img[s], writes |-> 0]
          \/ db # NoDb /\ db' = [db EXCEPT !.schema = img[s]]
      BY <2>2 DEF UpdateInv, CoreInv, Open, Exit, Goto, locks, Freed
    <3>2. img[s] \in Images /\ db \in Databases
      BY DEF UpdateInv, CoreInv, ProcessTypes, StoreTypes, Images, Databases
    <3>3. CASE db = NoDb /\ db' = [schema |-> img[s], writes |-> 0]
      BY <3>2, <3>3, CreatedIs DEF UpdateInv, CoreInv, WritesIn
    <3>4. CASE db # NoDb /\ db' = [db EXCEPT !.schema = img[s]]
      BY <3>2, <3>4, SchemaIs DEF UpdateInv, CoreInv, WritesIn
    <3> QED
      BY <3>1, <3>3, <3>4 DEF UpdateInv, CoreInv
  <2>3. CASE Admit(s)
    BY <2>3 DEF UpdateInv, CoreInv, Admit, Maintenance, disk, locks, Pending, Terminal
  <2>4. CASE Land(s)
    BY <2>4 DEF UpdateInv, CoreInv
  <2> QED
    BY <1>4, <2>1, <2>2, <2>3, <2>4 DEF Server
<1>5. ASSUME NEW p \in Processes, Kill(p) PROVE WritesIn(db') = WritesIn(db) \/ \E t \in Servers : Land(t)
  BY <1>5 DEF UpdateInv, CoreInv, Kill, Spend, Exit, disk, Goto, Freed
<1> QED
  BY <1>1, <1>2, <1>3, <1>4, <1>5 DEF Next

(* A step of the transaction is a step of AtomicUpdate, or none: the write *)
(* that lands is accepted, the save that arms begins, and the save that    *)
(* ends commits or aborts, by the executable it leaves.                    *)
LEMMA StepIsAtomic ==
  ASSUME UpdateInv, UpdateInv', Clean, Clean', [Next]_vars
  PROVE  [Atomic!Next]_(Atomic!updateVars)
<1> DEFINE version  == IF Maintenance THEN "old" ELSE exe
           accepted == WritesIn(IF Maintenance /\ journal.snap THEN snapshot ELSE db)
<1>1. accepted = WritesIn(db) /\ accepted' = WritesIn(db')
  <2>1. accepted = WritesIn(db)
    BY AcceptedIs DEF UpdateInv, DiskFits, PendingSound, OnDisk
  <2>2. accepted' = WritesIn(db')
    BY AcceptedIs DEF UpdateInv, DiskFits, PendingSound, OnDisk
  <2> QED
    BY <2>1, <2>2
<1>s. ("commitUnsaved" \in slips) = FALSE /\ ("commitUnsaved" \in slips)' = FALSE
  BY DEF Clean
<1>2. CASE \E s \in Servers : Land(s)
  <2>1. PICK s \in Servers : Land(s)
    BY <1>2
  <2>2. /\ UNCHANGED <<exe, journal>> /\ db' = [db EXCEPT !.writes = @ + 1]
        /\ db # NoDb /\ db' # NoDb
    BY <2>1, LandKeeps DEF Land
  <2>3. db'.writes = db.writes + 1
    BY <2>1, <2>2, WrittenIs DEF UpdateInv, CoreInv, StoreTypes, WritesFit, Land
  <2>4. accepted' = accepted + 1
    BY <1>1, <2>2, <2>3 DEF WritesIn
  <2>5. version' = version /\ Maintenance' = Maintenance
    BY <2>2 DEF Maintenance
  <2> QED
    BY <1>s, <2>4, <2>5 DEF Atomic!Next, Atomic!Accept
<1>3. CASE Next /\ ~\E s \in Servers : Land(s)
  <2>1. accepted' = accepted
    BY <1>1, <1>3, WritesKept
  <2>2. CASE ~Maintenance /\ ~Maintenance'
    <3>1. exe' = exe
      BY <1>3, <2>2, ExeWaits
    <3>2. version' = version
      BY <2>2, <3>1
    <3>3. Maintenance' = Maintenance
      BY <2>2 DEF Maintenance, Pending
    <3> QED
      BY <1>s, <2>1, <3>2, <3>3 DEF Atomic!updateVars
  <2>3. CASE ~Maintenance /\ Maintenance'
    BY <1>s, <1>3, <2>1, <2>3, BeginsOld DEF Atomic!Next, Atomic!Begin
  <2>4. CASE Maintenance /\ Maintenance'
    BY <1>s, <2>1, <2>4 DEF Atomic!Next, Atomic!updateVars
  <2>5. CASE Maintenance /\ ~Maintenance'
    <3>1. exe' \in {"old", "new"}
      BY <2>5 DEF UpdateInv, CoreInv, ExeFits, Images, DiskFits, NormalSound
    <3> QED
      BY <1>s, <2>1, <2>5, <3>1 DEF Atomic!Next, Atomic!Commit, Atomic!Abort
  <2>6. Maintenance \in BOOLEAN /\ Maintenance' \in BOOLEAN
    BY DEF Maintenance, Pending
  <2> QED
    BY <2>2, <2>3, <2>4, <2>5
<1>4. CASE UNCHANGED vars
  <2>1. UNCHANGED <<exe, db, journal, snapshot>>
    BY <1>4 DEF vars, disk
  <2> QED
    BY <1>s, <2>1 DEF Atomic!updateVars, Maintenance
<1> QED
  BY <1>2, <1>3, <1>4

(* The journalled transaction implements the atomic update: clients see    *)
(* the old version or the new one with every write accepted so far, and    *)
(* never anything in between, through kills, crashes and rollbacks, up to  *)
(* a save of "committed" that fails.                                       *)
THEOREM UpdateIsAtomic == Spec => ImplementsAtomicUpdate
<1>1. Init => Atomic!Init
  <2>1. SUFFICES ASSUME Init PROVE Atomic!Init
    OBVIOUS
  <2>2. ~Maintenance /\ Maintenance = FALSE /\ ("commitUnsaved" \in slips) = FALSE
    BY <2>1 DEF Init, Maintenance, Pending
  <2> QED
    BY <2>1, <2>2 DEF Init, Atomic!Init, WritesIn
<1>2. (Clean => UpdateInv) /\ (Clean => UpdateInv)' /\ [Next]_vars
        => [Atomic!Next]_(Atomic!updateVars)
  <2>1. SUFFICES ASSUME Clean => UpdateInv, (Clean => UpdateInv)', [Next]_vars
                 PROVE  [Atomic!Next]_(Atomic!updateVars)
    OBVIOUS
  <2>2. CASE ~Clean'
    BY <2>2 DEF Clean, Atomic!Next, Atomic!Slip
  <2>3. CASE Clean'
    <3>1. Clean
      BY <2>1, <2>3, SlipsStay DEF Clean
    <3> QED
      BY <2>1, <2>3, <3>1, StepIsAtomic
  <2> QED
    BY <2>2, <2>3
<1> QED
  BY <1>1, <1>2, UpdateHolds, PTL DEF Spec, ImplementsAtomicUpdate, Atomic!Spec
==============================================================================
