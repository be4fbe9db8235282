# stt-server: TLA+ models and proofs

TLA+ modules that model `stt-server` (Rust), TLC runs that check them on small instances, and
theorems about them that TLAPS checks for every value of the constants. Sources are named relative
to the repository root (`src/queue.rs` and so on); `PROJECT.json` maps every definition to the lines
it models, lists the hazards the properties are for, and gives every property a mutant: a plausible
defect of the code under which TLC finds the property violated.

## 1. Inventory

One process serves HTTP on one port. Handlers are tokio tasks; model loads, inference runs, hashing
and copying are blocking threads; realtime streams have a thread each. Commands and the self-update
run in other processes that share the data folder with the server.

| Component | State it keeps | Operations | Interacts with | Hard parts |
|---|---|---|---|---|
| Inference queue (`queue.rs`) | busy flag, two waiting lists, stream semaphore, lease watch channel | `acquire`, `acquire_unbounded`, `acquire_for_model`, permit drop, waiter drop, `try_acquire_stream`, `lease_model`, slot drop | every inference, unload, verification, realtime items | grants racing with timeouts and disconnects, hand-over order, lease read before and after a wait |
| Model residency (`engine.rs`, `api.rs`, `app.rs`, `verify.rs`) | `loaded`, `loading`, stored default, `installed` rows, selection lock | startup load, select, deselect, unload, remove, verify, refresh, bind-or-swap per request | queue, store, update validation | state read before an `await` and used after it, two locks, a loader thread that takes neither |
| Self-update transaction (`update_transaction.rs`) | journal, work folder, recovery task, `update.lock`, executable, `state.db` | prepare, arm, apply, rollback, recover, cleanup, prune | startup, HTTP gate, task scheduler | crashes between any two steps, failing steps, several processes |
| Managed store (`store.rs`, `operations.rs`, `download.rs`, `import.rs`, `import_user.rs`, `verify.rs`, `dropin.rs`) | `operations` and `installed` tables, models folder, `.part` and staged files | install, upload, import-user, verify, refresh, remove, cancel, the sweep at startup | selection lock, queue | cancellation against completion, retries on a shared `.part`, restart, folders changed by others |
| Realtime connections (`realtime.rs`) | the item in flight, its worker and two channels, the stream slot | append, commit, clear, session update, idle timeout, leaving | queue, engine | worker events against client events, a slot that must come back |
| Server lifecycle (`api.rs`, `discovery.rs`, `bin/server.rs`, `model_cli.rs`, `service.rs`, `autostart.rs`) | `server.lock`, `server.json`, the port, service registration, Run value | serve, stop, restart, status, autostart, service, model commands | other programs on the port, several servers | a record that is stale when used, slow answers, kills |
| Requests (`api.rs`, `run_plan.rs`, `capabilities.rs`, `format.rs`, `network.rs`, `auth.rs`) | network report, learned capability, the request in hand | gate, authorize, plan, run, retry, answer, detect | queue, residency | a retry under a plan made before it, a report that is old when used |
| Data folder (`app.rs`, `store.rs`) | tokens, schema and version of `state.db`, copies | move of an older folder, token creation, migration | executables of several versions | starts that race or die at any step |
| Pure or external parts (`catalog.rs`, `vad.rs`, `audio.rs`, `sysinfo.rs`, `selfupdate.rs`, `gguf_probe.rs`, `cli.rs` parsing) | none, or the operating system's | lookups, parsing, I/O | | none that a model reaches |

What makes each component correct:

- **Queue**: one owner of the slot and a flag that says so; no waiter lost and no entry left behind;
  nobody served out of turn; the bound; a lease that is exactly the running stream's; no batch run
  beside a stream on its model; waiters served in the end.
- **Residency**: a run uses the model its request resolved to; a model that failed verification is
  not served again; the default is registered; nothing is unloaded under a run; calls end.
- **Self-update**: all or nothing, with no accepted write lost, whatever step fails and wherever the
  process or the machine stops; nobody has the database open while it is replaced; the recorded
  outcome is the real one; the update ends.
- **Managed store**: an installed model is the catalog's; an operation ends once, and a model is added
  exactly by one that completes; nothing that ended blocks what comes later; the table agrees with
  the folder after a refresh.
- **Realtime**: each commit gets one final event, its deltas make its transcript, and no event and
  no slot hangs, whatever the engine and the client do meanwhile.
- **Lifecycle**: the record leads to the server that wrote it; `stop` tells the truth.
- **Requests**: an answer keeps to what was asked; what is shown of a model is what requests meet;
  a network that turned public shuts other devices out.
- **Data folder**: a server serves the data there is, migrated, and copied before it was.

## 2. Modules

| Module | What it is |
|---|---|
| `InferenceQueue` | `src/queue.rs`, with the callers in `api.rs` and `realtime.rs` that move its state |
| `InferenceSlot` | the abstract queue: an owner and two lines of live waiters |
| `UpdateTransaction` | `src/update_transaction.rs` with the startup guard, the locks, the gate and the shutdown of the server |
| `AtomicUpdate` | the abstract update: the version changes at once or not at all, no accepted write is lost |
| `ModelResidency` | `App::loaded`, `App::loading`, the default, the rows and the selection lock, over `InferenceSlot` |
| `ModelTables` | tables, folders and tasks that the next four share |
| `Downloads`, `Imports`, `DropInRefresh` | `download.rs`; `import.rs` and `import_user.rs`; `dropin.rs` |
| `ManagedStore` | composes those three with verification, removal, cancellation, ends of the server and the sweep |
| `OperationLedger` | the abstract store: operations that end once, and a shelf of models |
| `RealtimeConnection` | `src/realtime.rs` |
| `ServerLifecycle` | servers and commands around one data folder |
| `RequestPipeline` | one transcription or translation from the socket to its answer, with network detection |
| `DataFolder` | what a start does before it serves |
| `MC*` | symmetry, refinement mappings and the values of constants, for TLC |
| `InferenceQueueProofs`, `ModelResidencyProofs`, `DataFolderProofs`, `RealtimeConnectionProofs`, `ServerLifecycleProofs`, `RequestPipelineProofs`, `UpdateTransactionProofs`, `ManagedStoreProofs` | the theorems |

Modules meet where the components do: `ModelResidency` takes its turns from `InferenceSlot`, which
`InferenceQueue` implements; a batch permit in `RealtimeConnection` and `RequestPipeline` is a wait
that ends, which is what `WaitersServed` establishes; what holds a start back during an update is
`UpdateTransaction`'s, and what a start does to its folder is `DataFolder`'s.

The definitions that begin with *Mutant of* in a comment are defective variants of the definition
below them. No specification uses them.

### InferenceQueue

`busy`, `interactive` and `normal` are `State` under its mutex; `streamSlot` and `lease` are the
semaphore and the watch channel. `pc` places each caller in the code: `lease` (waiting for a stream
to release the model), `acquire` (about to take the mutex), `queued`, `granted` (the permit is in
its oneshot channel), `leaving` (its future is dropped and its `WaiterEntry` is about to remove the
entry), `holding`, `running`; streams are at `begin`, `stream`, `closing` as well. Every critical
section of the mutex is one step, and an `await` always separates two. `DropPermit` is the whole of
`InferencePermit::drop`: it pops entries until a send succeeds, or frees the slot.

Wait deadlines, disconnects and timeouts are one action (`GiveUp`, `GiveUpGranted`): a wait may end
at any time, before or after the grant. `queue_max_waiting` is read per call, so each ask carries
its own limit.

### UpdateTransaction

Files are variables that survive everything: `exe`, `db`, `snapshot`, `work`, `journal`, `task`. `mem` is
the journal a process holds in memory, `pc` its place, `updateLock` and `serverLock` the file locks,
`pinned` the processes that run from an image Windows will not let be overwritten, `inflight` the servers
with an admitted client write. `"cli"` runs `update install`; `"apply"` and `"recover"` are workers;
servers are `"service"`-like processes started by workers, by users or at logon. A journal save is one
step, since the code writes a temporary file and renames it; the temporary file is in the work folder, so
a save fails when that folder is gone (`Robbed`). `Kill` ends one process between any two steps,
`MachineCrashes` all of them; both release locks and keep files. `Fallible` lists the places whose step
may fail, the save of `Committed` included, `left` the budgets. An install removes the task and the
folders of what is over (`Tidy`) before it looks at the server and may refuse. It may begin while the
first CLI still waits for its worker, which is finishing: one process stands for the one that waits and
for the next. `slips` records the two gaps of the code that the properties name, `"commitUnsaved"` (a
save of `Committed` has failed) and `"folderTaken"` (a worker has pruned the folder of a transaction that
is staged or saved): see Findings. Everything beyond them is explored and checked.

### ModelResidency

Requests go through `asking`, `queued` (the slot, by `InferenceSlot`'s actions), `bind` (the lock of
`loaded`), `look` (the lock of `loading`), `sleep`, `check` (`require_installed_verified`), `load`,
and `bind` again, as in `bind_or_swap_model`, and `run`. Administrative callers take the selection
lock (`want`) and go through the places of their operation; a verification first inserts its operation and
hashes. The startup thread is `startup`. Readers read `loaded` and then `loading`, as `readiness`
and `update_validation` do. A row of `installed` is absent, `suspect` (`needs_verification`) or
`ok`. Loads, hashes, client disconnects and expired waits are nondeterministic. Three abstractions:
the model that starts loading is the default (an update's rehearsal may start another one, while
clients are refused); drop-ins and managed models are disjoint (a drop-in whose content is a
catalog model's is `DropInRefresh`'s); a download does not start and complete within
the synchronous end of a verification, from the row's deletion to the move of the file.

### ModelTables, Downloads, Imports, DropInRefresh, ManagedStore

`op` and `row` are the two tables; each SQL statement or transaction is one step, as it is under the
database lock. `file` is the models folder (also the drop-in folder, by default), `part` the
`.part` files, which are named by hash and so shared by a cancelled download and its successor, and
`staged` the uploads. `task` places the task of each operation in its function, with what it has
read so far: a refresh works through a snapshot of its rows (`todo`, `seen`), a verification
through the row it read (`snap`). `late` is a write that was handed to the blocking pool and has not
reached the file. The pool runs the jobs of one file in order, so a write lands before a hash that is
queued behind it.

A file holds a catalog model's bytes, a custom model's or junk; a `.part` is a number of chunks and
whether they are good. Sources answer as they like: with the range, the whole object, 416, an error,
or other bytes. `promote_install_completed` checks the operation, inserts the row and completes the
operation in one transaction, and renames the file before the commit: `ManagedStore` has the crash in
between (`HalfPromoted`). The server ends at any step; `Sweep` and `Reconcile` are what the next start
does to operations, rows and staging. `EditFile` is a user or another program that changes the folder.
`calm` and `tampered` are history variables: the refreshes nothing has disturbed, the files others changed.

`OperationLedger` sees a pending operation, its one end, and the shelf of managed models: a supply
(install or upload) that completes puts its model there in the same step, and a supply that was
cancelled or failed never does; a batch (import-user) adds models one by one, the last of them perhaps
after its cancellation.

A cancelled download acts on its answer however late it comes. It may truncate or remove the `.part` that
its successor has hashed and is about to rename: the successor's `handle` is then `"gone"`
(`Discarded`), it promotes what is left, and `tampered` keeps the file until a promotion puts the model there
again. `InstalledIsCatalog` excepts what is in `tampered`, so this is the only moment it gives up on.
A refresh whose folder is missing is complete without looking at a row (`RefreshFolder`), which `RefreshAgrees`
names (`FoundNoFolder`).

What the models show of the code without breaking a property: a refresh goes on after its own
cancellation; the branch for a changed file registers a catalog match under the old row's id; the
time of a candidate is read after its hash; a cancelled import that a crash interrupts keeps its
staged file; an import-user whose promotion is refused leaves its copy.

### RealtimeConnection

`pc` places a connection's task, which handles a client event or a worker's update at a time; while it
starts an item, discards one or runs a batch it watches nothing else. `worker` places the item's thread;
`commands` and `updates` are its channels, `open` whether the sender of the first exists. An item is
streamed, or buffered until its commit. `committed` is set by the commit and `finalized` by what follows
the flush of the resampler, which may fail (`FlushFails`): then nothing ends the item. `slot` is the
stream slot, `shown` what deltas have carried, `finals` the final events sent. `gone` is a client that
left: sends fail, and the task learns of it where it next reads or writes. Text is a count.

An idle timeout on a committed item drops its transcript, which is why `OneFinalEvent` names that
case. A panic of the worker and the lease are not in this module (the lease is `InferenceQueue`'s).

### ServerLifecycle

`srv` and `cmd` are processes with a place each; `lock`, `json`, `registered` and `autostart` are
what they share. Deadlines are choices; `Strangers` are programs on the port, a *sibling* answering
like a server of another data folder. A server takes the locks, binds (with the fallback to a free
port only when nothing fixed one), writes its record, serves, and on shutdown closes the listener and
removes the record. `stop` reads the record, probes, asks, and waits for the lock.
`service stop` and `uninstall` go through the service manager and wait 20 s.

### RequestPipeline

A request is at the gate, the handler, the queue, the model, the plan, the run or the answer. `plan`
(`run_plan.rs`) is a set of operators on capabilities and options: language and target matching,
timestamp granularity, prompt, temperature. A worker runs it; an engine that rejects the timestamps
it advertises is run again without them when the request did not ask for them, and the mark on the
loaded model is set after the turn has gone. `world`, `probe` and `report` are the network as it is,
as a detection found it, and as the gate uses it. An answer is what ran (`ran`, `whole`, and in `language` what
the engine *heard*: Granite reads no language) and what the body says of it (`says`): the text format is the
bare transcript and says nothing.

### DataFolder

`folder` is what is on disk under the new and the old name; `starter` the processes, each with the schema
of its executable. `Look`, `LookOld` and `Move` are `migrate_dir_once`; `Lock` makes the folder and takes
both locks; tokens are created and written in two steps; `BeginCopy` and `EndCopy` are `backup_db`,
`ChangeSchema` the transaction and `Stamp` the `user_version` after it. `End` is an error or a kill at
any step. `data` stands for what the install has gathered. Two fields of a folder are history: `was`, the
schema when the version was last set, and `cut`, that a start died between `ChangeSchema` and `Stamp`.
`overtaken` is history: a move marks every other start that still goes by what it saw of the folders
before (`Trusting`).

## 3. Runs

| Run | Bounds | States | Shows |
|---|---|---|---|
| `queue_safety` | 3 requests, 1 connection, 2 models, bound 1 or none | 1.1 M | slot accounting, no lost waiter, the bound, the lease, order of service |
| `queue_liveness` | 2 requests, 1 connection, 1 model | 35 k | service of waiters; implements `InferenceSlot` |
| `update_safety` | 2 updates, 1 fault, 1 crash, 1 user start, 1 write | 3.2 M | recovery, exclusion, real outcomes; implements `AtomicUpdate` |
| `update_liveness` | 2 updates, 1 fault, 1 crash | 184 k | an update ends and its task goes |
| `residency_safety` | 2 requests, 2 administrative callers and 2 operations, 2 models | 3.8 M | the right model runs; a condemned model is not served; the default is registered; unloads wait for runs |
| `residency_liveness` | 1 request, 2 callers, 2 operations, 1 reader, 1 model | 0.2 M | requests and calls end |
| `residency_reported` | 1 request, 1 reader | | *violated*: a load that succeeded is reported as no load |
| `store_safety` | 2 operations, 1 catalog and 1 custom model, 1 drop-in name, 2 chunks, 2 tries, 1 end of the server or foreign change | 2.1 M | what is installed is the catalog's; nothing orphaned; a refresh agrees; implements `OperationLedger` |
| `realtime` | 2 connections, 3 events | 0.4 M | slot and item; one final event; deltas; events and leaving are served |
| `lifecycle` | 2 servers, 2 commands of 9 kinds, 2 ports, kills, failed writes, slow answers | 2.0 M | record, stop |
| `requests` | 2 clients, 4 models with different capabilities, 4 modes, 3 networks | 1.1 M | answers, what is shown, the network gate |
| `opening` | 3 starts at a time, any number of them, schemas 1 to 3 | 1.9 M | the data is served, and copied before it is changed |

The bounds are the smallest with every interaction: three requests make an entry in the middle of a list
and a newcomer behind it; two updates let the pruning of one meet the arming of the other; one fault and
one crash reach every pair of a failing step and an interrupted recovery; two administrative callers are
enough for each pair of operations (three would only queue for the same lock), and two models for a swap.
Operations of the store meet in pairs, over one model or one path; two chunks make a partial file and a
complete one, two tries a retry and the last one. Two connections make one that holds the stream slot and
one that is refused it; three events commit an item, react to it and start the next. A server, its
successor and two commands are what a stale record needs. Three models cover the combinations of
detecting, translating and timestamps that the plan tells apart, and a fourth is Granite. Three starts
are one that moves a folder and two that looked before, one of which makes an empty folder the other
finds. Schemas 1 to 3 have the one without a version, a step and a version to skip.

`CHECK_DEADLOCK FALSE` is set where a system may be idle for good once budgets are spent. Symmetry
is used in safety runs only.

No run of the update leaves out a failure or an order of installs: where the code breaks a property, the
property says so by `slips`. `update_liveness` has no server start by the user beside a server that may
run from the beginning; with one it holds as well (1.6 M states, more than five minutes).

Fairness. **Queue** (weak): the owner of the slot goes on (workers return, spawned tasks are polled)
and a dropped waiter's entry is removed; nobody is assumed to arrive or give up. **Update** (weak): live
processes go on, and a user whose update is pending logs on again (the recovery task runs at logon); none
for installs, starts, client writes or kills. **Residency** (weak): the startup thread, requests and
operations go on; none for calls, disconnects, cancellations or expired waits. **Realtime** (weak): tasks
are polled, threads run, and the wait for a batch permit ends; none for clients. **Requests**: weak for the
recheck and each request's steps; strong for its turn, which is what `WaitersServed` gives. `WaitersServed`
and `EveryCallEnds` except the case where interactive turns keep coming, which the priority
documents. The store, lifecycle and data folder have safety properties only: their calls end by
returning, and what others do to the folder or the port has no bound.

## 4. Findings

`residency_reported`: the loaded model and the loading status change under two locks
(`src/engine.rs:103`), and readers read them in the same order; an update validated in that moment
is rolled back although its model loaded.

Other places where the code and its documentation disagree, met while modelling. They have no run;
where a property names the case, or an input of a module brings it out, it is said.

- `src/queue.rs:286`: `acquire_for_model` drops a granted permit when a stream has leased its model
  and queues again behind everybody, against "served in arrival order within a class".
- `src/update_transaction.rs:103`: a failed save of `Committed` starts a rollback on a disarmed
  journal: starts and writes are admitted while it replaces files, and interrupted it ends as "restored" with
  the new executable. (`"commitUnsaved"` in `slips`.)
- `src/update_transaction.rs:746`: the finished worker prunes work folders after it released
  `update.lock`, on a journal read before the next install armed; the folder it takes may be the one just staged.
  Every later save of that transaction fails and `recovery.exe` is gone, so the update need not end and its
  task stays registered. (`"folderTaken"` in `slips`.)
- `src/update_transaction.rs:687`: before the executable is renamed it is the image of the waiting
  CLI, and a rollback would rename over it.
- `src/download.rs:332`: the answer to a cancelled download is acted on before the next look at the
  cancellation; it may truncate the `.part` that the next install has hashed and is about to rename, which
  is then installed as it is, against "checks the immutable revision/size/SHA-256 before a model is
  trusted" (`docs/client-contract.md:350-351`). `InstalledIsCatalog` names it (`tampered`).
- `src/dropin.rs:561`: a refresh whose folder is missing completes with an empty result and looks at no row: rows of
  files that are gone stay registered and unflagged, against "a previously registered file that
  disappeared is unregistered" (`src/dropin.rs:16`). `RefreshAgrees` names it (`FoundNoFolder`).
- `src/dropin.rs:176`: `import_user` is missing from the sources a refresh takes for managed; it
  turns the row of such a model into a drop-in's, and a later removal leaves the file.
- `src/bin/server.rs:230`: `start` and `status` remove a record they found stale without holding the lock;
  a server that started meanwhile runs and cannot be found (`docs/client-contract.md:63-65`). `RecordKept`
  names this exception.
- `src/app.rs:252`: two first starts after an upgrade may both look for the old folder; the one that is
  late makes a second, empty one, against the comment above it. `ServesTheData` names it (`overtaken`).
- `src/store.rs:631`: the version is set after the transaction, not in it. A start that dies in between
  leaves a migrated database that an older executable opens (`README.md:452-456`) and that the next
  start copies over the copy of the old one. `CopiedBeforeChange` names it (`cut`).
- `src/app.rs:368`: a start that dies between creating a token file and writing it leaves an empty
  one, and every later start fails with "Invalid token file".
- `src/realtime.rs:655`: the idle timeout discards an item already committed, whose commit the contract
  answers with `completed` (`docs/client-contract.md:807`). `OneFinalEvent` names the case.
- `src/realtime.rs:569`: when the resampler cannot be flushed, the commit answers with an error and leaves the item
  committed but not finalized. Its worker waits for commands, the client's next event waits in `settle` for the worker, and from
  then on the stream slot is lost to everybody, against the same line of the contract. `ClientIsServed` names it (`Hangs`).
- `src/run_plan.rs:254`: a hint that is in the model's list is reported as applied, also for Granite, whose engine "never
  reads the language parameter" (`src/capabilities.rs:295-298`). `LanguageHonoured` names it.
- `src/model_cli.rs:86`: a connection does not check `service` of the health answer
  (`README.md:317-319`), so it may talk to another program.
- `src/format.rs:41`: no plan carries the evidence for it, so no answer says `translated_to_english`
  (`docs/client-contract.md:773`).
- `src/dropin.rs:54`: a refresh ignores its own cancellation (`README.md:93-94`).
- `src/dropin.rs:297`: a changed file that has become a catalog model's is registered under its old id,
  not the model's (`src/dropin.rs:10-12`). If the old id is a custom model's and another file now has
  that content (two drop-ins that were swapped), the same refresh gives the row to the other file, and the
  first ends unregistered although the refresh has read it. (`TableAgrees` speaks of the files met without
  a row; with two foreign changes TLC finds the case if it speaks of all.)

Behaviour that no document promises otherwise and that a maintainer may want to know: a text answer is
the bare transcript, so a hint nobody speaks and a transcript cut short pass unsaid; a truncated retry is
reported as `engine_unsupported`; the capabilities cached with the model in memory never get the mark of
a rejection; a request admitted from another device goes on after the network turned public, the gate
being at its arrival, and the report is up to 35 s old; a server bound to an address of its own LAN
answers 403 to its own `stop`; `stop` takes the lock for a moment, in which a starting server exits as
"already running"; `uninstall` deletes a service 20 s after asking it to stop, stopped or not.

## 5. Proofs

`InferenceQueueProofs` proves, for any sets of requests, streams and models and any limits:
`TypeCorrect`, `SlotNeverLost`, `WaitersKept`, `LeaseIsOfSlotHolder`, `LeaseExcludesRuns` and
`NobodyOvertakes`. They follow from `QueueInvariant`, the inductive invariant `QueueInv`: type
correctness, slot accounting, one stream, the lease, no run on a leased model, and `ListsOK`. The
last is what the checked invariants lack to be inductive: entries are distinct, each waiting
future is in the list of its class, and every entry belongs to a caller that waits or is leaving.
Without it a hand-over could wake a caller that already owns the slot. The lemmas go from lists
(`AppendEntry`, `PoppedEntries`, `WithoutEntry`) over the hand-over (`DropPermitEffect`,
`DropPermitInv`) to one lemma per group of actions, joined in `NextInv`. `NobodyOvertakes` is an
action property, from the invariant and `GainsSlot`: only the first live entry or a caller that
finds no entry at all gains the slot. `BoundNeverExceeded` (the bound at which a caller joined also
bounds what stands before it from then on) holds because entries only advance: `Advances` says that
every entry of a list after a step stood at the same place or a later one before it, and each of
`Popped`, `Without` and a refused or accepted join keeps it.

`ModelResidencyProofs` proves, for any models, drop-ins, requests, operations and readers:
`TypeCorrect`, `RunsUseAskedModel`, `CondemnedStayOut`, `DefaultHasRow` and `UnloadsWait`, from
`ResidencyInvariant`. Its inductive invariant `ResidencyInv` adds to the checked properties who
holds what: `SlotHeld` (whoever is past the queue owns the slot), `LockHeld` (whoever is past the
selection lock holds it) and `OpPlaces` (an operation stands only where its kind does). `DefaultKept`
needs that a removal about to delete its row is not of the default, and that a selection that
passed its check still finds the row: only the selection lock makes that so. `CondemnedKept` needs
`Doomed` (between the step that condemned a model and the one that quarantines it, the row is gone
and memory does not hold the model again), `NoRow` and `NobodyLoads` (nobody is at the load, whose
check of the row came before). Each part has a lemma of its own with one step per group of actions;
`EndOpEffect`, `PassType`, `WaitType` and `LeaveType` say what the shared endings and the slot do.
The assumptions are `ModelsAssumption`, `CallersAssumption` and `MaxOpsAssumption`, which TLC
evaluates in every run of that component.

`DataFolderProofs` proves, for any number of starts and any newest schema: `DataServed` and `Copied`,
from `OpeningInvariant`. Its inductive invariant `OpeningInv` has two halves. By the place of a start:
whoever is past the locks owns the folder it works on (`OwnFolder`), so nobody else changes it
(`OthersKeep`), and what it has done there stands (`TokensMade`, `SchemaAhead`, `Migrating`); a schema that is
not that of the version belongs to a start about to set the version, or to one that died there
(`LastSet`), so that a copy made otherwise is of what the version stands for. By the two
names: what a start goes by is true or the start is overtaken (`LooksTrue`), whoever looks while another is
overtaken is overtaken too (`LooksAlike`), and the new name holds what there is to serve once both exist
(`TwoNames`). Without the second half a start could make an empty folder beside the one with the data.
`FoldersStay` says that only a move takes a folder away; `MoveNames` and `StayNames` keep the two names
over a move and over any other step. The assumptions are `SchemaAssumption`, `StartersAssumption` and
`NoneAssumption`, which TLC evaluates in `opening`.

`RealtimeConnectionProofs` proves, for any connections and any number of events: `SlotFollows`,
`TranscriptIsDeltas` and `FinalEventIsOne`. The client hears what the worker did as late as the update
channel is long, so the three properties are inductive only together with what the channel holds: in
`RealtimeInv`, `ChannelKept` orders the updates (nothing after `ended`, one final update before it,
deltas that grow), `Announced` says what a worker at each place can have sent, and `FinalKept`,
`DeltaKept` and `SlotKept` relate the three properties to the updates that are still to be delivered. An
item that was committed but not finalized (the flush failed) still waits: `ItemKept` and `WorkerKept` go
by `finalized`, which implies `committed` and not the reverse. `Numbered` and `WorkerKept` keep a
discarded item's worker apart from the item that comes next. Lemmas about lists (`Grown`, `Shrunk`,
`OrderedGrown`, `OrderedShrunk`) and about the shared endings (`DropItemIs`, `GivesUpIs`) come first,
then one lemma for each handler. Assumptions: `EventsAssumption`, `NobodyAssumption`.

`ServerLifecycleProofs` proves, for any servers, commands, ports and flags: `LifecycleTypes`,
`RecordAlwaysLeads`, `StopIsTrue` and the action property `RecordIsKept`. The argument of
`LifecycleInv` is the lock: `LockHeld` says that it is held by exactly the processes in the stages
between taking and releasing it, servers and commands alike, and `GuardHeld` the same of
`update.lock` while a server starts. So a record on disk was written by a process that serves or has
served (`RecordWritten`), the one that serves is where it says (`RecordTrue`), and no two are on one
port (`PortsApart`). `MetIsOver` is what makes `stop` right: the server it met held the lock then, and
whoever has the lock since knows that it ended. Most steps of a command neither take nor release
the lock; `CommandEffects` shows it of all of them at once, and `EffectKeeps` that this keeps the invariant.
Assumptions: `PortAssumption`, `HostAssumption`, `FlagAssumption`, `ProcessAssumption`.

`RequestPipelineProofs` proves, for any clients, any models with any capabilities and any options:
`AnswersHonourAsks` and `ViewAlwaysTrue`. Its first part is about the operators of the plan: a language
is found by `SelectInSeq`, whose result is a least index (`LeastIndex`, from the well-foundedness of the
naturals) and therefore passes the test it was selected by; `PlannedIsHonoured` says of a whole plan that
it keeps to its ask, in an answer of either kind and with an engine that reads the language or not,
`RefusedIsLacking` of a refusal that the model lacks what was asked. The second part, `RequestInv`,
carries the plan of a request's own ask from the start of its worker to the answer, although the worker
outlives its handler and the model is swapped meanwhile, and says of the mark of a rejected granularity
that it is true of the model it marks (`MarkFits`). Assumptions: `ModeAssumption`, `AskAssumption`,
`CapsAssumption`, `NoneAssumption`.

`UpdateTransactionProofs` proves, for any numbers of updates, servers, writes, launches, faults and
crashes, in two layers, both over every step that can fail and every order of installs, workers and
prunings. The first speaks of all behaviours: `TypesHold` and `ServerStaysDown` follow from `CoreInv`,
the types together with the two locks. Whoever prepares or works on a transaction holds `update.lock`
(`UpdateHeld`), whoever has the database open or replaces it holds `server.lock` (`ServerHeld`), a step
after the executable changed finds the one it put there (`ExeFits`), and what a worker or the CLI carries
from one step to the next is a journal that fits its place (`MemoryTypes`). The second layer,
`UpdateInv`, holds as long as no save of `Committed` has failed (`Clean`: `UpdateHolds` is `Spec =>
[](Clean => UpdateInv)`), which is what the properties say themselves; a folder that was taken does not
break it, since it counts as present in `Folders`: `PruneKeeps` needs no folder to stay, and a step that
finds its folder gone does less than one that finds it. `TidyIs` and `CliLeaves` say what the CLI does to
the folders and the task, `SlipsStay` that a gap once met is never forgotten, so that a clean state has
only clean ones before it. From this follow, without any hypothesis, `AlwaysRecoverable`,
`AlwaysStartable`, `OutcomesAreReal` and the refinement `UpdateIsAtomic`, in which the failing commit is
a step of its own in the abstract update (`Slip`). Its heart is `Sound`, what a pending journal says of
the disk in each phase: which executable is installed, that the snapshot is there once it is recorded,
that a database newer than the executable, or torn, has a snapshot to be restored from, and that nothing
was written since it was taken. `PendingSound` says that this holds of the journal on disk and `Pends`,
`PhaseOnRecord` and `Remembered` that a worker at each of its places goes by that journal, which is what
a kill between two steps would otherwise break; `LockFits`, `CliSound` and `ImagesPinned` cover the
server that still runs while an install is prepared; `NormalSound` covers the rest of the time. The
lemmas about `Sound` are stated over any journal, executable and databases, so that they serve before and
after a step. There is one lemma for each part and in it one step for each action. For the refinement,
`ExeWaits` says that the executable changes only while a transaction is pending, `BeginsOld` that one
becomes pending only over the old version and `WritesKept` that only a client's write changes what has
been accepted: a rollback restores a database with as many writes as the one it replaces (`AcceptedIs`).
Assumptions: `BoundsAssumption` and `NullsAssumption`.

`ManagedStoreProofs` proves, for any models, drop-in names, lengths of files, retries, and numbers of
operations and faults: `StoreTyped`, `NothingIsOrphaned`, `StoreIsLedger`, `InstalledIsTheCatalog` and
`RefreshesAgree`. They stand on `StoreInv`. Its first half, `StoreTypes`, types every field of a task and
says what is in hand at each place (`ArgsFit`), and that a row of a managed source is that of a catalog
model and its file, in the table and in the snapshots that verifications and removals carry (`RowsFit`).
Its second half relates the tables to the tasks: an operation is under way, or cancelled, exactly while
its task runs (`StatesFit`), no two are under way for one model (`Alone`), nothing runs while the server
does not (`Halted`), and a removal past the lock holds it (`LockHeld`). A layer of lemmas says once what
each step does to its task (`Plain`, `Becoming`, one *Effects* lemma for each kind of operation), to the
rows (`RowMoves`) and to the folder (`FolderMoves`); the proofs cite those instead of the actions.
`NothingIsOrphaned` follows from `StatesFit`. For `StoreIsLedger` each step is shown to be one of the
ledger's or a stutter; what makes a supply complete together with its model is that a promotion inserts
only where there is no row (`ShelfGrows`). `InstalledIsTheCatalog` adds `CatalogInv`, which needs to know
more than the rows: what waits to be renamed has been hashed and nobody else writes to it, or the task
knows that it is gone (`Hashed`), which is so because a rival for the same `.part` is cancelled
(`Rivals`), has no write under way, and a late answer to it marks whoever has hashed the file
(`PartStays`); and a model whose file was lost to a removal that the end of the server cut short is
flagged by the reconciliation before the server serves, and by no verification unflagged
(`BrokenFlagged`). `RefreshesAgree` is an action property; its invariant `Undisturbed` says of a refresh
beside which nothing moves that every row is accurate or still to be looked at (`RowsMet`), and every
file it has met is registered under the id of its content, listed, or in hand (`FilesMet`). TLC checked
it as an invariant of `store_safety`'s instance first. Assumptions: `NamesAssumption`,
`ChunksAssumption`, `BoundsAssumption` and `NoneAssumption`, which TLC evaluates in `store_safety`.

Only model-checked: the refinement of `InferenceSlot` (it speaks of `SelectSeq`, which the library
defines by recursion), and all liveness (`WaitersServed`, `UpdateEnds`, `EveryCallEnds`,
`ClientIsServed`, `RemoteShutOut`), which, like ENABLED and fairness, is beyond the prover. No module
uses a RECURSIVE operator. Every other property of a passing run is a theorem.

## 6. Not modelled, and plan

Not modelled, with the reason for each part in `PROJECT.json`: inference, audio decoding and voice
activity detection (numeric code without a protocol); the catalog (constant data); the release check and
the replacement that keeps a `.old` copy; system facts; the six layouts of a response; argument parsing
and printing; access control lists, elevation and the commands that ask Windows and Tailscale, whose
answers are choices. Within the modelled parts: a panic of a realtime worker, reuse of a pid, more than
one listener per port, the columns of the schema, disk space, and a download that starts and completes
inside the synchronous end of a verification. Five hazards in `PROJECT.json` have no property, each with
the reason.

Left to prove: `ImplementsSlot`, with a definition of the queue's filter as a function in place of
`SelectSeq`.
