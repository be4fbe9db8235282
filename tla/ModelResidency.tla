--------------------------- MODULE ModelResidency ---------------------------
(***************************************************************************)
(* Which model of stt-server is in memory, which is the default and which  *)
(* are registered: App::loaded, App::loading, the settings and installed   *)
(* tables, and those who change them.                                      *)
(*                                                                         *)
(* Requests bind or swap the model they name while they hold the inference *)
(* slot (InferenceSlot, which InferenceQueue implements).  Administrative  *)
(* operations take the selection lock, some of them the slot as well; the  *)
(* startup load and the refresh of the drop-in folder take neither.  A     *)
(* lock of App::loaded or App::loading is a step of its own, and so is an  *)
(* await; reads of the database that follow one another are one step.      *)
(***************************************************************************)
EXTENDS Integers, Sequences

CONSTANTS Models,
          DropIns,    \* the models of the user's drop-in folder
          Requests,   \* batch requests, and realtime items that begin
          Admins,     \* administrative calls and background operations
          Readers,    \* readiness calls and update_validation
          NoModel, Nobody,
          MaxOps      \* bound: administrative operations started

ASSUME ModelsAssumption  == DropIns \subseteq Models /\ NoModel \notin Models
ASSUME CallersAssumption == Requests \cap Admins = {} /\ Nobody \notin Requests \cup Admins
ASSUME MaxOpsAssumption  == MaxOps \in Nat

VARIABLES owner, urgent, ordinary,   \* the inference slot
          loaded,      \* App::loaded, the id of the LoadedModel
          loading,     \* App::loading
          preload,     \* the model the startup thread was given
          startup,     \* where that thread stands
          selected,    \* settings.selected_model
          installed,   \* what the row of each model says
          quarantined, \* managed files that failed verification
          selection,   \* who holds the selection lock
          pc, arg,     \* where each process stands, the model it is about
          op,          \* what each administrative process does
          bound,       \* the model whose handle a request has cloned
          active,      \* verify operations that are queued or running
          probe,       \* what each reader of loaded, then loading, reports
          left         \* administrative operations left

slot   == <<owner, urgent, ordinary>>
memory == <<loaded, loading, preload, startup>>
tables == <<selected, installed, quarantined>>
procs  == <<pc, arg, op, bound, active>>
vars   == <<slot, memory, tables, selection, procs, probe, left>>

Callers == Requests \cup Admins

Slot == INSTANCE InferenceSlot

Ops == {"none", "select", "deselect", "unload", "remove", "verify", "refresh"}

(* Requests: "bind" App::loaded is read, "look" App::loading, "sleep" the  *)
(* poll interval, "check" the installed row, "load" load_engine runs.      *)
(* Administrators: "want" the selection lock, "ask" for the slot, "act"    *)
(* with all locks, "drop" the loaded model.                                *)
Places == {"idle", "asking", "queued", "bind", "look", "sleep", "check", "load",
           "run", "want", "checkOps", "checkRow", "store", "swap", "delete",
           "ask", "act", "drop", "move", "insert", "hash", "good", "unreadable",
           "scan", "found"}

Rows == {"none", "suspect", "ok"}   \* no row; needs_verification; callable

Init ==
  /\ Slot!Init
  /\ installed \in [Models -> {"none", "ok"}]
  /\ selected \in {m \in Models : installed[m] = "ok"} \cup {NoModel}
  /\ preload = selected
  /\ loading = preload
  /\ startup = IF preload = NoModel THEN "off" ELSE "load"
  /\ loaded = NoModel
  /\ quarantined = {}
  /\ selection = Nobody
  /\ pc = [c \in Callers |-> "idle"]
  /\ arg = [c \in Callers |-> NoModel]
  /\ op = [a \in Admins |-> "none"]
  /\ bound = [r \in Requests |-> NoModel]
  /\ active = {}
  /\ probe = [d \in Readers |-> "idle"]
  /\ left = MaxOps
-----------------------------------------------------------------------------
Goto(c, place) == pc' = [pc EXCEPT ![c] = place]

(* Mutant of EndRequest: the handle of the model outlives the request.     *)
EndRequestKeepingHandle(r) ==
  /\ Goto(r, "idle")
  /\ arg' = [arg EXCEPT ![r] = NoModel]
  /\ UNCHANGED bound

(* The future of a request is gone, the permit with it.                    *)
EndRequest(r) ==
  /\ Goto(r, "idle")
  /\ bound' = [bound EXCEPT ![r] = NoModel]
  /\ arg' = [arg EXCEPT ![r] = NoModel]

(* An administrative operation ends: its permit, its lock, its record.     *)
EndOp(a) ==
  /\ Goto(a, "idle")
  /\ arg' = [arg EXCEPT ![a] = NoModel]
  /\ op' = [op EXCEPT ![a] = "none"]
  /\ active' = active \ {a}
  /\ selection' = IF selection = a THEN Nobody ELSE selection
  /\ IF owner = a THEN Slot!Pass ELSE UNCHANGED slot
-----------------------------------------------------------------------------
(* Requests: transcribe_or_translate and bind_or_swap_model.               *)

(* The named or default model is installed and verified right now.         *)
Arrive(r) ==
  /\ pc[r] = "idle"
  /\ \E m \in Models : installed[m] = "ok" /\ arg' = [arg EXCEPT ![r] = m]
  /\ Goto(r, "asking")
  /\ UNCHANGED <<slot, memory, tables, selection, op, bound, active, probe, left>>

Ask(r) ==
  /\ pc[r] = "asking"
  /\ \/ Slot!Take(r) /\ Goto(r, "bind")
     \/ Slot!Wait(r) /\ Goto(r, "queued")
  /\ UNCHANGED <<memory, tables, selection, arg, op, bound, active, probe, left>>

Granted(r) ==
  /\ pc[r] = "queued" /\ owner = r
  /\ Goto(r, "bind")
  /\ UNCHANGED <<slot, memory, tables, selection, arg, op, bound, active, probe, left>>

(* The wait times out or the client leaves, granted or not.                *)
GiveUp(r) ==
  /\ pc[r] = "queued"
  /\ IF owner = r THEN Slot!Pass ELSE Slot!Leave(r)
  /\ EndRequest(r)
  /\ UNCHANGED <<memory, tables, selection, op, active, probe, left>>

(* The handle of the loaded model is cloned, if it is the one asked for.   *)
Bind(r) ==
  /\ pc[r] = "bind"
  /\ IF loaded = arg[r]
     THEN Goto(r, "run") /\ bound' = [bound EXCEPT ![r] = loaded]
     ELSE Goto(r, "look") /\ UNCHANGED bound
  /\ UNCHANGED <<slot, memory, tables, selection, arg, op, active, probe, left>>

Look(r) ==
  /\ pc[r] = "look"
  /\ Goto(r, IF loading = arg[r] THEN "sleep" ELSE "check")
  /\ UNCHANGED <<slot, memory, tables, selection, arg, op, bound, active, probe, left>>

Wake(r) ==
  /\ pc[r] = "sleep"
  /\ Goto(r, "bind")
  /\ UNCHANGED <<slot, memory, tables, selection, arg, op, bound, active, probe, left>>

(* Mutant of CheckInstalled: the row was checked before the queue.         *)
CheckNothing(r) ==
  /\ pc[r] = "check"
  /\ Goto(r, "load")
  /\ UNCHANGED <<slot, memory, tables, selection, arg, op, bound, active, probe, left>>

CheckInstalled(r) ==
  /\ pc[r] = "check" /\ installed[arg[r]] = "ok"
  /\ Goto(r, "load")
  /\ UNCHANGED <<slot, memory, tables, selection, arg, op, bound, active, probe, left>>

(* Mutant of SwapIn: the request runs on App::loaded without another look. *)
SwapInAndRun(r) ==
  /\ pc[r] \in {"load", "swap"}
  /\ IF pc[r] = "load"
     THEN loaded' = arg[r] /\ Goto(r, "swap") /\ UNCHANGED bound
     ELSE Goto(r, "run") /\ bound' = [bound EXCEPT ![r] = loaded] /\ UNCHANGED loaded
  /\ UNCHANGED <<slot, loading, preload, startup, tables, selection, arg, op, active, probe, left>>

(* load_engine returns the model, and it is swapped in.                    *)
SwapIn(r) ==
  /\ pc[r] = "load"
  /\ loaded' = arg[r]
  /\ Goto(r, "bind")
  /\ UNCHANGED <<slot, loading, preload, startup, tables, selection, arg, op, bound, active,
                 probe, left>>

(* The request ends without a run: the poll times out, the row is gone or  *)
(* not verified, the load fails, or the client leaves and the result of    *)
(* the load is dropped.                                                    *)
Fail(r) ==
  /\ \/ pc[r] \in {"sleep", "load"}
     \/ pc[r] = "check" /\ installed[arg[r]] # "ok"
  /\ Slot!Pass
  /\ EndRequest(r)
  /\ UNCHANGED <<memory, tables, selection, op, active, probe, left>>

(* The worker returns, or the plan is refused: the permit drops.           *)
Finish(r) ==
  /\ pc[r] = "run"
  /\ Slot!Pass
  /\ EndRequest(r)
  /\ UNCHANGED <<memory, tables, selection, op, active, probe, left>>
-----------------------------------------------------------------------------
(* The startup load: spawn_tracked_load's thread.                          *)

StartupLoaded ==
  /\ startup = "load"
  /\ loaded' = preload
  /\ startup' = "loaded"
  /\ UNCHANGED <<slot, loading, preload, tables, selection, procs, probe, left>>

StartupFails ==
  /\ startup = "load"
  /\ startup' = "failed"
  /\ UNCHANGED <<slot, loaded, loading, preload, tables, selection, procs, probe, left>>

(* Mutant of ClearStatus: only a successful load clears the status.        *)
ClearStatusIfLoaded ==
  /\ startup = "loaded" /\ loading # NoModel
  /\ loading' = NoModel
  /\ UNCHANGED <<slot, loaded, preload, startup, tables, selection, procs, probe, left>>

ClearStatus ==
  /\ startup \in {"loaded", "failed"} /\ loading # NoModel
  /\ loading' = NoModel
  /\ UNCHANGED <<slot, loaded, preload, startup, tables, selection, procs, probe, left>>

(* readiness and update_validation: App::loaded is read ...                *)
ReadLoaded(d) ==
  /\ probe[d] # "nothing loaded"
  /\ probe' = [probe EXCEPT ![d] = IF loaded = NoModel THEN "nothing loaded" ELSE "ready"]
  /\ UNCHANGED <<slot, memory, tables, selection, procs, left>>

(* ... and, when nothing was loaded, App::loading.                         *)
ReadLoading(d) ==
  /\ probe[d] = "nothing loaded"
  /\ probe' = [probe EXCEPT ![d] = IF loading = NoModel THEN "not loaded" ELSE "loading"]
  /\ UNCHANGED <<slot, memory, tables, selection, procs, left>>
-----------------------------------------------------------------------------
(* Administrative calls under the selection lock.                          *)

Begin(a) ==
  /\ pc[a] = "idle" /\ left > 0
  /\ \E what \in {"select", "deselect", "unload", "remove"},
        m \in Models :
       /\ op' = [op EXCEPT ![a] = what]
       /\ arg' = [arg EXCEPT ![a] = m]
  /\ Goto(a, "want")
  /\ left' = left - 1
  /\ UNCHANGED <<slot, memory, tables, selection, bound, active, probe>>

AfterLock == [select |-> "look", remove |-> "checkOps", deselect |-> "ask",
              unload |-> "ask", verify |-> "ask"]

Lock(a) ==
  /\ pc[a] = "want" /\ selection = Nobody
  /\ selection' = a
  /\ Goto(a, AfterLock[op[a]])
  /\ UNCHANGED <<slot, memory, tables, arg, op, bound, active, probe, left>>

(* The client leaves while its call waits for the lock; a background       *)
(* verification has no client.                                             *)
Abandon(a) ==
  /\ pc[a] = "want" /\ op[a] # "verify"
  /\ EndOp(a)
  /\ UNCHANGED <<memory, tables, bound, probe, left>>

(* The call is refused, its load fails or its client leaves meanwhile, its *)
(* file cannot be moved away.                                              *)
Refuse(a) ==
  /\ \/ pc[a] = "look" /\ loading # NoModel
     \/ pc[a] = "checkRow" /\ op[a] = "select" /\ installed[arg[a]] # "ok"
     \/ pc[a] = "load"
     \/ pc[a] = "checkOps" /\ (\E v \in active : arg[v] = arg[a])
     \/ pc[a] = "checkRow" /\ op[a] = "remove"
          /\ (selected = arg[a] \/ installed[arg[a]] = "none")
     \/ pc[a] = "delete" /\ arg[a] \notin DropIns
  /\ EndOp(a)
  /\ UNCHANGED <<memory, tables, bound, probe, left>>

(* select_model: no load under way, a callable model, the load, and then   *)
(* the default and App::loaded.                                            *)
Advance(a) ==
  /\ \/ pc[a] = "look" /\ loading = NoModel /\ Goto(a, "checkRow")
     \/ pc[a] = "checkRow" /\ op[a] = "select" /\ installed[arg[a]] = "ok" /\ Goto(a, "load")
     \/ pc[a] = "load" /\ Goto(a, "store")
     \/ pc[a] = "checkOps" /\ ~(\E v \in active : arg[v] = arg[a]) /\ Goto(a, "checkRow")
     \/ pc[a] = "checkRow" /\ op[a] = "remove"
          /\ selected # arg[a] /\ installed[arg[a]] # "none" /\ Goto(a, "delete")
  /\ UNCHANGED <<slot, memory, tables, selection, arg, op, bound, active, probe, left>>

StoreDefault(a) ==
  /\ pc[a] = "store"
  /\ selected' = arg[a]
  /\ Goto(a, "swap")
  /\ UNCHANGED <<slot, memory, installed, quarantined, selection, arg, op, bound, active,
                 probe, left>>

SwapDefault(a) ==
  /\ pc[a] = "swap"
  /\ loaded' = arg[a]
  /\ EndOp(a)
  /\ UNCHANGED <<loading, preload, startup, tables, bound, probe, left>>

(* Mutant of DeleteRow: the lock was not held since the default was read.  *)
DeleteRowUnlocked(a) ==
  /\ pc[a] = "want" /\ op[a] = "remove" /\ selected # arg[a]
  /\ installed' = [installed EXCEPT ![arg[a]] = "none"]
  /\ EndOp(a)
  /\ UNCHANGED <<memory, selected, quarantined, bound, probe, left>>

(* remove_model: the file, unless it is a drop-in, and the row.            *)
DeleteRow(a) ==
  /\ pc[a] = "delete"
  /\ installed' = [installed EXCEPT ![arg[a]] = "none"]
  /\ EndOp(a)
  /\ UNCHANGED <<memory, selected, quarantined, bound, probe, left>>
-----------------------------------------------------------------------------
(* With the slot as well: deselect_model, unload_model, and a verification *)
(* that found a mismatch.                                                  *)

(* Mutant of AskSlot: the model is dropped without waiting for a run.      *)
AskNothing(a) ==
  /\ pc[a] = "ask"
  /\ Goto(a, "act")
  /\ UNCHANGED <<slot, memory, tables, selection, arg, op, bound, active, probe, left>>

AskSlot(a) ==
  /\ pc[a] = "ask"
  /\ \/ Slot!Take(a) /\ Goto(a, "act")
     \/ Slot!Wait(a) /\ UNCHANGED urgent /\ Goto(a, "queued")
  /\ UNCHANGED <<memory, tables, selection, arg, op, bound, active, probe, left>>

GrantedOp(a) ==
  /\ pc[a] = "queued" /\ owner = a
  /\ Goto(a, "act")
  /\ UNCHANGED <<slot, memory, tables, selection, arg, op, bound, active, probe, left>>

(* wait_for_idle_inference gives up, or the client does; a verification    *)
(* has no deadline.                                                        *)
GiveUpOp(a) ==
  /\ pc[a] = "queued" /\ op[a] # "verify"
  /\ Goto(a, "idle")
  /\ arg' = [arg EXCEPT ![a] = NoModel]
  /\ op' = [op EXCEPT ![a] = "none"]
  /\ selection' = Nobody
  /\ IF owner = a THEN Slot!Pass ELSE Slot!Leave(a)
  /\ UNCHANGED <<memory, tables, bound, active, probe, left>>

ClearDefault(a) ==
  /\ pc[a] = "act" /\ op[a] = "deselect"
  /\ selected' = NoModel
  /\ Goto(a, "drop")
  /\ UNCHANGED <<slot, memory, installed, quarantined, selection, arg, op, bound, active,
                 probe, left>>

Unload(a) ==
  /\ \/ pc[a] = "act" /\ op[a] = "unload"
     \/ pc[a] = "drop" /\ op[a] = "deselect"
  /\ loaded' = NoModel
  /\ EndOp(a)
  /\ UNCHANGED <<loading, preload, startup, tables, bound, probe, left>>

Without(m) == selected' = IF selected = m THEN NoModel ELSE selected

(* The verification's second half: an operation cancelled meanwhile ends,  *)
(* a drop-in is only marked, a managed model loses its row ...             *)
Condemn(a) ==
  /\ pc[a] = "act" /\ op[a] = "verify"
  /\ \/ a \notin active /\ EndOp(a) /\ UNCHANGED <<selected, installed>>
     \/ /\ a \in active /\ arg[a] \in DropIns
        /\ installed' = [installed EXCEPT ![arg[a]] = IF @ = "none" THEN @ ELSE "suspect"]
        /\ EndOp(a)
        /\ UNCHANGED selected
     \/ /\ a \in active /\ arg[a] \notin DropIns
        /\ installed' = [installed EXCEPT ![arg[a]] = "none"]
        /\ Without(arg[a])
        /\ Goto(a, "drop")
        /\ UNCHANGED <<slot, selection, arg, op, active>>
  /\ UNCHANGED <<memory, quarantined, bound, probe, left>>

(* ... is dropped from memory (a refresh does that too) ...                *)
DropIfLoaded(a) ==
  /\ pc[a] = "drop" /\ op[a] \in {"verify", "refresh"}
  /\ loaded' = IF loaded = arg[a] THEN NoModel ELSE loaded
  /\ IF op[a] = "verify"
     THEN Goto(a, "move") /\ UNCHANGED <<slot, selection, arg, op, active>>
     ELSE EndOp(a)
  /\ UNCHANGED <<loading, preload, startup, tables, bound, probe, left>>

(* ... and its file goes to the quarantine.                                *)
Quarantine(a) ==
  /\ pc[a] = "move"
  /\ quarantined' = quarantined \cup {arg[a]}
  /\ EndOp(a)
  /\ UNCHANGED <<memory, selected, installed, bound, probe, left>>
-----------------------------------------------------------------------------
(* Background operations before they need a lock.                          *)

BeginVerify(a) ==
  /\ pc[a] = "idle" /\ left > 0
  /\ \E m \in Models : installed[m] # "none" /\ arg' = [arg EXCEPT ![a] = m]
  /\ op' = [op EXCEPT ![a] = "verify"]
  /\ Goto(a, "insert")
  /\ left' = left - 1
  /\ UNCHANGED <<slot, memory, tables, selection, bound, active, probe>>

InsertVerify(a) ==
  /\ pc[a] = "insert"
  /\ IF \E v \in active : arg[v] = arg[a]
     THEN EndOp(a)
     ELSE /\ active' = active \cup {a}
          /\ Goto(a, "hash")
          /\ UNCHANGED <<slot, selection, arg, op>>
  /\ UNCHANGED <<memory, tables, bound, probe, left>>

CancelVerify(a) ==
  /\ a \in active
  /\ active' = active \ {a}
  /\ UNCHANGED <<slot, memory, tables, selection, pc, arg, op, bound, probe, left>>

(* The file matches, cannot be read safely, or differs.                    *)
Hashed(a) ==
  /\ pc[a] = "hash"
  /\ IF a \in active
     THEN /\ \E place \in {"good", "unreadable", "want"} : Goto(a, place)
          /\ UNCHANGED <<slot, selection, arg, op, active>>
     ELSE EndOp(a)
  /\ UNCHANGED <<memory, tables, bound, probe, left>>

MarkRow(a) ==
  /\ pc[a] \in {"good", "unreadable"}
  /\ installed' = [installed EXCEPT ![arg[a]] =
       IF @ = "none" THEN @ ELSE IF pc[a] = "good" THEN "ok" ELSE "suspect"]
  /\ EndOp(a)
  /\ UNCHANGED <<memory, selected, quarantined, bound, probe, left>>

(* The registered drop-ins are listed; others are found in the folder.     *)
BeginRefresh(a) ==
  /\ pc[a] = "idle" /\ left > 0
  /\ \E m \in DropIns : /\ arg' = [arg EXCEPT ![a] = m]
                        /\ Goto(a, IF installed[m] = "none" THEN "found" ELSE "scan")
  /\ op' = [op EXCEPT ![a] = "refresh"]
  /\ left' = left - 1
  /\ UNCHANGED <<slot, memory, tables, selection, bound, active, probe>>

(* A drop-in is registered, or not supported.                              *)
Register(a) ==
  /\ pc[a] = "found"
  /\ \/ installed' = [installed EXCEPT ![arg[a]] = "ok"]
     \/ UNCHANGED installed
  /\ EndOp(a)
  /\ UNCHANGED <<memory, selected, quarantined, bound, probe, left>>

(* One that is registered changed and is registered again, cannot be read  *)
(* for now, or has vanished.                                               *)
Rescan(a) ==
  /\ pc[a] = "scan"
  /\ \/ /\ \/ installed' = [installed EXCEPT ![arg[a]] = "ok"]
           \/ installed' = [installed EXCEPT ![arg[a]] = IF @ = "none" THEN @ ELSE "suspect"]
        /\ EndOp(a)
        /\ UNCHANGED selected
     \/ /\ installed' = [installed EXCEPT ![arg[a]] = "none"]
        /\ Without(arg[a])
        /\ Goto(a, "drop")
        /\ UNCHANGED <<slot, selection, arg, op, active>>
  /\ UNCHANGED <<memory, quarantined, bound, probe, left>>

(* promote_verified_model: a download or an import completes.  It does not *)
(* fit, from its start on, between two steps of a verification that has no *)
(* await between them.                                                     *)
Promote ==
  /\ left > 0 /\ left' = left - 1
  /\ \E m \in Models \ DropIns :
       /\ installed[m] = "none" /\ ~(\E v \in active : arg[v] = m)
       /\ \A v \in Admins : arg[v] = m => pc[v] \notin {"drop", "move"}
       /\ installed' = [installed EXCEPT ![m] = "ok"]
       /\ quarantined' = quarantined \ {m}
  /\ UNCHANGED <<slot, memory, selected, selection, procs, probe>>
-----------------------------------------------------------------------------
RequestStep(r) == \/ Ask(r) \/ Granted(r) \/ Bind(r) \/ Look(r) \/ Wake(r)
                  \/ CheckInstalled(r) \/ SwapIn(r) \/ Fail(r) \/ Finish(r)

AdminStep(a) == \/ Lock(a) \/ Refuse(a) \/ Advance(a) \/ StoreDefault(a) \/ SwapDefault(a)
                \/ DeleteRow(a) \/ AskSlot(a) \/ GrantedOp(a) \/ ClearDefault(a)
                \/ Unload(a) \/ Condemn(a) \/ DropIfLoaded(a) \/ Quarantine(a)
                \/ InsertVerify(a) \/ Hashed(a) \/ MarkRow(a) \/ Register(a) \/ Rescan(a)

Startup == StartupLoaded \/ StartupFails \/ ClearStatus

Next ==
  \/ Startup \/ Promote
  \/ \E d \in Readers : ReadLoaded(d) \/ ReadLoading(d)
  \/ \E r \in Requests : RequestStep(r) \/ Arrive(r) \/ GiveUp(r)
  \/ \E a \in Admins : \/ AdminStep(a) \/ Begin(a) \/ Abandon(a) \/ GiveUpOp(a)
                       \/ BeginVerify(a) \/ CancelVerify(a) \/ BeginRefresh(a)

Spec == Init /\ [][Next]_vars

(* Futures are polled, loads, hashes and runs return.  Nothing makes a     *)
(* client call, leave or probe.                                            *)
Fairness == /\ WF_vars(Startup)
            /\ \A r \in Requests : WF_vars(RequestStep(r))
            /\ \A a \in Admins : WF_vars(AdminStep(a))

FairSpec == Spec /\ Fairness
-----------------------------------------------------------------------------
(* Every variable keeps the shape the code gives it.                       *)
TypeOK ==
  /\ owner \in Callers \cup {Nobody}
  /\ urgent \in Seq(Callers) /\ ordinary \in Seq(Callers)
  /\ {loaded, loading, preload, selected} \subseteq Models \cup {NoModel}
  /\ startup \in {"off", "load", "loaded", "failed"}
  /\ installed \in [Models -> Rows]
  /\ quarantined \subseteq Models
  /\ selection \in Admins \cup {Nobody}
  /\ pc \in [Callers -> Places]
  /\ arg \in [Callers -> Models \cup {NoModel}]
  /\ op \in [Admins -> Ops]
  /\ bound \in [Requests -> Models \cup {NoModel}]
  /\ active \subseteq Admins
  /\ probe \in [Readers -> {"idle", "nothing loaded", "ready", "loading", "not loaded"}]
  /\ left \in 0..MaxOps
  /\ \A c \in Callers : pc[c] = "idle" <=> arg[c] = NoModel
  /\ \A r \in Requests : bound[r] # NoModel => pc[r] = "run"

(* "Each request keeps the model it resolved to": whatever a selection, an *)
(* unload or the startup load swaps in while it queues, loads or looks, a  *)
(* run uses the model the request asked for.                               *)
RunsOnAskedModel ==
  \A r \in Requests : pc[r] = "run" => bound[r] = arg[r] /\ owner = r

(* A managed model whose verification failed is neither in memory nor      *)
(* serving a request from then on, although requests that named it were    *)
(* admitted before, were queued, or were about to load it.  The startup    *)
(* load is excepted: its thread takes no lock and may finish afterwards.   *)
CondemnedNotServed ==
  \A m \in quarantined \ {preload} :
    loaded # m /\ \A r \in Requests : pc[r] = "run" => bound[r] # m

(* The stored default names a registered model, whichever of selecting,    *)
(* removing and verifying it came first; a drop-in can vanish from its     *)
(* folder while it is being selected.                                      *)
DefaultIsRegistered ==
  selected \in Models \ DropIns => installed[selected] # "none"

(* "Waits for a running inference to finish before unloading": whoever     *)
(* drops the model under the slot does so while no request runs, loads or  *)
(* is about to swap another one in.                                        *)
NobodyInferringOnUnload ==
  \A a \in Admins :
    pc[a] \in {"act", "drop", "move"} /\ op[a] # "refresh" =>
      \A r \in Requests : pc[r] \notin {"bind", "look", "sleep", "check", "load", "run"}

(* A call ends: a request, through any loads, swaps and polls of a startup *)
(* load, and an administrative operation, since the selection lock, the    *)
(* slot and the startup load are never waited for in a circle; unless      *)
(* interactive turns keep coming.                                          *)
EveryCallEnds ==
  \A p \in Requests \cup Admins :
    (pc[p] # "idle" ~> pc[p] = "idle") \/ []<>(urgent # <<>>)

(* "Report `still loading' for exactly the load's real duration": a reader *)
(* that finds nothing loaded and nothing loading is not told so of a load  *)
(* that succeeded (with nobody there to unload the model again).           *)
LoadIsReported ==
  \A d \in Readers : probe[d] = "not loaded" => startup # "loaded"
=============================================================================
