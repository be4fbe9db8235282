--------------------------- MODULE ServerLifecycle ---------------------------
(***************************************************************************)
(* The processes around one data folder: servers that start, serve and     *)
(* end (run_http_full in src/api.rs, service.rs), and the commands that    *)
(* find them through server.json and the lock server.lock (src/bin/        *)
(* server.rs, model_cli.rs, discovery.rs, service.rs, autostart.rs).       *)
(*                                                                         *)
(* Any process may be killed or a step of it may fail where Faults says    *)
(* so.  Deadlines (2 s and 3 s for a probe, 5 s for the shutdown request,  *)
(* 15 s for the lock, 20 s for a service, 30 s for a start) are choices.   *)
(* An address is a port: other programs, among them servers of other data  *)
(* folders, take and free ports at will.  What holds startup back during   *)
(* an update is UpdateTransaction's; what a server does while it serves    *)
(* is the other modules'.                                                  *)
(***************************************************************************)
EXTENDS FiniteSets

CONSTANTS Servers,     \* processes, each used once: a pid
          Commands,    \* commands, each used once
          Ports, DefaultPort,
          Contended,   \* ports that other programs may take
          FlagPorts, FlagHosts, FlagModes, \* values of flags and settings
          Ops,         \* the commands given
          Strangers,   \* what else may listen: "sibling", "other"
          Faults,      \* of "kill", "open", "write", "slow"
          None

ASSUME PortAssumption ==
  DefaultPort \in Ports /\ Contended \subseteq Ports /\ FlagPorts \subseteq Ports \cup {None}
ASSUME HostAssumption == FlagHosts \subseteq {None, "loopback", "any", "address"}
ASSUME FlagAssumption == None \in FlagPorts /\ None \in FlagHosts /\ None \in FlagModes
ASSUME ProcessAssumption == Servers \cap Commands = {} /\ None \notin Servers \cup Commands

VARIABLES srv,        \* the server processes
          cmd,        \* the commands
          guard,      \* who holds update.lock while it starts
          lock,       \* who holds server.lock
          json,       \* server.json
          stored,     \* the settings of state.db that say where to bind
          foreign,    \* what other programs listen on which port
          scope,      \* install_scope: decided by where the program is
          registered, \* the names of services the SCM knows
          autostart   \* the Run value: the flags of the start it runs

vars == <<srv, cmd, guard, lock, json, stored, foreign, scope, registered, autostart>>

(* RunFlags and the stored settings: None is "not given".                  *)
Given   == [port : FlagPorts, host : FlagHosts, network : FlagModes]
NoFlags == [port |-> None, host |-> None, network |-> None]
Names   == {"current", "legacy"}

Fresh(pc, by, flags) ==
  [pc |-> pc, by |-> by, flags |-> flags, host |-> None, port |-> None, stop |-> FALSE]
Idle == [op |-> None, pc |-> "idle", flags |-> NoFlags, saw |-> None, met |-> None,
         stopped |-> FALSE, left |-> {}]

Init ==
  /\ srv = [s \in Servers |-> Fresh("off", "cli", NoFlags)]
  /\ cmd = [c \in Commands |-> Idle]
  /\ guard = None /\ lock = None /\ json = None
  /\ stored = NoFlags
  /\ foreign \in [Contended -> Strangers \cup {None}]
  /\ scope \in {"PerUser", "MachineWide"}
  /\ registered \in SUBSET (IF scope = "PerUser" THEN {} ELSE {"legacy"})
  /\ autostart = None

Alive(s)   == srv[s].pc \notin {"off", "gone"}      \* pid_is_alive
Serving(s) == srv[s].pc = "serve"
(* The listener is bound before the record is written and closed when the  *)
(* graceful shutdown begins.                                               *)
Bound(s)   == srv[s].pc \in {"record", "serve"}
Named(s)   == json # None /\ json.pid = s
(* What another program listens with there, if one does.                   *)
Other(p)   == IF p \in Contended THEN foreign[p] ELSE None
Free(p)    == Other(p) = None /\ \A s \in Servers : Bound(s) => srv[s].port # p

Step(s, place) == srv' = [srv EXCEPT ![s].pc = place]

(* A command that ends keeps what it met and found out.                    *)
At(c, place) ==
  IF place \in {"ok", "failed"}
    THEN [Idle EXCEPT !.pc = place, !.met = cmd[c].met, !.stopped = cmd[c].stopped]
    ELSE [cmd[c] EXCEPT !.pc = place]
Goto(c, place)    == cmd' = [cmd EXCEPT ![c] = At(c, place)]
GotoSeeing(c, place) == cmd' = [cmd EXCEPT ![c] = [At(c, place) EXCEPT !.saw = json]]
Release(holder, s) == IF holder = s THEN None ELSE holder

------------------------------------------------------------------------------
(* A server, from run to its end.                                          *)

Launch(s, by, flags) ==
  /\ srv[s].pc = "off"
  /\ srv' = [srv EXCEPT ![s] = Fresh("guard", by, flags)]

(* A process that ends gives up its locks; it takes no record with it.     *)
End(s) ==
  /\ srv' = [srv EXCEPT ![s] = Fresh("gone", "cli", NoFlags)]
  /\ guard' = Release(guard, s)
  /\ lock' = Release(lock, s)

TakeGuard(s) ==
  /\ srv[s].pc = "guard"
  /\ IF guard = None
       THEN Step(s, "lock") /\ guard' = s /\ UNCHANGED lock
       ELSE End(s)
  /\ UNCHANGED <<cmd, json, stored, foreign, scope, registered, autostart>>

TakeLock(s) ==
  /\ srv[s].pc = "lock"
  /\ IF lock = None
       THEN Step(s, "open") /\ lock' = s /\ UNCHANGED guard
       ELSE End(s)
  /\ UNCHANGED <<cmd, json, stored, foreign, scope, registered, autostart>>

First(a, b) == IF a # None THEN a ELSE b

(* Flag, then setting, then default; a host given in either way overrides  *)
(* every network mode.                                                     *)
BindHost(flags) ==
  LET host == First(flags.host, stored.host)
      mode == First(flags.network, First(stored.network, "local"))
  IN First(host, IF mode = "local" THEN "loopback" ELSE "any")

OpenApp(s) ==
  LET flags == srv[s].flags IN
  /\ srv[s].pc = "open"
  /\ \/ /\ srv' = [srv EXCEPT ![s].pc = "bind",
                              ![s].host = BindHost(flags),
                              ![s].port = First(flags.port, First(stored.port, DefaultPort))]
        /\ UNCHANGED <<guard, lock>>
     \/ "open" \in Faults /\ End(s)
  /\ UNCHANGED <<cmd, json, stored, foreign, scope, registered, autostart>>

(* Only a port that was merely preferred gives way, and only on a per-user *)
(* install.                                                                *)
MayMove(s) == scope = "PerUser" /\ srv[s].flags.port = None

Bind(s) ==
  /\ srv[s].pc = "bind"
  /\ \/ Free(srv[s].port) /\ Step(s, "record") /\ UNCHANGED <<guard, lock>>
     \/ /\ ~Free(srv[s].port) /\ MayMove(s)
        /\ \E p \in Ports :
             /\ Free(p)
             /\ srv' = [srv EXCEPT ![s].pc = "record", ![s].port = p]
        /\ UNCHANGED <<guard, lock>>
     \/ /\ ~Free(srv[s].port) /\ (MayMove(s) => \A p \in Ports : ~Free(p))
        /\ End(s)
  /\ UNCHANGED <<cmd, json, stored, foreign, scope, registered, autostart>>

(* Mutant of Record: the port that was preferred.                          *)
RecordPreferred(s) ==
  [pid |-> s, host |-> srv[s].host,
   port |-> First(srv[s].flags.port, First(stored.port, DefaultPort))]

(* A failed write of last-launch.json ends the start, one of server.json   *)
(* only warns.                                                             *)
Record(s) == [pid |-> s, host |-> srv[s].host, port |-> srv[s].port]

(* Mutant of Announce: the startup guard is kept while serving.            *)
AnnounceGuarded(s) ==
  /\ srv[s].pc = "record"
  /\ json' = [pid |-> s, host |-> srv[s].host, port |-> srv[s].port]
  /\ Step(s, "serve")
  /\ UNCHANGED <<cmd, guard, lock, stored, foreign, scope, registered, autostart>>

Announce(s) ==
  /\ srv[s].pc = "record"
  /\ \/ /\ json' = Record(s) \/ ("write" \in Faults /\ UNCHANGED json)
        /\ Step(s, "serve")
        /\ guard' = Release(guard, s)
        /\ UNCHANGED lock
     \/ "write" \in Faults /\ End(s) /\ UNCHANGED json
  /\ UNCHANGED <<cmd, stored, foreign, scope, registered, autostart>>

(* Ctrl-C, or the stop of the SCM, which a channel keeps until it serves.  *)
Interrupt(s) ==
  /\ ~srv[s].stop
  /\ IF srv[s].by = "cli" THEN Serving(s) ELSE Alive(s)
  /\ srv' = [srv EXCEPT ![s].stop = TRUE]
  /\ UNCHANGED <<cmd, guard, lock, json, stored, foreign, scope, registered, autostart>>

(* Mutant of Drain: the lock goes with the listener.                       *)
DrainUnlocked(s) ==
  /\ Serving(s) /\ srv[s].stop
  /\ Step(s, "drain")
  /\ lock' = Release(lock, s)
  /\ UNCHANGED <<cmd, guard, json, stored, foreign, scope, registered, autostart>>

Drain(s) ==
  /\ Serving(s) /\ srv[s].stop
  /\ Step(s, "drain")
  /\ UNCHANGED <<cmd, guard, lock, json, stored, foreign, scope, registered, autostart>>

Unlink(s) ==
  /\ srv[s].pc = "drain"
  /\ Step(s, "leave")
  /\ json' = None
  /\ UNCHANGED <<cmd, guard, lock, stored, foreign, scope, registered, autostart>>

Leave(s) ==
  /\ srv[s].pc = "leave"
  /\ End(s)
  /\ UNCHANGED <<cmd, json, stored, foreign, scope, registered, autostart>>

Kill(s) ==
  /\ "kill" \in Faults /\ Alive(s)
  /\ End(s)
  /\ UNCHANGED <<cmd, json, stored, foreign, scope, registered, autostart>>

(* PATCH /v1/local/config stores; the running server keeps its address.    *)
PatchConfig(s) ==
  /\ Serving(s)
  /\ \E given \in Given :
       stored' = [port    |-> First(given.port, stored.port),
                  host    |-> First(given.host, stored.host),
                  network |-> First(given.network, stored.network)]
  /\ UNCHANGED <<srv, cmd, guard, lock, json, foreign, scope, registered, autostart>>

ServerStep(s) ==
  \/ TakeGuard(s) \/ TakeLock(s) \/ OpenApp(s) \/ Bind(s) \/ Announce(s)
  \/ Interrupt(s) \/ Drain(s) \/ Unlink(s) \/ Leave(s) \/ Kill(s) \/ PatchConfig(s)

------------------------------------------------------------------------------
(* What a command learns from server.json and the port it names.           *)

(* start and restart take flags, and so does autostart enable.             *)
Begin(c) ==
  /\ cmd[c].pc = "idle"
  /\ \E op \in Ops, flags \in Given :
       /\ op \notin {"start", "restart", "enable"} => flags = NoFlags
       /\ op \in {"install", "uninstall"} => scope = "MachineWide"
       /\ cmd' = [cmd EXCEPT ![c].op = op, ![c].flags = flags,
                             ![c].pc = CASE op \in {"stop", "restart"} -> "lock"
                                         [] op \in {"enable", "disable"} -> "register"
                                         [] op \in {"install", "uninstall"} -> "elevate"
                                         [] OTHER -> "read"]
  /\ UNCHANGED <<srv, guard, lock, json, stored, foreign, scope, registered, autostart>>

Logon(c) ==
  /\ cmd[c].pc = "idle" /\ autostart # None
  /\ cmd' = [cmd EXCEPT ![c].op = "start", ![c].flags = autostart, ![c].pc = "read"]
  /\ UNCHANGED <<srv, guard, lock, json, stored, foreign, scope, registered, autostart>>

ReadRecord(c) ==
  /\ cmd[c].pc = "read"
  /\ \/ json # None /\ GotoSeeing(c, "alive")
     \/ json = None /\ Goto(c, IF cmd[c].op \in {"start", "restart"} THEN "spawn" ELSE "failed")
  /\ UNCHANGED <<srv, guard, lock, json, stored, foreign, scope, registered, autostart>>

(* start and status drop a record they believe stale; models does not.     *)
Stale(c) == IF cmd[c].op = "models" THEN "failed" ELSE "clear"

CheckAlive(c) ==
  /\ cmd[c].pc = "alive"
  /\ Goto(c, IF Alive(cmd[c].saw.pid) THEN "probe" ELSE Stale(c))
  /\ UNCHANGED <<srv, guard, lock, json, stored, foreign, scope, registered, autostart>>

(* health_ok asks for the service's name; model_cli::connect takes any     *)
(* answer of success.  Either may give up on one that is slow.             *)
Ours(p)      == {s \in Servers : Serving(s) /\ srv[s].port = p}
Answered(c)  == \/ Ours(cmd[c].saw.port) # {}
                \/ Other(cmd[c].saw.port) = "sibling"
                \/ Other(cmd[c].saw.port) = "other" /\ cmd[c].op = "models"
Unheard(c)   == ~Answered(c) \/ "slow" \in Faults

Probe(c) ==
  /\ cmd[c].pc = "probe"
  /\ \/ Answered(c) /\ Goto(c, IF cmd[c].op = "models" THEN "call" ELSE "ok")
     \/ Unheard(c) /\ Goto(c, Stale(c))
  /\ UNCHANGED <<srv, guard, lock, json, stored, foreign, scope, registered, autostart>>

Clear(c) ==
  /\ cmd[c].pc = "clear"
  /\ json' = None
  /\ Goto(c, IF cmd[c].op = "status" THEN "failed" ELSE "spawn")
  /\ UNCHANGED <<srv, guard, lock, stored, foreign, scope, registered, autostart>>

Spawn(c) ==
  /\ cmd[c].pc = "spawn"
  /\ \E s \in Servers : Launch(s, "cli", cmd[c].flags)
  /\ Goto(c, "poll")
  /\ UNCHANGED <<guard, lock, json, stored, foreign, scope, registered, autostart>>

(* The start takes whatever record it finds for its child's.               *)
Poll(c) ==
  /\ cmd[c].pc = "poll"
  /\ \/ json # None /\ GotoSeeing(c, "check")
     \/ Goto(c, "failed")
  /\ UNCHANGED <<srv, guard, lock, json, stored, foreign, scope, registered, autostart>>

Check(c) ==
  /\ cmd[c].pc = "check"
  /\ \/ Answered(c) /\ Goto(c, "ok")
     \/ Unheard(c) /\ Goto(c, "poll")
  /\ UNCHANGED <<srv, guard, lock, json, stored, foreign, scope, registered, autostart>>

------------------------------------------------------------------------------
(* stop, and restart, which is stop and then start.                        *)

(* Mutant of TryLock: the record goes first.                               *)
SweepFirst(c) ==
  /\ cmd[c].pc = "lock"
  /\ json' = None
  /\ IF lock = None
       THEN lock' = c /\ Goto(c, "sweep")
       ELSE /\ cmd' = [cmd EXCEPT ![c].met = lock, ![c].pc = "find"]
            /\ UNCHANGED lock
  /\ UNCHANGED <<srv, guard, stored, foreign, scope, registered, autostart>>

TryLock(c) ==
  /\ cmd[c].pc = "lock"
  /\ IF lock = None
       THEN lock' = c /\ Goto(c, "sweep")
       ELSE /\ cmd' = [cmd EXCEPT ![c].met = lock, ![c].pc = "find"]
            /\ UNCHANGED lock
  /\ UNCHANGED <<srv, guard, json, stored, foreign, scope, registered, autostart>>

Find(c) ==
  /\ cmd[c].pc = "find"
  /\ IF json = None THEN Goto(c, "failed") ELSE GotoSeeing(c, "post")
  /\ UNCHANGED <<srv, guard, lock, json, stored, foreign, scope, registered, autostart>>

(* The request counts for a server of this folder, whose token it carries, *)
(* and only from a loopback caller: a server bound to an address of its    *)
(* own is called from that address.                                        *)
Post(c) ==
  /\ cmd[c].pc = "post"
  /\ \/ \E s \in Ours(cmd[c].saw.port) :
          /\ cmd[c].saw.host # "address"
          /\ srv' = [srv EXCEPT ![s].stop = TRUE]
          /\ Goto(c, "wait") \/ ("slow" \in Faults /\ Goto(c, "failed"))
     \/ /\ \/ Ours(cmd[c].saw.port) = {}
           \/ cmd[c].saw.host = "address"
           \/ "slow" \in Faults
        /\ Goto(c, "failed")
        /\ UNCHANGED srv
  /\ UNCHANGED <<guard, lock, json, stored, foreign, scope, registered, autostart>>

(* Mutant of AwaitLock: the wait ends when the record has gone.            *)
AwaitRecord(c) ==
  /\ cmd[c].pc = "wait"
  /\ IF json = None
       THEN cmd' = [cmd EXCEPT ![c] = [At(c, IF cmd[c].op = "restart" THEN "read" ELSE "ok")
                                         EXCEPT !.stopped = TRUE]]
       ELSE Goto(c, "failed")
  /\ UNCHANGED <<srv, guard, lock, json, stored, foreign, scope, registered, autostart>>

AwaitLock(c) ==
  /\ cmd[c].pc = "wait"
  /\ \/ lock = None /\ lock' = c /\ Goto(c, "sweep")
     \/ lock # None /\ Goto(c, "failed") /\ UNCHANGED lock
  /\ UNCHANGED <<srv, guard, json, stored, foreign, scope, registered, autostart>>

Sweep(c) ==
  /\ cmd[c].pc = "sweep"
  /\ json' = None
  /\ Goto(c, "unlock")
  /\ UNCHANGED <<srv, guard, lock, stored, foreign, scope, registered, autostart>>

Unlock(c) ==
  /\ cmd[c].pc = "unlock"
  /\ lock' = None
  /\ cmd' = [cmd EXCEPT ![c] = [At(c, IF cmd[c].op = "restart" THEN "read" ELSE "ok")
                                  EXCEPT !.stopped = TRUE]]
  /\ UNCHANGED <<srv, guard, json, stored, foreign, scope, registered, autostart>>

------------------------------------------------------------------------------
(* models: one call to the server attached to, and with --wait the polls   *)
(* of the operation it began.                                              *)

CallServer(c) ==
  /\ cmd[c].pc = "call"
  /\ \/ Ours(cmd[c].saw.port) # {} /\ (Goto(c, "ok") \/ Goto(c, "follow"))
     \/ Goto(c, "failed")
  /\ UNCHANGED <<srv, guard, lock, json, stored, foreign, scope, registered, autostart>>

Follow(c) ==
  /\ cmd[c].pc = "follow"
  /\ \/ Ours(cmd[c].saw.port) # {} /\ Goto(c, "ok")
     \/ Goto(c, "failed")
  /\ UNCHANGED <<srv, guard, lock, json, stored, foreign, scope, registered, autostart>>

------------------------------------------------------------------------------
(* Autostart and the Windows service.                                      *)

SetAutostart(c) ==
  /\ cmd[c].pc = "register"
  /\ autostart' = IF cmd[c].op = "enable" THEN cmd[c].flags ELSE None
  /\ Goto(c, "ok")
  /\ UNCHANGED <<srv, guard, lock, json, stored, foreign, scope, registered>>

Instance(n) == {s \in Servers : srv[s].by = n /\ Alive(s)}

(* install replaces a service of the old name, uninstall removes both.     *)
Elevate(c) ==
  /\ cmd[c].pc = "elevate"
  /\ LET left == registered \cap (IF cmd[c].op = "install" THEN {"legacy"} ELSE Names)
     IN IF left # {}
          THEN cmd' = [cmd EXCEPT ![c].left = left, ![c].pc = "remove"]
          ELSE Goto(c, IF cmd[c].op = "install" THEN "create" ELSE "failed")
  /\ UNCHANGED <<srv, guard, lock, json, stored, foreign, scope, registered, autostart>>

NextName(c) == IF "current" \in cmd[c].left THEN "current" ELSE "legacy"

StopService(c) ==
  /\ cmd[c].pc = "remove"
  /\ srv' = [s \in Servers |-> IF s \in Instance(NextName(c))
                                 THEN [srv[s] EXCEPT !.stop = TRUE] ELSE srv[s]]
  /\ Goto(c, "await")
  /\ UNCHANGED <<guard, lock, json, stored, foreign, scope, registered, autostart>>

(* It waits 20 s for the service to stop, and deletes it in any case.      *)
DeleteService(c) ==
  /\ cmd[c].pc = "await"
  /\ registered' = registered \ {NextName(c)}
  /\ LET left == cmd[c].left \ {NextName(c)}
     IN IF left # {}
          THEN cmd' = [cmd EXCEPT ![c].left = left, ![c].pc = "remove"]
          ELSE Goto(c, IF cmd[c].op = "install" THEN "create" ELSE "ok")
  /\ UNCHANGED <<srv, guard, lock, json, stored, foreign, scope, autostart>>

CreateService(c) ==
  /\ cmd[c].pc = "create"
  /\ IF "current" \in registered
       THEN Goto(c, "failed") /\ UNCHANGED <<srv, registered>>
       ELSE /\ registered' = registered \cup {"current"}
            /\ \E s \in Servers : Launch(s, "current", NoFlags)
            /\ Goto(c, "ok")
  /\ UNCHANGED <<guard, lock, json, stored, foreign, scope, autostart>>

(* At boot, by hand, or after a failure the SCM restarts it from.          *)
ScmStart(s) ==
  /\ \E n \in registered : Instance(n) = {} /\ Launch(s, n, NoFlags)
  /\ UNCHANGED <<cmd, guard, lock, json, stored, foreign, scope, registered, autostart>>

CommandStep(c) ==
  \/ Logon(c) \/ Begin(c) \/ ReadRecord(c) \/ CheckAlive(c) \/ Probe(c) \/ Clear(c)
  \/ Spawn(c) \/ Poll(c) \/ Check(c)
  \/ TryLock(c) \/ Find(c) \/ Post(c) \/ AwaitLock(c) \/ Sweep(c) \/ Unlock(c)
  \/ CallServer(c) \/ Follow(c) \/ SetAutostart(c)
  \/ Elevate(c) \/ StopService(c) \/ DeleteService(c) \/ CreateService(c)

(* Another program takes a port, or frees it.                              *)
TurnPort(p) ==
  /\ foreign[p] # None \/ Free(p)
  /\ \E x \in Strangers \cup {None} : foreign' = [foreign EXCEPT ![p] = x]
  /\ UNCHANGED <<srv, cmd, guard, lock, json, stored, scope, registered, autostart>>

Next ==
  \/ \E s \in Servers : ServerStep(s) \/ ScmStart(s)
  \/ \E c \in Commands : CommandStep(c)
  \/ \E p \in Contended : TurnPort(p)

Spec == Init /\ [][Next]_vars

------------------------------------------------------------------------------
(* Types: locks are held by live processes, a record is a process's own.   *)
TypeOK ==
  /\ \A s \in Servers :
       /\ srv[s].pc \in {"off", "guard", "lock", "open", "bind", "record", "serve",
                         "drain", "leave", "gone"}
       /\ srv[s].by \in Names \cup {"cli"}
       /\ srv[s].flags \in Given
       /\ srv[s].host \in {None, "loopback", "any", "address"}
       /\ srv[s].port \in Ports \cup {None}
       /\ srv[s].stop \in BOOLEAN
  /\ \A c \in Commands :
       /\ cmd[c].pc \in {"idle", "read", "alive", "probe", "clear", "spawn", "poll", "check",
            "lock", "find", "post", "wait", "sweep", "unlock", "call", "follow", "register",
            "elevate", "remove", "await", "create", "ok", "failed"}
       /\ cmd[c].op \in Ops \cup {None, "start"}
       /\ cmd[c].left \subseteq Names
       /\ cmd[c].met \in Servers \cup Commands \cup {None}
       /\ cmd[c].pc \in {"alive", "probe", "clear", "check", "post", "call", "follow"}
            => cmd[c].saw # None
  /\ guard \in {s \in Servers : srv[s].pc \in {"lock", "open", "bind", "record"}} \cup {None}
  /\ lock \in {s \in Servers : srv[s].pc \in {"open", "bind", "record", "serve", "drain", "leave"}}
              \cup {c \in Commands : cmd[c].pc \in {"sweep", "unlock"}} \cup {None}
  /\ json # None => srv[json.pid].pc \notin {"off", "guard", "lock", "open", "bind", "record"}
  /\ stored \in Given
  /\ foreign \in [Contended -> Strangers \cup {None}]
  /\ registered \subseteq Names
  /\ autostart \in Given \cup {None}

(* The record of a server that serves leads to it and to nothing else:     *)
(* not to the port it would have preferred, and no other program or server *)
(* answers on the port it names (api.rs run_http_full; README "that's what *)
(* every CLI command finds").                                              *)
RecordLeads ==
  \A s \in Servers : Serving(s) /\ Named(s) =>
    /\ Ours(json.port) = {s}
    /\ Other(json.port) = None

(* When stop says that the server has stopped, the one it met has ended,   *)
(* locks and all, whoever asked it to stop and however often it was asked  *)
(* (bin/server.rs cmd_stop).                                               *)
StopTellsTruth ==
  \A c \in Commands : cmd[c].stopped /\ cmd[c].met \in Servers => ~Alive(cmd[c].met)

(* A server that serves loses its record only to a start or a status that  *)
(* believed it stale: no server that ends, however late it unlinks, no     *)
(* other that starts and no stop ever takes it (api.rs run_http_full,      *)
(* bin/server.rs cmd_stop).                                                *)
RecordKept ==
  [][\A s \in Servers : Serving(s) /\ Named(s) /\ Serving(s)' =>
       Named(s)' \/ \E c \in Commands : cmd[c].pc = "clear" /\ cmd'[c].pc # "clear"]_vars
==============================================================================
