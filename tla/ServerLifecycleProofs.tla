----------------------- MODULE ServerLifecycleProofs -----------------------
(***************************************************************************)
(* Proofs about ServerLifecycle: for any number of servers and commands,   *)
(* whatever is killed or fails, server.json leads to the server that       *)
(* serves, `stop` only says so when the server it met has ended, and a     *)
(* record is lost to nobody but a start or a status that believed it       *)
(* stale.                                                                  *)
(*                                                                         *)
(* What carries all of it is the lock: it is held by exactly those who are *)
(* in the stages between taking and releasing it, servers and commands     *)
(* alike, so that nobody sweeps, unlinks or writes a record while another  *)
(* server serves.                                                          *)
(***************************************************************************)
EXTENDS ServerLifecycle, TLAPS

(* The stages of a server, by what it holds.                               *)
Guarding == {"lock", "open", "bind", "record"}
Locking  == {"open", "bind", "record", "serve", "drain", "leave"}
Stages   == {"off", "guard", "gone"} \cup Guarding \cup Locking
Sweeping == {"sweep", "unlock"}

(* A command there has read a record.                                      *)
Seeing == {"alive", "probe", "clear", "check", "post", "call", "follow"}
Places == Seeing \cup Sweeping \cup
          {"idle", "read", "spawn", "poll", "lock", "find", "wait", "register",
           "elevate", "remove", "await", "create", "ok", "failed"}

Hosts   == {None, "loopback", "any", "address"}
Records == [pid : Servers, host : Hosts, port : Ports \cup {None}]
Server  == [pc : Stages, by : Names \cup {"cli"}, flags : Given, host : Hosts,
            port : Ports \cup {None}, stop : BOOLEAN]
Command == [op : Ops \cup {None, "start"}, pc : Places, flags : Given,
            saw : Records \cup {None}, met : Servers \cup Commands \cup {None},
            stopped : BOOLEAN, left : SUBSET Names]

ServerTypes  == srv \in [Servers -> Server]
CommandTypes == cmd \in [Commands -> Command]
FileTypes    ==
  /\ guard \in Servers \cup {None}
  /\ lock \in Servers \cup Commands \cup {None}
  /\ json \in Records \cup {None}
  /\ stored \in Given
PlaceTypes ==
  /\ foreign \in [Contended -> Strangers \cup {None}]
  /\ registered \subseteq Names
  /\ autostart \in Given \cup {None}

(* Who holds update.lock is starting; server.lock is held by exactly those *)
(* who have taken it and not released it.                                  *)
GuardHeld == guard # None => srv[guard].pc \in Guarding
LockHeld ==
  /\ \A s \in Servers : srv[s].pc \in Locking <=> lock = s
  /\ \A c \in Commands : cmd[c].pc \in Sweeping <=> lock = c

(* A record was written by a process that serves or has served, and says   *)
(* of one that serves where it is.  Nobody else is there.                  *)
RecordWritten == json # None => srv[json.pid].pc \in {"serve", "drain", "leave", "gone"}
RecordTrue    == \A s \in Servers : Serving(s) /\ Named(s) => json.port = srv[s].port
PortsApart ==
  \A s \in Servers : Bound(s) =>
    /\ Other(srv[s].port) = None
    /\ \A t \in Servers : Bound(t) /\ srv[t].port = srv[s].port => t = s

RecordSeen == \A c \in Commands : cmd[c].pc \in Seeing => cmd[c].saw # None

(* The server a stop has met held the lock then; a stop that has got the   *)
(* lock, and one that is over, knows it has ended.                         *)
MetIsOver ==
  \A c \in Commands :
    /\ cmd[c].pc \in {"idle", "lock"} => cmd[c].met = None /\ ~cmd[c].stopped
    /\ cmd[c].met \in Servers => srv[cmd[c].met].pc \in Locking \cup {"gone"}
    /\ cmd[c].met \in Servers /\ (cmd[c].pc \in Sweeping \/ cmd[c].stopped)
         => srv[cmd[c].met].pc = "gone"

(* The inductive invariant.                                                *)
Types == ServerTypes /\ CommandTypes /\ FileTypes /\ PlaceTypes
LifecycleInv ==
  /\ Types
  /\ GuardHeld /\ LockHeld /\ RecordWritten /\ RecordTrue /\ PortsApart
  /\ RecordSeen /\ MetIsOver

-----------------------------------------------------------------------------
LEMMA Nothing == NoFlags \in Given /\ Idle.flags \in Given
  BY FlagAssumption DEF NoFlags, Given, Idle

(* What the steps of a command come to that neither takes the lock nor     *)
(* gives it back.                                                          *)
Goes(c) ==
  \E r \in Command :
    /\ cmd' = [cmd EXCEPT ![c] = r]
    /\ cmd[c].pc \notin Sweeping /\ r.pc \notin Sweeping \cup {"idle"}
    /\ r.pc = "lock" => cmd[c].pc = "idle"
    /\ r.pc \in Seeing => r.saw # None
    /\ r.met = cmd[c].met /\ r.stopped = cmd[c].stopped

(* Servers it has launched or asked to stop.                               *)
Urges ==
  /\ srv' \in [Servers -> Server]
  /\ \A s \in Servers :
       \/ srv'[s].pc = srv[s].pc /\ srv'[s].port = srv[s].port
       \/ srv[s].pc = "off" /\ srv'[s].pc = "guard"

Effect(c) ==
  /\ Goes(c) /\ Urges /\ UNCHANGED <<guard, lock, stored, foreign>>
  /\ json' \in {json, None}
  /\ registered' \subseteq Names /\ autostart' \in Given \cup {None}

LEMMA Placed ==
  ASSUME CommandTypes, NEW c \in Commands, NEW place \in Places
  PROVE  /\ At(c, place) \in Command /\ At(c, place).pc = place
         /\ At(c, place).met = cmd[c].met /\ At(c, place).stopped = cmd[c].stopped
         /\ place \notin {"ok", "failed"} => At(c, place).saw = cmd[c].saw
<1>1. cmd[c] \in Command
  BY DEF CommandTypes
<1>2. NoFlags \in Given /\ {} \in SUBSET Names
  BY Nothing
<1> QED
  BY <1>1, <1>2 DEF At, Command, Idle, Places, Seeing, Sweeping

LEMMA GotoGoes ==
  ASSUME CommandTypes, NEW c \in Commands, cmd[c].pc \notin Sweeping,
         NEW place \in Places, place \notin Sweeping \cup {"idle", "lock"},
         place \in Seeing => cmd[c].saw # None, Goto(c, place)
  PROVE  Goes(c)
<1>1. /\ At(c, place) \in Command /\ At(c, place).pc = place
      /\ At(c, place).met = cmd[c].met /\ At(c, place).stopped = cmd[c].stopped
      /\ place \notin {"ok", "failed"} => At(c, place).saw = cmd[c].saw
  BY Placed
<1>2. place \in Seeing => place \notin {"ok", "failed"}
  BY DEF Seeing
<1> QED
  BY <1>1, <1>2 DEF Goes, Goto

LEMMA SeeingGoes ==
  ASSUME CommandTypes, FileTypes, NEW c \in Commands, cmd[c].pc \notin Sweeping,
         NEW place \in Seeing, json # None, GotoSeeing(c, place)
  PROVE  Goes(c)
<1>1. /\ At(c, place) \in Command /\ At(c, place).pc = place /\ json \in Records
      /\ At(c, place).met = cmd[c].met /\ At(c, place).stopped = cmd[c].stopped
  BY Placed DEF FileTypes, Places
<1>2. PICK r \in Command : r = [At(c, place) EXCEPT !.saw = json]
  BY <1>1 DEF Command
<1>3. /\ r.pc = place /\ r.met = cmd[c].met /\ r.stopped = cmd[c].stopped /\ r.saw = json
  BY <1>1, <1>2 DEF Command
<1>4. place \notin Sweeping \cup {"idle", "lock"}
  BY DEF Seeing, Sweeping
<1> QED
  BY <1>2, <1>3, <1>4 DEF Goes, GotoSeeing

LEMMA Same ==
  ASSUME ServerTypes, UNCHANGED srv
  PROVE  Urges
  BY DEF ServerTypes, Urges

LEMMA Launched ==
  ASSUME ServerTypes, NEW s \in Servers, NEW by \in Names \cup {"cli"}, NEW flags \in Given,
         Launch(s, by, flags)
  PROVE  Urges
<1>1. Fresh("guard", by, flags) \in Server /\ Fresh("guard", by, flags).pc = "guard"
  BY DEF Fresh, Server, Stages, Hosts
<1> QED
  BY <1>1 DEF ServerTypes, Urges, Launch

LEMMA AskedToStop ==
  ASSUME ServerTypes, NEW S \in SUBSET Servers,
         srv' = [s \in Servers |-> IF s \in S THEN [srv[s] EXCEPT !.stop = TRUE] ELSE srv[s]]
  PROVE  Urges
<1>1. ASSUME NEW s \in Servers
      PROVE  /\ [srv[s] EXCEPT !.stop = TRUE] \in Server
             /\ [srv[s] EXCEPT !.stop = TRUE].pc = srv[s].pc
             /\ [srv[s] EXCEPT !.stop = TRUE].port = srv[s].port
  BY DEF ServerTypes, Server
<1> QED
  BY <1>1 DEF ServerTypes, Urges


(* The steps of the commands that leave the lock alone.                    *)
LEMMA CommandEffects ==
  ASSUME LifecycleInv, NEW c \in Commands,
         CommandStep(c), ~TryLock(c), ~AwaitLock(c), ~Sweep(c), ~Unlock(c)
  PROVE  Effect(c)
<1>1. /\ Types /\ ServerTypes /\ CommandTypes /\ FileTypes /\ RecordSeen
      /\ cmd[c] \in Command /\ registered \subseteq Names /\ autostart \in Given \cup {None}
  BY DEF LifecycleInv, Types, CommandTypes, PlaceTypes
<1> USE <1>1
<1>2. CASE Logon(c)
  <2>1. PICK r : r = [cmd[c] EXCEPT !.op = "start", !.flags = autostart, !.pc = "read"]
    OBVIOUS
  <2>2. cmd' = [cmd EXCEPT ![c] = r] /\ cmd[c].pc = "idle" /\ autostart \in Given
        /\ UNCHANGED <<srv, guard, lock, json, stored, foreign, registered, autostart>>
    BY <1>2, <2>1 DEF Logon, CommandTypes
  <2>3. r \in Command /\ r.pc = "read" /\ r.met = cmd[c].met /\ r.stopped = cmd[c].stopped
    BY <2>1, <2>2 DEF Command, Places
  <2> QED
    BY <2>2, <2>3, Same DEF Effect, Goes, Seeing, Sweeping
<1>3. CASE Begin(c)
  <2>1. PICK op \in Ops, flags \in Given :
          cmd' = [cmd EXCEPT ![c].op = op, ![c].flags = flags,
                             ![c].pc = CASE op \in {"stop", "restart"} -> "lock"
                                         [] op \in {"enable", "disable"} -> "register"
                                         [] op \in {"install", "uninstall"} -> "elevate"
                                         [] OTHER -> "read"]
    BY <1>3 DEF Begin
  <2>2. PICK place : place = CASE op \in {"stop", "restart"} -> "lock"
                                [] op \in {"enable", "disable"} -> "register"
                                [] op \in {"install", "uninstall"} -> "elevate"
                                [] OTHER -> "read"
    OBVIOUS
  <2>3. place \in {"lock", "register", "elevate", "read"}
    BY <2>2, Zenon
  <2>4. cmd' = [cmd EXCEPT ![c].op = op, ![c].flags = flags, ![c].pc = place]
    BY <2>1, <2>2, Zenon
  <2>5. /\ cmd[c].pc = "idle"
        /\ UNCHANGED <<srv, guard, lock, json, stored, foreign, registered, autostart>>
    BY <1>3 DEF Begin
  <2>6. PICK r : r = [cmd[c] EXCEPT !.op = op, !.flags = flags, !.pc = place]
    OBVIOUS
  <2>7. cmd' = [cmd EXCEPT ![c] = r]
    BY <2>4, <2>6 DEF CommandTypes
  <2>8. r \in Command /\ r.pc = place /\ r.met = cmd[c].met /\ r.stopped = cmd[c].stopped
    BY <2>3, <2>6 DEF Command, Places
  <2> QED
    BY <2>3, <2>5, <2>7, <2>8, Same DEF Effect, Goes, Seeing, Sweeping
<1>4. CASE ReadRecord(c)
  <2>1. /\ cmd[c].pc = "read"
        /\ UNCHANGED <<srv, guard, lock, json, stored, foreign, registered, autostart>>
    BY <1>4 DEF ReadRecord
  <2>2. CASE json # None
    <3>1. GotoSeeing(c, "alive")
      BY <1>4, <2>2 DEF ReadRecord
    <3> QED
      BY <2>1, <2>2, <3>1, SeeingGoes, Same DEF Effect, Seeing, Sweeping
  <2>3. CASE json = None
    <3>1. Goto(c, "spawn") \/ Goto(c, "failed")
      BY <1>4, <2>3 DEF ReadRecord
    <3> QED
      BY <2>1, <3>1, GotoGoes, Same DEF Effect, Places, Seeing, Sweeping
  <2> QED
    BY <2>2, <2>3
<1>5. CASE CheckAlive(c)
  BY <1>5, GotoGoes, Same
     DEF CheckAlive, Effect, Stale, RecordSeen, Places, Seeing, Sweeping
<1>6. CASE Probe(c)
  BY <1>6, GotoGoes, Same
     DEF Probe, Effect, Stale, RecordSeen, Places, Seeing, Sweeping
<1>7. CASE Clear(c)
  BY <1>7, GotoGoes, Same DEF Clear, Effect, Places, Seeing, Sweeping
<1>8. CASE Spawn(c)
  <2>1. cmd[c].flags \in Given
    BY DEF Command
  <2>2. Urges
    BY <1>8, <2>1, Launched DEF Spawn
  <2> QED
    BY <1>8, <2>2, GotoGoes DEF Spawn, Effect, Places, Seeing, Sweeping
<1>9. CASE Poll(c)
  BY <1>9, GotoGoes, SeeingGoes, Same DEF Poll, Effect, Places, Seeing, Sweeping
<1>10. CASE Check(c)
  BY <1>10, GotoGoes, Same DEF Check, Effect, Places, Seeing, Sweeping
<1>11. CASE Find(c)
  BY <1>11, GotoGoes, SeeingGoes, Same DEF Find, Effect, Places, Seeing, Sweeping
<1>12. CASE Post(c)
  <2>1. Goes(c)
    BY <1>12, GotoGoes DEF Post, Places, Seeing, Sweeping
  <2>2. Urges
    <3>1. CASE UNCHANGED srv
      BY <3>1, Same
    <3>2. CASE \E s \in Ours(cmd[c].saw.port) : srv' = [srv EXCEPT ![s].stop = TRUE]
      <4>1. PICK s \in Servers : srv' = [srv EXCEPT ![s].stop = TRUE]
        BY <3>2 DEF Ours
      <4>2. srv' = [t \in Servers |-> IF t \in {s} THEN [srv[t] EXCEPT !.stop = TRUE]
                                      ELSE srv[t]]
        BY <4>1 DEF ServerTypes
      <4> QED
        BY <4>2, AskedToStop
    <3> QED
      BY <1>12, <3>1, <3>2 DEF Post
  <2> QED
    BY <1>12, <2>1, <2>2 DEF Post, Effect
<1>13. CASE CallServer(c)
  BY <1>13, GotoGoes, Same
     DEF CallServer, Effect, RecordSeen, Places, Seeing, Sweeping
<1>14. CASE Follow(c)
  BY <1>14, GotoGoes, Same DEF Follow, Effect, Places, Seeing, Sweeping
<1>15. CASE SetAutostart(c)
  <2>1. cmd[c].flags \in Given
    BY DEF Command
  <2> QED
    BY <1>15, <2>1, GotoGoes, Same DEF SetAutostart, Effect, Places, Seeing, Sweeping
<1>16. CASE Elevate(c)
  <2> DEFINE left == registered \cap (IF cmd[c].op = "install" THEN {"legacy"} ELSE Names)
  <2>1. /\ cmd[c].pc = "elevate"
        /\ UNCHANGED <<srv, guard, lock, json, stored, foreign, registered, autostart>>
    BY <1>16 DEF Elevate
  <2>2. CASE cmd' = [cmd EXCEPT ![c].left = left, ![c].pc = "remove"]
    <3>1. PICK r : r = [cmd[c] EXCEPT !.left = left, !.pc = "remove"]
      OBVIOUS
    <3>2. cmd' = [cmd EXCEPT ![c] = r]
      BY <2>2, <3>1 DEF CommandTypes
    <3>3. r \in Command /\ r.pc = "remove" /\ r.met = cmd[c].met /\ r.stopped = cmd[c].stopped
      BY <3>1 DEF Command, Places
    <3> QED
      BY <2>1, <3>2, <3>3, Same DEF Effect, Goes, Seeing, Sweeping
  <2>3. CASE Goto(c, IF cmd[c].op = "install" THEN "create" ELSE "failed")
    BY <2>1, <2>3, GotoGoes, Same DEF Effect, Places, Seeing, Sweeping
  <2> QED
    BY <1>16, <2>2, <2>3 DEF Elevate
<1>17. CASE StopService(c)
  <2>1. Urges
    BY <1>17, AskedToStop DEF StopService, Instance
  <2> QED
    BY <1>17, <2>1, GotoGoes DEF StopService, Effect, Places, Seeing, Sweeping
<1>18. CASE DeleteService(c)
  <2> DEFINE left == cmd[c].left \ {NextName(c)}
  <2>1. /\ cmd[c].pc = "await"
        /\ UNCHANGED <<srv, guard, lock, json, stored, foreign, autostart>>
        /\ registered' \subseteq Names
    BY <1>18 DEF DeleteService
  <2>2. CASE cmd' = [cmd EXCEPT ![c].left = left, ![c].pc = "remove"]
    <3>1. PICK r : r = [cmd[c] EXCEPT !.left = left, !.pc = "remove"]
      OBVIOUS
    <3>2. cmd' = [cmd EXCEPT ![c] = r]
      BY <2>2, <3>1 DEF CommandTypes
    <3>3. r \in Command /\ r.pc = "remove" /\ r.met = cmd[c].met /\ r.stopped = cmd[c].stopped
      BY <3>1 DEF Command, Places
    <3> QED
      BY <2>1, <3>2, <3>3, Same DEF Effect, Goes, Seeing, Sweeping
  <2>3. CASE Goto(c, IF cmd[c].op = "install" THEN "create" ELSE "ok")
    BY <2>1, <2>3, GotoGoes, Same DEF Effect, Places, Seeing, Sweeping
  <2> QED
    BY <1>18, <2>2, <2>3 DEF DeleteService
<1>19. CASE CreateService(c)
  <2>1. cmd[c].pc = "create" /\ registered' \subseteq Names
        /\ UNCHANGED <<guard, lock, json, stored, foreign, autostart>>
    BY <1>19 DEF CreateService, Names
  <2>2. Urges
    BY <1>19, Nothing, Launched, Same DEF CreateService, Names
  <2>3. Goes(c)
    BY <1>19, <2>1, GotoGoes DEF CreateService, Places, Seeing, Sweeping
  <2> QED
    BY <2>1, <2>2, <2>3 DEF Effect
<1> QED
  BY <1>2, <1>3, <1>4, <1>5, <1>6, <1>7, <1>8, <1>9, <1>10, <1>11, <1>12, <1>13,
     <1>14, <1>15, <1>16, <1>17, <1>18, <1>19
     DEF CommandStep


LEMMA EndKeeps ==
  ASSUME LifecycleInv, NEW s \in Servers, Alive(s), End(s),
         UNCHANGED <<cmd, json, stored, foreign, registered, autostart>>
  PROVE  LifecycleInv'
<1>1. PICK g \in Server : g = Fresh("gone", "cli", NoFlags)
  BY Nothing DEF Fresh, Server, Stages, Hosts
<1>2. /\ srv' = [srv EXCEPT ![s] = g] /\ g.pc = "gone" /\ srv[s].pc \notin {"off", "gone"}
      /\ guard' = (IF guard = s THEN None ELSE guard)
      /\ lock' = (IF lock = s THEN None ELSE lock)
  BY <1>1 DEF End, Release, Alive, Fresh
<1>3. ServerTypes'
  BY <1>2 DEF LifecycleInv, ServerTypes, Types
<1>4. CommandTypes'
  BY <1>2 DEF LifecycleInv, CommandTypes, Types
<1>5. FileTypes'
  BY <1>2 DEF LifecycleInv, FileTypes, Types
<1>6. PlaceTypes'
  BY <1>2 DEF LifecycleInv, PlaceTypes, Types
<1>7. GuardHeld'
  BY <1>2 DEF LifecycleInv, GuardHeld
<1>8. LockHeld'
  BY ProcessAssumption, <1>2 DEF LifecycleInv, LockHeld, Types, ServerTypes, Locking
<1>9. RecordWritten'
  BY <1>2 DEF LifecycleInv, RecordWritten
<1>10. RecordTrue'
  BY <1>2 DEF LifecycleInv, RecordTrue, Serving, Named
<1>11. PortsApart'
  BY <1>2 DEF LifecycleInv, PortsApart, Bound, Other
<1>12. RecordSeen'
  BY <1>2 DEF LifecycleInv, RecordSeen
<1>13. MetIsOver'
  BY <1>2 DEF LifecycleInv, MetIsOver
<1> QED
  BY <1>3, <1>4, <1>5, <1>6, <1>7, <1>8, <1>9, <1>10, <1>11, <1>12, <1>13
     DEF LifecycleInv, Types

LEMMA TakeGuardKeeps ==
  ASSUME LifecycleInv, NEW s \in Servers, TakeGuard(s), ~End(s)
  PROVE  LifecycleInv'
<1>1. ServerTypes'
  BY DEF LifecycleInv, ServerTypes, Types, TakeGuard, Step, Server, Stages, Guarding
<1>2. CommandTypes'
  BY DEF LifecycleInv, CommandTypes, Types, TakeGuard
<1>3. FileTypes'
  BY DEF LifecycleInv, FileTypes, Types, TakeGuard
<1>4. PlaceTypes'
  BY DEF LifecycleInv, PlaceTypes, Types, TakeGuard
<1>5. GuardHeld'
  BY DEF LifecycleInv, GuardHeld, Types, ServerTypes, TakeGuard, Step, Guarding,
     Server, Command
<1>6. LockHeld'
  BY DEF LifecycleInv, LockHeld, Types, ServerTypes, TakeGuard, Step, Locking,
     Sweeping, Server, Command
<1>7. RecordWritten'
  BY DEF LifecycleInv, RecordWritten, Types, ServerTypes, CommandTypes, FileTypes,
     Records, Seeing, TakeGuard, Step
<1>8. RecordTrue'
  BY DEF LifecycleInv, RecordTrue, Types, ServerTypes, TakeGuard, Step, Serving,
     Named, Server
<1>9. PortsApart'
  BY DEF LifecycleInv, PortsApart, Types, ServerTypes, TakeGuard, Step, Bound, Other,
     Server
<1>10. RecordSeen'
  BY DEF LifecycleInv, RecordSeen, TakeGuard
<1>11. MetIsOver'
  BY DEF LifecycleInv, MetIsOver, Types, ServerTypes, TakeGuard, Step, Locking
<1> QED
  BY <1>1, <1>2, <1>3, <1>4, <1>5, <1>6, <1>7, <1>8, <1>9, <1>10, <1>11
     DEF LifecycleInv, Types

LEMMA TakeLockKeeps ==
  ASSUME LifecycleInv, NEW s \in Servers, TakeLock(s), ~End(s)
  PROVE  LifecycleInv'
<1>1. ServerTypes'
  BY DEF LifecycleInv, ServerTypes, Types, TakeLock, Step, Server, Stages, Locking
<1>2. CommandTypes'
  BY DEF LifecycleInv, CommandTypes, Types, TakeLock
<1>3. FileTypes'
  BY DEF LifecycleInv, FileTypes, Types, TakeLock
<1>4. PlaceTypes'
  BY DEF LifecycleInv, PlaceTypes, Types, TakeLock
<1>5. GuardHeld'
  BY DEF LifecycleInv, GuardHeld, Types, ServerTypes, FileTypes, TakeLock, Step,
     Guarding, Server, Command
<1>6. LockHeld'
  BY ProcessAssumption
     DEF LifecycleInv, LockHeld, Types, ServerTypes, TakeLock, Step, Locking,
         Sweeping, Server, Command
<1>7. RecordWritten'
  BY DEF LifecycleInv, RecordWritten, Types, ServerTypes, CommandTypes, FileTypes,
     Records, Seeing, TakeLock, Step
<1>8. RecordTrue'
  BY DEF LifecycleInv, RecordTrue, Types, ServerTypes, TakeLock, Step, Serving, Named,
     Server
<1>9. PortsApart'
  BY DEF LifecycleInv, PortsApart, Types, ServerTypes, TakeLock, Step, Bound, Other,
     Server
<1>10. RecordSeen'
  BY DEF LifecycleInv, RecordSeen, TakeLock
<1>11. MetIsOver'
  BY ProcessAssumption
     DEF LifecycleInv, MetIsOver, Types, ServerTypes, LockHeld, TakeLock, Step
<1> QED
  BY <1>1, <1>2, <1>3, <1>4, <1>5, <1>6, <1>7, <1>8, <1>9, <1>10, <1>11
     DEF LifecycleInv, Types

LEMMA OpenAppKeeps ==
  ASSUME LifecycleInv, NEW s \in Servers, OpenApp(s), ~End(s)
  PROVE  LifecycleInv'
<1>1. ServerTypes'
  BY PortAssumption, HostAssumption
     DEF LifecycleInv, ServerTypes, Types, OpenApp, Server, Stages, Guarding
<1>2. CommandTypes'
  BY PortAssumption, HostAssumption DEF LifecycleInv, CommandTypes, Types, OpenApp
<1>3. FileTypes'
  BY PortAssumption, HostAssumption DEF LifecycleInv, FileTypes, Types, OpenApp
<1>4. PlaceTypes'
  BY PortAssumption, HostAssumption DEF LifecycleInv, PlaceTypes, Types, OpenApp
<1>5. GuardHeld'
  BY PortAssumption, HostAssumption
     DEF LifecycleInv, GuardHeld, Types, ServerTypes, FileTypes, LockHeld, OpenApp,
         Guarding, Server
<1>6. LockHeld'
  BY PortAssumption, HostAssumption
     DEF LifecycleInv, LockHeld, Types, ServerTypes, OpenApp, Locking, Sweeping,
         Server
<1>7. RecordWritten'
  BY PortAssumption, HostAssumption
     DEF LifecycleInv, RecordWritten, Types, ServerTypes, CommandTypes, FileTypes,
         Records, Seeing, Other, Free, OpenApp, BindHost
<1>8. RecordTrue'
  BY PortAssumption, HostAssumption
     DEF LifecycleInv, RecordTrue, Types, ServerTypes, OpenApp, Serving, Named,
         Server, Command
<1>9. PortsApart'
  BY PortAssumption, HostAssumption
     DEF LifecycleInv, PortsApart, Types, ServerTypes, OpenApp, Bound, Other, Server,
         Command
<1>10. RecordSeen'
  BY PortAssumption, HostAssumption DEF LifecycleInv, RecordSeen, OpenApp
<1>11. MetIsOver'
  BY PortAssumption, HostAssumption
     DEF LifecycleInv, MetIsOver, Types, ServerTypes, LockHeld, OpenApp, Locking,
         Sweeping, Server, Command
<1> QED
  BY <1>1, <1>2, <1>3, <1>4, <1>5, <1>6, <1>7, <1>8, <1>9, <1>10, <1>11
     DEF LifecycleInv, Types

LEMMA BindKeeps ==
  ASSUME LifecycleInv, NEW s \in Servers, Bind(s), ~End(s)
  PROVE  LifecycleInv'
<1>1. ServerTypes'
  BY PortAssumption, HostAssumption
     DEF LifecycleInv, ServerTypes, Types, Bind, Step, Server, Stages, Command,
         Guarding, Locking
<1>2. CommandTypes'
  BY PortAssumption, HostAssumption DEF LifecycleInv, CommandTypes, Types, Bind
<1>3. FileTypes'
  BY PortAssumption, HostAssumption DEF LifecycleInv, FileTypes, Types, Bind
<1>4. PlaceTypes'
  BY PortAssumption, HostAssumption DEF LifecycleInv, PlaceTypes, Types, Bind
<1>5. GuardHeld'
  BY PortAssumption, HostAssumption
     DEF LifecycleInv, GuardHeld, Types, ServerTypes, FileTypes, LockHeld, Bind, Free,
         Step, MayMove, Guarding, Server, Command
<1>6. LockHeld'
  BY PortAssumption, HostAssumption
     DEF LifecycleInv, LockHeld, Types, ServerTypes, Bind, Free, Step, MayMove,
         Locking, Sweeping, Server, Command
<1>7. RecordWritten'
  BY PortAssumption, HostAssumption
     DEF LifecycleInv, RecordWritten, Types, ServerTypes, CommandTypes, FileTypes,
         Records, Seeing, Other, Free, Bind, Step
<1>8. RecordTrue'
  BY PortAssumption, HostAssumption
     DEF LifecycleInv, RecordTrue, Types, ServerTypes, Bind, Free, Step, MayMove,
         Serving, Named, Server, Command
<1>9. PortsApart'
  BY PortAssumption, HostAssumption
     DEF LifecycleInv, PortsApart, Types, ServerTypes, Bind, Free, Step, MayMove,
         Bound, Other, Server
<1>10. RecordSeen'
  BY PortAssumption, HostAssumption DEF LifecycleInv, RecordSeen, Bind
<1>11. MetIsOver'
  BY PortAssumption, HostAssumption
     DEF LifecycleInv, MetIsOver, Types, ServerTypes, Bind, Free, Step, MayMove,
         Locking, Sweeping, Server
<1> QED
  BY <1>1, <1>2, <1>3, <1>4, <1>5, <1>6, <1>7, <1>8, <1>9, <1>10, <1>11
     DEF LifecycleInv, Types

LEMMA AnnounceKeeps ==
  ASSUME LifecycleInv, NEW s \in Servers, Announce(s), ~End(s)
  PROVE  LifecycleInv'
<1>1. ServerTypes'
  BY DEF LifecycleInv, ServerTypes, Types, Announce, Step, Server, Stages, Locking,
     Seeing
<1>2. CommandTypes'
  BY DEF LifecycleInv, CommandTypes, Types, Announce
<1>3. FileTypes'
  BY DEF LifecycleInv, FileTypes, Types, ServerTypes, MetIsOver, Server, Command,
     Stages, Places, Hosts, Records, Seeing, Other, Free, Announce, Record, Step,
     Release
<1>4. PlaceTypes'
  BY DEF LifecycleInv, PlaceTypes, Types, Announce
<1>5. GuardHeld'
  BY DEF LifecycleInv, GuardHeld, Types, ServerTypes, FileTypes, LockHeld, Announce,
     Record, Step, Release, Guarding
<1>6. LockHeld'
  BY DEF LifecycleInv, LockHeld, Types, ServerTypes, Announce, Record, Step, Release,
     Locking, Sweeping, Server, Command
<1>7. RecordWritten'
  BY DEF LifecycleInv, RecordWritten, Types, ServerTypes, CommandTypes, FileTypes,
     LockHeld, GuardHeld, MetIsOver, Server, Command, Stages, Places, Hosts, Records,
     Seeing, Other, Free, Announce, Record, Step, Release
<1>8. RecordTrue'
  BY DEF LifecycleInv, RecordTrue, Types, ServerTypes, LockHeld, RecordWritten,
     Server, Command, Announce, Record, Step, Release, Serving, Named
<1>9. PortsApart'
  BY DEF LifecycleInv, PortsApart, Types, ServerTypes, Announce, Record, Step,
     Release, Bound, Other, Server
<1>10. RecordSeen'
  BY DEF LifecycleInv, RecordSeen, Announce
<1>11. MetIsOver'
  BY DEF LifecycleInv, MetIsOver, Types, ServerTypes, LockHeld, Announce, Record,
     Step, Release, Locking, Sweeping, Server
<1> QED
  BY <1>1, <1>2, <1>3, <1>4, <1>5, <1>6, <1>7, <1>8, <1>9, <1>10, <1>11
     DEF LifecycleInv, Types

LEMMA InterruptKeeps ==
  ASSUME LifecycleInv, NEW s \in Servers, Interrupt(s)
  PROVE  LifecycleInv'
<1>1. PICK g \in Server : g = [srv[s] EXCEPT !.stop = TRUE]
  BY DEF LifecycleInv, Types, ServerTypes, Server
<1>2. srv' = [srv EXCEPT ![s] = g] /\ g.pc = srv[s].pc /\ g.port = srv[s].port
  BY <1>1 DEF LifecycleInv, Types, ServerTypes, Server, Interrupt
<1>3. ServerTypes'
  BY <1>2 DEF LifecycleInv, Types, ServerTypes
<1>4. CommandTypes'
  BY <1>2 DEF LifecycleInv, CommandTypes, Types, Interrupt
<1>5. FileTypes'
  BY <1>2 DEF LifecycleInv, FileTypes, Types, Interrupt
<1>6. PlaceTypes'
  BY <1>2 DEF LifecycleInv, PlaceTypes, Types, Interrupt
<1>7. GuardHeld'
  BY <1>2 DEF LifecycleInv, GuardHeld, Interrupt
<1>8. LockHeld'
  BY <1>2 DEF LifecycleInv, LockHeld, Interrupt
<1>9. RecordWritten'
  BY <1>2 DEF LifecycleInv, RecordWritten, Interrupt
<1>10. RecordTrue'
  BY <1>2 DEF LifecycleInv, RecordTrue, Interrupt, Serving, Named
<1>11. PortsApart'
  BY <1>2 DEF LifecycleInv, PortsApart, Interrupt, Bound, Other
<1>12. RecordSeen'
  BY <1>2 DEF LifecycleInv, RecordSeen, Interrupt
<1>13. MetIsOver'
  BY <1>2 DEF LifecycleInv, MetIsOver, Interrupt
<1> QED
  BY <1>3, <1>4, <1>5, <1>6, <1>7, <1>8, <1>9, <1>10, <1>11, <1>12, <1>13
     DEF LifecycleInv, Types

LEMMA DrainKeeps ==
  ASSUME LifecycleInv, NEW s \in Servers, Drain(s)
  PROVE  LifecycleInv'
<1>1. ServerTypes'
  BY DEF LifecycleInv, ServerTypes, Types, Drain, Step, Server, Stages, Locking
<1>2. CommandTypes'
  BY DEF LifecycleInv, CommandTypes, Types, Drain
<1>3. FileTypes'
  BY DEF LifecycleInv, FileTypes, Types, Drain
<1>4. PlaceTypes'
  BY DEF LifecycleInv, PlaceTypes, Types, Drain
<1>5. GuardHeld'
  BY DEF LifecycleInv, GuardHeld, Drain, Serving, Step, Guarding
<1>6. LockHeld'
  BY DEF LifecycleInv, LockHeld, Drain, Serving, Step, Locking
<1>7. RecordWritten'
  BY DEF LifecycleInv, RecordWritten, Drain, Step
<1>8. RecordTrue'
  BY DEF LifecycleInv, RecordTrue, Drain, Serving, Step, Named
<1>9. PortsApart'
  BY DEF LifecycleInv, PortsApart, Drain, Step, Bound, Other
<1>10. RecordSeen'
  BY DEF LifecycleInv, RecordSeen, Drain
<1>11. MetIsOver'
  BY DEF LifecycleInv, MetIsOver, Drain, Serving, Step, Locking
<1> QED
  BY <1>1, <1>2, <1>3, <1>4, <1>5, <1>6, <1>7, <1>8, <1>9, <1>10, <1>11
     DEF LifecycleInv, Types

LEMMA UnlinkKeeps ==
  ASSUME LifecycleInv, NEW s \in Servers, Unlink(s)
  PROVE  LifecycleInv'
<1>1. ServerTypes'
  BY DEF LifecycleInv, ServerTypes, Types, Unlink, Step, Server, Stages, Locking
<1>2. CommandTypes'
  BY DEF LifecycleInv, CommandTypes, Types, Unlink
<1>3. FileTypes'
  BY DEF LifecycleInv, FileTypes, Types, Unlink
<1>4. PlaceTypes'
  BY DEF LifecycleInv, PlaceTypes, Types, Unlink
<1>5. GuardHeld'
  BY DEF LifecycleInv, GuardHeld, Unlink, Step, Guarding
<1>6. LockHeld'
  BY DEF LifecycleInv, LockHeld, Unlink, Step, Locking
<1>7. RecordWritten'
  BY DEF RecordWritten, Unlink
<1>8. RecordTrue'
  BY DEF RecordTrue, Unlink, Named
<1>9. PortsApart'
  BY DEF LifecycleInv, PortsApart, Unlink, Step, Bound, Other
<1>10. RecordSeen'
  BY DEF LifecycleInv, RecordSeen, Unlink
<1>11. MetIsOver'
  BY DEF LifecycleInv, MetIsOver, Unlink, Step, Locking
<1> QED
  BY <1>1, <1>2, <1>3, <1>4, <1>5, <1>6, <1>7, <1>8, <1>9, <1>10, <1>11
     DEF LifecycleInv, Types

LEMMA PatchConfigKeeps ==
  ASSUME LifecycleInv, NEW s \in Servers, PatchConfig(s)
  PROVE  LifecycleInv'
<1>1. ServerTypes'
  BY DEF LifecycleInv, ServerTypes, Types, PatchConfig
<1>2. CommandTypes'
  BY DEF LifecycleInv, CommandTypes, Types, PatchConfig
<1>3. FileTypes'
  BY DEF LifecycleInv, FileTypes, Types, At, Given, PatchConfig, First
<1>4. PlaceTypes'
  BY DEF LifecycleInv, PlaceTypes, Types, PatchConfig
<1>5. GuardHeld'
  BY DEF LifecycleInv, GuardHeld, PatchConfig
<1>6. LockHeld'
  BY DEF LifecycleInv, LockHeld, PatchConfig
<1>7. RecordWritten'
  BY DEF LifecycleInv, RecordWritten, PatchConfig
<1>8. RecordTrue'
  BY DEF LifecycleInv, RecordTrue, PatchConfig, Serving, Named
<1>9. PortsApart'
  BY DEF LifecycleInv, PortsApart, PatchConfig, Bound, Other
<1>10. RecordSeen'
  BY DEF LifecycleInv, RecordSeen, PatchConfig
<1>11. MetIsOver'
  BY DEF LifecycleInv, MetIsOver, PatchConfig
<1> QED
  BY <1>1, <1>2, <1>3, <1>4, <1>5, <1>6, <1>7, <1>8, <1>9, <1>10, <1>11
     DEF LifecycleInv, Types

LEMMA EffectKeeps ==
  ASSUME LifecycleInv, NEW c \in Commands, Effect(c)
  PROVE  LifecycleInv'
<1>1. ServerTypes'
  BY DEF ServerTypes, Effect, Urges
<1>2. CommandTypes'
  BY DEF LifecycleInv, CommandTypes, Types, Effect, Goes
<1>3. FileTypes'
  BY DEF LifecycleInv, FileTypes, Types, Effect
<1>4. PlaceTypes'
  BY DEF LifecycleInv, PlaceTypes, Types, Effect
<1>5. GuardHeld'
  BY DEF LifecycleInv, GuardHeld, Types, FileTypes, Effect, Goes, Urges, Guarding,
     Server
<1>6. LockHeld'
  BY DEF LifecycleInv, LockHeld, Effect, Goes, Urges, Locking
<1>7. RecordWritten'
  BY DEF LifecycleInv, RecordWritten, Types, ServerTypes, CommandTypes, FileTypes,
     Records, Seeing, Other, Free, Effect, Goes, Urges
<1>8. RecordTrue'
  BY DEF LifecycleInv, RecordTrue, Effect, Urges, Serving, Named
<1>9. PortsApart'
  BY DEF LifecycleInv, PortsApart, Effect, Urges, Bound, Other
<1>10. RecordSeen'
  BY DEF LifecycleInv, RecordSeen, Effect, Goes
<1>11. MetIsOver'
  BY DEF LifecycleInv, MetIsOver, Effect, Goes, Urges, Locking
<1> QED
  BY <1>1, <1>2, <1>3, <1>4, <1>5, <1>6, <1>7, <1>8, <1>9, <1>10, <1>11
     DEF LifecycleInv, Types

LEMMA TryLockKeeps ==
  ASSUME LifecycleInv, NEW c \in Commands, TryLock(c)
  PROVE  LifecycleInv'
<1>1. PICK r \in Command : /\ cmd' = [cmd EXCEPT ![c] = r] /\ r.stopped = cmd[c].stopped
                           /\ cmd[c].pc = "lock"
        /\ \/ lock = None /\ lock' = c /\ r.pc = "sweep" /\ r.met = cmd[c].met
           \/ lock # None /\ lock' = lock /\ r.pc = "find" /\ r.met = lock
  <2>1. CASE lock = None
    BY <2>1, Placed DEF LifecycleInv, Types, TryLock, Goto, Places, Sweeping
  <2>2. CASE lock # None
    <3>1. PICK r : r = [cmd[c] EXCEPT !.met = lock, !.pc = "find"]
      OBVIOUS
    <3>2. cmd' = [cmd EXCEPT ![c] = r] /\ lock' = lock /\ cmd[c].pc = "lock"
      BY <2>2, <3>1 DEF LifecycleInv, Types, CommandTypes, TryLock
    <3>3. r \in Command /\ r.pc = "find" /\ r.met = lock /\ r.stopped = cmd[c].stopped
      BY <2>2, <3>1 DEF LifecycleInv, Types, CommandTypes, FileTypes, Command, Places
    <3> QED
      BY <2>2, <3>2, <3>3
  <2> QED
    BY <2>1, <2>2
<1>2. ServerTypes'
  BY <1>1 DEF LifecycleInv, ServerTypes, Types, TryLock
<1>3. CommandTypes'
  BY <1>1 DEF LifecycleInv, Types, CommandTypes
<1>4. FileTypes'
  BY <1>1 DEF LifecycleInv, FileTypes, Types, TryLock
<1>5. PlaceTypes'
  BY <1>1 DEF LifecycleInv, PlaceTypes, Types, TryLock
<1>6. GuardHeld'
  BY <1>1 DEF LifecycleInv, GuardHeld, TryLock
<1>7. LockHeld'
  BY ProcessAssumption, <1>1
     DEF LifecycleInv, LockHeld, Types, CommandTypes, TryLock, Sweeping
<1>8. RecordWritten'
  BY <1>1 DEF LifecycleInv, RecordWritten, TryLock
<1>9. RecordTrue'
  BY <1>1 DEF LifecycleInv, RecordTrue, TryLock, Serving, Named
<1>10. PortsApart'
  BY <1>1 DEF LifecycleInv, PortsApart, TryLock, Bound, Other
<1>11. RecordSeen'
  BY <1>1 DEF LifecycleInv, RecordSeen, Seeing
<1>12. MetIsOver'
  BY ProcessAssumption, <1>1 DEF LifecycleInv, MetIsOver, TryLock, Command
<1> QED
  BY <1>2, <1>3, <1>4, <1>5, <1>6, <1>7, <1>8, <1>9, <1>10, <1>11, <1>12
     DEF LifecycleInv, Types

LEMMA AwaitLockKeeps ==
  ASSUME LifecycleInv, NEW c \in Commands, AwaitLock(c)
  PROVE  LifecycleInv'
<1>1. PICK r \in Command : /\ cmd' = [cmd EXCEPT ![c] = r] /\ r.stopped = cmd[c].stopped
                           /\ r.met = cmd[c].met
        /\ cmd[c].pc = "wait"
        /\ \/ lock = None /\ lock' = c /\ r.pc = "sweep"
           \/ lock # None /\ lock' = lock /\ r.pc = "failed"
  <2>1. cmd[c].pc = "wait"
    BY DEF AwaitLock
  <2>2. CASE lock = None /\ lock' = c /\ Goto(c, "sweep")
    BY <2>1, <2>2, Placed DEF LifecycleInv, Types, Goto, Places, Sweeping
  <2>3. CASE lock # None /\ lock' = lock /\ Goto(c, "failed")
    BY <2>1, <2>3, Placed DEF LifecycleInv, Types, Goto, Places
  <2> QED
    BY <2>2, <2>3 DEF AwaitLock
<1>2. ServerTypes'
  BY <1>1 DEF LifecycleInv, ServerTypes, Types, AwaitLock
<1>3. CommandTypes'
  BY <1>1 DEF LifecycleInv, Types, CommandTypes
<1>4. FileTypes'
  BY <1>1 DEF LifecycleInv, FileTypes, Types, AwaitLock
<1>5. PlaceTypes'
  BY <1>1 DEF LifecycleInv, PlaceTypes, Types, AwaitLock
<1>6. GuardHeld'
  BY <1>1 DEF LifecycleInv, GuardHeld, AwaitLock
<1>7. LockHeld'
  BY ProcessAssumption, <1>1
     DEF LifecycleInv, LockHeld, Types, CommandTypes, AwaitLock, Sweeping
<1>8. RecordWritten'
  BY <1>1 DEF LifecycleInv, RecordWritten, AwaitLock
<1>9. RecordTrue'
  BY <1>1 DEF LifecycleInv, RecordTrue, AwaitLock, Serving, Named
<1>10. PortsApart'
  BY <1>1 DEF LifecycleInv, PortsApart, AwaitLock, Bound, Other
<1>11. RecordSeen'
  BY <1>1 DEF LifecycleInv, RecordSeen, Seeing
<1>12. MetIsOver'
  BY ProcessAssumption, <1>1
     DEF LifecycleInv, MetIsOver, LockHeld, AwaitLock, Sweeping
<1> QED
  BY <1>2, <1>3, <1>4, <1>5, <1>6, <1>7, <1>8, <1>9, <1>10, <1>11, <1>12
     DEF LifecycleInv, Types

LEMMA SweepKeeps ==
  ASSUME LifecycleInv, NEW c \in Commands, Sweep(c)
  PROVE  LifecycleInv'
<1>1. PICK r \in Command : /\ cmd' = [cmd EXCEPT ![c] = r] /\ r.stopped = cmd[c].stopped
                           /\ r.met = cmd[c].met
        /\ cmd[c].pc = "sweep" /\ r.pc = "unlock"
  BY Placed DEF LifecycleInv, Types, Sweep, Goto, Places, Sweeping
<1>2. ServerTypes'
  BY <1>1 DEF LifecycleInv, ServerTypes, Types, Sweep
<1>3. CommandTypes'
  BY <1>1 DEF LifecycleInv, Types, CommandTypes
<1>4. FileTypes'
  BY <1>1 DEF LifecycleInv, FileTypes, Types, Sweep
<1>5. PlaceTypes'
  BY <1>1 DEF LifecycleInv, PlaceTypes, Types, Sweep
<1>6. GuardHeld'
  BY <1>1 DEF LifecycleInv, GuardHeld, Sweep
<1>7. LockHeld'
  BY <1>1 DEF LifecycleInv, LockHeld, Sweep, Sweeping
<1>8. RecordWritten'
  BY <1>1 DEF RecordWritten, Sweep
<1>9. RecordTrue'
  BY <1>1 DEF RecordTrue, Sweep, Named
<1>10. PortsApart'
  BY <1>1 DEF LifecycleInv, PortsApart, Sweep, Bound, Other
<1>11. RecordSeen'
  BY <1>1 DEF LifecycleInv, RecordSeen, Seeing
<1>12. MetIsOver'
  BY <1>1 DEF LifecycleInv, MetIsOver, Sweep, Sweeping
<1> QED
  BY <1>2, <1>3, <1>4, <1>5, <1>6, <1>7, <1>8, <1>9, <1>10, <1>11, <1>12
     DEF LifecycleInv, Types

LEMMA UnlockKeeps ==
  ASSUME LifecycleInv, NEW c \in Commands, Unlock(c)
  PROVE  LifecycleInv'
<1>1. PICK place \in {"read", "ok"} : cmd' = [cmd EXCEPT ![c] = [At(c,
                                      place) EXCEPT !.stopped = TRUE]]
  BY DEF Unlock
<1>2. PICK r : r = [At(c, place) EXCEPT !.stopped = TRUE]
  OBVIOUS
<1>3. At(c, place) \in Command /\ At(c, place).pc = place /\ At(c, place).met = cmd[c].met
  BY Placed DEF LifecycleInv, Types, Places
<1>4. r \in Command /\ r.pc = place /\ r.met = cmd[c].met /\ r.stopped
  BY <1>2, <1>3 DEF Command
<1>5. /\ cmd' = [cmd EXCEPT ![c] = r] /\ r \in Command /\ r.pc \in {"read", "ok"}
      /\ r.met = cmd[c].met
        /\ r.stopped /\ cmd[c].pc = "unlock"
  BY <1>1, <1>2, <1>4 DEF Unlock
<1>6. ServerTypes'
  BY <1>5 DEF LifecycleInv, ServerTypes, Types, Unlock
<1>7. CommandTypes'
  BY <1>5 DEF LifecycleInv, Types, CommandTypes
<1>8. FileTypes'
  BY <1>5 DEF LifecycleInv, FileTypes, Types, Unlock
<1>9. PlaceTypes'
  BY <1>5 DEF LifecycleInv, PlaceTypes, Types, Unlock
<1>10. GuardHeld'
  BY <1>5 DEF LifecycleInv, GuardHeld, Unlock
<1>11. LockHeld'
  BY ProcessAssumption, <1>5
     DEF LifecycleInv, LockHeld, Types, CommandTypes, Unlock, Sweeping, Command
<1>12. RecordWritten'
  BY <1>5 DEF LifecycleInv, RecordWritten, Unlock
<1>13. RecordTrue'
  BY <1>5 DEF LifecycleInv, RecordTrue, Unlock, Serving, Named
<1>14. PortsApart'
  BY <1>5 DEF LifecycleInv, PortsApart, Unlock, Bound, Other
<1>15. RecordSeen'
  BY <1>5 DEF LifecycleInv, RecordSeen, Seeing
<1>16. MetIsOver'
  BY <1>5 DEF LifecycleInv, MetIsOver, Unlock, Sweeping, Command
<1> QED
  BY <1>6, <1>7, <1>8, <1>9, <1>10, <1>11, <1>12, <1>13, <1>14, <1>15, <1>16
     DEF LifecycleInv, Types

LEMMA TurnPortKeeps ==
  ASSUME LifecycleInv, NEW p \in Contended, TurnPort(p)
  PROVE  LifecycleInv'
<1>1. ServerTypes'
  BY DEF LifecycleInv, ServerTypes, Types, TurnPort
<1>2. CommandTypes'
  BY DEF LifecycleInv, CommandTypes, Types, TurnPort
<1>3. FileTypes'
  BY DEF LifecycleInv, FileTypes, Types, TurnPort
<1>4. PlaceTypes'
  BY DEF LifecycleInv, PlaceTypes, Types, TurnPort
<1>5. GuardHeld'
  BY DEF LifecycleInv, GuardHeld, TurnPort
<1>6. LockHeld'
  BY DEF LifecycleInv, LockHeld, TurnPort
<1>7. RecordWritten'
  BY DEF LifecycleInv, RecordWritten, TurnPort
<1>8. RecordTrue'
  BY DEF LifecycleInv, RecordTrue, TurnPort, Serving, Named
<1>9. PortsApart'
  BY DEF LifecycleInv, PortsApart, TurnPort, Free, Bound, Other
<1>10. RecordSeen'
  BY DEF LifecycleInv, RecordSeen, TurnPort
<1>11. MetIsOver'
  BY DEF LifecycleInv, MetIsOver, TurnPort
<1> QED
  BY <1>1, <1>2, <1>3, <1>4, <1>5, <1>6, <1>7, <1>8, <1>9, <1>10, <1>11
     DEF LifecycleInv, Types

-----------------------------------------------------------------------------
LEMMA LifecycleInit == Init => LifecycleInv
<1> SUFFICES ASSUME Init PROVE LifecycleInv
  OBVIOUS
<1>1. ServerTypes /\ \A s \in Servers : srv[s].pc = "off"
  <2>1. PICK g \in Server : g = Fresh("off", "cli", NoFlags)
    BY Nothing DEF Fresh, Server, Stages, Hosts
  <2>2. g.pc = "off" /\ srv = [s \in Servers |-> g]
    BY <2>1 DEF Init, Fresh
  <2> QED
    BY <2>2 DEF ServerTypes
<1>2. /\ CommandTypes
      /\ \A c \in Commands : cmd[c].pc = "idle" /\ cmd[c].met = None /\ ~cmd[c].stopped
  <2>1. PICK r \in Command : r = Idle
    BY Nothing DEF Idle, Command, Places, Names
  <2>2. r.pc = "idle" /\ r.met = None /\ ~r.stopped /\ cmd = [c \in Commands |-> r]
    BY <2>1 DEF Init, Idle
  <2> QED
    BY <2>2 DEF CommandTypes
<1>3. guard = None /\ lock = None /\ json = None /\ FileTypes
  BY Nothing DEF Init, FileTypes
<1>4. PlaceTypes
  BY DEF Init, PlaceTypes, Names
<1>5. LockHeld
  BY <1>1, <1>2, <1>3, ProcessAssumption DEF LockHeld, Locking, Sweeping
<1>6. MetIsOver
  BY <1>2, ProcessAssumption DEF MetIsOver
<1>7. GuardHeld /\ RecordWritten /\ RecordTrue
  BY <1>3 DEF GuardHeld, RecordWritten, RecordTrue, Named
<1>8. PortsApart /\ RecordSeen
  BY <1>1, <1>2 DEF PortsApart, Bound, RecordSeen, Seeing
<1> QED
  BY <1>1, <1>2, <1>3, <1>4, <1>5, <1>6, <1>7, <1>8 DEF LifecycleInv, Types

LEMMA ServerKeeps ==
  ASSUME LifecycleInv, NEW s \in Servers, ServerStep(s)
  PROVE  LifecycleInv'
<1>1. CASE TakeGuard(s)
  <2>1. CASE ~End(s)
    BY <1>1, <2>1, TakeGuardKeeps
  <2>2. CASE End(s)
    BY <1>1, <2>2, EndKeeps DEF TakeGuard, Alive
  <2> QED
    BY <2>1, <2>2
<1>2. CASE TakeLock(s)
  <2>1. CASE ~End(s)
    BY <1>2, <2>1, TakeLockKeeps
  <2>2. CASE End(s)
    BY <1>2, <2>2, EndKeeps DEF TakeLock, Alive
  <2> QED
    BY <2>1, <2>2
<1>3. CASE OpenApp(s)
  <2>1. CASE ~End(s)
    BY <1>3, <2>1, OpenAppKeeps
  <2>2. CASE End(s)
    BY <1>3, <2>2, EndKeeps DEF OpenApp, Alive
  <2> QED
    BY <2>1, <2>2
<1>4. CASE Bind(s)
  <2>1. CASE ~End(s)
    BY <1>4, <2>1, BindKeeps
  <2>2. CASE End(s)
    BY <1>4, <2>2, EndKeeps DEF Bind, Alive
  <2> QED
    BY <2>1, <2>2
<1>5. CASE Announce(s)
  <2>1. CASE ~End(s)
    BY <1>5, <2>1, AnnounceKeeps
  <2>2. CASE End(s)
    <3>1. srv[s].pc = "record" /\ srv'[s].pc = "gone"
      BY <1>5, <2>2 DEF Announce, End, Fresh, LifecycleInv, Types, ServerTypes
    <3>2. UNCHANGED json
      BY <1>5, <3>1 DEF Announce, Step, LifecycleInv, Types, ServerTypes, Server
    <3> QED
      BY <1>5, <2>2, <3>1, <3>2, EndKeeps DEF Announce, Alive
  <2> QED
    BY <2>1, <2>2
<1>6. CASE Interrupt(s) \/ Drain(s) \/ Unlink(s) \/ PatchConfig(s)
  BY <1>6, InterruptKeeps, DrainKeeps, UnlinkKeeps, PatchConfigKeeps
<1>7. CASE Leave(s)
  BY <1>7, EndKeeps DEF Leave, Alive
<1>8. CASE Kill(s)
  BY <1>8, EndKeeps DEF Kill
<1> QED
  BY <1>1, <1>2, <1>3, <1>4, <1>5, <1>6, <1>7, <1>8 DEF ServerStep

LEMMA CommandKeeps ==
  ASSUME LifecycleInv, NEW c \in Commands, CommandStep(c)
  PROVE  LifecycleInv'
BY CommandEffects, EffectKeeps, TryLockKeeps, AwaitLockKeeps, SweepKeeps, UnlockKeeps

(* The SCM launches a server as `install` does, and nothing else moves.    *)
LEMMA ScmStartKeeps ==
  ASSUME LifecycleInv, NEW s \in Servers, ScmStart(s)
  PROVE  LifecycleInv'
<1>1. Urges /\ UNCHANGED <<cmd, guard, lock, json, stored, foreign, registered, autostart>>
  <2>1. PICK n \in registered : Launch(s, n, NoFlags)
    BY DEF ScmStart
  <2>2. n \in Names \cup {"cli"} /\ ServerTypes
    BY DEF LifecycleInv, Types, PlaceTypes
  <2> QED
    BY <2>1, <2>2, Nothing, Launched DEF ScmStart
<1>2. Types' /\ RecordSeen'
  BY <1>1
     DEF LifecycleInv, Types, Urges, ServerTypes, CommandTypes, FileTypes, PlaceTypes,
         RecordSeen
<1>3. \A t \in Servers : \/ srv'[t].pc = srv[t].pc /\ srv'[t].port = srv[t].port
                         \/ srv[t].pc = "off" /\ srv'[t].pc = "guard"
  BY <1>1 DEF Urges
<1>4. GuardHeld' /\ LockHeld'
  BY <1>1, <1>3
     DEF LifecycleInv, Types, FileTypes, GuardHeld, LockHeld, Guarding, Locking
<1>5. RecordWritten' /\ RecordTrue'
  BY <1>1, <1>3
     DEF LifecycleInv, Types, FileTypes, Records, RecordWritten, RecordTrue, Serving,
         Named
<1>6. PortsApart'
  BY <1>1, <1>3 DEF LifecycleInv, PortsApart, Bound, Other
<1>7. MetIsOver'
  BY <1>1, <1>3 DEF LifecycleInv, MetIsOver, Locking
<1> QED
  BY <1>2, <1>4, <1>5, <1>6, <1>7 DEF LifecycleInv

LEMMA LifecycleStep == LifecycleInv /\ [Next]_vars => LifecycleInv'
<1> SUFFICES ASSUME LifecycleInv, [Next]_vars PROVE LifecycleInv'
  OBVIOUS
<1>1. ASSUME NEW s \in Servers, ServerStep(s) \/ ScmStart(s)
      PROVE  LifecycleInv'
  BY <1>1, ServerKeeps, ScmStartKeeps
<1>2. ASSUME NEW c \in Commands, CommandStep(c)
      PROVE  LifecycleInv'
  BY <1>2, CommandKeeps
<1>3. ASSUME NEW p \in Contended, TurnPort(p)
      PROVE  LifecycleInv'
  BY <1>3, TurnPortKeeps
<1>4. CASE UNCHANGED vars
  BY <1>4
     DEF vars, LifecycleInv, Types, ServerTypes, CommandTypes, FileTypes, PlaceTypes,
         GuardHeld, LockHeld, RecordWritten, RecordTrue, PortsApart, RecordSeen,
         MetIsOver, Serving, Named, Bound, Other
<1> QED
  BY <1>1, <1>2, <1>3, <1>4 DEF Next

LEMMA LifecycleAlways == Spec => []LifecycleInv
<1> QED
  BY LifecycleInit, LifecycleStep, PTL DEF Spec

-----------------------------------------------------------------------------
(* Locks are held by live processes in the stages between taking and       *)
(* releasing them, a record is that of a process that has served, and a    *)
(* command that goes by a record has read one (run_http_full, cmd_start,   *)
(* cmd_stop).                                                              *)
THEOREM LifecycleTypes == Spec => []TypeOK
<1>1. LifecycleInv => TypeOK
  <2> SUFFICES ASSUME LifecycleInv PROVE TypeOK
    OBVIOUS
  <2>1. Types /\ GuardHeld /\ LockHeld /\ RecordWritten /\ RecordSeen
    BY DEF LifecycleInv
  <2>2. ASSUME NEW s \in Servers
        PROVE  /\ srv[s].pc \in {"off", "guard", "lock", "open", "bind", "record", "serve",
                                 "drain", "leave", "gone"}
               /\ srv[s].by \in Names \cup {"cli"}
               /\ srv[s].flags \in Given
               /\ srv[s].host \in {None, "loopback", "any", "address"}
               /\ srv[s].port \in Ports \cup {None}
               /\ srv[s].stop \in BOOLEAN
    BY <2>1 DEF Types, ServerTypes, Server, Stages, Guarding, Locking, Hosts
  <2>3. ASSUME NEW c \in Commands
        PROVE  /\ cmd[c].pc \in {"idle", "read", "alive", "probe", "clear", "spawn", "poll",
                    "check", "lock", "find", "post", "wait", "sweep", "unlock", "call",
                    "follow", "register", "elevate", "remove", "await", "create", "ok",
                    "failed"}
               /\ cmd[c].op \in Ops \cup {None, "start"}
               /\ cmd[c].left \subseteq Names
               /\ cmd[c].met \in Servers \cup Commands \cup {None}
               /\ cmd[c].pc \in {"alive", "probe", "clear", "check", "post", "call", "follow"}
                    => cmd[c].saw # None
    BY <2>1 DEF Types, CommandTypes, Command, Places, Seeing, Sweeping, RecordSeen
  <2>4. guard \in {s \in Servers : srv[s].pc \in {"lock", "open", "bind",
        "record"}} \cup {None}
    BY <2>1 DEF Types, FileTypes, GuardHeld, Guarding
  <2>5. lock \in {s \in Servers : srv[s].pc \in {"open", "bind", "record", "serve", "drain",
        "leave"}}
                 \cup {c \in Commands : cmd[c].pc \in {"sweep", "unlock"}} \cup {None}
    BY <2>1 DEF Types, FileTypes, LockHeld, Locking, Sweeping
  <2>6. json # None =>
          srv[json.pid].pc \notin {"off", "guard", "lock", "open", "bind", "record"}
    BY <2>1 DEF RecordWritten
  <2> QED
    BY <2>1, <2>2, <2>3, <2>4, <2>5, <2>6 DEF TypeOK, Types, FileTypes, PlaceTypes
<1> QED
  BY <1>1, LifecycleAlways, PTL

(* server.json leads to the server that serves and to nothing else, on     *)
(* whatever port it ended up (run_http_full: it is written after the bind, *)
(* with the port that was bound).                                          *)
THEOREM RecordAlwaysLeads == Spec => []RecordLeads
<1>1. LifecycleInv => RecordLeads
  BY DEF LifecycleInv, RecordTrue, PortsApart, RecordLeads, Ours, Serving, Bound
<1> QED
  BY <1>1, LifecycleAlways, PTL

(* When `stop` says that the server has stopped, the one it met has ended  *)
(* (cmd_stop waits for server.lock, which every server keeps to its end).  *)
THEOREM StopIsTrue == Spec => []StopTellsTruth
<1>1. LifecycleInv => StopTellsTruth
  BY DEF LifecycleInv, MetIsOver, StopTellsTruth, Alive
<1> QED
  BY <1>1, LifecycleAlways, PTL

(* Only a start or a status that believed it stale takes its record from a *)
(* server that serves: who sweeps (cmd_stop), unlinks or writes            *)
(* (run_http_full) holds the lock, and then nobody else serves.            *)
THEOREM RecordIsKept == Spec => RecordKept
<1> DEFINE Kept == \A s \in Servers : Serving(s) /\ Named(s) /\ Serving(s)' =>
              Named(s)' \/ \E c \in Commands : cmd[c].pc = "clear" /\ cmd'[c].pc # "clear"
<1>1. ASSUME LifecycleInv, [Next]_vars, NEW s \in Servers, Serving(s), Named(s), Serving(s)'
      PROVE  Named(s)' \/ \E c \in Commands : cmd[c].pc = "clear" /\ cmd'[c].pc # "clear"
  <2>1. lock = s /\ LockHeld /\ CommandTypes /\ ServerTypes
    BY <1>1 DEF LifecycleInv, Types, LockHeld, Serving, Locking
  <2>2. CASE UNCHANGED json
    BY <1>1, <2>2 DEF Named
  <2>3. ASSUME NEW t \in Servers, Unlink(t) PROVE FALSE
    BY <1>1, <2>1, <2>3 DEF Unlink, LockHeld, Locking, Serving
  <2>4. ASSUME NEW t \in Servers, Announce(t) PROVE UNCHANGED json
    BY <1>1, <2>1, <2>4 DEF Announce, LockHeld, Locking, Serving
  <2>5. ASSUME NEW c \in Commands, Sweep(c) PROVE FALSE
    BY <1>1, <2>1, <2>5, ProcessAssumption DEF Sweep, LockHeld, Sweeping
  <2>6. ASSUME NEW c \in Commands, Clear(c)
        PROVE  cmd[c].pc = "clear" /\ cmd'[c].pc # "clear"
    <3>1. PICK place \in {"failed", "spawn"} : Goto(c, place)
      BY <2>6 DEF Clear
    <3>2. At(c, place).pc = place
      BY <2>1, <3>1, Placed DEF Places
    <3> QED
      BY <2>1, <2>6, <3>1, <3>2 DEF Clear, Goto, CommandTypes
  <2>7. ASSUME NEW t \in Servers, ServerStep(t), ~Unlink(t), ~Announce(t) PROVE UNCHANGED json
    BY <2>7
       DEF ServerStep, TakeGuard, TakeLock, OpenApp, Bind, Interrupt, Drain, Leave,
           Kill, PatchConfig
  <2>8. ASSUME NEW c \in Commands, CommandStep(c), ~Sweep(c), ~Clear(c) PROVE UNCHANGED json
    BY <2>8
       DEF CommandStep, Logon, Begin, ReadRecord, CheckAlive, Probe, Spawn, Poll,
           Check, TryLock, Find, Post, AwaitLock, Unlock, CallServer, Follow,
           SetAutostart, Elevate, StopService, DeleteService, CreateService
  <2>9. ASSUME NEW t \in Servers, ScmStart(t) PROVE UNCHANGED json
    BY <2>9 DEF ScmStart
  <2>10. ASSUME NEW p \in Contended, TurnPort(p) PROVE UNCHANGED json
    BY <2>10 DEF TurnPort
  <2>11. CASE UNCHANGED vars
    BY <2>2, <2>11 DEF vars
  <2> QED
    BY <1>1, <2>2, <2>3, <2>4, <2>5, <2>6, <2>7, <2>8, <2>9, <2>10, <2>11 DEF Next
<1>2. LifecycleInv /\ [Next]_vars => [Kept]_vars
  BY <1>1
<1> QED
  BY <1>2, LifecycleAlways, PTL DEF Spec, RecordKept
=============================================================================
