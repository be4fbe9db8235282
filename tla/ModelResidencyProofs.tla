------------------------ MODULE ModelResidencyProofs ------------------------
(***************************************************************************)
(* Proofs about ModelResidency: type correctness, and that neither the     *)
(* order of requests, selections, unloads, verifications and refreshes nor *)
(* their failures let a request run on another model, a model be unloaded  *)
(* under a run, the default lose its row, or a model that failed           *)
(* verification be served, for any sets of models, requests and callers.   *)
(***************************************************************************)
EXTENDS ModelResidency, SequenceTheorems, TLAPS

-----------------------------------------------------------------------------
(* The inductive invariant.                                                *)

Turn == {"bind", "look", "sleep", "check", "load", "run"}

UnderSlot(a) == pc[a] \in {"act", "move"} \/ (pc[a] = "drop" /\ op[a] # "refresh")

UnderLock(a) ==
  \/ pc[a] \in {"look", "checkOps", "checkRow", "load", "store", "swap", "delete",
                "ask", "queued"}
  \/ UnderSlot(a)

(* Whoever is past the queue owns the slot, whoever is past the lock holds *)
(* it.                                                                     *)
SlotHeld == /\ \A r \in Requests : pc[r] \in Turn => owner = r
            /\ \A a \in Admins : UnderSlot(a) => owner = a

LockHeld == \A a \in Admins : UnderLock(a) => selection = a

OpPlaces ==
  \A a \in Admins :
    /\ pc[a] = "want" => op[a] \in DOMAIN AfterLock
    /\ pc[a] \in {"insert", "hash", "good", "unreadable", "move"} => op[a] = "verify"
    /\ pc[a] \in {"scan", "found"} => op[a] = "refresh" /\ arg[a] \in DropIns

DefaultKept ==
  /\ DefaultIsRegistered
  /\ \A a \in Admins : pc[a] = "delete" => selected # arg[a]
  /\ \A a \in Admins : pc[a] \in {"load", "store"} /\ arg[a] \notin DropIns
                         => installed[arg[a]] # "none"

RunsBound == \A r \in Requests : pc[r] = "run" => bound[r] = arg[r]

(* A quarantined model has no row, and nobody is about to put it into      *)
(* memory; one that is about to be quarantined has no row and, unless the  *)
(* startup thread brings it back, is not in memory.                        *)
NoRow == \A m \in quarantined : m \notin DropIns /\ installed[m] = "none"

NobodyLoads ==
  \A m \in quarantined :
    /\ \A r \in Requests : pc[r] = "load" => arg[r] # m
    /\ \A a \in Admins : pc[a] \in {"load", "store", "swap"} => arg[a] # m

Doomed ==
  \A a \in Admins :
    /\ op[a] = "verify" /\ pc[a] \in {"drop", "move"}
         => arg[a] \notin DropIns /\ installed[arg[a]] = "none"
    /\ pc[a] = "move" /\ arg[a] # preload => loaded # arg[a]

CondemnedKept == CondemnedNotServed /\ NoRow /\ NobodyLoads /\ Doomed

ResidencyInv == /\ TypeOK /\ SlotHeld /\ LockHeld /\ OpPlaces /\ RunsBound
                /\ DefaultKept /\ CondemnedKept
-----------------------------------------------------------------------------
(* The slot.                                                               *)

(* The head and the tail of a line of callers.                             *)
LEMMA HeadTail ==
  ASSUME NEW S, NEW q \in Seq(S), q # <<>>
  PROVE  Head(q) \in S /\ Tail(q) \in Seq(S)
  OBVIOUS

(* A line of callers after one more joined it.                             *)
LEMMA Appended ==
  ASSUME NEW S, NEW q \in Seq(S), NEW c \in S
  PROVE  Append(q, c) \in Seq(S)
  OBVIOUS

(* Passing the slot on keeps the lines well formed.                        *)
LEMMA PassType ==
  ASSUME TypeOK, Slot!Pass
  PROVE  /\ owner' \in Callers \cup {Nobody}
         /\ urgent' \in Seq(Callers) /\ ordinary' \in Seq(Callers)
<1>1. /\ urgent \in Seq(Callers) /\ ordinary \in Seq(Callers)
  BY DEF TypeOK
<1>2. CASE urgent # <<>>
  BY <1>1, <1>2, HeadTail, Zenon DEF Slot!Pass
<1>3. CASE urgent = <<>> /\ ordinary # <<>>
  BY <1>1, <1>3, HeadTail, Zenon DEF Slot!Pass
<1>4. CASE urgent = <<>> /\ ordinary = <<>>
  BY <1>1, <1>4, Zenon DEF Slot!Pass
<1> QED
  BY <1>2, <1>3, <1>4

(* A caller that gives up leaves well formed lines.                        *)
LEMMA DroppedType ==
  ASSUME NEW q \in Seq(Callers), NEW c
  PROVE  Slot!Dropped(q, c) \in Seq(Callers)
<1>1. CASE ~ \E i \in 1..Len(q) : q[i] = c
  BY <1>1 DEF Slot!Dropped
<1>2. CASE \E i \in 1..Len(q) : q[i] = c
  <2> DEFINE i == CHOOSE j \in 1..Len(q) : q[j] = c
             a == SubSeq(q, 1, i - 1)
             b == SubSeq(q, i + 1, Len(q))
  <2>1. i \in 1..Len(q)
    BY <1>2
  <2>2. Slot!Dropped(q, c) = a \o b
    BY <1>2 DEF Slot!Dropped
  <2> HIDE DEF i
  <2>3. a \in Seq(Callers) /\ b \in Seq(Callers)
    BY <2>1
  <2> HIDE DEF a, b
  <2> QED
    BY <2>2, <2>3, ConcatProperties, Zenon
<1> QED
  BY <1>1, <1>2

(* A caller that waits joins a well formed line and leaves the owner.      *)
LEMMA WaitType ==
  ASSUME TypeOK, NEW c \in Callers, Slot!Wait(c)
  PROVE  /\ owner' = owner
         /\ urgent' \in Seq(Callers) /\ ordinary' \in Seq(Callers)
<1>1. /\ urgent \in Seq(Callers) /\ ordinary \in Seq(Callers)
  BY DEF TypeOK
<1> QED
  BY <1>1, Appended, Zenon DEF Slot!Wait

(* A caller that leaves changes no owner.                                  *)
LEMMA LeaveType ==
  ASSUME TypeOK, NEW c \in Callers, Slot!Leave(c)
  PROVE  /\ owner' = owner
         /\ urgent' \in Seq(Callers) /\ ordinary' \in Seq(Callers)
  BY DroppedType DEF TypeOK, Slot!Leave

(* Only a free slot is taken, at once.                                     *)
LEMMA TakeType ==
  ASSUME TypeOK, NEW c \in Callers, Slot!Take(c)
  PROVE  owner = Nobody /\ owner' = c /\ urgent' = urgent /\ ordinary' = ordinary
  BY DEF Slot!Take
-----------------------------------------------------------------------------
(* Steps.                                                                  *)

(* The end of an operation: its caller is idle, its lock and slot free.    *)
LEMMA EndOpEffect ==
  ASSUME TypeOK, NEW a \in Admins, EndOp(a)
  PROVE  /\ pc' = [pc EXCEPT ![a] = "idle"]
         /\ arg' = [arg EXCEPT ![a] = NoModel]
         /\ op' = [op EXCEPT ![a] = "none"]
         /\ active' = active \ {a}
         /\ selection' = IF selection = a THEN Nobody ELSE selection
         /\ owner # a => owner' = owner
         /\ owner' \in Callers \cup {Nobody}
         /\ urgent' \in Seq(Callers) /\ ordinary' \in Seq(Callers)
<1>1. /\ owner \in Callers \cup {Nobody}
      /\ urgent \in Seq(Callers) /\ ordinary \in Seq(Callers)
  BY DEF TypeOK
<1>2. CASE owner = a
  BY <1>2, PassType, Zenon DEF EndOp, Goto
<1>3. CASE owner # a
  BY <1>1, <1>3, Zenon DEF EndOp, Goto, slot
<1> QED
  BY <1>2, <1>3

(* What the invariant's parts need of the shape of the state.              *)
LEMMA Shape ==
  ASSUME TypeOK
  PROVE  /\ Callers = Requests \cup Admins /\ Requests \cap Admins = {}
         /\ Nobody \notin Callers
         /\ pc \in [Callers -> Places] /\ op \in [Admins -> Ops]
         /\ arg \in [Callers -> Models \cup {NoModel}]
         /\ installed \in [Models -> Rows]
         /\ bound \in [Requests -> Models \cup {NoModel}]
         /\ quarantined \subseteq Models /\ preload \in Models \cup {NoModel}
         /\ \A c \in Callers : pc[c] # "idle" => arg[c] \in Models
         /\ NoModel \notin Models /\ DropIns \subseteq Models
  BY CallersAssumption, ModelsAssumption DEF TypeOK, Callers

(* Where an operation goes once it holds the selection lock.               *)
LEMMA LockPlace ==
  ASSUME OpPlaces, NEW a \in Admins, pc[a] = "want"
  PROVE  AfterLock[op[a]] \in {"look", "checkOps", "ask"}
<1>1. op[a] \in {"select", "remove", "deselect", "unload", "verify"}
  BY DEF OpPlaces, AfterLock
<1> QED
  BY <1>1 DEF AfterLock

(* Whoever is past the queue owns the slot, whoever drops it steps back.   *)
LEMMA SlotHeldNext ==
  ASSUME ResidencyInv, Next
  PROVE  SlotHeld'
<1> USE DEF SlotHeld, UnderSlot, Turn, Goto, slot, procs
<1>1. TypeOK /\ SlotHeld /\ LockHeld /\ OpPlaces
  BY DEF ResidencyInv
<1>2. ASSUME NEW r \in Requests,
             Arrive(r) \/ Granted(r) \/ Bind(r) \/ Look(r) \/ Wake(r)
               \/ CheckInstalled(r) \/ SwapIn(r)
      PROVE  SlotHeld'
  BY <1>1, <1>2, Shape DEF Arrive, Granted, Bind, Look, Wake, CheckInstalled, SwapIn
<1>3. ASSUME NEW r \in Requests, Ask(r)
      PROVE  SlotHeld'
  BY <1>1, <1>3, Shape, TakeType, WaitType DEF Ask
<1>4. ASSUME NEW r \in Requests, GiveUp(r) \/ Fail(r) \/ Finish(r)
      PROVE  SlotHeld'
  BY <1>1, <1>4, Shape, LeaveType DEF GiveUp, Fail, Finish, EndRequest
<1>5. ASSUME Startup \/ Promote \/ \E d \in Readers : ReadLoaded(d) \/ ReadLoading(d)
      PROVE  SlotHeld'
  BY <1>1, <1>5, Shape DEF Startup, StartupLoaded, StartupFails, ClearStatus, Promote,
       ReadLoaded, ReadLoading
<1>6. ASSUME NEW a \in Admins, EndOp(a)
      PROVE  SlotHeld'
  BY <1>1, <1>6, Shape, EndOpEffect
<1>7. ASSUME NEW a \in Admins,
             Begin(a) \/ Advance(a) \/ StoreDefault(a) \/ GrantedOp(a)
               \/ ClearDefault(a) \/ BeginVerify(a) \/ CancelVerify(a) \/ BeginRefresh(a)
      PROVE  SlotHeld'
  BY <1>1, <1>7, Shape DEF Begin, Advance, StoreDefault, GrantedOp,
       ClearDefault, BeginVerify, CancelVerify, BeginRefresh
<1>8. ASSUME NEW a \in Admins, Lock(a)
      PROVE  SlotHeld'
  BY <1>1, <1>8, Shape, LockPlace DEF Lock
<1>9. ASSUME NEW a \in Admins, AskSlot(a)
      PROVE  SlotHeld'
  BY <1>1, <1>9, Shape, TakeType, WaitType DEF AskSlot
<1>10. ASSUME NEW a \in Admins, GiveUpOp(a)
       PROVE  SlotHeld'
  BY <1>1, <1>10, Shape, LeaveType DEF GiveUpOp
<1>11. ASSUME NEW a \in Admins,
              InsertVerify(a) \/ Hashed(a) \/ DropIfLoaded(a) \/ Condemn(a) \/ Rescan(a)
       PROVE  SlotHeld'
  <2>1. CASE EndOp(a)
    BY <1>6, <2>1
  <2>2. CASE ~EndOp(a)
    BY <1>1, <1>11, <2>2, Shape DEF OpPlaces, InsertVerify, Hashed, DropIfLoaded,
         Condemn, Rescan
  <2> QED
    BY <2>1, <2>2
<1>12. ASSUME NEW a \in Admins,
              Abandon(a) \/ Refuse(a) \/ SwapDefault(a) \/ DeleteRow(a) \/ Unload(a)
                \/ Quarantine(a) \/ MarkRow(a) \/ Register(a)
       PROVE  SlotHeld'
  BY <1>6, <1>12 DEF Abandon, Refuse, SwapDefault, DeleteRow, Unload, Quarantine,
       MarkRow, Register
<1> QED
  BY <1>2, <1>3, <1>4, <1>5, <1>7, <1>8, <1>9, <1>10, <1>11, <1>12, Zenon DEF Next,
     RequestStep, AdminStep

(* Whoever is past the lock holds it.                                      *)
LEMMA LockHeldNext ==
  ASSUME ResidencyInv, Next
  PROVE  LockHeld'
<1> USE DEF LockHeld, OpPlaces, UnderLock, UnderSlot, Goto, slot, procs, memory,
           tables
<1>1. TypeOK /\ SlotHeld /\ LockHeld /\ OpPlaces
  BY DEF ResidencyInv
<1>2. ASSUME NEW r \in Requests,
             \/ Arrive(r) \/ Granted(r) \/ Bind(r) \/ Look(r) \/ Wake(r)
             \/ CheckInstalled(r) \/ SwapIn(r) \/ Ask(r) \/ GiveUp(r) \/ Fail(r) \/ Finish(r)
      PROVE  LockHeld'
  BY <1>1, <1>2, Shape DEF Arrive, Granted, Bind, Look, Wake, CheckInstalled, SwapIn, Ask,
       GiveUp, Fail, Finish, EndRequest
<1>3. ASSUME Startup
      PROVE  LockHeld'
  BY <1>1, <1>3, Shape DEF Startup, StartupLoaded, StartupFails, ClearStatus
<1>4. ASSUME NEW d \in Readers, ReadLoaded(d) \/ ReadLoading(d)
       PROVE  LockHeld'
  BY <1>1, <1>4 DEF ReadLoaded, ReadLoading
<1>5. ASSUME NEW a \in Admins,
             \/ Begin(a) \/ Advance(a) \/ StoreDefault(a) \/ AskSlot(a) \/ GrantedOp(a)
             \/ ClearDefault(a) \/ BeginVerify(a) \/ CancelVerify(a) \/ BeginRefresh(a)
      PROVE  LockHeld'
  BY <1>1, <1>5, Shape DEF Begin, Advance, StoreDefault, AskSlot, GrantedOp, ClearDefault,
       BeginVerify, CancelVerify, BeginRefresh
<1>6. ASSUME NEW a \in Admins, Lock(a)
      PROVE  LockHeld'
  BY <1>1, <1>6, Shape, LockPlace DEF Lock
<1>7. ASSUME NEW a \in Admins, GiveUpOp(a)
      PROVE  LockHeld'
  BY <1>1, <1>7, Shape DEF GiveUpOp
<1>8. ASSUME NEW a \in Admins,
             InsertVerify(a) \/ Hashed(a) \/ DropIfLoaded(a) \/ Condemn(a) \/ Rescan(a)
      PROVE  LockHeld'
  BY <1>1, <1>8, Shape, EndOpEffect DEF InsertVerify, Hashed, DropIfLoaded, Condemn,
       Rescan, Without
<1>9. ASSUME NEW a \in Admins, Abandon(a) \/ Refuse(a) \/ SwapDefault(a) \/ Unload(a)
      PROVE  LockHeld'
  BY <1>1, <1>9, Shape, EndOpEffect DEF Abandon, Refuse, SwapDefault, Unload
<1>10. ASSUME NEW a \in Admins, MarkRow(a) \/ Register(a)
      PROVE  LockHeld'
  BY <1>1, <1>10, Shape, EndOpEffect DEF MarkRow, Register
<1>11. ASSUME NEW a \in Admins, DeleteRow(a)
       PROVE  LockHeld'
  BY <1>1, <1>11, Shape, EndOpEffect DEF DeleteRow
<1>12. ASSUME NEW a \in Admins, Quarantine(a)
       PROVE  LockHeld'
  BY <1>1, <1>12, Shape, EndOpEffect DEF Quarantine
<1>13. ASSUME Promote
       PROVE  LockHeld'
  <2>1. PICK m \in Models \ DropIns :
          /\ installed[m] = "none"
          /\ \A v \in Admins : arg[v] = m => pc[v] \notin {"drop", "move"}
          /\ installed' = [installed EXCEPT ![m] = "ok"]
          /\ quarantined' = quarantined \ {m}
    BY <1>13 DEF Promote
  <2>2. UNCHANGED <<memory, selected, selection, procs>>
    BY <1>13 DEF Promote
  <2> QED
    BY <1>1, <2>1, <2>2, Shape
<1> QED
  BY <1>2, <1>3, <1>4, <1>5, <1>6, <1>7, <1>8, <1>9, <1>10, <1>11, <1>12, <1>13, Zenon
     DEF Next, RequestStep, AdminStep

(* An operation stands at a place of its own.                              *)
LEMMA OpPlacesNext ==
  ASSUME ResidencyInv, Next
  PROVE  OpPlaces'
<1> USE DEF OpPlaces, AfterLock, Goto, slot, procs, memory, tables
<1>1. TypeOK /\ SlotHeld /\ LockHeld /\ OpPlaces
  BY DEF ResidencyInv
<1>2. ASSUME NEW r \in Requests,
             \/ Arrive(r) \/ Granted(r) \/ Bind(r) \/ Look(r) \/ Wake(r)
             \/ CheckInstalled(r) \/ SwapIn(r) \/ Ask(r) \/ GiveUp(r) \/ Fail(r) \/ Finish(r)
      PROVE  OpPlaces'
  BY <1>1, <1>2, Shape DEF Arrive, Granted, Bind, Look, Wake, CheckInstalled, SwapIn, Ask,
       GiveUp, Fail, Finish, EndRequest
<1>3. ASSUME Startup
      PROVE  OpPlaces'
  BY <1>1, <1>3, Shape DEF Startup, StartupLoaded, StartupFails, ClearStatus
<1>4. ASSUME NEW d \in Readers, ReadLoaded(d) \/ ReadLoading(d)
       PROVE  OpPlaces'
  BY <1>1, <1>4 DEF ReadLoaded, ReadLoading
<1>5. ASSUME NEW a \in Admins,
             \/ Begin(a) \/ Advance(a) \/ StoreDefault(a) \/ AskSlot(a) \/ GrantedOp(a)
             \/ ClearDefault(a) \/ BeginVerify(a) \/ CancelVerify(a) \/ BeginRefresh(a)
      PROVE  OpPlaces'
  BY <1>1, <1>5, Shape DEF Begin, Advance, StoreDefault, AskSlot, GrantedOp, ClearDefault,
       BeginVerify, CancelVerify, BeginRefresh
<1>6. ASSUME NEW a \in Admins, Lock(a)
      PROVE  OpPlaces'
  BY <1>1, <1>6, Shape, LockPlace DEF Lock
<1>7. ASSUME NEW a \in Admins, GiveUpOp(a)
      PROVE  OpPlaces'
  BY <1>1, <1>7, Shape DEF GiveUpOp
<1>8. ASSUME NEW a \in Admins,
             InsertVerify(a) \/ Hashed(a) \/ DropIfLoaded(a) \/ Condemn(a) \/ Rescan(a)
      PROVE  OpPlaces'
  BY <1>1, <1>8, Shape, EndOpEffect DEF InsertVerify, Hashed, DropIfLoaded, Condemn,
       Rescan, Without
<1>9. ASSUME NEW a \in Admins, Abandon(a) \/ Refuse(a) \/ SwapDefault(a) \/ Unload(a)
      PROVE  OpPlaces'
  BY <1>1, <1>9, Shape, EndOpEffect DEF Abandon, Refuse, SwapDefault, Unload
<1>10. ASSUME NEW a \in Admins, MarkRow(a) \/ Register(a)
      PROVE  OpPlaces'
  BY <1>1, <1>10, Shape, EndOpEffect DEF MarkRow, Register
<1>11. ASSUME NEW a \in Admins, DeleteRow(a)
       PROVE  OpPlaces'
  BY <1>1, <1>11, Shape, EndOpEffect DEF DeleteRow
<1>12. ASSUME NEW a \in Admins, Quarantine(a)
       PROVE  OpPlaces'
  BY <1>1, <1>12, Shape, EndOpEffect DEF Quarantine
<1>13. ASSUME Promote
       PROVE  OpPlaces'
  <2>1. PICK m \in Models \ DropIns :
          /\ installed[m] = "none"
          /\ \A v \in Admins : arg[v] = m => pc[v] \notin {"drop", "move"}
          /\ installed' = [installed EXCEPT ![m] = "ok"]
          /\ quarantined' = quarantined \ {m}
    BY <1>13 DEF Promote
  <2>2. UNCHANGED <<memory, selected, selection, procs>>
    BY <1>13 DEF Promote
  <2> QED
    BY <1>1, <2>1, <2>2, Shape
<1> QED
  BY <1>2, <1>3, <1>4, <1>5, <1>6, <1>7, <1>8, <1>9, <1>10, <1>11, <1>12, <1>13, Zenon
     DEF Next, RequestStep, AdminStep

(* A run's handle stays that of the model asked for.                       *)
LEMMA RunsNext ==
  ASSUME ResidencyInv, Next
  PROVE  RunsBound'
<1> USE DEF RunsBound, Goto, slot, procs, memory, tables
<1>1. TypeOK /\ SlotHeld /\ LockHeld /\ OpPlaces /\ RunsBound
  BY DEF ResidencyInv
<1>2. ASSUME NEW r \in Requests,
             \/ Arrive(r) \/ Granted(r) \/ Bind(r) \/ Look(r) \/ Wake(r)
             \/ CheckInstalled(r) \/ SwapIn(r) \/ Ask(r) \/ GiveUp(r) \/ Fail(r) \/ Finish(r)
      PROVE  RunsBound'
  BY <1>1, <1>2, Shape DEF Arrive, Granted, Bind, Look, Wake, CheckInstalled, SwapIn, Ask,
       GiveUp, Fail, Finish, EndRequest
<1>3. ASSUME Startup
      PROVE  RunsBound'
  BY <1>1, <1>3, Shape DEF Startup, StartupLoaded, StartupFails, ClearStatus
<1>4. ASSUME NEW d \in Readers, ReadLoaded(d) \/ ReadLoading(d)
       PROVE  RunsBound'
  BY <1>1, <1>4 DEF ReadLoaded, ReadLoading
<1>5. ASSUME NEW a \in Admins,
             \/ Begin(a) \/ Advance(a) \/ StoreDefault(a) \/ AskSlot(a) \/ GrantedOp(a)
             \/ ClearDefault(a) \/ BeginVerify(a) \/ CancelVerify(a) \/ BeginRefresh(a)
      PROVE  RunsBound'
  BY <1>1, <1>5, Shape DEF Begin, Advance, StoreDefault, AskSlot, GrantedOp, ClearDefault,
       BeginVerify, CancelVerify, BeginRefresh
<1>6. ASSUME NEW a \in Admins, Lock(a)
      PROVE  RunsBound'
  BY <1>1, <1>6, Shape, LockPlace DEF Lock
<1>7. ASSUME NEW a \in Admins, GiveUpOp(a)
      PROVE  RunsBound'
  BY <1>1, <1>7, Shape DEF GiveUpOp
<1>8. ASSUME NEW a \in Admins,
             InsertVerify(a) \/ Hashed(a) \/ DropIfLoaded(a) \/ Condemn(a) \/ Rescan(a)
      PROVE  RunsBound'
  BY <1>1, <1>8, Shape, EndOpEffect DEF InsertVerify, Hashed, DropIfLoaded, Condemn,
       Rescan, Without
<1>9. ASSUME NEW a \in Admins, Abandon(a) \/ Refuse(a) \/ SwapDefault(a) \/ Unload(a)
      PROVE  RunsBound'
  BY <1>1, <1>9, Shape, EndOpEffect DEF Abandon, Refuse, SwapDefault, Unload
<1>10. ASSUME NEW a \in Admins, MarkRow(a) \/ Register(a)
      PROVE  RunsBound'
  BY <1>1, <1>10, Shape, EndOpEffect DEF MarkRow, Register
<1>11. ASSUME NEW a \in Admins, DeleteRow(a)
       PROVE  RunsBound'
  BY <1>1, <1>11, Shape, EndOpEffect DEF DeleteRow
<1>12. ASSUME NEW a \in Admins, Quarantine(a)
       PROVE  RunsBound'
  BY <1>1, <1>12, Shape, EndOpEffect DEF Quarantine
<1>13. ASSUME Promote
       PROVE  RunsBound'
  <2>1. PICK m \in Models \ DropIns :
          /\ installed[m] = "none"
          /\ \A v \in Admins : arg[v] = m => pc[v] \notin {"drop", "move"}
          /\ installed' = [installed EXCEPT ![m] = "ok"]
          /\ quarantined' = quarantined \ {m}
    BY <1>13 DEF Promote
  <2>2. UNCHANGED <<memory, selected, selection, procs>>
    BY <1>13 DEF Promote
  <2> QED
    BY <1>1, <2>1, <2>2, Shape
<1> QED
  BY <1>2, <1>3, <1>4, <1>5, <1>6, <1>7, <1>8, <1>9, <1>10, <1>11, <1>12, <1>13, Zenon
     DEF Next, RequestStep, AdminStep

(* The default keeps its row.                                              *)
LEMMA DefaultNext ==
  ASSUME ResidencyInv, Next
  PROVE  DefaultKept'
<1> USE DEF DefaultKept, DefaultIsRegistered, LockHeld, UnderLock, UnderSlot,
           OpPlaces, Rows, Goto, slot, procs, memory, tables
<1>1. TypeOK /\ SlotHeld /\ LockHeld /\ OpPlaces /\ DefaultKept
  BY DEF ResidencyInv
<1>2. ASSUME NEW r \in Requests,
             \/ Arrive(r) \/ Granted(r) \/ Bind(r) \/ Look(r) \/ Wake(r)
             \/ CheckInstalled(r) \/ SwapIn(r) \/ Ask(r) \/ GiveUp(r) \/ Fail(r) \/ Finish(r)
      PROVE  DefaultKept'
  BY <1>1, <1>2, Shape DEF Arrive, Granted, Bind, Look, Wake, CheckInstalled, SwapIn, Ask,
       GiveUp, Fail, Finish, EndRequest
<1>3. ASSUME Startup
      PROVE  DefaultKept'
  BY <1>1, <1>3, Shape DEF Startup, StartupLoaded, StartupFails, ClearStatus
<1>4. ASSUME NEW d \in Readers, ReadLoaded(d) \/ ReadLoading(d)
       PROVE  DefaultKept'
  BY <1>1, <1>4 DEF ReadLoaded, ReadLoading
<1>5. ASSUME NEW a \in Admins,
             \/ Begin(a) \/ Advance(a) \/ StoreDefault(a) \/ AskSlot(a) \/ GrantedOp(a)
             \/ ClearDefault(a) \/ BeginVerify(a) \/ CancelVerify(a) \/ BeginRefresh(a)
      PROVE  DefaultKept'
  BY <1>1, <1>5, Shape DEF Begin, Advance, StoreDefault, AskSlot, GrantedOp, ClearDefault,
       BeginVerify, CancelVerify, BeginRefresh
<1>6. ASSUME NEW a \in Admins, Lock(a)
      PROVE  DefaultKept'
  BY <1>1, <1>6, Shape, LockPlace DEF Lock
<1>7. ASSUME NEW a \in Admins, GiveUpOp(a)
      PROVE  DefaultKept'
  BY <1>1, <1>7, Shape DEF GiveUpOp
<1>8. ASSUME NEW a \in Admins,
             InsertVerify(a) \/ Hashed(a) \/ DropIfLoaded(a) \/ Condemn(a) \/ Rescan(a)
      PROVE  DefaultKept'
  BY <1>1, <1>8, Shape, EndOpEffect DEF InsertVerify, Hashed, DropIfLoaded, Condemn,
       Rescan, Without
<1>9. ASSUME NEW a \in Admins, Abandon(a) \/ Refuse(a) \/ SwapDefault(a) \/ Unload(a)
      PROVE  DefaultKept'
  <2>1. /\ pc' = [pc EXCEPT ![a] = "idle"] /\ arg' = [arg EXCEPT ![a] = NoModel]
        /\ selected' = selected /\ installed' = installed
    BY <1>1, <1>9, EndOpEffect DEF Abandon, Refuse, SwapDefault, Unload
  <2> QED
    BY <1>1, <2>1, Shape
<1>10. ASSUME NEW a \in Admins, MarkRow(a) \/ Register(a)
      PROVE  DefaultKept'
  <2>1. /\ pc' = [pc EXCEPT ![a] = "idle"] /\ arg' = [arg EXCEPT ![a] = NoModel]
        /\ selected' = selected
    BY <1>1, <1>10, EndOpEffect DEF MarkRow, Register
  <2>2. \A m \in Models : installed[m] # "none" => installed'[m] # "none"
    BY <1>1, <1>10, Shape DEF MarkRow, Register
  <2> QED
    BY <1>1, <2>1, <2>2, Shape
<1>11. ASSUME NEW a \in Admins, DeleteRow(a)
       PROVE  DefaultKept'
  <2>1. /\ pc' = [pc EXCEPT ![a] = "idle"] /\ arg' = [arg EXCEPT ![a] = NoModel]
        /\ pc[a] = "delete" /\ selected' = selected
        /\ installed' = [installed EXCEPT ![arg[a]] = "none"]
    BY <1>1, <1>11, EndOpEffect DEF DeleteRow
  <2> QED
    BY <1>1, <2>1, Shape
<1>12. ASSUME NEW a \in Admins, Quarantine(a)
       PROVE  DefaultKept'
  <2>1. /\ pc' = [pc EXCEPT ![a] = "idle"] /\ arg' = [arg EXCEPT ![a] = NoModel]
        /\ selected' = selected /\ installed' = installed
    BY <1>1, <1>12, EndOpEffect DEF Quarantine
  <2> QED
    BY <1>1, <2>1, Shape
<1>13. ASSUME Promote
       PROVE  DefaultKept'
  <2>1. PICK m \in Models \ DropIns :
          /\ installed[m] = "none"
          /\ \A v \in Admins : arg[v] = m => pc[v] \notin {"drop", "move"}
          /\ installed' = [installed EXCEPT ![m] = "ok"]
          /\ quarantined' = quarantined \ {m}
    BY <1>13 DEF Promote
  <2>2. UNCHANGED <<memory, selected, selection, procs>>
    BY <1>13 DEF Promote
  <2> QED
    BY <1>1, <2>1, <2>2, Shape
<1> QED
  BY <1>2, <1>3, <1>4, <1>5, <1>6, <1>7, <1>8, <1>9, <1>10, <1>11, <1>12, <1>13, Zenon
     DEF Next, RequestStep, AdminStep

(* A condemned model has no row until it is installed again.               *)
LEMMA NoRowNext ==
  ASSUME ResidencyInv, Next
  PROVE  NoRow'
<1> USE DEF NoRow, Doomed, SlotHeld, LockHeld, UnderLock, UnderSlot, Turn, OpPlaces,
           Rows, Goto, slot, procs, memory, tables
<1>1. TypeOK /\ SlotHeld /\ LockHeld /\ OpPlaces /\ NoRow /\ Doomed
  BY DEF ResidencyInv, CondemnedKept
<1>2. ASSUME NEW r \in Requests,
             \/ Arrive(r) \/ Granted(r) \/ Bind(r) \/ Look(r) \/ Wake(r)
             \/ CheckInstalled(r) \/ SwapIn(r) \/ Ask(r) \/ GiveUp(r) \/ Fail(r) \/ Finish(r)
      PROVE  NoRow'
  BY <1>1, <1>2, Shape DEF Arrive, Granted, Bind, Look, Wake, CheckInstalled, SwapIn, Ask,
       GiveUp, Fail, Finish, EndRequest
<1>3. ASSUME Startup
      PROVE  NoRow'
  BY <1>1, <1>3, Shape DEF Startup, StartupLoaded, StartupFails, ClearStatus
<1>4. ASSUME NEW d \in Readers, ReadLoaded(d) \/ ReadLoading(d)
       PROVE  NoRow'
  BY <1>1, <1>4 DEF ReadLoaded, ReadLoading
<1>5. ASSUME NEW a \in Admins,
             \/ Begin(a) \/ Advance(a) \/ StoreDefault(a) \/ AskSlot(a) \/ GrantedOp(a)
             \/ ClearDefault(a) \/ BeginVerify(a) \/ CancelVerify(a) \/ BeginRefresh(a)
      PROVE  NoRow'
  BY <1>1, <1>5, Shape DEF Begin, Advance, StoreDefault, AskSlot, GrantedOp, ClearDefault,
       BeginVerify, CancelVerify, BeginRefresh
<1>6. ASSUME NEW a \in Admins, Lock(a)
      PROVE  NoRow'
  BY <1>1, <1>6, Shape, LockPlace DEF Lock
<1>7. ASSUME NEW a \in Admins, GiveUpOp(a)
      PROVE  NoRow'
  BY <1>1, <1>7, Shape DEF GiveUpOp
<1>8. ASSUME NEW a \in Admins,
             InsertVerify(a) \/ Hashed(a) \/ DropIfLoaded(a) \/ Condemn(a) \/ Rescan(a)
      PROVE  NoRow'
  BY <1>1, <1>8, Shape, EndOpEffect DEF InsertVerify, Hashed, DropIfLoaded, Condemn,
       Rescan, Without
<1>9. ASSUME NEW a \in Admins, Abandon(a) \/ Refuse(a) \/ SwapDefault(a) \/ Unload(a)
      PROVE  NoRow'
  BY <1>1, <1>9, Shape, EndOpEffect DEF Abandon, Refuse, SwapDefault, Unload
<1>10. ASSUME NEW a \in Admins, MarkRow(a) \/ Register(a)
      PROVE  NoRow'
  BY <1>1, <1>10, Shape, EndOpEffect DEF MarkRow, Register
<1>11. ASSUME NEW a \in Admins, DeleteRow(a)
       PROVE  NoRow'
  BY <1>1, <1>11, Shape, EndOpEffect DEF DeleteRow
<1>12. ASSUME NEW a \in Admins, Quarantine(a)
       PROVE  NoRow'
  BY <1>1, <1>12, Shape, EndOpEffect DEF Quarantine
<1>13. ASSUME Promote
       PROVE  NoRow'
  <2>1. PICK m \in Models \ DropIns :
          /\ installed[m] = "none"
          /\ \A v \in Admins : arg[v] = m => pc[v] \notin {"drop", "move"}
          /\ installed' = [installed EXCEPT ![m] = "ok"]
          /\ quarantined' = quarantined \ {m}
    BY <1>13 DEF Promote
  <2>2. UNCHANGED <<memory, selected, selection, procs>>
    BY <1>13 DEF Promote
  <2> QED
    BY <1>1, <2>1, <2>2, Shape
<1> QED
  BY <1>2, <1>3, <1>4, <1>5, <1>6, <1>7, <1>8, <1>9, <1>10, <1>11, <1>12, <1>13, Zenon
     DEF Next, RequestStep, AdminStep

(* Nobody is about to load it.                                             *)
LEMMA NobodyLoadsNext ==
  ASSUME ResidencyInv, Next
  PROVE  NobodyLoads'
<1> USE DEF NoRow, NobodyLoads, SlotHeld, LockHeld, UnderLock, UnderSlot, Turn,
           OpPlaces, Rows, Goto, slot, procs, memory, tables
<1>1. TypeOK /\ SlotHeld /\ LockHeld /\ OpPlaces /\ NoRow /\ NobodyLoads
  BY DEF ResidencyInv, CondemnedKept
<1>2. ASSUME NEW r \in Requests,
             \/ Arrive(r) \/ Granted(r) \/ Bind(r) \/ Look(r) \/ Wake(r)
             \/ CheckInstalled(r) \/ SwapIn(r) \/ Ask(r) \/ GiveUp(r) \/ Fail(r) \/ Finish(r)
      PROVE  NobodyLoads'
  BY <1>1, <1>2, Shape DEF Arrive, Granted, Bind, Look, Wake, CheckInstalled, SwapIn, Ask,
       GiveUp, Fail, Finish, EndRequest
<1>3. ASSUME Startup
      PROVE  NobodyLoads'
  BY <1>1, <1>3, Shape DEF Startup, StartupLoaded, StartupFails, ClearStatus
<1>4. ASSUME NEW d \in Readers, ReadLoaded(d) \/ ReadLoading(d)
       PROVE  NobodyLoads'
  <2>1. quarantined' = quarantined /\ pc' = pc /\ arg' = arg
    BY <1>4 DEF ReadLoaded, ReadLoading
  <2> QED
    BY <1>1, <2>1, Zenon
<1>5. ASSUME NEW a \in Admins,
             \/ Begin(a) \/ Advance(a) \/ StoreDefault(a) \/ AskSlot(a) \/ GrantedOp(a)
             \/ ClearDefault(a) \/ BeginVerify(a) \/ CancelVerify(a) \/ BeginRefresh(a)
      PROVE  NobodyLoads'
  BY <1>1, <1>5, Shape DEF Begin, Advance, StoreDefault, AskSlot, GrantedOp, ClearDefault,
       BeginVerify, CancelVerify, BeginRefresh
<1>6. ASSUME NEW a \in Admins, Lock(a)
      PROVE  NobodyLoads'
  BY <1>1, <1>6, Shape, LockPlace DEF Lock
<1>7. ASSUME NEW a \in Admins, GiveUpOp(a)
      PROVE  NobodyLoads'
  BY <1>1, <1>7, Shape DEF GiveUpOp
<1>8. ASSUME NEW a \in Admins,
             InsertVerify(a) \/ Hashed(a) \/ DropIfLoaded(a) \/ Condemn(a) \/ Rescan(a)
      PROVE  NobodyLoads'
  BY <1>1, <1>8, Shape, EndOpEffect DEF InsertVerify, Hashed, DropIfLoaded, Condemn,
       Rescan, Without
<1>9. ASSUME NEW a \in Admins, Abandon(a) \/ Refuse(a) \/ SwapDefault(a) \/ Unload(a)
      PROVE  NobodyLoads'
  BY <1>1, <1>9, Shape, EndOpEffect DEF Abandon, Refuse, SwapDefault, Unload
<1>10. ASSUME NEW a \in Admins, MarkRow(a) \/ Register(a)
      PROVE  NobodyLoads'
  BY <1>1, <1>10, Shape, EndOpEffect DEF MarkRow, Register
<1>11. ASSUME NEW a \in Admins, DeleteRow(a)
       PROVE  NobodyLoads'
  <2>1. /\ pc' = [pc EXCEPT ![a] = "idle"] /\ arg' = [arg EXCEPT ![a] = NoModel]
        /\ quarantined' = quarantined
    BY <1>1, <1>11, EndOpEffect DEF DeleteRow
  <2> QED
    BY <1>1, <2>1, Shape
<1>12. ASSUME NEW a \in Admins, Quarantine(a)
       PROVE  NobodyLoads'
  BY <1>1, <1>12, Shape, EndOpEffect DEF Quarantine
<1>13. ASSUME Promote
       PROVE  NobodyLoads'
  <2>1. PICK m \in Models \ DropIns :
          /\ installed[m] = "none"
          /\ \A v \in Admins : arg[v] = m => pc[v] \notin {"drop", "move"}
          /\ installed' = [installed EXCEPT ![m] = "ok"]
          /\ quarantined' = quarantined \ {m}
    BY <1>13 DEF Promote
  <2>2. UNCHANGED <<memory, selected, selection, procs>>
    BY <1>13 DEF Promote
  <2> QED
    BY <1>1, <2>1, <2>2, Shape
<1> QED
  BY <1>2, <1>3, <1>4, <1>5, <1>6, <1>7, <1>8, <1>9, <1>10, <1>11, <1>12, <1>13, Zenon
     DEF Next, RequestStep, AdminStep

(* The verification that condemned it holds both locks.                    *)
LEMMA DoomedNext ==
  ASSUME ResidencyInv, Next
  PROVE  Doomed'
<1> USE DEF Doomed, SlotHeld, LockHeld, UnderLock, UnderSlot, Turn, OpPlaces, Rows,
           Goto, slot, procs, memory, tables
<1>1. TypeOK /\ SlotHeld /\ LockHeld /\ OpPlaces /\ Doomed
  BY DEF ResidencyInv, CondemnedKept
<1>2. ASSUME NEW r \in Requests,
             \/ Arrive(r) \/ Granted(r) \/ Bind(r) \/ Look(r) \/ Wake(r)
             \/ CheckInstalled(r) \/ SwapIn(r) \/ Ask(r) \/ GiveUp(r) \/ Fail(r) \/ Finish(r)
      PROVE  Doomed'
  BY <1>1, <1>2, Shape DEF Arrive, Granted, Bind, Look, Wake, CheckInstalled, SwapIn, Ask,
       GiveUp, Fail, Finish, EndRequest
<1>3. ASSUME Startup
      PROVE  Doomed'
  BY <1>1, <1>3, Shape DEF Startup, StartupLoaded, StartupFails, ClearStatus
<1>4. ASSUME NEW d \in Readers, ReadLoaded(d) \/ ReadLoading(d)
       PROVE  Doomed'
  BY <1>1, <1>4 DEF ReadLoaded, ReadLoading
<1>5. ASSUME NEW a \in Admins,
             \/ Begin(a) \/ Advance(a) \/ StoreDefault(a) \/ AskSlot(a) \/ GrantedOp(a)
             \/ ClearDefault(a) \/ BeginVerify(a) \/ CancelVerify(a) \/ BeginRefresh(a)
      PROVE  Doomed'
  BY <1>1, <1>5, Shape DEF Begin, Advance, StoreDefault, AskSlot, GrantedOp, ClearDefault,
       BeginVerify, CancelVerify, BeginRefresh
<1>6. ASSUME NEW a \in Admins, Lock(a)
      PROVE  Doomed'
  BY <1>1, <1>6, Shape, LockPlace DEF Lock
<1>7. ASSUME NEW a \in Admins, GiveUpOp(a)
      PROVE  Doomed'
  BY <1>1, <1>7, Shape DEF GiveUpOp
<1>8. ASSUME NEW a \in Admins,
             InsertVerify(a) \/ Hashed(a) \/ DropIfLoaded(a) \/ Condemn(a) \/ Rescan(a)
      PROVE  Doomed'
  BY <1>1, <1>8, Shape, EndOpEffect DEF InsertVerify, Hashed, DropIfLoaded, Condemn,
       Rescan, Without
<1>9. ASSUME NEW a \in Admins, Abandon(a) \/ Refuse(a) \/ SwapDefault(a) \/ Unload(a)
      PROVE  Doomed'
  BY <1>1, <1>9, Shape, EndOpEffect DEF Abandon, Refuse, SwapDefault, Unload
<1>10. ASSUME NEW a \in Admins, MarkRow(a) \/ Register(a)
      PROVE  Doomed'
  BY <1>1, <1>10, Shape, EndOpEffect DEF MarkRow, Register
<1>11. ASSUME NEW a \in Admins, DeleteRow(a)
       PROVE  Doomed'
  BY <1>1, <1>11, Shape, EndOpEffect DEF DeleteRow
<1>12. ASSUME NEW a \in Admins, Quarantine(a)
       PROVE  Doomed'
  BY <1>1, <1>12, Shape, EndOpEffect DEF Quarantine
<1>13. ASSUME Promote
       PROVE  Doomed'
  <2>1. PICK m \in Models \ DropIns :
          /\ installed[m] = "none"
          /\ \A v \in Admins : arg[v] = m => pc[v] \notin {"drop", "move"}
          /\ installed' = [installed EXCEPT ![m] = "ok"]
          /\ quarantined' = quarantined \ {m}
    BY <1>13 DEF Promote
  <2>2. UNCHANGED <<memory, selected, selection, procs>>
    BY <1>13 DEF Promote
  <2> QED
    BY <1>1, <2>1, <2>2, Shape
<1> QED
  BY <1>2, <1>3, <1>4, <1>5, <1>6, <1>7, <1>8, <1>9, <1>10, <1>11, <1>12, <1>13, Zenon
     DEF Next, RequestStep, AdminStep

(* A condemned model stays out of memory.                                  *)
LEMMA CondemnedNext ==
  ASSUME ResidencyInv, Next
  PROVE  CondemnedNotServed'
<1> USE DEF CondemnedNotServed, NoRow, NobodyLoads, Doomed, SlotHeld, LockHeld,
           UnderLock, UnderSlot, Turn, OpPlaces, Rows, Goto, slot, procs, memory,
           tables
<1>1. TypeOK /\ SlotHeld /\ LockHeld /\ OpPlaces /\ CondemnedNotServed
      /\ NoRow /\ NobodyLoads /\ Doomed
  BY DEF ResidencyInv, CondemnedKept
<1>2. ASSUME NEW r \in Requests,
             \/ Arrive(r) \/ Granted(r) \/ Bind(r) \/ Look(r) \/ Wake(r)
             \/ CheckInstalled(r) \/ SwapIn(r) \/ Ask(r) \/ GiveUp(r) \/ Fail(r) \/ Finish(r)
      PROVE  CondemnedNotServed'
  BY <1>1, <1>2, Shape DEF Arrive, Granted, Bind, Look, Wake, CheckInstalled, SwapIn, Ask,
       GiveUp, Fail, Finish, EndRequest
<1>3. ASSUME Startup
      PROVE  CondemnedNotServed'
  BY <1>1, <1>3, Shape DEF Startup, StartupLoaded, StartupFails, ClearStatus
<1>4. ASSUME NEW d \in Readers, ReadLoaded(d) \/ ReadLoading(d)
       PROVE  CondemnedNotServed'
  <2>1. /\ quarantined' = quarantined /\ preload' = preload /\ loaded' = loaded
        /\ pc' = pc /\ bound' = bound
    BY <1>4 DEF ReadLoaded, ReadLoading
  <2> QED
    BY <1>1, <2>1, Zenon
<1>5. ASSUME NEW a \in Admins,
             \/ Begin(a) \/ Advance(a) \/ StoreDefault(a) \/ AskSlot(a) \/ GrantedOp(a)
             \/ ClearDefault(a) \/ BeginVerify(a) \/ CancelVerify(a) \/ BeginRefresh(a)
      PROVE  CondemnedNotServed'
  BY <1>1, <1>5, Shape DEF Begin, Advance, StoreDefault, AskSlot, GrantedOp, ClearDefault,
       BeginVerify, CancelVerify, BeginRefresh
<1>6. ASSUME NEW a \in Admins, Lock(a)
      PROVE  CondemnedNotServed'
  BY <1>1, <1>6, Shape, LockPlace DEF Lock
<1>7. ASSUME NEW a \in Admins, GiveUpOp(a)
      PROVE  CondemnedNotServed'
  BY <1>1, <1>7, Shape DEF GiveUpOp
<1>8. ASSUME NEW a \in Admins,
             InsertVerify(a) \/ Hashed(a) \/ DropIfLoaded(a) \/ Condemn(a) \/ Rescan(a)
      PROVE  CondemnedNotServed'
  BY <1>1, <1>8, Shape, EndOpEffect DEF InsertVerify, Hashed, DropIfLoaded, Condemn,
       Rescan, Without
<1>9. ASSUME NEW a \in Admins, Abandon(a) \/ Refuse(a) \/ SwapDefault(a) \/ Unload(a)
      PROVE  CondemnedNotServed'
  BY <1>1, <1>9, Shape, EndOpEffect DEF Abandon, Refuse, SwapDefault, Unload
<1>10. ASSUME NEW a \in Admins, MarkRow(a) \/ Register(a)
      PROVE  CondemnedNotServed'
  BY <1>1, <1>10, Shape, EndOpEffect DEF MarkRow, Register
<1>11. ASSUME NEW a \in Admins, DeleteRow(a)
       PROVE  CondemnedNotServed'
  BY <1>1, <1>11, Shape, EndOpEffect DEF DeleteRow
<1>12. ASSUME NEW a \in Admins, Quarantine(a)
       PROVE  CondemnedNotServed'
  BY <1>1, <1>12, Shape, EndOpEffect DEF Quarantine
<1>13. ASSUME Promote
       PROVE  CondemnedNotServed'
  <2>1. PICK m \in Models \ DropIns :
          /\ installed[m] = "none"
          /\ \A v \in Admins : arg[v] = m => pc[v] \notin {"drop", "move"}
          /\ installed' = [installed EXCEPT ![m] = "ok"]
          /\ quarantined' = quarantined \ {m}
    BY <1>13 DEF Promote
  <2>2. UNCHANGED <<memory, selected, selection, procs>>
    BY <1>13 DEF Promote
  <2> QED
    BY <1>1, <2>1, <2>2, Shape
<1> QED
  BY <1>2, <1>3, <1>4, <1>5, <1>6, <1>7, <1>8, <1>9, <1>10, <1>11, <1>12, <1>13, Zenon
     DEF Next, RequestStep, AdminStep

-----------------------------------------------------------------------------
(* Type correctness, in four parts.                                        *)

SlotType == /\ owner \in Callers \cup {Nobody}
            /\ urgent \in Seq(Callers) /\ ordinary \in Seq(Callers)

StoreType == /\ {loaded, loading, preload, selected} \subseteq Models \cup {NoModel}
             /\ startup \in {"off", "load", "loaded", "failed"}
             /\ installed \in [Models -> Rows]
             /\ quarantined \subseteq Models

ProcsType == /\ selection \in Admins \cup {Nobody}
             /\ pc \in [Callers -> Places]
             /\ arg \in [Callers -> Models \cup {NoModel}]
             /\ op \in [Admins -> Ops]
             /\ bound \in [Requests -> Models \cup {NoModel}]
             /\ active \subseteq Admins
             /\ left \in 0..MaxOps

CallsType == /\ \A c \in Callers : pc[c] = "idle" <=> arg[c] = NoModel
             /\ \A r \in Requests : bound[r] # NoModel => pc[r] = "run"

ProbeType ==
  probe \in [Readers -> {"idle", "nothing loaded", "ready", "loading", "not loaded"}]

(* The slot and its lines.                                                 *)
LEMMA SlotTypeNext ==
  ASSUME ResidencyInv, Next
  PROVE  SlotType'
<1> USE DEF SlotType, Goto, slot, procs, memory, tables
<1>1. TypeOK /\ SlotHeld /\ LockHeld /\ OpPlaces /\ SlotType
  BY DEF ResidencyInv, TypeOK
<1>2. ASSUME NEW r \in Requests,
             \/ Arrive(r) \/ Granted(r) \/ Bind(r) \/ Look(r) \/ Wake(r)
             \/ CheckInstalled(r) \/ SwapIn(r) \/ Ask(r) \/ GiveUp(r) \/ Fail(r) \/ Finish(r)
      PROVE  SlotType'
  BY <1>1, <1>2, Shape, TakeType, WaitType, LeaveType, PassType DEF Arrive, Granted,
     Bind, Look, Wake, CheckInstalled, SwapIn, Ask,
       GiveUp, Fail, Finish, EndRequest
<1>3. ASSUME Startup
      PROVE  SlotType'
  BY <1>1, <1>3, Shape, TakeType, WaitType, LeaveType, PassType DEF Startup,
     StartupLoaded, StartupFails, ClearStatus
<1>4. ASSUME NEW d \in Readers, ReadLoaded(d) \/ ReadLoading(d)
       PROVE  SlotType'
  BY <1>1, <1>4 DEF ReadLoaded, ReadLoading
<1>5. ASSUME NEW a \in Admins,
             \/ Begin(a) \/ Advance(a) \/ StoreDefault(a) \/ AskSlot(a) \/ GrantedOp(a)
             \/ ClearDefault(a) \/ BeginVerify(a) \/ CancelVerify(a) \/ BeginRefresh(a)
      PROVE  SlotType'
  BY <1>1, <1>5, Shape, TakeType, WaitType, LeaveType, PassType DEF Begin, Advance,
     StoreDefault, AskSlot, GrantedOp, ClearDefault,
       BeginVerify, CancelVerify, BeginRefresh
<1>6. ASSUME NEW a \in Admins, Lock(a)
      PROVE  SlotType'
  BY <1>1, <1>6, Shape, TakeType, WaitType, LeaveType, PassType, LockPlace DEF Lock
<1>7. ASSUME NEW a \in Admins, GiveUpOp(a)
      PROVE  SlotType'
  BY <1>1, <1>7, Shape, TakeType, WaitType, LeaveType, PassType DEF GiveUpOp
<1>8. ASSUME NEW a \in Admins,
             InsertVerify(a) \/ Hashed(a) \/ DropIfLoaded(a) \/ Condemn(a) \/ Rescan(a)
      PROVE  SlotType'
  BY <1>1, <1>8, Shape, TakeType, WaitType, LeaveType, PassType, EndOpEffect DEF
     InsertVerify, Hashed, DropIfLoaded, Condemn, Rescan,
       Without
<1>9. ASSUME NEW a \in Admins, Abandon(a) \/ Refuse(a) \/ SwapDefault(a) \/ Unload(a)
      PROVE  SlotType'
  BY <1>1, <1>9, Shape, TakeType, WaitType, LeaveType, PassType, EndOpEffect DEF
     Abandon, Refuse, SwapDefault, Unload
<1>10. ASSUME NEW a \in Admins, MarkRow(a) \/ Register(a)
      PROVE  SlotType'
  BY <1>1, <1>10, Shape, TakeType, WaitType, LeaveType, PassType, EndOpEffect DEF
     MarkRow, Register
<1>11. ASSUME NEW a \in Admins, DeleteRow(a)
       PROVE  SlotType'
  BY <1>1, <1>11, Shape, TakeType, WaitType, LeaveType, PassType, EndOpEffect DEF
     DeleteRow
<1>12. ASSUME NEW a \in Admins, Quarantine(a)
       PROVE  SlotType'
  BY <1>1, <1>12, Shape, TakeType, WaitType, LeaveType, PassType, EndOpEffect DEF
     Quarantine
<1>13. ASSUME Promote
       PROVE  SlotType'
  <2>1. PICK m \in Models \ DropIns :
          /\ installed[m] = "none"
          /\ \A v \in Admins : arg[v] = m => pc[v] \notin {"drop", "move"}
          /\ installed' = [installed EXCEPT ![m] = "ok"]
          /\ quarantined' = quarantined \ {m}
    BY <1>13 DEF Promote
  <2>2. UNCHANGED slot
    BY <1>13 DEF Promote
  <2> QED
    BY <1>1, <2>2
<1> QED
  BY <1>2, <1>3, <1>4, <1>5, <1>6, <1>7, <1>8, <1>9, <1>10, <1>11, <1>12, <1>13, Zenon
     DEF Next, RequestStep, AdminStep

(* Memory and tables.                                                      *)
LEMMA StoreTypeNext ==
  ASSUME ResidencyInv, Next
  PROVE  StoreType'
<1> USE DEF StoreType, Rows, Goto, slot, procs, memory, tables
<1>1. TypeOK /\ SlotHeld /\ LockHeld /\ OpPlaces /\ StoreType
  BY DEF ResidencyInv, TypeOK
<1>2. ASSUME NEW r \in Requests,
             \/ Arrive(r) \/ Granted(r) \/ Bind(r) \/ Look(r) \/ Wake(r)
             \/ CheckInstalled(r) \/ SwapIn(r) \/ Ask(r) \/ GiveUp(r) \/ Fail(r) \/ Finish(r)
      PROVE  StoreType'
  BY <1>1, <1>2, Shape DEF Arrive, Granted, Bind, Look, Wake, CheckInstalled, SwapIn, Ask,
       GiveUp, Fail, Finish, EndRequest
<1>3. ASSUME Startup
      PROVE  StoreType'
  BY <1>1, <1>3, Shape DEF Startup, StartupLoaded, StartupFails, ClearStatus
<1>4. ASSUME NEW d \in Readers, ReadLoaded(d) \/ ReadLoading(d)
       PROVE  StoreType'
  BY <1>1, <1>4 DEF ReadLoaded, ReadLoading
<1>5. ASSUME NEW a \in Admins,
             \/ Begin(a) \/ Advance(a) \/ StoreDefault(a) \/ AskSlot(a) \/ GrantedOp(a)
             \/ ClearDefault(a) \/ BeginVerify(a) \/ CancelVerify(a) \/ BeginRefresh(a)
      PROVE  StoreType'
  BY <1>1, <1>5, Shape DEF Begin, Advance, StoreDefault, AskSlot, GrantedOp, ClearDefault,
       BeginVerify, CancelVerify, BeginRefresh
<1>6. ASSUME NEW a \in Admins, Lock(a)
      PROVE  StoreType'
  BY <1>1, <1>6, Shape, LockPlace DEF Lock
<1>7. ASSUME NEW a \in Admins, GiveUpOp(a)
      PROVE  StoreType'
  BY <1>1, <1>7, Shape DEF GiveUpOp
<1>8. ASSUME NEW a \in Admins,
             InsertVerify(a) \/ Hashed(a) \/ DropIfLoaded(a) \/ Condemn(a) \/ Rescan(a)
      PROVE  StoreType'
  BY <1>1, <1>8, Shape, EndOpEffect DEF InsertVerify, Hashed, DropIfLoaded, Condemn,
       Rescan, Without
<1>9. ASSUME NEW a \in Admins, Abandon(a) \/ Refuse(a) \/ SwapDefault(a) \/ Unload(a)
      PROVE  StoreType'
  BY <1>1, <1>9, Shape, EndOpEffect DEF Abandon, Refuse, SwapDefault, Unload
<1>10. ASSUME NEW a \in Admins, MarkRow(a) \/ Register(a)
      PROVE  StoreType'
  <2>1. CASE MarkRow(a)
    BY <1>1, <2>1, Shape, EndOpEffect DEF MarkRow
  <2>2. CASE Register(a)
    BY <1>1, <2>2, Shape, EndOpEffect DEF Register
  <2> QED
    BY <1>10, <2>1, <2>2
<1>11. ASSUME NEW a \in Admins, DeleteRow(a)
       PROVE  StoreType'
  BY <1>1, <1>11, Shape, EndOpEffect DEF DeleteRow
<1>12. ASSUME NEW a \in Admins, Quarantine(a)
       PROVE  StoreType'
  BY <1>1, <1>12, Shape, EndOpEffect DEF Quarantine
<1>13. ASSUME Promote
       PROVE  StoreType'
  <2>1. PICK m \in Models \ DropIns :
          /\ installed[m] = "none"
          /\ \A v \in Admins : arg[v] = m => pc[v] \notin {"drop", "move"}
          /\ installed' = [installed EXCEPT ![m] = "ok"]
          /\ quarantined' = quarantined \ {m}
    BY <1>13 DEF Promote
  <2>2. UNCHANGED <<memory, selected, selection, procs>>
    BY <1>13 DEF Promote
  <2> QED
    BY <1>1, <2>1, <2>2, Shape
<1> QED
  BY <1>2, <1>3, <1>4, <1>5, <1>6, <1>7, <1>8, <1>9, <1>10, <1>11, <1>12, <1>13, Zenon
     DEF Next, RequestStep, AdminStep

(* Locks and processes.                                                    *)
LEMMA ProcsTypeNext ==
  ASSUME ResidencyInv, Next
  PROVE  ProcsType'
<1> USE DEF ProcsType, Places, Ops, Goto, slot, procs, memory, tables
<1>1. TypeOK /\ SlotHeld /\ LockHeld /\ OpPlaces /\ ProcsType
  BY DEF ResidencyInv, TypeOK
<1>2. ASSUME NEW r \in Requests,
             \/ Arrive(r) \/ Granted(r) \/ Bind(r) \/ Look(r) \/ Wake(r)
             \/ CheckInstalled(r) \/ SwapIn(r) \/ Ask(r) \/ GiveUp(r) \/ Fail(r) \/ Finish(r)
      PROVE  ProcsType'
  BY <1>1, <1>2, Shape, MaxOpsAssumption DEF Arrive, Granted, Bind, Look, Wake,
     CheckInstalled, SwapIn, Ask,
       GiveUp, Fail, Finish, EndRequest
<1>3. ASSUME Startup
      PROVE  ProcsType'
  BY <1>1, <1>3, Shape, MaxOpsAssumption DEF Startup, StartupLoaded, StartupFails,
     ClearStatus
<1>4. ASSUME NEW d \in Readers, ReadLoaded(d) \/ ReadLoading(d)
       PROVE  ProcsType'
  BY <1>1, <1>4 DEF ReadLoaded, ReadLoading
<1>5. ASSUME NEW a \in Admins,
             \/ Begin(a) \/ Advance(a) \/ StoreDefault(a) \/ AskSlot(a) \/ GrantedOp(a)
             \/ ClearDefault(a) \/ BeginVerify(a) \/ CancelVerify(a) \/ BeginRefresh(a)
      PROVE  ProcsType'
  BY <1>1, <1>5, Shape, MaxOpsAssumption DEF Begin, Advance, StoreDefault, AskSlot,
     GrantedOp, ClearDefault,
       BeginVerify, CancelVerify, BeginRefresh
<1>6. ASSUME NEW a \in Admins, Lock(a)
      PROVE  ProcsType'
  BY <1>1, <1>6, Shape, MaxOpsAssumption, LockPlace DEF Lock
<1>7. ASSUME NEW a \in Admins, GiveUpOp(a)
      PROVE  ProcsType'
  BY <1>1, <1>7, Shape, MaxOpsAssumption DEF GiveUpOp
<1>8. ASSUME NEW a \in Admins,
             InsertVerify(a) \/ Hashed(a) \/ DropIfLoaded(a) \/ Condemn(a) \/ Rescan(a)
      PROVE  ProcsType'
  <2>1. CASE InsertVerify(a)
    <3>1. CASE EndOp(a)
      BY <1>1, <2>1, <3>1, Shape, EndOpEffect DEF InsertVerify
    <3>2. CASE ~EndOp(a)
      BY <1>1, <2>1, <3>2, Shape DEF InsertVerify
    <3> QED
      BY <3>1, <3>2
<2>2. CASE Hashed(a)
    <3>1. CASE EndOp(a)
      BY <1>1, <2>2, <3>1, Shape, EndOpEffect DEF Hashed
    <3>2. CASE ~EndOp(a)
      BY <1>1, <2>2, <3>2, Shape DEF Hashed
    <3> QED
      BY <3>1, <3>2
<2>3. CASE DropIfLoaded(a)
    <3>1. CASE EndOp(a)
      BY <1>1, <2>3, <3>1, Shape, EndOpEffect DEF DropIfLoaded
    <3>2. CASE ~EndOp(a)
      BY <1>1, <2>3, <3>2, Shape DEF DropIfLoaded
    <3> QED
      BY <3>1, <3>2
<2>4. CASE Condemn(a)
    <3>1. CASE EndOp(a)
      BY <1>1, <2>4, <3>1, Shape, EndOpEffect DEF Condemn
    <3>2. CASE ~EndOp(a)
      BY <1>1, <2>4, <3>2, Shape DEF Condemn
    <3> QED
      BY <3>1, <3>2
<2>5. CASE Rescan(a)
    <3>1. CASE EndOp(a)
      BY <1>1, <2>5, <3>1, Shape, EndOpEffect DEF Rescan
    <3>2. CASE ~EndOp(a)
      BY <1>1, <2>5, <3>2, Shape DEF Rescan
    <3> QED
      BY <3>1, <3>2
  <2> QED
    BY <1>8, <2>1, <2>2, <2>3, <2>4, <2>5
<1>9. ASSUME NEW a \in Admins, Abandon(a) \/ Refuse(a) \/ SwapDefault(a) \/ Unload(a)
      PROVE  ProcsType'
  BY <1>1, <1>9, Shape, MaxOpsAssumption, EndOpEffect DEF Abandon, Refuse, SwapDefault,
     Unload
<1>10. ASSUME NEW a \in Admins, MarkRow(a) \/ Register(a)
      PROVE  ProcsType'
  BY <1>1, <1>10, Shape, MaxOpsAssumption, EndOpEffect DEF MarkRow, Register
<1>11. ASSUME NEW a \in Admins, DeleteRow(a)
       PROVE  ProcsType'
  BY <1>1, <1>11, Shape, MaxOpsAssumption, EndOpEffect DEF DeleteRow
<1>12. ASSUME NEW a \in Admins, Quarantine(a)
       PROVE  ProcsType'
  BY <1>1, <1>12, Shape, MaxOpsAssumption, EndOpEffect DEF Quarantine
<1>13. ASSUME Promote
       PROVE  ProcsType'
  <2>1. PICK m \in Models \ DropIns :
          /\ installed[m] = "none"
          /\ \A v \in Admins : arg[v] = m => pc[v] \notin {"drop", "move"}
          /\ installed' = [installed EXCEPT ![m] = "ok"]
          /\ quarantined' = quarantined \ {m}
    BY <1>13 DEF Promote
  <2>2. left > 0 /\ left' = left - 1 /\ UNCHANGED <<selection, procs>>
    BY <1>13 DEF Promote
  <2> QED
    BY <1>1, <2>2, MaxOpsAssumption
<1> QED
  BY <1>2, <1>3, <1>4, <1>5, <1>6, <1>7, <1>8, <1>9, <1>10, <1>11, <1>12, <1>13, Zenon
     DEF Next, RequestStep, AdminStep

(* A caller is idle exactly when its call is about no model.               *)
LEMMA CallsTypeNext ==
  ASSUME ResidencyInv, Next
  PROVE  CallsType'
<1> USE DEF CallsType, Goto, slot, procs, memory, tables
<1>1. TypeOK /\ SlotHeld /\ LockHeld /\ OpPlaces /\ CallsType
  BY DEF ResidencyInv, TypeOK
<1>2. ASSUME NEW r \in Requests,
             \/ Arrive(r) \/ Granted(r) \/ Bind(r) \/ Look(r) \/ Wake(r)
             \/ CheckInstalled(r) \/ SwapIn(r) \/ Ask(r) \/ GiveUp(r) \/ Fail(r) \/ Finish(r)
      PROVE  CallsType'
  BY <1>1, <1>2, Shape DEF Arrive, Granted, Bind, Look, Wake, CheckInstalled, SwapIn, Ask,
       GiveUp, Fail, Finish, EndRequest
<1>3. ASSUME Startup
      PROVE  CallsType'
  BY <1>1, <1>3, Shape DEF Startup, StartupLoaded, StartupFails, ClearStatus
<1>4. ASSUME NEW d \in Readers, ReadLoaded(d) \/ ReadLoading(d)
       PROVE  CallsType'
  BY <1>1, <1>4 DEF ReadLoaded, ReadLoading
<1>5. ASSUME NEW a \in Admins,
             \/ Begin(a) \/ Advance(a) \/ StoreDefault(a) \/ AskSlot(a) \/ GrantedOp(a)
             \/ ClearDefault(a) \/ BeginVerify(a) \/ CancelVerify(a) \/ BeginRefresh(a)
      PROVE  CallsType'
  BY <1>1, <1>5, Shape DEF Begin, Advance, StoreDefault, AskSlot, GrantedOp, ClearDefault,
       BeginVerify, CancelVerify, BeginRefresh
<1>6. ASSUME NEW a \in Admins, Lock(a)
      PROVE  CallsType'
  BY <1>1, <1>6, Shape, LockPlace DEF Lock
<1>7. ASSUME NEW a \in Admins, GiveUpOp(a)
      PROVE  CallsType'
  BY <1>1, <1>7, Shape DEF GiveUpOp
<1>8. ASSUME NEW a \in Admins,
             InsertVerify(a) \/ Hashed(a) \/ DropIfLoaded(a) \/ Condemn(a) \/ Rescan(a)
      PROVE  CallsType'
  BY <1>1, <1>8, Shape, EndOpEffect DEF InsertVerify, Hashed, DropIfLoaded, Condemn,
       Rescan, Without
<1>9. ASSUME NEW a \in Admins, Abandon(a) \/ Refuse(a) \/ SwapDefault(a) \/ Unload(a)
      PROVE  CallsType'
  BY <1>1, <1>9, Shape, EndOpEffect DEF Abandon, Refuse, SwapDefault, Unload
<1>10. ASSUME NEW a \in Admins, MarkRow(a) \/ Register(a)
      PROVE  CallsType'
  BY <1>1, <1>10, Shape, EndOpEffect DEF MarkRow, Register
<1>11. ASSUME NEW a \in Admins, DeleteRow(a)
       PROVE  CallsType'
  BY <1>1, <1>11, Shape, EndOpEffect DEF DeleteRow
<1>12. ASSUME NEW a \in Admins, Quarantine(a)
       PROVE  CallsType'
  <2>1. /\ pc' = [pc EXCEPT ![a] = "idle"] /\ arg' = [arg EXCEPT ![a] = NoModel]
        /\ bound' = bound
    BY <1>1, <1>12, EndOpEffect DEF Quarantine
  <2> QED
    BY <1>1, <2>1, Shape
<1>13. ASSUME Promote
       PROVE  CallsType'
  <2>1. PICK m \in Models \ DropIns :
          /\ installed[m] = "none"
          /\ \A v \in Admins : arg[v] = m => pc[v] \notin {"drop", "move"}
          /\ installed' = [installed EXCEPT ![m] = "ok"]
          /\ quarantined' = quarantined \ {m}
    BY <1>13 DEF Promote
  <2>2. UNCHANGED <<memory, selected, selection, procs>>
    BY <1>13 DEF Promote
  <2> QED
    BY <1>1, <2>1, <2>2, Shape
<1> QED
  BY <1>2, <1>3, <1>4, <1>5, <1>6, <1>7, <1>8, <1>9, <1>10, <1>11, <1>12, <1>13, Zenon
     DEF Next, RequestStep, AdminStep

(* Only the readers' own steps change what they report.                    *)
LEMMA ProbeTypeNext ==
  ASSUME ResidencyInv, Next
  PROVE  ProbeType'
<1>1. ProbeType
  BY DEF ResidencyInv, TypeOK, ProbeType
<1>2. ASSUME NEW d \in Readers, ReadLoaded(d) \/ ReadLoading(d)
      PROVE  ProbeType'
  BY <1>1, <1>2 DEF ReadLoaded, ReadLoading, ProbeType
<1>3. ASSUME NEW r \in Requests, RequestStep(r) \/ Arrive(r) \/ GiveUp(r)
      PROVE  UNCHANGED probe
  BY <1>3, Zenon DEF RequestStep, Arrive, GiveUp, Ask, Granted, Bind, Look, Wake,
       CheckInstalled, SwapIn, Fail, Finish
<1>4. ASSUME NEW a \in Admins, AdminStep(a)
      PROVE  UNCHANGED probe
  BY <1>4, Zenon DEF AdminStep, Lock, Refuse, Advance, StoreDefault, SwapDefault,
     DeleteRow,
       AskSlot, GrantedOp, ClearDefault, Unload, Condemn, DropIfLoaded, Quarantine,
       InsertVerify, Hashed, MarkRow, Register, Rescan
<1>5. ASSUME NEW a \in Admins,
             \/ Begin(a) \/ Abandon(a) \/ GiveUpOp(a) \/ BeginVerify(a)
             \/ CancelVerify(a) \/ BeginRefresh(a)
      PROVE  UNCHANGED probe
  BY <1>5, Zenon DEF Begin, Abandon, GiveUpOp, BeginVerify, CancelVerify, BeginRefresh
<1>6. ASSUME Startup \/ Promote
      PROVE  UNCHANGED probe
  BY <1>6, Zenon DEF Startup, StartupLoaded, StartupFails, ClearStatus, Promote
<1>7. UNCHANGED probe => ProbeType'
  BY <1>1 DEF ProbeType
<1> QED
  BY <1>2, <1>3, <1>4, <1>5, <1>6, <1>7, Zenon DEF Next

-----------------------------------------------------------------------------
(* The theorems.                                                           *)

(* Before the first call nobody holds the slot or the lock, the default,   *)
(* if there is one, has its row, and nothing is in quarantine.             *)
LEMMA InitInv ==
  ASSUME Init
  PROVE  ResidencyInv
<1> USE DEF Init, Slot!Init
<1>1. \A c \in Callers : pc[c] = "idle" /\ arg[c] = NoModel
  OBVIOUS
<1>2. <<>> \in Seq(Callers)
  OBVIOUS
<1>3. SlotType
  BY <1>2 DEF SlotType
<1>4. StoreType
  BY DEF StoreType, Rows
<1>5. ProcsType
  BY MaxOpsAssumption DEF ProcsType, Places, Ops
<1>6. CallsType /\ ProbeType
  BY <1>1 DEF CallsType, ProbeType
<1>7. \A a \in Admins : pc[a] = "idle" /\ op[a] = "none"
  BY <1>1 DEF Callers
<1>8. \A r \in Requests : pc[r] = "idle"
  BY <1>1 DEF Callers
<1>9. SlotHeld /\ LockHeld /\ OpPlaces /\ RunsBound
  BY <1>7, <1>8 DEF SlotHeld, LockHeld, OpPlaces, RunsBound, UnderLock, UnderSlot, Turn
<1>10. DefaultKept /\ CondemnedKept
  <2>1. DefaultIsRegistered
    BY ModelsAssumption DEF DefaultIsRegistered
  <2> QED
    BY <1>7, <2>1 DEF DefaultKept, CondemnedKept, CondemnedNotServed, NoRow,
       NobodyLoads, Doomed
<1> QED
  BY <1>3, <1>4, <1>5, <1>6, <1>9, <1>10
  DEF ResidencyInv, TypeOK, SlotType, StoreType, ProcsType, CallsType, ProbeType

(* A step of something else changes nothing the invariant speaks of.       *)
LEMMA StutterInv ==
  ASSUME ResidencyInv, UNCHANGED vars
  PROVE  ResidencyInv'
<1> USE DEF vars, slot, memory, tables, procs
<1>1. TypeOK'
  BY DEF ResidencyInv, TypeOK
<1>2. SlotHeld' /\ LockHeld' /\ OpPlaces' /\ RunsBound'
  BY DEF ResidencyInv, SlotHeld, LockHeld, OpPlaces, RunsBound, UnderLock, UnderSlot
<1>3. DefaultKept' /\ CondemnedKept'
  BY DEF ResidencyInv, DefaultKept, DefaultIsRegistered, CondemnedKept,
     CondemnedNotServed,
         NoRow, NobodyLoads, Doomed
<1> QED
  BY <1>1, <1>2, <1>3 DEF ResidencyInv

(* The locks, the default's row, the condemned models and the handles of   *)
(* the runs stay as they should in every reachable state.                  *)
THEOREM ResidencyInvariant == Spec => []ResidencyInv
<1>1. ASSUME ResidencyInv, Next
      PROVE  ResidencyInv'
  <2>1. TypeOK'
    BY <1>1, SlotTypeNext, StoreTypeNext, ProcsTypeNext, CallsTypeNext, ProbeTypeNext
    DEF TypeOK, SlotType, StoreType, ProcsType, CallsType, ProbeType
  <2>2. SlotHeld' /\ LockHeld' /\ OpPlaces' /\ RunsBound' /\ DefaultKept'
    BY <1>1, SlotHeldNext, LockHeldNext, OpPlacesNext, RunsNext, DefaultNext
  <2>3. CondemnedKept'
    BY <1>1, CondemnedNext, NoRowNext, NobodyLoadsNext, DoomedNext DEF CondemnedKept
  <2> QED
    BY <2>1, <2>2, <2>3 DEF ResidencyInv
<1> QED
  BY <1>1, InitInv, StutterInv, PTL DEF Spec

(* Every variable keeps the shape the code gives it.                       *)
THEOREM TypeCorrect == Spec => []TypeOK
<1>1. ResidencyInv => TypeOK
  BY DEF ResidencyInv
<1> QED
  BY <1>1, ResidencyInvariant, PTL

(* Whatever is swapped in while a request queues, loads or polls, its run  *)
(* uses the model it resolved to, under the slot.                          *)
THEOREM RunsUseAskedModel == Spec => []RunsOnAskedModel
<1>1. ResidencyInv => RunsOnAskedModel
  BY DEF ResidencyInv, RunsBound, SlotHeld, Turn, RunsOnAskedModel
<1> QED
  BY <1>1, ResidencyInvariant, PTL

(* A managed model that failed verification is neither in memory nor       *)
(* serving anybody, unless the startup thread was loading it.              *)
THEOREM CondemnedStayOut == Spec => []CondemnedNotServed
<1>1. ResidencyInv => CondemnedNotServed
  BY DEF ResidencyInv, CondemnedKept
<1> QED
  BY <1>1, ResidencyInvariant, PTL

(* Selecting, removing and verifying in any order leave the default with   *)
(* its row.                                                                *)
THEOREM DefaultHasRow == Spec => []DefaultIsRegistered
<1>1. ResidencyInv => DefaultIsRegistered
  BY DEF ResidencyInv, DefaultKept
<1> QED
  BY <1>1, ResidencyInvariant, PTL

(* Nothing is unloaded under the slot while a request runs, loads or looks *)
(* for its model: both would own the slot.                                 *)
THEOREM UnloadsWait == Spec => []NobodyInferringOnUnload
<1>1. ResidencyInv => NobodyInferringOnUnload
  <2> SUFFICES ASSUME ResidencyInv,
                      NEW a \in Admins, NEW r \in Requests,
                      pc[a] \in {"act", "drop", "move"}, op[a] # "refresh",
                      pc[r] \in Turn
               PROVE  FALSE
    BY DEF NobodyInferringOnUnload, Turn
  <2>1. owner = a /\ owner = r
    BY DEF ResidencyInv, SlotHeld, UnderSlot
  <2> QED
    BY <2>1, CallersAssumption
<1> QED
  BY <1>1, ResidencyInvariant, PTL
=============================================================================
