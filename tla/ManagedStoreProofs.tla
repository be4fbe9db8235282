-------------------------- MODULE ManagedStoreProofs --------------------------
(***************************************************************************)
(* Theorems about ManagedStore.  The invariant says what the tables, the   *)
(* folders and each task hold, place by place; the effects of the steps on *)
(* the tasks and the tables are lemmas, used by every theorem.             *)
(***************************************************************************)
EXTENDS ManagedStore, TLAPS

(* The fields of a task, and of what is shared.                            *)
Places == {"idle", "insert", "begin", "fetch", "request", "stream", "hash", "promote",
           "receive", "next", "copy", "sub", "drop", "judge", "saved", "wait", "lock",
           "look", "move", "forget", "delete", "folder", "rows", "rehash", "store",
           "unregister", "scan", "match", "register"}
Tasks == [pc : Places, arg : Ids \cup Paths \cup {Junk, None}, off : 0 .. Chunks,
          handle : {"none", "start", "end", "gone"}, tries : 0 .. MaxTries - 1,
          todo : SUBSET (Snap \cup Paths \cup Models \cup {Junk}),
          seen : SUBSET Paths, listed : SUBSET Paths,
          snap : Snap \cup {None}, found : File \cup {None}]
Operations == [kind : Kinds, model : Ids \cup {None}, state : States]

TableTypes ==
  /\ op \in [Ops -> Operations] /\ sub \in [Ops -> Models \cup {None}]
  /\ row \in [Ids -> Row \cup {None}]

FolderTypes ==
  /\ file \in [Paths -> File \cup {None}] /\ part \in [Models -> Part \cup {None}]
  /\ staged \in [Ops -> Models \cup {Junk, None}] /\ late \in [Ops -> Write \cup {None}]

WorldTypes ==
  /\ selection \in Ops \cup {None} /\ server \in {"down", "swept", "up"}
  /\ faults \in Stamps /\ tampered \subseteq Paths /\ calm \subseteq Ops

TaskTypes == task \in [Ops -> Tasks]

(* What is in hand at each place.                                          *)
Supplies == {"install", "import"}
ArgFits(o) ==
  LET t == task[o]
      k == op[o].kind
  IN /\ k \in Supplies /\ t.pc # "idle" => t.arg \in Models /\ op[o].model = t.arg
     /\ k \in {"verify", "remove"} /\ t.pc # "idle" => t.arg \in Ids /\ op[o].model = t.arg
     /\ k = "import" /\ t.pc = "promote" => staged[o] = t.arg
     /\ k = "import_user" =>
          /\ op[o].model = None /\ t.pc # "insert"
          /\ t.pc # "idle" => t.todo \subseteq Models \cup {Junk}
          /\ t.pc \in {"copy", "sub", "promote", "drop"} => t.arg \in Models
     /\ k = "refresh" =>
          /\ op[o].model = None /\ t.pc # "insert"
          /\ t.pc \in {"rows", "rehash", "store", "unregister"} => t.todo \subseteq Snap
          /\ t.pc \in {"scan", "match", "register"} => t.todo \subseteq Paths
          /\ t.pc \in {"rehash", "store", "unregister"} => t.snap \in Snap
          /\ t.pc \in {"rehash", "store", "match", "register"} => t.found \in File
          /\ t.pc \in {"match", "register"} => t.arg \in Paths /\ t.found.data \in Ids

ArgsFit == \A o \in Ops : ArgFits(o)

(* A managed row is that of a catalog model and its file.                  *)
Fits(i, r) == r # None /\ r.source # "user_folder" => i \in Models /\ r.path = i /\ r.data = i

SnapFits(o) ==
  \/ op[o].kind = "verify" /\ task[o].pc # "idle"
  \/ op[o].kind = "remove" /\ task[o].pc \in {"move", "forget", "delete"}
  => /\ task[o].snap \in Snap /\ task[o].snap.id = task[o].arg
     /\ Fits(task[o].arg, task[o].snap.rec)
     /\ task[o].pc \in {"move", "delete"} => task[o].snap.rec.source # "user_folder"

RowsFit == (\A i \in Ids : Fits(i, row[i])) /\ (\A o \in Ops : SnapFits(o))

(* An operation is under way or cancelled for as long as its task runs.    *)
StateFits(o) ==
  LET k == op[o].kind
      p == task[o].pc
      s == op[o].state
  IN /\ k = "none" => s = "none" /\ p = "idle"
     /\ k = "remove" => s = "none" /\ p # "insert"
     /\ p = "insert" => s = "none"
     /\ k \notin {"none", "remove"} /\ p \notin {"idle", "insert"} => s \in ActiveStates \cup {"cancelled"}
     /\ k # "none" /\ p = "idle" /\ server # "down" => s \notin ActiveStates
     /\ k = "import" /\ staged[o] # None => s \in ActiveStates \cup {"cancelled"}
     /\ staged[o] # None => k = "import"
     /\ staged[o] # None /\ server = "up" => p # "idle" \/ s = "cancelled"
     /\ sub[o] # None /\ server # "down" => k = "import_user" /\ p \in {"promote", "drop"}

StatesFit == \A o \in Ops : StateFits(o)

(* Two operations are never under way for one model.                       *)
Alone ==
  \A o, x \in Ops :
    op[o].model # None /\ op[o].model = op[x].model
    /\ op[o].state \in ActiveStates /\ op[x].state \in ActiveStates => o = x

(* Nothing runs while the server does not.                                 *)
Halted ==
  server # "up" => /\ selection = None
                   /\ \A o \in Ops : task[o].pc = "idle" /\ late[o] = None

(* A removal past the lock holds it.                                       *)
LockHeld ==
  \A o \in Ops : op[o].kind = "remove" /\ task[o].pc \in {"look", "move", "forget", "delete"}
                   => selection = o

StoreTypes == /\ TableTypes /\ FolderTypes /\ WorldTypes /\ TaskTypes /\ ArgsFit /\ RowsFit
StoreInv == /\ StoreTypes /\ StatesFit /\ Alone /\ Halted /\ LockHeld

(* What waits to be promoted is the catalog's.                             *)
Whole(o) ==
  At(o, "install", "promote") /\ op[o].state = "running" /\ task[o].handle # "gone" =>
    /\ part[task[o].arg] # None /\ PartData(task[o].arg) = task[o].arg
    /\ \A x \in Ops : late[x] # None => late[x].model # task[o].arg

Hashed == \A o \in Ops : Whole(o)

(* A managed model whose file is not the catalog's, through a removal that *)
(* the end of the server cut short.                                        *)
Broken(m) ==
  /\ Managed(row[m]) /\ m \notin tampered /\ ~Removing(m)
  /\ ~(file[m] # None /\ file[m].data = m)

(* It is flagged, and no verification is about to find otherwise.          *)
BrokenFlagged ==
  server = "up" =>
    \A m \in Models : Broken(m) =>
      /\ row[m].flag
      /\ \A o \in Ops : op[o].kind = "verify" /\ task[o].pc # "idle" /\ task[o].arg = m =>
           /\ task[o].snap.rec.path = m /\ task[o].snap.rec.data = m
           /\ task[o].found # None => task[o].found.data # m

CatalogInv == StoreInv /\ Hashed /\ BrokenFlagged
-----------------------------------------------------------------------------
(* What a step does to the tasks: those of the others keep their places and *)
(* what they have in hand, though the .part may go.                         *)
Kept(t, u) ==
  /\ u.arg = t.arg /\ u.todo = t.todo /\ u.seen = t.seen /\ u.listed = t.listed
  /\ u.snap = t.snap /\ u.found = t.found

Others(o) ==
  \A x \in Ops : x # o => /\ task'[x].pc = task[x].pc /\ Kept(task[x], task'[x])
                          /\ task'[x].handle \in {task[x].handle, "gone"}

Carried(t, u) == u.pc = t.pc /\ Kept(t, u) /\ u.handle \in {t.handle, "gone"}

(* The task of o ends, and its operation has ended or ends with it.        *)
Leaves(o) ==
  \/ op' = op /\ (op[o].kind = "remove" \/ task[o].pc = "insert" \/ op[o].state \notin ActiveStates)
  \/ op' = Updated(o, "completed") \/ op' = Updated(o, "failed")

(* ... or goes on, at one of the places and with what it has.              *)
Stays(o) == op' = op \/ op' = Updated(o, "running") \/ Insert(o)

Plain(o, places) ==
  /\ TaskTypes' /\ Others(o)
  /\ \/ task'[o] = Idle /\ task'[o].pc = "idle" /\ Leaves(o)
     \/ task'[o].pc \in places /\ Kept(task[o], task'[o]) /\ Stays(o)

LEMMA IdleIs == Idle \in Tasks /\ Idle.pc = "idle"
  BY ChunksAssumption DEF Tasks, Places, Idle

LEMMA Becoming ==
  ASSUME TaskTypes, NEW o \in Ops, NEW t \in Tasks, task' = [task EXCEPT ![o] = t]
  PROVE  TaskTypes' /\ Others(o) /\ task'[o] = t
  BY DEF TaskTypes, Others, Carried, Kept

(* Unlinking takes nothing out of a hand but the .part.                    *)
LEMMA UnlinkedIs ==
  ASSUME TaskTypes, NEW m
  PROVE  /\ Unlinked(task, m) \in [Ops -> Tasks]
         /\ \A x \in Ops : Carried(task[x], Unlinked(task, m)[x])
<1>1. ASSUME NEW t \in Tasks
      PROVE  [t EXCEPT !.handle = "gone"] \in Tasks /\ Carried(t, [t EXCEPT !.handle = "gone"])
  BY DEF Tasks, Carried, Kept
<1> QED
  BY <1>1 DEF Unlinked, TaskTypes, Carried, Kept

(* ... and so does discarding it.                                          *)
LEMMA DiscardedIs ==
  ASSUME NEW f \in [Ops -> Tasks], NEW m, \A x \in Ops : Carried(task[x], f[x])
  PROVE  /\ Discarded(f, m) \in [Ops -> Tasks]
         /\ \A x \in Ops : /\ Carried(task[x], Discarded(f, m)[x])
                           /\ At(x, "install", "promote") /\ task[x].arg = m
                                => Discarded(f, m)[x].handle = "gone"
<1>1. ASSUME NEW t \in Tasks
      PROVE  /\ [t EXCEPT !.handle = "gone"] \in Tasks /\ [t EXCEPT !.handle = "gone"].pc = t.pc
             /\ Kept(t, [t EXCEPT !.handle = "gone"]) /\ [t EXCEPT !.handle = "gone"].handle = "gone"
  BY DEF Tasks, Kept
<1>2. \A x \in Ops : f[x].arg = task[x].arg
  BY DEF Carried, Kept
<1>3. ASSUME NEW x \in Ops
      PROVE  /\ Discarded(f, m)[x] \in Tasks /\ Carried(f[x], Discarded(f, m)[x])
             /\ At(x, "install", "promote") /\ f[x].arg = m => Discarded(f, m)[x].handle = "gone"
  BY <1>1 DEF Discarded, Carried, Kept
<1>4. Discarded(f, m) \in [Ops -> Tasks]
  BY <1>3 DEF Discarded
<1> QED
  BY <1>2, <1>3, <1>4 DEF Carried, Kept

LEMMA BecomingUnlinked ==
  ASSUME TaskTypes, NEW o \in Ops, NEW t \in Tasks, NEW m,
         task' = [Unlinked(task, m) EXCEPT ![o] = t]
  PROVE  TaskTypes' /\ Others(o) /\ task'[o] = t
<1>1. PICK f \in [Ops -> Tasks] :
        /\ f = Unlinked(task, m)
        /\ \A x \in Ops : Carried(task[x], f[x])
  BY UnlinkedIs
<1>2. task' = [f EXCEPT ![o] = t]
  BY <1>1
<1> QED
  BY <1>1, <1>2 DEF TaskTypes, Others, Carried, Kept

LEMMA Goes ==
  ASSUME TaskTypes, NEW o \in Ops, NEW place \in Places, Goto(o, place)
  PROVE  TaskTypes' /\ Others(o) /\ task'[o].pc = place /\ Kept(task[o], task'[o])
<1>1. PICK t : t = [task[o] EXCEPT !.pc = place]
  OBVIOUS
<1>2. t \in Tasks /\ t.pc = place /\ Kept(task[o], t)
  BY <1>1 DEF Tasks, TaskTypes, Kept
<1>3. task' = [task EXCEPT ![o] = t]
  BY <1>1 DEF Goto
<1> QED
  BY <1>2, <1>3, Becoming

LEMMA Quits ==
  ASSUME TaskTypes, NEW o \in Ops, Quit(o)
  PROVE  TaskTypes' /\ Others(o) /\ task'[o] = Idle /\ task'[o].pc = "idle"
  BY IdleIs, Becoming DEF Quit

(* An attempt fails, of a task as it is or with a .part unlinked.          *)
LEMMA TriesAgain ==
  ASSUME TaskTypes, NEW o \in Ops, NEW f \in [Ops -> Tasks], Again(o, f),
         \A x \in Ops : Carried(task[x], f[x])
  PROVE  Plain(o, {"fetch"})
<1>1. CASE f[o].tries + 1 = MaxTries
  <2>1. task' = [f EXCEPT ![o] = Idle]
    BY <1>1 DEF Again
  <2> QED
    <3>1. TaskTypes' /\ Others(o) /\ task'[o] = Idle
      BY <2>1, IdleIs DEF TaskTypes, Others, Carried, Kept
    <3>2. op' = Updated(o, "failed")
      BY <1>1 DEF Again
    <3> QED
      BY <3>1, <3>2, IdleIs DEF Plain, Leaves
<1>2. CASE f[o].tries + 1 # MaxTries
  <2>1. PICK t : t = [f[o] EXCEPT !.pc = "fetch", !.tries = f[o].tries + 1,
                                  !.off = 0, !.handle = "none"]
    OBVIOUS
  <2>2. task' = [f EXCEPT ![o] = t]
    BY <1>2, <2>1 DEF Again
  <2>3. f[o] \in Tasks /\ f[o].tries \in 0 .. MaxTries - 1
    BY DEF Tasks
  <2>4. f[o].tries + 1 \in 0 .. MaxTries - 1 /\ 0 \in 0 .. Chunks
    BY <1>2, <2>3, ChunksAssumption
  <2>5. "fetch" \in Places
    BY DEF Places
  <2>6. t \in Tasks /\ t.pc = "fetch" /\ Kept(f[o], t)
    BY <2>1, <2>3, <2>4, <2>5 DEF Tasks, Kept
  <2>7. TaskTypes' /\ Others(o) /\ task'[o] = t /\ Kept(task[o], t)
    BY <2>2, <2>6 DEF TaskTypes, Others, Carried, Kept
  <2>8. op' = op
    BY <1>2 DEF Again
  <2> QED
    BY <2>6, <2>7, <2>8 DEF Plain, Stays
<1> QED
  BY <1>1, <1>2

LEMMA OpensAt ==
  ASSUME TaskTypes, NEW o \in Ops, NEW f \in [Ops -> Tasks], NEW n \in 0 .. Chunks,
         NEW h \in {"start", "end"}, Opened(o, f, n, h), op' = op,
         \A x \in Ops : Carried(task[x], f[x])
  PROVE  Plain(o, {"stream"})
<1>1. PICK t : t = [f[o] EXCEPT !.pc = "stream", !.off = n, !.handle = h]
  OBVIOUS
<1>2. task' = [f EXCEPT ![o] = t]
  BY <1>1 DEF Opened
<1>3. t \in Tasks /\ t.pc = "stream" /\ Kept(f[o], t)
  <2>1. "stream" \in Places
    BY DEF Places
  <2>2. f[o] \in Tasks
    OBVIOUS
  <2> QED
    BY <1>1, <2>1, <2>2 DEF Tasks, Kept
<1>4. TaskTypes' /\ Others(o) /\ task'[o] = t /\ Kept(task[o], t)
  BY <1>2, <1>3 DEF TaskTypes, Others, Carried, Kept
<1> QED
  BY <1>3, <1>4 DEF Plain, Stays

(* The same steps under one form, and one place more than needed.          *)
LEMMA PlainSteps ==
  ASSUME TaskTypes, NEW o \in Ops
  PROVE  /\ Quit(o) /\ Leaves(o) => Plain(o, {})
         /\ Finish(o, "completed") \/ Finish(o, "failed") => Plain(o, {})
         /\ Quit(o) /\ op' = op /\ Cancelled(o) => Plain(o, {})
         /\ \A place \in Places : Goto(o, place) /\ Stays(o) => Plain(o, {place})
         /\ \A place \in Places : Goto(o, place) /\ op' = op => Plain(o, {place})
         /\ Insert(o) => Plain(o, {"begin"})
         /\ Again(o, task) => Plain(o, {"fetch"})
         /\ \A t \in Tasks : Kept(task[o], t) /\ task' = [task EXCEPT ![o] = t] /\ op' = op
                              => Plain(o, {t.pc})
<1>1. Quit(o) /\ Leaves(o) => Plain(o, {})
  BY Quits DEF Plain
<1>2. Finish(o, "completed") \/ Finish(o, "failed") => Plain(o, {})
  BY <1>1 DEF Finish, Leaves
<1>3. Quit(o) /\ op' = op /\ Cancelled(o) => Plain(o, {})
  BY <1>1 DEF Leaves, Cancelled, ActiveStates
<1>4. ASSUME NEW place \in Places, Goto(o, place), Stays(o) PROVE Plain(o, {place})
  BY <1>4, Goes DEF Plain
<1>5. op' = op => Stays(o)
  BY DEF Stays
<1>6. ASSUME Insert(o) PROVE Plain(o, {"begin"})
  <2>1. "begin" \in Places /\ Stays(o)
    BY <1>6 DEF Places, Stays
  <2>2. CASE Quit(o) /\ UNCHANGED op
    <3>1. Leaves(o)
      BY <2>2, <1>6 DEF Leaves, Insert
    <3> QED
      BY <3>1, <2>2, Quits DEF Plain
  <2>3. CASE Goto(o, "begin")
    BY <2>1, <2>3, <1>4
  <2> QED
    BY <1>6, <2>2, <2>3 DEF Insert
<1>7. Again(o, task) => Plain(o, {"fetch"})
  BY TriesAgain DEF TaskTypes, Carried, Kept
<1>8. ASSUME NEW t \in Tasks, Kept(task[o], t), task' = [task EXCEPT ![o] = t], op' = op
      PROVE  Plain(o, {t.pc})
  BY <1>8, <1>5, Becoming DEF Plain
<1> QED
  BY <1>1, <1>2, <1>3, <1>4, <1>5, <1>6, <1>7, <1>8

LEMMA PlainMore ==
  ASSUME NEW o, NEW few, NEW more, Plain(o, few), few \subseteq more
  PROVE  Plain(o, more)
  BY DEF Plain

-----------------------------------------------------------------------------
(* What the steps of each kind of operation do to its task.                *)
LEMMA DownloadEffects ==
  ASSUME TaskTypes, FolderTypes, NEW o \in Ops, task[o].arg \in Models
  PROVE  /\ DownloadBegin(o) => Plain(o, {"fetch"})
         /\ Fetch(o) => Plain(o, {"hash", "request"})
         /\ AnswerFails(o) => Plain(o, {"fetch"})
         /\ AnswerWhole(o) => Plain(o, {"stream"})
         /\ AnswerRange(o) => Plain(o, {"stream"})
         /\ AnswerPastEnd(o) => Plain(o, {"fetch"})
         /\ ChunkArrives(o) => Plain(o, {"fetch", "stream"})
         /\ StreamBreaks(o) => Plain(o, {"fetch"})
         /\ StreamEnds(o) => Plain(o, {"hash", "fetch"})
         /\ HashPart(o) => Plain(o, {"promote"})
         /\ PromotePart(o) => Plain(o, {})
<1>p. {"fetch", "hash", "request", "stream", "promote"} \subseteq Places
  BY DEF Places
<1>m. ASSUME NEW few, NEW more, Plain(o, few), few \subseteq more PROVE Plain(o, more)
  BY <1>m, PlainMore
<1>t. task \in [Ops -> Tasks] /\ \A x \in Ops : Carried(task[x], task[x])
  BY DEF TaskTypes, Carried, Kept
<1>u. /\ Unlinked(task, task[o].arg) \in [Ops -> Tasks]
      /\ \A x \in Ops : Carried(task[x], Unlinked(task, task[o].arg)[x])
  BY UnlinkedIs
<1>d. ASSUME NEW f \in [Ops -> Tasks], \A x \in Ops : Carried(task[x], f[x])
      PROVE  /\ Discarded(f, task[o].arg) \in [Ops -> Tasks]
             /\ \A x \in Ops : Carried(task[x], Discarded(f, task[o].arg)[x])
  BY <1>d, DiscardedIs
<1>2. ASSUME DownloadBegin(o) PROVE Plain(o, {"fetch"})
  <2>1. CASE op' = Updated(o, "running") /\ Goto(o, "fetch")
    BY <2>1, <1>p, PlainSteps DEF Stays
  <2>2. CASE ~(op' = Updated(o, "running") /\ Goto(o, "fetch"))
    <3>1. Plain(o, {})
      BY <1>2, <2>2, PlainSteps DEF DownloadBegin
    <3> QED
      BY <3>1, <1>m
  <2> QED
    BY <2>1, <2>2
<1>3. ASSUME Fetch(o) PROVE Plain(o, {"hash", "request"})
  <2>0. op' = op
    BY <1>3 DEF Fetch, tables
  <2>1. CASE (Cancelled(o) /\ Quit(o)) \/ Goto(o, "hash")
    <3>1. Plain(o, {}) \/ Plain(o, {"hash"})
      BY <2>0, <2>1, <1>p, PlainSteps
    <3> QED
      BY <3>1, <1>m
  <2>2. ASSUME ResumeDecision(PartLen(task[o].arg), Chunks) = "range",
               task' = [task EXCEPT ![o].pc = "request", ![o].off = PartLen(task[o].arg)]
        PROVE  Plain(o, {"hash", "request"})
    <3>1. PartLen(task[o].arg) \in 0 .. Chunks
      BY <2>2, ChunksAssumption DEF ResumeDecision, PartLen, FolderTypes, Part
    <3>2. PICK t : t = [task[o] EXCEPT !.pc = "request", !.off = PartLen(task[o].arg)]
      OBVIOUS
    <3>3. t \in Tasks /\ t.pc = "request" /\ Kept(task[o], t)
      BY <3>1, <3>2, <1>t, <1>p DEF Tasks, Kept
    <3>4. task' = [task EXCEPT ![o] = t]
      BY <2>2, <3>2
    <3>5. Plain(o, {"request"})
      BY <2>0, <3>3, <3>4, PlainSteps
    <3> QED
      BY <3>5, <1>m
  <2>3. ASSUME task' = [Unlinked(task, task[o].arg) EXCEPT ![o].pc = "request", ![o].off = 0]
        PROVE  Plain(o, {"hash", "request"})
    <3>1. PICK f \in [Ops -> Tasks] :
            /\ f = Unlinked(task, task[o].arg)
            /\ \A x \in Ops : Carried(task[x], f[x])
      BY <1>u
    <3>2. PICK t : t = [f[o] EXCEPT !.pc = "request", !.off = 0]
      OBVIOUS
    <3>3. f[o] \in Tasks /\ 0 \in 0 .. Chunks
      BY ChunksAssumption
    <3>4. t \in Tasks /\ t.pc = "request" /\ Kept(f[o], t)
      BY <3>2, <3>3, <1>p DEF Tasks, Kept
    <3>5. task' = [f EXCEPT ![o] = t]
      BY <2>3, <3>1, <3>2
    <3>6. TaskTypes' /\ Others(o) /\ task'[o] = t /\ Kept(task[o], t)
      BY <3>1, <3>4, <3>5 DEF TaskTypes, Others, Carried, Kept
    <3> QED
      BY <2>0, <3>4, <3>6 DEF Plain, Stays
  <2> QED
    BY <1>3, <2>1, <2>2, <2>3 DEF Fetch, Arg
<1>4. ASSUME AnswerFails(o) \/ StreamBreaks(o) PROVE Plain(o, {"fetch"})
  BY <1>4, PlainSteps DEF AnswerFails, StreamBreaks
<1>5. ASSUME AnswerWhole(o) PROVE Plain(o, {"stream"})
  <2>1. 0 \in 0 .. Chunks /\ op' = op
    BY <1>5, ChunksAssumption DEF AnswerWhole, tables
  <2>2. CASE task[o].off > 0
    <3>1. Opened(o, Discarded(Unlinked(task, task[o].arg), task[o].arg), 0, "start")
      BY <1>5, <2>2 DEF AnswerWhole, Arg
    <3> QED
      BY <3>1, <2>1, <1>u, <1>d, OpensAt
  <2>3. CASE ~(task[o].off > 0)
    <3>1. Opened(o, Discarded(task, task[o].arg), 0, "start")
      BY <1>5, <2>3 DEF AnswerWhole, Arg
    <3> QED
      BY <3>1, <2>1, <1>t, <1>d, OpensAt
  <2> QED
    BY <2>2, <2>3
<1>6. ASSUME AnswerRange(o) PROVE Plain(o, {"stream"})
  <2>1. task[o].off \in 0 .. Chunks /\ op' = op
    BY <1>6, <1>t DEF Tasks, AnswerRange, tables
  <2>2. Opened(o, task, task[o].off, "end")
    BY <1>6 DEF AnswerRange
  <2> QED
    BY <2>1, <2>2, <1>t, OpensAt
<1>7. ASSUME AnswerPastEnd(o) PROVE Plain(o, {"fetch"})
  <2>1. Again(o, Discarded(Unlinked(task, task[o].arg), task[o].arg))
    BY <1>7 DEF AnswerPastEnd, Arg
  <2> QED
    BY <2>1, <1>u, <1>d, TriesAgain
<1>8. ASSUME ChunkArrives(o) PROVE Plain(o, {"fetch", "stream"})
  <2>1. CASE (Cancelled(o) /\ Quit(o) /\ UNCHANGED op) \/ Again(o, task)
    <3>1. Plain(o, {}) \/ Plain(o, {"fetch"})
      BY <2>1, PlainSteps
    <3> QED
      BY <3>1, <1>m
  <2>2. ASSUME task[o].pc = "stream", task[o].off < Chunks, op' = op,
               task' = [task EXCEPT ![o].off = task[o].off + 1]
        PROVE  Plain(o, {"fetch", "stream"})
    <3>1. task[o] \in Tasks /\ task[o].off \in 0 .. Chunks
      BY <1>t DEF Tasks
    <3>2. task[o].off + 1 \in 0 .. Chunks
      BY <3>1, <2>2, ChunksAssumption
    <3>3. PICK t : t = [task[o] EXCEPT !.off = task[o].off + 1]
      OBVIOUS
    <3>4. t \in Tasks /\ t.pc = "stream" /\ Kept(task[o], t)
      BY <3>1, <3>2, <3>3, <2>2 DEF Tasks, Kept
    <3>5. task' = [task EXCEPT ![o] = t]
      BY <2>2, <3>3
    <3>6. Plain(o, {"stream"})
      BY <2>2, <3>4, <3>5, PlainSteps
    <3> QED
      BY <3>6, <1>m
  <2> QED
    BY <1>8, <2>1, <2>2 DEF ChunkArrives, At
<1>9. ASSUME StreamEnds(o) PROVE Plain(o, {"hash", "fetch"})
  <2>1. CASE Again(o, task)
    <3>1. Plain(o, {"fetch"})
      BY <2>1, PlainSteps
    <3> QED
      BY <3>1, <1>m
  <2>2. ASSUME task' = [task EXCEPT ![o].pc = "hash", ![o].handle = "none"], op' = op
        PROVE  Plain(o, {"hash", "fetch"})
    <3>1. PICK t : t = [task[o] EXCEPT !.pc = "hash", !.handle = "none"]
      OBVIOUS
    <3>2. t \in Tasks /\ t.pc = "hash" /\ Kept(task[o], t)
      BY <3>1, <1>t, <1>p DEF Tasks, Kept
    <3>3. task' = [task EXCEPT ![o] = t]
      BY <2>2, <3>1
    <3>4. Plain(o, {"hash"})
      BY <2>2, <3>2, <3>3, PlainSteps
    <3> QED
      BY <3>4, <1>m
  <2> QED
    BY <1>9, <2>1, <2>2 DEF StreamEnds
<1>10. ASSUME HashPart(o) PROVE Plain(o, {"promote"})
  <2>1. CASE Finish(o, "failed") \/ (Goto(o, "promote") /\ op' = op)
    <3>1. Plain(o, {}) \/ Plain(o, {"promote"})
      BY <2>1, <1>p, PlainSteps
    <3> QED
      BY <3>1, <1>m
  <2>2. ASSUME task' = [Unlinked(task, task[o].arg) EXCEPT ![o] = Idle], op' = Updated(o, "failed")
        PROVE  Plain(o, {"promote"})
    BY <2>2, IdleIs, BecomingUnlinked DEF Plain, Leaves
  <2> QED
    BY <1>10, <2>1, <2>2 DEF HashPart, Arg
<1>11. ASSUME PromotePart(o) PROVE Plain(o, {})
  BY <1>11, PlainSteps DEF PromotePart
<1> QED
  BY <1>2, <1>3, <1>4, <1>5, <1>6, <1>7, <1>8, <1>9, <1>10, <1>11

LEMMA UploadEffects ==
  ASSUME TaskTypes, NEW o \in Ops
  PROVE  /\ ImportBegin(o) => Plain(o, {"receive"})
         /\ ImportReceived(o) => Plain(o, {"promote"})
         /\ ImportCut(o) => Plain(o, {})
         /\ ImportPromote(o) => Plain(o, {})
<1>p. {"receive", "promote"} \subseteq Places
  BY DEF Places
<1>m. ASSUME NEW few, NEW more, Plain(o, few), few \subseteq more PROVE Plain(o, more)
  BY <1>m, PlainMore
<1>1. ASSUME ImportBegin(o) PROVE Plain(o, {"receive"})
  BY <1>1, <1>p, PlainSteps DEF ImportBegin, tables
<1>2. ASSUME ImportReceived(o) PROVE Plain(o, {"promote"})
  <2>1. Plain(o, {}) \/ Plain(o, {"promote"})
    BY <1>2, <1>p, PlainSteps DEF ImportReceived
  <2> QED
    BY <2>1, <1>m
<1>3. ASSUME GuardDrops(o) PROVE Plain(o, {})
  <2>1. Leaves(o) /\ Quit(o)
    BY <1>3 DEF GuardDrops, Leaves, Updated, Cancelled, ActiveStates
  <2> QED
    BY <2>1, PlainSteps
<1>4. ASSUME ImportCut(o) \/ ImportPromote(o) PROVE Plain(o, {})
  BY <1>3, <1>4, PlainSteps DEF ImportCut, ImportPromote
<1> QED
  BY <1>1, <1>2, <1>4

LEMMA ImportUserEffects ==
  ASSUME TaskTypes, NEW o \in Ops
  PROVE  /\ ImportUserBegin(o) => Plain(o, {"next"})
         /\ ImportUserCopy(o) => Plain(o, {"sub", "next"})
         /\ ImportUserSub(o) => Plain(o, {"promote"})
         /\ ImportUserPromote(o) => Plain(o, {"drop"})
         /\ ImportUserDropSub(o) => Plain(o, {"next"})
         /\ ImportUserEnd(o) => Plain(o, {})
<1>p. {"next", "sub", "promote", "drop"} \subseteq Places
  BY DEF Places
<1>m. ASSUME NEW few, NEW more, Plain(o, few), few \subseteq more PROVE Plain(o, more)
  BY <1>m, PlainMore
<1>1. ASSUME ImportUserBegin(o) PROVE Plain(o, {"next"})
  <2>1. Plain(o, {}) \/ Plain(o, {"next"})
    BY <1>1, <1>p, PlainSteps DEF ImportUserBegin, Stays
  <2> QED
    BY <2>1, <1>m
<1>2. ASSUME ImportUserCopy(o) PROVE Plain(o, {"sub", "next"})
  <2>1. Plain(o, {"sub"}) \/ Plain(o, {"next"})
    BY <1>2, <1>p, PlainSteps DEF ImportUserCopy, tables
  <2> QED
    BY <2>1, <1>m
<1>3. ASSUME ImportUserSub(o) PROVE Plain(o, {"promote"})
  BY <1>3, <1>p, PlainSteps DEF ImportUserSub
<1>4. ASSUME ImportUserPromote(o) PROVE Plain(o, {"drop"})
  BY <1>4, <1>p, PlainSteps DEF ImportUserPromote
<1>5. ASSUME ImportUserDropSub(o) PROVE Plain(o, {"next"})
  BY <1>5, <1>p, PlainSteps DEF ImportUserDropSub
<1>6. ASSUME ImportUserEnd(o) PROVE Plain(o, {})
  BY <1>6, PlainSteps DEF ImportUserEnd
<1> QED
  BY <1>1, <1>2, <1>3, <1>4, <1>5, <1>6

LEMMA NextEffect ==
  ASSUME TaskTypes, NEW o \in Ops, task[o].todo \subseteq Models \cup {Junk}, ImportUserNext(o)
  PROVE  /\ TaskTypes' /\ Others(o)
         /\ \/ task'[o] = Idle /\ task'[o].pc = "idle" /\ Leaves(o)
            \/ /\ Stays(o) /\ task'[o].pc \in {"copy", "next"} /\ task'[o].todo \subseteq task[o].todo
               /\ task'[o].pc = "copy" => task'[o].arg \in Models /\ row[task'[o].arg] = None
<1>0. op' = op /\ Stays(o)
  BY DEF ImportUserNext, tables, Stays
<1>1. CASE Cancelled(o) /\ Quit(o)
  BY <1>0, <1>1, Quits DEF Leaves, Cancelled, ActiveStates
<1>2. ASSUME NEW d \in task[o].todo, NEW place \in {"copy", "next"},
             place = "copy" => d \in Models /\ row[d] = None,
             task' = [task EXCEPT ![o].todo = @ \ {d}, ![o].arg = d, ![o].pc = place]
      PROVE  /\ TaskTypes' /\ Others(o)
             /\ task'[o].pc \in {"copy", "next"} /\ task'[o].todo \subseteq task[o].todo
             /\ task'[o].pc = "copy" => task'[o].arg \in Models /\ row[task'[o].arg] = None
  <2>1. PICK t : t = [task[o] EXCEPT !.todo = task[o].todo \ {d}, !.arg = d, !.pc = place]
    OBVIOUS
  <2>2. place \in Places /\ d \in Ids \cup Paths \cup {Junk, None}
    BY DEF Places, Ids
  <2>3. /\ t \in Tasks /\ t.pc = place /\ t.arg = d
        /\ t.todo \subseteq task[o].todo
    BY <2>1, <2>2 DEF Tasks, TaskTypes
  <2>4. task' = [task EXCEPT ![o] = t]
    BY <1>2, <2>1
  <2>5. TaskTypes' /\ Others(o) /\ task'[o] = t
    BY <2>3, <2>4, Becoming
  <2> QED
    BY <1>2, <2>3, <2>5
<1>3. (Cancelled(o) /\ Quit(o)) \/ \E d \in task[o].todo :
        task' = [task EXCEPT ![o].todo = @ \ {d}, ![o].arg = d,
                   ![o].pc = IF d \in Models /\ row[d] = None THEN "copy" ELSE "next"]
  BY DEF ImportUserNext
<1>4. CASE ~(Cancelled(o) /\ Quit(o))
  <2>1. PICK d \in task[o].todo :
          task' = [task EXCEPT ![o].todo = @ \ {d}, ![o].arg = d,
                   ![o].pc = IF d \in Models /\ row[d] = None THEN "copy" ELSE "next"]
    BY <1>3, <1>4
  <2>2. PICK place : place = IF d \in Models /\ row[d] = None THEN "copy" ELSE "next"
    OBVIOUS
  <2>3. place \in {"copy", "next"} /\ (place = "copy" => d \in Models /\ row[d] = None)
    BY <2>2
  <2> QED
    BY <2>1, <2>2, <2>3, <1>0, <1>2
<1> QED
  BY <1>1, <1>4

LEMMA VerifyEffects ==
  ASSUME TaskTypes, NEW o \in Ops
  PROVE  /\ VerifyBegin(o) => Plain(o, {"hash"})
         /\ VerifyJudge(o) => Plain(o, {"saved", "wait"})
         /\ VerifySaved(o) => Plain(o, {})
         /\ VerifyCondemn(o) => Plain(o, {})
<1>p. {"hash", "saved", "wait"} \subseteq Places
  BY DEF Places
<1>m. ASSUME NEW few, NEW more, Plain(o, few), few \subseteq more PROVE Plain(o, more)
  BY <1>m, PlainMore
<1>1. ASSUME VerifyBegin(o) PROVE Plain(o, {"hash"})
  <2>1. Plain(o, {}) \/ Plain(o, {"hash"})
    BY <1>1, <1>p, PlainSteps DEF VerifyBegin, Stays
  <2> QED
    BY <2>1, <1>m
<1>2. ASSUME VerifyJudge(o) PROVE Plain(o, {"saved", "wait"})
  <2>1. \/ Cancelled(o) /\ Quit(o) /\ UNCHANGED op
        \/ Finish(o, "failed")
        \/ (Goto(o, "saved") \/ Goto(o, "wait")) /\ UNCHANGED op
    BY <1>2 DEF VerifyJudge
  <2>2. Plain(o, {}) \/ Plain(o, {"saved"}) \/ Plain(o, {"wait"})
    BY <2>1, <1>p, PlainSteps
  <2> QED
    BY <2>2, <1>m
<1>3. ASSUME VerifySaved(o) \/ VerifyCondemn(o) PROVE Plain(o, {})
  <2>1. \/ Cancelled(o) /\ Quit(o) /\ UNCHANGED op
        \/ Finish(o, "failed") \/ Finish(o, "completed")
    BY <1>3 DEF VerifySaved, VerifyCondemn
  <2> QED
    BY <2>1, PlainSteps
<1> QED
  BY <1>1, <1>2, <1>3

LEMMA HashEffect ==
  ASSUME TaskTypes, FolderTypes, NEW o \in Ops, task[o].snap \in Snap, VerifyHash(o)
  PROVE  /\ TaskTypes' /\ Others(o) /\ task'[o].pc = "judge"
         /\ task'[o].arg = task[o].arg /\ task'[o].snap = task[o].snap
         /\ task'[o].found \in {file[task[o].snap.rec.path], None}
<1>1. PICK f \in {file[task[o].snap.rec.path], None} :
        task' = [task EXCEPT ![o].pc = "judge", ![o].found = f]
  BY DEF VerifyHash
<1>2. "judge" \in Places /\ f \in File \cup {None}
  BY DEF Places, FolderTypes, Snap, Row
<1>3. PICK t : t = [task[o] EXCEPT !.pc = "judge", !.found = f]
  OBVIOUS
<1>4. t \in Tasks /\ t.pc = "judge" /\ t.arg = task[o].arg /\ t.snap = task[o].snap /\ t.found = f
  BY <1>2, <1>3 DEF Tasks, TaskTypes
<1>5. task' = [task EXCEPT ![o] = t]
  BY <1>1, <1>3
<1>6. TaskTypes' /\ Others(o) /\ task'[o] = t
  BY <1>4, <1>5, Becoming
<1> QED
  BY <1>4, <1>6

LEMMA RemoveEffects ==
  ASSUME TaskTypes, NEW o \in Ops
  PROVE  /\ RemoveLock(o) => Plain(o, {"look"})
         /\ RemoveForget(o) => Plain(o, {})
         /\ RemoveMove(o) => Plain(o, {"delete"})
         /\ RemoveDelete(o) => Plain(o, {})
         /\ RemoveCut(o) => Plain(o, {})
<1>p. {"look", "delete"} \subseteq Places
  BY DEF Places
<1>m. ASSUME NEW few, NEW more, Plain(o, few), few \subseteq more PROVE Plain(o, more)
  BY <1>m, PlainMore
<1>l. op[o].kind = "remove" /\ op' = op => Leaves(o)
  BY DEF Leaves
<1>1. ASSUME RemoveLock(o) PROVE Plain(o, {"look"})
  <2>1. Plain(o, {}) \/ Plain(o, {"look"})
    BY <1>1, <1>l, <1>p, PlainSteps DEF RemoveLock, At, tables
  <2> QED
    BY <2>1, <1>m
<1>2. ASSUME RemoveMove(o) PROVE Plain(o, {"delete"})
  <2>1. Plain(o, {}) \/ Plain(o, {"delete"})
    BY <1>2, <1>l, <1>p, PlainSteps DEF RemoveMove, Release, At, tables
  <2> QED
    BY <2>1, <1>m
<1>3. ASSUME RemoveForget(o) \/ RemoveDelete(o) \/ RemoveCut(o) PROVE Plain(o, {})
  <2>1. Quit(o) /\ op[o].kind = "remove" /\ op' = op
    BY <1>3 DEF RemoveForget, RemoveDelete, RemoveCut, Release, At, tables
  <2> QED
    BY <2>1, <1>l, PlainSteps
<1> QED
  BY <1>1, <1>2, <1>3

LEMMA LookEffect ==
  ASSUME TaskTypes, TableTypes, NEW o \in Ops, task[o].arg \in Ids, RemoveLook(o)
  PROVE  /\ TaskTypes' /\ Others(o)
         /\ \/ task'[o] = Idle /\ task'[o].pc = "idle" /\ Release(o)
            \/ /\ row[task[o].arg] # None /\ task'[o].arg = task[o].arg
               /\ task'[o].snap = [id |-> task[o].arg, rec |-> row[task[o].arg]]
               /\ task'[o].pc \in {"move", "forget"}
               /\ task'[o].pc = "move" => row[task[o].arg].source # "user_folder"
               /\ UNCHANGED world
<1>1. CASE Release(o)
  BY <1>1, Quits DEF Release
<1>2. CASE ~Release(o)
  <2>0. PICK place : place = IF Managed(row[task[o].arg]) THEN "move" ELSE "forget"
    OBVIOUS
  <2>1. PICK r : r = [id |-> task[o].arg, rec |-> row[task[o].arg]]
    OBVIOUS
  <2>2. /\ row[task[o].arg] # None /\ UNCHANGED world
        /\ task' = [task EXCEPT ![o].snap = r, ![o].pc = place]
    BY <1>2, <2>0, <2>1 DEF RemoveLook, Arg
  <2>3. r \in Snap
    BY <2>1, <2>2 DEF Snap, TableTypes
  <2>4. place \in Places
    BY <2>0 DEF Places
  <2>5. PICK t : t = [task[o] EXCEPT !.snap = r, !.pc = place]
    OBVIOUS
  <2>6. t \in Tasks /\ t.pc = place /\ t.arg = task[o].arg /\ t.snap = r
    BY <2>3, <2>4, <2>5 DEF Tasks, TaskTypes
  <2>7. task' = [task EXCEPT ![o] = t]
    BY <2>2, <2>5
  <2>8. TaskTypes' /\ Others(o) /\ task'[o] = t
    BY <2>6, <2>7, Becoming
  <2> QED
    BY <2>0, <2>1, <2>2, <2>6, <2>8 DEF Managed
<1> QED
  BY <1>1, <1>2

LEMMA RefreshEffects ==
  ASSUME TaskTypes, NEW o \in Ops
  PROVE  /\ RefreshMatch(o) => Plain(o, {"scan", "register"})
         /\ RefreshEnd(o) => Plain(o, {})
         /\ RefreshBegin(o) => Plain(o, {"folder"})
<1>p. {"folder", "scan", "register"} \subseteq Places
  BY DEF Places
<1>m. ASSUME NEW few, NEW more, Plain(o, few), few \subseteq more PROVE Plain(o, more)
  BY <1>m, PlainMore
<1>b. ASSUME RefreshBegin(o) PROVE Plain(o, {"folder"})
  BY <1>b, <1>p, PlainSteps DEF RefreshBegin, Stays
<1>1. ASSUME RefreshMatch(o) PROVE Plain(o, {"scan", "register"})
  <2>1. (Goto(o, "scan") \/ Goto(o, "register")) /\ op' = op
    BY <1>1 DEF RefreshMatch, Goto, tables
  <2>2. Plain(o, {"scan"}) \/ Plain(o, {"register"})
    BY <2>1, <1>p, PlainSteps
  <2> QED
    BY <2>2, <1>m
<1>2. ASSUME RefreshEnd(o) PROVE Plain(o, {})
  BY <1>2, PlainSteps DEF RefreshEnd
<1> QED
  BY <1>b, <1>1, <1>2

LEMMA FolderEffect ==
  ASSUME TaskTypes, TableTypes, NEW o \in Ops, RefreshFolder(o)
  PROVE  /\ TaskTypes' /\ Others(o)
         /\ \/ task'[o] = Idle /\ task'[o].pc = "idle" /\ Leaves(o)
            \/ /\ task'[o].pc = "rows" /\ task'[o].todo = UserRows /\ UserRows \subseteq Snap
               /\ Stays(o)
<1>1. CASE Finish(o, "failed") \/ Finish(o, "completed")
  BY <1>1, Quits DEF Finish, Leaves
<1>2. CASE ~(Finish(o, "failed") \/ Finish(o, "completed"))
  <2>1. task' = [task EXCEPT ![o].pc = "rows", ![o].todo = UserRows] /\ Stays(o)
    BY <1>2 DEF RefreshFolder, Stays
  <2>2. "rows" \in Places /\ UserRows \subseteq Snap
    BY DEF Places, UserRows, Snap, TableTypes
  <2>3. PICK t : t = [task[o] EXCEPT !.pc = "rows", !.todo = UserRows]
    OBVIOUS
  <2>4. t \in Tasks /\ t.pc = "rows" /\ t.todo = UserRows
    BY <2>2, <2>3 DEF Tasks, TaskTypes
  <2>5. task' = [task EXCEPT ![o] = t]
    BY <2>1, <2>3
  <2>6. TaskTypes' /\ Others(o) /\ task'[o] = t
    BY <2>4, <2>5, Becoming
  <2> QED
    BY <2>1, <2>2, <2>4, <2>6
<1> QED
  BY <1>1, <1>2

LEMMA RowEffect ==
  ASSUME TaskTypes, FolderTypes, NEW o \in Ops, task[o].todo \subseteq Snap, RefreshRow(o)
  PROVE  /\ TaskTypes' /\ Others(o)
         /\ \E r \in task[o].todo :
              /\ task'[o].todo = task[o].todo \ {r}
              /\ \/ /\ file[r.rec.path] = None /\ row' = [row EXCEPT ![r.id] = None]
                    /\ task'[o].pc = "rows"
                 \/ row' = Flagged(r.id) /\ task'[o].pc = "rows"
                 \/ file[r.rec.path] = Recorded(r.rec) /\ row' = row /\ task'[o].pc = "rows"
                 \/ /\ file[r.rec.path] # None /\ row' = row /\ task'[o].pc = "rehash"
                    /\ task'[o].snap = r /\ task'[o].found = file[r.rec.path]
<1>1. task[o] \in Tasks /\ task[o].pc = "rows"
  BY DEF TaskTypes, RefreshRow, At
<1>2. PICK r \in task[o].todo :
        LET p    == r.rec.path
            rest == [task EXCEPT ![o].todo = @ \ {r}]
        IN \/ /\ file[p] = None
              /\ row' = [row EXCEPT ![r.id] = None] /\ task' = rest
           \/ /\ file[p] # None
              /\ row' = Flagged(r.id)
              /\ task' = [rest EXCEPT ![o].seen = @ \cup {p}, ![o].listed = @ \cup {p}]
           \/ /\ file[p] = Recorded(r.rec) /\ ~r.rec.flag
              /\ task' = [rest EXCEPT ![o].seen = @ \cup {p}] /\ UNCHANGED row
           \/ /\ file[p] # None /\ (file[p] # Recorded(r.rec) \/ r.rec.flag)
              /\ task' = [rest EXCEPT ![o].pc = "rehash", ![o].snap = r,
                                      ![o].found = file[p]]
              /\ UNCHANGED row
  BY DEF RefreshRow
<1> DEFINE p == r.rec.path
<1>3. r \in Snap /\ p \in Paths /\ "rehash" \in Places
  BY DEF Snap, Row, Places
<1>4. PICK s : s = [task[o] EXCEPT !.todo = task[o].todo \ {r}]
  OBVIOUS
<1>5. s \in Tasks /\ s.pc = "rows" /\ s.todo = task[o].todo \ {r}
  BY <1>1, <1>4 DEF Tasks
<1>6. PICK rest : rest = [task EXCEPT ![o].todo = @ \ {r}]
  OBVIOUS
<1>7. rest = [task EXCEPT ![o] = s] /\ rest[o] = s
  BY <1>4, <1>6 DEF TaskTypes
<1>8. ASSUME NEW t \in Tasks, task' = [rest EXCEPT ![o] = t]
      PROVE  TaskTypes' /\ Others(o) /\ task'[o] = t
  <2>1. task' = [task EXCEPT ![o] = t]
    BY <1>7, <1>8 DEF TaskTypes
  <2> QED
    BY <2>1, Becoming
<1>9. CASE file[p] = None /\ row' = [row EXCEPT ![r.id] = None] /\ task' = rest
  <2>1. TaskTypes' /\ Others(o) /\ task'[o] = s
    BY <1>9, <1>5, <1>7, Becoming
  <2> QED
    BY <2>1, <1>5, <1>9
<1>10. CASE row' = Flagged(r.id) /\ task' = [rest EXCEPT ![o].seen = @ \cup {p}, ![o].listed = @ \cup {p}]
  <2>1. PICK t : t = [s EXCEPT !.seen = s.seen \cup {p}, !.listed = s.listed \cup {p}]
    OBVIOUS
  <2>2. t \in Tasks /\ t.pc = s.pc /\ t.todo = s.todo
    BY <2>1, <1>3, <1>5 DEF Tasks
  <2>3. task' = [rest EXCEPT ![o] = t]
    BY <2>1, <1>7, <1>10
  <2>4. TaskTypes' /\ Others(o) /\ task'[o] = t
    BY <2>2, <2>3, <1>8
  <2> QED
    BY <2>2, <2>4, <1>5, <1>10
<1>11. CASE file[p] = Recorded(r.rec) /\ task' = [rest EXCEPT ![o].seen = @ \cup {p}] /\ UNCHANGED row
  <2>1. PICK t : t = [s EXCEPT !.seen = s.seen \cup {p}]
    OBVIOUS
  <2>2. t \in Tasks /\ t.pc = s.pc /\ t.todo = s.todo
    BY <2>1, <1>3, <1>5 DEF Tasks
  <2>3. task' = [rest EXCEPT ![o] = t]
    BY <2>1, <1>7, <1>11
  <2>4. TaskTypes' /\ Others(o) /\ task'[o] = t
    BY <2>2, <2>3, <1>8
  <2> QED
    BY <2>2, <2>4, <1>5, <1>11
<1>12. CASE /\ file[p] # None /\ UNCHANGED row
            /\ task' = [rest EXCEPT ![o].pc = "rehash", ![o].snap = r, ![o].found = file[p]]
  <2>1. PICK t : t = [s EXCEPT !.pc = "rehash", !.snap = r, !.found = file[p]]
    OBVIOUS
  <2>2. file[p] \in File \cup {None}
    BY <1>3 DEF FolderTypes
  <2>3. t \in Tasks /\ t.pc = "rehash" /\ t.todo = s.todo /\ t.snap = r /\ t.found = file[p]
    BY <2>1, <2>2, <1>3, <1>5 DEF Tasks
  <2>4. task' = [rest EXCEPT ![o] = t]
    BY <2>1, <1>7, <1>12
  <2>5. TaskTypes' /\ Others(o) /\ task'[o] = t
    BY <2>3, <2>4, <1>8
  <2> QED
    BY <2>3, <2>5, <1>5, <1>12
<1> QED
  BY <1>2, <1>6, <1>9, <1>10, <1>11, <1>12

LEMMA SettledEffect ==
  ASSUME TaskTypes, NEW o \in Ops, NEW p \in Paths, NEW bad \in SUBSET Paths, Settled(o, p, bad)
  PROVE  /\ TaskTypes' /\ Others(o)
         /\ task'[o].pc = "rows" /\ task'[o].todo = task[o].todo
<1>1. "rows" \in Places
  BY DEF Places
<1>2. PICK t : t = [task[o] EXCEPT !.pc = "rows", !.seen = task[o].seen \cup {p},
                      !.listed = task[o].listed \cup bad, !.snap = None, !.found = None]
  OBVIOUS
<1>3. t \in Tasks /\ t.pc = "rows" /\ t.todo = task[o].todo
  BY <1>1, <1>2 DEF Tasks, TaskTypes
<1>4. task' = [task EXCEPT ![o] = t]
  BY <1>2 DEF Settled
<1>5. TaskTypes' /\ Others(o) /\ task'[o] = t
  BY <1>3, <1>4, Becoming
<1> QED
  BY <1>3, <1>5

LEMMA RehashEffect ==
  ASSUME TaskTypes, FolderTypes, NEW o \in Ops, task[o].snap \in Snap, task[o].found \in File,
         RefreshRehash(o)
  PROVE  /\ TaskTypes' /\ Others(o) /\ task'[o].todo = task[o].todo
         /\ \/ row' = Flagged(task[o].snap.id) /\ task'[o].pc = "rows"
            \/ /\ file[task[o].snap.rec.path] # None
               /\ task'[o].pc = "store" /\ task'[o].snap = task[o].snap
               /\ task'[o].found \in File
               /\ task'[o].found.data = file[task[o].snap.rec.path].data
               /\ task'[o].found.stamp = task[o].found.stamp
               /\ row' = row
<1> DEFINE p == task[o].snap.rec.path
<1>1. p \in Paths
  BY DEF Snap, Row
<1>2. CASE row' = Flagged(task[o].snap.id) /\ Settled(o, p, {p})
  BY <1>1, <1>2, SettledEffect
<1>3. CASE /\ file[p] # None /\ UNCHANGED row
           /\ task' = [task EXCEPT ![o].pc = "store", ![o].found.data = file[p].data]
  <2>1. PICK f : f = [task[o].found EXCEPT !.data = file[p].data]
    OBVIOUS
  <2>2. file[p] \in File
    BY <1>1, <1>3 DEF FolderTypes
  <2>3. f \in File /\ f.data = file[p].data /\ f.stamp = task[o].found.stamp
    BY <2>1, <2>2 DEF File
  <2>4. "store" \in Places
    BY DEF Places
  <2>5. PICK t : t = [task[o] EXCEPT !.pc = "store", !.found = f]
    OBVIOUS
  <2>6. t \in Tasks /\ t.pc = "store" /\ t.todo = task[o].todo /\ t.snap = task[o].snap /\ t.found = f
    BY <2>3, <2>4, <2>5 DEF Tasks, TaskTypes
  <2>7. task' = [task EXCEPT ![o] = t]
    BY <2>1, <2>5, <1>3
  <2>8. TaskTypes' /\ Others(o) /\ task'[o] = t
    BY <2>6, <2>7, Becoming
  <2> QED
    BY <2>3, <2>6, <2>8, <1>3
<1> QED
  BY <1>2, <1>3 DEF RefreshRehash

LEMMA StoreEffect ==
  ASSUME TaskTypes, NEW o \in Ops, task[o].snap \in Snap, RefreshStore(o)
  PROVE  /\ TaskTypes' /\ Others(o) /\ task'[o].todo = task[o].todo
         /\ \/ task'[o].pc = "rows"
            \/ /\ task'[o].pc = "unregister" /\ task'[o].snap = task[o].snap
               /\ task[o].found.data \in Customs /\ task[o].found.data # task[o].snap.id
<1> DEFINE p == task[o].snap.rec.path
<1>1. p \in Paths /\ "unregister" \in Places
  BY DEF Snap, Row, Places
<1>2. CASE Settled(o, p, {})
  BY <1>1, <1>2, SettledEffect
<1>3. CASE /\ Goto(o, "unregister")
           /\ task[o].found.data \in Customs /\ task[o].found.data # task[o].snap.id
  BY <1>1, <1>3, Goes DEF Kept
<1> QED
  BY <1>2, <1>3 DEF RefreshStore

LEMMA UnregisterEffect ==
  ASSUME TaskTypes, NEW o \in Ops, task[o].snap \in Snap, RefreshUnregister(o)
  PROVE  TaskTypes' /\ Others(o) /\ task'[o].todo = task[o].todo /\ task'[o].pc = "rows"
<1>1. task[o].snap.rec.path \in Paths
  BY DEF Snap, Row
<1> QED
  BY <1>1, SettledEffect DEF RefreshUnregister

LEMMA CollectEffect ==
  ASSUME TaskTypes, NEW o \in Ops, RefreshCollect(o)
  PROVE  /\ TaskTypes' /\ Others(o) /\ task'[o].pc = "scan"
         /\ task'[o].todo = {p \in Paths : file[p] # None /\ p \notin task[o].seen}
         /\ task'[o].seen = task[o].seen /\ task'[o].listed = task[o].listed
<1>1. PICK left : left = {p \in Paths : file[p] # None /\ p \notin task[o].seen}
  OBVIOUS
<1>2. left \subseteq Paths /\ "scan" \in Places
  BY <1>1 DEF Places
<1>3. PICK t : t = [task[o] EXCEPT !.pc = "scan", !.todo = left]
  OBVIOUS
<1>4. t \in Tasks /\ t.pc = "scan" /\ t.todo = left /\ t.seen = task[o].seen /\ t.listed = task[o].listed
  BY <1>2, <1>3 DEF Tasks, TaskTypes
<1>5. task' = [task EXCEPT ![o] = t]
  BY <1>1, <1>3 DEF RefreshCollect
<1>6. TaskTypes' /\ Others(o) /\ task'[o] = t
  BY <1>4, <1>5, Becoming
<1> QED
  BY <1>1, <1>4, <1>6

LEMMA ScanEffect ==
  ASSUME TaskTypes, FolderTypes, NEW o \in Ops, task[o].todo \subseteq Paths, RefreshHash(o)
  PROVE  /\ TaskTypes' /\ Others(o) /\ task'[o].seen = task[o].seen
         /\ task[o].listed \subseteq task'[o].listed
         /\ \E p \in task[o].todo :
              /\ task'[o].todo = task[o].todo \ {p}
              /\ \/ task'[o].pc = "scan" /\ file[p] # None /\ file[p].data = Junk
                 \/ task'[o].pc = "scan" /\ p \in task'[o].listed
                 \/ /\ file[p] # None /\ file[p].data # Junk
                    /\ task'[o].arg = p /\ task'[o].found = file[p]
                    /\ task'[o].pc = IF file[p].data \in Models THEN "match" ELSE "register"
<1>1. task[o] \in Tasks /\ task[o].pc = "scan"
  BY DEF TaskTypes, RefreshHash, At
<1>2. PICK p \in task[o].todo :
        LET rest == [task EXCEPT ![o].todo = @ \ {p}]
        IN \/ file[p] # None /\ file[p].data = Junk /\ task' = rest
           \/ task' = [rest EXCEPT ![o].listed = @ \cup {p}]
           \/ /\ file[p] # None /\ file[p].data # Junk
              /\ task' = [rest EXCEPT ![o].arg = p, ![o].found = file[p],
                           ![o].pc = IF file[p].data \in Models THEN "match" ELSE "register"]
  BY DEF RefreshHash
<1>3. p \in Paths /\ file[p] \in File \cup {None}
  BY DEF FolderTypes
<1>4. PICK s : s = [task[o] EXCEPT !.todo = task[o].todo \ {p}]
  OBVIOUS
<1>5. /\ s \in Tasks /\ s.pc = "scan" /\ s.todo = task[o].todo \ {p}
      /\ s.seen = task[o].seen /\ s.listed = task[o].listed
  BY <1>1, <1>4 DEF Tasks
<1>6. PICK rest : rest = [task EXCEPT ![o].todo = @ \ {p}]
  OBVIOUS
<1>7. rest = [task EXCEPT ![o] = s] /\ rest[o] = s
  BY <1>4, <1>6 DEF TaskTypes
<1>8. ASSUME NEW t \in Tasks, task' = [rest EXCEPT ![o] = t]
      PROVE  TaskTypes' /\ Others(o) /\ task'[o] = t
  <2>1. task' = [task EXCEPT ![o] = t]
    BY <1>7, <1>8 DEF TaskTypes
  <2> QED
    BY <2>1, Becoming
<1>9. CASE file[p] # None /\ file[p].data = Junk /\ task' = rest
  <2>1. TaskTypes' /\ Others(o) /\ task'[o] = s
    BY <1>9, <1>5, <1>7, Becoming
  <2> QED
    BY <2>1, <1>5, <1>9
<1>10. CASE task' = [rest EXCEPT ![o].listed = @ \cup {p}]
  <2>1. PICK t : t = [s EXCEPT !.listed = s.listed \cup {p}]
    OBVIOUS
  <2>2. t \in Tasks /\ t.pc = s.pc /\ t.todo = s.todo /\ t.seen = s.seen /\ t.listed = s.listed \cup {p}
    BY <2>1, <1>3, <1>5 DEF Tasks
  <2>3. task' = [rest EXCEPT ![o] = t]
    BY <2>1, <1>7, <1>10
  <2>4. TaskTypes' /\ Others(o) /\ task'[o] = t
    BY <2>2, <2>3, <1>8
  <2> QED
    BY <2>2, <2>4, <1>5
<1>11. ASSUME NEW place \in {"match", "register"}, file[p] # None, file[p].data # Junk,
              place = IF file[p].data \in Models THEN "match" ELSE "register",
              task' = [rest EXCEPT ![o].arg = p, ![o].found = file[p], ![o].pc = place]
       PROVE  /\ TaskTypes' /\ Others(o) /\ task'[o].seen = task[o].seen
              /\ task[o].listed \subseteq task'[o].listed
              /\ task'[o].todo = task[o].todo \ {p}
              /\ task'[o].arg = p /\ task'[o].found = file[p] /\ task'[o].pc = place
  <2>1. PICK t : t = [s EXCEPT !.arg = p, !.found = file[p], !.pc = place]
    OBVIOUS
  <2>2. place \in Places
    BY DEF Places
  <2>3. /\ t \in Tasks /\ t.pc = place /\ t.todo = s.todo /\ t.seen = s.seen /\ t.listed = s.listed
        /\ t.arg = p /\ t.found = file[p]
    BY <2>1, <2>2, <1>3, <1>5 DEF Tasks
  <2>4. task' = [rest EXCEPT ![o] = t]
    BY <2>1, <1>7, <1>11
  <2>5. TaskTypes' /\ Others(o) /\ task'[o] = t
    BY <2>3, <2>4, <1>8
  <2> QED
    BY <2>3, <2>5, <1>5
<1>12. CASE /\ file[p] # None /\ file[p].data # Junk
            /\ task' = [rest EXCEPT ![o].arg = p, ![o].found = file[p],
                         ![o].pc = IF file[p].data \in Models THEN "match" ELSE "register"]
  <2>1. PICK place : place = IF file[p].data \in Models THEN "match" ELSE "register"
    OBVIOUS
  <2>2. place \in {"match", "register"}
    BY <2>1
  <2> QED
    BY <2>1, <2>2, <1>11, <1>12
<1> QED
  BY <1>2, <1>6, <1>9, <1>10, <1>12

LEMMA RegisterEffect ==
  ASSUME TaskTypes, NEW o \in Ops, RefreshRegister(o)
  PROVE  /\ TaskTypes' /\ Others(o) /\ task'[o].pc = "scan"
         /\ task'[o].todo = task[o].todo /\ task'[o].seen = task[o].seen
         /\ task'[o].listed = task[o].listed
<1>1. "scan" \in Places
  BY DEF Places
<1>2. PICK t : t = [task[o] EXCEPT !.pc = "scan", !.arg = None, !.found = None]
  OBVIOUS
<1>3. /\ t \in Tasks /\ t.pc = "scan" /\ t.todo = task[o].todo
      /\ t.seen = task[o].seen /\ t.listed = task[o].listed
  BY <1>1, <1>2 DEF Tasks, TaskTypes
<1>4. task' = [task EXCEPT ![o] = t]
  BY <1>2 DEF RefreshRegister
<1>5. TaskTypes' /\ Others(o) /\ task'[o] = t
  BY <1>3, <1>4, Becoming
<1> QED
  BY <1>3, <1>5

(* What the calls put in the hand of their task.                           *)
LEMMA CallEffects ==
  ASSUME TaskTypes, TableTypes, NEW o \in Ops
  PROVE  /\ \A i \in Ids, kind \in Kinds, place \in Places :
              Call(o, kind, i, place) =>
                TaskTypes' /\ Others(o) /\ task'[o].pc = place /\ task'[o].arg = i
         /\ \A i \in Ids : VerifyCall(o, i) =>
              /\ TaskTypes' /\ Others(o) /\ task'[o].pc = "insert" /\ task'[o].arg = i
              /\ task'[o].snap = [id |-> i, rec |-> row[i]] /\ task'[o].found = None
              /\ task'[o].snap \in Snap
         /\ ImportUserCall(o) =>
              /\ TaskTypes' /\ Others(o) /\ task'[o].pc = "begin"
              /\ task'[o].todo \subseteq Models \cup {Junk}
         /\ RefreshCall(o) => TaskTypes' /\ Others(o) /\ task'[o].pc = "begin"
<1>i. Idle \in Tasks
  BY IdleIs
<1>p. {"insert", "begin"} \subseteq Places
  BY DEF Places
<1>1. ASSUME NEW i \in Ids, NEW kind \in Kinds, NEW place \in Places, Call(o, kind, i, place)
      PROVE  TaskTypes' /\ Others(o) /\ task'[o].pc = place /\ task'[o].arg = i
  <2>1. PICK t : t = [Idle EXCEPT !.pc = place, !.arg = i]
    OBVIOUS
  <2>2. t \in Tasks /\ t.pc = place /\ t.arg = i
    BY <2>1, <1>i DEF Tasks
  <2>3. task' = [task EXCEPT ![o] = t]
    BY <2>1, <1>1 DEF Call
  <2> QED
    BY <2>2, <2>3, Becoming
<1>2. ASSUME NEW i \in Ids, VerifyCall(o, i)
      PROVE  /\ TaskTypes' /\ Others(o) /\ task'[o].pc = "insert" /\ task'[o].arg = i
             /\ task'[o].snap = [id |-> i, rec |-> row[i]] /\ task'[o].found = None
             /\ task'[o].snap \in Snap
  <2>1. PICK r : r = [id |-> i, rec |-> row[i]]
    OBVIOUS
  <2>2. r \in Snap
    BY <2>1, <1>2 DEF VerifyCall, TableTypes, Snap
  <2>3. PICK t : t = [Idle EXCEPT !.pc = "insert", !.arg = i, !.snap = r]
    OBVIOUS
  <2>4. t \in Tasks /\ t.pc = "insert" /\ t.arg = i /\ t.snap = r
    BY <2>2, <2>3, <1>i, <1>p DEF Tasks
  <2>5. t.found = None
    BY <2>3 DEF Idle
  <2>6. task' = [task EXCEPT ![o] = t]
    BY <2>1, <2>3, <1>2 DEF VerifyCall
  <2> QED
    BY <2>1, <2>2, <2>4, <2>5, <2>6, Becoming
<1>3. ASSUME ImportUserCall(o)
      PROVE  /\ TaskTypes' /\ Others(o) /\ task'[o].pc = "begin"
             /\ task'[o].todo \subseteq Models \cup {Junk}
  <2>1. PICK found \in SUBSET (Models \cup {Junk}) :
          task' = [task EXCEPT ![o] = [Idle EXCEPT !.pc = "begin", !.todo = found]]
    BY <1>3 DEF ImportUserCall
  <2>2. PICK t : t = [Idle EXCEPT !.pc = "begin", !.todo = found]
    OBVIOUS
  <2>3. t \in Tasks /\ t.pc = "begin" /\ t.todo = found
    BY <2>2, <1>i, <1>p DEF Tasks
  <2>4. task' = [task EXCEPT ![o] = t]
    BY <2>1, <2>2
  <2> QED
    BY <2>3, <2>4, Becoming
<1>4. ASSUME RefreshCall(o) PROVE TaskTypes' /\ Others(o) /\ task'[o].pc = "begin"
  <2>1. PICK t : t = [Idle EXCEPT !.pc = "begin"]
    OBVIOUS
  <2>2. t \in Tasks /\ t.pc = "begin"
    BY <2>1, <1>i, <1>p DEF Tasks
  <2>3. task' = [task EXCEPT ![o] = t]
    BY <2>1, <1>4 DEF RefreshCall
  <2> QED
    BY <2>2, <2>3, Becoming
<1> QED
  BY <1>1, <1>2, <1>3, <1>4

-----------------------------------------------------------------------------
(* The same, for tasks that have in hand what their place says.            *)
LEMMA DownloadSteps ==
  ASSUME StoreTypes, NEW o \in Ops
  PROVE  /\ Insert(o) => Plain(o, {"begin"})
         /\ DownloadBegin(o) => Plain(o, {"fetch"})
         /\ Fetch(o) => Plain(o, {"hash", "request"})
         /\ AnswerFails(o) => Plain(o, {"fetch"})
         /\ AnswerWhole(o) => Plain(o, {"stream"})
         /\ AnswerRange(o) => Plain(o, {"stream"})
         /\ AnswerPastEnd(o) => Plain(o, {"fetch"})
         /\ ChunkArrives(o) => Plain(o, {"fetch", "stream"})
         /\ StreamBreaks(o) => Plain(o, {"fetch"})
         /\ StreamEnds(o) => Plain(o, {"hash", "fetch"})
         /\ HashPart(o) => Plain(o, {"promote"})
         /\ PromotePart(o) => Plain(o, {})
<1>1. TaskTypes /\ FolderTypes
  BY DEF StoreTypes
<1>2. op[o].kind = "install" /\ task[o].pc # "idle" => task[o].arg \in Models
  BY DEF StoreTypes, ArgsFit, ArgFits, Supplies
<1>3. DownloadStep(o) => op[o].kind = "install" /\ task[o].pc # "idle"
  BY DEF DownloadStep, DownloadBegin, Fetch, AnswerFails, AnswerWhole, AnswerRange, AnswerPastEnd,
     ChunkArrives, StreamBreaks, StreamEnds, HashPart, PromotePart, At
<1>4. CASE DownloadStep(o)
  BY <1>1, <1>2, <1>3, <1>4, DownloadEffects, PlainSteps
<1>5. CASE ~DownloadStep(o)
  BY <1>1, <1>5, PlainSteps DEF DownloadStep
<1> QED
  BY <1>4, <1>5

LEMMA UploadSteps ==
  ASSUME StoreTypes, NEW o \in Ops
  PROVE  /\ ImportBegin(o) => Plain(o, {"receive"})
         /\ ImportReceived(o) => Plain(o, {"promote"})
         /\ ImportCut(o) => Plain(o, {})
         /\ ImportPromote(o) => Plain(o, {})
  BY UploadEffects DEF StoreTypes

LEMMA ImportUserSteps ==
  ASSUME StoreTypes, NEW o \in Ops
  PROVE  /\ ImportUserBegin(o) => Plain(o, {"next"})
         /\ ImportUserCopy(o) => Plain(o, {"sub", "next"})
         /\ ImportUserSub(o) => Plain(o, {"promote"})
         /\ ImportUserPromote(o) => Plain(o, {"drop"})
         /\ ImportUserDropSub(o) => Plain(o, {"next"})
         /\ ImportUserEnd(o) => Plain(o, {})
         /\ ImportUserNext(o) =>
              /\ TaskTypes' /\ Others(o)
              /\ \/ task'[o] = Idle /\ task'[o].pc = "idle" /\ Leaves(o)
                 \/ /\ Stays(o) /\ task'[o].pc \in {"copy", "next"} /\ task'[o].todo \subseteq task[o].todo
                    /\ task'[o].pc = "copy" => task'[o].arg \in Models /\ row[task'[o].arg] = None
<1>1. TaskTypes
  BY DEF StoreTypes
<1>2. ImportUserNext(o) => task[o].todo \subseteq Models \cup {Junk}
  BY DEF StoreTypes, ArgsFit, ArgFits, ImportUserNext, At
<1> QED
  BY <1>1, <1>2, ImportUserEffects, NextEffect

LEMMA VerifySteps ==
  ASSUME StoreTypes, NEW o \in Ops
  PROVE  /\ VerifyBegin(o) => Plain(o, {"hash"})
         /\ VerifyJudge(o) => Plain(o, {"saved", "wait"})
         /\ VerifySaved(o) => Plain(o, {})
         /\ VerifyCondemn(o) => Plain(o, {})
         /\ VerifyHash(o) =>
              /\ TaskTypes' /\ Others(o) /\ task'[o].pc = "judge"
              /\ task'[o].arg = task[o].arg /\ task'[o].snap = task[o].snap
              /\ task'[o].found \in {file[task[o].snap.rec.path], None}
<1>1. TaskTypes /\ FolderTypes
  BY DEF StoreTypes
<1>2. VerifyHash(o) => task[o].snap \in Snap
  BY DEF StoreTypes, RowsFit, SnapFits, VerifyHash, At
<1> QED
  BY <1>1, <1>2, VerifyEffects, HashEffect

LEMMA RemoveSteps ==
  ASSUME StoreTypes, NEW o \in Ops
  PROVE  /\ RemoveLock(o) => Plain(o, {"look"})
         /\ RemoveForget(o) => Plain(o, {})
         /\ RemoveMove(o) => Plain(o, {"delete"})
         /\ RemoveDelete(o) => Plain(o, {})
         /\ RemoveCut(o) => Plain(o, {})
         /\ RemoveLook(o) =>
              /\ TaskTypes' /\ Others(o)
              /\ \/ task'[o] = Idle /\ task'[o].pc = "idle" /\ Release(o)
                 \/ /\ row[task[o].arg] # None /\ task'[o].arg = task[o].arg
                    /\ task'[o].snap = [id |-> task[o].arg, rec |-> row[task[o].arg]]
                    /\ task'[o].pc \in {"move", "forget"}
                    /\ task'[o].pc = "move" => row[task[o].arg].source # "user_folder"
                    /\ UNCHANGED world
<1>1. TaskTypes /\ TableTypes
  BY DEF StoreTypes
<1>2. RemoveLook(o) => task[o].arg \in Ids
  BY DEF StoreTypes, ArgsFit, ArgFits, RemoveLook, At
<1> QED
  BY <1>1, <1>2, RemoveEffects, LookEffect

LEMMA RefreshSteps ==
  ASSUME StoreTypes, NEW o \in Ops
  PROVE  /\ RefreshMatch(o) => Plain(o, {"scan", "register"})
         /\ RefreshEnd(o) => Plain(o, {})
         /\ RefreshBegin(o) => Plain(o, {"folder"})
         /\ RefreshFolder(o) =>
              /\ TaskTypes' /\ Others(o)
              /\ \/ task'[o] = Idle /\ task'[o].pc = "idle" /\ Leaves(o)
                 \/ /\ task'[o].pc = "rows" /\ task'[o].todo = UserRows /\ UserRows \subseteq Snap
                    /\ Stays(o)
         /\ RefreshStore(o) =>
              /\ TaskTypes' /\ Others(o) /\ task'[o].todo = task[o].todo
              /\ \/ task'[o].pc = "rows"
                 \/ /\ task'[o].pc = "unregister" /\ task'[o].snap = task[o].snap
                    /\ task[o].found.data \in Customs /\ task[o].found.data # task[o].snap.id
         /\ RefreshUnregister(o) =>
              TaskTypes' /\ Others(o) /\ task'[o].todo = task[o].todo /\ task'[o].pc = "rows"
         /\ RefreshCollect(o) =>
              /\ TaskTypes' /\ Others(o) /\ task'[o].pc = "scan"
              /\ task'[o].todo = {p \in Paths : file[p] # None /\ p \notin task[o].seen}
              /\ task'[o].seen = task[o].seen /\ task'[o].listed = task[o].listed
         /\ RefreshRegister(o) =>
              /\ TaskTypes' /\ Others(o) /\ task'[o].pc = "scan"
              /\ task'[o].todo = task[o].todo /\ task'[o].seen = task[o].seen
              /\ task'[o].listed = task[o].listed
<1>1. TaskTypes /\ FolderTypes /\ TableTypes
  BY DEF StoreTypes
<1>2. RefreshStore(o) \/ RefreshUnregister(o) => task[o].snap \in Snap
  BY DEF StoreTypes, ArgsFit, ArgFits, RefreshStore, RefreshUnregister, At
<1>3. ASSUME RefreshStore(o) \/ RefreshUnregister(o)
      PROVE  /\ RefreshStore(o) =>
                 /\ TaskTypes' /\ Others(o) /\ task'[o].todo = task[o].todo
                 /\ \/ task'[o].pc = "rows"
                    \/ /\ task'[o].pc = "unregister" /\ task'[o].snap = task[o].snap
                       /\ task[o].found.data \in Customs /\ task[o].found.data # task[o].snap.id
             /\ RefreshUnregister(o) =>
                  TaskTypes' /\ Others(o) /\ task'[o].todo = task[o].todo /\ task'[o].pc = "rows"
  BY <1>1, <1>2, <1>3, StoreEffect, UnregisterEffect
<1> QED
  BY <1>1, <1>3, RefreshEffects, FolderEffect, CollectEffect, RegisterEffect

(* The steps of a refresh that take one row or file from what is left.     *)
LEMMA RefreshTakes ==
  ASSUME StoreTypes, NEW o \in Ops
  PROVE  /\ RefreshRow(o) =>
              /\ TaskTypes' /\ Others(o)
              /\ \E r \in task[o].todo :
                   /\ r \in Snap /\ task'[o].todo = task[o].todo \ {r}
                   /\ \/ /\ file[r.rec.path] = None /\ row' = [row EXCEPT ![r.id] = None]
                         /\ task'[o].pc = "rows"
                      \/ row' = Flagged(r.id) /\ task'[o].pc = "rows"
                      \/ /\ file[r.rec.path] = Recorded(r.rec) /\ row' = row
                         /\ task'[o].pc = "rows"
                      \/ /\ file[r.rec.path] # None /\ row' = row /\ task'[o].pc = "rehash"
                         /\ task'[o].snap = r /\ task'[o].found = file[r.rec.path]
         /\ RefreshRehash(o) =>
              /\ TaskTypes' /\ Others(o) /\ task'[o].todo = task[o].todo
              /\ \/ row' = Flagged(task[o].snap.id) /\ task'[o].pc = "rows"
                 \/ /\ file[task[o].snap.rec.path] # None
                    /\ task'[o].pc = "store" /\ task'[o].snap = task[o].snap
                    /\ task'[o].found \in File
                    /\ task'[o].found.data = file[task[o].snap.rec.path].data
                    /\ task'[o].found.stamp = task[o].found.stamp
                    /\ row' = row
         /\ RefreshHash(o) =>
              /\ TaskTypes' /\ Others(o) /\ task'[o].seen = task[o].seen
              /\ task[o].listed \subseteq task'[o].listed
              /\ \E p \in task[o].todo :
                   /\ p \in Paths /\ task'[o].todo = task[o].todo \ {p}
                   /\ \/ task'[o].pc = "scan" /\ file[p] # None /\ file[p].data = Junk
                      \/ task'[o].pc = "scan" /\ p \in task'[o].listed
                      \/ /\ file[p] # None /\ file[p].data # Junk
                         /\ task'[o].arg = p /\ task'[o].found = file[p]
                         /\ task'[o].pc = IF file[p].data \in Models THEN "match" ELSE "register"
<1>1. TaskTypes /\ FolderTypes
  BY DEF StoreTypes
<1>2. ASSUME RefreshRow(o) PROVE task[o].todo \subseteq Snap
  BY <1>2 DEF StoreTypes, ArgsFit, ArgFits, RefreshRow, At
<1>3. ASSUME RefreshRehash(o) PROVE task[o].snap \in Snap /\ task[o].found \in File
  BY <1>3 DEF StoreTypes, ArgsFit, ArgFits, RefreshRehash, At
<1>4. ASSUME RefreshHash(o) PROVE task[o].todo \subseteq Paths
  BY <1>4 DEF StoreTypes, ArgsFit, ArgFits, RefreshHash, At
<1>5. RefreshRow(o) =>
        /\ TaskTypes' /\ Others(o)
        /\ \E r \in task[o].todo :
             /\ r \in Snap /\ task'[o].todo = task[o].todo \ {r}
             /\ \/ /\ file[r.rec.path] = None /\ row' = [row EXCEPT ![r.id] = None]
                   /\ task'[o].pc = "rows"
                \/ row' = Flagged(r.id) /\ task'[o].pc = "rows"
                \/ /\ file[r.rec.path] = Recorded(r.rec) /\ row' = row
                   /\ task'[o].pc = "rows"
                \/ /\ file[r.rec.path] # None /\ row' = row /\ task'[o].pc = "rehash"
                   /\ task'[o].snap = r /\ task'[o].found = file[r.rec.path]
  BY <1>1, <1>2, RowEffect
<1>6. RefreshHash(o) =>
        /\ TaskTypes' /\ Others(o) /\ task'[o].seen = task[o].seen
        /\ task[o].listed \subseteq task'[o].listed
        /\ \E p \in task[o].todo :
             /\ p \in Paths /\ task'[o].todo = task[o].todo \ {p}
             /\ \/ task'[o].pc = "scan" /\ file[p] # None /\ file[p].data = Junk
                \/ task'[o].pc = "scan" /\ p \in task'[o].listed
                \/ /\ file[p] # None /\ file[p].data # Junk
                   /\ task'[o].arg = p /\ task'[o].found = file[p]
                   /\ task'[o].pc = IF file[p].data \in Models THEN "match" ELSE "register"
  BY <1>1, <1>4, ScanEffect
<1> QED
  BY <1>1, <1>3, <1>5, <1>6, RehashEffect

LEMMA CallSteps ==
  ASSUME StoreTypes, NEW o \in Ops
  PROVE  /\ \A m \in Models : InstallCall(o, m) \/ ImportCall(o, m) =>
              TaskTypes' /\ Others(o) /\ task'[o].pc = "insert" /\ task'[o].arg = m
         /\ \A i \in Ids : RemoveCall(o, i) =>
              TaskTypes' /\ Others(o) /\ task'[o].pc = "lock" /\ task'[o].arg = i
         /\ \A i \in Ids : VerifyCall(o, i) =>
              /\ TaskTypes' /\ Others(o) /\ task'[o].pc = "insert" /\ task'[o].arg = i
              /\ task'[o].snap = [id |-> i, rec |-> row[i]] /\ task'[o].found = None
              /\ task'[o].snap \in Snap
         /\ ImportUserCall(o) =>
              /\ TaskTypes' /\ Others(o) /\ task'[o].pc = "begin"
              /\ task'[o].todo \subseteq Models \cup {Junk}
         /\ RefreshCall(o) => TaskTypes' /\ Others(o) /\ task'[o].pc = "begin"
<1>1. TaskTypes /\ TableTypes
  BY DEF StoreTypes
<1>2. /\ {"install", "import", "remove"} \subseteq Kinds /\ {"insert", "lock"} \subseteq Places
      /\ Models \subseteq Ids
  BY DEF Kinds, Places, Ids
<1>3. \A i \in Ids, kind \in Kinds, place \in Places :
        Call(o, kind, i, place) => TaskTypes' /\ Others(o) /\ task'[o].pc = place /\ task'[o].arg = i
  BY <1>1, CallEffects
<1>4. /\ \A m \in Models : InstallCall(o, m) \/ ImportCall(o, m) =>
            TaskTypes' /\ Others(o) /\ task'[o].pc = "insert" /\ task'[o].arg = m
      /\ \A i \in Ids : RemoveCall(o, i) =>
            TaskTypes' /\ Others(o) /\ task'[o].pc = "lock" /\ task'[o].arg = i
  BY <1>2, <1>3 DEF InstallCall, ImportCall, RemoveCall
<1> QED
  BY <1>1, <1>4, CallEffects

(* In short: a task stays in its hands, and ends with its operation.       *)
LEMMA TaskSteps ==
  ASSUME StoreTypes, NEW o \in Ops, TaskStep(o)
  PROVE  /\ TaskTypes' /\ Others(o)
         /\ \/ task'[o] = Idle /\ task'[o].pc = "idle" /\ Leaves(o)
            \/ task'[o].pc \notin {"idle", "insert"} /\ Stays(o)
<1>m. ASSUME NEW places, Plain(o, places), places \cap {"idle", "insert"} = {}
      PROVE  /\ TaskTypes' /\ Others(o)
             /\ \/ task'[o] = Idle /\ task'[o].pc = "idle" /\ Leaves(o)
                \/ task'[o].pc \notin {"idle", "insert"} /\ Stays(o)
  BY <1>m DEF Plain
<1>1. CASE Insert(o) \/ DownloadStep(o)
  BY <1>1, <1>m, DownloadSteps DEF DownloadStep
<1>2. CASE UploadStep(o)
  BY <1>2, <1>m, UploadSteps DEF UploadStep
<1>3. CASE ImportUserStep(o)
  <2>1. CASE ImportUserNext(o)
    BY <2>1, ImportUserSteps
  <2>2. CASE ~ImportUserNext(o)
    BY <1>3, <2>2, <1>m, ImportUserSteps DEF ImportUserStep
  <2> QED
    BY <2>1, <2>2
<1>4. CASE VerifyStep(o)
  <2>1. CASE VerifyHash(o)
    BY <2>1, VerifySteps DEF VerifyHash, Stays, tables
  <2>2. CASE ~VerifyHash(o)
    BY <1>4, <2>2, <1>m, VerifySteps DEF VerifyStep
  <2> QED
    BY <2>1, <2>2
<1>5. CASE RemoveStep(o)
  <2>1. CASE RemoveLook(o)
    BY <2>1, RemoveSteps DEF RemoveLook, Stays, Leaves, At, tables
  <2>2. CASE ~RemoveLook(o)
    BY <1>5, <2>2, <1>m, RemoveSteps DEF RemoveStep
  <2> QED
    BY <2>1, <2>2
<1>6. CASE RefreshStep(o)
  <2>1. CASE RefreshBegin(o) \/ RefreshMatch(o) \/ RefreshEnd(o)
    BY <2>1, <1>m, RefreshSteps
  <2>2. CASE RefreshFolder(o)
    BY <2>2, RefreshSteps
  <2>3. CASE RefreshRow(o) \/ RefreshRehash(o) \/ RefreshHash(o)
    <3>1. op' = op
      BY <2>3 DEF RefreshRow, RefreshRehash, RefreshHash, tables
    <3> QED
      BY <2>3, <3>1, RefreshTakes DEF Stays
  <2>4. CASE RefreshStore(o) \/ RefreshUnregister(o) \/ RefreshCollect(o) \/ RefreshRegister(o)
    <3>1. op' = op
      BY <2>4 DEF RefreshStore, RefreshUnregister, RefreshCollect, RefreshRegister, tables
    <3> QED
      BY <2>4, <3>1, RefreshSteps DEF Stays
  <2> QED
    BY <1>6, <2>1, <2>2, <2>3, <2>4 DEF RefreshStep
<1> QED
  BY <1>1, <1>2, <1>3, <1>4, <1>5, <1>6 DEF TaskStep

LEMMA KeepsTaskTypes ==
  ASSUME StoreTypes, Next
  PROVE  TaskTypes'
<1>1. ASSUME NEW o \in Ops, Calls(o) \/ RefreshCall(o) PROVE TaskTypes'
  BY <1>1, CallSteps DEF Calls
<1>2. ASSUME NEW o \in Ops, RemoveCut(o) PROVE TaskTypes'
  BY <1>2, RemoveSteps DEF Plain
<1>3. ASSUME UNCHANGED task PROVE TaskTypes'
  BY <1>3 DEF StoreTypes, TaskTypes
<1>4. CASE Crash
  BY <1>4, IdleIs DEF Crash, TaskTypes
<1> QED
  BY TaskSteps, <1>1, <1>2, <1>3, <1>4 DEF Next, Cancel, WriteLands, EditFile, Sweep, Reconcile

(* What a step of a task may do to the installed table.                    *)
RowMoves(o) ==
  \/ row' = row
  \/ \E i \in Ids : row' = [row EXCEPT ![i] = None] \/ row' = Flagged(i)
  \/ \E i \in Ids, p \in Paths, d \in Data, s \in Stamps \cup {None} : row' = Upserted(i, p, d, s)
  \/ \E i \in Ids, s \in Stamps :
       /\ At(o, "verify", "judge") /\ task[o].arg = i
       /\ task[o].found # None /\ task[o].found.data = task[o].snap.rec.data
       /\ row[i] # None /\ row' = [row EXCEPT ![i].stamp = s, ![i].flag = FALSE]
  \/ \E m \in Models, source \in {"catalog_download", "import", "import_user"} :
       /\ row[m] = None /\ task[o].arg = m /\ task[o].pc = "promote"
       /\ row' = [row EXCEPT ![m] = [source |-> source, path |-> m, data |-> m,
                                     stamp |-> 0, flag |-> FALSE]]

LEMMA RowSteps ==
  ASSUME StoreTypes, NEW o \in Ops, TaskStep(o)
  PROVE  RowMoves(o)
<1>u. ASSUME row' = row PROVE RowMoves(o)
  BY <1>u DEF RowMoves
<1>1. CASE Insert(o) \/ DownloadStep(o)
  <2>1. CASE PromotePart(o)
    <3>1. task[o].arg \in Models
      BY <2>1 DEF StoreTypes, ArgsFit, ArgFits, Supplies, PromotePart, At
    <3> QED
      BY <2>1, <3>1 DEF PromotePart, Promoted, RowMoves, Arg, At
  <2>2. CASE ~PromotePart(o)
    <3>1. row' = row
      BY <1>1, <2>2 DEF DownloadStep, Insert, DownloadBegin, Fetch, AnswerFails, AnswerWhole,
         AnswerRange, AnswerPastEnd, ChunkArrives, StreamBreaks, StreamEnds, HashPart, tables
    <3> QED
      BY <3>1, <1>u
  <2> QED
    BY <2>1, <2>2
<1>2. CASE UploadStep(o)
  <2>1. CASE ImportPromote(o)
    <3>1. task[o].arg \in Models
      BY <2>1 DEF StoreTypes, ArgsFit, ArgFits, Supplies, ImportPromote, At
    <3> QED
      BY <2>1, <3>1 DEF ImportPromote, Promoted, RowMoves, Arg, At
  <2>2. CASE ~ImportPromote(o)
    <3>1. row' = row
      BY <1>2, <2>2 DEF UploadStep, ImportBegin, ImportReceived, ImportCut, tables
    <3> QED
      BY <3>1, <1>u
  <2> QED
    BY <2>1, <2>2
<1>3. CASE ImportUserStep(o)
  <2>1. CASE ImportUserPromote(o)
    <3>1. task[o].arg \in Models
      BY <2>1 DEF StoreTypes, ArgsFit, ArgFits, ImportUserPromote, At
    <3> QED
      BY <2>1, <3>1 DEF ImportUserPromote, Promoted, RowMoves, Arg, At
  <2>2. CASE ~ImportUserPromote(o)
    <3>1. row' = row
      BY <1>3, <2>2 DEF ImportUserStep, ImportUserBegin, ImportUserNext, ImportUserCopy, ImportUserSub,
         ImportUserDropSub, ImportUserEnd, tables
    <3> QED
      BY <3>1, <1>u
  <2> QED
    BY <2>1, <2>2
<1>4. CASE VerifyStep(o)
  <2>0. op[o].kind = "verify" /\ task[o].pc # "idle"
    BY <1>4 DEF VerifyStep, VerifyBegin, VerifyHash, VerifyJudge, VerifySaved, VerifyCondemn, At
  <2>1. task[o].arg \in Ids /\ task[o].snap \in Snap /\ task[o].snap.id = task[o].arg
    BY <2>0 DEF StoreTypes, ArgsFit, ArgFits, RowsFit, SnapFits
  <2>2. CASE VerifyJudge(o)
    <3>1. row' = row \/ row' = Flagged(task[o].arg)
          \/ /\ At(o, "verify", "judge")
             /\ task[o].found # None /\ task[o].found.data = task[o].snap.rec.data
             /\ row[task[o].arg] # None
             /\ row' = [row EXCEPT ![task[o].arg].stamp = task[o].found.stamp,
                                   ![task[o].arg].flag = FALSE]
      BY <2>2 DEF VerifyJudge
    <3>2. task[o].found \in File \cup {None}
      BY DEF StoreTypes, TaskTypes, Tasks
    <3>3. task[o].found # None => task[o].found.stamp \in Stamps
      BY <3>2 DEF File
    <3> QED
      BY <2>1, <3>1, <3>3 DEF RowMoves
  <2>3. CASE VerifyCondemn(o)
    BY <2>1, <2>3 DEF VerifyCondemn, RowMoves
  <2>4. CASE VerifyBegin(o) \/ VerifyHash(o) \/ VerifySaved(o)
    BY <2>4, <1>u DEF VerifyBegin, VerifyHash, VerifySaved, tables
  <2> QED
    BY <1>4, <2>2, <2>3, <2>4 DEF VerifyStep
<1>5. CASE RemoveStep(o)
  <2>1. CASE RemoveForget(o) \/ RemoveDelete(o)
    <3>1. task[o].arg \in Ids
      BY <2>1 DEF StoreTypes, ArgsFit, ArgFits, RemoveForget, RemoveDelete, At
    <3> QED
      BY <2>1, <3>1 DEF RemoveForget, RemoveDelete, RowMoves, Arg
  <2>2. CASE RemoveLock(o) \/ RemoveLook(o) \/ RemoveMove(o)
    BY <2>2, <1>u DEF RemoveLock, RemoveLook, RemoveMove, tables
  <2> QED
    BY <1>5, <2>1, <2>2 DEF RemoveStep
<1>6. CASE RefreshStep(o)
  <2>1. CASE RefreshRow(o)
    <3>1. PICK r \in Snap : row' = [row EXCEPT ![r.id] = None] \/ row' = Flagged(r.id) \/ row' = row
      BY <2>1, RefreshTakes
    <3>2. r.id \in Ids
      BY DEF Snap
    <3> QED
      BY <3>1, <3>2 DEF RowMoves
  <2>2. CASE RefreshRehash(o)
    <3>1. task[o].snap.id \in Ids
      BY <2>2 DEF StoreTypes, ArgsFit, ArgFits, RefreshRehash, Snap, At
    <3> QED
      BY <2>2, <3>1, RefreshTakes DEF RowMoves
  <2>3. CASE RefreshStore(o)
    <3>1. task[o].snap \in Snap /\ task[o].found \in File
      BY <2>3 DEF StoreTypes, ArgsFit, ArgFits, RefreshStore, At
    <3>2. /\ task[o].snap.id \in Ids /\ task[o].snap.rec.path \in Paths
          /\ task[o].found.data \in Data /\ task[o].found.stamp \in Stamps
      BY <3>1 DEF Snap, Row, File
    <3>3. Customs \subseteq Ids
      BY DEF Ids
    <3> QED
      BY <2>3, <3>2, <3>3 DEF RefreshStore, RowMoves
  <2>4. CASE RefreshUnregister(o)
    <3>1. task[o].snap.id \in Ids
      BY <2>4 DEF StoreTypes, ArgsFit, ArgFits, RefreshUnregister, Snap, At
    <3> QED
      BY <2>4, <3>1 DEF RefreshUnregister, RowMoves
  <2>5. CASE RefreshRegister(o)
    <3>1. task[o].arg \in Paths /\ task[o].found \in File /\ task[o].found.data \in Ids
      BY <2>5 DEF StoreTypes, ArgsFit, ArgFits, RefreshRegister, At
    <3>2. task[o].found.data \in Data
      BY <3>1 DEF File
    <3>3. (IF file[task[o].arg] = None THEN None ELSE file[task[o].arg].stamp) \in Stamps \cup {None}
      BY <3>1 DEF StoreTypes, FolderTypes, File
    <3> QED
      BY <2>5, <3>1, <3>2, <3>3 DEF RefreshRegister, RowMoves, Arg
  <2>6. CASE \/ RefreshBegin(o) \/ RefreshFolder(o) \/ RefreshCollect(o) \/ RefreshHash(o)
             \/ RefreshMatch(o) \/ RefreshEnd(o)
    BY <2>6, <1>u DEF RefreshBegin, RefreshFolder, RefreshCollect, RefreshHash, RefreshMatch, RefreshEnd, tables
  <2> QED
    BY <1>6, <2>1, <2>2, <2>3, <2>4, <2>5, <2>6 DEF RefreshStep
<1> QED
  BY <1>1, <1>2, <1>3, <1>4, <1>5, <1>6 DEF TaskStep

LEMMA OpTyped ==
  ASSUME op \in [Ops -> Operations], NEW o \in Ops, Leaves(o) \/ Stays(o)
  PROVE  op' \in [Ops -> Operations]
<1>1. ASSUME NEW s \in States, NEW f, f = [op EXCEPT ![o].state = s] PROVE f \in [Ops -> Operations]
  <2>1. PICK r : r = [op[o] EXCEPT !.state = s]
    OBVIOUS
  <2>2. r \in Operations
    BY <2>1 DEF Operations
  <2>3. f = [op EXCEPT ![o] = r]
    BY <2>1, <1>1
  <2> QED
    BY <2>2, <2>3
<1>2. {"running", "completed", "failed", "queued"} \subseteq States
  BY DEF States
<1>3. CASE Insert(o)
  <2>1. PICK s : s = IF op[o].kind = "import" THEN "running" ELSE "queued"
    OBVIOUS
  <2>2. op' = op \/ op' = [op EXCEPT ![o].state = s]
    BY <1>3, <2>1 DEF Insert
  <2>3. s \in States
    BY <2>1, <1>2
  <2> QED
    BY <2>2, <2>3, <1>1
<1>4. ASSUME NEW s \in States, op' = Updated(o, s) PROVE op' \in [Ops -> Operations]
  BY <1>4, <1>1 DEF Updated
<1> QED
  BY <1>2, <1>3, <1>4 DEF Leaves, Stays

LEMMA RowTyped ==
  ASSUME row \in [Ids -> Row \cup {None}], NEW o, RowMoves(o)
  PROVE  row' \in [Ids -> Row \cup {None}]
<1>1. CASE \E i \in Ids : row' = [row EXCEPT ![i] = None]
  BY <1>1
<1>2. ASSUME NEW i \in Ids, row' = Flagged(i) PROVE row' \in [Ids -> Row \cup {None}]
  <2>1. CASE row[i] # None
    <3>1. PICK r : r = [row[i] EXCEPT !.flag = TRUE]
      OBVIOUS
    <3>2. row[i] \in Row
      BY <2>1
    <3>3. r \in Row
      BY <3>1, <3>2 DEF Row
    <3>4. row' = [row EXCEPT ![i] = r]
      BY <1>2, <2>1, <3>1 DEF Flagged
    <3> QED
      BY <3>3, <3>4
  <2> QED
    BY <1>2, <2>1 DEF Flagged
<1>3. ASSUME NEW i \in Ids, NEW p \in Paths, NEW d \in Data, NEW s \in Stamps \cup {None},
             row' = Upserted(i, p, d, s)
      PROVE  row' \in [Ids -> Row \cup {None}]
  <2>1. [source |-> "user_folder", path |-> p, data |-> d, stamp |-> s, flag |-> FALSE] \in Row
    BY DEF Row, Sources
  <2> QED
    BY <2>1, <1>3 DEF Upserted
<1>4. ASSUME NEW i \in Ids, NEW s \in Stamps, row[i] # None,
             row' = [row EXCEPT ![i].stamp = s, ![i].flag = FALSE]
      PROVE  row' \in [Ids -> Row \cup {None}]
  <2>1. PICK r : r = [row[i] EXCEPT !.stamp = s, !.flag = FALSE]
    OBVIOUS
  <2>2. row[i] \in Row
    BY <1>4
  <2>3. r \in Row
    BY <2>1, <2>2 DEF Row
  <2>4. row' = [row EXCEPT ![i] = r]
    BY <1>4, <2>1
  <2> QED
    BY <2>3, <2>4
<1>5. ASSUME NEW m \in Models, NEW source \in {"catalog_download", "import", "import_user"},
             row' = [row EXCEPT ![m] = [source |-> source, path |-> m, data |-> m,
                                        stamp |-> 0, flag |-> FALSE]]
      PROVE  row' \in [Ids -> Row \cup {None}]
  <2>1. [source |-> source, path |-> m, data |-> m, stamp |-> 0, flag |-> FALSE] \in Row
    BY BoundsAssumption DEF Row, Sources, Paths, Data, Stamps
  <2> QED
    BY <2>1, <1>5
<1> QED
  BY <1>1, <1>2, <1>3, <1>4, <1>5 DEF RowMoves

(* Only an import-user has sub-operations.                                 *)
LEMMA SubSteps ==
  ASSUME NEW o \in Ops, TaskStep(o)
  PROVE  \/ sub' = sub
         \/ /\ op[o].kind = "import_user" /\ task[o].pc \in {"promote", "drop"}
            /\ sub' = [sub EXCEPT ![o] = None]
         \/ At(o, "import_user", "sub") /\ sub' = [sub EXCEPT ![o] = task[o].arg]
<1>1. CASE Insert(o) \/ DownloadStep(o)
  BY <1>1 DEF DownloadStep, Insert, DownloadBegin, Fetch, AnswerFails, AnswerWhole,
     AnswerRange, AnswerPastEnd, ChunkArrives, StreamBreaks, StreamEnds, HashPart, PromotePart, tables
<1>2. CASE UploadStep(o)
  BY <1>2 DEF UploadStep, ImportBegin, ImportReceived, ImportCut, ImportPromote, tables
<1>3. CASE ImportUserStep(o)
  BY <1>3 DEF ImportUserStep, ImportUserBegin, ImportUserNext, ImportUserCopy, ImportUserSub,
     ImportUserPromote, ImportUserDropSub, ImportUserEnd, tables, Arg, At
<1>4. CASE VerifyStep(o)
  BY <1>4 DEF VerifyStep, VerifyBegin, VerifyHash, VerifyJudge, VerifySaved, VerifyCondemn, tables
<1>5. CASE RemoveStep(o)
  BY <1>5 DEF RemoveStep, RemoveLock, RemoveLook, RemoveForget, RemoveMove, RemoveDelete, tables
<1>6. CASE RefreshStep(o)
  BY <1>6 DEF RefreshStep, RefreshBegin, RefreshFolder, RefreshRow, RefreshRehash, RefreshStore, RefreshUnregister,
     RefreshCollect, RefreshHash, RefreshMatch, RefreshRegister, RefreshEnd, tables
<1> QED
  BY <1>1, <1>2, <1>3, <1>4, <1>5, <1>6 DEF TaskStep

LEMMA KeepsTableTypes ==
  ASSUME StoreTypes, Next
  PROVE  TableTypes'
<1>0. /\ op \in [Ops -> Operations] /\ sub \in [Ops -> Models \cup {None}]
      /\ row \in [Ids -> Row \cup {None}]
  BY DEF StoreTypes, TableTypes
<1>1. ASSUME NEW o \in Ops, TaskStep(o) PROVE TableTypes'
  <2>1. op' \in [Ops -> Operations]
    BY <1>0, <1>1, TaskSteps, OpTyped
  <2>2. row' \in [Ids -> Row \cup {None}]
    BY <1>0, <1>1, RowSteps, RowTyped
  <2>3. \/ sub' = sub \/ sub' = [sub EXCEPT ![o] = None]
        \/ At(o, "import_user", "sub") /\ sub' = [sub EXCEPT ![o] = task[o].arg]
    BY <1>1, SubSteps
  <2>4. At(o, "import_user", "sub") => task[o].arg \in Models
    BY DEF StoreTypes, ArgsFit, ArgFits, At
  <2>5. sub' \in [Ops -> Models \cup {None}]
    BY <1>0, <2>3, <2>4
  <2> QED
    BY <2>1, <2>2, <2>5 DEF TableTypes
<1>2. ASSUME NEW o \in Ops, NEW r \in Operations, op' = [op EXCEPT ![o] = r], UNCHANGED <<sub, row>>
      PROVE  TableTypes'
  BY <1>0, <1>2 DEF TableTypes
<1>3. ASSUME NEW o \in Ops, Calls(o) \/ RefreshCall(o) PROVE TableTypes'
  <2>1. /\ "none" \in States /\ "queued" \in States /\ None \in Ids \cup {None} /\ Models \subseteq Ids
        /\ {"install", "import", "import_user", "verify", "refresh", "remove"} \subseteq Kinds
    BY DEF States, Ids, Kinds
  <2>2. ASSUME NEW kind \in Kinds, NEW i \in Ids \cup {None}, NEW s \in States,
               op' = [op EXCEPT ![o] = [kind |-> kind, model |-> i, state |-> s]],
               UNCHANGED <<sub, row>>
        PROVE  TableTypes'
    <3>1. [kind |-> kind, model |-> i, state |-> s] \in Operations
      BY DEF Operations
    <3> QED
      BY <1>2, <2>2, <3>1
  <2>3. ASSUME NEW m \in Models, InstallCall(o, m) \/ ImportCall(o, m) PROVE TableTypes'
    BY <2>1, <2>2, <2>3 DEF InstallCall, ImportCall, Call
  <2>4. ASSUME NEW i \in Ids, VerifyCall(o, i) \/ RemoveCall(o, i) PROVE TableTypes'
    BY <2>1, <2>2, <2>4 DEF VerifyCall, RemoveCall, Call
  <2>5. CASE ImportUserCall(o) \/ RefreshCall(o)
    BY <2>1, <2>2, <2>5 DEF ImportUserCall, RefreshCall
  <2> QED
    BY <1>3, <2>3, <2>4, <2>5 DEF Calls
<1>4. ASSUME NEW o \in Ops, Cancel(o) PROVE TableTypes'
  <2>1. PICK r : r = [op[o] EXCEPT !.state = "cancelled"]
    OBVIOUS
  <2>2. r \in Operations
    BY <2>1, <1>0 DEF Operations, States
  <2>3. op' = [op EXCEPT ![o] = r] /\ UNCHANGED <<sub, row>>
    BY <2>1, <1>4 DEF Cancel
  <2> QED
    BY <1>2, <2>2, <2>3
<1>5. ASSUME UNCHANGED tables PROVE TableTypes'
  BY <1>0, <1>5 DEF TableTypes, tables
<1>6. CASE Sweep
  <2>1. op' = [o \in Ops |-> IF op[o].state \in ActiveStates
                             THEN [op[o] EXCEPT !.state = "failed"] ELSE op[o]]
    BY <1>6 DEF Sweep
  <2>2. ASSUME NEW r \in Operations PROVE [r EXCEPT !.state = "failed"] \in Operations
    BY DEF Operations, States
  <2>3. op' \in [Ops -> Operations]
    BY <1>0, <2>1, <2>2
  <2> QED
    BY <1>0, <1>6, <2>3 DEF Sweep, TableTypes
<1>7. CASE Reconcile
  <2>1. ASSUME NEW r \in Row \cup {None}, NEW i, NEW locked
        PROVE  Reconciled(r, i \in locked) \in Row \cup {None}
    BY DEF Reconciled, Row
  <2>2. PICK locked \in SUBSET Ids : row' = [i \in Ids |-> Reconciled(row[i], i \in locked)]
    BY <1>7 DEF Reconcile
  <2>3. ASSUME NEW i \in Ids PROVE Reconciled(row[i], i \in locked) \in Row \cup {None}
    BY <1>0, <2>1
  <2>4. row' \in [Ids -> Row \cup {None}]
    BY <2>2, <2>3
  <2> QED
    BY <1>0, <1>7, <2>4 DEF Reconcile, TableTypes
<1> QED
  BY <1>1, <1>3, <1>4, <1>5, <1>6, <1>7 DEF Next, RemoveCut, WriteLands, EditFile, Crash

LEMMA FileTyped ==
  ASSUME FolderTypes
  PROVE  /\ \A m \in Models : PartData(m) \in Data /\ m \in Data /\ Models \subseteq Paths
         /\ \A p \in Paths, d \in Data : \A f : f = [file EXCEPT ![p] = [data |-> d, stamp |-> 0]] =>
              f \in [Paths -> File \cup {None}]
         /\ \A p \in Paths : \A f : f = [file EXCEPT ![p] = None] => f \in [Paths -> File \cup {None}]
<1>1. ASSUME NEW d \in Data PROVE [data |-> d, stamp |-> 0] \in File
  BY BoundsAssumption DEF File, Stamps
<1>2. \A m \in Models : PartData(m) \in Data /\ m \in Data /\ Models \subseteq Paths
  BY DEF PartData, Data, Paths
<1> QED
  BY <1>1, <1>2 DEF FolderTypes

LEMMA PartTyped ==
  ASSUME FolderTypes
  PROVE  /\ \A m \in Models : \A q : q = [part EXCEPT ![m] = None] \/ q = [part EXCEPT ![m] = Empty]
                              => q \in [Models -> Part \cup {None}]
         /\ \A m : WritesLost(m) \in [Ops -> Write \cup {None}]
<1>1. Empty \in Part
  BY DEF Part, Empty
<1>2. ASSUME NEW m PROVE WritesLost(m) \in [Ops -> Write \cup {None}]
  BY DEF FolderTypes, WritesLost
<1> QED
  BY <1>1, <1>2 DEF FolderTypes

LEMMA KeepsFolderTypes ==
  ASSUME StoreTypes, Next
  PROVE  FolderTypes'
<1>0. FolderTypes /\ TaskTypes
  BY DEF StoreTypes
<1>f. /\ file \in [Paths -> File \cup {None}] /\ part \in [Models -> Part \cup {None}]
      /\ staged \in [Ops -> Models \cup {Junk, None}] /\ late \in [Ops -> Write \cup {None}]
  BY <1>0 DEF FolderTypes
<1>u. ASSUME UNCHANGED folder PROVE FolderTypes'
  BY <1>f, <1>u DEF FolderTypes, folder
<1>1. ASSUME NEW o \in Ops, Insert(o) \/ DownloadStep(o) PROVE FolderTypes'
  <2>0. CASE UNCHANGED folder
    BY <2>0, <1>u
  <2>1. CASE ~Insert(o) /\ DownloadStep(o)
    <3>1. task[o].arg \in Models
      BY <2>1 DEF StoreTypes, ArgsFit, ArgFits, Supplies, DownloadStep, DownloadBegin, Fetch, AnswerFails,
         AnswerWhole, AnswerRange, AnswerPastEnd, ChunkArrives, StreamBreaks, StreamEnds, HashPart,
         PromotePart, At
    <3>2. CASE Fetch(o) \/ AnswerPastEnd(o) \/ HashPart(o)
      <4>1. /\ part' = part \/ part' = [part EXCEPT ![task[o].arg] = None]
            /\ late' = late \/ late' = WritesLost(task[o].arg)
            /\ UNCHANGED <<file, staged>>
        BY <3>2 DEF Fetch, AnswerPastEnd, HashPart, PartGone, Arg
      <4> QED
        BY <1>0, <1>f, <3>1, <4>1, PartTyped DEF FolderTypes
    <3>3. CASE AnswerWhole(o) \/ AnswerRange(o)
      <4>1. /\ part' = [part EXCEPT ![task[o].arg] = Empty]
               \/ part' = [part EXCEPT ![task[o].arg] = part[task[o].arg]]
            /\ late' = late \/ late' = WritesLost(task[o].arg)
            /\ UNCHANGED <<file, staged>>
        BY <3>3 DEF AnswerWhole, AnswerRange, Arg
      <4>2. part' \in [Models -> Part \cup {None}]
        BY <1>0, <1>f, <3>1, <4>1, PartTyped
      <4> QED
        BY <1>0, <1>f, <4>1, <4>2, PartTyped DEF FolderTypes
    <3>4. CASE ChunkArrives(o)
      <4>1. CASE UNCHANGED late
        BY <3>4, <4>1, <1>f DEF ChunkArrives, FolderTypes
      <4>2. CASE ~(UNCHANGED late)
        <5>1. PICK good \in BOOLEAN :
                late' = [late EXCEPT ![o] = [model |-> task[o].arg, pos |-> task[o].off,
                                             end |-> task[o].handle = "end", good |-> good]]
          BY <3>4, <4>2 DEF ChunkArrives
        <5>2. PICK end \in BOOLEAN : end = (task[o].handle = "end")
          OBVIOUS
        <5>3. task[o].off \in Nat
          BY <1>0, ChunksAssumption DEF TaskTypes, Tasks
        <5>4. [model |-> task[o].arg, pos |-> task[o].off, end |-> end, good |-> good] \in Write
          BY <3>1, <5>3 DEF Write
        <5>5. late' \in [Ops -> Write \cup {None}]
          BY <5>1, <5>2, <5>4, <1>f
        <5> QED
          BY <3>4, <5>5, <1>f DEF ChunkArrives, FolderTypes
      <4> QED
        BY <4>1, <4>2
    <3>5. CASE PromotePart(o)
      <4>1. /\ \/ file' = file \/ file' = [file EXCEPT ![task[o].arg] = [data |-> PartData(task[o].arg), stamp |-> 0]]
            /\ \/ part' = part \/ part' = [part EXCEPT ![task[o].arg] = None]
            /\ UNCHANGED <<staged, late>>
        BY <3>5 DEF PromotePart, Promoted, Arg
      <4>2. file' \in [Paths -> File \cup {None}]
        BY <1>0, <1>f, <3>1, <4>1, FileTyped
      <4>3. part' \in [Models -> Part \cup {None}]
        BY <1>0, <1>f, <3>1, <4>1, PartTyped
      <4> QED
        BY <1>f, <4>1, <4>2, <4>3 DEF FolderTypes
    <3>6. CASE DownloadBegin(o) \/ AnswerFails(o) \/ StreamBreaks(o) \/ StreamEnds(o)
      BY <3>6, <1>u DEF DownloadBegin, AnswerFails, StreamBreaks, StreamEnds
    <3> QED
      BY <2>1, <3>2, <3>3, <3>4, <3>5, <3>6 DEF DownloadStep
  <2> QED
    BY <1>1, <2>0, <2>1 DEF Insert
<1>2. ASSUME NEW o \in Ops, UploadStep(o) PROVE FolderTypes'
  <2>1. task[o].arg \in Models
    BY <1>2 DEF StoreTypes, ArgsFit, ArgFits, Supplies, UploadStep, ImportBegin, ImportReceived, ImportCut,
       ImportPromote, At
  <2>2. /\ \/ staged' = [staged EXCEPT ![o] = None] \/ staged' = [staged EXCEPT ![o] = Junk]
           \/ staged' = [staged EXCEPT ![o] = task[o].arg]
        /\ UNCHANGED <<part, late>>
    BY <1>2 DEF UploadStep, ImportBegin, ImportReceived, ImportCut, ImportPromote, GuardDrops, Arg
  <2>3. staged' \in [Ops -> Models \cup {Junk, None}]
    BY <1>f, <2>1, <2>2
  <2>4. \/ file' = file
        \/ At(o, "import", "promote") /\ file' = [file EXCEPT ![task[o].arg] = [data |-> staged[o], stamp |-> 0]]
    BY <1>2 DEF UploadStep, ImportBegin, ImportReceived, ImportCut, ImportPromote, Promoted, Arg
  <2>5. At(o, "import", "promote") => staged[o] = task[o].arg
    BY DEF StoreTypes, ArgsFit, ArgFits, At
  <2>6. file' \in [Paths -> File \cup {None}]
    BY <1>0, <1>f, <2>1, <2>4, <2>5, FileTyped
  <2> QED
    BY <1>f, <2>2, <2>3, <2>6 DEF FolderTypes
<1>3. ASSUME NEW o \in Ops, ImportUserStep(o) PROVE FolderTypes'
  <2>1. \/ file' = file
        \/ /\ At(o, "import_user", "promote")
           /\ file' = [file EXCEPT ![task[o].arg] = [data |-> task[o].arg, stamp |-> 0]]
    BY <1>3 DEF ImportUserStep, ImportUserBegin, ImportUserNext, ImportUserCopy, ImportUserSub,
       ImportUserPromote, ImportUserDropSub, ImportUserEnd, Promoted, folder, Arg
  <2>2. UNCHANGED <<part, staged, late>>
    BY <1>3 DEF ImportUserStep, ImportUserBegin, ImportUserNext, ImportUserCopy, ImportUserSub,
       ImportUserPromote, ImportUserDropSub, ImportUserEnd, folder
  <2>3. At(o, "import_user", "promote") => task[o].arg \in Models
    BY DEF StoreTypes, ArgsFit, ArgFits, At
  <2>4. file' \in [Paths -> File \cup {None}]
    BY <1>0, <1>f, <2>1, <2>3, FileTyped
  <2> QED
    BY <1>f, <2>2, <2>4 DEF FolderTypes
<1>4. ASSUME NEW o \in Ops, VerifyStep(o) \/ RemoveStep(o) PROVE FolderTypes'
  <2>1. \/ file' = file
        \/ At(o, "verify", "wait") /\ file' = [file EXCEPT ![task[o].snap.rec.path] = None]
        \/ At(o, "remove", "move") /\ file' = [file EXCEPT ![task[o].snap.rec.path] = None]
    BY <1>4 DEF VerifyStep, VerifyBegin, VerifyHash, VerifyJudge, VerifySaved, VerifyCondemn,
       RemoveStep, RemoveLock, RemoveLook, RemoveForget, RemoveMove, RemoveDelete, folder
  <2>2. UNCHANGED <<part, staged, late>>
    BY <1>4 DEF VerifyStep, VerifyBegin, VerifyHash, VerifyJudge, VerifySaved, VerifyCondemn,
       RemoveStep, RemoveLock, RemoveLook, RemoveForget, RemoveMove, RemoveDelete, folder
  <2>3. At(o, "verify", "wait") \/ At(o, "remove", "move") => task[o].snap.rec.path \in Paths
    BY DEF StoreTypes, RowsFit, SnapFits, At, Snap, Row
  <2>4. file' \in [Paths -> File \cup {None}]
    BY <1>0, <1>f, <2>1, <2>3, FileTyped
  <2> QED
    BY <1>f, <2>2, <2>4 DEF FolderTypes
<1>5. ASSUME NEW o \in Ops, RefreshStep(o) PROVE FolderTypes'
  BY <1>5, <1>u DEF RefreshStep, RefreshBegin, RefreshFolder, RefreshRow, RefreshRehash, RefreshStore,
     RefreshUnregister, RefreshCollect, RefreshHash, RefreshMatch, RefreshRegister, RefreshEnd
<1>6. ASSUME NEW o \in Ops, Calls(o) \/ RefreshCall(o) \/ Cancel(o) \/ RemoveCut(o) PROVE FolderTypes'
  BY <1>6, <1>u DEF Calls, InstallCall, ImportCall, VerifyCall, RemoveCall, ImportUserCall, Call,
     RefreshCall, Cancel, RemoveCut
<1>7. ASSUME NEW o \in Ops, WriteLands(o) PROVE FolderTypes'
  <2>1. late[o] \in Write
    BY <1>7, <1>f DEF WriteLands
  <2> DEFINE w  == late[o]
             p  == part[w.model]
             at == IF w.end THEN p.len ELSE w.pos
  <2>2. w.model \in Models /\ w.pos \in Nat
    BY <2>1 DEF Write
  <2>3. CASE p # None
    <3>1. PICK good \in BOOLEAN : good = (p.good /\ w.good /\ at = w.pos /\ at <= p.len)
      OBVIOUS
    <3>2. p \in Part
      BY <2>2, <2>3, <1>f
    <3>3. p.len \in Nat /\ at \in Nat
      BY <2>2, <3>2 DEF Part
    <3>4. PICK len : len = IF at < p.len THEN p.len ELSE at + 1
      OBVIOUS
    <3>5. len \in Nat
      BY <3>3, <3>4
    <3>6. [len |-> len, good |-> good] \in Part
      BY <3>5 DEF Part
    <3>7. part' = [part EXCEPT ![w.model] = [len |-> len, good |-> good]]
      BY <1>7, <2>3, <3>1, <3>4 DEF WriteLands
    <3>8. part' \in [Models -> Part \cup {None}]
      BY <1>f, <2>2, <3>6, <3>7
    <3> QED
      BY <1>7, <1>f, <3>8 DEF WriteLands, FolderTypes
  <2>4. CASE p = None
    BY <1>7, <1>f, <2>4 DEF WriteLands, FolderTypes
  <2> QED
    BY <2>3, <2>4
<1>8. CASE EditFile
  <2>1. faults' \in Stamps
    BY <1>8, BoundsAssumption DEF StoreTypes, WorldTypes, EditFile, Stamps
  <2>2. \A d \in Data : [data |-> d, stamp |-> faults'] \in File
    BY <2>1 DEF File
  <2>3. file' \in [Paths -> File \cup {None}]
    BY <1>8, <1>f, <2>2 DEF EditFile
  <2> QED
    BY <1>8, <1>f, <2>3 DEF EditFile, FolderTypes
<1>9. CASE Crash
  <2>1. late' \in [Ops -> Write \cup {None}]
    BY <1>9 DEF Crash
  <2>2. ASSUME NEW o \in Ops, NEW m \in Models, HalfPromoted(o, m)
        PROVE  /\ file' \in [Paths -> File \cup {None}] /\ part' \in [Models -> Part \cup {None}]
               /\ staged' \in [Ops -> Models \cup {Junk, None}]
    <3>1. At(o, "import", "promote") /\ task[o].arg = m => staged[o] = m
      BY DEF StoreTypes, ArgsFit, ArgFits, At
    <3>2. \E d \in {PartData(m), m} : file' = [file EXCEPT ![m] = [data |-> d, stamp |-> 0]]
      BY <2>2, <3>1 DEF HalfPromoted, At, Arg
    <3>3. m \in Paths /\ m \in Data /\ PartData(m) \in Data
      BY <1>0, FileTyped
    <3>4. file' \in [Paths -> File \cup {None}]
      BY <1>0, <3>2, <3>3, FileTyped
    <3>5. /\ part' = part \/ part' = [part EXCEPT ![m] = None]
          /\ staged' = staged \/ staged' = [staged EXCEPT ![o] = None]
      BY <2>2 DEF HalfPromoted
    <3> QED
      BY <1>0, <1>f, <3>4, <3>5, PartTyped
  <2>3. CASE UNCHANGED <<file, part, staged>>
    BY <2>1, <2>3, <1>f DEF FolderTypes
  <2> QED
    BY <1>9, <2>1, <2>2, <2>3 DEF Crash, FolderTypes
<1>10. CASE Sweep
  BY <1>10, <1>f DEF Sweep, FolderTypes
<1>11. CASE Reconcile
  <2>1. part' \in [Models -> Part \cup {None}]
    BY <1>11, <1>f DEF Reconcile
  <2> QED
    BY <1>11, <1>f, <2>1 DEF Reconcile, FolderTypes
<1> QED
  BY <1>1, <1>2, <1>3, <1>4, <1>5, <1>6, <1>7, <1>8, <1>9, <1>10, <1>11 DEF Next, TaskStep

(* Only removals touch the selection lock; only promotions what was tampered with. *)
LEMMA WorldSteps ==
  ASSUME NEW o \in Ops, TaskStep(o)
  PROVE  /\ server' = server /\ faults' = faults /\ tampered' \subseteq tampered \cup {task[o].arg}
         /\ tampered' \subseteq tampered \/ PromotePart(o)
         /\ \/ selection' = selection
            \/ op[o].kind = "remove" /\ selection' \in {o, None}
<1>1. CASE Insert(o) \/ DownloadStep(o)
  BY <1>1 DEF DownloadStep, Insert, DownloadBegin, Fetch, AnswerFails, AnswerWhole, AnswerRange,
     AnswerPastEnd, ChunkArrives, StreamBreaks, StreamEnds, HashPart, PromotePart, Promoted, Arg, world
<1>2. CASE UploadStep(o)
  BY <1>2 DEF UploadStep, ImportBegin, ImportReceived, ImportCut, ImportPromote, Promoted, world
<1>3. CASE ImportUserStep(o)
  BY <1>3 DEF ImportUserStep, ImportUserBegin, ImportUserNext, ImportUserCopy, ImportUserSub,
     ImportUserPromote, ImportUserDropSub, ImportUserEnd, Promoted, world
<1>4. CASE VerifyStep(o)
  BY <1>4 DEF VerifyStep, VerifyBegin, VerifyHash, VerifyJudge, VerifySaved, VerifyCondemn, world
<1>5. CASE RemoveStep(o)
  BY <1>5 DEF RemoveStep, RemoveLock, RemoveLook, RemoveForget, RemoveMove, RemoveDelete,
     Release, Holding, At, world
<1>6. CASE RefreshStep(o)
  BY <1>6 DEF RefreshStep, RefreshBegin, RefreshFolder, RefreshRow, RefreshRehash, RefreshStore, RefreshUnregister,
     RefreshCollect, RefreshHash, RefreshMatch, RefreshRegister, RefreshEnd, world
<1> QED
  BY <1>1, <1>2, <1>3, <1>4, <1>5, <1>6 DEF TaskStep

LEMMA KeepsWorldTypes ==
  ASSUME StoreTypes, Next
  PROVE  WorldTypes'
<1>0. /\ selection \in Ops \cup {None} /\ server \in {"down", "swept", "up"}
      /\ faults \in Stamps /\ tampered \subseteq Paths /\ calm \subseteq Ops
  BY DEF StoreTypes, WorldTypes
<1>1. ASSUME NEW o \in Ops, TaskStep(o), calm' \subseteq Ops PROVE WorldTypes'
  <2>1. PromotePart(o) => task[o].arg \in Paths
    BY DEF StoreTypes, ArgsFit, ArgFits, Supplies, PromotePart, At, Paths
  <2> QED
    BY <1>0, <1>1, <2>1, WorldSteps DEF WorldTypes
<1>2. ASSUME NEW o \in Ops, Calls(o) \/ RefreshCall(o) \/ Cancel(o) \/ WriteLands(o), calm' \subseteq Ops
      PROVE  WorldTypes'
  <2>1. UNCHANGED world
    BY <1>2 DEF Calls, InstallCall, ImportCall, VerifyCall, RemoveCall, ImportUserCall, Call,
       RefreshCall, Cancel, WriteLands
  <2> QED
    BY <1>0, <1>2, <2>1 DEF WorldTypes, world
<1>3. ASSUME NEW o \in Ops, RemoveCut(o), calm' \subseteq Ops PROVE WorldTypes'
  <2>1. op[o].kind = "remove" /\ task[o].pc = "delete" => task[o].snap.rec.path \in Paths
    BY DEF StoreTypes, RowsFit, SnapFits, Snap, Row
  <2> QED
    BY <1>0, <1>3, <2>1 DEF RemoveCut, At, WorldTypes, world
<1>4. CASE (EditFile \/ Crash \/ Sweep \/ Reconcile) /\ calm' = {}
  <2>1. faults < MaxFaults => faults + 1 \in Stamps
    BY <1>0, BoundsAssumption DEF Stamps
  <2> QED
    BY <1>0, <1>4, <2>1 DEF EditFile, Crash, Sweep, Reconcile, WorldTypes
<1>5. calm' \subseteq Ops
  BY <1>0 DEF Next
<1> QED
  BY <1>1, <1>2, <1>3, <1>4, <1>5 DEF Next

-----------------------------------------------------------------------------
(* An operation keeps its kind and its model.                              *)
LEMMA SameOps ==
  ASSUME StoreTypes, NEW o \in Ops, Leaves(o) \/ Stays(o)
  PROVE  \A x \in Ops : /\ op'[x].kind = op[x].kind /\ op'[x].model = op[x].model
                        /\ x # o => op'[x] = op[x]
<1>1. op \in [Ops -> Operations]
  BY DEF StoreTypes, TableTypes
<1>2. ASSUME NEW s, op' = [op EXCEPT ![o].state = s]
      PROVE  \A x \in Ops : /\ op'[x].kind = op[x].kind /\ op'[x].model = op[x].model
                            /\ x # o => op'[x] = op[x]
  BY <1>1, <1>2 DEF Operations
<1>3. op' = op \/ \E s : op' = [op EXCEPT ![o].state = s]
  BY DEF Leaves, Stays, Updated, Insert
<1> QED
  BY <1>2, <1>3

(* What the others have in hand stays what it was.                         *)
LEMMA OthersFit ==
  ASSUME StoreTypes, NEW o \in Ops, Others(o),
         \A x \in Ops \ {o} : op'[x].kind = op[x].kind /\ op'[x].model = op[x].model,
         \A x \in Ops \ {o} : staged'[x] = staged[x]
  PROVE  \A x \in Ops \ {o} : ArgFits(x)' /\ SnapFits(x)'
<1> SUFFICES ASSUME NEW x \in Ops \ {o} PROVE ArgFits(x)' /\ SnapFits(x)'
  OBVIOUS
<1>1. /\ op'[x].kind = op[x].kind /\ op'[x].model = op[x].model /\ staged'[x] = staged[x]
      /\ task'[x].pc = task[x].pc /\ Kept(task[x], task'[x])
  BY DEF Others
<1>2. ArgFits(x) /\ SnapFits(x)
  BY DEF StoreTypes, ArgsFit, RowsFit
<1>3. ArgFits(x)'
  BY <1>1, <1>2 DEF ArgFits, Kept
<1>4. SnapFits(x)'
  BY <1>1, <1>2 DEF SnapFits, Kept
<1> QED
  BY <1>3, <1>4

(* An upload is staged by its own task.                                    *)
LEMMA StagedSteps ==
  ASSUME StoreTypes, NEW o \in Ops, TaskStep(o)
  PROVE  /\ \A x \in Ops \ {o} : staged'[x] = staged[x]
         /\ ~UploadStep(o) => staged' = staged
<1>1. CASE Insert(o) \/ DownloadStep(o)
  BY <1>1 DEF DownloadStep, Insert, DownloadBegin, Fetch, AnswerFails, AnswerWhole, AnswerRange,
     AnswerPastEnd, ChunkArrives, StreamBreaks, StreamEnds, HashPart, PromotePart, folder
<1>2. CASE UploadStep(o)
  <2>1. \E d : staged' = [staged EXCEPT ![o] = d]
    BY <1>2 DEF UploadStep, ImportBegin, ImportReceived, ImportCut, ImportPromote, GuardDrops
  <2> QED
    BY <1>2, <2>1 DEF StoreTypes, FolderTypes
<1>3. CASE ImportUserStep(o)
  BY <1>3 DEF ImportUserStep, ImportUserBegin, ImportUserNext, ImportUserCopy, ImportUserSub,
     ImportUserPromote, ImportUserDropSub, ImportUserEnd, folder
<1>4. CASE VerifyStep(o)
  BY <1>4 DEF VerifyStep, VerifyBegin, VerifyHash, VerifyJudge, VerifySaved, VerifyCondemn, folder
<1>5. CASE RemoveStep(o)
  BY <1>5 DEF RemoveStep, RemoveLock, RemoveLook, RemoveForget, RemoveMove, RemoveDelete, folder
<1>6. CASE RefreshStep(o)
  BY <1>6 DEF RefreshStep, RefreshBegin, RefreshFolder, RefreshRow, RefreshRehash, RefreshStore, RefreshUnregister,
     RefreshCollect, RefreshHash, RefreshMatch, RefreshRegister, RefreshEnd, folder
<1> QED
  BY <1>1, <1>2, <1>3, <1>4, <1>5, <1>6 DEF TaskStep

LEMMA HandFits ==
  ASSUME StoreTypes, NEW o \in Ops, TaskStep(o)
  PROVE  ArgFits(o)' /\ SnapFits(o)'
<1>k. op'[o].kind = op[o].kind /\ op'[o].model = op[o].model /\ ArgFits(o) /\ SnapFits(o)
  BY TaskSteps, SameOps DEF StoreTypes, ArgsFit, RowsFit
<1>z. ASSUME task'[o].pc = "idle" PROVE ArgFits(o)' /\ SnapFits(o)'
  <2>1. op'[o].kind \notin {"import_user", "refresh"} => ArgFits(o)'
    BY <1>z DEF ArgFits
  <2>2. op'[o].kind \in {"import_user", "refresh"} => ArgFits(o)'
    BY <1>z, <1>k DEF ArgFits, Supplies
  <2>3. SnapFits(o)'
    BY <1>z DEF SnapFits
  <2> QED
    BY <2>1, <2>2, <2>3
<1>p. ASSUME NEW places, Plain(o, places), task[o].pc # "idle",
             places \cap {"move", "delete"} = {}, op[o].kind \in {"install", "import", "verify"},
             op[o].kind = "import" /\ task'[o].pc = "promote" => staged'[o] = task[o].arg
      PROVE  ArgFits(o)' /\ SnapFits(o)'
  <2>1. task'[o].pc = "idle" \/ (Kept(task[o], task'[o]) /\ task'[o].pc \notin {"move", "delete"})
    BY <1>p DEF Plain
  <2>2. ASSUME Kept(task[o], task'[o]) PROVE ArgFits(o)'
    BY <1>k, <1>p, <2>2 DEF ArgFits, Kept, Supplies
  <2>3. ASSUME Kept(task[o], task'[o]), task'[o].pc \notin {"move", "delete"} PROVE SnapFits(o)'
    BY <1>k, <1>p, <2>3 DEF SnapFits, Kept
  <2> QED
    BY <1>z, <2>1, <2>2, <2>3
<1>1. CASE Insert(o)
  <2>1. Plain(o, {"begin"})
    BY <1>1, DownloadSteps
  <2>2. CASE task'[o].pc = "begin" /\ Kept(task[o], task'[o])
    <3>1. task[o].pc = "insert"
      BY <1>1 DEF Insert
    <3>2. ArgFits(o)'
      BY <1>k, <2>2, <3>1 DEF ArgFits, Kept, Supplies
    <3>3. SnapFits(o)'
      BY <1>k, <2>2, <3>1 DEF SnapFits, Kept
    <3> QED
      BY <3>2, <3>3
  <2> QED
    BY <2>1, <2>2, <1>z DEF Plain
<1>2. CASE DownloadStep(o)
  <2>1. op[o].kind = "install" /\ task[o].pc # "idle"
    BY <1>2 DEF DownloadStep, DownloadBegin, Fetch, AnswerFails, AnswerWhole, AnswerRange, AnswerPastEnd,
       ChunkArrives, StreamBreaks, StreamEnds, HashPart, PromotePart, At
  <2>2. \E places : Plain(o, places) /\ places \cap {"move", "delete"} = {}
    BY <1>2, DownloadSteps DEF DownloadStep
  <2> QED
    BY <2>1, <2>2, <1>p
<1>3. CASE UploadStep(o)
  <2>1. op[o].kind = "import" /\ task[o].pc # "idle"
    BY <1>3 DEF UploadStep, ImportBegin, ImportReceived, ImportCut, ImportPromote, At
  <2>2. CASE ImportReceived(o)
    <3>1. Plain(o, {"promote"})
      BY <2>2, UploadSteps
    <3>2. CASE staged' = [staged EXCEPT ![o] = task[o].arg]
      <4>1. staged'[o] = task[o].arg
        BY <3>2 DEF StoreTypes, FolderTypes
      <4> QED
        BY <2>1, <3>1, <4>1, <1>p
    <3>3. CASE Finish(o, "failed")
      <4>1. task'[o].pc = "idle"
        BY <3>3, Quits DEF Finish, StoreTypes
      <4> QED
        BY <4>1, <1>z
    <3> QED
      BY <2>2, <3>2, <3>3 DEF ImportReceived, Arg
  <2>3. CASE ImportBegin(o) \/ ImportCut(o) \/ ImportPromote(o)
    <3>1. Plain(o, {"receive"}) \/ Plain(o, {})
      BY <2>3, UploadSteps
    <3>2. task'[o].pc # "promote"
      BY <3>1 DEF Plain
    <3> QED
      BY <2>1, <3>1, <3>2, <1>p
  <2> QED
    BY <1>3, <2>2, <2>3 DEF UploadStep
<1>4. CASE ImportUserStep(o)
  <2>1. op[o].kind = "import_user" /\ task[o].pc \in {"begin", "next", "copy", "sub", "promote", "drop"}
    BY <1>4 DEF ImportUserStep, ImportUserBegin, ImportUserNext, ImportUserCopy, ImportUserSub,
       ImportUserPromote, ImportUserDropSub, ImportUserEnd, At
  <2>2. SnapFits(o)'
    BY <1>k, <2>1 DEF SnapFits
  <2>3. ASSUME task'[o].pc \in {"next", "copy", "sub", "promote", "drop"},
               task'[o].todo \subseteq task[o].todo,
               task'[o].pc \in {"copy", "sub", "promote", "drop"} => task'[o].arg \in Models
        PROVE  ArgFits(o)'
    BY <1>k, <2>1, <2>3 DEF ArgFits, Supplies
  <2>4. ASSUME Kept(task[o], task'[o]), task'[o].pc \in {"next", "sub", "promote", "drop"},
               task'[o].pc = "next" \/ task[o].pc \in {"copy", "sub", "promote", "drop"}
        PROVE  ArgFits(o)'
    <3>1. task'[o].todo \subseteq task[o].todo /\ task'[o].arg = task[o].arg
      BY <2>4 DEF Kept
    <3>2. task[o].pc \in {"copy", "sub", "promote", "drop"} => task[o].arg \in Models
      BY <1>k, <2>1 DEF ArgFits
    <3> QED
      BY <2>3, <2>4, <3>1, <3>2
  <2>5. CASE ImportUserNext(o)
    <3>1. \/ task'[o].pc = "idle"
          \/ /\ task'[o].pc \in {"copy", "next"} /\ task'[o].todo \subseteq task[o].todo
             /\ task'[o].pc = "copy" => task'[o].arg \in Models
      BY <2>5, ImportUserSteps
    <3>2. CASE task'[o].pc = "idle"
      BY <3>2, <1>z
    <3>3. CASE task'[o].pc # "idle"
      <4>1. ArgFits(o)'
        BY <2>3, <3>1, <3>3
      <4> QED
        BY <2>2, <4>1
    <3> QED
      BY <3>2, <3>3
  <2>6. CASE ImportUserBegin(o) \/ ImportUserDropSub(o) \/ ImportUserEnd(o)
    <3>1. Plain(o, {"next"})
      BY <2>6, ImportUserSteps, PlainMore
    <3>2. CASE task'[o].pc = "next" /\ Kept(task[o], task'[o])
      <4>1. ArgFits(o)'
        BY <2>4, <3>2
      <4> QED
        BY <2>2, <4>1
    <3> QED
      BY <3>1, <3>2, <1>z DEF Plain
  <2>7. CASE ImportUserCopy(o) \/ ImportUserSub(o) \/ ImportUserPromote(o)
    <3>1. \/ task'[o].pc = "idle"
          \/ task'[o].pc \in {"next", "sub", "promote", "drop"} /\ Kept(task[o], task'[o])
      BY <2>7, ImportUserSteps DEF Plain
    <3>2. task[o].pc \in {"copy", "sub", "promote", "drop"}
      BY <2>7 DEF ImportUserCopy, ImportUserSub, ImportUserPromote, At
    <3>3. CASE task'[o].pc # "idle"
      <4>1. ArgFits(o)'
        BY <2>4, <3>1, <3>2, <3>3
      <4> QED
        BY <2>2, <4>1
    <3> QED
      BY <3>3, <1>z
  <2> QED
    BY <1>4, <2>2, <2>5, <2>6, <2>7 DEF ImportUserStep
<1>5. CASE VerifyStep(o)
  <2>1. op[o].kind = "verify" /\ task[o].pc # "idle"
    BY <1>5 DEF VerifyStep, VerifyBegin, VerifyHash, VerifyJudge, VerifySaved, VerifyCondemn, At
  <2>2. CASE VerifyHash(o)
    <3>1. task'[o].pc = "judge" /\ task'[o].arg = task[o].arg /\ task'[o].snap = task[o].snap
      BY <2>2, VerifySteps
    <3>2. ArgFits(o)'
      BY <1>k, <2>1, <3>1 DEF ArgFits, Supplies
    <3>3. SnapFits(o)'
      BY <1>k, <2>1, <3>1 DEF SnapFits
    <3> QED
      BY <3>2, <3>3
  <2>3. CASE VerifyBegin(o) \/ VerifyJudge(o) \/ VerifySaved(o) \/ VerifyCondemn(o)
    <3>1. Plain(o, {"hash"}) \/ Plain(o, {"saved", "wait"}) \/ Plain(o, {})
      BY <2>3, VerifySteps
    <3> QED
      BY <2>1, <3>1, <1>p
  <2> QED
    BY <1>5, <2>2, <2>3 DEF VerifyStep
<1>6. CASE RemoveStep(o)
  <2>1. op[o].kind = "remove" /\ task[o].pc # "idle"
    BY <1>6 DEF RemoveStep, RemoveLock, RemoveLook, RemoveForget, RemoveMove, RemoveDelete, At
  <2>2. task'[o].arg = task[o].arg => ArgFits(o)'
    BY <1>k, <2>1 DEF ArgFits, Supplies
  <2>3. CASE RemoveLook(o)
    <3>1. CASE task'[o].pc # "idle"
      <4>1. /\ row[task[o].arg] # None /\ task'[o].arg = task[o].arg
            /\ task'[o].snap = [id |-> task[o].arg, rec |-> row[task[o].arg]]
            /\ task'[o].pc \in {"move", "forget"}
            /\ task'[o].pc = "move" => row[task[o].arg].source # "user_folder"
        BY <2>3, <3>1, RemoveSteps
      <4>2. task[o].arg \in Ids
        BY <1>k, <2>1 DEF ArgFits
      <4>3. row[task[o].arg] \in Row /\ Fits(task[o].arg, row[task[o].arg])
        BY <4>1, <4>2 DEF StoreTypes, TableTypes, RowsFit
      <4>4. /\ task'[o].snap \in Snap /\ task'[o].snap.id = task[o].arg
            /\ task'[o].snap.rec = row[task[o].arg]
        BY <4>1, <4>2, <4>3 DEF Snap
      <4>5. SnapFits(o)'
        BY <4>1, <4>3, <4>4 DEF SnapFits, Fits
      <4> QED
        BY <2>2, <4>1, <4>5
    <3> QED
      BY <3>1, <1>z
  <2>4. CASE RemoveLock(o) \/ RemoveForget(o) \/ RemoveDelete(o)
    <3>1. Plain(o, {"look"})
      BY <2>4, RemoveSteps, PlainMore
    <3>2. CASE task'[o].pc = "look" /\ Kept(task[o], task'[o])
      BY <1>k, <2>1, <2>2, <3>2 DEF SnapFits, Kept
    <3> QED
      BY <3>1, <3>2, <1>z DEF Plain
  <2>5. CASE RemoveMove(o)
    <3>1. Plain(o, {"delete"}) /\ task[o].pc = "move"
      BY <2>5, RemoveSteps DEF RemoveMove, At
    <3>2. CASE task'[o].pc = "delete" /\ Kept(task[o], task'[o])
      BY <1>k, <2>1, <2>2, <3>1, <3>2 DEF SnapFits, Kept
    <3> QED
      BY <3>1, <3>2, <1>z DEF Plain
  <2> QED
    BY <1>6, <2>3, <2>4, <2>5 DEF RemoveStep
<1>7. CASE RefreshStep(o)
  <2>1. op[o].kind = "refresh"
    BY <1>7 DEF RefreshStep, RefreshBegin, RefreshFolder, RefreshRow, RefreshRehash, RefreshStore, RefreshUnregister,
       RefreshCollect, RefreshHash, RefreshMatch, RefreshRegister, RefreshEnd, At
  <2>2. SnapFits(o)'
    BY <1>k, <2>1 DEF SnapFits
  <2>b. CASE RefreshBegin(o)
    BY <1>k, <2>1, <2>2, <2>b, <1>z, RefreshSteps DEF Plain, ArgFits, Supplies
  <2>3. CASE RefreshFolder(o)
    <3>1. \/ task'[o].pc = "idle"
          \/ task'[o].pc = "rows" /\ task'[o].todo \subseteq Snap
      BY <2>3, RefreshSteps
    <3>2. CASE task'[o].pc = "rows" /\ task'[o].todo \subseteq Snap
      BY <1>k, <2>1, <2>2, <3>2 DEF ArgFits, Supplies
    <3> QED
      BY <3>1, <3>2, <1>z
  <2>4. CASE RefreshRow(o)
    <3>1. task[o].pc = "rows" /\ task[o].todo \subseteq Snap
      BY <1>k, <2>1, <2>4 DEF RefreshRow, ArgFits, At
    <3>2. PICK r \in task[o].todo :
            /\ r \in Snap /\ task'[o].todo = task[o].todo \ {r}
            /\ \/ task'[o].pc = "rows"
               \/ /\ file[r.rec.path] # None /\ task'[o].pc = "rehash"
                  /\ task'[o].snap = r /\ task'[o].found = file[r.rec.path]
      BY <2>4, RefreshTakes
    <3>3. file[r.rec.path] # None => file[r.rec.path] \in File
      BY <3>2 DEF StoreTypes, FolderTypes, Snap, Row
    <3> QED
      BY <1>k, <2>1, <2>2, <3>1, <3>2, <3>3 DEF ArgFits, Supplies
  <2>5. CASE RefreshRehash(o)
    <3>1. /\ task[o].pc = "rehash" /\ task[o].todo \subseteq Snap /\ task[o].snap \in Snap
      BY <1>k, <2>1, <2>5 DEF RefreshRehash, ArgFits, At
    <3>2. /\ task'[o].todo = task[o].todo
          /\ \/ task'[o].pc = "rows"
             \/ task'[o].pc = "store" /\ task'[o].snap = task[o].snap /\ task'[o].found \in File
      BY <2>5, RefreshTakes
    <3> QED
      BY <1>k, <2>1, <2>2, <3>1, <3>2 DEF ArgFits, Supplies
  <2>6. CASE RefreshStore(o) \/ RefreshUnregister(o)
    <3>1. task[o].pc \in {"store", "unregister"} /\ task[o].todo \subseteq Snap /\ task[o].snap \in Snap
      BY <1>k, <2>1, <2>6 DEF RefreshStore, RefreshUnregister, ArgFits, At
    <3>2. /\ task'[o].todo = task[o].todo
          /\ \/ task'[o].pc = "rows"
             \/ task'[o].pc = "unregister" /\ task'[o].snap = task[o].snap
      BY <2>6, RefreshSteps
    <3> QED
      BY <1>k, <2>1, <2>2, <3>1, <3>2 DEF ArgFits, Supplies
  <2>7. CASE RefreshCollect(o)
    <3>1. task'[o].pc = "scan" /\ task'[o].todo \subseteq Paths
      BY <2>7, RefreshSteps
    <3> QED
      BY <1>k, <2>1, <2>2, <3>1 DEF ArgFits, Supplies
  <2>8. CASE RefreshHash(o)
    <3>1. task[o].pc = "scan" /\ task[o].todo \subseteq Paths
      BY <1>k, <2>1, <2>8 DEF RefreshHash, ArgFits, At
    <3>2. PICK p \in task[o].todo :
            /\ p \in Paths /\ task'[o].todo = task[o].todo \ {p}
            /\ \/ task'[o].pc = "scan"
               \/ /\ file[p] # None /\ file[p].data # Junk
                  /\ task'[o].arg = p /\ task'[o].found = file[p]
                  /\ task'[o].pc \in {"match", "register"}
      BY <2>8, RefreshTakes
    <3>3. file[p] # None => file[p] \in File
      BY <3>2 DEF StoreTypes, FolderTypes
    <3>4. file[p] # None /\ file[p].data # Junk => file[p].data \in Ids
      BY <3>3 DEF File, Data, Ids
    <3> QED
      BY <1>k, <2>1, <2>2, <3>1, <3>2, <3>3, <3>4 DEF ArgFits, Supplies
  <2>9. CASE RefreshMatch(o)
    <3>1. task[o].pc = "match" /\ Plain(o, {"scan", "register"})
      BY <2>9, RefreshSteps DEF RefreshMatch, At
    <3>2. CASE task'[o].pc \in {"scan", "register"} /\ Kept(task[o], task'[o])
      BY <1>k, <2>1, <2>2, <3>1, <3>2 DEF ArgFits, Kept, Supplies
    <3> QED
      BY <3>1, <3>2, <1>z DEF Plain
  <2>10. CASE RefreshRegister(o)
    <3>1. task'[o].pc = "scan" /\ task'[o].todo = task[o].todo /\ task[o].pc = "register"
      BY <2>10, RefreshSteps DEF RefreshRegister, At
    <3> QED
      BY <1>k, <2>1, <2>2, <3>1 DEF ArgFits, Supplies
  <2>11. CASE RefreshEnd(o)
    BY <2>11, <1>z, RefreshSteps DEF Plain
  <2> QED
    BY <1>7, <2>b, <2>3, <2>4, <2>5, <2>6, <2>7, <2>8, <2>9, <2>10, <2>11 DEF RefreshStep
<1> QED
  BY <1>1, <1>2, <1>3, <1>4, <1>5, <1>6, <1>7 DEF TaskStep

(* The rows of managed models stay those of the catalog.                   *)
LEMMA KeepsRowFits ==
  ASSUME StoreTypes, Next
  PROVE  \A i \in Ids : Fits(i, row[i])'
<1>0. row \in [Ids -> Row \cup {None}] /\ \A i \in Ids : Fits(i, row[i])
  BY DEF StoreTypes, TableTypes, RowsFit
<1>u. ASSUME row' = row PROVE \A i \in Ids : Fits(i, row[i])'
  BY <1>0, <1>u DEF Fits
<1>1. ASSUME NEW o \in Ops, TaskStep(o) PROVE \A i \in Ids : Fits(i, row[i])'
  <2>0. RowMoves(o)
    BY <1>1, RowSteps
  <2>1. ASSUME NEW i \in Ids, row' = [row EXCEPT ![i] = None] PROVE \A j \in Ids : Fits(j, row[j])'
    BY <1>0, <2>1 DEF Fits
  <2>2. ASSUME NEW i \in Ids, row' = Flagged(i) PROVE \A j \in Ids : Fits(j, row[j])'
    BY <1>0, <2>2 DEF Flagged, Fits, Row
  <2>3. ASSUME NEW i \in Ids, NEW p \in Paths, NEW d \in Data, NEW s \in Stamps \cup {None},
               row' = Upserted(i, p, d, s)
        PROVE  \A j \in Ids : Fits(j, row[j])'
    BY <1>0, <2>3 DEF Upserted, Fits
  <2>4. ASSUME NEW i \in Ids, NEW s \in Stamps, row[i] # None,
               row' = [row EXCEPT ![i].stamp = s, ![i].flag = FALSE]
        PROVE  \A j \in Ids : Fits(j, row[j])'
    BY <1>0, <2>4 DEF Fits, Row
  <2>5. ASSUME NEW m \in Models, NEW source,
               row' = [row EXCEPT ![m] = [source |-> source, path |-> m, data |-> m,
                                          stamp |-> 0, flag |-> FALSE]]
        PROVE  \A j \in Ids : Fits(j, row[j])'
    BY <1>0, <2>5 DEF Fits
  <2> QED
    BY <1>u, <2>0, <2>1, <2>2, <2>3, <2>4, <2>5 DEF RowMoves
<1>2. CASE Reconcile
  <2>1. PICK locked \in SUBSET Ids : row' = [i \in Ids |-> Reconciled(row[i], i \in locked)]
    BY <1>2 DEF Reconcile
  <2>2. ASSUME NEW r \in Row \cup {None}, NEW i \in Ids, Fits(i, r)
        PROVE  Fits(i, Reconciled(r, i \in locked))
    BY <2>2 DEF Reconciled, Fits, Row
  <2>3. ASSUME NEW i \in Ids PROVE Fits(i, row'[i])
    BY <1>0, <2>1, <2>2
  <2> QED
    BY <2>3 DEF Fits
<1>3. ASSUME NEW o \in Ops, Calls(o) \/ RefreshCall(o) \/ Cancel(o) \/ RemoveCut(o) \/ WriteLands(o)
      PROVE  row' = row
  BY <1>3 DEF Calls, InstallCall, ImportCall, VerifyCall, RemoveCall, ImportUserCall, Call,
     RefreshCall, Cancel, RemoveCut, WriteLands, tables
<1>4. EditFile \/ Crash \/ Sweep => row' = row
  BY DEF EditFile, Crash, Sweep, tables
<1> QED
  BY <1>1, <1>2, <1>3, <1>4, <1>u DEF Next

LEMMA CallsFit ==
  ASSUME StoreTypes, NEW o \in Ops, Calls(o) \/ RefreshCall(o)
  PROVE  /\ Others(o) /\ ArgFits(o)' /\ SnapFits(o)' /\ staged' = staged
         /\ \A x \in Ops \ {o} : op'[x] = op[x]
<1>0. op \in [Ops -> Operations] /\ row \in [Ids -> Row \cup {None}] /\ Models \subseteq Ids
  BY DEF StoreTypes, TableTypes, Ids
<1>1. staged' = staged
  BY DEF Calls, InstallCall, ImportCall, VerifyCall, RemoveCall, ImportUserCall, Call, RefreshCall, folder
<1>2. ASSUME NEW r, op' = [op EXCEPT ![o] = r]
      PROVE  op'[o] = r /\ \A x \in Ops \ {o} : op'[x] = op[x]
  BY <1>0, <1>2
<1>3. ASSUME NEW m \in Models, InstallCall(o, m) \/ ImportCall(o, m)
      PROVE  /\ Others(o) /\ ArgFits(o)' /\ SnapFits(o)'
             /\ \A x \in Ops \ {o} : op'[x] = op[x]
  <2>1. Others(o) /\ task'[o].pc = "insert" /\ task'[o].arg = m
    BY <1>3, CallSteps
  <2>2. PICK k \in {"install", "import"} : op' = [op EXCEPT ![o] = [kind |-> k, model |-> m, state |-> "none"]]
    BY <1>3 DEF InstallCall, ImportCall, Call
  <2>3. /\ op'[o].kind \in {"install", "import"} /\ op'[o].model = m
        /\ \A x \in Ops \ {o} : op'[x] = op[x]
    BY <1>2, <2>2
  <2>4. ArgFits(o)' /\ SnapFits(o)'
    BY <2>1, <2>3 DEF ArgFits, SnapFits, Supplies
  <2> QED
    BY <2>1, <2>3, <2>4
<1>4. ASSUME NEW i \in Ids, VerifyCall(o, i)
      PROVE  /\ Others(o) /\ ArgFits(o)' /\ SnapFits(o)'
             /\ \A x \in Ops \ {o} : op'[x] = op[x]
  <2>1. /\ Others(o) /\ task'[o].pc = "insert" /\ task'[o].arg = i
        /\ task'[o].snap = [id |-> i, rec |-> row[i]] /\ task'[o].snap \in Snap
    BY <1>4, CallSteps
  <2>2. op' = [op EXCEPT ![o] = [kind |-> "verify", model |-> i, state |-> "none"]]
    BY <1>4 DEF VerifyCall
  <2>3. /\ op'[o].kind = "verify" /\ op'[o].model = i
        /\ \A x \in Ops \ {o} : op'[x] = op[x]
    BY <1>2, <2>2
  <2>4. ArgFits(o)'
    BY <2>1, <2>3 DEF ArgFits, Supplies
  <2>5. task'[o].snap.rec = row[i] /\ task'[o].snap.id = i
    BY <2>1
  <2>6. Fits(i, task'[o].snap.rec)
    BY <2>5 DEF StoreTypes, RowsFit
  <2>7. SnapFits(o)'
    BY <2>1, <2>3, <2>5, <2>6 DEF SnapFits, Fits
  <2> QED
    BY <2>1, <2>3, <2>4, <2>7
<1>5. ASSUME NEW i \in Ids, RemoveCall(o, i)
      PROVE  /\ Others(o) /\ ArgFits(o)' /\ SnapFits(o)'
             /\ \A x \in Ops \ {o} : op'[x] = op[x]
  <2>1. Others(o) /\ task'[o].pc = "lock" /\ task'[o].arg = i
    BY <1>5, CallSteps
  <2>2. op' = [op EXCEPT ![o] = [kind |-> "remove", model |-> i, state |-> "none"]]
    BY <1>5 DEF RemoveCall, Call
  <2>3. /\ op'[o].kind = "remove" /\ op'[o].model = i
        /\ \A x \in Ops \ {o} : op'[x] = op[x]
    BY <1>2, <2>2
  <2>4. ArgFits(o)' /\ SnapFits(o)'
    BY <2>1, <2>3 DEF ArgFits, SnapFits, Supplies
  <2> QED
    BY <2>1, <2>3, <2>4
<1>6. ASSUME ImportUserCall(o) \/ RefreshCall(o)
      PROVE  /\ Others(o) /\ ArgFits(o)' /\ SnapFits(o)'
             /\ \A x \in Ops \ {o} : op'[x] = op[x]
  <2>1. /\ Others(o) /\ task'[o].pc = "begin"
        /\ ImportUserCall(o) => task'[o].todo \subseteq Models \cup {Junk}
    BY <1>6, CallSteps
  <2>2. PICK k \in {"import_user", "refresh"} :
          /\ op' = [op EXCEPT ![o] = [kind |-> k, model |-> None, state |-> "queued"]]
          /\ k = "import_user" => ImportUserCall(o)
    BY <1>6 DEF ImportUserCall, RefreshCall
  <2>3. /\ op'[o].kind = k /\ op'[o].model = None
        /\ \A x \in Ops \ {o} : op'[x] = op[x]
    BY <1>2, <2>2
  <2>4. ArgFits(o)' /\ SnapFits(o)'
    BY <2>1, <2>2, <2>3 DEF ArgFits, SnapFits, Supplies
  <2> QED
    BY <2>1, <2>3, <2>4
<1> QED
  BY <1>1, <1>3, <1>4, <1>5, <1>6 DEF Calls

LEMMA Runs ==
  ASSUME NEW o \in Ops, TaskStep(o)
  PROVE  task[o].pc # "idle"
<1>1. CASE Insert(o) \/ DownloadStep(o)
  BY <1>1 DEF DownloadStep, Insert, DownloadBegin, Fetch, AnswerFails, AnswerWhole, AnswerRange,
     AnswerPastEnd, ChunkArrives, StreamBreaks, StreamEnds, HashPart, PromotePart, At
<1>2. CASE UploadStep(o) \/ ImportUserStep(o)
  BY <1>2 DEF UploadStep, ImportBegin, ImportReceived, ImportCut, ImportPromote, ImportUserStep,
     ImportUserBegin, ImportUserNext, ImportUserCopy, ImportUserSub, ImportUserPromote,
     ImportUserDropSub, ImportUserEnd, At
<1>3. CASE VerifyStep(o) \/ RemoveStep(o)
  BY <1>3 DEF VerifyStep, VerifyBegin, VerifyHash, VerifyJudge, VerifySaved, VerifyCondemn,
     RemoveStep, RemoveLock, RemoveLook, RemoveForget, RemoveMove, RemoveDelete, At
<1>4. CASE RefreshStep(o)
  BY <1>4 DEF RefreshStep, RefreshBegin, RefreshFolder, RefreshRow, RefreshRehash, RefreshStore, RefreshUnregister,
     RefreshCollect, RefreshHash, RefreshMatch, RefreshRegister, RefreshEnd, At
<1> QED
  BY <1>1, <1>2, <1>3, <1>4 DEF TaskStep

LEMMA KeepsHalted ==
  ASSUME StoreTypes, Halted, Next
  PROVE  Halted'
<1>1. ASSUME NEW o \in Ops, TaskStep(o) PROVE Halted'
  BY <1>1, Runs, WorldSteps DEF Halted
<1>2. ASSUME NEW o \in Ops, Calls(o) \/ RefreshCall(o) \/ Cancel(o) PROVE Halted'
  BY <1>2 DEF Halted, Calls, InstallCall, ImportCall, VerifyCall, RemoveCall, ImportUserCall, Call,
     RefreshCall, Cancel, world
<1>3. ASSUME NEW o \in Ops, RemoveCut(o) \/ WriteLands(o) PROVE Halted'
  BY <1>3 DEF Halted, RemoveCut, WriteLands, At, world
<1>4. CASE EditFile \/ Sweep \/ Reconcile
  BY <1>4 DEF Halted, EditFile, Sweep, Reconcile
<1>5. CASE Crash
  BY <1>5, IdleIs DEF Halted, Crash
<1> QED
  BY <1>1, <1>2, <1>3, <1>4, <1>5 DEF Next

(* No step takes what a task has in hand out of it.                        *)
LEMMA KeepsHands ==
  ASSUME StoreTypes, Halted, Next
  PROVE  \A x \in Ops : ArgFits(x)' /\ SnapFits(x)'
<1>1. ASSUME NEW o \in Ops, TaskStep(o) PROVE \A x \in Ops : ArgFits(x)' /\ SnapFits(x)'
  <2>1. Others(o) /\ (Leaves(o) \/ Stays(o)) /\ \A x \in Ops \ {o} : staged'[x] = staged[x]
    BY <1>1, TaskSteps, StagedSteps
  <2>2. \A x \in Ops \ {o} : op'[x].kind = op[x].kind /\ op'[x].model = op[x].model
    BY <2>1, SameOps
  <2> QED
    BY <1>1, <2>1, <2>2, OthersFit, HandFits
<1>2. ASSUME NEW o \in Ops, Calls(o) \/ RefreshCall(o) PROVE \A x \in Ops : ArgFits(x)' /\ SnapFits(x)'
  BY <1>2, CallsFit, OthersFit
<1>3. ASSUME NEW x \in Ops, op'[x].kind = op[x].kind, op'[x].model = op[x].model,
             \/ task' = task /\ (staged' = staged \/ task[x].pc = "idle")
             \/ task'[x].pc = "idle"
      PROVE  ArgFits(x)' /\ SnapFits(x)'
  <2>1. ArgFits(x) /\ SnapFits(x)
    BY DEF StoreTypes, ArgsFit, RowsFit
  <2>2. ArgFits(x)'
    BY <1>3, <2>1 DEF ArgFits, Supplies
  <2>3. SnapFits(x)'
    BY <1>3, <2>1 DEF SnapFits
  <2> QED
    BY <2>2, <2>3
<1>4. ASSUME NEW o \in Ops, Cancel(o) PROVE \A x \in Ops : ArgFits(x)' /\ SnapFits(x)'
  <2>1. \A x \in Ops : op'[x].kind = op[x].kind /\ op'[x].model = op[x].model
    BY <1>4 DEF Cancel, StoreTypes, TableTypes, Operations
  <2>2. task' = task /\ staged' = staged
    BY <1>4 DEF Cancel, folder
  <2> QED
    BY <2>1, <2>2, <1>3
<1>5. ASSUME NEW o \in Ops, RemoveCut(o) PROVE \A x \in Ops : ArgFits(x)' /\ SnapFits(x)'
  <2>1. op' = op /\ staged' = staged
    BY <1>5 DEF RemoveCut, tables, folder
  <2>2. Others(o) /\ task'[o].pc = "idle"
    BY <1>5, RemoveSteps DEF Plain
  <2>3. \A x \in Ops \ {o} : ArgFits(x)' /\ SnapFits(x)'
    BY <2>1, <2>2, OthersFit
  <2> QED
    BY <2>1, <2>2, <2>3, <1>3
<1>6. ASSUME NEW o \in Ops, WriteLands(o) PROVE \A x \in Ops : ArgFits(x)' /\ SnapFits(x)'
  BY <1>6, <1>3 DEF WriteLands, tables
<1>7. CASE EditFile \/ Reconcile
  BY <1>7, <1>3 DEF EditFile, Reconcile, tables
<1>8. CASE Crash
  BY <1>8, <1>3, IdleIs DEF Crash, tables
<1>9. CASE Sweep
  <2>1. \A x \in Ops : op'[x].kind = op[x].kind /\ op'[x].model = op[x].model
    BY <1>9 DEF Sweep, StoreTypes, TableTypes, Operations
  <2>2. task' = task /\ \A x \in Ops : task[x].pc = "idle"
    BY <1>9 DEF Sweep, Halted
  <2> QED
    BY <2>1, <2>2, <1>3
<1> QED
  BY <1>1, <1>2, <1>4, <1>5, <1>6, <1>7, <1>8, <1>9 DEF Next

LEMMA KeepsStoreTypes ==
  ASSUME StoreTypes /\ Halted, [Next]_vars
  PROVE  (StoreTypes /\ Halted)'
<1>1. CASE Next
  <2>1. TableTypes' /\ FolderTypes' /\ WorldTypes' /\ TaskTypes'
    BY <1>1, KeepsTableTypes, KeepsFolderTypes, KeepsWorldTypes, KeepsTaskTypes
  <2>2. ArgsFit' /\ RowsFit'
    BY <1>1, KeepsRowFits, KeepsHands DEF ArgsFit, RowsFit
  <2>3. Halted'
    BY <1>1, KeepsHalted
  <2> QED
    BY <2>1, <2>2, <2>3 DEF StoreTypes
<1>2. CASE UNCHANGED vars
  <2>1. TableTypes' /\ FolderTypes' /\ WorldTypes' /\ TaskTypes'
    BY <1>2 DEF StoreTypes, TableTypes, FolderTypes, WorldTypes, TaskTypes, vars, tables, folder, world
  <2>2. ArgsFit' /\ RowsFit'
    BY <1>2 DEF StoreTypes, ArgsFit, RowsFit, ArgFits, SnapFits, Fits, vars, tables, folder
  <2>3. Halted'
    BY <1>2 DEF Halted, vars, folder, world
  <2> QED
    BY <2>1, <2>2, <2>3 DEF StoreTypes
<1> QED
  BY <1>1, <1>2

(* What earlier runs left is a row of a catalog model's file, or a drop-in. *)
LEMMA LeftFits ==
  ASSUME NEW r \in LeftBehind
  PROVE  /\ r \in [Ids -> Row \cup {None}] /\ \A i \in Ids : Fits(i, r[i])
         /\ \A i \in Ids : r[i] # None => r[i].stamp = 0
<1>0. /\ 0 \in Stamps \cup {None} /\ FALSE \in BOOLEAN /\ Ids \subseteq Data /\ Models \subseteq Ids
      /\ Models \subseteq Paths /\ Drops \subseteq Paths
  BY BoundsAssumption DEF Stamps, Ids, Data, Paths
<1>1. ASSUME NEW i \in Ids, NEW s \in Sources, NEW p \in Paths PROVE Left(i, s, p) \in Row
  BY <1>0 DEF Left, Row
<1>2. CASE r = [i \in Ids |-> None]
  BY <1>2 DEF Fits
<1>3. ASSUME NEW m \in Models, NEW s \in {"catalog_download", "import_user"},
             r = [i \in Ids |-> IF i = m THEN Left(m, s, m) ELSE None]
      PROVE  /\ r \in [Ids -> Row \cup {None}] /\ \A i \in Ids : Fits(i, r[i])
             /\ \A i \in Ids : r[i] # None => r[i].stamp = 0
  <2>1. Left(m, s, m) \in Row
    BY <1>0, <1>1 DEF Sources
  <2>2. Fits(m, Left(m, s, m))
    BY DEF Fits, Left
  <2> QED
    BY <1>3, <2>1, <2>2 DEF Fits, Left
<1>4. ASSUME NEW d \in Ids, NEW p \in Drops,
             r = [i \in Ids |-> IF i = d THEN Left(d, "user_folder", p) ELSE None]
      PROVE  /\ r \in [Ids -> Row \cup {None}] /\ \A i \in Ids : Fits(i, r[i])
             /\ \A i \in Ids : r[i] # None => r[i].stamp = 0
  <2>1. Left(d, "user_folder", p) \in Row
    BY <1>0, <1>1 DEF Sources
  <2>2. Fits(d, Left(d, "user_folder", p))
    BY DEF Fits, Left
  <2> QED
    BY <1>4, <2>1, <2>2 DEF Fits, Left
<1> QED
  BY <1>2, <1>3, <1>4 DEF LeftBehind

LEMMA InitStoreTypes == Init => StoreTypes /\ Halted
<1> SUFFICES ASSUME Init PROVE StoreTypes /\ Halted
  OBVIOUS
<1>1. /\ row \in [Ids -> Row \cup {None}] /\ \A i \in Ids : Fits(i, row[i])
      /\ \A i \in Ids : row[i] # None => row[i].stamp = 0
  BY LeftFits DEF Init
<1>2. NoOp \in Operations
  BY DEF NoOp, Operations, Kinds, States
<1>3. TableTypes
  BY <1>1, <1>2 DEF Init, TableTypes
<1>4. FolderTypes
  <2>1. ASSUME NEW i \in Ids, row[i] # None PROVE Recorded(row[i]) \in File
    <3>1. row[i] \in Row /\ row[i].stamp = 0 /\ 0 \in Stamps
      BY <1>1, <2>1, BoundsAssumption DEF Stamps
    <3>2. row[i].data \in Data
      BY <3>1 DEF Row
    <3> QED
      BY <3>1, <3>2 DEF Recorded, File
  <2>2. \A p \in Paths : (IF \E i \in Ids : row[i] # None /\ row[i].path = p
                          THEN Recorded(row[CHOOSE i \in Ids : row[i] # None /\ row[i].path = p])
                          ELSE None) \in File \cup {None}
    BY <2>1
  <2>3. file \in [Paths -> File \cup {None}]
    BY <2>2 DEF Init
  <2> QED
    BY <2>3 DEF Init, FolderTypes
<1>5. WorldTypes
  BY BoundsAssumption DEF Init, WorldTypes, Stamps
<1>6. TaskTypes
  BY IdleIs DEF Init, TaskTypes
<1>7. \A o \in Ops : task[o].pc = "idle" /\ op[o].kind = "none" /\ late[o] = None
  BY IdleIs DEF Init, NoOp
<1>8. ArgsFit /\ RowsFit
  BY <1>1, <1>7 DEF ArgsFit, ArgFits, RowsFit, SnapFits, Supplies
<1>9. Halted
  BY DEF Init, Halted
<1> QED
  BY <1>3, <1>4, <1>5, <1>6, <1>8, <1>9 DEF StoreTypes

(* The tables, the folders and the tasks keep their types: no attempt is   *)
(* counted past the last backoff, no chunk past the catalog's size, and    *)
(* what a task has in hand is what the code at its place expects.          *)
THEOREM StoreTyped == Spec => []TypeOK
<1>1. StoreTypes => TypeOK
  BY DEF StoreTypes, TableTypes, FolderTypes, WorldTypes, TaskTypes, Tasks, TypeOK, Operations
<1> QED
  BY <1>1, InitStoreTypes, KeepsStoreTypes, PTL DEF Spec

(* Which operation takes which steps; a removal works without one.         *)
LEMMA StepKinds ==
  ASSUME NEW o \in Ops, TaskStep(o)
  PROVE  /\ UploadStep(o) => op[o].kind = "import"
         /\ \/ Insert(o) /\ task[o].pc = "insert"
            \/ /\ task[o].pc # "insert" /\ op[o].kind \in Kinds \ {"none"}
               /\ \/ DownloadStep(o) /\ op[o].kind = "install"
                  \/ UploadStep(o) /\ op[o].kind = "import"
                  \/ ImportUserStep(o) /\ op[o].kind = "import_user"
                  \/ VerifyStep(o) /\ op[o].kind = "verify"
                  \/ RemoveStep(o) /\ op[o].kind = "remove" /\ op' = op
                  \/ RefreshStep(o) /\ op[o].kind = "refresh"
<1>1. ASSUME Insert(o) PROVE task[o].pc = "insert"
  BY <1>1 DEF Insert
<1>2. ASSUME DownloadStep(o) PROVE op[o].kind = "install" /\ task[o].pc # "insert"
  BY <1>2 DEF DownloadStep, DownloadBegin, Fetch, AnswerFails, AnswerWhole, AnswerRange,
     AnswerPastEnd, ChunkArrives, StreamBreaks, StreamEnds, HashPart, PromotePart, At
<1>3. ASSUME UploadStep(o) PROVE op[o].kind = "import" /\ task[o].pc # "insert"
  BY <1>3 DEF UploadStep, ImportBegin, ImportReceived, ImportCut, ImportPromote, At
<1>4. ASSUME ImportUserStep(o) PROVE op[o].kind = "import_user" /\ task[o].pc # "insert"
  BY <1>4 DEF ImportUserStep, ImportUserBegin, ImportUserNext, ImportUserCopy, ImportUserSub,
     ImportUserPromote, ImportUserDropSub, ImportUserEnd, At
<1>5. ASSUME VerifyStep(o) PROVE op[o].kind = "verify" /\ task[o].pc # "insert"
  BY <1>5 DEF VerifyStep, VerifyBegin, VerifyHash, VerifyJudge, VerifySaved, VerifyCondemn, At
<1>6. ASSUME RemoveStep(o) PROVE op[o].kind = "remove" /\ task[o].pc # "insert" /\ op' = op
  BY <1>6 DEF RemoveStep, RemoveLock, RemoveLook, RemoveForget, RemoveMove, RemoveDelete, At, tables
<1>7. ASSUME RefreshStep(o) PROVE op[o].kind = "refresh" /\ task[o].pc # "insert"
  BY <1>7 DEF RefreshStep, RefreshBegin, RefreshFolder, RefreshRow, RefreshRehash, RefreshStore, RefreshUnregister,
     RefreshCollect, RefreshHash, RefreshMatch, RefreshRegister, RefreshEnd, At
<1> QED
  BY <1>1, <1>2, <1>3, <1>4, <1>5, <1>6, <1>7 DEF TaskStep, Kinds

(* What a step of a task does to the state of its operation.               *)
LEMMA OpStates ==
  ASSUME StoreTypes, StatesFit, NEW o \in Ops, TaskStep(o)
  PROVE  /\ op[o].kind # "none"
         /\ op[o].kind = "remove" => op' = op
         /\ task'[o].pc = "idle" => op'[o].state \notin ActiveStates
         /\ task'[o].pc # "idle" =>
              /\ task'[o].pc # "insert"
              /\ op[o].kind # "remove" => op'[o].state \in ActiveStates \cup {"cancelled"}
         /\ op'[o].state \in ActiveStates /\ op[o].state \notin ActiveStates =>
              Insert(o) /\ ~Active(Arg(o))
<1>0. op \in [Ops -> Operations] /\ StateFits(o) /\ task[o].pc # "idle"
  BY Runs DEF StoreTypes, TableTypes, StatesFit
<1>1. /\ op[o].kind # "none"
      /\ op[o].kind = "remove" => op[o].state = "none" /\ task[o].pc # "insert"
      /\ task[o].pc = "insert" => op[o].state = "none"
      /\ op[o].kind # "remove" /\ task[o].pc # "insert" => op[o].state \in ActiveStates \cup {"cancelled"}
  BY <1>0 DEF StateFits
<1>2. op[o].kind = "remove" => op' = op
  BY <1>1, StepKinds DEF Insert
<1>3. ASSUME NEW s, op' = Updated(o, s) PROVE op'[o].state = IF op[o].state = "cancelled" THEN "cancelled" ELSE s
  BY <1>0, <1>3 DEF Updated, Cancelled, Operations
<1>4. CASE Insert(o)
  <2>1. task[o].pc = "insert" /\ op[o].state = "none" /\ op[o].kind # "remove"
    BY <1>1, <1>4 DEF Insert
  <2>2. CASE op' = op
    <3>1. Quit(o)
      <4>1. ASSUME ~Quit(o) PROVE FALSE
        <5>1. PICK s \in {"running", "queued"} : op' = [op EXCEPT ![o].state = s]
          BY <1>4, <4>1 DEF Insert
        <5>2. op'[o].state = s
          BY <5>1, <1>0 DEF Operations
        <5> QED
          BY <2>1, <2>2, <5>2
      <4> QED
        BY <4>1
    <3>2. task'[o].pc = "idle"
      BY <3>1, Quits DEF StoreTypes
    <3> QED
      BY <1>1, <2>1, <2>2, <3>2 DEF ActiveStates
  <2>3. CASE op' # op
    <3>1. PICK s \in {"running", "queued"} : op' = [op EXCEPT ![o].state = s]
      BY <1>4, <2>3 DEF Insert
    <3>2. op'[o].state = s /\ ~Active(Arg(o)) /\ Goto(o, "begin")
      BY <1>4, <2>3, <3>1, <1>0 DEF Insert, Operations
    <3>3. task'[o].pc = "begin"
      BY <3>2, Goes DEF StoreTypes, Places
    <3> QED
      BY <1>1, <1>4, <2>1, <3>2, <3>3 DEF ActiveStates
  <2> QED
    BY <2>2, <2>3
<1>5. CASE ~Insert(o)
  <2>1. task[o].pc # "insert"
    BY <1>5, StepKinds
  <2>2. CASE task'[o].pc = "idle" /\ Leaves(o)
    <3>1. op'[o].state \notin ActiveStates
      BY <1>1, <1>3, <2>1, <2>2 DEF Leaves, ActiveStates
    <3> QED
      BY <1>1, <1>2, <2>2, <3>1
  <2>3. CASE task'[o].pc \notin {"idle", "insert"} /\ Stays(o)
    <3>1. op'[o].state = op[o].state \/ op' = Updated(o, "running")
      BY <1>5, <2>3 DEF Stays
    <3>2. op[o].kind # "remove" => op'[o].state \in ActiveStates \cup {"cancelled"}
      BY <1>1, <1>3, <2>1, <3>1 DEF ActiveStates
    <3>3. op'[o].state \in ActiveStates => op[o].state \in ActiveStates
      BY <1>1, <1>2, <1>3, <2>1, <3>1 DEF ActiveStates
    <3> QED
      BY <1>1, <1>2, <2>3, <3>2, <3>3
  <2> QED
    BY <2>2, <2>3, TaskSteps
<1> QED
  BY <1>4, <1>5

(* An operation that ends leaves nothing staged and no sub-operation.      *)
LEMMA LeftOver ==
  ASSUME StoreTypes, StatesFit, NEW o \in Ops, TaskStep(o), server = "up"
  PROVE  /\ \A x \in Ops \ {o} : staged'[x] = staged[x] /\ sub'[x] = sub[x]
         /\ staged'[o] # None => op[o].kind = "import" /\ task'[o].pc # "idle"
         /\ sub'[o] # None => op[o].kind = "import_user" /\ task'[o].pc \in {"promote", "drop"}
<1>0. /\ staged \in [Ops -> Models \cup {Junk, None}] /\ sub \in [Ops -> Models \cup {None}]
      /\ StateFits(o) /\ task[o].pc # "idle"
  BY Runs DEF StoreTypes, TableTypes, FolderTypes, StatesFit
<1>1. \A x \in Ops \ {o} : staged'[x] = staged[x] /\ sub'[x] = sub[x]
  BY <1>0, StagedSteps, SubSteps
<1>2. staged'[o] # None => op[o].kind = "import" /\ task'[o].pc # "idle"
  <2>1. CASE UploadStep(o)
    <3>1. op[o].kind = "import"
      BY <2>1, StepKinds
    <3>2. CASE staged'[o] # None
      <4>1. ImportBegin(o) \/ (ImportReceived(o) /\ Goto(o, "promote"))
        BY <1>0, <2>1, <3>2 DEF UploadStep, ImportReceived, ImportCut, ImportPromote, GuardDrops
      <4>2. Goto(o, "receive") \/ Goto(o, "promote")
        BY <4>1 DEF ImportBegin
      <4> QED
        BY <3>1, <4>2, Goes DEF StoreTypes, Places
    <3> QED
      BY <3>2
  <2>2. CASE ~UploadStep(o)
    <3>1. staged' = staged
      BY <2>2, StagedSteps
    <3>2. CASE staged[o] # None
      <4>1. op[o].kind = "import" /\ task[o].pc # "insert"
        BY <1>0, <3>2 DEF StateFits, ActiveStates
      <4> QED
        BY <2>2, <4>1, StepKinds
    <3> QED
      BY <3>1, <3>2
  <2> QED
    BY <2>1, <2>2
<1>3. sub'[o] # None => op[o].kind = "import_user" /\ task'[o].pc \in {"promote", "drop"}
  <2>1. CASE At(o, "import_user", "sub") /\ sub' = [sub EXCEPT ![o] = task[o].arg]
    <3>1. ImportUserSub(o)
      <4>1. op[o].kind = "import_user" /\ task[o].pc = "sub"
        BY <2>1 DEF At
      <4> QED
        BY <4>1, StepKinds DEF ImportUserStep, ImportUserBegin, ImportUserNext, ImportUserCopy,
           ImportUserPromote, ImportUserDropSub, ImportUserEnd, At
    <3>2. task'[o].pc = "promote"
      BY <3>1, Goes DEF ImportUserSub, StoreTypes, Places
    <3> QED
      BY <2>1, <3>2 DEF At
  <2>2. CASE sub' = [sub EXCEPT ![o] = None]
    BY <1>0, <2>2
  <2>3. CASE sub' = sub /\ sub[o] # None
    <3>1. op[o].kind = "import_user" /\ task[o].pc \in {"promote", "drop"}
      BY <1>0, <2>3 DEF StateFits
    <3>2. ImportUserPromote(o) \/ ImportUserDropSub(o)
      BY <3>1, StepKinds DEF ImportUserStep, ImportUserBegin, ImportUserNext, ImportUserCopy,
         ImportUserSub, ImportUserEnd, At
    <3>3. CASE ImportUserPromote(o)
      <4>1. task'[o].pc = "drop"
        BY <3>3, Goes DEF ImportUserPromote, StoreTypes, Places
      <4> QED
        BY <3>1, <4>1
    <3>4. CASE ImportUserDropSub(o)
      BY <1>0, <3>4 DEF ImportUserDropSub
    <3> QED
      BY <3>2, <3>3, <3>4
  <2> QED
    BY <2>1, <2>2, <2>3, SubSteps
<1> QED
  BY <1>1, <1>2, <1>3

(* A call takes an operation that nobody had.                              *)
LEMMA CallStates ==
  ASSUME StoreTypes, StatesFit, NEW o \in Ops, Calls(o) \/ RefreshCall(o)
  PROVE  /\ op[o].kind = "none" /\ op[o].model = op[o].model /\ server = "up"
         /\ task'[o].pc \in {"insert", "lock", "begin"}
         /\ op'[o].kind \in Kinds \ {"none"}
         /\ \/ op'[o].state = "none" /\ task'[o].pc = "insert" /\ op'[o].kind # "remove"
            \/ op'[o].state = "none" /\ task'[o].pc = "lock" /\ op'[o].kind = "remove"
            \/ /\ op'[o].state = "queued" /\ op'[o].model = None /\ task'[o].pc = "begin"
               /\ op'[o].kind \in {"import_user", "refresh"}
<1>0. op \in [Ops -> Operations]
  BY DEF StoreTypes, TableTypes
<1>1. server = "up" /\ op[o].kind = "none"
  BY DEF Calls, InstallCall, ImportCall, VerifyCall, RemoveCall, ImportUserCall, Call, RefreshCall, Unused
<1>2. CASE \E m \in Models : InstallCall(o, m) \/ ImportCall(o, m)
  <2>1. PICK m \in Models : InstallCall(o, m) \/ ImportCall(o, m)
    BY <1>2
  <2>2. PICK k \in {"install", "import"} : op' = [op EXCEPT ![o] = [kind |-> k, model |-> m, state |-> "none"]]
    BY <2>1 DEF InstallCall, ImportCall, Call
  <2>3. op'[o].kind = k /\ op'[o].state = "none"
    BY <2>2, <1>0
  <2>4. task'[o].pc = "insert"
    BY <2>1, CallSteps
  <2> QED
    BY <1>1, <2>3, <2>4 DEF Kinds
<1>3. CASE \E i \in Ids : VerifyCall(o, i)
  <2>1. PICK i \in Ids : VerifyCall(o, i)
    BY <1>3
  <2>2. op' = [op EXCEPT ![o] = [kind |-> "verify", model |-> i, state |-> "none"]]
    BY <2>1 DEF VerifyCall
  <2>3. op'[o].kind = "verify" /\ op'[o].state = "none"
    BY <2>2, <1>0
  <2>4. task'[o].pc = "insert"
    BY <2>1, CallSteps
  <2> QED
    BY <1>1, <2>3, <2>4 DEF Kinds
<1>4. CASE \E i \in Ids : RemoveCall(o, i)
  <2>1. PICK i \in Ids : RemoveCall(o, i)
    BY <1>4
  <2>2. op' = [op EXCEPT ![o] = [kind |-> "remove", model |-> i, state |-> "none"]]
    BY <2>1 DEF RemoveCall, Call
  <2>3. op'[o].kind = "remove" /\ op'[o].state = "none"
    BY <2>2, <1>0
  <2>4. task'[o].pc = "lock"
    BY <2>1, CallSteps
  <2> QED
    BY <1>1, <2>3, <2>4 DEF Kinds
<1>5. CASE ImportUserCall(o) \/ RefreshCall(o)
  <2>2. PICK k \in {"import_user", "refresh"} :
          op' = [op EXCEPT ![o] = [kind |-> k, model |-> None, state |-> "queued"]]
    BY <1>5 DEF ImportUserCall, RefreshCall
  <2>3. op'[o].kind = k /\ op'[o].model = None /\ op'[o].state = "queued"
    BY <2>2, <1>0
  <2>4. task'[o].pc = "begin"
    BY <1>5, CallSteps
  <2> QED
    BY <1>1, <2>3, <2>4 DEF Kinds
<1> QED
  BY <1>2, <1>3, <1>4, <1>5 DEF Calls

(* The start fails what was under way, and keeps the rest.                 *)
LEMMA SweptStates ==
  ASSUME StoreTypes, Sweep, NEW x \in Ops
  PROVE  /\ op'[x].kind = op[x].kind /\ op'[x].model = op[x].model
         /\ op'[x].state = IF op[x].state \in ActiveStates THEN "failed" ELSE op[x].state
         /\ op'[x].state \notin ActiveStates
         /\ sub'[x] = None /\ task' = task /\ server' = "swept" /\ server = "down"
         /\ staged'[x] # None => \/ staged'[x] = staged[x] /\ op[x].state \notin ActiveStates
                                 \/ op[x].kind # "import"
<1>1. op \in [Ops -> Operations]
  BY DEF StoreTypes, TableTypes
<1>2. op'[x] = IF op[x].state \in ActiveStates THEN [op[x] EXCEPT !.state = "failed"] ELSE op[x]
  BY DEF Sweep
<1>3. /\ op'[x].kind = op[x].kind /\ op'[x].model = op[x].model
      /\ op'[x].state = IF op[x].state \in ActiveStates THEN "failed" ELSE op[x].state
  BY <1>1, <1>2 DEF Operations
<1> QED
  BY <1>3 DEF Sweep, ActiveStates

LEMMA KeepsStatesFit ==
  ASSUME StoreTypes, Halted, StatesFit, Next
  PROVE  StatesFit'
<1>0. /\ op \in [Ops -> Operations] /\ \A x \in Ops : StateFits(x)
      /\ staged \in [Ops -> Models \cup {Junk, None}]
  BY DEF StoreTypes, TableTypes, FolderTypes, StatesFit
<1>s. ASSUME NEW x \in Ops, op'[x] = op[x], task'[x].pc = task[x].pc, staged'[x] = staged[x],
             sub'[x] = sub[x], server' = server
      PROVE  StateFits(x)'
  BY <1>0, <1>s DEF StateFits
<1>1. ASSUME NEW o \in Ops, TaskStep(o) PROVE StatesFit'
  <2>1. server = "up" /\ server' = "up"
    BY <1>1, Runs, WorldSteps DEF Halted
  <2>2. Others(o) /\ \A x \in Ops : /\ op'[x].kind = op[x].kind
                                    /\ x # o => op'[x] = op[x]
    BY <1>1, TaskSteps, SameOps
  <2>3. \A x \in Ops \ {o} : StateFits(x)'
    BY <1>1, <1>s, <2>1, <2>2, LeftOver DEF Others
  <2>4. StateFits(o)'
    <3>1. /\ op[o].kind # "none"
          /\ op[o].kind = "remove" => op' = op /\ op[o].state = "none"
          /\ task'[o].pc = "idle" => op'[o].state \notin ActiveStates
          /\ task'[o].pc # "idle" =>
               /\ task'[o].pc # "insert"
               /\ op[o].kind # "remove" => op'[o].state \in ActiveStates \cup {"cancelled"}
      BY <1>0, <1>1, OpStates DEF StateFits
    <3>2. /\ staged'[o] # None => op[o].kind = "import" /\ task'[o].pc # "idle"
          /\ sub'[o] # None => op[o].kind = "import_user" /\ task'[o].pc \in {"promote", "drop"}
      BY <1>1, <2>1, LeftOver
    <3> QED
      BY <2>2, <3>1, <3>2 DEF StateFits
  <2> QED
    BY <2>3, <2>4 DEF StatesFit
<1>2. ASSUME NEW o \in Ops, Calls(o) \/ RefreshCall(o) PROVE StatesFit'
  <2>1. UNCHANGED <<sub, staged, server>>
    BY <1>2 DEF Calls, InstallCall, ImportCall, VerifyCall, RemoveCall, ImportUserCall, Call,
       RefreshCall, folder, world
  <2>2. \A x \in Ops \ {o} : StateFits(x)'
    BY <1>2, <1>s, <2>1, CallsFit DEF Others
  <2>3. op[o].kind = "none" /\ server = "up"
    BY <1>2, CallStates
  <2>4. staged[o] = None /\ sub[o] = None
    BY <1>0, <2>3 DEF StateFits
  <2>5. /\ op'[o].kind \in Kinds \ {"none"}
        /\ \/ op'[o].state = "none" /\ task'[o].pc = "insert" /\ op'[o].kind # "remove"
           \/ op'[o].state = "none" /\ task'[o].pc = "lock" /\ op'[o].kind = "remove"
           \/ /\ op'[o].state = "queued" /\ task'[o].pc = "begin"
              /\ op'[o].kind \in {"import_user", "refresh"}
    BY <1>2, CallStates
  <2>6. StateFits(o)'
    BY <2>1, <2>4, <2>5 DEF StateFits, ActiveStates
  <2> QED
    BY <2>2, <2>6 DEF StatesFit
<1>3. ASSUME NEW o \in Ops, Cancel(o) PROVE StatesFit'
  <2>1. /\ UNCHANGED <<task, sub, staged, server>> /\ op[o].state \in ActiveStates
        /\ op' = [op EXCEPT ![o].state = "cancelled"]
    BY <1>3 DEF Cancel, folder, world
  <2>2. /\ op'[o].kind = op[o].kind /\ op'[o].state = "cancelled"
        /\ \A x \in Ops \ {o} : op'[x] = op[x]
    BY <1>0, <2>1 DEF Operations
  <2>3. \A x \in Ops \ {o} : StateFits(x)'
    BY <1>s, <2>1, <2>2
  <2>4. StateFits(o)'
    BY <1>0, <2>1, <2>2 DEF StateFits, ActiveStates
  <2> QED
    BY <2>3, <2>4 DEF StatesFit
<1>4. ASSUME NEW o \in Ops, RemoveCut(o) PROVE StatesFit'
  <2>1. UNCHANGED <<op, sub, staged, server>> /\ op[o].kind = "remove"
    BY <1>4 DEF RemoveCut, tables, folder, world, At
  <2>2. Others(o) /\ task'[o].pc = "idle"
    BY <1>4, RemoveSteps DEF Plain
  <2>3. \A x \in Ops \ {o} : StateFits(x)'
    BY <1>s, <2>1, <2>2 DEF Others
  <2>4. StateFits(o)'
    BY <1>0, <2>1, <2>2 DEF StateFits, ActiveStates
  <2> QED
    BY <2>3, <2>4 DEF StatesFit
<1>5. ASSUME NEW o \in Ops, WriteLands(o) PROVE StatesFit'
  BY <1>5, <1>s DEF WriteLands, tables, world, StatesFit
<1>6. CASE EditFile
  BY <1>6, <1>s DEF EditFile, tables, StatesFit
<1>7. CASE Crash
  <2>1. /\ UNCHANGED <<op, sub>> /\ server' = "down" /\ \A x \in Ops : task'[x].pc = "idle"
    BY <1>7, IdleIs DEF Crash, tables
  <2>2. \A x \in Ops : staged'[x] # None => staged[x] # None
    BY <1>0, <1>7 DEF Crash, HalfPromoted
  <2>3. ASSUME NEW x \in Ops PROVE StateFits(x)'
    BY <1>0, <2>1, <2>2 DEF StateFits
  <2> QED
    BY <2>3 DEF StatesFit
<1>8. CASE Sweep
  <2>1. ASSUME NEW x \in Ops PROVE StateFits(x)'
    <3>1. /\ op'[x].kind = op[x].kind
          /\ op'[x].state = IF op[x].state \in ActiveStates THEN "failed" ELSE op[x].state
          /\ op'[x].state \notin ActiveStates
          /\ sub'[x] = None /\ task' = task /\ server' = "swept"
          /\ staged'[x] # None => \/ staged'[x] = staged[x] /\ op[x].state \notin ActiveStates
                                  \/ op[x].kind # "import"
      BY <1>8, SweptStates
    <3>2. task[x].pc = "idle"
      BY <1>8 DEF Sweep, Halted
    <3>3. staged'[x] # None => staged[x] # None
      BY <1>8 DEF Sweep
    <3> QED
      BY <1>0, <3>1, <3>2, <3>3 DEF StateFits, ActiveStates
  <2> QED
    BY <2>1 DEF StatesFit
<1>9. CASE Reconcile
  <2>1. UNCHANGED <<op, sub, staged, task>> /\ server = "swept" /\ server' = "up"
    BY <1>9 DEF Reconcile
  <2>2. ASSUME NEW x \in Ops PROVE StateFits(x)'
    <3>1. task[x].pc = "idle"
      BY <2>1 DEF Halted
    <3> QED
      BY <1>0, <2>1, <3>1 DEF StateFits, ActiveStates
  <2> QED
    BY <2>2 DEF StatesFit
<1> QED
  BY <1>1, <1>2, <1>3, <1>4, <1>5, <1>6, <1>7, <1>8, <1>9 DEF Next

(* The check and the INSERT are one critical section, so the second of two *)
(* operations on a model is refused.                                       *)
LEMMA KeepsAlone ==
  ASSUME StoreTypes, Halted, StatesFit, Alone, Next
  PROVE  Alone'
<1>0. op \in [Ops -> Operations]
  BY DEF StoreTypes, TableTypes
<1>e. ASSUME \A x \in Ops : /\ op'[x].model = op[x].model
                            /\ op'[x].state \in ActiveStates => op[x].state \in ActiveStates
      PROVE  Alone'
  BY <1>e DEF Alone
<1>1. ASSUME NEW o \in Ops, TaskStep(o) PROVE Alone'
  <2>1. \A x \in Ops : op'[x].model = op[x].model /\ (x # o => op'[x] = op[x])
    BY <1>1, TaskSteps, SameOps
  <2>2. CASE op'[o].state \in ActiveStates => op[o].state \in ActiveStates
    BY <1>e, <2>1, <2>2
  <2>3. CASE Insert(o) /\ ~Active(Arg(o))
    <3>1. task[o].pc = "insert" /\ StateFits(o) /\ ArgFits(o)
      BY <2>3 DEF Insert, StatesFit, StoreTypes, ArgsFit
    <3>2. op[o].kind \in {"install", "import", "verify"}
      BY <1>0, <3>1 DEF StateFits, ArgFits, Operations, Kinds
    <3>3. op[o].model = Arg(o)
      BY <3>1, <3>2 DEF ArgFits, Supplies, Arg
    <3>4. \A x \in Ops : op[x].model = op[o].model => op[x].state \notin ActiveStates
      BY <2>3, <3>3 DEF Active
    <3> QED
      BY <2>1, <3>4 DEF Alone
  <2> QED
    BY <1>1, <2>2, <2>3, OpStates
<1>2. ASSUME NEW o \in Ops, Calls(o) \/ RefreshCall(o) PROVE Alone'
  <2>1. \A x \in Ops \ {o} : op'[x] = op[x]
    BY <1>2, CallsFit
  <2>2. op'[o].state \in ActiveStates => op'[o].model = None
    BY <1>2, CallStates DEF ActiveStates
  <2> QED
    BY <2>1, <2>2 DEF Alone
<1>3. ASSUME NEW o \in Ops, Cancel(o) PROVE Alone'
  <2>1. op' = [op EXCEPT ![o].state = "cancelled"]
    BY <1>3 DEF Cancel
  <2> QED
    BY <1>0, <1>e, <2>1 DEF Operations, ActiveStates
<1>4. CASE Sweep
  BY <1>4, <1>e, SweptStates
<1>5. ASSUME op' = op PROVE Alone'
  BY <1>5, <1>e
<1> QED
  BY <1>1, <1>2, <1>3, <1>4, <1>5 DEF Next, RemoveCut, WriteLands, EditFile, Crash, Reconcile, tables

LEMMA KeepsLockHeld ==
  ASSUME StoreTypes, LockHeld, StatesFit, Next
  PROVE  LockHeld'
<1> DEFINE Inside == {"look", "move", "forget", "delete"}
<1>1. ASSUME NEW o \in Ops, TaskStep(o) PROVE LockHeld'
  <2>1. /\ Others(o) /\ \A x \in Ops : /\ op'[x].kind = op[x].kind
                                       /\ x # o => op'[x] = op[x]
    BY <1>1, TaskSteps, SameOps
  <2>2. CASE RemoveStep(o)
    <3>1. task[o].pc \in Inside => selection = o
      BY <2>2 DEF LockHeld, RemoveStep, RemoveLock, RemoveLook, RemoveForget, RemoveMove, RemoveDelete, At
    <3>2. task'[o].pc \in Inside => selection' = o
      <4>1. CASE RemoveLock(o)
        <5>1. selection' = o \/ Quit(o)
          BY <4>1 DEF RemoveLock
        <5> QED
          BY <5>1, Quits DEF StoreTypes
      <4>2. CASE ~RemoveLock(o)
        <5>1. task[o].pc \in Inside
          BY <2>2, <4>2 DEF RemoveStep, RemoveLook, RemoveForget, RemoveMove, RemoveDelete, At
        <5>2. selection' = selection \/ Release(o)
          BY <2>2, <4>2 DEF RemoveStep, RemoveLook, RemoveForget, RemoveMove, RemoveDelete, world
        <5>3. Release(o) => task'[o].pc = "idle"
          BY Quits DEF Release, StoreTypes
        <5> QED
          BY <3>1, <5>1, <5>2, <5>3
      <4> QED
        BY <4>1, <4>2
    <3>3. selection' # selection => selection \in {o, None}
      <4>1. CASE RemoveLock(o)
        BY <4>1 DEF RemoveLock
      <4>2. CASE ~RemoveLock(o)
        BY <2>2, <3>1, <4>2 DEF RemoveStep, RemoveLook, RemoveForget, RemoveMove, RemoveDelete, At
      <4> QED
        BY <4>1, <4>2
    <3>4. ASSUME NEW x \in Ops \ {o}, op[x].kind = "remove", task[x].pc \in Inside
          PROVE  selection' = x
      <4>1. selection = x /\ x # None
        BY <3>4, NoneAssumption DEF LockHeld
      <4> QED
        BY <3>3, <4>1
    <3> QED
      BY <2>1, <3>2, <3>4 DEF LockHeld, Others
  <2>3. CASE ~RemoveStep(o)
    <3>1. Insert(o) \/ op[o].kind # "remove"
      BY <1>1, <2>3, StepKinds
    <3>2. op[o].kind # "remove"
      BY <3>1 DEF Insert, StatesFit, StateFits
    <3>3. selection' = selection
      BY <1>1, <3>2, WorldSteps
    <3> QED
      BY <2>1, <3>2, <3>3 DEF LockHeld, Others
  <2> QED
    BY <2>2, <2>3
<1>2. ASSUME NEW o \in Ops, Calls(o) \/ RefreshCall(o) PROVE LockHeld'
  <2>1. selection' = selection
    BY <1>2 DEF Calls, InstallCall, ImportCall, VerifyCall, RemoveCall, ImportUserCall, Call,
       RefreshCall, world
  <2>2. Others(o) /\ \A x \in Ops \ {o} : op'[x] = op[x]
    BY <1>2, CallsFit
  <2>3. task'[o].pc \notin Inside
    BY <1>2, CallStates
  <2> QED
    BY <2>1, <2>2, <2>3 DEF LockHeld, Others
<1>3. ASSUME NEW o \in Ops, RemoveCut(o) PROVE LockHeld'
  <2>1. Others(o) /\ task'[o].pc = "idle" /\ op' = op
    BY <1>3, RemoveSteps DEF Plain, RemoveCut, tables
  <2>2. selection' = selection \/ selection = o
    BY <1>3 DEF RemoveCut, LockHeld, At, world
  <2> QED
    BY <2>1, <2>2 DEF LockHeld, Others
<1>4. ASSUME NEW o \in Ops, Cancel(o) PROVE LockHeld'
  <2>1. \A x \in Ops : op'[x].kind = op[x].kind
    BY <1>4 DEF Cancel, StoreTypes, TableTypes, Operations
  <2> QED
    BY <1>4, <2>1 DEF Cancel, LockHeld, world
<1>5. ASSUME NEW o \in Ops, WriteLands(o) PROVE LockHeld'
  BY <1>5 DEF WriteLands, LockHeld, tables, world
<1>6. CASE EditFile \/ Reconcile
  BY <1>6 DEF EditFile, Reconcile, LockHeld, tables
<1>7. CASE Crash
  BY <1>7, IdleIs DEF Crash, LockHeld
<1>8. CASE Sweep
  BY <1>8, SweptStates DEF Sweep, LockHeld
<1> QED
  BY <1>1, <1>2, <1>3, <1>4, <1>5, <1>6, <1>7, <1>8 DEF Next

LEMMA KeepsStoreInv ==
  ASSUME StoreInv, [Next]_vars
  PROVE  StoreInv'
<1>1. CASE Next
  BY <1>1, KeepsStoreTypes, KeepsStatesFit, KeepsAlone, KeepsLockHeld DEF StoreInv
<1>2. CASE UNCHANGED vars
  <2>1. StatesFit' /\ Alone' /\ LockHeld'
    BY <1>2 DEF StoreInv, StatesFit, StateFits, Alone, LockHeld, vars, tables, folder, world
  <2> QED
    BY <1>2, <2>1, KeepsStoreTypes DEF StoreInv
<1> QED
  BY <1>1, <1>2

LEMMA InitStoreInv == Init => StoreInv
<1> SUFFICES ASSUME Init PROVE StoreInv
  OBVIOUS
<1>1. \A o \in Ops : /\ task[o].pc = "idle" /\ op[o].kind = "none" /\ op[o].state = "none"
                     /\ op[o].model = None /\ staged[o] = None /\ sub[o] = None
  BY IdleIs DEF Init, NoOp
<1> QED
  BY <1>1, InitStoreTypes DEF StoreInv, StatesFit, StateFits, Alone, LockHeld, ActiveStates

(* The tables, the folders, the tasks, the states of operations and the    *)
(* selection lock fit each other in every reachable state.                 *)
THEOREM StoreInvariant == Spec => []StoreInv
  BY InitStoreInv, KeepsStoreInv, PTL DEF Spec

(* Nothing is left behind by a task that ended, however it ended: while    *)
(* the server serves, an operation under way has its task, a sub-operation *)
(* its import, and a staged upload its handler or a cancelled import.      *)
THEOREM NothingIsOrphaned == Spec => []NothingOrphaned
<1>1. StoreInv => NothingOrphaned
  <2> SUFFICES ASSUME StoreInv, server = "up", NEW o \in Ops
               PROVE  /\ op[o].state \in ActiveStates => task[o] # Idle
                      /\ sub[o] # None => At(o, "import_user", "promote") \/ At(o, "import_user", "drop")
                      /\ staged[o] # None => task[o] # Idle \/ Cancelled(o)
    BY DEF NothingOrphaned
  <2>1. StateFits(o)
    BY DEF StoreInv, StatesFit
  <2> QED
    BY <2>1, IdleIs DEF StateFits, ActiveStates, At, Cancelled
<1> QED
  BY <1>1, StoreInvariant, PTL

-----------------------------------------------------------------------------
(* The ledger that the tables implement.                                   *)
Outcome(o) == IF op[o].state \in ActiveStates THEN "pending" ELSE op[o].state
Shelf == {m \in Models : Managed(row[m])}
SameSorts == \A x \in Ops : Sort(op'[x].kind) = Sort(op[x].kind)
OthersEnd(o) == \A x \in Ops \ {o} : Outcome(x)' = Outcome(x)

(* What makes a step of the tables one of the ledger.                      *)
LEMMA IsEnded ==
  ASSUME NEW o \in Ops, NEW s \in {"completed", "failed", "cancelled"}, SameSorts, OthersEnd(o),
         Outcome(o) = "pending", Outcome(o)' = s,
         Sort(op[o].kind) = "supply" => s # "completed",
         \/ Shelf' = Shelf
         \/ Sort(op[o].kind) = "other" /\ Shelf' \subseteq Shelf
  PROVE  Ledger!Ended(o)
  BY DEF Ledger!Ended, Ledger!Ends, SameSorts, OthersEnd, Outcome, Shelf

LEMMA IsAccepted ==
  ASSUME NEW o \in Ops, SameSorts, OthersEnd(o), Sort(op[o].kind) # "none",
         Outcome(o) = "none", Outcome(o)' = "pending", Shelf' = Shelf
  PROVE  Ledger!Accepted(o)
  BY DEF Ledger!Accepted, SameSorts, OthersEnd, Outcome, Shelf

LEMMA IsSupplied ==
  ASSUME NEW o \in Ops, NEW m \in Models, SameSorts, OthersEnd(o),
         m \notin Shelf, Shelf' = Shelf \cup {m},
         \/ /\ Sort(op[o].kind) = "supply"
            /\ Outcome(o) = "pending" /\ Outcome(o)' = "completed"
         \/ /\ Sort(op[o].kind) = "batch" /\ Outcome(o) \in {"pending", "cancelled"}
            /\ Outcome(o)' = Outcome(o)
  PROVE  Ledger!Supplied(o, m)
  BY DEF Ledger!Supplied, SameSorts, OthersEnd, Outcome, Shelf

LEMMA IsWithdrawn ==
  ASSUME SameSorts, \A x \in Ops : Outcome(x)' = Outcome(x), Shelf' \subseteq Shelf
  PROVE  Ledger!Withdrawn
  BY DEF Ledger!Withdrawn, SameSorts, Outcome, Shelf

LEMMA IsAsked ==
  ASSUME NEW o \in Ops, Sort(op[o].kind) = "none", Sort(op'[o].kind) \in {"supply", "batch", "other"},
         \A x \in Ops \ {o} : Sort(op'[x].kind) = Sort(op[x].kind),
         OthersEnd(o), Outcome(o)' \in {Outcome(o), "pending"}, Shelf' = Shelf
  PROVE  Ledger!Asked(o)
  BY DEF Ledger!Asked, Ledger!Sorts, OthersEnd, Outcome, Shelf

LEMMA IsInterrupted ==
  ASSUME SameSorts, Shelf' = Shelf,
         \A x \in Ops : Outcome(x)' = IF Outcome(x) = "pending" THEN "failed" ELSE Outcome(x)
  PROVE  Ledger!Interrupted
  BY DEF Ledger!Interrupted, SameSorts, Outcome, Shelf

(* Without a promotion models only leave the shelf.                        *)
LEMMA ShelfShrinks ==
  ASSUME StoreTypes, NEW o \in Ops, RowMoves(o), task[o].pc # "promote"
  PROVE  Shelf' \subseteq Shelf
<1>0. row \in [Ids -> Row \cup {None}] /\ Models \subseteq Ids
  BY DEF StoreTypes, TableTypes, Ids
<1>1. ASSUME NEW i \in Ids, row' = [row EXCEPT ![i] = None] PROVE Shelf' \subseteq Shelf
  BY <1>0, <1>1 DEF Shelf, Managed
<1>2. ASSUME NEW i \in Ids, row' = Flagged(i) PROVE Shelf' \subseteq Shelf
  BY <1>0, <1>2 DEF Shelf, Managed, Flagged, Row
<1>3. ASSUME NEW i \in Ids, NEW p, NEW d, NEW s, row' = Upserted(i, p, d, s) PROVE Shelf' \subseteq Shelf
  BY <1>0, <1>3 DEF Shelf, Managed, Upserted
<1>4. ASSUME NEW i \in Ids, NEW s, row[i] # None, row' = [row EXCEPT ![i].stamp = s, ![i].flag = FALSE]
      PROVE  Shelf' \subseteq Shelf
  BY <1>0, <1>4 DEF Shelf, Managed, Row
<1>5. row' = row => Shelf' = Shelf
  BY DEF Shelf, Managed
<1> QED
  BY <1>1, <1>2, <1>3, <1>4, <1>5 DEF RowMoves

(* A promotion puts its model on the shelf.                                *)
LEMMA ShelfGrows ==
  ASSUME StoreTypes, NEW m \in Models, NEW source \in {"catalog_download", "import", "import_user"},
         NEW content, row[m] = None, Promoted(m, source, content)
  PROVE  m \notin Shelf /\ Shelf' = Shelf \cup {m}
<1>0. row \in [Ids -> Row \cup {None}] /\ Models \subseteq Ids
  BY DEF StoreTypes, TableTypes, Ids
<1>1. PICK r : /\ r = [source |-> source, path |-> m, data |-> m, stamp |-> 0, flag |-> FALSE]
               /\ row' = [row EXCEPT ![m] = r]
  BY DEF Promoted
<1>2. r \in Row /\ r.source # "user_folder"
  BY <1>1, BoundsAssumption DEF Row, Sources, Paths, Data, Stamps
<1>3. r # None
  BY <1>2, NoneAssumption
<1> QED
  BY <1>0, <1>1, <1>2, <1>3 DEF Shelf, Managed

(* A supply that completes has promoted its model, and only it does.       *)
LEMMA SupplySteps ==
  ASSUME StoreTypes, NEW o \in Ops, DownloadStep(o) \/ UploadStep(o)
  PROVE  \/ /\ op[o].state = "running" /\ op' = Updated(o, "completed")
            /\ Arg(o) \in Models /\ Arg(o) \notin Shelf /\ Shelf' = Shelf \cup {Arg(o)}
         \/ /\ Shelf' = Shelf
            /\ \/ op' = op \/ op' = Updated(o, "running") \/ op' = Updated(o, "failed")
               \/ op[o].state \in ActiveStates /\ op' = [op EXCEPT ![o].state = "failed"]
<1>u. row' = row => Shelf' = Shelf
  BY DEF Shelf, Managed
<1>1. CASE PromotePart(o)
  <2>1. Arg(o) \in Models
    BY <1>1 DEF PromotePart, StoreTypes, ArgsFit, ArgFits, Supplies, At, Arg
  <2>2. CASE op[o].state = "running" /\ row[Arg(o)] = None
             /\ Promoted(Arg(o), "catalog_download", PartData(Arg(o))) /\ Finish(o, "completed")
    BY <2>1, <2>2, ShelfGrows DEF Finish
  <2>3. CASE row' = row /\ Finish(o, "failed")
    BY <1>u, <2>3 DEF Finish
  <2> QED
    BY <1>1, <2>2, <2>3 DEF PromotePart
<1>2. CASE ImportPromote(o)
  <2>1. Arg(o) \in Models
    BY <1>2 DEF ImportPromote, StoreTypes, ArgsFit, ArgFits, Supplies, At, Arg
  <2>2. CASE op[o].state = "running" /\ row[Arg(o)] = None
             /\ Promoted(Arg(o), "import", staged[o]) /\ Finish(o, "completed")
    BY <2>1, <2>2, ShelfGrows DEF Finish
  <2>3. CASE row' = row /\ GuardDrops(o)
    BY <1>u, <2>3 DEF GuardDrops
  <2> QED
    BY <1>2, <2>2, <2>3 DEF ImportPromote
<1>3. CASE ImportBegin(o) \/ ImportReceived(o) \/ ImportCut(o)
  BY <1>u, <1>3 DEF ImportBegin, ImportReceived, ImportCut, GuardDrops, Finish, tables
<1>4. CASE DownloadStep(o) /\ ~PromotePart(o)
  BY <1>u, <1>4 DEF DownloadStep, DownloadBegin, Fetch, AnswerFails, AnswerWhole, AnswerRange,
     AnswerPastEnd, ChunkArrives, StreamBreaks, StreamEnds, HashPart, Again, Finish, tables
<1> QED
  BY <1>1, <1>2, <1>3, <1>4 DEF UploadStep

(* An import-user promotes beside its own state.                           *)
LEMMA BatchSteps ==
  ASSUME StoreTypes, NEW o \in Ops, ImportUserStep(o)
  PROVE  \/ Shelf' = Shelf
         \/ /\ op' = op /\ task[o].pc = "promote"
            /\ Arg(o) \in Models /\ Arg(o) \notin Shelf /\ Shelf' = Shelf \cup {Arg(o)}
<1>u. row' = row => Shelf' = Shelf
  BY DEF Shelf, Managed
<1>1. CASE ImportUserPromote(o)
  <2>1. Arg(o) \in Models /\ op' = op /\ task[o].pc = "promote"
    BY <1>1 DEF ImportUserPromote, StoreTypes, ArgsFit, ArgFits, At, Arg
  <2>2. CASE row[Arg(o)] = None /\ Promoted(Arg(o), "import_user", Arg(o))
    BY <2>1, <2>2, ShelfGrows
  <2> QED
    BY <1>1, <1>u, <2>2 DEF ImportUserPromote
<1>2. CASE ~ImportUserPromote(o)
  BY <1>u, <1>2 DEF ImportUserStep, ImportUserBegin, ImportUserNext, ImportUserCopy, ImportUserSub,
     ImportUserDropSub, ImportUserEnd, tables
<1> QED
  BY <1>1, <1>2

(* A step of a task is one of the ledger.                                  *)
LEMMA TaskStepLedger ==
  ASSUME StoreTypes, StatesFit, NEW o \in Ops, TaskStep(o)
  PROVE  Ledger!Next \/ UNCHANGED Ledger!ledgerVars
<1>0. /\ op \in [Ops -> Operations] /\ StateFits(o) /\ task[o].pc # "idle"
      /\ op[o].kind # "none"
  BY Runs, OpStates DEF StoreTypes, TableTypes, StatesFit
<1>1. /\ \A x \in Ops : op'[x].kind = op[x].kind /\ (x # o => op'[x] = op[x])
      /\ Leaves(o) \/ Stays(o)
  BY TaskSteps, SameOps
<1>2. SameSorts /\ OthersEnd(o)
  BY <1>1 DEF SameSorts, OthersEnd, Outcome
<1>3. ASSUME NEW s, op' = Updated(o, s) PROVE op'[o].state = IF op[o].state = "cancelled" THEN "cancelled" ELSE s
  BY <1>0, <1>3 DEF Updated, Cancelled, Operations
<1>4. ASSUME op' = op, Shelf' \subseteq Shelf PROVE Ledger!Next
  <2>1. \A x \in Ops : Outcome(x)' = Outcome(x)
    BY <1>4 DEF Outcome
  <2> QED
    BY <1>2, <1>4, <2>1, IsWithdrawn DEF Ledger!Next
<1>5. ASSUME op[o].state = "cancelled", op' = Updated(o, "running") \/ op' = Updated(o, "completed")
                                        \/ op' = Updated(o, "failed") PROVE op' = op
  BY <1>5 DEF Updated, Cancelled
<1>6. ASSUME op[o].state \in ActiveStates, op' = Updated(o, "running") \/ op' = op, Shelf' \subseteq Shelf
      PROVE  Ledger!Next
  <2>1. Outcome(o)' = Outcome(o)
    BY <1>3, <1>6 DEF Outcome, ActiveStates
  <2> QED
    BY <1>2, <1>6, <2>1, IsWithdrawn DEF Ledger!Next, OthersEnd
<1>7. ASSUME op[o].state \in ActiveStates, NEW s \in {"completed", "failed"}, op'[o].state = s,
             Sort(op[o].kind) = "supply" => s # "completed",
             \/ Shelf' = Shelf
             \/ Sort(op[o].kind) = "other" /\ Shelf' \subseteq Shelf
      PROVE  Ledger!Next
  <2>1. Outcome(o) = "pending" /\ Outcome(o)' = s
    BY <1>7 DEF Outcome, ActiveStates
  <2>2. Ledger!Ended(o)
    BY <1>2, <1>7, <2>1, IsEnded
  <2> QED
    BY <2>2 DEF Ledger!Next
<1>8. CASE Insert(o)
  <2>1. Shelf' = Shelf /\ op[o].state = "none" /\ op[o].kind # "none"
    BY <1>0, <1>8 DEF Insert, Shelf, Managed, StateFits
  <2>2. CASE op' = op
    BY <1>4, <2>1, <2>2
  <2>3. CASE op' # op
    <3>1. PICK s \in {"running", "queued"} : op' = [op EXCEPT ![o].state = s]
      BY <1>8, <2>3 DEF Insert
    <3>2. op'[o].state = s
      BY <3>1, <1>0 DEF Operations
    <3>3. Outcome(o) = "none" /\ Outcome(o)' = "pending" /\ Sort(op[o].kind) # "none"
      BY <2>1, <3>2 DEF Outcome, ActiveStates, Sort
    <3> QED
      BY <1>2, <2>1, <3>3, IsAccepted DEF Ledger!Next
  <2> QED
    BY <2>2, <2>3
<1>9. CASE DownloadStep(o) \/ UploadStep(o)
  <2>1. op[o].kind \in {"install", "import"} /\ op[o].state \in ActiveStates \cup {"cancelled"}
    <3>1. op[o].kind \in {"install", "import"} /\ task[o].pc # "insert"
      BY <1>9 DEF DownloadStep, DownloadBegin, Fetch, AnswerFails, AnswerWhole, AnswerRange,
         AnswerPastEnd, ChunkArrives, StreamBreaks, StreamEnds, HashPart, PromotePart,
         UploadStep, ImportBegin, ImportReceived, ImportCut, ImportPromote, At
    <3> QED
      BY <1>0, <3>1 DEF StateFits
  <2>2. Sort(op[o].kind) = "supply"
    BY <2>1 DEF Sort
  <2>3. CASE /\ op[o].state = "running" /\ op' = Updated(o, "completed")
             /\ Arg(o) \in Models /\ Arg(o) \notin Shelf /\ Shelf' = Shelf \cup {Arg(o)}
    <3>1. Outcome(o) = "pending" /\ Outcome(o)' = "completed"
      BY <1>3, <2>3 DEF Outcome, ActiveStates
    <3> QED
      BY <1>2, <2>2, <2>3, <3>1, IsSupplied DEF Ledger!Next
  <2>4. CASE Shelf' = Shelf /\ op[o].state \in ActiveStates
    <3>1. CASE op' = Updated(o, "failed") \/ op' = [op EXCEPT ![o].state = "failed"]
      <4>1. op'[o].state = "failed"
        BY <1>0, <1>3, <2>4, <3>1 DEF Operations, ActiveStates
      <4> QED
        BY <1>7, <2>4, <4>1
    <3>2. CASE op' = op \/ op' = Updated(o, "running")
      BY <1>6, <2>4, <3>2
    <3> QED
      BY <1>9, <2>3, <3>1, <3>2, SupplySteps
  <2>5. CASE Shelf' = Shelf /\ op[o].state = "cancelled"
    <3>1. op' = op
      BY <1>5, <1>9, <2>5, SupplySteps DEF ActiveStates
    <3> QED
      BY <1>4, <2>5, <3>1
  <2> QED
    BY <1>9, <2>1, <2>3, <2>4, <2>5, SupplySteps
<1>10. ASSUME op[o].kind \notin {"none", "install", "import", "remove"}, task[o].pc # "insert", ~Insert(o),
              \/ Shelf' = Shelf
              \/ Sort(op[o].kind) = "other" /\ Shelf' \subseteq Shelf
       PROVE  Ledger!Next
  <2>1. op[o].state \in ActiveStates \cup {"cancelled"}
    BY <1>0, <1>10 DEF StateFits
  <2>2. op' = op \/ op' = Updated(o, "running") \/ op' = Updated(o, "completed") \/ op' = Updated(o, "failed")
    BY <1>1, <1>10 DEF Leaves, Stays
  <2>3. Sort(op[o].kind) # "supply"
    BY <1>10 DEF Sort
  <2>4. CASE op[o].state = "cancelled"
    <3>1. op' = op
      BY <1>5, <2>2, <2>4
    <3> QED
      BY <1>4, <1>10, <3>1
  <2>5. CASE op[o].state \in ActiveStates
    <3>1. CASE op' = op \/ op' = Updated(o, "running")
      BY <1>6, <1>10, <2>5, <3>1
    <3>2. CASE op' = Updated(o, "completed") \/ op' = Updated(o, "failed")
      <4>1. PICK s \in {"completed", "failed"} : op' = Updated(o, s)
        BY <3>2
      <4>2. op'[o].state = s
        BY <1>3, <2>5, <4>1 DEF ActiveStates
      <4> QED
        BY <1>7, <1>10, <2>3, <2>5, <4>2
    <3> QED
      BY <2>2, <3>1, <3>2
  <2> QED
    BY <2>1, <2>4, <2>5
<1>11. CASE ImportUserStep(o) /\ ~Insert(o)
  <2>1. op[o].kind = "import_user" /\ task[o].pc # "insert"
    BY <1>11 DEF ImportUserStep, ImportUserBegin, ImportUserNext, ImportUserCopy, ImportUserSub,
       ImportUserPromote, ImportUserDropSub, ImportUserEnd, At
  <2>2. CASE Shelf' = Shelf
    BY <1>10, <1>11, <2>1, <2>2
  <2>3. CASE /\ op' = op /\ task[o].pc = "promote"
             /\ Arg(o) \in Models /\ Arg(o) \notin Shelf /\ Shelf' = Shelf \cup {Arg(o)}
    <3>1. Sort(op[o].kind) = "batch" /\ Outcome(o)' = Outcome(o) /\ Outcome(o) \in {"pending", "cancelled"}
      BY <1>0, <2>1, <2>3 DEF Sort, Outcome, StateFits
    <3> QED
      BY <1>2, <2>3, <3>1, IsSupplied DEF Ledger!Next
  <2> QED
    BY <1>11, <2>2, <2>3, BatchSteps
<1>12. CASE VerifyStep(o) \/ RefreshStep(o) \/ RemoveStep(o)
  <2>1. task[o].pc \notin {"promote", "insert"} /\ op[o].kind \in {"verify", "refresh", "remove"} /\ ~Insert(o)
    BY <1>12 DEF VerifyStep, VerifyBegin, VerifyHash, VerifyJudge, VerifySaved, VerifyCondemn,
       RefreshStep, RefreshBegin, RefreshFolder, RefreshRow, RefreshRehash, RefreshStore, RefreshUnregister,
       RefreshCollect, RefreshHash, RefreshMatch, RefreshRegister, RefreshEnd,
       RemoveStep, RemoveLock, RemoveLook, RemoveForget, RemoveMove, RemoveDelete, At, Insert
  <2>2. Shelf' \subseteq Shelf
    BY <2>1, RowSteps, ShelfShrinks
  <2>3. CASE op[o].kind = "remove"
    <3>1. op' = op
      BY <2>3, OpStates
    <3> QED
      BY <1>4, <2>2, <3>1
  <2>4. CASE op[o].kind # "remove"
    <3>1. Sort(op[o].kind) = "other"
      BY <2>1 DEF Sort
    <3> QED
      BY <1>10, <2>1, <2>2, <2>4, <3>1
  <2> QED
    BY <2>3, <2>4
<1> QED
  BY <1>8, <1>9, <1>11, <1>12 DEF TaskStep

LEMMA StepIsLedger ==
  ASSUME StoreInv, [Next]_vars
  PROVE  Ledger!Next \/ UNCHANGED Ledger!ledgerVars
<1>0. StoreTypes /\ StatesFit /\ Halted /\ op \in [Ops -> Operations] /\ row \in [Ids -> Row \cup {None}]
  BY DEF StoreInv, StoreTypes, TableTypes
<1>u. ASSUME UNCHANGED <<op, row>> PROVE UNCHANGED Ledger!ledgerVars
  BY <1>u DEF Ledger!ledgerVars, Managed
<1>1. ASSUME NEW o \in Ops, Calls(o) \/ RefreshCall(o) PROVE Ledger!Next
  <2>1. \A x \in Ops \ {o} : op'[x] = op[x]
    BY <1>0, <1>1, CallsFit
  <2>2. Shelf' = Shelf
    <3>1. row' = row
      BY <1>1 DEF Calls, InstallCall, ImportCall, VerifyCall, RemoveCall, ImportUserCall, Call, RefreshCall
    <3> QED
      BY <3>1 DEF Shelf, Managed
  <2>3. /\ op[o].kind = "none" /\ op'[o].kind \in Kinds \ {"none"}
        /\ op'[o].state = "none" \/ op'[o].state = "queued"
    BY <1>0, <1>1, CallStates
  <2>4. op[o].state = "none"
    BY <1>0, <2>3 DEF StatesFit, StateFits
  <2>5. Sort(op[o].kind) = "none" /\ Sort(op'[o].kind) \in {"supply", "batch", "other"}
    BY <2>3 DEF Sort, Kinds
  <2>6. OthersEnd(o) /\ Outcome(o)' \in {Outcome(o), "pending"}
    BY <2>1, <2>3, <2>4 DEF OthersEnd, Outcome, ActiveStates
  <2>7. Ledger!Asked(o)
    BY <2>1, <2>2, <2>5, <2>6, IsAsked
  <2> QED
    BY <2>7 DEF Ledger!Next
<1>2. ASSUME NEW o \in Ops, Cancel(o) PROVE Ledger!Next
  <2>1. /\ op[o].state \in ActiveStates /\ op' = [op EXCEPT ![o].state = "cancelled"] /\ row' = row
    BY <1>2 DEF Cancel
  <2>2. /\ \A x \in Ops : op'[x].kind = op[x].kind /\ (x # o => op'[x] = op[x])
        /\ op'[o].state = "cancelled"
    BY <1>0, <2>1 DEF Operations
  <2>3. SameSorts /\ OthersEnd(o) /\ Outcome(o) = "pending" /\ Outcome(o)' = "cancelled" /\ Shelf' = Shelf
    BY <2>1, <2>2 DEF SameSorts, OthersEnd, Outcome, ActiveStates, Shelf, Managed
  <2>4. Ledger!Ended(o)
    BY <2>3, IsEnded
  <2> QED
    BY <2>4 DEF Ledger!Next
<1>3. CASE Sweep
  <2>1. ASSUME NEW x \in Ops
        PROVE  /\ op'[x].kind = op[x].kind
               /\ op'[x].state = IF op[x].state \in ActiveStates THEN "failed" ELSE op[x].state
    BY <1>0, <1>3, SweptStates
  <2>2. SameSorts
    BY <2>1 DEF SameSorts
  <2>3. \A x \in Ops : Outcome(x)' = IF Outcome(x) = "pending" THEN "failed" ELSE Outcome(x)
    BY <1>0, <2>1 DEF Outcome, ActiveStates, Operations, States
  <2>4. Shelf' = Shelf
    BY <1>3 DEF Sweep, Shelf, Managed
  <2> QED
    BY <2>2, <2>3, <2>4, IsInterrupted DEF Ledger!Next
<1>4. CASE Reconcile
  <2>1. PICK locked \in SUBSET Ids : row' = [i \in Ids |-> Reconciled(row[i], i \in locked)]
    BY <1>4 DEF Reconcile
  <2>2. ASSUME NEW r \in Row \cup {None}, NEW i, Managed(Reconciled(r, i \in locked)) PROVE Managed(r)
    BY <2>2 DEF Reconciled, Managed, Row
  <2>3. ASSUME NEW i \in Ids, Managed(row'[i]) PROVE Managed(row[i])
    BY <1>0, <2>1, <2>2, <2>3
  <2>4. Shelf' \subseteq Shelf
    BY <2>3 DEF Shelf, Ids
  <2>5. SameSorts /\ \A x \in Ops : Outcome(x)' = Outcome(x)
    BY <1>4 DEF Reconcile, SameSorts, Outcome
  <2> QED
    BY <2>4, <2>5, IsWithdrawn DEF Ledger!Next
<1>5. ASSUME NEW o \in Ops, RemoveCut(o) \/ WriteLands(o) PROVE UNCHANGED <<op, row>>
  BY <1>5 DEF RemoveCut, WriteLands, tables
<1>6. EditFile \/ Crash => UNCHANGED <<op, row>>
  BY DEF EditFile, Crash, tables
<1>7. UNCHANGED vars => UNCHANGED <<op, row>>
  BY DEF vars, tables
<1> QED
  BY <1>0, <1>1, <1>2, <1>3, <1>4, <1>5, <1>6, <1>7, <1>u, TaskStepLedger DEF Next

(* The tables, tasks and restarts implement the ledger: an operation that  *)
(* has ended keeps its outcome, and a download or an upload is completed   *)
(* in the very step that puts its model on the shelf.                      *)
THEOREM StoreIsLedger == Spec => ImplementsLedger
<1>1. Init => Ledger!Init
  <2>1. SUFFICES ASSUME Init PROVE Ledger!Init
    OBVIOUS
  <2>2. \A o \in Ops : op[o].kind = "none" /\ op[o].state = "none"
    BY <2>1 DEF Init, NoOp
  <2> QED
    BY <2>2 DEF Ledger!Init, Sort, ActiveStates
<1>2. StoreInv /\ [Next]_vars => [Ledger!Next]_(Ledger!ledgerVars)
  BY StepIsLedger
<1> QED
  BY <1>1, <1>2, StoreInvariant, PTL DEF Spec, ImplementsLedger, Ledger!Spec

-----------------------------------------------------------------------------
(* What is hashed stays what was hashed.  A cancelled download keeps its   *)
(* hands off the .part of the one that replaced it, but for an answer that *)
(* is late, which marks the download that waits.                           *)
LEMMA Rivals ==
  ASSUME StoreInv, NEW o \in Ops, NEW x \in Ops \ {o}, op[o].state = "running",
         op[o].kind = "install", task[o].pc = "promote",
         op[x].kind = "install", task[x].pc \notin {"idle", "insert"}, task[x].arg = task[o].arg
  PROVE  Cancelled(x)
<1>1. StateFits(x) /\ ArgFits(x) /\ ArgFits(o) /\ Alone
  BY DEF StoreInv, StatesFit, StoreTypes, ArgsFit
<1>2. op[x].model = task[x].arg /\ op[o].model = task[o].arg /\ task[o].arg \in Models
  BY <1>1 DEF ArgFits, Supplies
<1>3. op[o].model # None
  BY <1>2, NamesAssumption
<1>4. op[x].state \in ActiveStates \cup {"cancelled"}
  BY <1>1 DEF StateFits
<1> QED
  BY <1>1, <1>2, <1>3, <1>4 DEF Alone, ActiveStates, Cancelled

(* A late answer that takes the part away leaves its mark.                 *)
LEMMA Robs ==
  ASSUME StoreInv, NEW o \in Ops, NEW x \in Ops \ {o}, AnswerWhole(x) \/ AnswerPastEnd(x),
         op[o].kind = "install", task[o].pc = "promote", task[x].arg = task[o].arg
  PROVE  task'[o].handle = "gone"
<1>0. TaskTypes /\ task \in [Ops -> Tasks] /\ \A y \in Ops : Carried(task[y], task[y])
  BY DEF StoreInv, StoreTypes, TaskTypes, Carried, Kept
<1>1. PICK f \in [Ops -> Tasks] :
        /\ \A y \in Ops : Carried(task[y], f[y])
        /\ \/ \E n, h : Opened(x, Discarded(f, task[x].arg), n, h)
           \/ Again(x, Discarded(f, task[x].arg))
  <2>1. CASE AnswerWhole(x)
    <3>1. Opened(x, Discarded(IF task[x].off > 0 THEN Unlinked(task, task[x].arg) ELSE task,
                              task[x].arg), 0, "start")
      BY <2>1 DEF AnswerWhole, Arg
    <3>2. CASE task[x].off > 0
      BY <1>0, <3>1, <3>2, UnlinkedIs
    <3>3. CASE ~(task[x].off > 0)
      BY <1>0, <3>1, <3>3
    <3> QED
      BY <3>2, <3>3
  <2>2. CASE AnswerPastEnd(x)
    BY <1>0, <2>2, UnlinkedIs DEF AnswerPastEnd, Arg
  <2> QED
    BY <2>1, <2>2
<1>2. PICK g \in [Ops -> Tasks] : g = Discarded(f, task[x].arg) /\ g[o].handle = "gone"
  BY <1>1, DiscardedIs DEF At
<1>3. task'[o] = g[o]
  BY <1>1, <1>2 DEF Opened, Again
<1> QED
  BY <1>2, <1>3

(* What the others of a waiting download do to the part it has hashed, but *)
(* for taking it away.                                                     *)
LEMMA PartStays ==
  ASSUME StoreInv, Hashed, NEW o \in Ops, NEW x \in Ops \ {o}, TaskStep(x),
         op[o].state = "running", op[o].kind = "install", task[o].pc = "promote",
         task'[o].handle # "gone"
  PROVE  /\ part'[task[o].arg] = part[task[o].arg]
         /\ \A y \in Ops : late'[y] # None => late'[y].model # task[o].arg
<1> DEFINE m == task[o].arg
           n == task[x].arg
<1>0. /\ part \in [Models -> Part \cup {None}] /\ late \in [Ops -> Write \cup {None}]
      /\ m \in Models
  BY DEF StoreInv, StoreTypes, FolderTypes, ArgsFit, ArgFits, Supplies
<1>g. task[o].handle # "gone"
  BY TaskSteps DEF StoreInv, Others
<1>1. /\ part[m] # None /\ PartData(m) = m
      /\ \A y \in Ops : late[y] # None => late[y].model # m
  BY <1>g DEF Hashed, Whole, At
<1>u. ASSUME part'[m] = part[m], late' = late
      PROVE  /\ part'[m] = part[m] /\ \A y \in Ops : late'[y] # None => late'[y].model # m
  BY <1>1, <1>u
<1>w. \A k : \A y \in Ops : WritesLost(k)[y] # None => WritesLost(k)[y].model # m
  BY <1>1 DEF WritesLost
<1>2. CASE DownloadStep(x)
  <2>0. op[x].kind = "install" /\ task[x].pc \notin {"idle", "insert"}
    BY <1>2 DEF DownloadStep, DownloadBegin, Fetch, AnswerFails, AnswerWhole, AnswerRange, AnswerPastEnd,
       ChunkArrives, StreamBreaks, StreamEnds, HashPart, PromotePart, At
  <2>1. n \in Models
    BY <2>0 DEF StoreInv, StoreTypes, ArgsFit, ArgFits, Supplies
  <2>2. CASE n = m
    <3>1. Cancelled(x) /\ op[x].state # "running"
      BY <2>0, <2>2, Rivals DEF Cancelled
    <3>2. ~AnswerWhole(x) /\ ~AnswerPastEnd(x)
      BY <2>2, Robs
    <3>3. CASE Fetch(x) \/ ChunkArrives(x)
      BY <1>u, <3>1, <3>3 DEF Fetch, ChunkArrives
    <3>4. CASE AnswerRange(x)
      <4>1. part' = [part EXCEPT ![m] = part[m]] /\ late' = late
        BY <1>1, <2>2, <3>4 DEF AnswerRange, Arg
      <4> QED
        BY <1>0, <1>u, <4>1
    <3>5. CASE HashPart(x)
      BY <1>1, <1>u, <2>2, <3>5 DEF HashPart, Arg
    <3>6. CASE PromotePart(x)
      BY <1>u, <3>1, <3>6 DEF PromotePart
    <3>7. CASE DownloadBegin(x) \/ AnswerFails(x) \/ StreamBreaks(x) \/ StreamEnds(x)
      BY <1>u, <3>7 DEF DownloadBegin, AnswerFails, StreamBreaks, StreamEnds, folder
    <3> QED
      BY <1>2, <3>2, <3>3, <3>4, <3>5, <3>6, <3>7 DEF DownloadStep
  <2>3. CASE n # m
    <3>1. part'[m] = part[m]
      <4>1. \/ part' = part
            \/ \E q : part' = [part EXCEPT ![n] = q]
        BY <1>2 DEF DownloadStep, DownloadBegin, Fetch, AnswerFails, AnswerWhole, AnswerRange,
           AnswerPastEnd, ChunkArrives, StreamBreaks, StreamEnds, HashPart, PromotePart, PartGone,
           Arg, folder
      <4> QED
        BY <1>0, <2>1, <2>3, <4>1
    <3>2. \A y \in Ops : late'[y] # None => late'[y].model # m
      <4>1. CASE ChunkArrives(x)
        <5>1. CASE late' = late
          BY <1>1, <5>1
        <5>2. CASE late' # late
          <6>1. PICK w : late' = [late EXCEPT ![x] = w] /\ w.model = n
            <7>1. PICK good \in BOOLEAN :
                    late' = [late EXCEPT ![x] = [model |-> n, pos |-> task[x].off,
                                                 end |-> task[x].handle = "end", good |-> good]]
              BY <4>1, <5>2 DEF ChunkArrives
            <7>2. PICK end \in BOOLEAN : end = (task[x].handle = "end")
              OBVIOUS
            <7>3. PICK w : w = [model |-> n, pos |-> task[x].off, end |-> end, good |-> good]
              OBVIOUS
            <7>4. late' = [late EXCEPT ![x] = w] /\ w.model = n
              BY <7>1, <7>2, <7>3
            <7> QED
              BY <7>4
          <6> QED
            BY <1>0, <1>1, <2>3, <6>1
        <5> QED
          BY <5>1, <5>2
      <4>2. CASE ~ChunkArrives(x)
        <5>1. late' = late \/ late' = WritesLost(n)
          BY <1>2, <4>2 DEF DownloadStep, DownloadBegin, Fetch, AnswerFails, AnswerWhole, AnswerRange,
             AnswerPastEnd, StreamBreaks, StreamEnds, HashPart, PromotePart, PartGone, Arg, folder
        <5> QED
          BY <1>1, <1>w, <5>1
      <4> QED
        BY <4>1, <4>2
    <3> QED
      BY <3>1, <3>2
  <2> QED
    BY <2>2, <2>3
<1>3. CASE ~DownloadStep(x)
  <2>1. part' = part /\ late' = late
    <3>1. CASE Insert(x) \/ UploadStep(x)
      BY <3>1 DEF Insert, UploadStep, ImportBegin, ImportReceived, ImportCut, ImportPromote, folder
    <3>2. CASE ImportUserStep(x)
      BY <3>2 DEF ImportUserStep, ImportUserBegin, ImportUserNext, ImportUserCopy, ImportUserSub,
         ImportUserPromote, ImportUserDropSub, ImportUserEnd, folder
    <3>3. CASE VerifyStep(x) \/ RemoveStep(x)
      BY <3>3 DEF VerifyStep, VerifyBegin, VerifyHash, VerifyJudge, VerifySaved, VerifyCondemn,
         RemoveStep, RemoveLock, RemoveLook, RemoveForget, RemoveMove, RemoveDelete, folder
    <3>4. CASE RefreshStep(x)
      BY <3>4 DEF RefreshStep, RefreshBegin, RefreshFolder, RefreshRow, RefreshRehash, RefreshStore, RefreshUnregister,
         RefreshCollect, RefreshHash, RefreshMatch, RefreshRegister, RefreshEnd, folder
    <3> QED
      BY <1>3, <3>1, <3>2, <3>3, <3>4 DEF TaskStep
  <2> QED
    BY <1>u, <2>1
<1> QED
  BY <1>2, <1>3

LEMMA KeepsHashed ==
  ASSUME StoreInv, Hashed, Next
  PROVE  Hashed'
<1>0. StoreTypes /\ StatesFit /\ Halted
  BY DEF StoreInv
<1>h. ASSUME NEW o \in Ops, At(o, "install", "promote"), op[o].state = "running",
             task[o].handle # "gone", task'[o].arg = task[o].arg, part'[task[o].arg] = part[task[o].arg],
             \A y \in Ops : late'[y] # None => late'[y].model # task[o].arg
      PROVE  Whole(o)'
  <2>1. part[task[o].arg] # None /\ PartData(task[o].arg) = task[o].arg
    BY <1>h DEF Hashed, Whole
  <2> QED
    BY <1>h, <2>1 DEF PartData, Whole
<1>1. ASSUME NEW x \in Ops, TaskStep(x) PROVE Hashed'
  <2>1. /\ Others(x) /\ \A o \in Ops : /\ op'[o].kind = op[o].kind
                                       /\ o # x => op'[o] = op[o]
    BY <1>0, <1>1, TaskSteps, SameOps
  <2>2. ASSUME NEW o \in Ops \ {x}, At(o, "install", "promote")', op'[o].state = "running",
               task'[o].handle # "gone"
        PROVE  Whole(o)'
    <3>1. /\ At(o, "install", "promote") /\ op[o].state = "running" /\ task'[o].arg = task[o].arg
          /\ task[o].handle # "gone"
      BY <2>1, <2>2 DEF At, Others, Kept
    <3> QED
      BY <1>1, <1>h, <2>2, <3>1, PartStays DEF At
  <2>3. ASSUME At(x, "install", "promote")', op'[x].state = "running"
        PROVE  Whole(x)'
    <3>1. op[x].kind = "install" /\ task'[x].pc = "promote"
      BY <2>1, <2>3 DEF At
    <3>2. Insert(x) \/ DownloadStep(x)
      BY <1>1, <3>1, StepKinds
    <3>3. HashPart(x)
      BY <1>0, <3>1, <3>2, DownloadSteps DEF DownloadStep, Plain
    <3>4. Plain(x, {"promote"})
      BY <1>0, <3>3, DownloadSteps
    <3>5. task'[x].arg = task[x].arg
      BY <3>1, <3>4 DEF Plain, Kept
    <3>6. part[task[x].arg] # None /\ PartData(task[x].arg) = task[x].arg /\ part' = part
      <4>1. ASSUME task' = [Unlinked(task, Arg(x)) EXCEPT ![x] = Idle] \/ Quit(x) PROVE FALSE
        <5>1. task'[x].pc = "idle"
          BY <1>0, <4>1, IdleIs, BecomingUnlinked, Quits DEF StoreTypes
        <5> QED
          BY <3>1, <5>1
      <4> QED
        BY <3>3, <4>1 DEF HashPart, Finish, Arg
    <3>7. late' = late /\ \A y \in Ops : late[y] # None => late[y].model # task[x].arg
      BY <3>3 DEF HashPart, Arg
    <3> QED
      BY <3>5, <3>6, <3>7 DEF PartData, Whole
  <2> QED
    BY <2>2, <2>3 DEF Hashed, Whole
<1>2. ASSUME NEW x \in Ops, Calls(x) \/ RefreshCall(x) PROVE Hashed'
  <2>1. /\ Others(x) /\ \A o \in Ops \ {x} : op'[o] = op[o]
    BY <1>0, <1>2, CallsFit
  <2>2. UNCHANGED <<part, late>>
    BY <1>2 DEF Calls, InstallCall, ImportCall, VerifyCall, RemoveCall, ImportUserCall, Call,
       RefreshCall, folder
  <2>3. task'[x].pc # "promote"
    BY <1>0, <1>2, CallStates
  <2>4. ASSUME NEW o \in Ops, At(o, "install", "promote")', op'[o].state = "running",
               task'[o].handle # "gone"
        PROVE  Whole(o)'
    <3>1. /\ At(o, "install", "promote") /\ op[o].state = "running" /\ task'[o].arg = task[o].arg
          /\ task[o].handle # "gone"
      BY <2>1, <2>3, <2>4 DEF At, Others, Kept
    <3>2. \A y \in Ops : late[y] # None => late[y].model # task[o].arg
      BY <3>1 DEF Hashed, Whole
    <3> QED
      BY <1>h, <2>2, <3>1, <3>2
  <2> QED
    BY <2>4 DEF Hashed, Whole
<1>s. ASSUME UNCHANGED <<task, part, late>>,
             \A o \in Ops : /\ op'[o].kind = op[o].kind
                            /\ op'[o].state = "running" => op[o].state = "running"
      PROVE  Hashed'
  BY <1>s DEF Hashed, Whole, At, PartData
<1>3. ASSUME NEW x \in Ops, Cancel(x) PROVE Hashed'
  <2>1. op' = [op EXCEPT ![x].state = "cancelled"] /\ UNCHANGED <<task, part, late>>
    BY <1>3 DEF Cancel, folder
  <2> QED
    BY <1>0, <1>s, <2>1 DEF StoreTypes, TableTypes, Operations
<1>4. ASSUME NEW x \in Ops, RemoveCut(x) PROVE Hashed'
  <2>1. Others(x) /\ task'[x].pc = "idle" /\ UNCHANGED <<op, part, late>>
    BY <1>0, <1>4, RemoveSteps DEF Plain, RemoveCut, tables, folder
  <2> QED
    BY <2>1 DEF Hashed, Whole, At, PartData, Others, Kept
<1>5. ASSUME NEW x \in Ops, WriteLands(x) PROVE Hashed'
  <2>1. late \in [Ops -> Write \cup {None}] /\ part \in [Models -> Part \cup {None}]
    BY <1>0 DEF StoreTypes, FolderTypes
  <2>2. late[x] # None /\ late' = [late EXCEPT ![x] = None] /\ UNCHANGED <<op, task>>
    BY <1>5 DEF WriteLands, tables
  <2>3. part' = part \/ \E q : part' = [part EXCEPT ![late[x].model] = q]
    BY <1>5 DEF WriteLands
  <2>4. ASSUME NEW o \in Ops, At(o, "install", "promote"), op[o].state = "running",
               task[o].handle # "gone"
        PROVE  /\ part'[task[o].arg] = part[task[o].arg]
               /\ \A y \in Ops : late'[y] # None => late'[y].model # task[o].arg
    <3>1. \A y \in Ops : late[y] # None => late[y].model # task[o].arg
      BY <2>4 DEF Hashed, Whole
    <3>2. task[o].arg \in Models
      BY <1>0, <2>4 DEF StoreTypes, ArgsFit, ArgFits, Supplies, At
    <3> QED
      BY <2>1, <2>2, <2>3, <3>1, <3>2
  <2> QED
    <3>1. ASSUME NEW o \in Ops,
                 (At(o, "install", "promote") /\ op[o].state = "running" /\ task[o].handle # "gone")'
          PROVE  Whole(o)'
      BY <1>h, <2>2, <2>4, <3>1 DEF At
    <3> QED
      BY <3>1 DEF Hashed, Whole
<1>6. CASE EditFile
  BY <1>6, <1>s DEF EditFile, tables
<1>7. CASE Crash
  BY <1>7, IdleIs DEF Crash, Hashed, Whole, At
<1>8. CASE Sweep \/ Reconcile
  BY <1>0, <1>8 DEF Sweep, Reconcile, Halted, Hashed, Whole, At
<1> QED
  BY <1>1, <1>2, <1>3, <1>4, <1>5, <1>6, <1>7, <1>8 DEF Next

(* What a step of a task does to the files of the catalog's models.        *)
FolderMoves(o) ==
  \/ file' = file /\ tampered' = tampered /\ Shelf' \subseteq Shelf
  \/ \E m \in Models, source \in {"catalog_download", "import", "import_user"} :
       row[m] = None /\ Promoted(m, source, m) /\ tampered' = tampered \ {m}
  \/ \E m \in Models : \E content : row[m] = None /\ Promoted(m, "catalog_download", content)
                                /\ tampered' = tampered \cup {m}
  \/ /\ task[o].arg \in Models /\ row' = [row EXCEPT ![task[o].arg] = None]
     /\ file' = [file EXCEPT ![task[o].arg] = None] /\ tampered' = tampered
  \/ /\ task[o].arg \in Models /\ op[o].kind = "remove"
     /\ task'[o].pc = "delete" /\ task'[o].arg = task[o].arg
     /\ row' = row /\ file' = [file EXCEPT ![task[o].arg] = None] /\ tampered' = tampered

LEMMA FolderSteps ==
  ASSUME StoreInv, Hashed, NEW o \in Ops, TaskStep(o)
  PROVE  FolderMoves(o)
<1>0. StoreTypes /\ ArgFits(o) /\ SnapFits(o)
  BY DEF StoreInv, StoreTypes, ArgsFit, RowsFit
<1>u. ASSUME file' = file, tampered' = tampered, row' = row \/ task[o].pc # "promote"
      PROVE  FolderMoves(o)
  <2>1. row' = row => Shelf' = Shelf
    BY DEF Shelf, Managed
  <2>2. task[o].pc # "promote" => Shelf' \subseteq Shelf
    BY <1>0, RowSteps, ShelfShrinks
  <2> QED
    BY <1>u, <2>1, <2>2 DEF FolderMoves
<1>1. CASE Insert(o) \/ DownloadStep(o)
  <2>1. CASE PromotePart(o)
    <3>1. task[o].arg \in Models
      BY <1>0, <2>1 DEF ArgFits, Supplies, PromotePart, At
    <3>2. op[o].state = "running" /\ task[o].handle # "gone" => PartData(task[o].arg) = task[o].arg
      BY <2>1 DEF PromotePart, Hashed, Whole
    <3>3. CASE /\ row[task[o].arg] = None /\ op[o].state = "running"
               /\ Promoted(task[o].arg, "catalog_download", PartData(task[o].arg))
               /\ tampered' = IF task[o].handle = "gone" THEN tampered \cup {task[o].arg}
                              ELSE tampered \ {task[o].arg}
      BY <3>1, <3>2, <3>3 DEF FolderMoves
    <3>4. CASE UNCHANGED <<row, file, world>>
      BY <1>u, <3>4 DEF world
    <3> QED
      BY <2>1, <3>3, <3>4 DEF PromotePart, Arg
  <2>2. CASE ~PromotePart(o)
    <3>1. UNCHANGED <<row, file, tampered>>
      BY <1>1, <2>2 DEF DownloadStep, Insert, DownloadBegin, Fetch, AnswerFails, AnswerWhole,
         AnswerRange, AnswerPastEnd, ChunkArrives, StreamBreaks, StreamEnds, HashPart, tables, folder, world
    <3> QED
      BY <3>1, <1>u
  <2> QED
    BY <2>1, <2>2
<1>2. CASE UploadStep(o)
  <2>1. CASE ImportPromote(o)
    <3>1. task[o].arg \in Models /\ staged[o] = task[o].arg
      BY <1>0, <2>1 DEF ArgFits, Supplies, ImportPromote, At
    <3>3. CASE /\ row[task[o].arg] = None /\ Promoted(task[o].arg, "import", staged[o])
               /\ tampered' = tampered \ {task[o].arg}
      BY <3>1, <3>3 DEF FolderMoves
    <3>4. CASE UNCHANGED <<row, file, world>>
      BY <1>u, <3>4 DEF world
    <3> QED
      BY <2>1, <3>3, <3>4 DEF ImportPromote, Arg
  <2>2. CASE ~ImportPromote(o)
    BY <1>2, <1>u, <2>2 DEF UploadStep, ImportBegin, ImportReceived, ImportCut, tables, world
  <2> QED
    BY <2>1, <2>2
<1>3. CASE ImportUserStep(o)
  <2>1. CASE ImportUserPromote(o)
    <3>1. task[o].arg \in Models
      BY <1>0, <2>1 DEF ArgFits, ImportUserPromote, At
    <3>3. CASE /\ row[task[o].arg] = None /\ Promoted(task[o].arg, "import_user", task[o].arg)
               /\ tampered' = tampered \ {task[o].arg}
      BY <3>1, <3>3 DEF FolderMoves
    <3>4. CASE UNCHANGED <<row, file, world>>
      BY <1>u, <3>4 DEF world
    <3> QED
      BY <2>1, <3>3, <3>4 DEF ImportUserPromote, Arg
  <2>2. CASE ~ImportUserPromote(o)
    BY <1>3, <1>u, <2>2 DEF ImportUserStep, ImportUserBegin, ImportUserNext, ImportUserCopy, ImportUserSub,
       ImportUserDropSub, ImportUserEnd, tables, folder, world
  <2> QED
    BY <2>1, <2>2
<1>4. CASE VerifyStep(o)
  <2>1. CASE VerifyCondemn(o) /\ file' # file
    <3>1. /\ op[o].kind = "verify" /\ task[o].pc = "wait"
          /\ task[o].snap.rec.source # "user_folder"
          /\ row' = [row EXCEPT ![task[o].snap.id] = None]
          /\ file' = [file EXCEPT ![task[o].snap.rec.path] = None] /\ tampered' = tampered
      BY <2>1 DEF VerifyCondemn, At, world
    <3>2. task[o].snap \in Snap /\ task[o].snap.id = task[o].arg /\ Fits(task[o].arg, task[o].snap.rec)
      BY <1>0, <3>1 DEF SnapFits
    <3>3. task[o].snap.rec # None
      BY <3>2, NoneAssumption DEF Snap
    <3> QED
      BY <3>1, <3>2, <3>3 DEF Fits, FolderMoves
  <2>2. CASE file' = file
    BY <1>4, <1>u, <2>2 DEF VerifyStep, VerifyBegin, VerifyHash, VerifyJudge, VerifySaved, VerifyCondemn,
       At, folder, world
  <2>3. CASE ~VerifyCondemn(o)
    BY <1>4, <2>2, <2>3 DEF VerifyStep, VerifyBegin, VerifyHash, VerifyJudge, VerifySaved, folder
  <2> QED
    BY <2>1, <2>2, <2>3
<1>5. CASE RemoveStep(o)
  <2>1. CASE RemoveMove(o) /\ file' # file
    <3>1. /\ op[o].kind = "remove" /\ task[o].pc = "move" /\ Goto(o, "delete") /\ row' = row
          /\ file' = [file EXCEPT ![task[o].snap.rec.path] = None] /\ tampered' = tampered
      BY <2>1 DEF RemoveMove, At, world, tables
    <3>2. /\ task[o].snap \in Snap /\ Fits(task[o].arg, task[o].snap.rec)
          /\ task[o].snap.rec.source # "user_folder"
      BY <1>0, <3>1 DEF SnapFits
    <3>3. task[o].snap.rec # None
      BY <3>2, NoneAssumption DEF Snap
    <3>4. task'[o].pc = "delete" /\ task'[o].arg = task[o].arg
      BY <1>0, <3>1, Goes DEF StoreTypes, Places, Kept
    <3> QED
      BY <3>1, <3>2, <3>3, <3>4 DEF Fits, FolderMoves
  <2>2. CASE file' = file
    BY <1>5, <1>u, <2>2 DEF RemoveStep, RemoveLock, RemoveLook, RemoveForget, RemoveMove, RemoveDelete,
       Release, Holding, At, folder, world
  <2>3. CASE ~RemoveMove(o)
    BY <1>5, <2>2, <2>3 DEF RemoveStep, RemoveLock, RemoveLook, RemoveForget, RemoveDelete, folder
  <2> QED
    BY <2>1, <2>2, <2>3
<1>6. CASE RefreshStep(o)
  BY <1>6, <1>u DEF RefreshStep, RefreshBegin, RefreshFolder, RefreshRow, RefreshRehash, RefreshStore,
     RefreshUnregister, RefreshCollect, RefreshHash, RefreshMatch, RefreshRegister, RefreshEnd, At,
     folder, world
<1> QED
  BY <1>1, <1>2, <1>3, <1>4, <1>5, <1>6 DEF TaskStep

(* A verification keeps the row it has read, and hashes that row's file.   *)
LEMMA VerifyHands ==
  ASSUME StoreInv, NEW o \in Ops, TaskStep(o), op[o].kind = "verify", task'[o].pc # "idle"
  PROVE  /\ task'[o].arg = task[o].arg /\ task'[o].snap = task[o].snap
         /\ task'[o].found \in {task[o].found, file[task[o].snap.rec.path], None}
<1>0. StoreTypes
  BY DEF StoreInv
<1>1. Insert(o) \/ VerifyStep(o)
  BY StepKinds
<1>2. CASE VerifyHash(o)
  BY <1>0, <1>2, VerifySteps
<1>3. CASE ~VerifyHash(o)
  <2>1. \E places : Plain(o, places)
    BY <1>0, <1>1, <1>3, VerifySteps, DownloadSteps DEF VerifyStep
  <2> QED
    BY <2>1 DEF Plain, Kept
<1> QED
  BY <1>2, <1>3

(* A removal that has moved the file keeps at it until the row is gone.    *)
LEMMA RemovingSteps ==
  ASSUME StoreInv, NEW o \in Ops, TaskStep(o), NEW m \in Models, Removing(m), ~Removing(m)'
  PROVE  row'[m] = None
<1>0. StoreTypes /\ row \in [Ids -> Row \cup {None}] /\ Models \subseteq Ids
  BY DEF StoreInv, StoreTypes, TableTypes, Ids
<1>1. PICK y \in Ops : op[y].kind = "remove" /\ task[y].pc = "delete" /\ task[y].arg = m
  BY DEF Removing, At, Arg
<1>2. /\ Others(o) /\ \A x \in Ops : op'[x].kind = op[x].kind
  BY <1>0, TaskSteps, SameOps
<1>3. y = o
  BY <1>1, <1>2 DEF Removing, At, Arg, Others, Kept
<1>4. RemoveDelete(o)
  <2>1. RemoveStep(o)
    BY <1>1, <1>3, StepKinds
  <2> QED
    BY <1>1, <1>3, <2>1 DEF RemoveStep, RemoveLock, RemoveLook, RemoveForget, RemoveMove, At
<1> QED
  BY <1>0, <1>1, <1>3, <1>4 DEF RemoveDelete, Arg

(* While the server serves, no step of a task breaks a model: the file     *)
(* that a managed row names is touched only with the row.                  *)
LEMMA BreaksNothing ==
  ASSUME StoreInv, Hashed, NEW o \in Ops, TaskStep(o), NEW m \in Models, Broken(m)'
  PROVE  Broken(m)
<1>0. /\ StoreTypes /\ row \in [Ids -> Row \cup {None}] /\ Models \subseteq Ids /\ Models \subseteq Paths
      /\ file \in [Paths -> File \cup {None}]
  BY DEF StoreInv, StoreTypes, TableTypes, FolderTypes, Ids, Paths
<1>1. /\ Managed(row'[m]) /\ m \notin tampered' /\ ~Removing(m)'
      /\ ~(file'[m] # None /\ file'[m].data = m)
  BY DEF Broken, Managed
<1>2. ~Removing(m)
  BY <1>1, RemovingSteps DEF Managed
<1>3. ASSUME Managed(row[m]), file'[m] = file[m], m \notin tampered PROVE Broken(m)
  BY <1>1, <1>2, <1>3 DEF Broken
<1>p. ASSUME NEW k \in Models, NEW source \in {"catalog_download", "import", "import_user"},
             row[k] = None, Promoted(k, source, k), tampered' = tampered \ {k}
      PROVE  Broken(m)
  <2>1. CASE m = k
    <3>1. PICK f : f = [data |-> m, stamp |-> 0] /\ file' = [file EXCEPT ![m] = f]
      BY <1>p, <2>1 DEF Promoted
    <3>2. f \in File
      BY <3>1, BoundsAssumption DEF File, Data, Stamps
    <3>3. file'[m] # None /\ file'[m].data = m
      BY <1>0, <3>1, <3>2, NoneAssumption
    <3> QED
      BY <1>1, <3>3
  <2>2. CASE m # k
    <3>1. row'[m] = row[m] /\ file'[m] = file[m]
      BY <1>0, <1>p, <2>2 DEF Promoted
    <3> QED
      BY <1>1, <1>3, <1>p, <2>2, <3>1
  <2> QED
    BY <2>1, <2>2
<1>4. CASE \E k \in Models, source \in {"catalog_download", "import", "import_user"} :
             row[k] = None /\ Promoted(k, source, k) /\ tampered' = tampered \ {k}
  BY <1>4, <1>p
<1>r. CASE \E k \in Models : \E content : row[k] = None /\ Promoted(k, "catalog_download", content)
                                      /\ tampered' = tampered \cup {k}
  <2>1. PICK k \in Models : /\ tampered' = tampered \cup {k}
                            /\ \E content : Promoted(k, "catalog_download", content)
    BY <1>r
  <2>2. m # k
    BY <1>1, <2>1
  <2>3. row'[m] = row[m] /\ file'[m] = file[m]
    BY <1>0, <2>1, <2>2 DEF Promoted
  <2> QED
    BY <1>1, <1>3, <2>1, <2>3
<1>5. CASE file' = file /\ tampered' = tampered /\ Shelf' \subseteq Shelf
  BY <1>1, <1>3, <1>5 DEF Shelf
<1>6. CASE /\ task[o].arg \in Models /\ row' = [row EXCEPT ![task[o].arg] = None]
           /\ file' = [file EXCEPT ![task[o].arg] = None] /\ tampered' = tampered
  <2>1. m # task[o].arg
    BY <1>0, <1>1, <1>6 DEF Managed
  <2> QED
    BY <1>0, <1>1, <1>3, <1>6, <2>1
<1>7. CASE /\ task[o].arg \in Models /\ op[o].kind = "remove"
           /\ task'[o].pc = "delete" /\ task'[o].arg = task[o].arg
           /\ row' = row /\ file' = [file EXCEPT ![task[o].arg] = None] /\ tampered' = tampered
  <2>1. op'[o].kind = "remove"
    BY <1>0, <1>7, TaskSteps, SameOps
  <2>2. m # task[o].arg
    BY <1>1, <1>7, <2>1 DEF Removing, At, Arg
  <2> QED
    BY <1>0, <1>1, <1>3, <1>7, <2>2
<1> QED
  BY <1>4, <1>r, <1>5, <1>6, <1>7, FolderSteps DEF FolderMoves

(* A flag goes only with a row, a promotion or a hash that agrees.         *)
LEMMA FlagStays ==
  ASSUME StoreInv, NEW o \in Ops, TaskStep(o), NEW m \in Models, Managed(row[m]), row[m].flag,
         Managed(row'[m]), ~row'[m].flag
  PROVE  /\ At(o, "verify", "judge") /\ task[o].arg = m
         /\ task[o].found # None /\ task[o].found.data = task[o].snap.rec.data
<1>0. row \in [Ids -> Row \cup {None}] /\ m \in Ids
  BY DEF StoreInv, StoreTypes, TableTypes, Ids
<1>1. row' # row
  OBVIOUS
<1>2. ASSUME NEW i \in Ids, row' = [row EXCEPT ![i] = None] \/ row' = Flagged(i) PROVE FALSE
  BY <1>0, <1>2 DEF Flagged, Managed, Row
<1>3. ASSUME NEW i \in Ids, NEW p, NEW d, NEW s, row' = Upserted(i, p, d, s) PROVE FALSE
  BY <1>0, <1>3 DEF Upserted, Managed
<1>4. ASSUME NEW k \in Models, NEW r, row[k] = None, row' = [row EXCEPT ![k] = r] PROVE FALSE
  BY <1>0, <1>4 DEF Managed
<1>5. ASSUME NEW i \in Ids, NEW s, row' = [row EXCEPT ![i].stamp = s, ![i].flag = FALSE] PROVE i = m
  BY <1>0, <1>5
<1>6. RowMoves(o)
  BY RowSteps DEF StoreInv
<1> QED
  BY <1>1, <1>2, <1>3, <1>4, <1>5, <1>6 DEF RowMoves

LEMMA KeepsBrokenFlagged ==
  ASSUME StoreInv, Hashed, BrokenFlagged, Next
  PROVE  BrokenFlagged'
<1>0. /\ StoreTypes /\ Halted /\ row \in [Ids -> Row \cup {None}] /\ Models \subseteq Ids
      /\ op \in [Ops -> Operations] /\ Models \subseteq Paths
      /\ file \in [Paths -> File \cup {None}]
  BY DEF StoreInv, StoreTypes, TableTypes, FolderTypes, Ids, Paths
<1> DEFINE Doubted(o, m) ==
             op[o].kind = "verify" /\ task[o].pc # "idle" /\ task[o].arg = m =>
               /\ task[o].snap.rec.path = m /\ task[o].snap.rec.data = m
               /\ task[o].found # None => task[o].found.data # m
<1>k. ASSUME NEW o \in Ops, NEW m \in Models, Doubted(o, m), op'[o].kind = op[o].kind,
             task'[o].pc = task[o].pc, Kept(task[o], task'[o])
      PROVE  Doubted(o, m)'
  BY <1>k DEF Kept
<1>1. ASSUME NEW o \in Ops, TaskStep(o) PROVE BrokenFlagged'
  <2>1. server = "up" /\ server' = "up"
    BY <1>0, <1>1, Runs, WorldSteps DEF Halted
  <2>2. Others(o) /\ \A x \in Ops : op'[x].kind = op[x].kind
    BY <1>0, <1>1, TaskSteps, SameOps
  <2> SUFFICES ASSUME NEW m \in Models, Broken(m)'
               PROVE  row'[m].flag /\ \A x \in Ops : Doubted(x, m)'
    BY DEF BrokenFlagged
  <2>3. Broken(m)
    BY <1>1, BreaksNothing
  <2>4. row[m].flag /\ \A x \in Ops : Doubted(x, m)
    BY <2>1, <2>3 DEF BrokenFlagged
  <2>5. row'[m].flag
    <3>1. Managed(row[m]) /\ Managed(row'[m])
      BY <2>3 DEF Broken, Managed
    <3>2. ~( /\ At(o, "verify", "judge") /\ task[o].arg = m
             /\ task[o].found # None /\ task[o].found.data = task[o].snap.rec.data)
      BY <2>4 DEF At
    <3> QED
      BY <1>1, <2>4, <3>1, <3>2, FlagStays
  <2>6. \A x \in Ops \ {o} : Doubted(x, m)'
    BY <1>k, <2>2, <2>4 DEF Others
  <2>7. Doubted(o, m)'
    <3>1. CASE op[o].kind = "verify" /\ task'[o].pc # "idle" /\ task'[o].arg = m
      <4>1. /\ task'[o].arg = task[o].arg /\ task'[o].snap = task[o].snap
            /\ task'[o].found \in {task[o].found, file[task[o].snap.rec.path], None}
        BY <1>1, <3>1, VerifyHands
      <4>2. task[o].pc # "idle"
        BY <1>1, Runs
      <4>3. file[m] # None => file[m].data # m
        BY <2>3 DEF Broken
      <4> QED
        BY <2>4, <3>1, <4>1, <4>2, <4>3
    <3>2. CASE ~(op[o].kind = "verify" /\ task'[o].pc # "idle" /\ task'[o].arg = m)
      BY <2>2, <3>2
    <3> QED
      BY <3>1, <3>2
  <2> QED
    BY <2>5, <2>6, <2>7
<1>s. ASSUME UNCHANGED <<row, file, server>>, NEW o \in Ops, Others(o),
             \A x \in Ops \ {o} : op'[x].kind = op[x].kind,
             \A m \in Models : m \notin tampered' /\ ~Removing(m)' => m \notin tampered /\ ~Removing(m),
             \A m \in Models : Broken(m) => Doubted(o, m)'
      PROVE  BrokenFlagged'
  <2> SUFFICES ASSUME server = "up", NEW m \in Models, Broken(m)'
               PROVE  row'[m].flag /\ \A x \in Ops : Doubted(x, m)'
    BY <1>s DEF BrokenFlagged
  <2>1. Broken(m)
    BY <1>s DEF Broken, Managed
  <2>2. row[m].flag /\ \A x \in Ops : Doubted(x, m)
    BY <2>1 DEF BrokenFlagged
  <2>3. \A x \in Ops \ {o} : Doubted(x, m)'
    BY <1>k, <1>s, <2>2 DEF Others
  <2> QED
    BY <1>s, <2>1, <2>2, <2>3
<1>2. ASSUME NEW o \in Ops, Calls(o) \/ RefreshCall(o) PROVE BrokenFlagged'
  <2>1. UNCHANGED <<row, file, server, tampered>>
    BY <1>2 DEF Calls, InstallCall, ImportCall, VerifyCall, RemoveCall, ImportUserCall, Call,
       RefreshCall, folder, world
  <2>2. Others(o) /\ \A x \in Ops \ {o} : op'[x] = op[x]
    BY <1>0, <1>2, CallsFit
  <2>3. \A m \in Models : Removing(m) => Removing(m)'
    <3>1. op[o].kind = "none"
      BY <1>0, <1>2, CallStates DEF StoreInv
    <3> QED
      BY <2>2, <3>1 DEF Removing, At, Arg, Others, Kept
  <2>4. ASSUME NEW m \in Models, Broken(m) PROVE Doubted(o, m)'
    <3>1. CASE \E i \in Ids : VerifyCall(o, i)
      <4>1. PICK i \in Ids : VerifyCall(o, i)
        BY <3>1
      <4>2. task'[o].arg = i /\ task'[o].snap = [id |-> i, rec |-> row[i]] /\ task'[o].found = None
        BY <1>0, <4>1, CallSteps
      <4>3. task'[o].snap.rec = row[i]
        BY <4>2
      <4>4. Fits(m, row[m]) /\ row[m] # None /\ row[m].source # "user_folder"
        BY <1>0, <2>4 DEF StoreTypes, RowsFit, Broken, Managed
      <4> QED
        BY <4>2, <4>3, <4>4 DEF Fits
    <3>2. CASE ~(\E i \in Ids : VerifyCall(o, i))
      <4>1. op'[o].kind # "verify"
        <5>1. \E k \in Kinds \ {"verify"} : \E m2, s : op' = [op EXCEPT ![o] = [kind |-> k, model |-> m2, state |-> s]]
          BY <1>2, <3>2 DEF Calls, InstallCall, ImportCall, RemoveCall, ImportUserCall, Call, RefreshCall, Kinds
        <5> QED
          BY <1>0, <5>1
      <4> QED
        BY <4>1
    <3> QED
      BY <3>1, <3>2
  <2> QED
    BY <1>s, <2>1, <2>2, <2>3, <2>4
<1>3. ASSUME NEW o \in Ops, RemoveCut(o) PROVE BrokenFlagged'
  <2>1. UNCHANGED <<op, row, file, server>> /\ op[o].kind = "remove"
    BY <1>3 DEF RemoveCut, tables, folder, world, At
  <2>2. Others(o) /\ task'[o].pc = "idle"
    BY <1>0, <1>3, RemoveSteps DEF Plain
  <2>3. ASSUME NEW m \in Models, m \notin tampered', ~Removing(m)' PROVE m \notin tampered /\ ~Removing(m)
    <3>1. tampered \subseteq tampered'
      BY <1>3 DEF RemoveCut, world
    <3>2. ASSUME Removing(m) PROVE FALSE
      <4>1. PICK y \in Ops : op[y].kind = "remove" /\ task[y].pc = "delete" /\ task[y].arg = m
        BY <3>2 DEF Removing, At, Arg
      <4>2. y = o
        BY <2>1, <2>2, <2>3, <4>1 DEF Removing, At, Arg, Others, Kept
      <4>3. tampered' = tampered \cup {task[o].snap.rec.path}
        BY <1>3, <4>1, <4>2 DEF RemoveCut, At
      <4>4. /\ task[o].snap \in Snap /\ Fits(m, task[o].snap.rec)
            /\ task[o].snap.rec.source # "user_folder"
        BY <1>0, <4>1, <4>2 DEF StoreTypes, RowsFit, SnapFits
      <4>5. task[o].snap.rec.path = m
        BY <4>4, NoneAssumption DEF Fits, Snap
      <4> QED
        BY <2>3, <4>3, <4>5
    <3> QED
      BY <2>3, <3>1, <3>2
  <2> QED
    BY <1>s, <2>1, <2>2, <2>3
<1>t. ASSUME UNCHANGED <<row, file, task, server, tampered>>,
             \A x \in Ops : op'[x].kind = op[x].kind
      PROVE  BrokenFlagged'
  <2>1. ASSUME NEW m \in Models, Broken(m)' PROVE Broken(m)
    BY <1>t, <2>1 DEF Broken, Removing, Managed, At, Arg
  <2> QED
    BY <1>t, <2>1 DEF BrokenFlagged
<1>4. ASSUME NEW o \in Ops, Cancel(o) \/ WriteLands(o) PROVE BrokenFlagged'
  <2>1. UNCHANGED <<row, file, task, server, tampered>>
    BY <1>4 DEF Cancel, WriteLands, tables, folder, world
  <2>2. \A x \in Ops : op'[x].kind = op[x].kind
    BY <1>0, <1>4 DEF Cancel, WriteLands, tables, Operations
  <2> QED
    BY <1>t, <2>1, <2>2
<1>5. CASE EditFile
  <2>1. UNCHANGED <<op, row, task, server>>
    BY <1>5 DEF EditFile, tables
  <2>2. PICK p \in Paths : tampered' = tampered \cup {p} /\ \E f : file' = [file EXCEPT ![p] = f]
    BY <1>5 DEF EditFile
  <2>3. ASSUME NEW m \in Models, Broken(m)' PROVE Broken(m)
    <3>1. m # p /\ m \notin tampered
      BY <2>2, <2>3 DEF Broken
    <3>2. file'[m] = file[m]
      BY <1>0, <2>2, <3>1
    <3> QED
      BY <2>1, <2>3, <3>1, <3>2 DEF Broken, Removing, Managed, At, Arg
  <2> QED
    BY <2>1, <2>3 DEF BrokenFlagged
<1>6. CASE Crash \/ Sweep
  BY <1>6 DEF Crash, Sweep, BrokenFlagged
<1>7. CASE Reconcile
  <2>1. PICK locked \in SUBSET Ids : row' = [i \in Ids |-> Reconciled(row[i], i \in locked)]
    BY <1>7 DEF Reconcile
  <2>2. /\ UNCHANGED <<file, task>> /\ \A x \in Ops : task[x].pc = "idle"
    BY <1>0, <1>7 DEF Reconcile, Halted
  <2>3. ASSUME NEW m \in Models, Broken(m)' PROVE row'[m].flag
    <3>1. row'[m] = Reconciled(row[m], m \in locked)
      BY <1>0, <2>1
    <3>2. Managed(row'[m]) /\ ~(file[m] # None /\ file[m].data = m)
      BY <2>2, <2>3 DEF Broken, Managed
    <3>3. row[m] # None /\ row[m] \in Row
      BY <1>0, <3>1, <3>2 DEF Reconciled, Managed
    <3>4. row[m].source # "user_folder"
      BY <3>1, <3>2, <3>3 DEF Reconciled, Managed, Row
    <3>5. row[m].path = m /\ row[m].data = m
      BY <1>0, <3>3, <3>4 DEF StoreTypes, RowsFit, Fits
    <3>6. file[m] # Recorded(row[m])
      <4>1. Recorded(row[m]).data = m
        BY <3>5 DEF Recorded
      <4>2. file[m] # None => file[m].data # m
        BY <3>2
      <4>3. Recorded(row[m]) # None
        <5>1. row[m].stamp \in Stamps \/ row[m].stamp = None
          BY <3>3 DEF Row
        <5>2. Recorded(row[m]) = [data |-> m, stamp |-> row[m].stamp]
          BY <3>5 DEF Recorded
        <5>3. m \in Data
          BY DEF Data
        <5>4. Recorded(row[m]) \in File \cup [data : Data, stamp : {None}]
          BY <5>1, <5>2, <5>3 DEF File
        <5> QED
          BY <5>4, NoneAssumption
      <4> QED
        BY <4>1, <4>2, <4>3
    <3>7. row'[m] = [row[m] EXCEPT !.flag = TRUE]
      BY <3>1, <3>3, <3>4, <3>5, <3>6 DEF Reconciled
    <3> QED
      BY <3>3, <3>7 DEF Row
  <2> QED
    BY <2>2, <2>3 DEF BrokenFlagged
<1> QED
  BY <1>1, <1>2, <1>3, <1>4, <1>5, <1>6, <1>7 DEF Next

LEMMA InitCatalog == Init => Hashed /\ BrokenFlagged
<1> SUFFICES ASSUME Init PROVE Hashed /\ BrokenFlagged
  OBVIOUS
<1>1. /\ (\A i \in Ids : Fits(i, row[i])) /\ Models \subseteq Ids /\ Models \subseteq Paths
      /\ row \in LeftBehind
  BY LeftFits DEF Init, Ids, Paths
<1>2. \A o \in Ops : op[o].kind = "none" /\ op[o].state = "none"
  BY DEF Init, NoOp
<1>3. ASSUME NEW m \in Models, Managed(row[m]) PROVE file[m] # None /\ file[m].data = m
  <2>1. row[m].path = m /\ row[m].data = m /\ row[m] # None /\ m \in Ids
    BY <1>1, <1>3 DEF Fits, Managed
  <2>2. \A i, x \in Ids : row[i] # None /\ row[x] # None => i = x
    BY <1>1 DEF LeftBehind
  <2>3. \A i \in Ids : row[i] # None /\ row[i].path = m => i = m
    BY <2>1, <2>2
  <2>4. (CHOOSE i \in Ids : row[i] # None /\ row[i].path = m) = m
    BY <2>1, <2>3
  <2>5. file[m] = Recorded(row[m])
    BY <1>1, <2>1, <2>4 DEF Init
  <2>6. file[m] \in File
    <3>1. file \in [Paths -> File \cup {None}]
      BY InitStoreTypes DEF StoreTypes, FolderTypes
    <3>2. row[m] \in Row /\ row[m].stamp = 0
      BY <1>1, <2>1, LeftFits
    <3>3. 0 \in Stamps
      BY BoundsAssumption DEF Stamps
    <3> QED
      BY <2>1, <2>5, <3>2, <3>3 DEF Recorded, File, Row
  <2> QED
    BY <2>1, <2>5, <2>6, NoneAssumption DEF Recorded
<1>4. Hashed
  BY <1>2 DEF Hashed, Whole, At
<1>5. \A m \in Models : ~Broken(m)
  BY <1>3 DEF Broken
<1> QED
  BY <1>4, <1>5 DEF BrokenFlagged

LEMMA KeepsCatalogInv ==
  ASSUME CatalogInv, [Next]_vars
  PROVE  CatalogInv'
<1>0. StoreInv /\ Hashed /\ BrokenFlagged /\ StoreInv'
  BY KeepsStoreInv DEF CatalogInv
<1>1. CASE Next
  BY <1>0, <1>1, KeepsHashed, KeepsBrokenFlagged DEF CatalogInv
<1>2. CASE UNCHANGED vars
  <2>1. Hashed'
    BY <1>0, <1>2 DEF Hashed, Whole, At, PartData, vars, tables, folder, world
  <2>2. ASSUME NEW m \in Models PROVE Broken(m)' = Broken(m)
    BY <1>2 DEF Broken, Removing, Managed, At, Arg, vars, tables, folder, world
  <2>3. BrokenFlagged'
    BY <1>0, <1>2, <2>2 DEF BrokenFlagged, vars, tables, folder, world
  <2> QED
    BY <1>0, <2>1, <2>3 DEF CatalogInv
<1> QED
  BY <1>1, <1>2

(* While the server serves, a managed model that is not flagged has its    *)
(* file, and the file has the catalog's bytes, unless a removal is under   *)
(* way or the file was tampered with: by others, by a removal cut short,   *)
(* or by the late answer to a cancelled download after the hash of the one *)
(* in its place.  Nothing else breaks it, whatever the sources sent, in    *)
(* whatever order cancelled and resumed downloads wrote, and wherever the  *)
(* server was stopped.                                                     *)
THEOREM InstalledIsTheCatalog == Spec => []InstalledIsCatalog
<1>1. Init => CatalogInv
  BY InitStoreInv, InitCatalog DEF CatalogInv
<1>2. CatalogInv /\ [Next]_vars => CatalogInv'
  BY KeepsCatalogInv
<1>3. CatalogInv => InstalledIsCatalog
  <2> SUFFICES ASSUME CatalogInv, server = "up", NEW m \in Models,
                      Managed(row[m]), ~row[m].flag, row[m].path \notin tampered, ~Removing(m)
               PROVE  file[row[m].path] # None /\ file[row[m].path].data = m
    BY DEF InstalledIsCatalog
  <2>1. row[m].path = m
    BY DEF CatalogInv, StoreInv, StoreTypes, RowsFit, Fits, Managed, Ids
  <2> QED
    BY <2>1 DEF CatalogInv, BrokenFlagged, Broken
<1> QED
  BY <1>1, <1>2, <1>3, PTL DEF Spec

-----------------------------------------------------------------------------
(* A refresh that nothing disturbs.  The row of a drop-in is its file's:   *)
Accurate(i) ==
  row[i] # None /\ row[i].source = "user_folder" /\ ~row[i].flag
    => file[row[i].path] = Recorded(row[i])

(* ... or the refresh has it in hand.                                      *)
Pending(o) ==
  task[o].todo \cup (IF task[o].pc \in {"rehash", "store", "unregister"} THEN {task[o].snap} ELSE {})

RowsMet(o) == \A i \in Ids : Accurate(i) \/ [id |-> i, rec |-> row[i]] \in Pending(o)

(* A file it has met is listed, or came with a row, or has one now.        *)
FilesMet(o) ==
  \A p \in Paths \ (task[o].listed \cup task[o].seen \cup task[o].todo) :
    file[p] # None /\ file[p].data # Junk
      => \/ task[o].pc \in {"match", "register"} /\ p = task[o].arg
         \/ row[file[p].data] # None /\ row[file[p].data].data = file[p].data

RowPlaces  == {"rows", "rehash", "store", "unregister"}
FilePlaces == {"scan", "match", "register"}

CalmFits(o) ==
  /\ op[o].kind = "refresh" /\ task[o].pc \in {"begin", "folder"} \cup RowPlaces \cup FilePlaces
  /\ task[o].pc \in RowPlaces => RowsMet(o)
  /\ task[o].pc \in {"rehash", "store"} => file[task[o].snap.rec.path] = task[o].found
  /\ task[o].pc \in FilePlaces => (\A i \in Ids : Accurate(i)) /\ FilesMet(o)
  /\ task[o].pc \in {"match", "register"} => file[task[o].arg] = task[o].found

Undisturbed == \A o \in calm : CalmFits(o)

(* What a refresh does to one row leaves that row accurate, and no other   *)
(* worse.                                                                  *)
LEMMA Mending ==
  ASSUME StoreTypes, NEW i \in Ids, file' = file,
         \/ row' = [row EXCEPT ![i] = None]
         \/ row' = Flagged(i)
         \/ \E p \in Paths, d \in Data : \E s :
              file[p] = [data |-> d, stamp |-> s] /\ row' = Upserted(i, p, d, s)
  PROVE  Accurate(i)' /\ \A x \in Ids \ {i} : row'[x] = row[x] /\ (Accurate(x) => Accurate(x)')
<1>0. row \in [Ids -> Row \cup {None}]
  BY DEF StoreTypes, TableTypes
<1>1. CASE row' = [row EXCEPT ![i] = None]
  BY <1>0, <1>1 DEF Accurate
<1>2. CASE row' = Flagged(i)
  <2>1. CASE row[i] = None
    BY <1>2, <2>1 DEF Flagged, Accurate
  <2>2. CASE row[i] # None
    <3>1. PICK r : r = [row[i] EXCEPT !.flag = TRUE]
      OBVIOUS
    <3>2. row[i] \in Row
      BY <1>0, <2>2
    <3>3. r.flag
      BY <3>1, <3>2 DEF Row
    <3>4. row' = [row EXCEPT ![i] = r]
      BY <1>2, <2>2, <3>1 DEF Flagged
    <3> QED
      BY <1>0, <3>3, <3>4 DEF Accurate
  <2> QED
    BY <2>1, <2>2
<1>3. CASE \E p \in Paths, d \in Data : \E s :
             file[p] = [data |-> d, stamp |-> s] /\ row' = Upserted(i, p, d, s)
  <2>1. PICK p \in Paths, d \in Data : \E s :
             file[p] = [data |-> d, stamp |-> s] /\ row' = Upserted(i, p, d, s)
    BY <1>3
  <2>2. PICK s : file[p] = [data |-> d, stamp |-> s] /\ row' = Upserted(i, p, d, s)
    BY <2>1
  <2>3. PICK r : r = [source |-> "user_folder", path |-> p, data |-> d, stamp |-> s, flag |-> FALSE]
    OBVIOUS
  <2>4. row' = [row EXCEPT ![i] = r]
    BY <2>2, <2>3 DEF Upserted
  <2>5. row'[i] = r /\ \A x \in Ids \ {i} : row'[x] = row[x]
    BY <1>0, <2>4
  <2>6. Recorded(r) = file[p] /\ r.path = p
    BY <2>2, <2>3 DEF Recorded
  <2>7. Accurate(i)'
    BY <2>5, <2>6 DEF Accurate, Recorded
  <2> QED
    BY <2>5, <2>7 DEF Accurate
<1> QED
  BY <1>1, <1>2, <1>3

(* One row goes out of what is in hand, and is settled.                    *)
LEMMA RowSettles ==
  ASSUME NEW o \in Ops, NEW i \in Ids, NEW r,
         \A x \in Ids : Accurate(x) \/ [id |-> x, rec |-> row[x]] \in Pending(o),
         Pending(o) \subseteq Pending(o)' \cup {r}, r.id = i,
         Accurate(i)' /\ \A x \in Ids \ {i} : row'[x] = row[x] /\ (Accurate(x) => Accurate(x)')
  PROVE  RowsMet(o)'
<1>1. ASSUME NEW x \in Ids, x # i PROVE Accurate(x)' \/ [id |-> x, rec |-> row'[x]] \in Pending(o)'
  <2>1. [id |-> x, rec |-> row[x]] # r
    BY <1>1
  <2> QED
    BY <1>1, <2>1
<1> QED
  BY <1>1 DEF RowsMet

(* The rows: from the snapshot to the last of them.                        *)
LEMMA CalmRows ==
  ASSUME StoreTypes, NEW o \in Ops, op'[o].kind = "refresh", CalmFits(o), file' = file,
         task'[o].pc # "idle",
         \/ RefreshFolder(o)
         \/ RefreshRow(o) \/ RefreshRehash(o) \/ RefreshStore(o) \/ RefreshUnregister(o)
  PROVE  CalmFits(o)'
<1>0. /\ row \in [Ids -> Row \cup {None}] /\ file \in [Paths -> File \cup {None}]
      /\ ArgFits(o) /\ op[o].kind = "refresh"
  BY DEF StoreTypes, TableTypes, FolderTypes, ArgsFit, CalmFits
<1>s. SUFFICES /\ task'[o].pc \in RowPlaces /\ RowsMet(o)'
               /\ task'[o].pc \in {"rehash", "store"} => file[task'[o].snap.rec.path] = task'[o].found
  BY DEF CalmFits, RowPlaces, FilePlaces
<1>1. CASE RefreshFolder(o)
  <2>1. task'[o].pc = "rows" /\ task'[o].todo = UserRows
    BY <1>1, RefreshSteps, IdleIs
  <2>2. row' = row
    BY <1>1 DEF RefreshFolder
  <2>3. ASSUME NEW i \in Ids PROVE Accurate(i)' \/ [id |-> i, rec |-> row'[i]] \in Pending(o)'
    <3>1. CASE row[i] # None /\ row[i].source = "user_folder"
      <4>1. PICK r : r = [id |-> i, rec |-> row[i]]
        OBVIOUS
      <4>2. r \in UserRows
        BY <3>1, <4>1 DEF UserRows
      <4> QED
        BY <2>1, <2>2, <4>1, <4>2 DEF Pending
    <3>2. CASE ~(row[i] # None /\ row[i].source = "user_folder")
      BY <2>2, <3>2 DEF Accurate
    <3> QED
      BY <3>1, <3>2
  <2> QED
    BY <2>1, <2>3 DEF RowPlaces, RowsMet
<1>2. CASE RefreshRow(o)
  <2>0. task[o].pc = "rows" /\ RowsMet(o)
    BY <1>2 DEF RefreshRow, At, CalmFits, RowPlaces
  <2>1. PICK r \in task[o].todo :
          /\ r \in Snap /\ task'[o].todo = task[o].todo \ {r}
          /\ \/ /\ file[r.rec.path] = None /\ row' = [row EXCEPT ![r.id] = None]
                /\ task'[o].pc = "rows"
             \/ row' = Flagged(r.id) /\ task'[o].pc = "rows"
             \/ /\ file[r.rec.path] = Recorded(r.rec) /\ row' = row
                /\ task'[o].pc = "rows"
             \/ /\ file[r.rec.path] # None /\ row' = row /\ task'[o].pc = "rehash"
                /\ task'[o].snap = r /\ task'[o].found = file[r.rec.path]
    BY <1>2, RefreshTakes
  <2>2. r.id \in Ids
    BY <2>1 DEF Snap
  <2>3. CASE /\ task'[o].pc = "rows"
             /\ row' = [row EXCEPT ![r.id] = None] \/ row' = Flagged(r.id)
    <3>1. Pending(o) \subseteq Pending(o)' \cup {r}
      BY <2>0, <2>1, <2>3 DEF Pending
    <3>2. RowsMet(o)'
      BY <2>0, <2>2, <2>3, <3>1, Mending, RowSettles DEF RowsMet
    <3> QED
      BY <2>3, <3>2 DEF RowPlaces
  <2>4. CASE file[r.rec.path] = Recorded(r.rec) /\ row' = row /\ task'[o].pc = "rows"
    <3>1. ASSUME NEW i \in Ids PROVE Accurate(i)' \/ [id |-> i, rec |-> row'[i]] \in Pending(o)'
      <4>1. CASE [id |-> i, rec |-> row[i]] = r
        <5>1. r.rec = row[i]
          BY <4>1
        <5> QED
          BY <2>4, <5>1 DEF Accurate
      <4>2. CASE [id |-> i, rec |-> row[i]] # r
        <5>1. Accurate(i) => Accurate(i)'
          BY <2>4 DEF Accurate
        <5> QED
          BY <2>0, <2>1, <2>4, <4>2, <5>1 DEF RowsMet, Pending
      <4> QED
        BY <4>1, <4>2
    <3> QED
      BY <2>4, <3>1 DEF RowPlaces, RowsMet
  <2>5. CASE /\ file[r.rec.path] # None /\ row' = row /\ task'[o].pc = "rehash"
             /\ task'[o].snap = r /\ task'[o].found = file[r.rec.path]
    <3>1. Pending(o) \subseteq Pending(o)'
      BY <2>0, <2>1, <2>5 DEF Pending
    <3>2. \A i \in Ids : Accurate(i) => Accurate(i)'
      BY <2>5 DEF Accurate
    <3> QED
      BY <2>0, <2>5, <3>1, <3>2 DEF RowPlaces, RowsMet
  <2> QED
    BY <2>1, <2>3, <2>4, <2>5
<1>3. CASE RefreshRehash(o)
  <2>0. /\ task[o].pc = "rehash" /\ RowsMet(o) /\ file[task[o].snap.rec.path] = task[o].found
        /\ task[o].snap \in Snap /\ task[o].found \in File
    BY <1>0, <1>3 DEF RefreshRehash, At, CalmFits, RowPlaces, ArgFits
  <2>1. CASE row' = Flagged(task[o].snap.id) /\ task'[o].pc = "rows" /\ task'[o].todo = task[o].todo
    <3>1. Pending(o) \subseteq Pending(o)' \cup {task[o].snap} /\ task[o].snap.id \in Ids
      BY <2>0, <2>1 DEF Pending, Snap
    <3>2. RowsMet(o)'
      BY <2>0, <2>1, <3>1, Mending, RowSettles DEF RowsMet
    <3> QED
      BY <2>1, <3>2 DEF RowPlaces
  <2>2. CASE /\ task'[o].pc = "store" /\ task'[o].snap = task[o].snap /\ task'[o].todo = task[o].todo
             /\ task'[o].found \in File
             /\ task'[o].found.data = file[task[o].snap.rec.path].data
             /\ task'[o].found.stamp = task[o].found.stamp
             /\ row' = row
    <3>1. task'[o].found = task[o].found
      BY <2>0, <2>2 DEF File
    <3>2. Pending(o) \subseteq Pending(o)'
      BY <2>0, <2>2 DEF Pending
    <3>3. \A i \in Ids : Accurate(i) => Accurate(i)'
      BY <2>2 DEF Accurate
    <3> QED
      BY <2>0, <2>2, <3>1, <3>2, <3>3 DEF RowPlaces, RowsMet
  <2> QED
    BY <1>3, <2>1, <2>2, RefreshTakes
<1>4. CASE RefreshStore(o)
  <2>0. /\ task[o].pc = "store" /\ RowsMet(o) /\ file[task[o].snap.rec.path] = task[o].found
        /\ task[o].snap \in Snap /\ task[o].found \in File
    BY <1>0, <1>4 DEF RefreshStore, At, CalmFits, RowPlaces, ArgFits
  <2>p. PICK i, p, d, s : /\ i = task[o].snap.id /\ p = task[o].snap.rec.path
                          /\ d = task[o].found.data /\ s = task[o].found.stamp
    OBVIOUS
  <2>1. /\ i \in Ids /\ p \in Paths /\ d \in Data /\ file[p] = [data |-> d, stamp |-> s]
        /\ (d \in Customs => d \in Ids)
    BY <2>0, <2>p DEF Snap, Row, File, Ids
  <2>2. task'[o].todo = task[o].todo /\ task'[o].pc \in {"rows", "unregister"}
    BY <1>4, RefreshSteps
  <2>3. CASE row' = Upserted(i, p, d, s) \/ row' = [row EXCEPT ![i] = None]
    <3>1. Pending(o) \subseteq Pending(o)' \cup {task[o].snap}
      BY <2>0, <2>2 DEF Pending
    <3>2. Accurate(i)' /\ \A x \in Ids \ {i} : row'[x] = row[x] /\ (Accurate(x) => Accurate(x)')
      <4>1. row' = Upserted(i, p, d, s) => \E q \in Paths, e \in Data : \E u :
              file[q] = [data |-> e, stamp |-> u] /\ row' = Upserted(i, q, e, u)
        BY <2>1
      <4> QED
        BY <2>1, <2>3, <4>1, Mending
    <3>3. RowsMet(o)'
      BY <2>0, <2>p, <2>1, <3>1, <3>2, RowSettles DEF RowsMet
    <3> QED
      BY <2>2, <3>3 DEF RowPlaces
  <2>4. CASE d \in Customs /\ d # i /\ row' = Upserted(d, p, d, s) /\ Goto(o, "unregister")
    <3>0. "unregister" \in Places /\ TaskTypes
      BY DEF Places, StoreTypes
    <3>1. task'[o].pc = "unregister" /\ task'[o].snap = task[o].snap
      BY <2>4, <3>0, Goes DEF Kept
    <3>2. Pending(o) \subseteq Pending(o)'
      BY <2>0, <2>2, <3>1 DEF Pending
    <3>3. Accurate(d)' /\ \A x \in Ids \ {d} : row'[x] = row[x] /\ (Accurate(x) => Accurate(x)')
      <4>1. \E q \in Paths, e \in Data : \E u :
              file[q] = [data |-> e, stamp |-> u] /\ row' = Upserted(d, q, e, u)
        BY <2>1, <2>4
      <4> QED
        BY <2>1, <2>4, <4>1, Mending
    <3>4. RowsMet(o)'
      BY <2>0, <3>2, <3>3 DEF RowsMet
    <3> QED
      BY <3>1, <3>4 DEF RowPlaces
  <2> QED
    BY <1>4, <2>p, <2>3, <2>4 DEF RefreshStore
<1>5. CASE RefreshUnregister(o)
  <2>0. task[o].pc = "unregister" /\ RowsMet(o) /\ task[o].snap \in Snap
    BY <1>0, <1>5 DEF RefreshUnregister, At, CalmFits, RowPlaces, ArgFits
  <2>1. task'[o].todo = task[o].todo /\ task'[o].pc = "rows"
    BY <1>5, RefreshSteps
  <2>2. row' = [row EXCEPT ![task[o].snap.id] = None]
    BY <1>5 DEF RefreshUnregister
  <2>3. Pending(o) \subseteq Pending(o)' \cup {task[o].snap} /\ task[o].snap.id \in Ids
    BY <2>0, <2>1 DEF Pending, Snap
  <2>4. RowsMet(o)'
    BY <2>0, <2>2, <2>3, Mending, RowSettles DEF RowsMet
  <2> QED
    BY <2>1, <2>4 DEF RowPlaces
<1> QED
  BY <1>1, <1>2, <1>3, <1>4, <1>5

(* The files: from the scan of the folder to the end.                      *)
LEMMA CalmFiles ==
  ASSUME StoreTypes, NEW o \in Ops, op'[o].kind = "refresh", CalmFits(o), file' = file,
         RefreshCollect(o) \/ RefreshHash(o) \/ RefreshMatch(o) \/ RefreshRegister(o)
  PROVE  CalmFits(o)'
<1>0. /\ row \in [Ids -> Row \cup {None}] /\ file \in [Paths -> File \cup {None}]
      /\ ArgFits(o) /\ op[o].kind = "refresh" /\ \A i \in Ids : Fits(i, row[i])
  BY DEF StoreTypes, TableTypes, FolderTypes, ArgsFit, CalmFits, RowsFit
<1>d. \A p \in Paths : file[p] # None /\ file[p].data # Junk => file[p].data \in Ids
  BY <1>0 DEF File, Data, Ids
<1>s. SUFFICES /\ task'[o].pc \in FilePlaces /\ (\A i \in Ids : Accurate(i)') /\ FilesMet(o)'
               /\ task'[o].pc \in {"match", "register"} => file[task'[o].arg] = task'[o].found
  BY DEF CalmFits, RowPlaces, FilePlaces
<1>r. ASSUME row' = row PROVE \A i \in Ids : Accurate(i) => Accurate(i)'
  BY <1>r DEF Accurate
<1>1. CASE RefreshCollect(o)
  <2>1. task[o].pc = "rows" /\ task[o].todo = {} /\ RowsMet(o) /\ row' = row
    BY <1>1 DEF RefreshCollect, At, CalmFits, RowPlaces, tables
  <2>2. \A i \in Ids : Accurate(i)
    BY <2>1 DEF RowsMet, Pending
  <2>3. /\ task'[o].pc = "scan" /\ task'[o].seen = task[o].seen
        /\ task'[o].todo = {p \in Paths : file[p] # None /\ p \notin task[o].seen}
    BY <1>1, RefreshSteps
  <2>4. FilesMet(o)'
    BY <2>3 DEF FilesMet
  <2> QED
    BY <1>r, <2>1, <2>2, <2>3, <2>4 DEF FilePlaces
<1>2. CASE RefreshHash(o)
  <2>1. task[o].pc = "scan" /\ (\A i \in Ids : Accurate(i)) /\ FilesMet(o) /\ row' = row
    BY <1>2 DEF RefreshHash, At, CalmFits, FilePlaces, tables
  <2>2. /\ task'[o].seen = task[o].seen /\ task[o].listed \subseteq task'[o].listed
        /\ \E p \in task[o].todo :
             /\ p \in Paths /\ task'[o].todo = task[o].todo \ {p}
             /\ \/ task'[o].pc = "scan" /\ file[p] # None /\ file[p].data = Junk
                \/ task'[o].pc = "scan" /\ p \in task'[o].listed
                \/ /\ file[p] # None /\ file[p].data # Junk
                   /\ task'[o].arg = p /\ task'[o].found = file[p]
                   /\ task'[o].pc = IF file[p].data \in Models THEN "match" ELSE "register"
    BY <1>2, RefreshTakes
  <2>3. PICK p \in task[o].todo :
          /\ p \in Paths /\ task'[o].todo = task[o].todo \ {p}
          /\ \/ task'[o].pc = "scan" /\ file[p] # None /\ file[p].data = Junk
             \/ task'[o].pc = "scan" /\ p \in task'[o].listed
             \/ /\ task'[o].arg = p /\ task'[o].found = file[p]
                /\ task'[o].pc \in {"match", "register"}
    BY <2>2
  <2>4. ASSUME NEW q \in Paths \ (task'[o].listed \cup task'[o].seen \cup task'[o].todo),
               file[q] # None, file[q].data # Junk
        PROVE  \/ task'[o].pc \in {"match", "register"} /\ q = task'[o].arg
               \/ row[file[q].data] # None /\ row[file[q].data].data = file[q].data
    <3>1. CASE q = p
      BY <2>3, <2>4, <3>1
    <3>2. CASE q # p
      <4>1. q \notin task[o].listed \cup task[o].seen \cup task[o].todo
        BY <2>2, <2>3, <2>4, <3>2
      <4> QED
        BY <2>1, <2>4, <4>1 DEF FilesMet
    <3> QED
      BY <3>1, <3>2
  <2>5. FilesMet(o)'
    BY <2>1, <2>4 DEF FilesMet
  <2>6. /\ task'[o].pc \in FilePlaces
        /\ task'[o].pc \in {"match", "register"} => file[task'[o].arg] = task'[o].found
    BY <2>3 DEF FilePlaces
  <2> QED
    BY <1>r, <2>1, <2>5, <2>6
<1>3. CASE RefreshMatch(o)
  <2>1. /\ task[o].pc = "match" /\ (\A i \in Ids : Accurate(i)) /\ FilesMet(o) /\ row' = row
        /\ file[task[o].arg] = task[o].found
    BY <1>3 DEF RefreshMatch, At, CalmFits, FilePlaces, tables
  <2>2. task[o].arg \in Paths /\ task[o].found.data \in Ids
    BY <1>0, <2>1 DEF ArgFits
  <2>3. PICK place \in {"scan", "register"} :
          /\ Goto(o, place)
          /\ place = "scan" => InstalledFromManagedStore(task[o].found.data)
    BY <1>3 DEF RefreshMatch, Goto
  <2>4. task'[o].pc = place /\ Kept(task[o], task'[o])
    <3>1. place \in Places /\ TaskTypes
      BY <2>3 DEF Places, StoreTypes
    <3> QED
      BY <2>3, <3>1, Goes
  <2>5. ASSUME place = "scan"
        PROVE  row[task[o].found.data] # None /\ row[task[o].found.data].data = task[o].found.data
    BY <1>0, <2>2, <2>3, <2>5 DEF InstalledFromManagedStore, Fits
  <2>6. ASSUME NEW q \in Paths \ (task[o].listed \cup task[o].seen \cup task[o].todo),
               file[q] # None, file[q].data # Junk
        PROVE  \/ place = "register" /\ q = task[o].arg
               \/ row[file[q].data] # None /\ row[file[q].data].data = file[q].data
    BY <2>1, <2>3, <2>5, <2>6 DEF FilesMet
  <2>7. FilesMet(o)'
    BY <2>1, <2>4, <2>6 DEF FilesMet, Kept
  <2> QED
    BY <1>r, <2>1, <2>3, <2>4, <2>7 DEF FilePlaces, Kept
<1>4. CASE RefreshRegister(o)
  <2>1. /\ task[o].pc = "register" /\ (\A i \in Ids : Accurate(i)) /\ FilesMet(o)
        /\ file[task[o].arg] = task[o].found
    BY <1>4 DEF RefreshRegister, At, CalmFits, FilePlaces
  <2>2. task[o].arg \in Paths /\ task[o].found.data \in Ids /\ task[o].found \in File
    BY <1>0, <2>1 DEF ArgFits
  <2>3. PICK p, d, s : p = task[o].arg /\ d = task[o].found.data /\ s = task[o].found.stamp
    OBVIOUS
  <2>4. /\ p \in Paths /\ d \in Ids /\ d \in Data /\ file[p] # None
        /\ file[p] = [data |-> d, stamp |-> s] /\ file[p].stamp = s /\ s \in Stamps
    BY <2>1, <2>2, <2>3, NoneAssumption DEF File
  <2>5. row' = Upserted(d, p, d, s)
    BY <1>4, <2>3, <2>4 DEF RefreshRegister, Arg
  <2>6. Accurate(d)' /\ \A x \in Ids \ {d} : row'[x] = row[x] /\ (Accurate(x) => Accurate(x)')
    <3>1. \E q \in Paths, e \in Data : \E u :
            file[q] = [data |-> e, stamp |-> u] /\ row' = Upserted(d, q, e, u)
      BY <2>4, <2>5
    <3> QED
      BY <2>4, <3>1, Mending
  <2>7. row'[d] # None /\ row'[d].data = d
    <3>1. PICK r : r = [source |-> "user_folder", path |-> p, data |-> d, stamp |-> s, flag |-> FALSE]
      OBVIOUS
    <3>2. row' = [row EXCEPT ![d] = r]
      BY <2>5, <3>1 DEF Upserted
    <3>3. r \in Row /\ r.data = d
      BY <2>4, <3>1 DEF Row, Sources
    <3> QED
      BY <1>0, <2>4, <3>2, <3>3, NoneAssumption
  <2>8. /\ task'[o].pc = "scan" /\ task'[o].todo = task[o].todo /\ task'[o].seen = task[o].seen
        /\ task'[o].listed = task[o].listed
    BY <1>4, RefreshSteps
  <2>9. ASSUME NEW q \in Paths \ (task[o].listed \cup task[o].seen \cup task[o].todo),
               file[q] # None, file[q].data # Junk
        PROVE  row'[file[q].data] # None /\ row'[file[q].data].data = file[q].data
    <3>1. CASE file[q].data = d
      BY <2>7, <3>1
    <3>2. CASE file[q].data # d
      <4>1. q # p
        BY <2>4, <3>2
      <4>2. row[file[q].data] # None /\ row[file[q].data].data = file[q].data
        BY <2>1, <2>3, <2>9, <4>1 DEF FilesMet
      <4>3. row'[file[q].data] = row[file[q].data]
        BY <1>d, <2>6, <2>9, <3>2
      <4> QED
        BY <4>2, <4>3
    <3> QED
      BY <3>1, <3>2
  <2>10. FilesMet(o)'
    BY <2>8, <2>9 DEF FilesMet
  <2>11. \A i \in Ids : Accurate(i)'
    BY <2>1, <2>6
  <2> QED
    BY <2>8, <2>10, <2>11 DEF FilePlaces
<1> QED
  BY <1>1, <1>2, <1>3, <1>4

LEMMA KeepsUndisturbed ==
  ASSUME StoreInv, Undisturbed, Next
  PROVE  Undisturbed'
<1>0. StoreTypes /\ calm \subseteq Ops /\ TaskTypes /\ op \in [Ops -> Operations]
  BY DEF StoreInv, StoreTypes, WorldTypes, TableTypes
<1>1. ASSUME NEW o \in Ops, TaskStep(o), calm' = IF task'[o] = Idle THEN {} ELSE calm \cap {o}
      PROVE  Undisturbed'
  <2>1. ASSUME NEW x \in calm' PROVE CalmFits(x)'
    <3>1. x = o /\ o \in calm /\ task'[o] # Idle
      BY <1>1, <2>1
    <3>2. CalmFits(o) /\ op[o].kind = "refresh" /\ task[o].pc # "insert"
      BY <3>1 DEF Undisturbed, CalmFits, RowPlaces, FilePlaces
    <3>3. RefreshStep(o)
      BY <1>1, <3>2, StepKinds
    <3>4. task'[o].pc # "idle" /\ op'[o].kind = "refresh"
      BY <1>0, <1>1, <3>1, <3>2, TaskSteps, SameOps
    <3>5. ~RefreshEnd(o)
      BY <1>0, <3>4, RefreshSteps DEF RefreshEnd, Finish, Quit, Idle, TaskTypes
    <3>6. file' = file
      BY <3>3 DEF RefreshStep, RefreshBegin, RefreshFolder, RefreshRow, RefreshRehash, RefreshStore, RefreshUnregister,
         RefreshCollect, RefreshHash, RefreshMatch, RefreshRegister, RefreshEnd, folder
    <3>b. CASE RefreshBegin(o)
      <4>1. task'[o].pc = "folder"
        BY <1>0, <3>b, <3>4, RefreshSteps DEF Plain
      <4> QED
        BY <3>1, <3>4, <4>1 DEF CalmFits, RowPlaces, FilePlaces
    <3>7. CASE RefreshFolder(o) \/ RefreshRow(o) \/ RefreshRehash(o) \/ RefreshStore(o) \/ RefreshUnregister(o)
      BY <1>0, <3>1, <3>2, <3>4, <3>6, <3>7, CalmRows
    <3>8. CASE RefreshCollect(o) \/ RefreshHash(o) \/ RefreshMatch(o) \/ RefreshRegister(o)
      BY <1>0, <3>1, <3>2, <3>4, <3>6, <3>8, CalmFiles
    <3> QED
      BY <3>3, <3>5, <3>b, <3>7, <3>8 DEF RefreshStep
  <2> QED
    BY <2>1 DEF Undisturbed
<1>2. ASSUME NEW o \in Ops, RefreshCall(o), calm' \subseteq {o}
      PROVE  Undisturbed'
  <2>1. task'[o].pc = "begin"
    BY <1>0, <1>2, CallSteps
  <2>2. op'[o].kind = "refresh"
    BY <1>0, <1>2 DEF RefreshCall
  <2>3. CalmFits(o)'
    BY <2>1, <2>2 DEF CalmFits, RowPlaces, FilePlaces
  <2> QED
    BY <1>2, <2>3 DEF Undisturbed
<1>3. ASSUME NEW o \in Ops, Cancel(o) \/ RemoveCut(o) \/ WriteLands(o), calm' = calm \cap {o}
      PROVE  Undisturbed'
  <2>1. ASSUME NEW x \in calm' PROVE CalmFits(x)'
    <3>1. x = o /\ CalmFits(o)
      BY <1>3, <2>1 DEF Undisturbed
    <3>2. ~RemoveCut(o)
      BY <3>1 DEF CalmFits, RemoveCut, At
    <3>3. UNCHANGED <<row, file, task>> /\ op'[o].kind = op[o].kind
      BY <1>0, <1>3, <3>1, <3>2 DEF Cancel, WriteLands, tables, folder, Operations
    <3>4. (\A i \in Ids : Accurate(i)' = Accurate(i)) /\ Pending(o)' = Pending(o)
      BY <3>3 DEF Accurate, Pending
    <3>5. RowsMet(o)' = RowsMet(o) /\ FilesMet(o)' = FilesMet(o)
      BY <3>3, <3>4 DEF RowsMet, FilesMet
    <3> QED
      BY <3>1, <3>3, <3>4, <3>5 DEF CalmFits
  <2> QED
    BY <2>1 DEF Undisturbed
<1>4. calm' = {} => Undisturbed'
  BY DEF Undisturbed
<1> QED
  BY <1>1, <1>2, <1>3, <1>4 DEF Next

LEMMA CalmEnds ==
  ASSUME StoreInv, Undisturbed, [Next]_vars, NEW o \in calm, op[o].kind = "refresh",
         op[o].state = "running", op'[o].state = "completed"
  PROVE  RefreshEnd(o) \/ FoundNoFolder(o)
<1>0. /\ StoreTypes /\ o \in Ops /\ op \in [Ops -> Operations] /\ CalmFits(o)
      /\ task[o].pc # "insert"
  BY DEF StoreInv, StoreTypes, WorldTypes, TableTypes, Undisturbed, CalmFits, RowPlaces, FilePlaces
<1>1. ASSUME NEW x \in Ops, TaskStep(x) PROVE RefreshEnd(o) \/ FoundNoFolder(o)
  <2>1. x = o
    BY <1>0, <1>1, TaskSteps, SameOps
  <2>2. RefreshStep(o)
    BY <1>0, <1>1, <2>1, StepKinds
  <2>3. ~RefreshBegin(o)
    BY <1>0 DEF RefreshBegin, Finish, Updated, Operations
  <2>4. op' # op
    OBVIOUS
  <2>5. CASE RefreshFolder(o)
    <3>1. ~Finish(o, "failed")
      BY <1>0 DEF Finish, Updated, Operations
    <3> QED
      BY <2>4, <2>5, <3>1 DEF RefreshFolder, FoundNoFolder
  <2> QED
    BY <2>2, <2>3, <2>4, <2>5 DEF RefreshStep, RefreshRow, RefreshRehash, RefreshStore, RefreshUnregister,
       RefreshCollect, RefreshHash, RefreshMatch, RefreshRegister, tables
<1>2. ASSUME NEW x \in Ops, Calls(x) \/ RefreshCall(x) PROVE FALSE
  <2>1. op'[o] = op[o]
    <3>1. x # o
      BY <1>0, <1>2, CallStates DEF StoreInv
    <3> QED
      BY <1>0, <1>2, <3>1, CallsFit
  <2> QED
    BY <2>1
<1>3. ASSUME NEW x \in Ops, Cancel(x) \/ RemoveCut(x) \/ WriteLands(x) PROVE FALSE
  <2>1. op' = op \/ op' = [op EXCEPT ![x].state = "cancelled"]
    BY <1>3 DEF Cancel, RemoveCut, WriteLands, tables
  <2> QED
    BY <1>0, <2>1 DEF Operations
<1>4. ASSUME EditFile \/ Crash \/ Reconcile \/ UNCHANGED vars PROVE FALSE
  BY <1>4 DEF EditFile, Crash, Reconcile, vars, tables
<1>5. ASSUME Sweep PROVE FALSE
  BY <1>0, <1>5, SweptStates
<1> QED
  BY <1>1, <1>2, <1>3, <1>4, <1>5 DEF Next

(* A refresh that ends without anything else having moved leaves the table *)
(* and the folder in agreement: what it met is registered or listed, and   *)
(* every drop-in that is not flagged is the file its row describes.  The   *)
(* exception is the refresh that finds no folder, and looks at no row.     *)
THEOREM RefreshesAgree == Spec => RefreshAgrees
<1>1. Init => Undisturbed
  BY DEF Init, Undisturbed
<1>2. StoreInv /\ Undisturbed /\ [Next]_vars => Undisturbed'
  <2>1. ASSUME StoreInv, Undisturbed, UNCHANGED vars PROVE Undisturbed'
    <3>1. ASSUME NEW o \in Ops PROVE CalmFits(o)' = CalmFits(o)
      <4>1. (\A i \in Ids : Accurate(i)' = Accurate(i)) /\ Pending(o)' = Pending(o)
        BY <2>1 DEF Accurate, Pending, vars, tables, folder, world
      <4>2. RowsMet(o)' = RowsMet(o) /\ FilesMet(o)' = FilesMet(o)
        BY <2>1, <4>1 DEF RowsMet, FilesMet, vars, tables, folder, world
      <4> QED
        BY <2>1, <4>1, <4>2 DEF CalmFits, vars, tables, folder, world
    <3>2. calm' = calm /\ calm \subseteq Ops
      BY <2>1 DEF vars, StoreInv, StoreTypes, WorldTypes
    <3> QED
      BY <2>1, <3>1, <3>2 DEF Undisturbed
  <2> QED
    BY <2>1, KeepsUndisturbed
<1>3. StoreInv /\ Undisturbed /\ [Next]_vars =>
        [\A o \in calm : op[o].kind = "refresh" /\ op[o].state = "running"
            /\ op'[o].state = "completed" => TableAgrees(o) \/ FoundNoFolder(o)]_vars
  <2> SUFFICES ASSUME StoreInv, Undisturbed, [Next]_vars, NEW o \in calm, op[o].kind = "refresh",
                      op[o].state = "running", op'[o].state = "completed", ~FoundNoFolder(o)
               PROVE  TableAgrees(o)
    OBVIOUS
  <2>1. task[o].pc = "scan" /\ task[o].todo = {}
    BY CalmEnds DEF RefreshEnd, At
  <2>2. (\A i \in Ids : Accurate(i)) /\ FilesMet(o)
    BY <2>1 DEF Undisturbed, CalmFits, FilePlaces
  <2>3. \A p \in Paths : file[p] # None /\ file[p].data # Junk => file[p].data \in Ids
    BY DEF StoreInv, StoreTypes, FolderTypes, File, Data, Ids
  <2> QED
    BY <2>1, <2>2, <2>3 DEF TableAgrees, Accurate, FilesMet
<1> QED
  BY <1>1, <1>2, <1>3, StoreInvariant, PTL DEF Spec, RefreshAgrees
===============================================================================
