------------------------------ MODULE Downloads ------------------------------
(***************************************************************************)
(* Installing a catalog model (src/download.rs): attempts that resume the  *)
(* .part file, the answers of the source, the writes, the hash and the     *)
(* promotion.  The .part is named by the hash of the catalog's file, so a  *)
(* cancelled download and the one that replaces it share it; a write is    *)
(* handed to a thread pool and lands later (late), before a hash that is   *)
(* queued behind it.                                                       *)
(***************************************************************************)
EXTENDS ModelTables

(* install_model reads the installed row before it inserts the operation.  *)
InstallCall(o, m) == row[m] = None /\ Call(o, "install", m, "insert")

(* The start of the task, and the disk preflight.                          *)
DownloadBegin(o) ==
  /\ At(o, "install", "begin")
  /\ \/ Cancelled(o) /\ Quit(o) /\ UNCHANGED op
     \/ ~Cancelled(o) /\ op' = Updated(o, "running") /\ Goto(o, "fetch")
     \/ ~Cancelled(o) /\ Finish(o, "failed")
  /\ UNCHANGED <<sub, row, folder, world>>

PartData(m) == IF part[m].good /\ part[m].len = Chunks THEN m ELSE Junk
PartLen(m) == IF part[m] = None THEN 0 ELSE part[m].len

ResumeDecision(partial, expected) ==
  IF expected > 0 /\ partial = expected THEN "verify"
  ELSE IF partial = 0 \/ partial > expected THEN "restart"
  ELSE "range"

(* Whoever has the .part open keeps a file without a name.                 *)
Unlinked(t, m) ==
  [x \in Ops |-> IF t[x].arg = m /\ t[x].handle \in {"start", "end"}
                 THEN [t[x] EXCEPT !.handle = "gone"] ELSE t[x]]
WritesLost(m) == [x \in Ops |-> IF late[x] # None /\ late[x].model = m THEN None ELSE late[x]]

(* A download that has hashed the .part, and is about to rename it, is not *)
(* told that what it has hashed is no longer there.                        *)
Discarded(t, m) ==
  [x \in Ops |-> IF t[x].arg = m /\ At(x, "install", "promote")
                 THEN [t[x] EXCEPT !.handle = "gone"] ELSE t[x]]

PartGone(m) == part' = [part EXCEPT ![m] = None] /\ late' = WritesLost(m)

(* The start of an attempt: the cancellation check, and what to do with    *)
(* the bytes that are there.                                               *)
Fetch(o) ==
  LET m == Arg(o)
      decision == ResumeDecision(PartLen(m), Chunks)
  IN /\ At(o, "install", "fetch")
     /\ \/ Cancelled(o) /\ Quit(o) /\ UNCHANGED <<part, late>>
        \/ /\ ~Cancelled(o) /\ decision = "verify"
           /\ Goto(o, "hash") /\ UNCHANGED <<part, late>>
        \/ /\ ~Cancelled(o) /\ decision = "range"
           /\ task' = [task EXCEPT ![o].pc = "request", ![o].off = PartLen(m)]
           /\ UNCHANGED <<part, late>>
        \/ /\ ~Cancelled(o) /\ decision = "restart"
           /\ IF PartLen(m) > 0 THEN PartGone(m) ELSE UNCHANGED <<part, late>>
           /\ task' = [Unlinked(task, m) EXCEPT ![o].pc = "request", ![o].off = 0]
     /\ UNCHANGED <<tables, file, staged, world>>

(* Mutant of Again: one attempt too many.                                  *)
AgainOnceMore(o, t) ==
  IF t[o].tries = MaxTries
  THEN op' = Updated(o, "failed") /\ task' = [t EXCEPT ![o] = Idle]
  ELSE /\ task' = [t EXCEPT ![o].pc = "fetch", ![o].tries = @ + 1,
                            ![o].off = 0, ![o].handle = "none"]
       /\ UNCHANGED op

(* A failed attempt: the next one after the backoff, whose cancellation    *)
(* check is that of Fetch, or the end of the operation.  A write in flight *)
(* stays in flight.                                                        *)
Again(o, t) ==
  LET n == t[o].tries + 1
  IN IF n = MaxTries
     THEN op' = Updated(o, "failed") /\ task' = [t EXCEPT ![o] = Idle]
     ELSE /\ task' = [t EXCEPT ![o].pc = "fetch", ![o].tries = n,
                               ![o].off = 0, ![o].handle = "none"]
          /\ UNCHANGED op

Opened(o, t, from, handle) ==
  task' = [t EXCEPT ![o].pc = "stream", ![o].off = from, ![o].handle = handle]

Empty == [len |-> 0, good |-> TRUE]

(* The source's answer: none, an error status or a range that starts       *)
(* elsewhere; the whole object; the range asked for; 416.  Nobody asks      *)
(* whether the operation was cancelled while the request was out.          *)
AnswerFails(o) ==
  At(o, "install", "request") /\ Again(o, task) /\ UNCHANGED <<sub, row, folder, world>>

AnswerWhole(o) ==
  LET m == Arg(o)
      fresh == task[o].off > 0   \* the partial is removed, not truncated
  IN /\ At(o, "install", "request")
     /\ fresh => part[m] # None
     /\ part' = [part EXCEPT ![m] = Empty]
     /\ late' = IF fresh THEN WritesLost(m) ELSE late
     /\ Opened(o, Discarded(IF fresh THEN Unlinked(task, m) ELSE task, m), 0, "start")
     /\ UNCHANGED <<tables, file, staged, world>>

AnswerRange(o) ==
  LET m == Arg(o)
  IN /\ At(o, "install", "request") /\ task[o].off > 0
     /\ part' = [part EXCEPT ![m] = IF @ = None THEN Empty ELSE @]
     /\ Opened(o, task, task[o].off, "end")
     /\ UNCHANGED <<tables, file, staged, late, world>>

AnswerPastEnd(o) ==
  /\ At(o, "install", "request") /\ task[o].off > 0
  /\ PartGone(Arg(o))
  /\ Again(o, Discarded(Unlinked(task, Arg(o)), Arg(o)))
  /\ UNCHANGED <<sub, row, file, staged, world>>

(* A chunk arrives, once the previous write is done: cancelled, too much,  *)
(* or handed to the pool.  Its bytes may not be the catalog's.             *)
ChunkArrives(o) ==
  LET t == task[o]
  IN /\ At(o, "install", "stream") /\ late[o] = None
     /\ \/ Cancelled(o) /\ Quit(o) /\ UNCHANGED <<op, late>>
        \/ ~Cancelled(o) /\ t.off = Chunks /\ Again(o, task) /\ UNCHANGED late
        \/ /\ ~Cancelled(o) /\ t.off < Chunks
           /\ task' = [task EXCEPT ![o].off = t.off + 1]
           /\ \E good \in BOOLEAN :
                late' = IF t.handle = "gone" THEN late
                        ELSE [late EXCEPT ![o] = [model |-> t.arg, pos |-> t.off,
                                                  end |-> t.handle = "end", good |-> good]]
           /\ UNCHANGED op
     /\ UNCHANGED <<sub, row, file, part, staged, world>>

(* A write reaches the file: at its end in append mode, at its own place   *)
(* otherwise.                                                              *)
WriteLands(o) ==
  /\ late[o] # None
  /\ LET w  == late[o]
         p  == part[w.model]
         at == IF w.end THEN p.len ELSE w.pos
     IN IF p = None THEN UNCHANGED part
        ELSE part' = [part EXCEPT ![w.model] =
               [len  |-> IF at < p.len THEN p.len ELSE at + 1,
                good |-> p.good /\ w.good /\ at = w.pos /\ at <= p.len]]
  /\ late' = [late EXCEPT ![o] = None]
  /\ UNCHANGED <<tables, file, staged, task, world>>

StreamBreaks(o) ==
  At(o, "install", "stream") /\ Again(o, task) /\ UNCHANGED <<sub, row, folder, world>>

(* The response ends: the file is synced and must have the catalog's size. *)
StreamEnds(o) ==
  /\ At(o, "install", "stream") /\ late[o] = None
  /\ IF task[o].off = Chunks
     THEN task' = [task EXCEPT ![o].pc = "hash", ![o].handle = "none"] /\ UNCHANGED op
     ELSE Again(o, task)
  /\ UNCHANGED <<sub, row, folder, world>>

(* Mutant of HashPart: a file of the right size is taken unread.           *)
SizePart(o) ==
  /\ At(o, "install", "hash")
  /\ \/ part[Arg(o)] # None /\ part[Arg(o)].len = Chunks /\ Goto(o, "promote") /\ UNCHANGED op
     \/ (part[Arg(o)] = None \/ part[Arg(o)].len # Chunks) /\ Finish(o, "failed")
  /\ UNCHANGED <<sub, row, folder, world>>

(* The hash of the whole file decides; other bytes go to quarantine.       *)
HashPart(o) ==
  LET m == Arg(o)
      p == part[m]
  IN /\ At(o, "install", "hash")
     /\ \A x \in Ops : late[x] # None => late[x].model # m
     /\ \/ /\ p # None /\ PartData(m) = m
           /\ Goto(o, "promote") /\ UNCHANGED <<op, part>>
        \/ /\ p # None /\ PartData(m) # m
           /\ part' = [part EXCEPT ![m] = None]
           /\ op' = Updated(o, "failed")
           /\ task' = [Unlinked(task, m) EXCEPT ![o] = Idle]
        \/ p = None /\ Finish(o, "failed") /\ UNCHANGED part
     /\ UNCHANGED <<sub, row, file, staged, late, world>>

(* Mutant of PromotePart: the transaction does not read the operation.     *)
PromotePartUnasked(o) ==
  LET m == Arg(o)
  IN /\ At(o, "install", "promote") /\ row[m] = None /\ part[m] # None
     /\ Promoted(m, "catalog_download", m) /\ tampered' = tampered \ {m}
     /\ part' = [part EXCEPT ![m] = None]
     /\ Finish(o, "completed")
     /\ UNCHANGED <<sub, staged, late>>

(* One transaction: a cancelled or failed operation, or a row that is      *)
(* there, refuses it.                                                      *)
PromotePart(o) ==
  LET m == Arg(o)
  IN /\ At(o, "install", "promote")
     /\ \/ /\ op[o].state = "running" /\ row[m] = None /\ part[m] # None
           /\ Promoted(m, "catalog_download", PartData(m))
           /\ tampered' = IF task[o].handle = "gone" THEN tampered \cup {m} ELSE tampered \ {m}
           /\ part' = [part EXCEPT ![m] = None]
           /\ Finish(o, "completed")
        \/ \* refused, or the rename or the commit failed and was undone
           Finish(o, "failed") /\ UNCHANGED <<row, file, part, world>>
     /\ UNCHANGED <<sub, staged, late>>

DownloadStep(o) ==
  \/ DownloadBegin(o) \/ Fetch(o)
  \/ AnswerFails(o) \/ AnswerWhole(o) \/ AnswerRange(o) \/ AnswerPastEnd(o)
  \/ ChunkArrives(o) \/ StreamBreaks(o) \/ StreamEnds(o)
  \/ HashPart(o) \/ PromotePart(o)
===============================================================================
