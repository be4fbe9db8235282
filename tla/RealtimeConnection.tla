-------------------------- MODULE RealtimeConnection --------------------------
(***************************************************************************)
(* Live transcription (src/realtime.rs).  A connection handles its events  *)
(* and the updates of its item one at a time.  An item is streamed by a    *)
(* worker thread that takes commands and sends updates, or, for a          *)
(* translation on a model that cannot stream, buffered and run as a batch  *)
(* at the commit.  One stream slot serves all connections.  The batch      *)
(* permit, which starting a stream and running a batch wait for, is        *)
(* InferenceQueue's; here the wait ends with it or without.                *)
(*                                                                         *)
(* Text is a number: how often the engine has committed some more of it,   *)
(* which only grows.  Audio that decodes to no samples is not handed on;   *)
(* the end of the audio, which a commit hands on, always decodes.          *)
(***************************************************************************)
EXTENDS Integers, Sequences, FiniteSets

CONSTANTS Conns,
          None,        \* nobody
          MaxEvents    \* bound: events of all clients, their leaving aside

ASSUME EventsAssumption == MaxEvents \in Nat
ASSUME NobodyAssumption == None \notin Conns \X {1, 2}

VARIABLES pc,        \* where the connection's task stands
          why,       \* what an item is discarded for
          cur,       \* Connection.item: the number of its item, or 0
          started,   \* the number of the item it started last, or 0
          events,    \* events so far
          gone,      \* the client has left; sends fail from here on
          kind,      \* "none", "stream" or "buffered"
          committed, \* committed_by_client
          finalized, \* Item::finalize has been called
          held,      \* BufferedTurn: audio is waiting for the commit
          shown,     \* Item.committed: what the deltas have carried
          finals,    \* final events sent for the item
          worker,    \* where the item's worker stands
          outcome,   \* what the worker will announce
          text,      \* the engine's committed text
          commands, open, \* the command channel, and whether it has a sender
          updates,   \* the update channel
          slot       \* the stream slot's owner

connection == <<pc, why, cur, started, events, gone>>
item       == <<kind, committed, finalized, held, shown, finals>>
engine     == <<worker, outcome, text, commands, open, updates>>
vars       == <<connection, item, engine, slot>>

(* A connection's items take the numbers 1 and 2 in turn: the last one has *)
(* ended when the next is started.                                         *)
Items == Conns \X {1, 2}
Other(n) == IF n = 1 THEN 2 ELSE 1

(* The item of the connection, and the one it started last.                *)
It(c)     == <<c, cur[c]>>
Latest(c) == <<c, started[c]>>
HasItem(c) == cur[c] # 0

Init ==
  /\ pc = [c \in Conns |-> "serve"]
  /\ why = [c \in Conns |-> "none"]
  /\ cur = [c \in Conns |-> 0]
  /\ started = [c \in Conns |-> 0]
  /\ events = 0
  /\ gone = [c \in Conns |-> FALSE]
  /\ kind = [i \in Items |-> "none"]
  /\ committed = [i \in Items |-> FALSE]
  /\ finalized = [i \in Items |-> FALSE]
  /\ held = [i \in Items |-> FALSE]
  /\ shown = [i \in Items |-> 0]
  /\ finals = [i \in Items |-> 0]
  /\ worker = [i \in Items |-> "none"]
  /\ outcome = [i \in Items |-> "none"]
  /\ text = [i \in Items |-> 0]
  /\ commands = [i \in Items |-> <<>>]
  /\ open = [i \in Items |-> FALSE]
  /\ updates = [i \in Items |-> <<>>]
  /\ slot = None

Goto(c, place) == pc' = [pc EXCEPT ![c] = place]

(* send().await?: a failed send ends the connection's loop.                *)
Sent(c, place) == Goto(c, place) \/ (gone[c] /\ Goto(c, "broken"))

---------------------------------------------------------------------------
(* The loop, and what arrives.  Malformed events and session updates only  *)
(* get a reply, which only matters to a client that has left.              *)
Reply(c) ==
  /\ pc[c] = "serve" /\ gone[c] /\ events < MaxEvents
  /\ events' = events + 1
  /\ Sent(c, "serve")
  /\ UNCHANGED <<why, cur, started, gone, item, engine, slot>>

Handled == {"append", "commit", "clear"}

Receive(c) ==
  /\ pc[c] = "serve" /\ events < MaxEvents
  /\ events' = events + 1
  /\ \E e \in Handled : Goto(c, e)
  /\ UNCHANGED <<why, cur, started, gone, item, engine, slot>>

(* A worker's update reaches the item that is held, or being given up.     *)
Heard(i) == i = It(i[1]) \/ (pc[i[1]] = "discard" /\ i = Latest(i[1]))
Tell(i, us) == updates' = IF Heard(i) THEN [updates EXCEPT ![i] = @ \o us] ELSE updates

(* Mutant of Settled: a handler does not wait for a committed item.        *)
SettledAtOnce(c, e) == pc[c] = e

(* Every handler first waits until a committed item has ended.             *)
Settling(c) == pc[c] \in Handled /\ HasItem(c) /\ committed[It(c)]
Settled(c, e) == pc[c] = e /\ ~Settling(c)

(* A worker that is gone takes no more commands.                           *)
Command(i, k) ==
  commands' = IF worker[i] = "none" THEN commands ELSE [commands EXCEPT ![i] = Append(@, k)]

Feed(i) ==
  IF kind[i] = "stream"
  THEN Command(i, "feed") /\ UNCHANGED held
  ELSE held' = [held EXCEPT ![i] = TRUE] /\ UNCHANGED commands

AppendMore(c) ==
  /\ Settled(c, "append") /\ HasItem(c)
  /\ \/ Feed(It(c)) /\ Goto(c, "serve")
     \/ UNCHANGED <<held, commands>> /\ Sent(c, "serve")
  /\ UNCHANGED <<why, cur, started, events, gone, kind, committed, finalized, shown, finals,
                 worker, outcome, text, open, updates, slot>>

(* start_item: the slot is tried once, the permit is waited for.           *)
StartItem(c) ==
  /\ Settled(c, "append") /\ ~HasItem(c)
  /\ \/ /\ slot # None   \* stream_busy
        /\ Sent(c, "serve") /\ UNCHANGED <<started, slot>>
     \/ /\ slot = None
        /\ started' = [started EXCEPT ![c] = Other(@)]
        /\ slot' = <<c, started'[c]>>
        /\ Goto(c, "start")
  /\ UNCHANGED <<why, cur, events, gone, item, engine>>

(* Unknown model, full queue, timeout; or, with the permit, a model that   *)
(* does not load, cannot stream (which closes the connection) or cannot    *)
(* do what was asked.                                                      *)
StartFails(c) ==
  /\ pc[c] \in {"start", "bind"}
  /\ slot' = None
  /\ Sent(c, "serve") \/ (pc[c] = "bind" /\ Sent(c, "closed"))
  /\ UNCHANGED <<why, cur, started, events, gone, item, engine>>

StartGranted(c) ==
  /\ pc[c] = "start"
  /\ Goto(c, "bind")
  /\ UNCHANGED <<why, cur, started, events, gone, item, engine, slot>>

(* The worker takes slot and permit along; a buffered turn keeps the slot. *)
(* The audio of this event is then the item's first, unless it does not    *)
(* decode, which is replied.                                               *)
StartStream(c) ==
  LET i == Latest(c)
  IN /\ pc[c] = "bind"
     /\ cur' = [cur EXCEPT ![c] = started[c]]
     /\ kind' = [kind EXCEPT ![i] = "stream"]
     /\ worker' = [worker EXCEPT ![i] = "begin"]
     /\ \E first \in {<<>>, <<"feed">>} :
          /\ commands' = [commands EXCEPT ![i] = first]
          /\ Goto(c, "serve") \/ (first = <<>> /\ Sent(c, "serve"))
     /\ open' = [open EXCEPT ![i] = TRUE]
     /\ UNCHANGED <<why, started, events, gone, committed, finalized, held, shown, finals,
                    outcome, text, updates, slot>>

StartBuffered(c) ==
  LET i == Latest(c)
  IN /\ pc[c] = "bind"
     /\ cur' = [cur EXCEPT ![c] = started[c]]
     /\ kind' = [kind EXCEPT ![i] = "buffered"]
     /\ \E first \in BOOLEAN :
          /\ held' = [held EXCEPT ![i] = first]
          /\ Goto(c, "serve") \/ (~first /\ Sent(c, "serve"))
     /\ UNCHANGED <<why, started, events, gone, committed, finalized, shown, finals,
                    engine, slot>>

(* on_commit; the reply follows the command.  When the resampler cannot be *)
(* flushed the item counts as committed and nothing ends it.               *)
Finalize(i) ==
  /\ finalized' = [finalized EXCEPT ![i] = TRUE]
  /\ IF kind[i] = "stream"
     THEN Command(i, "finalize") /\ UNCHANGED <<held, worker>>
     ELSE /\ \E tail \in BOOLEAN : held' = [held EXCEPT ![i] = @ \/ tail]
          /\ worker' = [worker EXCEPT ![i] = "queue"]
          /\ UNCHANGED commands

FlushFails == UNCHANGED <<finalized, held, commands, worker>>

Commit(c) ==
  /\ Settled(c, "commit")
  /\ \/ ~HasItem(c) /\ UNCHANGED <<committed, finalized, held, commands, worker>>
     \/ /\ HasItem(c)
        /\ Finalize(It(c)) \/ FlushFails
        /\ committed' = [committed EXCEPT ![It(c)] = TRUE]
  /\ Sent(c, "serve")
  /\ UNCHANGED <<why, cur, started, events, gone, kind, shown, finals,
                 outcome, text, open, updates, slot>>

---------------------------------------------------------------------------
(* What ends an item without its worker: clear, the idle timeout, the      *)
(* client's leaving.  discard_item gives up the item; a buffered turn that *)
(* was not handed over goes with it, anything else is waited for.          *)
Waiting(i) == kind[i] = "buffered" /\ ~finalized[i]

(* Mutant of DropItem: the command channel stays open.                     *)
DropItemKeepsSender(c) ==
  LET i == It(c)
  IN /\ cur' = [cur EXCEPT ![c] = 0]
     /\ kind' = [kind EXCEPT ![i] = "none"]
     /\ committed' = [committed EXCEPT ![i] = FALSE]
     /\ finalized' = [finalized EXCEPT ![i] = FALSE]
     /\ shown' = [shown EXCEPT ![i] = 0]
     /\ finals' = [finals EXCEPT ![i] = 0]
     /\ UNCHANGED open

DropItem(c) ==
  LET i == It(c)
  IN /\ cur' = [cur EXCEPT ![c] = 0]
     /\ kind' = [kind EXCEPT ![i] = "none"]
     /\ committed' = [committed EXCEPT ![i] = FALSE]
     /\ finalized' = [finalized EXCEPT ![i] = FALSE]
     /\ shown' = [shown EXCEPT ![i] = 0]
     /\ finals' = [finals EXCEPT ![i] = 0]
     /\ open' = [open EXCEPT ![i] = FALSE]

DropTurn(i) ==
  /\ held' = [held EXCEPT ![i] = IF Waiting(i) THEN FALSE ELSE @]
  /\ slot' = IF Waiting(i) THEN None ELSE slot

Discard(c, reason) ==
  /\ DropItem(c) /\ DropTurn(It(c))
  /\ why' = [why EXCEPT ![c] = reason]
  /\ IF Waiting(It(c)) THEN Goto(c, "discarded") ELSE Goto(c, "discard")
  /\ UNCHANGED <<started, events, gone, worker, outcome, text, commands, updates>>

Clear(c) ==
  /\ Settled(c, "clear")
  /\ \/ HasItem(c) /\ Discard(c, "clear")
     \/ ~HasItem(c) /\ Sent(c, "serve")
        /\ UNCHANGED <<why, cur, started, events, gone, item, engine, slot>>

(* Nothing heard for IDLE_TIMEOUT, of the client or of the worker; what    *)
(* the worker is busy with does not matter, but its last steps take no     *)
(* such time.                                                              *)
Idle(c) ==
  /\ pc[c] = "serve" /\ HasItem(c)
  /\ updates[It(c)] = <<>> /\ worker[It(c)] \notin {"release", "announce", "end"}
  /\ Discard(c, "idle")

Close(c) ==
  /\ pc[c] = "serve" /\ gone[c]
  /\ \/ HasItem(c) /\ Discard(c, "close")
     \/ ~HasItem(c) /\ Goto(c, "closed")
        /\ UNCHANGED <<why, cur, started, events, gone, item, engine, slot>>

(* The abandoned item's updates are read up to Ended; the item is the one  *)
(* started last.                                                           *)
Drain(c) ==
  LET i == Latest(c)
  IN /\ pc[c] = "discard" /\ updates[i] # <<>>
     /\ updates' = [updates EXCEPT ![i] = Tail(@)]
     /\ IF Head(updates[i])[1] = "ended" THEN Goto(c, "discarded") ELSE UNCHANGED pc
     /\ UNCHANGED <<why, cur, started, events, gone, item, worker, outcome, text,
                    commands, open, slot>>

Discarded(c) ==
  /\ pc[c] = "discarded"
  /\ IF why[c] = "close" THEN Goto(c, "closed") ELSE Sent(c, "serve")
  /\ why' = [why EXCEPT ![c] = "none"]
  /\ UNCHANGED <<cur, started, events, gone, item, engine, slot>>

(* A send failed: the loop returns, and the item is dropped unwaited.      *)
Broken(c) ==
  LET i == It(c)
  IN /\ pc[c] = "broken"
     /\ Goto(c, "closed")
     /\ IF HasItem(c)
        THEN DropItem(c) /\ DropTurn(i) /\ updates' = [updates EXCEPT ![i] = <<>>]
        ELSE UNCHANGED <<cur, item, open, updates, slot>>
     /\ UNCHANGED <<why, started, events, gone, worker, outcome, text, commands>>

(* on_update: in the loop, or while a handler settles.                     *)
Listens(c) == HasItem(c) /\ (pc[c] = "serve" \/ Settling(c))

Deliver(c) ==
  LET i == It(c)
      u == Head(updates[i])
  IN /\ Listens(c) /\ updates[i] # <<>>
     /\ updates' = [updates EXCEPT ![i] = Tail(@)]
     /\ \/ /\ u[1] = "partial"
           /\ shown' = [shown EXCEPT ![i] = IF u[2] > @ THEN u[2] ELSE @]
           /\ Sent(c, pc[c])
           /\ UNCHANGED <<cur, kind, committed, finalized, finals, open>>
        \/ /\ u[1] \in {"completed", "failed"}
           /\ finals' = [finals EXCEPT ![i] = @ + 1]
           /\ Sent(c, pc[c])
           /\ UNCHANGED <<cur, kind, committed, finalized, shown, open>>
        \/ u[1] = "ended" /\ DropItem(c) /\ UNCHANGED pc
     /\ UNCHANGED <<why, started, events, gone, held, worker, outcome, text,
                    commands, slot>>

Leave(c) ==
  /\ ~gone[c]
  /\ gone' = [gone EXCEPT ![c] = TRUE]
  /\ UNCHANGED <<pc, why, cur, started, events, item, engine, slot>>

---------------------------------------------------------------------------
(* stream_worker and run_buffered_turn.                                    *)
At(i, place) == worker[i] = place
Work(i, place) == worker' = [worker EXCEPT ![i] = place]

(* The end of a run: what will be announced, once the slot is free.        *)
Over(i, how) == Work(i, "release") /\ outcome' = [outcome EXCEPT ![i] = how]

Begin(i) ==
  /\ At(i, "begin")
  /\ \/ Work(i, "recv") /\ UNCHANGED outcome
     \/ Over(i, "failed")
  /\ UNCHANGED <<connection, item, text, commands, open, updates, slot>>

(* A chunk: some of the text that has been heard is committed.             *)
Hear(i) ==
  /\ At(i, "recv") /\ commands[i] # <<>> /\ Head(commands[i]) = "feed"
  /\ commands' = [commands EXCEPT ![i] = Tail(@)]
  /\ \/ /\ \/ /\ \E n \in {0, 1} : text' = [text EXCEPT ![i] = @ + n]
              /\ Tell(i, << <<"partial", text'[i]>> >>)
           \/ UNCHANGED <<text, updates>>
        /\ UNCHANGED <<worker, outcome>>
     \/ Over(i, "failed") /\ UNCHANGED <<text, updates>>
  /\ UNCHANGED <<connection, item, open, slot>>

FinalizeStream(i) ==
  /\ At(i, "recv") /\ commands[i] # <<>> /\ Head(commands[i]) = "finalize"
  /\ commands' = [commands EXCEPT ![i] = Tail(@)]
  /\ \/ /\ \E n \in {0, 1} : text' = [text EXCEPT ![i] = @ + n]
        /\ Tell(i, << <<"partial", text'[i]>> >>)
        /\ Over(i, "completed")
     \/ Over(i, "failed") /\ UNCHANGED <<text, updates>>
  /\ UNCHANGED <<connection, item, open, slot>>

(* The client cleared or left, and what it had sent is worked off.         *)
Abandoned(i) ==
  /\ At(i, "recv") /\ commands[i] = <<>> /\ ~open[i]
  /\ Over(i, "none")
  /\ UNCHANGED <<connection, item, text, commands, open, updates, slot>>

(* translate_pcm: no audio, no run; the permit may not come in time.       *)
TurnWaits(i) ==
  /\ At(i, "queue")
  /\ \/ ~held[i] /\ Over(i, "translated")
     \/ held[i] /\ Over(i, "failed")
     \/ held[i] /\ Work(i, "run") /\ UNCHANGED outcome
  /\ UNCHANGED <<connection, item, text, commands, open, updates, slot>>

TurnRuns(i) ==
  /\ At(i, "run")
  /\ \/ Over(i, "translated") /\ \E n \in {0, 1} : text' = [text EXCEPT ![i] = n]
     \/ Over(i, "failed") /\ UNCHANGED text
  /\ UNCHANGED <<connection, item, commands, open, updates, slot>>

(* Mutant of Announcement: a buffered turn sends no delta.                 *)
AnnouncementNoDelta(i) ==
  CASE outcome[i] = "none" -> << >>
    [] outcome[i] = "failed" -> << <<"failed", 0>> >>
    [] outcome[i] \in {"completed", "translated"} -> << <<"completed", text[i]>> >>

Announcement(i) ==
  CASE outcome[i] = "none" -> << >>
    [] outcome[i] = "failed" -> << <<"failed", 0>> >>
    [] outcome[i] = "completed" -> << <<"completed", text[i]>> >>
    [] outcome[i] = "translated" ->
         (IF text[i] > 0 THEN << <<"partial", text[i]>> >> ELSE << >>)
           \o << <<"completed", text[i]>> >>

(* Mutant of ReleaseSlot: announced first.                                 *)
ReleaseSlotLast(i) ==
  /\ At(i, "release")
  /\ \/ /\ outcome[i] # "told"
        /\ Tell(i, Announcement(i)) /\ outcome' = [outcome EXCEPT ![i] = "told"]
        /\ UNCHANGED <<worker, slot>>
     \/ /\ outcome[i] = "told"
        /\ slot' = None /\ Work(i, "end") /\ UNCHANGED <<outcome, updates>>
  /\ UNCHANGED <<connection, item, text, commands, open>>

(* Free the slot before announcing the end.                                *)
ReleaseSlot(i) ==
  /\ At(i, "release")
  /\ slot' = None
  /\ Work(i, "announce")
  /\ UNCHANGED <<connection, item, outcome, text, commands, open, updates>>

Announce(i) ==
  /\ At(i, "announce")
  /\ Tell(i, Announcement(i))
  /\ Work(i, "end")
  /\ UNCHANGED <<connection, item, outcome, text, commands, open, slot>>

End(i) ==
  /\ At(i, "end")
  /\ Tell(i, << <<"ended", 0>> >>)
  /\ Work(i, "none")
  /\ outcome' = [outcome EXCEPT ![i] = "none"]
  /\ text' = [text EXCEPT ![i] = 0]
  /\ held' = [held EXCEPT ![i] = FALSE]
  /\ commands' = [commands EXCEPT ![i] = <<>>]
  /\ UNCHANGED <<connection, kind, committed, finalized, shown, finals, open, slot>>

---------------------------------------------------------------------------
Task(c) ==
  \/ AppendMore(c) \/ StartItem(c) \/ StartFails(c) \/ StartGranted(c)
  \/ StartStream(c) \/ StartBuffered(c) \/ Commit(c) \/ Clear(c)
  \/ Close(c) \/ Drain(c) \/ Discarded(c) \/ Broken(c) \/ Deliver(c)

Worker(i) ==
  \/ Begin(i) \/ Hear(i) \/ FinalizeStream(i) \/ Abandoned(i) \/ TurnWaits(i)
  \/ TurnRuns(i) \/ ReleaseSlot(i) \/ Announce(i) \/ End(i)

Next ==
  \/ \E c \in Conns : Reply(c) \/ Receive(c) \/ Idle(c) \/ Leave(c) \/ Task(c)
  \/ \E i \in Items : Worker(i)

Spec == Init /\ [][Next]_vars

(* Tasks are polled, threads run, and waits for the permit end: the server *)
(* does not stand still while it has something to do.  What clients send   *)
(* and timers do is not assumed.                                           *)
Serving == (\E c \in Conns : Task(c)) \/ (\E i \in Items : Worker(i))

FairSpec == Spec /\ WF_vars(Serving)

---------------------------------------------------------------------------
Streaming == {"begin", "recv", "queue", "run", "release"}

(* The slot belongs to whoever has a use for it, and to nobody otherwise:  *)
(* no item runs without it, none keeps it from the next client, and one    *)
(* who answers the end of an item with the next does not find it taken by  *)
(* the item that has ended.                                                *)
Holds(i) ==
  \/ worker[i] \in Streaming
  \/ pc[i[1]] \in {"start", "bind"} /\ i = Latest(i[1])
  \/ cur[i[1]] = i[2] /\ Waiting(i)

SlotFollowsItem ==
  \A i \in Items :
    /\ slot = i <=> Holds(i)
    /\ \A k \in 1 .. Len(updates[i]) :
         updates[i][k][1] \in {"completed", "failed", "ended"} => slot # i

(* A commit is answered by exactly one final event, `completed` or the     *)
(* error, before the item goes, and no item has more than one, unless the  *)
(* client is gone or IDLE_TIMEOUT has passed.                              *)
OneFinalEvent ==
  [][/\ \A i \in Items : finals'[i] <= 1
     /\ \A c \in Conns : HasItem(c) /\ committed[It(c)] /\ cur'[c] = 0
          => finals[It(c)] = 1 \/ why'[c] \in {"idle", "close"} \/ pc[c] = "broken"]_vars

(* The deltas of an item, put together, are its transcript.                *)
DeltasMakeTranscript ==
  \A c \in Conns : Listens(c) /\ updates[It(c)] # <<>> =>
    LET u == Head(updates[It(c)]) IN u[1] = "completed" => shown[It(c)] = u[2]

(* No event hangs on the item before it, and a client that leaves, at      *)
(* whatever moment, gives the stream slot back.  The one exception is an   *)
(* event that meets an item whose commit could not flush the resampler:    *)
(* nobody ends that item, the handler waits for it, and the slot is lost   *)
(* (on_commit and settle in realtime.rs, PcmStream::finish in audio.rs).   *)
Hangs(c) == Settling(c) /\ ~finalized[It(c)]

ClientIsServed ==
  \A c \in Conns :
    pc[c] \in Handled \/ gone[c] ~>
      \/ /\ pc[c] \in {"serve", "closed"}
         /\ gone[c] => slot = None \/ slot[1] # c
      \/ Hangs(c)
===============================================================================
