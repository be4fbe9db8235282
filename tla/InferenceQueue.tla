--------------------------- MODULE InferenceQueue ---------------------------
(***************************************************************************)
(* The inference queue of stt-server: the single batch slot with its two   *)
(* waiting lists, and the live-stream slot with its model lease.           *)
(*                                                                         *)
(* Callers are the futures that ask for the slot.  A request is a batch    *)
(* transcription (acquire_for_model) or an administrative wait (unload,    *)
(* verification: acquire_unbounded); a stream is a realtime connection     *)
(* that starts one item after the other.  Everything the code does under   *)
(* the mutex of `State' is one step; everything else interleaves.          *)
(***************************************************************************)
EXTENDS Integers, Sequences

CONSTANTS Requests,   \* batch and administrative callers
          Streams,    \* realtime connections
          Models,     \* model ids
          Limits,     \* values of queue_max_waiting a caller may read
          NoLimit,    \* queue_max_waiting: None
          NoModel,    \* no lease; also the model of an administrative wait
          NoStream    \* nobody holds the live-stream slot

ASSUME CallersAssumption == Requests \cap Streams = {}
ASSUME LimitsAssumption  == Limits \subseteq Nat /\ NoLimit \notin Nat
ASSUME NullsAssumption   == NoModel \notin Models /\ NoStream \notin Streams

VARIABLES busy,         \* State.busy
          interactive,  \* State.interactive: the callers whose entries wait
          normal,       \* State.normal
          pc,           \* where each caller's future stands
          ask,          \* what each caller asked for
          streamSlot,   \* who holds the semaphore permit of the stream slot
          lease         \* the watch channel stream_lease

lists == <<interactive, normal>>
vars  == <<busy, interactive, normal, pc, ask, streamSlot, lease>>

Callers == Requests \cup Streams

Priority == {"interactive", "normal"}

(* `leases' tells a stream's first acquire, which goes on to lease the     *)
(* model, from an acquire that runs a batch job on it.                     *)
Asks == [prio   : Priority,
         model  : Models \cup {NoModel},
         limit  : Limits \cup {NoLimit},
         leases : BOOLEAN]

NoAsk == [prio |-> "normal", model |-> NoModel, limit |-> NoLimit, leases |-> FALSE]

(* "queued"   entry in a list, receiver alive                              *)
(* "leaving"  receiver dropped (timeout, client gone), entry not yet       *)
(* "granted"  the permit is in the oneshot channel, not yet received       *)
(* "holding"  permit received                                              *)
(* "running"  batch job under the permit                                   *)
(* "begin"    stream has leased the model and still holds the permit       *)
(* "stream"   stream runs on the lease alone                               *)
(* "buffered" turn collects audio, holds the stream slot without a lease   *)
(* "closing"  stream slot about to be dropped; "closed" lease cleared      *)
PCs == {"idle", "lease", "acquire", "queued", "granted", "leaving", "holding",
        "running", "begin", "stream", "buffered", "closing", "closed"}

Init ==
  /\ busy = FALSE
  /\ interactive = <<>>
  /\ normal = <<>>
  /\ pc = [c \in Callers |-> "idle"]
  /\ ask = [c \in Callers |-> NoAsk]
  /\ streamSlot = NoStream
  /\ lease = NoModel

-----------------------------------------------------------------------------
(* Helpers of State and InferencePermit.                                   *)

Waiting == Len(interactive) + Len(normal)

(* The order in which State::next_waiter pops.                             *)
Line == interactive \o normal

(* `grant.send' succeeds: the receiving future still exists.               *)
Live(c) == pc[c] = "queued"

(* Mutant of Without: a removed entry leaves a hole behind.                *)
WithoutTombstone(q, c) == [i \in 1..Len(q) |-> IF q[i] = c THEN NoStream ELSE q[i]]

(* retain(|waiter| waiter.id != id): an id occurs at most once.            *)
Without(q, c) ==
  LET i == CHOOSE i \in 1..Len(q) : q[i] = c
  IN  IF \E j \in 1..Len(q) : q[j] = c
      THEN SubSeq(q, 1, i - 1) \o SubSeq(q, i + 1, Len(q))
      ELSE q

(* The list after its first k entries were popped.                         *)
Popped(q, k) == IF k <= 0 THEN q ELSE SubSeq(q, k + 1, Len(q))

(* Mutant of FirstLive: the last live waiter is served, the others are     *)
(* popped with it.                                                         *)
NewestLive(k) == /\ k \in 1..Len(Line)
                 /\ Live(Line[k])
                 /\ \A j \in (k + 1)..Len(Line) : ~Live(Line[j])

FirstLive(k) == /\ k \in 1..Len(Line)
                /\ Live(Line[k])
                /\ \A j \in 1..(k - 1) : ~Live(Line[j])

(* Drop of a permit that owns the slot: pop until a send succeeds, or free *)
(* the slot when the lists are exhausted.                                  *)
HandOver(c, after) ==
  \E k \in 1..Len(Line) :
    /\ FirstLive(k)
    /\ pc' = [pc EXCEPT ![c] = after, ![Line[k]] = "granted"]
    /\ interactive' = Popped(interactive, k)
    /\ normal' = Popped(normal, k - Len(interactive))
    /\ UNCHANGED busy

Free(c, after) ==
  /\ \A k \in 1..Len(Line) : ~Live(Line[k])
  /\ pc' = [pc EXCEPT ![c] = after]
  /\ interactive' = <<>>
  /\ normal' = <<>>
  /\ busy' = FALSE

(* Mutant of DropPermit: the slot is freed and the waiters are left to     *)
(* compete for it.                                                         *)
DropPermitWakes(c, after) ==
  /\ pc' = [pc EXCEPT ![c] = after]
  /\ busy' = FALSE
  /\ UNCHANGED lists

DropPermit(c, after) == HandOver(c, after) \/ Free(c, after)

StreamsOn(m) == m \in Models /\ lease = m

(* Where a caller goes when its wait or its work ends without a lease.     *)
Home(c) == IF c \in Streams THEN "closing" ELSE "idle"

(* The future of a request is gone; a stream keeps its ask until its slot  *)
(* drops.                                                                  *)
Forget(c) == ask' = IF c \in Requests THEN [ask EXCEPT ![c] = NoAsk] ELSE ask

Goto(c, place) == pc' = [pc EXCEPT ![c] = place]
-----------------------------------------------------------------------------
(* Joining the queue.                                                      *)

(* A batch request enters acquire_for_model.                               *)
Arrive(c) ==
  /\ c \in Requests /\ pc[c] = "idle"
  /\ \E p \in Priority, m \in Models, l \in Limits \cup {NoLimit} :
       ask' = [ask EXCEPT ![c] =
                 [prio |-> p, model |-> m, limit |-> l, leases |-> FALSE]]
  /\ Goto(c, "lease")
  /\ UNCHANGED <<busy, lists, streamSlot, lease>>

(* acquire_unbounded: normal class, no bound, no model to wait for.        *)
ArriveUnbounded(c) ==
  /\ c \in Requests /\ pc[c] = "idle"
  /\ ask' = [ask EXCEPT ![c] = NoAsk]
  /\ Goto(c, "acquire")
  /\ UNCHANGED <<busy, lists, streamSlot, lease>>

(* wait_for_stream_to_release returns.                                     *)
LeaseReleased(c) ==
  /\ pc[c] = "lease" /\ ~StreamsOn(ask[c].model)
  /\ Goto(c, "acquire")
  /\ UNCHANGED <<busy, lists, ask, streamSlot, lease>>

(* ... or ends with StreamActive, or its future is dropped.                *)
GiveUpOnStream(c) ==
  /\ pc[c] = "lease"
  /\ Goto(c, Home(c))
  /\ Forget(c)
  /\ UNCHANGED <<busy, lists, streamSlot, lease>>

(* acquire, under the mutex: fast path, Full, or a new entry.              *)
TakeFree(c) ==
  /\ pc[c] = "acquire" /\ ~busy
  /\ busy' = TRUE
  /\ Goto(c, "holding")
  /\ UNCHANGED <<lists, ask, streamSlot, lease>>

(* Mutant of IsFull: off by one.                                           *)
IsOverfull(c) == ask[c].limit # NoLimit /\ Waiting > ask[c].limit

IsFull(c) == ask[c].limit # NoLimit /\ Waiting >= ask[c].limit

RefuseFull(c) ==
  /\ pc[c] = "acquire" /\ busy /\ IsFull(c)
  /\ Goto(c, Home(c))
  /\ Forget(c)
  /\ UNCHANGED <<busy, lists, streamSlot, lease>>

(* Mutant of Join: the busy flag is read before the lists are locked.      *)
JoinUnlocked(c) ==
  /\ pc[c] = "acquire" /\ ~IsFull(c)
  /\ IF ask[c].prio = "interactive"
     THEN interactive' = Append(interactive, c) /\ UNCHANGED normal
     ELSE normal' = Append(normal, c) /\ UNCHANGED interactive
  /\ Goto(c, "queued")
  /\ UNCHANGED <<busy, ask, streamSlot, lease>>

Join(c) ==
  /\ pc[c] = "acquire" /\ busy /\ ~IsFull(c)
  /\ IF ask[c].prio = "interactive"
     THEN interactive' = Append(interactive, c) /\ UNCHANGED normal
     ELSE normal' = Append(normal, c) /\ UNCHANGED interactive
  /\ Goto(c, "queued")
  /\ UNCHANGED <<busy, ask, streamSlot, lease>>

(* The awaited oneshot yields the permit.                                  *)
Receive(c) ==
  /\ pc[c] = "granted"
  /\ Goto(c, "holding")
  /\ UNCHANGED <<busy, lists, ask, streamSlot, lease>>

(* Timeout or disconnect while queued: the receiver drops first ...        *)
GiveUp(c) ==
  /\ pc[c] = "queued"
  /\ Goto(c, "leaving")
  /\ UNCHANGED <<busy, lists, ask, streamSlot, lease>>

(* ... and then WaiterEntry removes the entry.                             *)
RemoveEntry(c) ==
  /\ pc[c] = "leaving"
  /\ interactive' = Without(interactive, c)
  /\ normal' = Without(normal, c)
  /\ Goto(c, Home(c))
  /\ Forget(c)
  /\ UNCHANGED <<busy, streamSlot, lease>>

(* Mutant of GiveUpGranted: the grant that raced with the end of the wait  *)
(* is lost.                                                                *)
GiveUpGrantedLost(c) ==
  /\ pc[c] = "granted"
  /\ Goto(c, Home(c))
  /\ Forget(c)
  /\ UNCHANGED <<busy, lists, streamSlot, lease>>

(* The wait ends with the grant already in the channel: dropping the       *)
(* receiver drops the permit.                                              *)
GiveUpGranted(c) ==
  /\ pc[c] = "granted"
  /\ DropPermit(c, Home(c))
  /\ Forget(c)
  /\ UNCHANGED <<streamSlot, lease>>
-----------------------------------------------------------------------------
(* Work under the permit.                                                  *)

(* Mutant of StartRun: the lease was only checked before queueing.         *)
StartRunUnchecked(c) ==
  /\ pc[c] = "holding" /\ ~ask[c].leases
  /\ Goto(c, "running")
  /\ UNCHANGED <<busy, lists, ask, streamSlot, lease>>

(* acquire_for_model checks the lease again with the permit in hand.       *)
StartRun(c) ==
  /\ pc[c] = "holding" /\ ~ask[c].leases
  /\ ~StreamsOn(ask[c].model)
  /\ Goto(c, "running")
  /\ UNCHANGED <<busy, lists, ask, streamSlot, lease>>

Requeue(c) ==
  /\ pc[c] = "holding" /\ ~ask[c].leases
  /\ StreamsOn(ask[c].model)
  /\ DropPermit(c, "lease")
  /\ UNCHANGED <<ask, streamSlot, lease>>

(* The worker returns, or the request fails before it reaches the worker.  *)
FinishRun(c) ==
  /\ pc[c] = "running"
  /\ DropPermit(c, Home(c))
  /\ Forget(c)
  /\ UNCHANGED <<streamSlot, lease>>
-----------------------------------------------------------------------------
(* Realtime items: start_item, stream_worker, run_buffered_turn.           *)

ClaimStream(s) ==
  /\ s \in Streams /\ pc[s] = "idle" /\ streamSlot = NoStream
  /\ streamSlot' = s
  /\ \E m \in Models, l \in Limits \cup {NoLimit} :
       ask' = [ask EXCEPT ![s] =
                 [prio |-> "interactive", model |-> m, limit |-> l, leases |-> TRUE]]
  /\ Goto(s, "acquire")
  /\ UNCHANGED <<busy, lists, lease>>

LeaseModel(s) ==
  /\ pc[s] = "holding" /\ ask[s].leases
  /\ lease' = ask[s].model
  /\ Goto(s, "begin")
  /\ UNCHANGED <<busy, lists, ask, streamSlot>>

(* Bind, capability or decoder error: the permit drops before the slot.    *)
StartFails(s) ==
  /\ pc[s] = "holding" /\ ask[s].leases
  /\ DropPermit(s, "closing")
  /\ UNCHANGED <<ask, streamSlot, lease>>

(* The model cannot stream: the turn is buffered, the batch queue moves on.*)
StartBuffered(s) ==
  /\ pc[s] = "holding" /\ ask[s].leases
  /\ DropPermit(s, "buffered")
  /\ UNCHANGED <<ask, streamSlot, lease>>

(* The stream has begun (or failed to): the permit drops, the lease stays. *)
StreamBegun(s) ==
  /\ pc[s] = "begin"
  /\ DropPermit(s, "stream")
  /\ UNCHANGED <<ask, streamSlot, lease>>

(* The client commits the buffered turn: one normal batch run.             *)
CommitBuffered(s) ==
  /\ pc[s] = "buffered"
  /\ \E l \in Limits \cup {NoLimit} :
       ask' = [ask EXCEPT ![s].prio = "normal", ![s].limit = l, ![s].leases = FALSE]
  /\ Goto(s, "lease")
  /\ UNCHANGED <<busy, lists, streamSlot, lease>>

DiscardBuffered(s) ==
  /\ pc[s] = "buffered"
  /\ Goto(s, "closing")
  /\ UNCHANGED <<busy, lists, ask, streamSlot, lease>>

(* Mutant of ClearLease: the semaphore permit drops first.                 *)
FreeSlotBeforeLease(s) ==
  /\ pc[s] \in {"stream", "closing"}
  /\ streamSlot' = NoStream
  /\ Goto(s, "closed")
  /\ UNCHANGED <<busy, lists, ask, lease>>

(* StreamSlot::drop: the lease first, the semaphore permit after it.       *)
ClearLease(s) ==
  /\ pc[s] \in {"stream", "closing"}
  /\ lease' = NoModel
  /\ Goto(s, "closed")
  /\ UNCHANGED <<busy, lists, ask, streamSlot>>

FreeStreamSlot(s) ==
  /\ pc[s] = "closed"
  /\ streamSlot' = NoStream
  /\ ask' = [ask EXCEPT ![s] = NoAsk]
  /\ Goto(s, "idle")
  /\ UNCHANGED <<busy, lists, lease>>
-----------------------------------------------------------------------------
Waits(c) == \/ LeaseReleased(c) \/ GiveUpOnStream(c)
            \/ TakeFree(c) \/ RefuseFull(c) \/ Join(c)
            \/ Receive(c) \/ GiveUp(c) \/ RemoveEntry(c) \/ GiveUpGranted(c)

Runs(c) == StartRun(c) \/ Requeue(c) \/ FinishRun(c)

Request(c) == Arrive(c) \/ ArriveUnbounded(c)

Stream(s) == \/ ClaimStream(s) \/ LeaseModel(s) \/ StartFails(s) \/ StartBuffered(s)
             \/ StreamBegun(s) \/ CommitBuffered(s) \/ DiscardBuffered(s)
             \/ ClearLease(s) \/ FreeStreamSlot(s)

Next == \/ \E c \in Callers : Waits(c) \/ Runs(c)
        \/ \E c \in Requests : Request(c)
        \/ \E s \in Streams : Stream(s)

Spec == Init /\ [][Next]_vars

(* A future that can proceed is polled, a worker under the permit returns, *)
(* a dropped slot is dropped to the end.  Nothing makes a client call,     *)
(* give up, commit a turn or end its stream.                               *)
OwnerProceeds(c) == \/ Receive(c) \/ StartRun(c) \/ Requeue(c) \/ FinishRun(c)
                    \/ LeaseModel(c) \/ StartFails(c) \/ StartBuffered(c)
                    \/ StreamBegun(c)

Fairness == \A c \in Callers : WF_vars(OwnerProceeds(c)) /\ WF_vars(RemoveEntry(c))

FairSpec == Spec /\ Fairness
-----------------------------------------------------------------------------
(* Properties.                                                             *)

(* Every variable keeps the shape the code gives it.                       *)
TypeOK ==
  /\ busy \in BOOLEAN
  /\ interactive \in Seq(Callers)
  /\ normal \in Seq(Callers)
  /\ pc \in [Callers -> PCs]
  /\ ask \in [Callers -> Asks]
  /\ streamSlot \in Streams \cup {NoStream}
  /\ lease \in Models \cup {NoModel}

(* The permit lives in this caller's future, worker, or grant channel.     *)
Owns(c) == pc[c] \in {"granted", "holding", "running", "begin"}

(* "Exactly one transcription runs at a time", and the flag neither leaks  *)
(* the slot (busy with nobody to release it: every later request would     *)
(* wait forever) nor frees it under an owner, whichever way grants race    *)
(* with timeouts and disconnects.                                          *)
SlotAccounting ==
  /\ \A c, d \in Callers : Owns(c) /\ Owns(d) => c = d
  /\ busy <=> \E c \in Callers : Owns(c)

Entries(q) == {q[i] : i \in 1..Len(q)}

(* A waiting future always has exactly one entry, in the list of its       *)
(* class, a free slot never leaves anybody waiting, and an entry whose     *)
(* future is gone is one its WaiterEntry is about to remove: a cancelled   *)
(* wait always frees its place.                                            *)
NoLostWaiter ==
  /\ ~busy => Line = <<>>
  /\ \A i, j \in 1..Len(Line) : Line[i] = Line[j] => i = j
  /\ \A c \in Callers : pc[c] = "queued" =>
        c \in Entries(IF ask[c].prio = "interactive" THEN interactive ELSE normal)
  /\ \A i \in 1..Len(Line) : pc[Line[i]] \in {"queued", "leaving"}

(* A bounded caller never waits behind more than its bound of its own      *)
(* class: Full is decided on the length the caller then queues behind.     *)
BoundRespected ==
  \A q \in {interactive, normal} : \A i \in 1..Len(q) :
    ask[q[i]].limit # NoLimit => i <= ask[q[i]].limit

(* A lease always names the model of the stream that holds the slot now:   *)
(* a finished stream neither leaves its lease behind nor clears the lease  *)
(* of the stream that claims the slot after it.                            *)
LeaseFollowsSlot ==
  /\ lease # NoModel => /\ streamSlot \in Streams
                        /\ lease = ask[streamSlot].model
                        /\ pc[streamSlot] \in {"begin", "stream"}
  /\ \A s \in Streams : pc[s] \in {"begin", "stream"} => lease = ask[s].model

(* The library refuses a run on a model a live stream holds: no batch run  *)
(* is under way on the leased model, although the lease is taken and       *)
(* checked in different steps of different callers.                        *)
NoRunOnLeasedModel ==
  \A c \in Callers : pc[c] = "running" => ~StreamsOn(ask[c].model)

(* At most one realtime item is between claiming and freeing the slot.     *)
OneStream ==
  \A s \in Streams : pc[s] # "idle" <=> streamSlot = s

(* c has to be served before d as long as both wait: c is queued and d is  *)
(* behind it in its class, in the lower class, or not queued at all.       *)
Before(c, d) ==
  /\ pc[c] = "queued"
  /\ \A i, j \in 1..Len(Line) : Line[i] = c /\ Line[j] = d => i < j

(* "A newcomer can never jump ahead of a queued request", and interactive  *)
(* waiters go first: nobody gets the slot while one that must be served    *)
(* before keeps waiting.                                                   *)
ServedInOrder ==
  [][\A c, d \in Callers :
       Before(c, d) /\ pc'[c] = "queued" /\ c # d => Owns(d) \/ ~Owns(d)']_vars

(* Live waiters of the higher class are never starved, and the normal      *)
(* class only while interactive turns keep coming.                         *)
WaitersServed ==
  \A c \in Callers :
    /\ pc[c] = "queued" /\ ask[c].prio = "interactive" ~> pc[c] # "queued"
    /\ (pc[c] = "queued" ~> pc[c] # "queued") \/ []<>(interactive # <<>>)
=============================================================================
