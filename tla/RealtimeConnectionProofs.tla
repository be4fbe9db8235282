----------------------- MODULE RealtimeConnectionProofs -----------------------
(***************************************************************************)
(* Proofs about RealtimeConnection: for any number of connections, the     *)
(* stream slot belongs to the item that has a use for it, no item gets two *)
(* final events and none that was committed goes without one, and the      *)
(* deltas of an item make up its transcript.                               *)
(*                                                                         *)
(* The three need one another.  What the client has been told lags behind  *)
(* the worker by what stands in the update channel, so the invariant says  *)
(* of every update there how it relates to the text, the final events and  *)
(* the slot: where the worker stands decides what it can still send, and   *)
(* what stands in the channel decides what the client can still hear.      *)
(***************************************************************************)
EXTENDS RealtimeConnection, TLAPS

Places == Handled \cup {"serve", "start", "bind", "discard", "discarded", "broken", "closed"}
Ending == {"completed", "failed"}
Texts  == {"partial", "completed", "failed", "ended"} \X Nat

ConnectionTypes ==
  /\ pc \in [Conns -> Places]
  /\ why \in [Conns -> {"none", "clear", "idle", "close"}]
  /\ cur \in [Conns -> {0, 1, 2}]
  /\ started \in [Conns -> {0, 1, 2}]

ItemTypes ==
  /\ kind \in [Items -> {"none", "stream", "buffered"}]
  /\ committed \in [Items -> BOOLEAN] /\ finalized \in [Items -> BOOLEAN]
  /\ shown \in [Items -> Nat]
  /\ finals \in [Items -> Nat]

EngineTypes ==
  /\ worker \in [Items -> {"none", "begin", "recv", "queue", "run", "release",
                           "announce", "end"}]
  /\ outcome \in [Items -> {"none", "failed", "completed", "translated"}]
  /\ text \in [Items -> Nat]
  /\ open \in [Items -> BOOLEAN]

UpdateTypes == updates \in [Items -> Seq(Texts)]

Types == ConnectionTypes /\ ItemTypes /\ EngineTypes /\ UpdateTypes

(* The item of its connection, and the last one it started.                *)
Current(i) == cur[i[1]] = i[2]
Last(i)    == started[i[1]] = i[2]

(* A connection has no item but the one it started last, and none while it *)
(* starts one or gives one up.                                             *)
Numbered(c) ==
  /\ cur[c] # 0 => /\ cur[c] = started[c]
                   /\ pc[c] \notin {"start", "bind", "discard", "discarded", "closed"}
  /\ pc[c] \in {"start", "bind", "discard"} => started[c] # 0

(* What an item keeps, it keeps for as long as it is its connection's.     *)
ItemKept(i) ==
  /\ Current(i) => kind[i] # "none" /\ (kind[i] = "stream" => open[i])
  /\ ~Current(i) => /\ kind[i] = "none" /\ ~finalized[i]
                    /\ shown[i] = 0 /\ finals[i] = 0 /\ ~open[i]
  /\ finalized[i] => committed[i]

(* A worker works for the item started last, and for one given up only     *)
(* until its connection has seen it end, or has ended itself.              *)
WorkerKept(i) ==
  /\ worker[i] # "none" => /\ Last(i)
                           /\ Current(i) \/ pc[i[1]] \in {"discard", "closed"}
  /\ Waiting(i) => worker[i] = "none" /\ updates[i] = <<>> /\ shown[i] = 0 /\ finals[i] = 0
  /\ Current(i) /\ worker[i] \in {"begin", "recv"} => kind[i] = "stream"
  /\ Current(i) /\ worker[i] \in {"release", "announce", "end"} => outcome[i] # "none"

(* Partial texts come first and grow, then a final event, then the end.    *)
Ordered(q) ==
  \A k, l \in 1 .. Len(q) : k < l =>
    /\ q[k][1] # "ended"
    /\ q[k][1] \in Ending => q[l][1] = "ended"
    /\ q[k][1] = "partial" /\ q[l][1] = "partial" => q[k][2] <= q[l][2]

(* Only what is listened for stands in the channel.                        *)
ChannelKept(i) ==
  /\ updates[i] # <<>> => Current(i) \/ (pc[i[1]] = "discard" /\ Last(i))
  /\ Ordered(updates[i])

(* Before the announcement nothing but partial texts has been sent; a      *)
(* buffered turn has sent nothing.  The worker ends after the announcement *)
(* and is gone once it said so.                                            *)
Unannounced(i) ==
  /\ finals[i] = 0 /\ shown[i] <= text[i]
  /\ \A k \in 1 .. Len(updates[i]) :
       updates[i][k][1] = "partial" /\ updates[i][k][2] <= text[i]

Silent(i) == updates[i] = <<>> /\ shown[i] = 0

Announced(i) ==
  /\ worker[i] \in Streaming \cup {"announce"} => Unannounced(i)
  /\ worker[i] \in {"queue", "run"} => Silent(i)
  /\ worker[i] \in {"release", "announce"} /\ outcome[i] = "translated" => Silent(i)
  /\ worker[i] = "end" => \A k \in 1 .. Len(updates[i]) : updates[i][k][1] # "ended"

(* One final event, sent or still to be sent, once the worker has told.    *)
Told(i, n) == finals[i] = 1 \/ \E k \in 1 .. n : updates[i][k][1] \in Ending

FinalKept(i) ==
  /\ finals[i] <= 1
  /\ \A k \in 1 .. Len(updates[i]) : updates[i][k][1] \in Ending => finals[i] = 0
  /\ Current(i) /\ worker[i] = "end" => Told(i, Len(updates[i]))
  /\ Current(i) => \A k \in 1 .. Len(updates[i]) :
                     updates[i][k][1] = "ended" => Told(i, k - 1)

(* What the client knows once it has heard the first n updates.            *)
Carried(i, n, t) == IF n = 0 THEN shown[i] = t ELSE updates[i][n] = <<"partial", t>>

DeltaKept(i) ==
  Current(i) =>
    /\ \A k \in 1 .. Len(updates[i]) :
         /\ updates[i][k][1] = "partial" => shown[i] <= updates[i][k][2]
         /\ updates[i][k][1] = "completed" => Carried(i, k - 1, updates[i][k][2])
    /\ worker[i] \in {"release", "announce"} /\ outcome[i] = "completed"
         => Carried(i, Len(updates[i]), text[i])

(* SlotFollowsItem, for one item.                                          *)
SlotKept(i) ==
  slot = i <=> \/ worker[i] \in Streaming
               \/ pc[i[1]] \in {"start", "bind"} /\ Last(i)
               \/ Current(i) /\ Waiting(i)

(* The inductive invariant.                                                *)
RealtimeInv ==
  /\ Types /\ slot \in Items \cup {None}
  /\ \A c \in Conns : Numbered(c)
  /\ \A i \in Items : /\ ItemKept(i) /\ WorkerKept(i) /\ ChannelKept(i) /\ Announced(i)
                      /\ FinalKept(i) /\ DeltaKept(i) /\ SlotKept(i)
-----------------------------------------------------------------------------
(* An item is a connection and a number.                                   *)
LEMMA ItemIs ==
  ASSUME ConnectionTypes
  PROVE  /\ \A i \in Items : i[1] \in Conns /\ i[2] \in {1, 2}
         /\ \A c \in Conns, i \in Items :
              /\ i = It(c) <=> i[1] = c /\ i[2] = cur[c]
              /\ i = Latest(c) <=> i[1] = c /\ i[2] = started[c]
         /\ \A c \in Conns :
              /\ It(c)[1] = c /\ It(c)[2] = cur[c]
              /\ Latest(c)[1] = c /\ Latest(c)[2] = started[c]
              /\ cur[c] # 0 => It(c) \in Items
              /\ started[c] # 0 => Latest(c) \in Items
              /\ <<c, Other(started[c])>> \in Items
         /\ None \notin Items
  BY NobodyAssumption DEF ConnectionTypes, Items, It, Latest, Other

(* The queue of updates: one more, one less.                               *)
LEMMA Grown ==
  ASSUME NEW q \in Seq(Texts), NEW u \in Texts
  PROVE  /\ q \o <<u>> = Append(q, u) /\ q \o <<>> = q
         /\ Append(q, u) \in Seq(Texts) /\ Append(q, u) # <<>>
         /\ Len(Append(q, u)) = Len(q) + 1
         /\ \A k \in 1 .. Len(q) : Append(q, u)[k] = q[k]
         /\ Append(q, u)[Len(q) + 1] = u
  OBVIOUS

LEMMA Shrunk ==
  ASSUME NEW q \in Seq(Texts), q # <<>>
  PROVE  /\ Tail(q) \in Seq(Texts) /\ Len(Tail(q)) = Len(q) - 1 /\ Len(q) \in Nat \ {0}
         /\ \A k \in 1 .. Len(q) - 1 : Tail(q)[k] = q[k + 1]
         /\ Head(q) = q[1] /\ Head(q) \in Texts
         /\ Len(q) = 1 => Tail(q) = <<>>
  OBVIOUS

LEMMA OrderedGrown ==
  ASSUME NEW q \in Seq(Texts), NEW u \in Texts, Ordered(q),
         \A k \in 1 .. Len(q) :
           /\ q[k][1] # "ended" /\ (q[k][1] \in Ending => u[1] = "ended")
           /\ q[k][1] = "partial" /\ u[1] = "partial" => q[k][2] <= u[2]
  PROVE  Ordered(Append(q, u))
<1> SUFFICES ASSUME NEW k \in 1 .. Len(q) + 1, NEW l \in 1 .. Len(q) + 1, k < l
             PROVE  /\ Append(q, u)[k][1] # "ended"
                    /\ Append(q, u)[k][1] \in Ending => Append(q, u)[l][1] = "ended"
                    /\ Append(q, u)[k][1] = "partial" /\ Append(q, u)[l][1] = "partial"
                         => Append(q, u)[k][2] <= Append(q, u)[l][2]
  BY Grown DEF Ordered
<1>1. k \in 1 .. Len(q) /\ Append(q, u)[k] = q[k]
  BY Grown
<1>2. CASE l \in 1 .. Len(q)
  BY <1>1, <1>2, Grown DEF Ordered
<1>3. CASE l = Len(q) + 1
  BY <1>1, <1>3, Grown
<1> QED
  BY <1>2, <1>3

LEMMA OrderedShrunk ==
  ASSUME NEW q \in Seq(Texts), q # <<>>, Ordered(q)
  PROVE  Ordered(Tail(q))
<1>1. \A k \in 1 .. Len(q) - 1 : k + 1 \in 1 .. Len(q) /\ Tail(q)[k] = q[k + 1]
  BY Shrunk
<1>2. Len(Tail(q)) = Len(q) - 1 /\ Len(q) \in Nat
  BY Shrunk
<1> SUFFICES ASSUME NEW k \in 1 .. Len(q) - 1, NEW l \in 1 .. Len(q) - 1, k < l
             PROVE  /\ Tail(q)[k][1] # "ended"
                    /\ Tail(q)[k][1] \in Ending => Tail(q)[l][1] = "ended"
                    /\ Tail(q)[k][1] = "partial" /\ Tail(q)[l][1] = "partial"
                         => Tail(q)[k][2] <= Tail(q)[l][2]
  BY <1>2 DEF Ordered
<1>3. k + 1 \in 1 .. Len(q) /\ l + 1 \in 1 .. Len(q) /\ k + 1 < l + 1
  BY <1>1
<1> QED
  BY <1>1, <1>3 DEF Ordered

(* What a worker tells its item, if it is listened to.                     *)
LEMMA Telling ==
  ASSUME Types, NEW i \in Items, NEW us, Tell(i, us)
  PROVE  /\ \A j \in Items \ {i} : updates'[j] = updates[j]
         /\ updates'[i] = IF Heard(i) THEN updates[i] \o us ELSE updates[i]
         /\ DOMAIN updates' = Items
  BY DEF Types, UpdateTypes, Tell

LEMMA HeardIs ==
  ASSUME Types, NEW i \in Items
  PROVE  /\ i[1] \in Conns
         /\ Heard(i) <=> Current(i) \/ (pc[i[1]] = "discard" /\ Last(i))
  BY ItemIs DEF Types, Heard, Current, Last

LEMMA AnnouncementIs ==
  ASSUME Types, NEW i \in Items
  PROVE  \/ outcome[i] = "none" /\ Announcement(i) = << >>
         \/ outcome[i] = "failed" /\ Announcement(i) = << <<"failed", 0>> >>
         \/ outcome[i] = "completed" /\ Announcement(i) = << <<"completed", text[i]>> >>
         \/ outcome[i] = "translated" /\ text[i] = 0
              /\ Announcement(i) = << <<"completed", 0>> >>
         \/ outcome[i] = "translated" /\ text[i] > 0
              /\ Announcement(i) = << <<"partial", text[i]>> >> \o << <<"completed",
              text[i]>> >>
<1>1. outcome[i] \in {"none", "failed", "completed", "translated"} /\ text[i] \in Nat
  BY DEF Types, EngineTypes
<1>2. CASE outcome[i] = "none"
  BY <1>2, Zenon DEF Announcement
<1>3. CASE outcome[i] = "failed"
  BY <1>3, Zenon DEF Announcement
<1>4. CASE outcome[i] = "completed"
  BY <1>4, Zenon DEF Announcement
<1>5. CASE outcome[i] = "translated"
  <2>1. Announcement(i) = (IF text[i] > 0 THEN << <<"partial", text[i]>> >> ELSE << >>)
                            \o << <<"completed", text[i]>> >>
    BY <1>5, Zenon DEF Announcement
  <2>2. << >> \o << <<"completed", text[i]>> >> = << <<"completed", text[i]>> >>
    BY <1>1
  <2>3. text[i] > 0 \/ text[i] = 0
    BY <1>1
  <2>4. CASE text[i] > 0
    BY <1>5, <2>1, <2>4, Zenon
  <2>5. CASE text[i] = 0
    <3>1. ~ (text[i] > 0)
      BY <2>5
    <3> QED
      BY <1>5, <2>1, <2>2, <2>5, <3>1, Zenon
  <2> QED
    BY <2>3, <2>4, <2>5
<1> QED
  BY <1>1, <1>2, <1>3, <1>4, <1>5
-----------------------------------------------------------------------------
(* What the steps come to, as far as the invariant can tell.               *)

Untouched == UNCHANGED <<cur, started, kind, committed, finalized, shown, finals, worker,
                         outcome, text, open, updates, slot>>

(* A reply, an arrival, more audio, the end of a wait.                     *)
Still(c) ==
  /\ Untouched
  /\ \/ UNCHANGED pc
     \/ /\ pc[c] \notin {"start", "bind", "discard", "closed"}
        /\ \E p \in Handled \cup {"serve", "broken", "closed"} :
             /\ pc' = [pc EXCEPT ![c] = p]
             /\ p = "closed" => ~HasItem(c)

(* Clear, idle timeout, leaving: the item goes unless it was committed.    *)
GivesUp(c) ==
  /\ HasItem(c)
  /\ \E reason \in {"clear", "idle", "close"} : Discard(c, reason)

LEMMA StillSteps ==
  ASSUME RealtimeInv, NEW c \in Conns,
         \/ Reply(c) \/ Receive(c) \/ Leave(c) \/ AppendMore(c) \/ Discarded(c)
         \/ ~HasItem(c) /\ (Clear(c) \/ Close(c))
  PROVE  Still(c) /\ why' \in [Conns -> {"none", "clear", "idle", "close"}]
<1>1. CASE Reply(c)
  BY <1>1
     DEF RealtimeInv, Types, ConnectionTypes, Reply, Still, Untouched, Goto, Sent,
         item, engine, Settled, HasItem, Feed, Command, connection, Places, Handled
<1>2. CASE Receive(c)
  BY <1>2
     DEF RealtimeInv, Types, ConnectionTypes, Receive, Still, Untouched, Goto, Sent,
         item, engine, Settled, HasItem, Feed, Command, connection, Places, Handled
<1>3. CASE Leave(c)
  BY <1>3
     DEF RealtimeInv, Types, ConnectionTypes, Leave, Still, Untouched, Goto, Sent,
         item, engine, Settled, HasItem, Feed, Command, connection, Places, Handled
<1>4. CASE AppendMore(c)
  BY <1>4
     DEF RealtimeInv, Types, ConnectionTypes, AppendMore, Still, Untouched, Goto,
         Sent, item, engine, Settled, HasItem, Feed, Command, connection, Places,
         Handled
<1>5. CASE Discarded(c)
  BY <1>5
     DEF RealtimeInv, Types, ConnectionTypes, Numbered, Discarded, Still, Untouched,
         Goto, Sent, item, engine, Settled, HasItem, Feed, Command, connection,
         Places, Handled
<1>6. CASE ~HasItem(c) /\ Clear(c)
  BY <1>6
     DEF RealtimeInv, Types, ConnectionTypes, Clear, Still, Untouched, Goto, Sent,
         item, engine, Settled, HasItem, Feed, Command, connection, Places, Handled
<1>7. CASE ~HasItem(c) /\ Close(c)
  BY <1>7
     DEF RealtimeInv, Types, ConnectionTypes, Close, Still, Untouched, Goto, Sent,
         item, engine, Settled, HasItem, Feed, Command, connection, Places, Handled
<1> QED
  BY <1>1, <1>2, <1>3, <1>4, <1>5, <1>6, <1>7

LEMMA GivesUpSteps ==
  ASSUME NEW c \in Conns, HasItem(c), Clear(c) \/ Close(c) \/ Idle(c)
  PROVE  GivesUp(c)
  BY DEF Clear, Close, Idle, GivesUp


LEMMA StillKeeps ==
  ASSUME RealtimeInv, NEW c \in Conns, Still(c),
         why' \in [Conns -> {"none", "clear", "idle", "close"}]
  PROVE  RealtimeInv'
<1>1. ConnectionTypes'
  BY ItemIs DEF RealtimeInv, ConnectionTypes, Types, Places, Still, Untouched
<1>2. ItemTypes'
  BY ItemIs DEF RealtimeInv, ItemTypes, Types, Still, Untouched
<1>3. EngineTypes'
  BY ItemIs DEF RealtimeInv, EngineTypes, Types, Still, Untouched
<1>4. UpdateTypes'
  BY ItemIs DEF RealtimeInv, UpdateTypes, Types, Still, Untouched
<1>5. slot' \in Items \cup {None}
  BY ItemIs DEF RealtimeInv, Still, Untouched
<1>6. \A d \in Conns : Numbered(d)'
  BY ItemIs
     DEF RealtimeInv, Numbered, Types, ConnectionTypes, Handled, Still, Untouched,
         HasItem
<1>7. ASSUME NEW j \in Items PROVE ItemKept(j)'
  BY ItemIs DEF RealtimeInv, ItemKept, Still, Untouched, Current
<1>8. ASSUME NEW j \in Items PROVE WorkerKept(j)'
  BY ItemIs
     DEF RealtimeInv, WorkerKept, Types, ConnectionTypes, Still, Untouched, Last,
         Current, Waiting
<1>9. ASSUME NEW j \in Items PROVE ChannelKept(j)'
  BY ItemIs
     DEF RealtimeInv, ChannelKept, Types, ConnectionTypes, Still, Untouched, Current,
         Last
<1>10. ASSUME NEW j \in Items PROVE Announced(j)'
  BY ItemIs DEF RealtimeInv, Announced, Still, Untouched, Unannounced, Silent
<1>11. ASSUME NEW j \in Items PROVE FinalKept(j)'
  BY ItemIs DEF RealtimeInv, FinalKept, Still, Untouched, Current, Told
<1>12. ASSUME NEW j \in Items PROVE DeltaKept(j)'
  BY ItemIs DEF RealtimeInv, DeltaKept, Still, Untouched, Current, Carried
<1>13. ASSUME NEW j \in Items PROVE SlotKept(j)'
  BY ItemIs
     DEF RealtimeInv, SlotKept, Types, ConnectionTypes, Waiting, Handled, Still,
         Untouched, Last, Current
<1> QED
  BY <1>1, <1>2, <1>3, <1>4, <1>5, <1>6, <1>7, <1>8, <1>9, <1>10, <1>11, <1>12, <1>13
     DEF RealtimeInv, Types



(* What the client knows of an item changes with the item's own record     *)
(* only.                                                                   *)
LEMMA DeltaStays ==
  ASSUME NEW j \in Items, DeltaKept(j), Current(j)' => Current(j),
         shown'[j] = shown[j], updates'[j] = updates[j], text'[j] = text[j],
         outcome'[j] = outcome[j], worker'[j] = worker[j] \/ worker'[j] = "queue"
  PROVE  DeltaKept(j)'
  BY DEF DeltaKept, Carried


(* The same for what its worker has announced and for its final event.     *)
LEMMA AnnouncedStays ==
  ASSUME NEW j \in Items, Announced(j), shown'[j] = shown[j], finals'[j] = finals[j],
         updates'[j] = updates[j], text'[j] = text[j], outcome'[j] = outcome[j],
         worker'[j] = worker[j]
  PROVE  Announced(j)'
  BY DEF Announced, Unannounced, Silent


LEMMA FinalStays ==
  ASSUME NEW j \in Items, FinalKept(j), Current(j)' => Current(j),
         finals'[j] = finals[j], updates'[j] = updates[j],
         worker'[j] = worker[j] \/ worker'[j] = "queue"
  PROVE  FinalKept(j)'
  BY DEF FinalKept, Told


LEMMA DropItemIs ==
  ASSUME Types, NEW c \in Conns, HasItem(c), DropItem(c)
  PROVE  /\ It(c) \in Items /\ cur' = [cur EXCEPT ![c] = 0]
         /\ kind' \in [Items -> {"none", "stream", "buffered"}]
         /\ committed' \in [Items -> BOOLEAN] /\ finalized' \in [Items -> BOOLEAN]
         /\ shown' \in [Items -> Nat] /\ finals' \in [Items -> Nat]
         /\ open' \in [Items -> BOOLEAN]
         /\ \A j \in Items :
              IF j = It(c)
              THEN /\ kind'[j] = "none" /\ ~finalized'[j]
                   /\ shown'[j] = 0 /\ finals'[j] = 0 /\ ~open'[j]
              ELSE /\ kind'[j] = kind[j] /\ finalized'[j] = finalized[j]
                   /\ committed'[j] = committed[j]
                   /\ shown'[j] = shown[j]
                   /\ finals'[j] = finals[j] /\ open'[j] = open[j]
<1>1. It(c) \in Items
  BY ItemIs DEF Types, HasItem
<1>2. /\ cur' = [cur EXCEPT ![c] = 0]
      /\ kind' = [kind EXCEPT ![It(c)] = "none"]
      /\ committed' = [committed EXCEPT ![It(c)] = FALSE]
      /\ finalized' = [finalized EXCEPT ![It(c)] = FALSE]
      /\ shown' = [shown EXCEPT ![It(c)] = 0]
      /\ finals' = [finals EXCEPT ![It(c)] = 0]
      /\ open' = [open EXCEPT ![It(c)] = FALSE]
  BY DEF DropItem
<1> QED
  BY <1>1, <1>2 DEF Types, ItemTypes, EngineTypes


LEMMA GivesUpIs ==
  ASSUME Types, NEW c \in Conns, GivesUp(c)
  PROVE  /\ HasItem(c) /\ DropItem(c)
         /\ why' \in [Conns -> {"none", "clear", "idle", "close"}]
         /\ pc' = [pc EXCEPT ![c] = IF Waiting(It(c)) THEN "discarded" ELSE "discard"]
         /\ slot' = IF Waiting(It(c)) THEN None ELSE slot
         /\ UNCHANGED <<started, worker, outcome, text, updates>>
<1>1. PICK reason \in {"clear", "idle", "close"} : Discard(c, reason)
  BY DEF GivesUp
<1>2. HasItem(c) /\ DropItem(c) /\ UNCHANGED <<started, worker, outcome, text, updates>>
  BY <1>1 DEF GivesUp, Discard
<1>3. why' \in [Conns -> {"none", "clear", "idle", "close"}]
  BY <1>1 DEF Discard, Types, ConnectionTypes
<1>4. slot' = IF Waiting(It(c)) THEN None ELSE slot
  BY <1>1 DEF Discard, DropTurn
<1>5. pc' = [pc EXCEPT ![c] = IF Waiting(It(c)) THEN "discarded" ELSE "discard"]
  BY <1>1 DEF Discard, Goto
<1> QED
  BY <1>2, <1>3, <1>4, <1>5


LEMMA GivesUpKeeps ==
  ASSUME RealtimeInv, NEW c \in Conns, GivesUp(c)
  PROVE  RealtimeInv'
<1> USE ItemIs, GivesUpIs, DropItemIs
<1>1. ConnectionTypes'
  BY DEF RealtimeInv, Types, ConnectionTypes, Places
<1>2. ItemTypes'
  BY DEF RealtimeInv, Types, ItemTypes
<1>3. EngineTypes'
  BY DEF RealtimeInv, Types, EngineTypes
<1>4. UpdateTypes'
  BY ItemIs DEF RealtimeInv, UpdateTypes, Types
<1>5. slot' \in Items \cup {None}
  BY ItemIs DEF RealtimeInv
<1>6. \A d \in Conns : Numbered(d)'
  BY ItemIs DEF RealtimeInv, Numbered, Types, ConnectionTypes
<1>7. ASSUME NEW j \in Items PROVE ItemKept(j)'
  <2>1. CASE j = It(c)
    <3>1. ~Current(j)'
      BY <2>1 DEF RealtimeInv, Types, ConnectionTypes, Current
    <3>2. kind'[j] = "none" /\ ~finalized'[j] /\ shown'[j] = 0 /\ finals'[j] = 0 /\ ~open'[j]
      BY <2>1 DEF RealtimeInv
    <3> QED
      BY ONLY <3>1, <3>2 DEF ItemKept
  <2>2. CASE j # It(c)
    <3>1. Current(j)' <=> Current(j)
      BY <2>2 DEF RealtimeInv, Types, ConnectionTypes, Current
    <3>2. /\ kind'[j] = kind[j] /\ finalized'[j] = finalized[j] /\ shown'[j] = shown[j]
          /\ finals'[j] = finals[j] /\ open'[j] = open[j] /\ committed'[j] = committed[j]
      BY <2>2 DEF RealtimeInv
    <3> QED
      BY ONLY <3>1, <3>2, RealtimeInv DEF RealtimeInv, ItemKept
  <2> QED
    BY <2>1, <2>2
<1>8. ASSUME NEW j \in Items PROVE WorkerKept(j)'
  BY ItemIs
     DEF RealtimeInv, WorkerKept, Types, Numbered, ConnectionTypes, ItemTypes,
         GivesUp, HasItem, Discard, Last, Current, Waiting, DropItem, DropTurn, Goto
<1>9. ASSUME NEW j \in Items PROVE ChannelKept(j)'
  <2>1. Ordered(updates[j]) /\ updates'[j] = updates[j]
    BY DEF RealtimeInv, ChannelKept
  <2>2. Last(j)' <=> Last(j)
    BY DEF RealtimeInv, Last
  <2>3. CASE j = It(c)
    <3>1. Last(j) /\ j[1] = c
      BY <2>3 DEF RealtimeInv, Types, Numbered, HasItem, Last
    <3>2. pc'[c] = IF Waiting(j) THEN "discarded" ELSE "discard"
      BY <2>3 DEF RealtimeInv, Types, ConnectionTypes
    <3>3. Waiting(j) => updates[j] = <<>>
      BY DEF RealtimeInv, WorkerKept
    <3> QED
      BY <2>1, <2>2, <3>1, <3>2, <3>3 DEF ChannelKept
  <2>4. CASE j # It(c)
    <3>1. Current(j)' <=> Current(j)
      BY <2>4 DEF RealtimeInv, Types, ConnectionTypes, Current, HasItem
    <3>2. j[1] = c => updates[j] = <<>>
      <4>1. j[1] = c => ~Current(j)
        BY <2>4 DEF RealtimeInv, Types, Current
      <4>2. pc[c] # "discard" /\ ChannelKept(j)
        BY DEF RealtimeInv, Numbered, HasItem
      <4> QED
        BY ONLY <4>1, <4>2 DEF ChannelKept
    <3>3. j[1] # c => pc'[j[1]] = pc[j[1]]
      BY DEF RealtimeInv, Types, ConnectionTypes
    <3> QED
      BY <2>1, <2>2, <3>1, <3>2, <3>3 DEF RealtimeInv, ChannelKept
  <2> QED
    BY <2>3, <2>4
<1>10. ASSUME NEW j \in Items PROVE Announced(j)'
  <2>1. /\ Announced(j) /\ text[j] \in Nat
        /\ worker'[j] = worker[j] /\ outcome'[j] = outcome[j]
        /\ text'[j] = text[j] /\ updates'[j] = updates[j]
    BY DEF RealtimeInv, Types, EngineTypes
  <2>2. \/ shown'[j] = 0 /\ finals'[j] = 0
        \/ shown'[j] = shown[j] /\ finals'[j] = finals[j]
    BY DEF RealtimeInv
  <2> QED
    BY ONLY <2>1, <2>2 DEF Announced, Unannounced, Silent
<1>11. ASSUME NEW j \in Items PROVE FinalKept(j)'
  BY ItemIs
     DEF RealtimeInv, FinalKept, Types, ConnectionTypes, GivesUp, Discard, Current,
         Told, DropItem, DropTurn, Waiting
<1>12. ASSUME NEW j \in Items PROVE DeltaKept(j)'
  <2>1. CASE j = It(c)
    BY <2>1 DEF RealtimeInv, Types, ConnectionTypes, Current, HasItem, DeltaKept
  <2>2. CASE j # It(c)
    <3>1. Current(j)' => Current(j)
      BY <2>2 DEF RealtimeInv, Types, ConnectionTypes, Current
    <3>2. shown'[j] = shown[j]
      BY <2>2 DEF RealtimeInv
    <3> QED
      BY <3>1, <3>2, DeltaStays DEF RealtimeInv
  <2> QED
    BY <2>1, <2>2
<1>13. ASSUME NEW j \in Items PROVE SlotKept(j)'
  <2>1. CASE j = It(c)
    BY <2>1
       DEF RealtimeInv, Types, ConnectionTypes, SlotKept, Waiting, Streaming, Current,
           Last, Numbered, HasItem, WorkerKept
  <2>2. CASE j # It(c)
    <3>1. slot' = j <=> slot = j
      BY <2>2 DEF RealtimeInv, Types, SlotKept, Current, HasItem
    <3>2. Current(j)' <=> Current(j)
      BY <2>2 DEF RealtimeInv, Types, ConnectionTypes, Current, HasItem
    <3>3. (pc[j[1]] \in {"start", "bind"} /\ Last(j))'
          <=> pc[j[1]] \in {"start", "bind"} /\ Last(j)
      BY DEF RealtimeInv, Types, ConnectionTypes, Last, Numbered, HasItem
    <3> QED
      BY <2>2, <3>1, <3>2, <3>3 DEF RealtimeInv, SlotKept, Waiting
  <2> QED
    BY <2>1, <2>2
<1> QED
  BY <1>1, <1>2, <1>3, <1>4, <1>5, <1>6, <1>7, <1>8, <1>9, <1>10, <1>11, <1>12, <1>13
     DEF RealtimeInv, Types


LEMMA StartItemKeeps ==
  ASSUME RealtimeInv, NEW c \in Conns, StartItem(c)
  PROVE  RealtimeInv'
<1>1. ConnectionTypes'
  BY DEF RealtimeInv, Types, ConnectionTypes, Places, StartItem, Goto, Sent, Other
<1>2. ItemTypes'
  BY ItemIs DEF RealtimeInv, ItemTypes, Types, StartItem, item
<1>3. EngineTypes'
  BY ItemIs DEF RealtimeInv, EngineTypes, Types, engine, StartItem
<1>4. UpdateTypes'
  BY ItemIs DEF RealtimeInv, UpdateTypes, Types, engine, StartItem
<1>5. slot' \in Items \cup {None}
  BY ItemIs DEF RealtimeInv, Types, ConnectionTypes, StartItem
<1>6. \A d \in Conns : Numbered(d)'
  BY ItemIs
     DEF RealtimeInv, Numbered, Types, ConnectionTypes, StartItem, HasItem, Sent, Goto
<1>7. ASSUME NEW j \in Items PROVE ItemKept(j)'
  BY ItemIs DEF RealtimeInv, ItemKept, engine, StartItem, item, Current
<1>8. ASSUME NEW j \in Items PROVE WorkerKept(j)'
  BY ItemIs
     DEF RealtimeInv, WorkerKept, Types, ConnectionTypes, engine, Current, Last,
         Waiting, StartItem, Settled, HasItem, Sent, Goto, item
<1>9. ASSUME NEW j \in Items PROVE ChannelKept(j)'
  BY ItemIs
     DEF RealtimeInv, ChannelKept, Types, ConnectionTypes, engine, StartItem, Settled,
         Sent, Goto, Current, Last
<1>10. ASSUME NEW j \in Items PROVE Announced(j)'
  BY ItemIs DEF RealtimeInv, Announced, engine, StartItem, item, Unannounced, Silent
<1>11. ASSUME NEW j \in Items PROVE FinalKept(j)'
  BY ItemIs
     DEF RealtimeInv, FinalKept, engine, Current, Told, StartItem, Settled, item
<1>12. ASSUME NEW j \in Items PROVE DeltaKept(j)'
  BY ItemIs DEF RealtimeInv, DeltaKept, engine, StartItem, item, Current, Carried
<1>13. ASSUME NEW j \in Items PROVE SlotKept(j)'
  <2>1. CASE UNCHANGED slot
    BY <2>1, ItemIs
       DEF RealtimeInv, Types, ConnectionTypes, SlotKept, Waiting, Current, Last,
           HasItem, StartItem, Settled, Goto, Sent, item, engine
  <2>2. CASE /\ slot = None /\ started' = [started EXCEPT ![c] = Other(@)]
             /\ slot' = <<c, started'[c]>> /\ Goto(c, "start")
    BY <2>2, ItemIs
       DEF RealtimeInv, Types, ConnectionTypes, SlotKept, Waiting, Current, Last,
           HasItem, StartItem, Settled, Goto, Other, item, engine, Items
  <2> QED
    BY <2>1, <2>2 DEF StartItem
<1> QED
  BY <1>1, <1>2, <1>3, <1>4, <1>5, <1>6, <1>7, <1>8, <1>9, <1>10, <1>11, <1>12, <1>13
     DEF RealtimeInv, Types


LEMMA StartFailsKeeps ==
  ASSUME RealtimeInv, NEW c \in Conns, StartFails(c)
  PROVE  RealtimeInv'
<1>1. ConnectionTypes'
  BY DEF RealtimeInv, Types, ConnectionTypes, Places, StartFails, Goto, Sent
<1>2. ItemTypes'
  BY ItemIs DEF RealtimeInv, ItemTypes, Types, StartFails, item
<1>3. EngineTypes'
  BY ItemIs DEF RealtimeInv, EngineTypes, Types, engine, StartFails
<1>4. UpdateTypes'
  BY ItemIs DEF RealtimeInv, UpdateTypes, Types, engine, StartFails
<1>5. slot' \in Items \cup {None}
  BY ItemIs DEF StartFails
<1>6. \A d \in Conns : Numbered(d)'
  BY ItemIs DEF RealtimeInv, Numbered, Types, ConnectionTypes, StartFails, Sent, Goto
<1>7. ASSUME NEW j \in Items PROVE ItemKept(j)'
  BY ItemIs DEF RealtimeInv, ItemKept, engine, StartFails, item, Current
<1>8. ASSUME NEW j \in Items PROVE WorkerKept(j)'
  BY ItemIs
     DEF RealtimeInv, WorkerKept, Types, ConnectionTypes, engine, Current, Last,
         Waiting, StartFails, Sent, item, Goto
<1>9. ASSUME NEW j \in Items PROVE ChannelKept(j)'
  BY ItemIs
     DEF RealtimeInv, ChannelKept, Types, ConnectionTypes, engine, StartFails, Sent,
         Current, Last, Goto
<1>10. ASSUME NEW j \in Items PROVE Announced(j)'
  BY ItemIs DEF RealtimeInv, Announced, engine, StartFails, item, Unannounced, Silent
<1>11. ASSUME NEW j \in Items PROVE FinalKept(j)'
  BY ItemIs DEF RealtimeInv, FinalKept, engine, StartFails, item, Current, Told
<1>12. ASSUME NEW j \in Items PROVE DeltaKept(j)'
  BY ItemIs DEF RealtimeInv, DeltaKept, engine, StartFails, item, Current, Carried
<1>13. ASSUME NEW j \in Items PROVE SlotKept(j)'
  <2>1. /\ Latest(c) \in Items /\ cur[c] = 0 /\ pc[c] \in {"start", "bind"}
        /\ \E p \in {"serve", "broken", "closed"} : pc' = [pc EXCEPT ![c] = p]
        /\ slot' = None /\ UNCHANGED <<cur, started, item, worker>>
    BY ItemIs
       DEF RealtimeInv, Types, ConnectionTypes, Numbered, StartFails, Goto, Sent,
           engine
  <2>2. slot = Latest(c)
    BY <2>1, ItemIs DEF RealtimeInv, Types, ConnectionTypes, SlotKept, Last
  <2>3. CASE j = Latest(c)
    BY <2>1, <2>3, ItemIs
       DEF RealtimeInv, Types, ConnectionTypes, SlotKept, WorkerKept, Waiting,
           Current, Last, Streaming, item
  <2>4. CASE j # Latest(c)
    BY <2>1, <2>2, <2>4, ItemIs
       DEF RealtimeInv, Types, ConnectionTypes, SlotKept, Waiting, Current, Last, item
  <2> QED
    BY <2>3, <2>4
<1> QED
  BY <1>1, <1>2, <1>3, <1>4, <1>5, <1>6, <1>7, <1>8, <1>9, <1>10, <1>11, <1>12, <1>13
     DEF RealtimeInv, Types


LEMMA StartStreamKeeps ==
  ASSUME RealtimeInv, NEW c \in Conns, StartStream(c)
  PROVE  RealtimeInv'
<1>1. /\ Latest(c) \in Items /\ pc[c] = "bind" /\ cur[c] = 0
      /\ cur' = [cur EXCEPT ![c] = started[c]]
      /\ \E p \in {"serve", "broken"} : pc' = [pc EXCEPT ![c] = p]
  BY ItemIs DEF RealtimeInv, Types, ConnectionTypes, Numbered, StartStream, Goto, Sent
<1>2. /\ worker[Latest(c)] = "none" /\ updates[Latest(c)] = <<>>
      /\ finals[Latest(c)] = 0 /\ shown[Latest(c)] = 0
      /\ ~finalized[Latest(c)]
  BY <1>1, ItemIs
     DEF RealtimeInv, Types, ConnectionTypes, Numbered, WorkerKept, ChannelKept,
         ItemKept, Current, Last
<1>3. ConnectionTypes'
  BY <1>1 DEF RealtimeInv, ConnectionTypes, Types, Places, StartStream
<1>4. ItemTypes'
  BY <1>1 DEF RealtimeInv, Types, ItemTypes, StartStream
<1>5. EngineTypes'
  BY <1>1 DEF RealtimeInv, Types, EngineTypes, StartStream
<1>6. UpdateTypes'
  BY ItemIs DEF RealtimeInv, UpdateTypes, Types, StartStream
<1>7. slot' \in Items \cup {None}
  BY ItemIs DEF RealtimeInv, StartStream
<1>8. \A d \in Conns : Numbered(d)'
  BY <1>1 DEF RealtimeInv, Numbered, Types, ConnectionTypes, StartStream
<1>16. ASSUME NEW j \in Items, j = Latest(c)
      PROVE  /\ Current(j)' /\ Last(j)' /\ worker'[j] = "begin" /\ kind'[j] = "stream" /\ open'[j]
             /\ updates'[j] = <<>> /\ shown'[j] = 0 /\ finals'[j] = 0
             /\ finalized'[j] = finalized[j] /\ committed'[j] = committed[j]
  BY <1>1, <1>2, <1>16, ItemIs
     DEF RealtimeInv, Types, ConnectionTypes, ItemTypes, EngineTypes, StartStream, engine,
         Current, Last
<1>17. ASSUME NEW j \in Items, j # Latest(c)
      PROVE  /\ Current(j)' <=> Current(j)
             /\ Last(j)' <=> Last(j)
             /\ worker'[j] = worker[j] /\ kind'[j] = kind[j] /\ outcome'[j] = outcome[j]
             /\ open'[j] = open[j]
             /\ updates'[j] = updates[j] /\ shown'[j] = shown[j] /\ finals'[j] = finals[j]
             /\ finalized'[j] = finalized[j] /\ committed'[j] = committed[j]
  <2>1. Current(j)' <=> Current(j)
    BY <1>1, <1>17, ItemIs DEF RealtimeInv, Types, ConnectionTypes, Current
  <2>2. Last(j)' <=> Last(j)
    BY DEF Last, StartStream
  <2>3. /\ worker'[j] = worker[j] /\ kind'[j] = kind[j] /\ outcome'[j] = outcome[j]
        /\ open'[j] = open[j]
        /\ updates'[j] = updates[j] /\ shown'[j] = shown[j] /\ finals'[j] = finals[j]
        /\ finalized'[j] = finalized[j] /\ committed'[j] = committed[j]
    BY <1>17 DEF RealtimeInv, Types, ItemTypes, EngineTypes, StartStream, engine
  <2> QED
    BY <2>1, <2>2, <2>3
<1>9. ASSUME NEW j \in Items PROVE ItemKept(j)'
  <2>1. finalized[j] => committed[j]
    BY DEF RealtimeInv, ItemKept
  <2>2. CASE j = Latest(c)
    BY <1>16, <2>1, <2>2 DEF ItemKept
  <2>3. CASE j # Latest(c)
    BY <1>17, <2>3 DEF RealtimeInv, ItemKept
  <2> QED
    BY <2>2, <2>3
<1>10. ASSUME NEW j \in Items PROVE WorkerKept(j)'
  <2>1. CASE j = Latest(c)
    BY <1>2, <1>16, <2>1 DEF WorkerKept, Waiting
  <2>2. CASE j # Latest(c)
    <3>1. worker[j] # "none" /\ ~Current(j) => j[1] # c \/ pc[c] # "bind"
      BY <1>1 DEF RealtimeInv, WorkerKept
    <3>2. j[1] # c => pc'[j[1]] = pc[j[1]]
      BY <1>1 DEF RealtimeInv, Types, ConnectionTypes
    <3>3. WorkerKept(j)
      BY DEF RealtimeInv
    <3>4. worker[j] # "none" /\ ~Current(j) => pc'[j[1]] = pc[j[1]]
      BY <1>1, <3>1, <3>2
    <3> QED
      BY <1>17, <2>2, <3>3, <3>4 DEF WorkerKept, Waiting
  <2> QED
    BY <2>1, <2>2
<1>11. ASSUME NEW j \in Items PROVE ChannelKept(j)'
  BY <1>1, <1>2, ItemIs
     DEF RealtimeInv, Types, ConnectionTypes, ChannelKept, StartStream, Current, Last,
         Numbered
<1>12. ASSUME NEW j \in Items PROVE Announced(j)'
  <2>1. CASE j = Latest(c)
    BY <1>1, <1>2, <2>1, ItemIs
       DEF RealtimeInv, Types, ItemTypes, EngineTypes, Announced, StartStream,
           Streaming, Unannounced, Silent
  <2>2. CASE j # Latest(c)
    BY <1>1, <1>2, <2>2, ItemIs
       DEF RealtimeInv, Types, ItemTypes, EngineTypes, Announced, StartStream,
           Streaming, Unannounced, Silent
  <2> QED
    BY <2>1, <2>2
<1>13. ASSUME NEW j \in Items PROVE FinalKept(j)'
  BY ItemIs
     DEF RealtimeInv, FinalKept, Types, ConnectionTypes, Current, WorkerKept,
         ChannelKept, Told, StartStream, Goto
<1>14. ASSUME NEW j \in Items PROVE DeltaKept(j)'
  BY ItemIs
     DEF RealtimeInv, DeltaKept, Current, WorkerKept, ChannelKept, Carried,
         StartStream
<1>15. ASSUME NEW j \in Items PROVE SlotKept(j)'
  <2>1. slot = Latest(c) /\ slot' = slot
    BY <1>1, ItemIs DEF RealtimeInv, Types, SlotKept, Last, StartStream
  <2>2. ASSUME j # Latest(c)
        PROVE  /\ Current(j)' <=> Current(j)
               /\ Waiting(j)' <=> Waiting(j)
               /\ worker'[j] = worker[j]
               /\ (pc[j[1]] \in {"start", "bind"} /\ Last(j))'
                    <=> pc[j[1]] \in {"start", "bind"} /\ Last(j)
    <3>1. Current(j)' <=> Current(j)
      BY <1>1, <2>2, ItemIs DEF RealtimeInv, Types, ConnectionTypes, Current
    <3>2. (Waiting(j)' <=> Waiting(j)) /\ worker'[j] = worker[j]
      BY <2>2 DEF RealtimeInv, Types, ItemTypes, EngineTypes, Waiting, StartStream
    <3>3. (pc[j[1]] \in {"start", "bind"} /\ Last(j))'
            <=> pc[j[1]] \in {"start", "bind"} /\ Last(j)
      BY <1>1, <2>2, ItemIs DEF RealtimeInv, Types, ConnectionTypes, Last, StartStream
    <3> QED
      BY <3>1, <3>2, <3>3
  <2>3. CASE j = Latest(c)
    <3>1. worker'[j] = "begin"
      BY <1>1, <1>2, <2>3, ItemIs
         DEF RealtimeInv, Types, ConnectionTypes, ItemTypes, EngineTypes, Waiting,
             Current, StartStream
    <3> QED
      BY <2>3, <2>1, <3>1 DEF SlotKept, Streaming
  <2>4. CASE j # Latest(c)
    BY <2>1, <2>2, <2>4 DEF RealtimeInv, SlotKept
  <2> QED
    BY <2>3, <2>4
<1> QED
  BY <1>3, <1>4, <1>5, <1>6, <1>7, <1>8, <1>9, <1>10, <1>11, <1>12, <1>13, <1>14,
     <1>15
     DEF RealtimeInv, Types


LEMMA StartBufferedKeeps ==
  ASSUME RealtimeInv, NEW c \in Conns, StartBuffered(c)
  PROVE  RealtimeInv'
<1>1. /\ Latest(c) \in Items /\ pc[c] = "bind" /\ cur[c] = 0
      /\ cur' = [cur EXCEPT ![c] = started[c]]
      /\ \E p \in {"serve", "broken"} : pc' = [pc EXCEPT ![c] = p]
  BY ItemIs DEF RealtimeInv, Types, ConnectionTypes, Numbered, StartBuffered, Goto, Sent
<1>2. /\ worker[Latest(c)] = "none" /\ updates[Latest(c)] = <<>>
      /\ finals[Latest(c)] = 0 /\ shown[Latest(c)] = 0
      /\ ~finalized[Latest(c)]
  BY <1>1, ItemIs
     DEF RealtimeInv, Types, ConnectionTypes, Numbered, WorkerKept, ChannelKept,
         ItemKept, Current, Last
<1>3. ConnectionTypes'
  BY <1>1 DEF RealtimeInv, ConnectionTypes, Types, Places, StartBuffered
<1>4. ItemTypes'
  BY <1>1 DEF RealtimeInv, Types, ItemTypes, StartBuffered
<1>5. EngineTypes'
  BY ItemIs DEF RealtimeInv, EngineTypes, Types, engine, StartBuffered
<1>6. UpdateTypes'
  BY ItemIs DEF RealtimeInv, UpdateTypes, Types, engine, StartBuffered
<1>7. slot' \in Items \cup {None}
  BY ItemIs DEF RealtimeInv, StartBuffered
<1>8. \A d \in Conns : Numbered(d)'
  BY <1>1 DEF RealtimeInv, Numbered, Types, ConnectionTypes, StartBuffered
<1>16. ASSUME NEW j \in Items, j = Latest(c)
      PROVE  /\ Current(j)' /\ Last(j)' /\ worker'[j] = worker[j] /\ kind'[j] = "buffered"
             /\ updates'[j] = <<>> /\ shown'[j] = 0 /\ finals'[j] = 0
             /\ finalized'[j] = finalized[j] /\ committed'[j] = committed[j]
  BY <1>1, <1>2, <1>16, ItemIs
     DEF RealtimeInv, Types, ConnectionTypes, ItemTypes, EngineTypes, StartBuffered, engine,
         Current, Last
<1>17. ASSUME NEW j \in Items, j # Latest(c)
      PROVE  /\ Current(j)' <=> Current(j)
             /\ Last(j)' <=> Last(j)
             /\ worker'[j] = worker[j] /\ kind'[j] = kind[j] /\ outcome'[j] = outcome[j]
             /\ open'[j] = open[j]
             /\ updates'[j] = updates[j] /\ shown'[j] = shown[j] /\ finals'[j] = finals[j]
             /\ finalized'[j] = finalized[j] /\ committed'[j] = committed[j]
  <2>1. Current(j)' <=> Current(j)
    BY <1>1, <1>17, ItemIs DEF RealtimeInv, Types, ConnectionTypes, Current
  <2>2. Last(j)' <=> Last(j)
    BY DEF Last, StartBuffered
  <2>3. /\ worker'[j] = worker[j] /\ kind'[j] = kind[j] /\ outcome'[j] = outcome[j]
        /\ open'[j] = open[j]
        /\ updates'[j] = updates[j] /\ shown'[j] = shown[j] /\ finals'[j] = finals[j]
        /\ finalized'[j] = finalized[j] /\ committed'[j] = committed[j]
    BY <1>17 DEF RealtimeInv, Types, ItemTypes, EngineTypes, StartBuffered, engine
  <2> QED
    BY <2>1, <2>2, <2>3
<1>9. ASSUME NEW j \in Items PROVE ItemKept(j)'
  <2>1. finalized[j] => committed[j]
    BY DEF RealtimeInv, ItemKept
  <2>2. CASE j = Latest(c)
    BY <1>16, <2>1, <2>2 DEF ItemKept
  <2>3. CASE j # Latest(c)
    BY <1>17, <2>3 DEF RealtimeInv, ItemKept
  <2> QED
    BY <2>2, <2>3
<1>10. ASSUME NEW j \in Items PROVE WorkerKept(j)'
  <2>1. CASE j = Latest(c)
    BY <1>2, <1>16, <2>1 DEF WorkerKept, Waiting
  <2>2. CASE j # Latest(c)
    <3>1. worker[j] # "none" /\ ~Current(j) => j[1] # c \/ pc[c] # "bind"
      BY <1>1 DEF RealtimeInv, WorkerKept
    <3>2. j[1] # c => pc'[j[1]] = pc[j[1]]
      BY <1>1 DEF RealtimeInv, Types, ConnectionTypes
    <3>3. WorkerKept(j)
      BY DEF RealtimeInv
    <3>4. worker[j] # "none" /\ ~Current(j) => pc'[j[1]] = pc[j[1]]
      BY <1>1, <3>1, <3>2
    <3> QED
      BY <1>17, <2>2, <3>3, <3>4 DEF WorkerKept, Waiting
  <2> QED
    BY <2>1, <2>2
<1>11. ASSUME NEW j \in Items PROVE ChannelKept(j)'
  BY <1>1, <1>2, ItemIs
     DEF RealtimeInv, Types, ConnectionTypes, ChannelKept, StartBuffered, Current,
         Last, Numbered, engine
<1>12. ASSUME NEW j \in Items PROVE Announced(j)'
  BY ItemIs DEF RealtimeInv, Announced, engine, StartBuffered, Unannounced, Silent
<1>13. ASSUME NEW j \in Items PROVE FinalKept(j)'
  BY ItemIs
     DEF RealtimeInv, FinalKept, engine, Current, WorkerKept, ChannelKept, Told,
         StartBuffered
<1>14. ASSUME NEW j \in Items PROVE DeltaKept(j)'
  BY <1>1, <1>2, ItemIs
     DEF RealtimeInv, Types, ConnectionTypes, DeltaKept, StartBuffered, Current,
         Carried, engine
<1>15. ASSUME NEW j \in Items PROVE SlotKept(j)'
  <2>1. slot = Latest(c) /\ slot' = slot
    BY <1>1, ItemIs DEF RealtimeInv, Types, SlotKept, Last, StartBuffered
  <2>2. ASSUME j # Latest(c)
        PROVE  /\ Current(j)' <=> Current(j)
               /\ Waiting(j)' <=> Waiting(j)
               /\ worker'[j] = worker[j]
               /\ (pc[j[1]] \in {"start", "bind"} /\ Last(j))'
                    <=> pc[j[1]] \in {"start", "bind"} /\ Last(j)
    <3>1. Current(j)' <=> Current(j)
      BY <1>1, <2>2, ItemIs DEF RealtimeInv, Types, ConnectionTypes, Current
    <3>2. (Waiting(j)' <=> Waiting(j)) /\ worker'[j] = worker[j]
      BY <2>2
         DEF RealtimeInv, Types, ItemTypes, EngineTypes, Waiting, StartBuffered,
             engine
    <3>3. (pc[j[1]] \in {"start", "bind"} /\ Last(j))'
            <=> pc[j[1]] \in {"start", "bind"} /\ Last(j)
      BY <1>1, <2>2, ItemIs
         DEF RealtimeInv, Types, ConnectionTypes, Last, StartBuffered
    <3> QED
      BY <3>1, <3>2, <3>3
  <2>3. CASE j = Latest(c)
    <3>1. Current(j)' /\ Waiting(j)'
      BY <1>1, <1>2, <2>3, ItemIs
         DEF RealtimeInv, Types, ConnectionTypes, ItemTypes, EngineTypes, Waiting,
             Current, StartBuffered
    <3> QED
      BY <2>3, <2>1, <3>1 DEF SlotKept, Streaming
  <2>4. CASE j # Latest(c)
    BY <2>1, <2>2, <2>4 DEF RealtimeInv, SlotKept
  <2> QED
    BY <2>3, <2>4
<1> QED
  BY <1>3, <1>4, <1>5, <1>6, <1>7, <1>8, <1>9, <1>10, <1>11, <1>12, <1>13, <1>14,
     <1>15
     DEF RealtimeInv, Types


LEMMA CommitKeeps ==
  ASSUME RealtimeInv, NEW c \in Conns, Commit(c)
  PROVE  RealtimeInv'
<1>1. /\ pc[c] = "commit" /\ \E p \in {"serve", "broken"} : pc' = [pc EXCEPT ![c] = p]
      /\ UNCHANGED <<why, cur, started, kind, shown, finals, outcome, text, open, updates,
                     slot>>
      /\ \/ UNCHANGED <<committed, finalized, worker>>
         \/ /\ It(c) \in Items /\ cur[c] # 0 /\ ~finalized[It(c)]
            /\ committed' = [committed EXCEPT ![It(c)] = TRUE]
            /\ UNCHANGED <<finalized, worker>>
         \/ /\ It(c) \in Items /\ cur[c] # 0 /\ ~finalized[It(c)]
            /\ committed' = [committed EXCEPT ![It(c)] = TRUE]
            /\ finalized' = [finalized EXCEPT ![It(c)] = TRUE]
            /\ worker' = IF kind[It(c)] = "stream" THEN worker
                         ELSE [worker EXCEPT ![It(c)] = "queue"]
  BY ItemIs
     DEF RealtimeInv, Types, ItemKept, Commit, Settled, Settling, Handled, HasItem, Finalize,
         FlushFails, Sent, Goto
<1>2. It(c) \in Items /\ kind[It(c)] # "stream" /\ ~finalized[It(c)] /\ cur[c] # 0
        => /\ Waiting(It(c)) /\ Current(It(c)) /\ worker[It(c)] = "none" /\ slot = It(c)
              /\ updates[It(c)] = <<>> /\ shown[It(c)] = 0 /\ finals[It(c)] = 0
  BY ItemIs
     DEF RealtimeInv, Types, ItemTypes, ItemKept, WorkerKept, SlotKept, Waiting,
         Current
<1>3. ConnectionTypes'
  BY <1>1 DEF RealtimeInv, Types, ConnectionTypes, Places
<1>4. ItemTypes'
  BY <1>1 DEF RealtimeInv, Types, ItemTypes
<1>5. EngineTypes'
  BY ItemIs DEF RealtimeInv, EngineTypes, Types, Commit, Finalize, FlushFails
<1>6. UpdateTypes'
  BY ItemIs DEF RealtimeInv, UpdateTypes, Types, Commit
<1>7. slot' \in Items \cup {None}
  BY ItemIs DEF RealtimeInv, Commit
<1>8. \A d \in Conns : Numbered(d)'
  BY ItemIs DEF RealtimeInv, Numbered, Types, ConnectionTypes, Commit, Sent, Goto
<1>9. ASSUME NEW j \in Items PROVE ItemKept(j)'
  BY <1>1, ItemIs DEF RealtimeInv, Types, ItemTypes, ItemKept, Current
<1>10. ASSUME NEW j \in Items PROVE WorkerKept(j)'
  BY ItemIs
     DEF RealtimeInv, WorkerKept, Types, ConnectionTypes, ItemTypes, EngineTypes,
         Current, Last, Numbered, ChannelKept, Waiting, Commit, Settled, HasItem,
         Finalize, FlushFails, Sent, Goto
<1>11. ASSUME NEW j \in Items PROVE ChannelKept(j)'
  BY ItemIs
     DEF RealtimeInv, ChannelKept, Types, ConnectionTypes, Commit, Settled, Sent,
         Current, Last, Goto
<1>12. ASSUME NEW j \in Items PROVE Announced(j)'
  <2>1. CASE worker' = worker
    BY <1>1, <2>1 DEF RealtimeInv, Types, Announced, Unannounced, Silent
  <2>2. CASE worker' # worker /\ j = It(c)
    BY <1>1, <1>2, <2>2
       DEF RealtimeInv, Types, ItemTypes, EngineTypes, Announced, Unannounced, Silent
  <2>3. CASE worker' # worker /\ j # It(c)
    BY <1>1, <1>2, <2>3
       DEF RealtimeInv, Types, EngineTypes, Announced, Unannounced, Silent
  <2> QED
    BY <2>1, <2>2, <2>3
<1>13. ASSUME NEW j \in Items PROVE FinalKept(j)'
  <2>1. worker'[j] = worker[j] \/ worker'[j] = "queue"
    BY <1>1 DEF RealtimeInv, Types, EngineTypes
  <2>2. Current(j)' => Current(j)
    BY <1>1 DEF Current
  <2> QED
    BY <1>1, <2>1, <2>2, FinalStays DEF RealtimeInv
<1>14. ASSUME NEW j \in Items PROVE DeltaKept(j)'
  <2>1. worker'[j] = worker[j] \/ worker'[j] = "queue"
    BY <1>1 DEF RealtimeInv, Types, EngineTypes
  <2>2. Current(j)' => Current(j)
    BY <1>1 DEF Current
  <2> QED
    BY <1>1, <2>1, <2>2, DeltaStays DEF RealtimeInv
<1>15. ASSUME NEW j \in Items PROVE SlotKept(j)'
  <2>1. CASE UNCHANGED <<finalized, worker>>
    BY <1>1, <2>1, ItemIs
       DEF RealtimeInv, Types, ConnectionTypes, SlotKept, Waiting, Current, Last
  <2>2. CASE It(c) \in Items /\ ~UNCHANGED <<finalized, worker>> /\ kind[It(c)] = "stream"
    BY <1>1, <2>2, ItemIs
       DEF RealtimeInv, Types, ConnectionTypes, ItemTypes, SlotKept, Waiting, Current,
           Last
  <2>3. CASE It(c) \in Items /\ ~UNCHANGED <<finalized, worker>> /\ kind[It(c)] # "stream"
    BY <1>1, <1>2, <2>3, ItemIs
       DEF RealtimeInv, Types, ConnectionTypes, ItemTypes, EngineTypes, SlotKept,
           Waiting, Current, Last, Streaming
  <2> QED
    BY <1>1, <2>1, <2>2, <2>3
<1> QED
  BY <1>3, <1>4, <1>5, <1>6, <1>7, <1>8, <1>9, <1>10, <1>11, <1>12, <1>13, <1>14,
     <1>15
     DEF RealtimeInv, Types


LEMMA DrainKeeps ==
  ASSUME RealtimeInv, NEW c \in Conns, Drain(c)
  PROVE  RealtimeInv'
<1> DEFINE q == updates[Latest(c)]
<1>1. /\ Latest(c) \in Items /\ pc[c] = "discard" /\ cur[c] = 0 /\ q \in Seq(Texts)
      /\ q # <<>>
      /\ updates' = [updates EXCEPT ![Latest(c)] = Tail(q)]
      /\ UNCHANGED <<why, cur, started, kind, committed, finalized, shown, finals, worker, outcome,
                     text, open, slot>>
  BY ItemIs
     DEF RealtimeInv, Types, ConnectionTypes, Numbered, UpdateTypes, Drain, item
<1>2. q[1][1] = "ended" => worker[Latest(c)] = "none" /\ Tail(q) = <<>>
  <2>1. 1 \in 1 .. Len(q) /\ Len(q) \in 1 .. Len(q)
    BY <1>1, Shrunk
  <2>2. q[1][1] = "ended" => Len(q) = 1
    <3>1. Ordered(q)
      BY <1>1 DEF RealtimeInv, ChannelKept
    <3> HIDE DEF q
    <3> QED
      BY <2>1, <3>1 DEF Ordered
  <2>3. q[1][1] = "ended" => worker[Latest(c)] = "none"
    BY <1>1, <2>1
       DEF RealtimeInv, Types, EngineTypes, Announced, Unannounced, Streaming
  <2> QED
    BY <1>1, <2>2, <2>3, Shrunk
<1>3. pc' = IF q[1][1] = "ended" THEN [pc EXCEPT ![c] = "discarded"] ELSE pc
  BY <1>1, Shrunk DEF Drain, Goto
<1>4. ConnectionTypes'
  BY ItemIs, <1>1, Shrunk
     DEF RealtimeInv, ConnectionTypes, Types, UpdateTypes, Numbered, WorkerKept,
         Waiting, Places, Handled, Drain, Goto
<1>5. ItemTypes'
  BY ItemIs, <1>1, Shrunk DEF RealtimeInv, ItemTypes, Types
<1>6. EngineTypes'
  BY ItemIs, <1>1, Shrunk DEF RealtimeInv, EngineTypes, Types
<1>7. UpdateTypes'
  BY ItemIs, <1>1, Shrunk DEF RealtimeInv, UpdateTypes, Types
<1>8. slot' \in Items \cup {None}
  BY ItemIs, <1>1, Shrunk DEF RealtimeInv
<1>9. \A d \in Conns : Numbered(d)'
  BY ItemIs, <1>1, Shrunk
     DEF RealtimeInv, Numbered, Types, ConnectionTypes, Drain, Goto
<1>10. ASSUME NEW j \in Items PROVE ItemKept(j)'
  BY ItemIs, <1>1, Shrunk DEF RealtimeInv, ItemKept, Current
<1>11. ASSUME NEW j \in Items PROVE WorkerKept(j)'
  BY <1>1, <1>2, <1>3, ItemIs, Shrunk
     DEF RealtimeInv, Types, ConnectionTypes, UpdateTypes, WorkerKept, ItemKept,
         Waiting, Current, Last
<1>12. ASSUME NEW j \in Items PROVE ChannelKept(j)'
  BY <1>1, <1>2, <1>3, ItemIs, OrderedShrunk
     DEF RealtimeInv, Types, ConnectionTypes, UpdateTypes, ChannelKept, Current, Last
<1>13. ASSUME NEW j \in Items PROVE Announced(j)'
  <2>1. CASE j # Latest(c)
    <3>1. updates'[j] = updates[j]
      BY <1>1, <2>1 DEF RealtimeInv, Types, UpdateTypes
    <3> QED
      BY <1>1, <3>1, AnnouncedStays DEF RealtimeInv
  <2>2. CASE j = Latest(c)
    <3>1. updates'[j] = Tail(q) /\ Announced(j)
      BY <1>1, <2>2 DEF RealtimeInv, Types, UpdateTypes
    <3>2. /\ q # <<>> /\ Len(Tail(q)) = Len(q) - 1 /\ Len(q) \in Nat \ {0}
          /\ \A k \in 1 .. Len(q) - 1 : Tail(q)[k] = q[k + 1]
      BY <1>1, Shrunk
    <3>3. q = updates[j]
      BY <2>2
    <3> HIDE DEF q
    <3> QED
      BY <1>1, <3>1, <3>2, <3>3 DEF Announced, Unannounced, Silent
  <2> QED
    BY <2>1, <2>2
<1>14. ASSUME NEW j \in Items PROVE FinalKept(j)'
  BY ItemIs, <1>1, Shrunk DEF RealtimeInv, FinalKept, Types, Current, Told
<1>15. ASSUME NEW j \in Items PROVE DeltaKept(j)'
  <2>1. CASE Current(j)
    <3>1. j # Latest(c)
      BY ItemIs, <1>1, <2>1 DEF RealtimeInv, Types, ConnectionTypes, Current
    <3>2. updates'[j] = updates[j]
      BY <1>1, <3>1 DEF RealtimeInv, Types, UpdateTypes
    <3> QED
      BY <1>1, <2>1, <3>2, DeltaStays DEF RealtimeInv
  <2>2. CASE ~Current(j)
    BY <1>1, <2>2 DEF DeltaKept, Current
  <2> QED
    BY <2>1, <2>2
<1>16. ASSUME NEW j \in Items PROVE SlotKept(j)'
  BY ItemIs, <1>1, Shrunk
     DEF RealtimeInv, SlotKept, Types, ConnectionTypes, Drain, Goto, Last, Current,
         Waiting
<1> QED
  BY <1>4, <1>5, <1>6, <1>7, <1>8, <1>9, <1>10, <1>11, <1>12, <1>13, <1>14, <1>15,
     <1>16
     DEF RealtimeInv, Types


LEMMA StartGrantedKeeps ==
  ASSUME RealtimeInv, NEW c \in Conns, StartGranted(c)
  PROVE  RealtimeInv'
<1>1. ConnectionTypes'
  BY ItemIs DEF RealtimeInv, ConnectionTypes, Types, Places, StartGranted, Goto
<1>2. ItemTypes'
  BY ItemIs DEF RealtimeInv, ItemTypes, Types, StartGranted, item
<1>3. EngineTypes'
  BY ItemIs DEF RealtimeInv, EngineTypes, Types, engine, StartGranted
<1>4. UpdateTypes'
  BY ItemIs DEF RealtimeInv, UpdateTypes, Types, engine, StartGranted
<1>5. slot' \in Items \cup {None}
  BY ItemIs DEF RealtimeInv, StartGranted
<1>6. \A d \in Conns : Numbered(d)'
  BY ItemIs DEF RealtimeInv, Numbered, StartGranted, Goto
<1>7. ASSUME NEW j \in Items PROVE ItemKept(j)'
  BY ItemIs DEF RealtimeInv, ItemKept, engine, StartGranted, item, Current
<1>8. ASSUME NEW j \in Items PROVE WorkerKept(j)'
  BY ItemIs
     DEF RealtimeInv, WorkerKept, Waiting, engine, StartGranted, Goto, item, Last,
         Current
<1>9. ASSUME NEW j \in Items PROVE ChannelKept(j)'
  BY ItemIs DEF RealtimeInv, ChannelKept, engine, StartGranted, Goto, Current, Last
<1>10. ASSUME NEW j \in Items PROVE Announced(j)'
  BY ItemIs
     DEF RealtimeInv, Announced, engine, StartGranted, item, Unannounced, Silent
<1>11. ASSUME NEW j \in Items PROVE FinalKept(j)'
  BY ItemIs DEF RealtimeInv, FinalKept, engine, StartGranted, item, Current, Told
<1>12. ASSUME NEW j \in Items PROVE DeltaKept(j)'
  BY ItemIs DEF RealtimeInv, DeltaKept, engine, StartGranted, item, Current, Carried
<1>13. ASSUME NEW j \in Items PROVE SlotKept(j)'
  BY ItemIs
     DEF RealtimeInv, SlotKept, Waiting, engine, StartGranted, Goto, item, Last,
         Current
<1> QED
  BY <1>1, <1>2, <1>3, <1>4, <1>5, <1>6, <1>7, <1>8, <1>9, <1>10, <1>11, <1>12, <1>13
     DEF RealtimeInv, Types


LEMMA BrokenKeeps ==
  ASSUME RealtimeInv, NEW c \in Conns, Broken(c)
  PROVE  RealtimeInv'
<1>1. /\ pc[c] = "broken" /\ pc' = [pc EXCEPT ![c] = "closed"]
      /\ UNCHANGED <<why, started, worker, outcome, text>>
  BY DEF Broken, Goto
<1>2. CASE ~HasItem(c)
  <2>1. Still(c)
    BY <1>2, <1>1 DEF Still, Untouched, Broken, item
  <2> QED
    BY <1>2, <1>1, <2>1, StillKeeps DEF RealtimeInv, Types, ConnectionTypes
<1>3. CASE HasItem(c)
  <2>1. /\ It(c) \in Items /\ Current(It(c)) /\ cur[c] # 0 /\ cur' = [cur EXCEPT ![c] = 0]
        /\ updates' = [updates EXCEPT ![It(c)] = <<>>]
        /\ slot' = IF Waiting(It(c)) THEN None ELSE slot
    BY <1>3, ItemIs
       DEF RealtimeInv, Types, Current, HasItem, Broken, DropItem, DropTurn
  <2>2. DropItem(c)
    BY <1>3 DEF Broken
  <2> USE <1>1, <2>1, <2>2, <1>3, ItemIs, DropItemIs
  <2>3. ASSUME NEW j \in Items, j # It(c)
        PROVE  /\ updates'[j] = updates[j] /\ shown'[j] = shown[j] /\ finals'[j] = finals[j]
               /\ kind'[j] = kind[j] /\ finalized'[j] = finalized[j]
    <3>1. updates'[j] = updates[j]
      BY <2>3 DEF RealtimeInv, Types, UpdateTypes
    <3>2. /\ shown'[j] = shown[j] /\ finals'[j] = finals[j] /\ kind'[j] = kind[j]
          /\ finalized'[j] = finalized[j]
      <4>1. Types
        BY DEF RealtimeInv
      <4> QED
        BY ONLY <1>3, <2>2, <2>3, <4>1, DropItemIs
    <3> QED
      BY <3>1, <3>2
  <2>4. ConnectionTypes'
    BY DEF RealtimeInv, Types, ConnectionTypes, Places
  <2>5. ItemTypes' /\ EngineTypes'
    BY DEF RealtimeInv, Types, ItemTypes, EngineTypes
  <2>6. UpdateTypes'
    BY DEF RealtimeInv, Types, UpdateTypes
  <2>7. slot' \in Items \cup {None}
    BY DEF RealtimeInv
  <2>8. \A d \in Conns : Numbered(d)'
    BY DEF RealtimeInv, Types, ConnectionTypes, Numbered
  <2>9. ASSUME NEW j \in Items PROVE ItemKept(j)'
    BY DEF RealtimeInv, Types, ConnectionTypes, ItemKept, Current
  <2>10. ASSUME NEW j \in Items PROVE WorkerKept(j)'
    <3>1. CASE j = It(c)
      BY <3>1
         DEF RealtimeInv, Types, ConnectionTypes, UpdateTypes, WorkerKept, Waiting,
             Current, Last
    <3>2. CASE j # It(c)
      <4>0. Current(j)' <=> Current(j)
        BY <3>2 DEF RealtimeInv, Types, ConnectionTypes, Current
      <4>1. /\ Current(j)' <=> Current(j)
            /\ Waiting(j)' <=> Waiting(j)
            /\ updates'[j] = updates[j] /\ shown'[j] = shown[j] /\ finals'[j] = finals[j]
            /\ kind'[j] = kind[j]
        BY ONLY <2>3, <3>2, <4>0 DEF Waiting
      <4>2. /\ (Last(j)' <=> Last(j)) /\ (j[1] # c => pc'[j[1]] = pc[j[1]])
            /\ (j[1] = c => ~Current(j))
        BY <3>2 DEF RealtimeInv, Types, ConnectionTypes, Last, Current
      <4> QED
        BY <4>1, <4>2 DEF RealtimeInv, WorkerKept
    <3> QED
      BY <3>1, <3>2
  <2>11. ASSUME NEW j \in Items PROVE ChannelKept(j)'
    BY DEF RealtimeInv, Types, ConnectionTypes, UpdateTypes, ChannelKept, Ordered,
       Current, Last
  <2>12. ASSUME NEW j \in Items PROVE Announced(j)'
    <3>1. CASE j = It(c)
      <4>1. updates'[j] = <<>> /\ shown'[j] = 0 /\ finals'[j] = 0 /\ text[j] \in Nat
        BY <3>1 DEF RealtimeInv, Types, UpdateTypes, EngineTypes
      <4> QED
        BY ONLY <4>1, <1>1 DEF Announced, Unannounced, Silent
    <3>2. CASE j # It(c)
      <4>1. /\ updates'[j] = updates[j] /\ shown'[j] = shown[j]
            /\ finals'[j] = finals[j] /\ Announced(j)
        BY <2>3, <3>2 DEF RealtimeInv
      <4> QED
        BY ONLY <4>1, <1>1 DEF Announced, Unannounced, Silent
    <3> QED
      BY <3>1, <3>2
  <2>13. ASSUME NEW j \in Items PROVE FinalKept(j)'
    <3>1. CASE j = It(c)
      <4>1. updates'[j] = <<>> /\ finals'[j] = 0 /\ ~Current(j)'
        BY <3>1 DEF RealtimeInv, Types, ConnectionTypes, UpdateTypes, Current
      <4> QED
        BY ONLY <4>1 DEF FinalKept
    <3>2. CASE j # It(c)
      <4>1. /\ updates'[j] = updates[j] /\ finals'[j] = finals[j] /\ worker'[j] = worker[j]
            /\ FinalKept(j)
        BY <2>3, <3>2 DEF RealtimeInv
      <4>2. Current(j)' <=> Current(j)
        BY <3>2 DEF RealtimeInv, Types, ConnectionTypes, Current
      <4> QED
        BY ONLY <4>1, <4>2 DEF FinalKept, Told
    <3> QED
      BY <3>1, <3>2
  <2>14. ASSUME NEW j \in Items PROVE DeltaKept(j)'
    <3>1. CASE j = It(c)
      BY <3>1
         DEF RealtimeInv, Types, ConnectionTypes, UpdateTypes, DeltaKept, Carried,
             Current
    <3>2. CASE j # It(c)
      BY <3>2
         DEF RealtimeInv, Types, ConnectionTypes, UpdateTypes, DeltaKept, Carried,
             Current
    <3> QED
      BY <3>1, <3>2
  <2>15. ASSUME NEW j \in Items PROVE SlotKept(j)'
    <3>1. CASE j = It(c)
      BY <3>1
         DEF RealtimeInv, Types, ConnectionTypes, SlotKept, WorkerKept, Waiting,
             Streaming, Current, Last
    <3>2. CASE j # It(c)
      <4>1. slot' = j <=> slot = j
        BY <3>2 DEF RealtimeInv, Types, SlotKept
      <4>2. Current(j)' <=> Current(j)
        BY <3>2 DEF RealtimeInv, Types, ConnectionTypes, Current
      <4>3. (pc[j[1]] \in {"start", "bind"} /\ Last(j))'
            <=> pc[j[1]] \in {"start", "bind"} /\ Last(j)
        BY DEF RealtimeInv, Types, ConnectionTypes, Last
      <4>4. Waiting(j)' <=> Waiting(j)
        BY ONLY <2>3, <3>2 DEF Waiting
      <4> QED
        BY <3>2, <4>1, <4>2, <4>3, <4>4 DEF RealtimeInv, SlotKept
    <3> QED
      BY <3>1, <3>2
  <2> QED
    BY <2>4, <2>5, <2>6, <2>7, <2>8, <2>9, <2>10, <2>11, <2>12, <2>13, <2>14, <2>15
       DEF RealtimeInv, Types
<1> QED
  BY <1>2, <1>3


LEMMA SameItem ==
  ASSUME RealtimeInv, NEW j \in Items,
         kind'[j] = kind[j], committed'[j] = committed[j],
         finalized'[j] = finalized[j], shown'[j] = shown[j],
         finals'[j] = finals[j], worker'[j] = worker[j], outcome'[j] = outcome[j],
         text'[j] = text[j], open'[j] = open[j], updates'[j] = updates[j],
         slot' = j <=> slot = j, Current(j)' <=> Current(j), Last(j)' <=> Last(j),
         pc'[j[1]] \in {"start", "bind"} <=> pc[j[1]] \in {"start", "bind"},
         worker[j] # "none" \/ updates[j] # <<>> => Current(j) \/ pc'[j[1]] = pc[j[1]]
  PROVE  /\ ItemKept(j)' /\ WorkerKept(j)' /\ ChannelKept(j)' /\ Announced(j)'
         /\ FinalKept(j)' /\ DeltaKept(j)' /\ SlotKept(j)'
<1>1. /\ ItemKept(j) /\ WorkerKept(j) /\ ChannelKept(j) /\ Announced(j)
      /\ FinalKept(j) /\ DeltaKept(j) /\ SlotKept(j)
  BY DEF RealtimeInv
<1>2. ItemKept(j)' /\ WorkerKept(j)' /\ SlotKept(j)'
  BY <1>1 DEF ItemKept, WorkerKept, SlotKept, Waiting
<1>3. ChannelKept(j)'
  BY <1>1 DEF ChannelKept, Ordered
<1>4. Announced(j)'
  BY <1>1 DEF Announced, Unannounced, Silent
<1>5. FinalKept(j)' /\ DeltaKept(j)'
  BY <1>1 DEF FinalKept, Told, DeltaKept, Carried
<1> QED
  BY <1>2, <1>3, <1>4, <1>5


LEMMA DeliverIs ==
  ASSUME RealtimeInv, NEW c \in Conns, Deliver(c)
  PROVE  /\ It(c) \in Items /\ Current(It(c)) /\ cur[c] # 0
         /\ updates[It(c)] \in Seq(Texts) /\ updates[It(c)] # <<>>
         /\ updates' = [updates EXCEPT ![It(c)] = Tail(updates[It(c)])]
         /\ UNCHANGED <<why, started, worker, outcome, text, slot>>
         /\ pc[c] \in {"serve"} \cup Handled
         /\ pc' = pc \/ pc' = [pc EXCEPT ![c] = "broken"]
         /\ LET u == updates[It(c)][1]
            IN \/ /\ u[1] = "partial"
                  /\ shown' = [shown EXCEPT ![It(c)] = IF u[2] > @ THEN u[2] ELSE @]
                  /\ UNCHANGED <<cur, kind, committed, finalized, finals, open>>
               \/ /\ u[1] \in Ending
                  /\ finals' = [finals EXCEPT ![It(c)] = @ + 1]
                  /\ UNCHANGED <<cur, kind, committed, finalized, shown, open>>
               \/ u[1] = "ended" /\ DropItem(c)
<1>1. /\ It(c) \in Items /\ Current(It(c)) /\ cur[c] # 0
      /\ updates[It(c)] \in Seq(Texts) /\ updates[It(c)] # <<>>
  BY ItemIs DEF RealtimeInv, Types, UpdateTypes, Deliver, Listens, HasItem, Current
<1>2. Head(updates[It(c)]) = updates[It(c)][1]
  BY <1>1, Shrunk
<1>3. pc[c] \in {"serve"} \cup Handled
  BY DEF Deliver, Listens, Settling
<1>4. pc' = pc \/ pc' = [pc EXCEPT ![c] = "broken"]
  <2>1. pc = [pc EXCEPT ![c] = pc[c]]
    BY DEF RealtimeInv, Types, ConnectionTypes
  <2> QED
    BY <2>1, Zenon DEF Deliver, Sent, Goto
<1>5. UNCHANGED <<why, started, worker, outcome, text, slot>>
  BY DEF Deliver
<1>6. updates' = [updates EXCEPT ![It(c)] = Tail(updates[It(c)])]
  BY DEF Deliver
<1> QED
  BY <1>1, <1>2, <1>3, <1>4, <1>5, <1>6 DEF Deliver, Ending


LEMMA DeliverKeeps ==
  ASSUME RealtimeInv, NEW c \in Conns, Deliver(c)
  PROVE  RealtimeInv'
<1>1. PICK i \in Items : i = It(c)
  BY DeliverIs
<1>2. i \in Items /\ i[1] = c /\ i[2] = cur[c]
  BY <1>1, ItemIs DEF RealtimeInv, Types
<1>3. PICK q \in Seq(Texts) : q = updates[i]
  BY <1>1, DeliverIs
<1> DEFINE t == Tail(q)
<1>4. Types /\ ConnectionTypes /\ ItemTypes /\ EngineTypes /\ UpdateTypes
  BY DEF RealtimeInv, Types
<1>5. /\ Current(i) /\ cur[c] # 0 /\ q \in Seq(Texts) /\ q # <<>>
      /\ updates' = [updates EXCEPT ![i] = t]
      /\ UNCHANGED <<why, started, worker, outcome, text, slot>>
      /\ pc[c] \in {"serve"} \cup Handled
      /\ pc' = pc \/ pc' = [pc EXCEPT ![c] = "broken"]
  BY <1>1, <1>3, DeliverIs
<1>6. /\ t \in Seq(Texts) /\ Len(t) = Len(q) - 1 /\ 1 \in 1 .. Len(q)
      /\ Len(q) \in 1 .. Len(q)
      /\ q[1] \in Texts
      /\ \A k \in 1 .. Len(t) : t[k] = q[k + 1] /\ k + 1 \in 1 .. Len(q)
      /\ Len(q) = 1 => t = <<>>
      /\ Ordered(t)
  <2>1. Ordered(q)
    BY <1>2, <1>3 DEF RealtimeInv, ChannelKept
  <2> QED
    BY <2>1, <1>5, Shrunk, OrderedShrunk
<1>7. updates'[i] = t /\ \A j \in Items \ {i} : updates'[j] = updates[j]
  BY <1>4, <1>5, <1>2, <1>3 DEF UpdateTypes
<1>8. /\ \A k \in 1 .. Len(t) :
           /\ q[1][1] # "ended"
           /\ q[1][1] \in Ending => t[k][1] = "ended"
           /\ q[1][1] = "partial" /\ t[k][1] = "partial" => q[1][2] <= t[k][2]
      /\ q[1][1] = "ended" => Len(q) = 1
  <2>1. Ordered(q)
    BY <1>2, <1>3 DEF RealtimeInv, ChannelKept
  <2> HIDE DEF t
  <2>2. q[1][1] = "ended" => Len(q) = 1
    BY <1>6, <2>1 DEF Ordered
  <2>3. ASSUME NEW k \in 1 .. Len(t)
        PROVE  /\ q[1][1] # "ended"
               /\ q[1][1] \in Ending => t[k][1] = "ended"
               /\ q[1][1] = "partial" /\ t[k][1] = "partial" => q[1][2] <= t[k][2]
    <3>1. k + 1 \in 1 .. Len(q) /\ t[k] = q[k + 1] /\ 1 < k + 1
      BY <1>6
    <3> QED
      BY <1>6, <3>1, <2>1 DEF Ordered
  <2> QED
    BY <2>2, <2>3
<1>9. /\ ItemKept(i) /\ WorkerKept(i) /\ ChannelKept(i) /\ Announced(i)
      /\ FinalKept(i) /\ DeltaKept(i) /\ SlotKept(i)
  BY <1>2 DEF RealtimeInv
<1>10. UpdateTypes' /\ EngineTypes' /\ ConnectionTypes' /\ slot' \in Items \cup {None}
  <2>1. UpdateTypes'
    BY <1>4, <1>5, <1>6 DEF UpdateTypes
  <2>2. open' \in [Items -> BOOLEAN] /\ cur' \in [Conns -> {0, 1, 2}]
    <3>1. CASE UNCHANGED <<open, cur>>
      BY <1>4, <3>1 DEF EngineTypes, ConnectionTypes
    <3>2. CASE DropItem(c)
      BY <1>4, <1>5, <3>2, DropItemIs DEF ConnectionTypes, HasItem
    <3> QED
      BY <3>1, <3>2, DeliverIs
  <2>3. EngineTypes' /\ slot' \in Items \cup {None}
    BY <1>4, <1>5, <2>2 DEF RealtimeInv, EngineTypes
  <2>4. ConnectionTypes'
    BY <1>4, <1>5, <2>2 DEF ConnectionTypes, Places
  <2> QED
    BY <2>1, <2>3, <2>4
<1>11. ASSUME NEW j \in Items, j # i
      PROVE  /\ ItemKept(j)' /\ WorkerKept(j)' /\ ChannelKept(j)' /\ Announced(j)'
             /\ FinalKept(j)' /\ DeltaKept(j)' /\ SlotKept(j)'
  <2>1. /\ kind'[j] = kind[j] /\ finalized'[j] = finalized[j] /\ shown'[j] = shown[j]
        /\ finals'[j] = finals[j] /\ open'[j] = open[j] /\ committed'[j] = committed[j]
    <3>1. CASE UNCHANGED <<kind, committed, finalized, open>>
      BY <1>1, <1>4, <1>2, <1>11, <3>1, DeliverIs, DropItemIs DEF ItemTypes, HasItem
    <3>2. CASE DropItem(c)
      BY <1>1, <1>4, <1>11, <1>5, <3>2, DropItemIs DEF HasItem
    <3> QED
      BY <3>1, <3>2, DeliverIs
  <2>2. (Current(j)' <=> Current(j)) /\ (Last(j)' <=> Last(j))
    <3>1. cur' = cur \/ cur' = [cur EXCEPT ![c] = 0]
      BY <1>4, DeliverIs, DropItemIs DEF HasItem
    <3> QED
      BY <1>1, <1>4, <1>5, <1>11, <3>1, ItemIs DEF Current, Last, ConnectionTypes
  <2>3. /\ pc'[j[1]] \in {"start", "bind"} <=> pc[j[1]] \in {"start", "bind"}
        /\ worker[j] # "none" \/ updates[j] # <<>> => Current(j) \/ pc'[j[1]] = pc[j[1]]
    <3>1. j[1] = c => worker[j] = "none" /\ updates[j] = <<>>
      BY <1>4, <1>5, <1>11, <1>2, ItemIs
         DEF RealtimeInv, Numbered, WorkerKept, ChannelKept, Current, Last, Handled
    <3> QED
      BY <1>4, <1>5, <3>1, ItemIs DEF ConnectionTypes, Handled
  <2> QED
    BY <1>5, <1>7, <1>11, <2>1, <2>2, <2>3, SameItem
<1> HIDE DEF t
<1>12. CASE q[1][1] = "partial"
  <2>1. /\ shown' = [shown EXCEPT ![i] = IF q[1][2] > @ THEN q[1][2] ELSE @]
        /\ UNCHANGED <<cur, kind, committed, finalized, finals, open>>
    BY <1>1, <1>12, DeliverIs, <1>3 DEF Ending, DropItem
  <2>2. ItemTypes'
    BY <1>4, <1>2, <1>6, <2>1 DEF ItemTypes, Texts
  <2>3. \A d \in Conns : Numbered(d)'
    BY <1>4, <1>5, <2>1 DEF RealtimeInv, ConnectionTypes, Numbered, Handled
  <2>4. shown'[i] = (IF q[1][2] > shown[i] THEN q[1][2] ELSE shown[i]) /\ Current(i)'
    BY <1>4, <1>2, <1>5, <2>1 DEF ItemTypes, Current
  <2>5. ItemKept(i)' /\ SlotKept(i)'
    <3>1. ItemKept(i)'
      BY <1>5, <1>9, <2>1, <2>4 DEF ItemKept
    <3>2. SlotKept(i)'
      BY <1>4, <1>2, <1>5, <1>9, <2>1, <2>4
         DEF SlotKept, Current, Last, Waiting, ConnectionTypes, Handled
    <3> QED
      BY <3>1, <3>2
  <2>6. ~Waiting(i)
    BY <1>5, <1>9, <1>3 DEF WorkerKept
  <2>7. WorkerKept(i)' /\ ChannelKept(i)'
    BY <1>4, <1>2, <1>5, <1>9, <1>6, <1>7, <2>1, <2>4, <2>6
       DEF WorkerKept, ChannelKept, Current, Last, Waiting
  <2>8. Announced(i)'
    <3>1. ASSUME Unannounced(i) PROVE Unannounced(i)'
      BY SMTT(20), <1>5, <1>6, <1>7, <2>1, <2>4, <3>1, <1>3 DEF Unannounced
    <3>2. worker[i] = "end" => \A k \in 1 .. Len(t) : t[k][1] # "ended"
      BY <1>6, <1>9, <1>3 DEF Announced
    <3>3. ~Silent(i)
      BY <1>5, <1>3 DEF Silent
    <3> QED
      BY <1>5, <1>9, <1>7, <3>1, <3>2, <3>3 DEF Announced
  <2>9. ASSUME NEW n \in 0 .. Len(t), Told(i, n + 1)
        PROVE  Told(i, n)'
    <3>1. CASE finals[i] = 1
      BY <3>1, <2>1 DEF Told
    <3>2. CASE \E k \in 1 .. n + 1 : q[k][1] \in Ending
      <4>1. PICK k \in 1 .. n + 1 : q[k][1] \in Ending
        BY <3>2
      <4>2. k # 1
        BY <1>12, <4>1 DEF Ending
      <4>3. k - 1 \in 1 .. n /\ k - 1 \in 1 .. Len(t) /\ (k - 1) + 1 = k
        BY <4>2, <1>6
      <4>4. t[k - 1] = q[k]
        BY <4>3, <1>6
      <4> QED
        BY <1>7, <4>1, <4>3, <4>4 DEF Told
    <3> QED
      BY <2>9, <3>1, <3>2, <1>3 DEF Told
  <2>10. FinalKept(i)'
    <3>1. \A k \in 1 .. Len(t) : t[k][1] \in Ending => finals[i] = 0
      BY <1>9, <1>6, <1>3 DEF FinalKept
    <3>2. worker[i] = "end" => Told(i, Len(t))'
      BY <1>5, <1>9, <1>6, <2>9, <1>3 DEF FinalKept
    <3>3. ASSUME NEW k \in 1 .. Len(t), t[k][1] = "ended" PROVE Told(i, k - 1)'
      <4>1. /\ k + 1 \in 1 .. Len(q) /\ (k + 1) - 1 = k /\ k - 1 \in 0 .. Len(t)
            /\ (k - 1) + 1 = k
        BY <1>6
      <4>2. Told(i, k)
        BY <1>5, <1>9, <1>6, <3>3, <4>1, <1>3 DEF FinalKept
      <4> QED
        BY <2>9, <4>1, <4>2
    <3> QED
      BY <1>5, <1>9, <1>7, <2>1, <3>1, <3>2, <3>3 DEF FinalKept
  <2>11. DeltaKept(i)'
    <3>1. ASSUME NEW k \in 1 .. Len(t), t[k][1] = "partial" PROVE shown'[i] <= t[k][2]
      BY <1>5, <1>2, <1>9, <1>8, <1>6, <1>12, <2>4, <3>1, <1>3 DEF DeltaKept
    <3>2. ASSUME NEW n \in 0 .. Len(t), NEW x, Carried(i, n + 1, x) PROVE Carried(i, n, x)'
      <4>1. q[n + 1] = <<"partial", x>>
        BY <3>2, <1>3 DEF Carried
      <4>2. CASE n = 0
        <5>1. shown[i] <= q[1][2]
          BY <1>5, <1>9, <1>6, <1>12, <1>3 DEF DeltaKept
        <5>2. shown'[i] = q[1][2]
          BY <1>4, <1>6, <2>4, <5>1 DEF ItemTypes, Texts
        <5> QED
          BY <4>1, <4>2, <5>2 DEF Carried
      <4>3. CASE n # 0
        BY <1>6, <1>7, <4>1, <4>3 DEF Carried
      <4> QED
        BY <4>2, <4>3
    <3>3. ASSUME NEW k \in 1 .. Len(t), t[k][1] = "completed"
          PROVE  Carried(i, k - 1, t[k][2])'
      <4>1. k + 1 \in 1 .. Len(q) /\ (k + 1) - 1 = (k - 1) + 1 /\ k - 1 \in 0 .. Len(t)
        BY <1>6
      <4>2. Carried(i, (k - 1) + 1, t[k][2])
        BY <1>5, <1>9, <1>3, <1>6, <3>3, <4>1 DEF DeltaKept
      <4> QED
        BY <3>2, <4>1, <4>2
    <3>4. worker[i] \in {"release", "announce"} /\ outcome[i] = "completed"
            => Carried(i, Len(t), text[i])'
      <4>1. Len(t) \in 0 .. Len(t) /\ Len(q) = Len(t) + 1
        BY <1>6
      <4>2. worker[i] \in {"release", "announce"} /\ outcome[i] = "completed"
              => Carried(i, Len(t) + 1, text[i])
        BY <1>5, <1>9, <1>3, <4>1 DEF DeltaKept
      <4> QED
        BY <1>5, <3>2, <4>1, <4>2
    <3> QED
      BY <1>5, <1>7, <3>1, <3>3, <3>4 DEF DeltaKept
  <2> QED
    BY <1>10, <1>11, <2>2, <2>3, <2>5, <2>7, <2>8, <2>10, <2>11, <1>4
       DEF RealtimeInv, Types
<1>13. CASE q[1][1] \in Ending
  <2>1. /\ finals' = [finals EXCEPT ![i] = @ + 1]
        /\ UNCHANGED <<cur, kind, committed, finalized, shown, open>>
    BY <1>1, <1>13, <1>3, DeliverIs DEF Ending, DropItem
  <2>2. /\ finals[i] = 0 /\ worker[i] \notin Streaming \cup {"announce"}
        /\ ~Waiting(i)
    BY <1>9, <1>3, <1>6, <1>13
       DEF FinalKept, Announced, Unannounced, Ending, WorkerKept
  <2>3. ItemTypes'
    BY <1>4, <1>2, <2>1 DEF ItemTypes
  <2>4. \A d \in Conns : Numbered(d)'
    BY <1>4, <1>5, <2>1 DEF RealtimeInv, ConnectionTypes, Numbered, Handled
  <2>5. finals'[i] = 1 /\ Current(i)'
    BY <1>4, <1>2, <1>5, <2>1, <2>2 DEF ItemTypes, Current
  <2>6. ItemKept(i)' /\ SlotKept(i)'
    BY <1>4, <1>2, <1>5, <1>9, <2>1, <2>5
       DEF ItemKept, SlotKept, Current, Last, Waiting, ConnectionTypes, Handled
  <2>7. WorkerKept(i)' /\ ChannelKept(i)'
    BY <1>4, <1>2, <1>5, <1>9, <1>6, <1>7, <2>1, <2>5, <2>2
       DEF WorkerKept, ChannelKept, Current, Last, Waiting
  <2>8. Announced(i)'
    <3>1. worker[i] = "end" => \A k \in 1 .. Len(t) : t[k][1] # "ended"
      BY <1>6, <1>9, <1>3 DEF Announced
    <3> QED
      BY <1>5, <1>9, <1>7, <1>3, <2>2, <3>1 DEF Announced, Silent, Streaming
  <2>9. \A k \in 1 .. Len(t) : t[k][1] = "ended"
    BY <1>13, <1>8
  <2>10. FinalKept(i)'
    BY <1>7, <2>5, <2>9 DEF FinalKept, Told, Ending
  <2>11. DeltaKept(i)'
    BY <1>5, <1>7, <2>2, <2>9 DEF DeltaKept, Streaming
  <2> QED
    BY <1>10, <1>11, <2>3, <2>4, <2>6, <2>7, <2>8, <2>10, <2>11, <1>4
       DEF RealtimeInv, Types
<1>14. CASE q[1][1] = "ended"
  <2>1. DropItem(c)
    BY <1>1, <1>14, <1>3, DeliverIs DEF Ending
  <2>2. worker[i] = "none" /\ ~Waiting(i) /\ t = <<>>
    BY <1>4, <1>9, <1>3, <1>6, <1>8, <1>14, <1>2
       DEF EngineTypes, Announced, Unannounced, Streaming, WorkerKept
  <2>3. /\ cur' = [cur EXCEPT ![c] = 0] /\ ItemTypes'
        /\ kind'[i] = "none" /\ ~finalized'[i] /\ shown'[i] = 0 /\ finals'[i] = 0 /\ ~open'[i]
    BY <1>4, <1>5, <1>1, <2>1, DropItemIs DEF HasItem, ItemTypes
  <2>4. \A d \in Conns : Numbered(d)'
    BY <1>4, <1>5, <2>3 DEF RealtimeInv, ConnectionTypes, Numbered, Handled
  <2>5. ~Current(i)'
    BY <1>4, <1>2, <2>3, ItemIs DEF ConnectionTypes, Current
  <2>6. /\ ItemKept(i)' /\ WorkerKept(i)' /\ ChannelKept(i)' /\ Announced(i)'
        /\ FinalKept(i)' /\ DeltaKept(i)'
    BY <1>5, <1>7, <2>3, <2>2, <2>5
       DEF ItemKept, WorkerKept, ChannelKept, Ordered, Announced, Streaming,
           FinalKept, DeltaKept, Waiting
  <2>7. SlotKept(i)'
    BY <1>4, <1>2, <1>5, <1>9, <2>3, <2>2, <2>5
       DEF SlotKept, Streaming, ConnectionTypes, Handled
  <2> QED
    BY <1>10, <1>11, <2>3, <2>4, <2>6, <2>7, <1>4 DEF RealtimeInv, Types
<1> QED
  BY <1>6, <1>12, <1>13, <1>14 DEF Texts, Ending
(* One more update in the channel, if it is listened to.                   *)

LEMMA Says ==
  ASSUME RealtimeInv, NEW i \in Items, NEW u \in Texts, Tell(i, <<u>>)
  PROVE  /\ \A j \in Items \ {i} : updates'[j] = updates[j]
         /\ UpdateTypes'
         /\ \/ updates'[i] = Append(updates[i], u) /\ Heard(i)
            \/ ~Current(i) /\ updates'[i] = <<>> /\ updates[i] = <<>>
<1>1. Types /\ updates[i] \in Seq(Texts) /\ ChannelKept(i)
  BY DEF RealtimeInv, Types, UpdateTypes
<1>2. updates[i] \o <<u>> = Append(updates[i], u) /\ Append(updates[i], u) \in Seq(Texts)
  BY <1>1, Grown
<1>3. UpdateTypes'
  BY <1>1, <1>2 DEF Types, UpdateTypes, Tell
<1>4. /\ \A j \in Items \ {i} : updates'[j] = updates[j]
      /\ updates'[i] = IF Heard(i) THEN updates[i] \o <<u>> ELSE updates[i]
  BY <1>1, Telling
<1> QED
  BY <1>1, <1>2, <1>3, <1>4, HeardIs DEF ChannelKept

(* A partial text: the worker has text' by now.                            *)

LEMMA SaysPartial ==
  ASSUME RealtimeInv, NEW i \in Items, worker[i] = "recv", connection' = connection,
         UNCHANGED <<kind, committed, finalized, shown, finals>>,
         text'[i] \in Nat, text[i] <= text'[i], Tell(i, << <<"partial", text'[i]>> >>),
         \/ worker'[i] = "recv"
         \/ worker'[i] = "release" /\ outcome'[i] \in {"failed", "completed"}
  PROVE  /\ UpdateTypes' /\ \A j \in Items \ {i} : updates'[j] = updates[j]
         /\ ChannelKept(i)' /\ Announced(i)' /\ FinalKept(i)' /\ DeltaKept(i)'
<1>1. PICK q \in Seq(Texts) : q = updates[i]
  BY DEF RealtimeInv, Types, UpdateTypes
<1>2. PICK n \in Nat : n = text'[i]
  OBVIOUS
<1>3. PICK u \in Texts : u = <<"partial", n>>
  BY DEF Texts
<1>4. Tell(i, <<u>>)
  BY <1>2, <1>3
<1>5. /\ UpdateTypes' /\ \A j \in Items \ {i} : updates'[j] = updates[j]
      /\ \/ updates'[i] = Append(q, u) /\ (Current(i) \/ (pc[i[1]] = "discard" /\ Last(i)))
         \/ ~Current(i) /\ updates'[i] = <<>> /\ q = <<>>
  <2>1. Types
    BY DEF RealtimeInv
  <2>2. Heard(i) <=> Current(i) \/ (pc[i[1]] = "discard" /\ Last(i))
    BY <2>1, HeardIs
  <2> QED
    BY <1>1, <1>4, <2>2, Says
<1>6. /\ ItemKept(i) /\ WorkerKept(i) /\ ChannelKept(i) /\ Announced(i)
      /\ FinalKept(i) /\ DeltaKept(i) /\ shown[i] \in Nat /\ text[i] \in Nat
  BY DEF RealtimeInv, Types, ItemTypes, EngineTypes
<1>7. /\ finals[i] = 0 /\ shown[i] <= n
      /\ \A k \in 1 .. Len(q) : q[k][1] = "partial" /\ q[k][2] <= n /\ q[k] \in Texts
  <2>1. \A k \in 1 .. Len(q) : q[k] \in Texts /\ q[k][2] \in Nat
    BY DEF Texts
  <2>2. Unannounced(i)
    BY <1>6 DEF Announced, Streaming
  <2> QED
    BY <1>1, <1>2, <1>6, <2>1, <2>2 DEF Unannounced
<1>8. CASE updates'[i] = Append(q, u) /\ (Current(i) \/ (pc[i[1]] = "discard" /\ Last(i)))
  <2>1. /\ Len(Append(q, u)) = Len(q) + 1 /\ Append(q, u) # <<>> /\ Len(q) \in Nat
        /\ \A k \in 1 .. Len(q) : Append(q, u)[k] = q[k]
        /\ Append(q, u)[Len(q) + 1] = u
    BY Grown
  <2> DEFINE p == Append(q, u)
  <2>2. Ordered(p)
    BY <1>1, <1>3, <1>6, <1>7, OrderedGrown DEF ChannelKept, Ending
  <2> HIDE DEF p
  <2>3. \A k \in 1 .. Len(p) : p[k][1] = "partial" /\ p[k][2] <= n
    BY <1>3, <1>7, <2>1 DEF p
  <2>4. ChannelKept(i)'
    BY <1>8, <2>2 DEF ChannelKept, Current, Last, connection, p
  <2>5. Announced(i)'
    BY <1>2, <1>7, <1>8, <2>3 DEF Announced, Unannounced, p
  <2>6. FinalKept(i)'
    BY <1>6, <1>8, <2>3 DEF FinalKept, Ending, p
  <2>7. DeltaKept(i)'
    <3>1. ASSUME Current(i) PROVE \A k \in 1 .. Len(p) : shown[i] <= p[k][2]
      BY <1>1, <1>3, <1>6, <1>7, <2>1, <3>1 DEF DeltaKept, p
    <3>2. Carried(i, Len(p), text[i])'
      BY <1>2, <1>3, <1>8, <2>1 DEF Carried, p
    <3> QED
      BY <1>6, <1>8, <2>3, <3>1, <3>2 DEF DeltaKept, Current, connection, p
  <2> QED
    BY <1>5, <2>4, <2>5, <2>6, <2>7
<1>9. CASE ~Current(i) /\ updates'[i] = <<>> /\ q = <<>>
  <2>1. ~Current(i)'
    BY <1>9 DEF Current, connection
  <2> QED
    BY <1>2, <1>5, <1>6, <1>7, <1>9, <2>1
       DEF ChannelKept, Ordered, Announced, Unannounced, Silent, FinalKept, DeltaKept
<1> QED
  BY <1>5, <1>8, <1>9


LEMMA WorkerStep ==
  ASSUME RealtimeInv, NEW i \in Items, connection' = connection,
         UNCHANGED <<kind, committed, finalized, shown, finals, open>>,
         EngineTypes', UpdateTypes', slot' = slot \/ (slot = i /\ slot' = None),
         \A j \in Items \ {i} :
           /\ worker'[j] = worker[j] /\ outcome'[j] = outcome[j]
           /\ text'[j] = text[j] /\ updates'[j] = updates[j],
         WorkerKept(i)', ChannelKept(i)', Announced(i)', FinalKept(i)', DeltaKept(i)',
         SlotKept(i)'
  PROVE  RealtimeInv'
<1>1. UNCHANGED <<pc, why, cur, started>>
  BY DEF connection
<1>2. Types' /\ slot' \in Items \cup {None}
  BY <1>1 DEF RealtimeInv, Types, ConnectionTypes, ItemTypes
<1>3. \A d \in Conns : Numbered(d)'
  BY <1>1 DEF RealtimeInv, Numbered
<1>4. ItemKept(i)'
  BY <1>1 DEF RealtimeInv, ItemKept, Current
<1>5. ASSUME NEW j \in Items \ {i}
      PROVE  /\ ItemKept(j)' /\ WorkerKept(j)' /\ ChannelKept(j)' /\ Announced(j)'
             /\ FinalKept(j)' /\ DeltaKept(j)' /\ SlotKept(j)'
  <2>1. (Current(j)' <=> Current(j)) /\ (Last(j)' <=> Last(j))
    BY <1>1 DEF Current, Last
  <2>2. slot' = j <=> slot = j
    BY NobodyAssumption DEF Items
  <2> QED
    BY <1>1, <2>1, <2>2, SameItem
<1> QED
  BY <1>2, <1>3, <1>4, <1>5 DEF RealtimeInv

(* While it works, an item's worker owns the slot.                         *)

LEMMA AtWork ==
  ASSUME RealtimeInv, NEW i \in Items
  PROVE  /\ Types /\ ItemKept(i) /\ WorkerKept(i) /\ ChannelKept(i) /\ Announced(i)
         /\ FinalKept(i) /\ DeltaKept(i) /\ SlotKept(i)
         /\ worker[i] \in Streaming => slot = i
         /\ worker[i] \in Streaming \cup {"announce"} => Unannounced(i)
         /\ worker[i] # "none" => /\ ~Waiting(i)
                                  /\ ~(pc[i[1]] \in {"start", "bind"} /\ Last(i))
<1>1. /\ Types /\ ItemKept(i) /\ WorkerKept(i) /\ ChannelKept(i) /\ Announced(i)
      /\ FinalKept(i) /\ DeltaKept(i) /\ SlotKept(i)
  BY DEF RealtimeInv
<1>2. worker[i] \in Streaming => slot = i
  BY <1>1 DEF SlotKept
<1>3. worker[i] \in Streaming \cup {"announce"} => Unannounced(i)
  BY <1>1 DEF Announced
<1>4. worker[i] # "none" => ~Waiting(i)
  BY <1>1 DEF WorkerKept
<1>5. worker[i] # "none" => ~(pc[i[1]] \in {"start", "bind"} /\ Last(i))
  <2>1. i[1] \in Conns /\ i[2] \in {1, 2}
    BY <1>1, ItemIs DEF Types
  <2>2. Numbered(i[1])
    BY <2>1 DEF RealtimeInv
  <2> QED
    BY <1>1, <2>1, <2>2 DEF WorkerKept, Current, Numbered
<1> QED
  BY <1>1, <1>2, <1>3, <1>4, <1>5

(* The end of a run: what it will announce is settled.                     *)

LEMMA Stops ==
  ASSUME RealtimeInv, NEW i \in Items, worker[i] \in Streaming \ {"release"},
         connection' = connection, UNCHANGED <<kind, committed, finalized, shown, finals, open, updates,
                                               slot>>,
         NEW how \in {"none", "failed", "translated"}, Over(i, how),
         how = "none" => ~Current(i), how = "translated" => Silent(i),
         text' = text \/ (Silent(i) /\ \E n \in {0, 1} : text' = [text EXCEPT ![i] = n])
  PROVE  RealtimeInv'
<1>1. Types /\ EngineTypes /\ UpdateTypes /\ Unannounced(i) /\ WorkerKept(i) /\ ChannelKept(i)
      /\ Announced(i) /\ FinalKept(i) /\ DeltaKept(i) /\ SlotKept(i) /\ ~Waiting(i)
  BY AtWork DEF Types, Streaming
<1>2. /\ worker' = [worker EXCEPT ![i] = "release"]
      /\ outcome' = [outcome EXCEPT ![i] = how]
      /\ UNCHANGED <<pc, cur, started>>
  BY DEF Over, Work, connection
<1>3. /\ worker'[i] = "release" /\ outcome'[i] = how
      /\ \A j \in Items \ {i} : worker'[j] = worker[j] /\ outcome'[j] = outcome[j]
      /\ \A j \in Items \ {i} : text'[j] = text[j]
      /\ EngineTypes'
  BY <1>1, <1>2 DEF EngineTypes
<1>4. Unannounced(i)' /\ (Silent(i)' <=> Silent(i))
  <2>1. CASE text' = text
    BY <1>1, <2>1 DEF Unannounced, Silent
  <2>2. CASE Silent(i) /\ \E n \in {0, 1} : text' = [text EXCEPT ![i] = n]
    <3>1. text'[i] \in {0, 1}
      BY <1>1, <2>2 DEF EngineTypes
    <3> QED
      BY <1>1, <2>2, <3>1 DEF Unannounced, Silent
  <2> QED
    BY <2>1, <2>2
<1>5. WorkerKept(i)' /\ ChannelKept(i)' /\ SlotKept(i)'
  BY <1>1, <1>2, <1>3
     DEF WorkerKept, ChannelKept, Ordered, SlotKept, Streaming, Current, Last, Waiting
<1>6. Announced(i)' /\ FinalKept(i)' /\ DeltaKept(i)'
  BY <1>1, <1>2, <1>3, <1>4
     DEF Announced, FinalKept, Told, DeltaKept, Carried, Current
<1> QED
  BY <1>1, <1>2, <1>3, <1>5, <1>6, WorkerStep DEF UpdateTypes


LEMMA HearKeeps ==
  ASSUME RealtimeInv, NEW i \in Items, Hear(i)
  PROVE  RealtimeInv'
<1>1. Types /\ ConnectionTypes /\ ItemTypes /\ EngineTypes /\ UpdateTypes
  BY DEF RealtimeInv, Types
<1>2. /\ worker[i] = "recv" /\ connection' = connection
      /\ UNCHANGED <<kind, committed, finalized, shown, finals, open, slot>>
      /\ \/ /\ \E n \in {0, 1} : text' = [text EXCEPT ![i] = @ + n]
            /\ Tell(i, << <<"partial", text'[i]>> >>)
            /\ UNCHANGED <<worker, outcome>>
         \/ UNCHANGED <<worker, outcome, text, updates>>
         \/ Over(i, "failed") /\ UNCHANGED <<text, updates>>
  BY DEF Hear, At, item
<1>3. CASE /\ \E n \in {0, 1} : text' = [text EXCEPT ![i] = @ + n]
           /\ Tell(i, << <<"partial", text'[i]>> >>)
           /\ UNCHANGED <<worker, outcome>>
  <2>1. /\ text' \in [Items -> Nat] /\ text[i] <= text'[i]
        /\ \A j \in Items \ {i} : text'[j] = text[j]
    BY <1>1, <1>3 DEF EngineTypes
  <2>2. /\ UpdateTypes' /\ \A j \in Items \ {i} : updates'[j] = updates[j]
        /\ ChannelKept(i)' /\ Announced(i)' /\ FinalKept(i)' /\ DeltaKept(i)'
    BY <1>2, <1>3, <2>1, SaysPartial
  <2>3. EngineTypes'
    BY <1>1, <1>2, <1>3, <2>1 DEF EngineTypes
  <2>4. WorkerKept(i)' /\ SlotKept(i)'
    BY <1>2, <1>3, AtWork DEF WorkerKept, SlotKept, Current, Last, Waiting, connection
  <2> QED
    BY <1>2, <1>3, <2>1, <2>2, <2>3, <2>4, WorkerStep
<1>4. CASE UNCHANGED <<worker, outcome, text, updates>>
  <2>1. WorkerKept(i)' /\ ChannelKept(i)' /\ SlotKept(i)'
    BY <1>2, <1>4, AtWork
       DEF WorkerKept, ChannelKept, Ordered, SlotKept, Current, Last, Waiting,
           connection
  <2>2. Announced(i)' /\ FinalKept(i)' /\ DeltaKept(i)'
    BY <1>2, <1>4, AtWork
       DEF Announced, Unannounced, Silent, FinalKept, Told, DeltaKept, Carried,
           Current, connection
  <2> QED
    BY <1>1, <1>2, <1>4, <2>1, <2>2, WorkerStep DEF EngineTypes, UpdateTypes
<1>5. CASE Over(i, "failed") /\ UNCHANGED <<text, updates>>
  BY <1>2, <1>5, Stops DEF Streaming
<1> QED
  BY <1>2, <1>3, <1>4, <1>5


LEMMA FinalizeStreamKeeps ==
  ASSUME RealtimeInv, NEW i \in Items, FinalizeStream(i)
  PROVE  RealtimeInv'
<1>1. Types /\ ConnectionTypes /\ ItemTypes /\ EngineTypes /\ UpdateTypes
  BY DEF RealtimeInv, Types
<1>2. /\ worker[i] = "recv" /\ connection' = connection
      /\ UNCHANGED <<kind, committed, finalized, shown, finals, open, slot>>
      /\ \/ /\ \E n \in {0, 1} : text' = [text EXCEPT ![i] = @ + n]
            /\ Tell(i, << <<"partial", text'[i]>> >>)
            /\ Over(i, "completed")
         \/ Over(i, "failed") /\ UNCHANGED <<text, updates>>
  BY DEF FinalizeStream, At, item
<1>3. CASE /\ \E n \in {0, 1} : text' = [text EXCEPT ![i] = @ + n]
           /\ Tell(i, << <<"partial", text'[i]>> >>)
           /\ Over(i, "completed")
  <2>1. /\ text' \in [Items -> Nat] /\ text[i] <= text'[i]
        /\ \A j \in Items \ {i} : text'[j] = text[j]
    BY <1>1, <1>3 DEF EngineTypes
  <2>2. /\ worker'[i] = "release" /\ outcome'[i] = "completed"
        /\ \A j \in Items \ {i} : worker'[j] = worker[j] /\ outcome'[j] = outcome[j]
        /\ EngineTypes'
    BY <1>1, <1>2, <1>3, <2>1 DEF EngineTypes, Over, Work
  <2>3. /\ UpdateTypes' /\ \A j \in Items \ {i} : updates'[j] = updates[j]
        /\ ChannelKept(i)' /\ Announced(i)' /\ FinalKept(i)' /\ DeltaKept(i)'
    BY <1>2, <1>3, <2>1, <2>2, SaysPartial
  <2>4. WorkerKept(i)' /\ SlotKept(i)'
    BY <1>2, <2>2, AtWork
       DEF WorkerKept, SlotKept, Streaming, Current, Last, Waiting, connection
  <2> QED
    BY <1>2, <2>1, <2>2, <2>3, <2>4, WorkerStep
<1>4. CASE Over(i, "failed") /\ UNCHANGED <<text, updates>>
  BY <1>2, <1>4, Stops DEF Streaming
<1> QED
  BY <1>2, <1>3, <1>4


LEMMA AbandonedKeeps ==
  ASSUME RealtimeInv, NEW i \in Items, Abandoned(i)
  PROVE  RealtimeInv'
<1>1. worker[i] = "recv" /\ ~open[i] /\ Over(i, "none") /\ connection' = connection
      /\ UNCHANGED <<kind, committed, finalized, shown, finals, open, updates, slot, text>>
  BY DEF Abandoned, At, item
<1>2. ~Current(i)
  BY <1>1, AtWork DEF WorkerKept, ItemKept
<1> QED
  BY <1>1, <1>2, Stops DEF Streaming


LEMMA TurnWaitsKeeps ==
  ASSUME RealtimeInv, NEW i \in Items, TurnWaits(i)
  PROVE  RealtimeInv'
<1>1. /\ worker[i] = "queue" /\ connection' = connection
      /\ UNCHANGED <<kind, committed, finalized, shown, finals, open, updates, slot, text>>
      /\ Over(i, "translated") \/ Over(i, "failed") \/ (Work(i, "run") /\ UNCHANGED outcome)
  BY DEF TurnWaits, At, item
<1>2. Silent(i)
  BY <1>1, AtWork DEF Announced
<1>3. CASE Over(i, "translated") \/ Over(i, "failed")
  BY <1>1, <1>2, <1>3, Stops DEF Streaming
<1>4. CASE Work(i, "run") /\ UNCHANGED outcome
  <2>1. /\ worker'[i] = "run" /\ \A j \in Items \ {i} : worker'[j] = worker[j]
        /\ EngineTypes' /\ UpdateTypes'
    BY <1>1, <1>4, AtWork DEF Types, EngineTypes, UpdateTypes, Work
  <2>2. WorkerKept(i)' /\ ChannelKept(i)' /\ SlotKept(i)'
    BY <1>1, <1>4, <2>1, AtWork
       DEF WorkerKept, ChannelKept, Ordered, SlotKept, Streaming, Current, Last,
           Waiting, connection
  <2>3. Announced(i)' /\ FinalKept(i)' /\ DeltaKept(i)'
    BY <1>1, <1>2, <1>4, <2>1, AtWork
       DEF Announced, Unannounced, Silent, Streaming, FinalKept, Told, DeltaKept,
           Carried, Current, connection
  <2> QED
    BY <1>1, <1>4, <2>1, <2>2, <2>3, WorkerStep
<1> QED
  BY <1>1, <1>3, <1>4


LEMMA TurnRunsKeeps ==
  ASSUME RealtimeInv, NEW i \in Items, TurnRuns(i)
  PROVE  RealtimeInv'
<1>1. /\ worker[i] = "run" /\ connection' = connection
      /\ UNCHANGED <<kind, committed, finalized, shown, finals, open, updates, slot>>
      /\ \/ Over(i, "translated") /\ \E n \in {0, 1} : text' = [text EXCEPT ![i] = n]
         \/ Over(i, "failed") /\ UNCHANGED text
  BY DEF TurnRuns, At, item
<1>2. Silent(i)
  BY <1>1, AtWork DEF Announced
<1> QED
  BY <1>1, <1>2, Stops DEF Streaming


LEMMA BeginKeeps ==
  ASSUME RealtimeInv, NEW i \in Items, Begin(i)
  PROVE  RealtimeInv'
<1>1. /\ worker[i] = "begin" /\ connection' = connection
      /\ UNCHANGED <<kind, committed, finalized, shown, finals, open, updates, slot, text>>
      /\ Over(i, "failed") \/ (Work(i, "recv") /\ UNCHANGED outcome)
  BY DEF Begin, At, item
<1>2. CASE Over(i, "failed")
  BY <1>1, <1>2, Stops DEF Streaming
<1>3. CASE Work(i, "recv") /\ UNCHANGED outcome
  <2>1. /\ worker'[i] = "recv" /\ \A j \in Items \ {i} : worker'[j] = worker[j]
        /\ EngineTypes' /\ UpdateTypes'
    BY <1>1, <1>3, AtWork DEF Types, EngineTypes, UpdateTypes, Work
  <2>2. WorkerKept(i)' /\ ChannelKept(i)' /\ SlotKept(i)'
    BY <1>1, <1>3, <2>1, AtWork
       DEF WorkerKept, ChannelKept, Ordered, SlotKept, Streaming, Current, Last,
           Waiting, connection
  <2>3. Announced(i)' /\ FinalKept(i)' /\ DeltaKept(i)'
    BY <1>1, <1>3, <2>1, AtWork
       DEF Announced, Unannounced, Silent, Streaming, FinalKept, Told, DeltaKept,
           Carried, Current, connection
  <2> QED
    BY <1>1, <1>3, <2>1, <2>2, <2>3, WorkerStep
<1> QED
  BY <1>1, <1>2, <1>3


LEMMA ReleaseSlotKeeps ==
  ASSUME RealtimeInv, NEW i \in Items, ReleaseSlot(i)
  PROVE  RealtimeInv'
<1>1. /\ worker[i] = "release" /\ connection' = connection /\ slot' = None
      /\ Work(i, "announce")
      /\ UNCHANGED <<kind, committed, finalized, shown, finals, outcome, open, updates, text>>
  BY DEF ReleaseSlot, At, item
<1>2. slot = i /\ i # None
  BY <1>1, AtWork, NobodyAssumption DEF Streaming, Items
<1>3. /\ worker'[i] = "announce" /\ \A j \in Items \ {i} : worker'[j] = worker[j]
      /\ EngineTypes' /\ UpdateTypes'
  BY <1>1, AtWork DEF Types, EngineTypes, UpdateTypes, Work
<1>4. WorkerKept(i)' /\ ChannelKept(i)'
  BY <1>1, <1>3, AtWork
     DEF WorkerKept, ChannelKept, Ordered, Current, Last, Waiting, connection
<1>5. SlotKept(i)'
  BY <1>1, <1>2, <1>3, AtWork
     DEF SlotKept, Streaming, Current, Last, Waiting, connection
<1>6. Announced(i)' /\ FinalKept(i)' /\ DeltaKept(i)'
  BY <1>1, <1>3, AtWork
     DEF Announced, Unannounced, Silent, Streaming, FinalKept, Told, DeltaKept,
         Carried, Current, connection
<1> QED
  BY <1>1, <1>2, <1>3, <1>4, <1>5, <1>6, WorkerStep
LEMMA AnnounceKeeps ==
  ASSUME RealtimeInv, NEW i \in Items, Announce(i)
  PROVE  RealtimeInv'
<1>1. /\ worker[i] = "announce" /\ connection' = connection /\ Work(i, "end")
      /\ UNCHANGED <<kind, committed, finalized, shown, finals, outcome, open, slot, text>>
      /\ Tell(i, Announcement(i))
  BY DEF Announce, At, item
<1>2. /\ Types /\ EngineTypes /\ WorkerKept(i) /\ ChannelKept(i) /\ Announced(i)
      /\ FinalKept(i)
      /\ DeltaKept(i) /\ SlotKept(i) /\ Unannounced(i) /\ ~Waiting(i)
      /\ ~(pc[i[1]] \in {"start", "bind"} /\ Last(i))
  BY <1>1, AtWork DEF Types
<1>3. /\ worker'[i] = "end" /\ \A j \in Items \ {i} : worker'[j] = worker[j]
      /\ EngineTypes'
  BY <1>1, <1>2 DEF EngineTypes, Work
<1>4. WorkerKept(i)' /\ SlotKept(i)'
  <2>1. ~Waiting(i)' /\ (Current(i)' <=> Current(i)) /\ (Last(i)' <=> Last(i)) /\ UNCHANGED pc
    BY <1>1, <1>2 DEF Waiting, Current, Last, connection
  <2> QED
    BY <1>1, <1>2, <1>3, <2>1 DEF WorkerKept, SlotKept, Streaming
<1>5. PICK q \in Seq(Texts) : q = updates[i]
  BY <1>2 DEF Types, UpdateTypes
<1>6. /\ finals[i] = 0 /\ Ordered(q) /\ text[i] \in Nat
      /\ \A k \in 1 .. Len(q) : q[k][1] = "partial" /\ q[k][2] <= text[i]
      /\ q # <<>> => Current(i) \/ (pc[i[1]] = "discard" /\ Last(i))
  BY <1>2, <1>5 DEF Unannounced, ChannelKept, EngineTypes
<1>7. (Current(i)' <=> Current(i)) /\ (Last(i)' <=> Last(i)) /\ UNCHANGED pc
  BY <1>1 DEF Current, Last, connection
<1>8. \A j \in Items \ {i} : updates'[j] = updates[j]
  BY <1>1, <1>2, Telling
(* What the channel needs to hold in the end.                              *)
<1>9. SUFFICES /\ UpdateTypes' /\ ChannelKept(i)' /\ Announced(i)' /\ FinalKept(i)'
               /\ DeltaKept(i)'
  BY <1>1, <1>3, <1>4, <1>8, WorkerStep
<1>10. CASE Announcement(i) = << >>
  <2>1. updates'[i] = q /\ UpdateTypes'
    <3>1. q \o << >> = q
      BY Grown
    <3> QED
      BY <1>1, <1>2, <1>5, <1>10, <3>1, Telling DEF Types, UpdateTypes, Tell
  <2>2. ~Current(i)
    <3>1. /\ Announcement(i) # << <<"failed", 0>> >>
          /\ Announcement(i) # << <<"completed", text[i]>> >>
          /\ Announcement(i) # << <<"completed", 0>> >>
          /\ Announcement(i) # << <<"partial", text[i]>> >> \o << <<"completed", text[i]>> >>
      BY <1>10
    <3>2. outcome[i] = "none"
      BY <1>2, <3>1, AnnouncementIs
    <3> QED
      BY <1>1, <1>2, <3>2 DEF WorkerKept
  <2>3. ChannelKept(i)'
    BY <1>6, <1>7, <2>1 DEF ChannelKept
  <2>4. Announced(i)' /\ FinalKept(i)' /\ DeltaKept(i)'
    BY <1>1, <1>3, <1>6, <1>7, <2>1, <2>2
       DEF Announced, Streaming, FinalKept, DeltaKept, Ending
  <2> QED
    BY <2>1, <2>3, <2>4
<1>11. ASSUME NEW u \in Texts, u[1] \in Ending, Announcement(i) = <<u>>,
              Current(i) /\ u[1] = "completed" => Carried(i, Len(q), u[2])
       PROVE  /\ UpdateTypes' /\ ChannelKept(i)' /\ Announced(i)' /\ FinalKept(i)'
              /\ DeltaKept(i)'
  <2> DEFINE p == Append(q, u)
  <2>1. /\ UpdateTypes'
        /\ \/ updates'[i] = p /\ (Current(i) \/ (pc[i[1]] = "discard" /\ Last(i)))
           \/ ~Current(i) /\ updates'[i] = <<>>
    <3>1. Tell(i, <<u>>)
      BY <1>1, <1>11
    <3>2. /\ UpdateTypes'
          /\ \/ updates'[i] = p /\ Heard(i)
             \/ ~Current(i) /\ updates'[i] = <<>>
      BY <1>5, <3>1, Says
    <3> QED
      BY <1>2, <3>2, HeardIs
  <2>2. /\ Len(p) = Len(q) + 1 /\ p # <<>> /\ Len(q) \in Nat /\ p[Len(q) + 1] = u
        /\ \A k \in 1 .. Len(q) : p[k] = q[k]
    BY Grown
  <2>3. Ordered(p)
    BY <1>6, <1>11, OrderedGrown DEF Ending
  <2> HIDE DEF p
  <2>4. /\ \A k \in 1 .. Len(p) :
             p[k][1] # "ended" /\ (k # Len(p) => p[k] = q[k] /\ p[k][1] = "partial")
        /\ Len(p) \in 1 .. Len(p) /\ p[Len(p)] = u
    BY <1>6, <1>11, <2>2 DEF Ending
  <2>5. CASE updates'[i] = p /\ (Current(i) \/ (pc[i[1]] = "discard" /\ Last(i)))
    <3>1. ChannelKept(i)'
      BY <1>7, <2>3, <2>5 DEF ChannelKept
    <3>2. Announced(i)'
      BY <1>3, <2>4, <2>5 DEF Announced, Streaming
    <3>3. FinalKept(i)'
      BY <1>1, <1>6, <1>11, <2>4, <2>5 DEF FinalKept, Told
    <3>4. DeltaKept(i)'
      <4>1. ASSUME Current(i), NEW k \in 1 .. Len(p), p[k][1] = "partial"
            PROVE  shown[i] <= p[k][2]
        <5>1. k \in 1 .. Len(q) /\ p[k] = q[k]
          BY <1>11, <2>2, <2>4, <4>1 DEF Ending
        <5> QED
          BY <1>2, <1>5, <4>1, <5>1 DEF DeltaKept
      <4>2. ASSUME Current(i), NEW k \in 1 .. Len(p), p[k][1] = "completed"
            PROVE  Carried(i, k - 1, p[k][2])'
        <5>1. k = Len(q) + 1 /\ p[k] = u /\ k - 1 = Len(q)
          BY <2>2, <2>4, <4>2 DEF Ending
        <5>2. Carried(i, Len(q), u[2])
          BY <1>11, <4>2, <5>1
        <5>3. CASE Len(q) = 0
          BY <1>1, <5>1, <5>2, <5>3 DEF Carried
        <5>4. CASE Len(q) # 0
          BY <1>5, <2>2, <2>5, <5>1, <5>2, <5>4 DEF Carried
        <5> QED
          BY <5>3, <5>4
      <4> QED
        BY <1>1, <1>3, <1>7, <2>5, <4>1, <4>2 DEF DeltaKept
    <3> QED
      BY <2>1, <3>1, <3>2, <3>3, <3>4
  <2>6. CASE ~Current(i) /\ updates'[i] = <<>>
    BY <1>1, <1>3, <1>6, <1>7, <2>1, <2>6
       DEF ChannelKept, Ordered, Announced, Streaming, FinalKept, DeltaKept
  <2> QED
    BY <2>1, <2>5, <2>6
<1>12. CASE outcome[i] = "failed" /\ Announcement(i) = << <<"failed", 0>> >>
  <2>1. PICK u \in Texts : u = <<"failed", 0>>
    BY DEF Texts
  <2> QED
    BY <1>11, <1>12, <2>1 DEF Ending
<1>13. CASE outcome[i] = "completed" /\ Announcement(i) = << <<"completed", text[i]>> >>
  <2>1. PICK u \in Texts : u = <<"completed", text[i]>>
    BY <1>6 DEF Texts
  <2>2. Current(i) => Carried(i, Len(q), u[2])
    BY <1>1, <1>2, <1>5, <1>13, <2>1 DEF DeltaKept
  <2> QED
    BY <1>11, <1>13, <2>1, <2>2 DEF Ending
<1>14. CASE /\ outcome[i] = "translated" /\ text[i] = 0
            /\ Announcement(i) = << <<"completed", 0>> >>
  <2>1. PICK u \in Texts : u = <<"completed", 0>>
    BY DEF Texts
  <2>2. Carried(i, Len(q), u[2])
    BY <1>1, <1>2, <1>5, <1>14, <2>1 DEF Announced, Silent, Carried
  <2> QED
    BY <1>11, <1>14, <2>1, <2>2 DEF Ending
<1>15. CASE outcome[i] = "translated"
            /\ Announcement(i) = << <<"partial", text[i]>> >> \o << <<"completed",
            text[i]>> >>
  <2>1. PICK u \in Texts, v \in Texts : /\ u = <<"partial", text[i]>>
                                        /\ v = <<"completed", text[i]>>
    BY <1>6 DEF Texts
  <2>2. q = <<>> /\ shown[i] = 0
    BY <1>1, <1>2, <1>5, <1>15 DEF Announced, Silent
  <2> DEFINE p == Append(<<u>>, v)
  <2>3. /\ p \in Seq(Texts) /\ Len(p) = 2 /\ p[1] = u /\ p[2] = v /\ p # <<>>
        /\ q \o (<<u>> \o <<v>>) = p
    BY <2>2
  <2> HIDE DEF p
  <2>4. \A k \in 1 .. Len(p) : (k = 1 /\ p[k] = u) \/ (k = 2 /\ p[k] = v)
    BY <2>3
  <2>5. /\ UpdateTypes'
        /\ updates'[i] = IF Heard(i) THEN p ELSE q
    <3>1. Tell(i, <<u>> \o <<v>>)
      BY <1>1, <1>15, <2>1
    <3>2. updates' \in [Items -> Seq(Texts)]
      BY <1>2, <1>5, <2>3, <3>1 DEF Types, UpdateTypes, Tell
    <3>3. updates'[i] = IF Heard(i) THEN p ELSE q
      BY <1>2, <1>5, <2>3, <3>1 DEF Types, UpdateTypes, Tell
    <3> QED
      BY <3>2, <3>3 DEF UpdateTypes
  <2>6. Heard(i) <=> Current(i) \/ (pc[i[1]] = "discard" /\ Last(i))
    BY <1>2, HeardIs
  <2>7. CASE Heard(i)
    <3>1. updates'[i] = p
      BY <2>5, <2>7
    <3>2. Ordered(p)
      BY <2>1, <2>3, <2>4 DEF Ordered, Ending
    <3>3. ChannelKept(i)'
      BY <1>7, <2>6, <2>7, <3>1, <3>2 DEF ChannelKept
    <3>4. Announced(i)'
      BY <1>3, <2>1, <2>4, <3>1 DEF Announced, Streaming
    <3>5. FinalKept(i)'
      <4>1. finals'[i] = 0
        BY <1>1, <1>6
      <4>2. \A k \in 1 .. Len(p) : p[k][1] # "ended"
        BY <2>1, <2>4
      <4>3. 2 \in 1 .. Len(p) /\ p[2][1] \in Ending
        BY <2>1, <2>3 DEF Ending
      <4>4. Told(i, Len(updates[i]))'
        BY <3>1, <4>3 DEF Told
      <4> QED
        BY <3>1, <4>1, <4>2, <4>4 DEF FinalKept
    <3>6. DeltaKept(i)'
      <4>1. shown'[i] = 0 /\ worker'[i] = "end" /\ text[i] \in Nat
        BY <1>1, <1>3, <1>6, <2>2
      <4>2. \A k \in 1 .. Len(p) : p[k][1] = "partial" => shown'[i] <= p[k][2]
        BY <2>1, <2>4, <4>1
      <4>3. ASSUME NEW k \in 1 .. Len(p), p[k][1] = "completed"
            PROVE  Carried(i, k - 1, p[k][2])'
        <5>1. k - 1 = 1 /\ p[k][2] = text[i]
          BY <2>1, <2>4, <4>3
        <5>2. updates'[i][1] = <<"partial", text[i]>>
          BY <2>1, <2>3, <3>1
        <5> QED
          BY <5>1, <5>2, <3>1 DEF Carried
      <4> QED
        BY <3>1, <4>1, <4>2, <4>3 DEF DeltaKept
    <3> QED
      BY <2>5, <3>3, <3>4, <3>5, <3>6
  <2>8. CASE ~Heard(i)
    <3>1. updates'[i] = <<>> /\ ~Current(i)
      BY <2>2, <2>5, <2>6, <2>8
    <3> QED
      BY <1>1, <1>3, <1>6, <1>7, <2>5, <3>1
         DEF ChannelKept, Ordered, Announced, Streaming, FinalKept, DeltaKept
  <2> QED
    BY <2>7, <2>8
<1> QED
  BY <1>2, <1>10, <1>12, <1>13, <1>14, <1>15, AnnouncementIs

LEMMA EndKeeps ==
  ASSUME RealtimeInv, NEW i \in Items, End(i)
  PROVE  RealtimeInv'
<1>1. /\ worker[i] = "end" /\ connection' = connection /\ Work(i, "none")
      /\ outcome' = [outcome EXCEPT ![i] = "none"] /\ text' = [text EXCEPT ![i] = 0]
      /\ UNCHANGED <<kind, committed, finalized, shown, finals, open, slot>>
      /\ Tell(i, << <<"ended", 0>> >>)
  BY DEF End, At
<1>2. /\ Types /\ EngineTypes /\ WorkerKept(i) /\ ChannelKept(i) /\ Announced(i)
      /\ FinalKept(i)
      /\ DeltaKept(i) /\ SlotKept(i) /\ ~Waiting(i)
      /\ ~(pc[i[1]] \in {"start", "bind"} /\ Last(i))
  BY <1>1, AtWork DEF Types
<1>3. /\ worker'[i] = "none" /\ EngineTypes'
      /\ \A j \in Items \ {i} :
           worker'[j] = worker[j] /\ outcome'[j] = outcome[j] /\ text'[j] = text[j]
  BY <1>1, <1>2 DEF EngineTypes, Work
<1>4. /\ (Current(i)' <=> Current(i)) /\ (Last(i)' <=> Last(i)) /\ ~Waiting(i)' /\ UNCHANGED pc
  BY <1>1, <1>2 DEF Current, Last, Waiting, connection
<1>5. WorkerKept(i)' /\ SlotKept(i)'
  BY <1>1, <1>2, <1>3, <1>4 DEF WorkerKept, SlotKept, Streaming
<1>6. PICK q \in Seq(Texts) : q = updates[i]
  BY <1>2 DEF Types, UpdateTypes
<1>7. PICK u \in Texts : u = <<"ended", 0>>
  BY DEF Texts
<1>8. /\ \A k \in 1 .. Len(q) : q[k][1] # "ended"
      /\ Ordered(q)
  BY <1>1, <1>2, <1>6 DEF Announced, ChannelKept
<1>9. Tell(i, <<u>>)
  BY <1>1, <1>7
<1>10. /\ UpdateTypes' /\ \A j \in Items \ {i} : updates'[j] = updates[j]
       /\ \/ updates'[i] = Append(q, u) /\ (Current(i) \/ (pc[i[1]] = "discard" /\ Last(i)))
          \/ ~Current(i) /\ updates'[i] = <<>>
  <2>1. Heard(i) <=> Current(i) \/ (pc[i[1]] = "discard" /\ Last(i))
    BY <1>2, HeardIs
  <2> QED
    BY <1>6, <1>9, <2>1, Says
<1> DEFINE p == Append(q, u)
<1>11. /\ Len(p) = Len(q) + 1 /\ p # <<>> /\ Len(q) \in Nat /\ p[Len(q) + 1] = u
       /\ \A k \in 1 .. Len(q) : p[k] = q[k]
  BY Grown
<1>12. Ordered(p)
  BY <1>7, <1>8, OrderedGrown
<1> HIDE DEF p
<1>13. ASSUME NEW k \in 1 .. Len(p)
       PROVE  \/ k \in 1 .. Len(q) /\ p[k] = q[k] /\ p[k][1] # "ended"
              \/ k = Len(q) + 1 /\ p[k][1] = "ended"
  BY <1>7, <1>8, <1>11
<1>14. CASE updates'[i] = p /\ (Current(i) \/ (pc[i[1]] = "discard" /\ Last(i)))
  <2>1. ChannelKept(i)'
    BY <1>4, <1>12, <1>14 DEF ChannelKept
  <2>2. Announced(i)'
    BY <1>3 DEF Announced, Streaming
  <2>3. FinalKept(i)'
    <3>1. \A k \in 1 .. Len(p) : p[k][1] \in Ending => finals[i] = 0
      BY <1>2, <1>6, <1>13 DEF FinalKept, Ending
    <3>2. Current(i) => Told(i, Len(q))'
      <4>1. Current(i) => Told(i, Len(q))
        BY <1>1, <1>2, <1>6 DEF FinalKept
      <4> QED
        BY <1>1, <1>6, <1>11, <1>14, <4>1 DEF Told
    <3>3. ASSUME Current(i), NEW k \in 1 .. Len(p), p[k][1] = "ended" PROVE Told(i, k - 1)'
      <4>1. k - 1 = Len(q)
        BY <1>11, <1>13, <3>3
      <4> QED
        BY <3>2, <3>3, <4>1
    <3> QED
      BY <1>1, <1>2, <1>3, <1>4, <1>14, <3>1, <3>3 DEF FinalKept
  <2>4. DeltaKept(i)'
    <3>1. ASSUME Current(i), NEW k \in 1 .. Len(p), p[k][1] = "partial"
          PROVE  shown[i] <= p[k][2]
      BY <1>2, <1>6, <1>13, <3>1 DEF DeltaKept
    <3>2. ASSUME Current(i), NEW k \in 1 .. Len(p), p[k][1] = "completed"
          PROVE  Carried(i, k - 1, p[k][2])'
      <4>1. /\ k \in 1 .. Len(q) /\ p[k] = q[k]
            /\ (k # 1 => k - 1 \in 1 .. Len(q) /\ p[k - 1] = q[k - 1])
        BY <1>11, <1>13, <3>2
      <4>2. Carried(i, k - 1, p[k][2])
        BY <1>2, <1>6, <3>2, <4>1 DEF DeltaKept
      <4> QED
        BY <1>1, <1>6, <1>14, <4>1, <4>2 DEF Carried
    <3> QED
      BY <1>1, <1>3, <1>4, <1>14, <3>1, <3>2 DEF DeltaKept
  <2> QED
    BY <1>1, <1>3, <1>5, <1>10, <2>1, <2>2, <2>3, <2>4, WorkerStep
<1>15. CASE ~Current(i) /\ updates'[i] = <<>>
  <2>1. ChannelKept(i)' /\ Announced(i)' /\ FinalKept(i)' /\ DeltaKept(i)'
    BY <1>1, <1>2, <1>3, <1>4, <1>15
       DEF ChannelKept, Ordered, Announced, Streaming, FinalKept, DeltaKept
  <2> QED
    BY <1>1, <1>3, <1>5, <1>10, <2>1, WorkerStep
<1> QED
  BY <1>10, <1>14, <1>15 DEF p

-----------------------------------------------------------------------------
LEMMA RealtimeInit == Init => RealtimeInv
<1> SUFFICES ASSUME Init PROVE RealtimeInv
  OBVIOUS
<1>1. Types /\ slot \in Items \cup {None}
  BY DEF Init, Types, ConnectionTypes, ItemTypes, EngineTypes, UpdateTypes, Places
<1>2. ASSUME NEW c \in Conns PROVE Numbered(c)
  BY DEF Init, Numbered
<1>3. ASSUME NEW i \in Items
      PROVE  /\ ItemKept(i) /\ WorkerKept(i) /\ ChannelKept(i) /\ Announced(i)
             /\ FinalKept(i) /\ DeltaKept(i) /\ SlotKept(i)
  <2>1. /\ i[1] \in Conns /\ i[2] \in {1, 2} /\ i # None
        /\ pc[i[1]] = "serve" /\ cur[i[1]] = 0 /\ kind[i] = "none" /\ ~finalized[i]
        /\ shown[i] = 0 /\ finals[i] = 0 /\ worker[i] = "none" /\ text[i] = 0 /\ ~open[i]
        /\ updates[i] = <<>> /\ slot = None
    BY <1>1, ItemIs DEF Init, Types
  <2>2. ~Current(i) /\ ~Waiting(i)
    BY <2>1 DEF Current, Waiting
  <2>3. ItemKept(i) /\ WorkerKept(i) /\ SlotKept(i)
    BY <2>1, <2>2 DEF ItemKept, WorkerKept, SlotKept, Streaming
  <2>4. ChannelKept(i) /\ Announced(i)
    BY <2>1 DEF ChannelKept, Ordered, Announced, Streaming
  <2>5. FinalKept(i) /\ DeltaKept(i)
    BY <2>1, <2>2 DEF FinalKept, DeltaKept
  <2> QED
    BY <2>3, <2>4, <2>5
<1> QED
  BY <1>1, <1>2, <1>3 DEF RealtimeInv

LEMMA WorkerKeeps ==
  ASSUME RealtimeInv, NEW i \in Items, Worker(i)
  PROVE  RealtimeInv'
BY BeginKeeps, HearKeeps, FinalizeStreamKeeps, AbandonedKeeps, TurnWaitsKeeps,
   TurnRunsKeeps, ReleaseSlotKeeps, AnnounceKeeps, EndKeeps
   DEF Worker

LEMMA TaskKeeps ==
  ASSUME RealtimeInv, NEW c \in Conns,
         Reply(c) \/ Receive(c) \/ Idle(c) \/ Leave(c) \/ Task(c)
  PROVE  RealtimeInv'
<1>1. CASE \/ Reply(c) \/ Receive(c) \/ Leave(c) \/ AppendMore(c) \/ Discarded(c)
           \/ ~HasItem(c) /\ (Clear(c) \/ Close(c))
  BY <1>1, StillSteps, StillKeeps
<1>2. CASE HasItem(c) /\ (Clear(c) \/ Close(c) \/ Idle(c))
  BY <1>2, GivesUpSteps, GivesUpKeeps
<1>3. CASE StartItem(c) \/ StartFails(c) \/ StartGranted(c)
           \/ StartStream(c) \/ StartBuffered(c)
  BY <1>3, StartItemKeeps, StartFailsKeeps, StartGrantedKeeps, StartStreamKeeps,
     StartBufferedKeeps
<1>4. CASE Commit(c) \/ Drain(c) \/ Broken(c) \/ Deliver(c)
  BY <1>4, CommitKeeps, DrainKeeps, BrokenKeeps, DeliverKeeps
<1>5. Idle(c) => HasItem(c)
  BY DEF Idle
<1> QED
  BY <1>1, <1>2, <1>3, <1>4, <1>5 DEF Task

LEMMA RealtimeStep == RealtimeInv /\ [Next]_vars => RealtimeInv'
<1> SUFFICES ASSUME RealtimeInv, [Next]_vars PROVE RealtimeInv'
  OBVIOUS
<1>1. ASSUME NEW c \in Conns, Reply(c) \/ Receive(c) \/ Idle(c) \/ Leave(c) \/ Task(c)
      PROVE  RealtimeInv'
  BY <1>1, TaskKeeps
<1>2. ASSUME NEW i \in Items, Worker(i)
      PROVE  RealtimeInv'
  BY <1>2, WorkerKeeps
<1>3. CASE UNCHANGED vars
  <2>1. /\ UNCHANGED <<pc, why, cur, started, kind, committed, finalized, shown, finals>>
        /\ UNCHANGED <<worker, outcome, text, open, updates, slot>>
    BY <1>3 DEF vars, connection, item, engine
  <2>2. Types' /\ slot' \in Items \cup {None}
    BY <2>1
       DEF RealtimeInv, Types, ConnectionTypes, ItemTypes, EngineTypes, UpdateTypes
  <2>3. ASSUME NEW c \in Conns PROVE Numbered(c)'
    BY <2>1 DEF RealtimeInv, Numbered
  <2>4. ASSUME NEW i \in Items
        PROVE  /\ ItemKept(i)' /\ WorkerKept(i)' /\ ChannelKept(i)' /\ Announced(i)'
               /\ FinalKept(i)' /\ DeltaKept(i)' /\ SlotKept(i)'
    <3>1. /\ ItemKept(i) /\ WorkerKept(i) /\ ChannelKept(i) /\ Announced(i)
          /\ FinalKept(i) /\ DeltaKept(i) /\ SlotKept(i)
      BY DEF RealtimeInv
    <3>2. UNCHANGED <<Current(i), Last(i), Waiting(i)>>
      BY <2>1 DEF Current, Last, Waiting
    <3>3. ItemKept(i)' /\ WorkerKept(i)' /\ SlotKept(i)'
      BY <2>1, <3>1, <3>2 DEF ItemKept, WorkerKept, SlotKept
    <3>4. ChannelKept(i)' /\ Announced(i)'
      BY <2>1, <3>1, <3>2 DEF ChannelKept, Announced, Unannounced, Silent
    <3>5. FinalKept(i)'
      BY <2>1, <3>1, <3>2 DEF FinalKept, Told
    <3>6. DeltaKept(i)'
      BY <2>1, <3>1, <3>2 DEF DeltaKept, Carried
    <3> QED
      BY <3>3, <3>4, <3>5, <3>6
  <2> QED
    BY <2>2, <2>3, <2>4 DEF RealtimeInv
<1> QED
  BY <1>1, <1>2, <1>3 DEF Next

LEMMA RealtimeAlways == Spec => []RealtimeInv
<1> QED
  BY RealtimeInit, RealtimeStep, PTL DEF Spec

-----------------------------------------------------------------------------
(* The stream slot is the item's that starts, runs or waits for its commit *)
(* (start_item, stream_worker, discard_item), and free again before the    *)
(* client can hear that an item has ended (announce after the release).    *)
THEOREM SlotFollows == Spec => []SlotFollowsItem
<1>1. ASSUME RealtimeInv, NEW i \in Items
      PROVE  /\ slot = i <=> Holds(i)
             /\ \A k \in 1 .. Len(updates[i]) :
                  updates[i][k][1] \in {"completed", "failed", "ended"} => slot # i
  <2>1. /\ Types /\ WorkerKept(i) /\ ChannelKept(i) /\ Announced(i) /\ SlotKept(i)
        /\ Numbered(i[1])
    BY <1>1, ItemIs DEF RealtimeInv, Types
  <2>2. Holds(i) <=> \/ worker[i] \in Streaming
                     \/ pc[i[1]] \in {"start", "bind"} /\ Last(i)
                     \/ Current(i) /\ Waiting(i)
    BY <2>1, ItemIs DEF Types, Holds, Last, Current
  <2>3. ASSUME NEW k \in 1 .. Len(updates[i]), updates[i][k][1] \in {"completed", "failed",
        "ended"}
        PROVE  slot # i
    <3>1. updates[i] # <<>>
      BY <2>3
    <3>2. worker[i] \notin Streaming
      BY <2>1, <2>3 DEF Announced, Unannounced
    <3>3. ~Waiting(i)
      BY <2>1, <3>1 DEF WorkerKept
    <3>4. ~(pc[i[1]] \in {"start", "bind"} /\ Last(i))
      BY <2>1, <3>1, ItemIs DEF Types, ChannelKept, Numbered, Current, Items
    <3> QED
      BY <2>1, <3>2, <3>3, <3>4 DEF SlotKept
  <2> QED
    BY <2>1, <2>2, <2>3 DEF SlotKept
<1>2. RealtimeInv => SlotFollowsItem
  BY <1>1 DEF SlotFollowsItem
<1> QED
  BY <1>2, RealtimeAlways, PTL

(* Whatever the engine commits, and whenever the client commits: what the  *)
(* deltas sent for an item add up to is the transcript that its `completed`*)
(* event carries (on_update, emit_delta, finalize).                        *)
THEOREM TranscriptIsDeltas == Spec => []DeltasMakeTranscript
<1>1. ASSUME RealtimeInv, NEW c \in Conns, Listens(c), updates[It(c)] # <<>>,
             Head(updates[It(c)])[1] = "completed"
      PROVE  shown[It(c)] = Head(updates[It(c)])[2]
  <2>1. Types
    BY <1>1 DEF RealtimeInv
  <2>2. PICK i \in Items : i = It(c)
    BY <1>1, <2>1, ItemIs DEF Types, Listens, HasItem
  <2>3. Current(i) /\ DeltaKept(i)
    BY <1>1, <2>1, <2>2, ItemIs DEF RealtimeInv, Types, Current
  <2>4. PICK q \in Seq(Texts) : q = updates[i]
    BY <2>1 DEF Types, UpdateTypes
  <2>5. q # <<>> /\ Head(q) = q[1] /\ 1 \in 1 .. Len(q) /\ q[1][1] = "completed"
    BY <1>1, <2>2, <2>4, Shrunk
  <2>6. Carried(i, 1 - 1, q[1][2])
    BY <2>3, <2>4, <2>5 DEF DeltaKept
  <2> QED
    BY <2>2, <2>4, <2>5, <2>6 DEF Carried
<1>2. RealtimeInv => DeltasMakeTranscript
  BY <1>1 DEF DeltasMakeTranscript
<1> QED
  BY <1>2, RealtimeAlways, PTL

(* No item gets two final events, and one that was committed does not go   *)
(* without: its connection drops it only at Ended, which follows the final *)
(* event, when IDLE_TIMEOUT has passed, or when the client is gone.        *)
THEOREM FinalEventIsOne == Spec => OneFinalEvent
<1> DEFINE Answered(c) == HasItem(c) /\ committed[It(c)] /\ cur'[c] = 0
                            => finals[It(c)] = 1 \/ why'[c] \in {"idle", "close"} \/ pc[c] = "broken"
<1>1. ASSUME RealtimeInv, [Next]_vars, NEW c \in Conns, cur[c] # 0, cur'[c] = 0,
             committed[It(c)]
      PROVE  finals[It(c)] = 1 \/ why'[c] \in {"idle", "close"} \/ pc[c] = "broken"
  <2>1. Types /\ HasItem(c)
    BY <1>1 DEF RealtimeInv, HasItem
  <2>2. PICK i \in Items : i = It(c)
    BY <1>1, <2>1, ItemIs DEF Types
  <2>3. cur \in [Conns -> {0, 1, 2}] /\ why \in [Conns -> {"none", "clear", "idle", "close"}]
    BY <2>1 DEF Types, ConnectionTypes
  <2>4. ASSUME NEW d \in Conns, DropItem(d) PROVE d = c
    BY <1>1, <2>3, <2>4 DEF DropItem
  <2>5. ASSUME UNCHANGED cur PROVE FALSE
    BY <1>1, <2>5
  <2>6. CASE UNCHANGED vars
    BY <2>5, <2>6 DEF vars, connection
  <2>7. ASSUME NEW j \in Items, Worker(j) PROVE FALSE
    <3>1. UNCHANGED connection
      BY <2>7
         DEF Worker, Begin, Hear, FinalizeStream, Abandoned, TurnWaits, TurnRuns,
             ReleaseSlot, Announce, End
    <3> QED
      BY <2>5, <3>1 DEF connection
  <2>8. ASSUME NEW d \in Conns, Reply(d) \/ Receive(d) \/ Idle(d) \/ Leave(d) \/ Task(d)
        PROVE  finals[It(c)] = 1 \/ why'[c] \in {"idle", "close"} \/ pc[c] = "broken"
    <3>1. CASE \/ Reply(d) \/ Receive(d) \/ Leave(d) \/ AppendMore(d) \/ Discarded(d)
               \/ ~HasItem(d) /\ (Clear(d) \/ Close(d))
      <4>1. UNCHANGED cur
        BY <1>1, <3>1, StillSteps DEF Still, Untouched
      <4> QED
        BY <2>5, <4>1
    <3>2. CASE StartItem(d) \/ StartFails(d) \/ StartGranted(d) \/ Commit(d) \/ Drain(d)
      <4>1. UNCHANGED cur
        BY <3>2 DEF StartItem, StartFails, StartGranted, Commit, Drain
      <4> QED
        BY <2>5, <4>1
    <3>3. CASE StartStream(d) \/ StartBuffered(d)
      <4>1. cur' = [cur EXCEPT ![d] = started[d]] /\ pc[d] = "bind"
        BY <3>3 DEF StartStream, StartBuffered
      <4>2. started[d] # 0
        BY <1>1, <4>1 DEF RealtimeInv, Numbered
      <4> QED
        BY <1>1, <2>3, <4>1, <4>2
    <3>4. CASE HasItem(d) /\ Clear(d)
      <4>1. d = c /\ ~committed[It(c)]
        BY <2>1, <2>4, <3>4 DEF Clear, Discard, Settled, Settling, Handled
      <4> QED
        BY <1>1, <4>1
    <3>5. CASE HasItem(d) /\ (Close(d) \/ Idle(d))
      <4>1. PICK reason \in {"idle", "close"} : Discard(d, reason)
        BY <3>5 DEF Close, Idle
      <4>2. d = c
        BY <2>4, <4>1 DEF Discard
      <4> QED
        BY <2>3, <4>1, <4>2 DEF Discard
    <3>6. CASE Broken(d)
      <4>1. HasItem(d) \/ UNCHANGED cur
        BY <3>6 DEF Broken
      <4> QED
        BY <2>4, <2>5, <3>6, <4>1 DEF Broken
    <3>7. CASE Deliver(d)
      <4>1. UNCHANGED cur \/ (Head(updates[It(d)])[1] = "ended" /\ DropItem(d))
        BY <3>7 DEF Deliver
      <4>2. d = c /\ Head(updates[i])[1] = "ended" /\ updates[i] # <<>>
        BY <2>2, <2>4, <2>5, <3>7, <4>1 DEF Deliver
      <4>3. PICK q \in Seq(Texts) : q = updates[i]
        BY <2>1 DEF Types, UpdateTypes
      <4>4. q[1][1] = "ended" /\ 1 \in 1 .. Len(q)
        BY <4>2, <4>3, Shrunk
      <4>5. FinalKept(i) /\ Current(i)
        BY <1>1, <2>1, <2>2, ItemIs DEF RealtimeInv, Types, Current
      <4>6. Told(i, 1 - 1)
        BY <4>3, <4>4, <4>5 DEF FinalKept
      <4> QED
        BY <2>2, <4>6 DEF Told
    <3> QED
      BY <2>8, <3>1, <3>2, <3>3, <3>4, <3>5, <3>6, <3>7 DEF Task, Idle
  <2> QED
    BY <1>1, <2>6, <2>7, <2>8 DEF Next
<1>2. ASSUME RealtimeInv, RealtimeInv', [Next]_vars
      PROVE  /\ \A i \in Items : finals'[i] <= 1
             /\ \A c \in Conns : Answered(c)
  <2>1. \A i \in Items : finals'[i] <= 1
    BY <1>2 DEF RealtimeInv, FinalKept
  <2>2. \A c \in Conns : Answered(c)
    BY <1>1, <1>2 DEF HasItem
  <2> QED
    BY <2>1, <2>2
<1>3. RealtimeInv /\ RealtimeInv' /\ [Next]_vars
        => [/\ \A i \in Items : finals'[i] <= 1
            /\ \A c \in Conns : Answered(c)]_vars
  BY <1>2
<1> QED
  BY <1>3, RealtimeAlways, PTL DEF Spec, OneFinalEvent
=============================================================================
