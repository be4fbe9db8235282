------------------------ MODULE InferenceQueueProofs ------------------------
(***************************************************************************)
(* Proofs about InferenceQueue: type correctness and the safety invariants *)
(* of the slot, the waiting lists and the stream lease, for any sets of    *)
(* requests, streams, models and bounds.                                   *)
(***************************************************************************)
EXTENDS InferenceQueue, SequenceTheorems, TLAPS

-----------------------------------------------------------------------------
(* Lists.                                                                  *)

Distinct(q) == \A i, j \in 1..Len(q) : q[i] = q[j] => i = j

(* Appending a caller that has no entry yet keeps entries distinct.        *)
LEMMA AppendEntry ==
  ASSUME NEW S, NEW q \in Seq(S), NEW c \in S
  PROVE  /\ Append(q, c) \in Seq(S)
         /\ Entries(Append(q, c)) = Entries(q) \cup {c}
         /\ Distinct(q) /\ c \notin Entries(q) => Distinct(Append(q, c))
<1>1. /\ Append(q, c) \in Seq(S)
      /\ Len(Append(q, c)) = Len(q) + 1
      /\ \A i \in 1..Len(q) : Append(q, c)[i] = q[i]
      /\ Append(q, c)[Len(q) + 1] = c
  OBVIOUS
<1>2. Len(q) \in Nat
  OBVIOUS
<1>3. Entries(Append(q, c)) = Entries(q) \cup {c}
  BY <1>1, <1>2 DEF Entries
<1>4. Distinct(q) /\ c \notin Entries(q) => Distinct(Append(q, c))
  BY <1>1, <1>2 DEF Entries, Distinct
<1> QED
  BY <1>1, <1>3, <1>4

(* A list after its first k entries were popped keeps exactly the later    *)
(* ones.                                                                   *)
LEMMA PoppedEntries ==
  ASSUME NEW S, NEW q \in Seq(S), NEW k \in Int, Distinct(q)
  PROVE  /\ Popped(q, k) \in Seq(S)
         /\ Distinct(Popped(q, k))
         /\ Entries(Popped(q, k)) = {q[i] : i \in {j \in 1..Len(q) : j > k}}
<1>1. Len(q) \in Nat
  OBVIOUS
<1>2. CASE k <= 0
  <2>1. Popped(q, k) = q
    BY <1>2 DEF Popped
  <2>2. {j \in 1..Len(q) : j > k} = 1..Len(q)
    BY <1>1, <1>2
  <2> QED
    BY <2>1, <2>2 DEF Entries
<1>3. CASE k > 0
  <2> DEFINE p == SubSeq(q, k + 1, Len(q))
  <2>1. /\ p \in Seq(S)
        /\ Len(p) = IF k < Len(q) THEN Len(q) - k ELSE 0
        /\ \A i \in 1..(Len(q) - k) : p[i] = q[k + i]
    BY <1>3
  <2>2. Popped(q, k) = p
    BY <1>3 DEF Popped
  <2> HIDE DEF p
  <2>3. Distinct(p)
    BY <1>1, <1>3, <2>1 DEF Distinct
  <2>4. ASSUME NEW j \in 1..Len(q), j > k
        PROVE  j - k \in 1..Len(p) /\ p[j - k] = q[j]
    BY <1>1, <1>3, <2>1, <2>4
  <2>5. ASSUME NEW i \in 1..Len(p)
        PROVE  k + i \in 1..Len(q) /\ k + i > k /\ p[i] = q[k + i]
    BY <1>1, <1>3, <2>1, <2>5
  <2>6. Entries(p) = {q[i] : i \in {j \in 1..Len(q) : j > k}}
    BY <2>4, <2>5 DEF Entries
  <2> QED
    BY <2>1, <2>2, <2>3, <2>6
<1> QED
  BY <1>2, <1>3

(* retain removes exactly the entry of the caller.                         *)
LEMMA WithoutEntry ==
  ASSUME NEW S, NEW q \in Seq(S), NEW c, Distinct(q)
  PROVE  /\ Without(q, c) \in Seq(S)
         /\ Distinct(Without(q, c))
         /\ Entries(Without(q, c)) = Entries(q) \ {c}
<1>1. Len(q) \in Nat
  OBVIOUS
<1>2. CASE ~ \E j \in 1..Len(q) : q[j] = c
  BY <1>2 DEF Without, Entries
<1>3. CASE \E j \in 1..Len(q) : q[j] = c
  <2> DEFINE i == CHOOSE j \in 1..Len(q) : q[j] = c
             a == SubSeq(q, 1, i - 1)
             b == SubSeq(q, i + 1, Len(q))
  <2>1. i \in 1..Len(q) /\ q[i] = c
    BY <1>3
  <2>2. Without(q, c) = a \o b
    BY <1>3 DEF Without
  <2> HIDE DEF i
  <2>3. /\ a \in Seq(S) /\ Len(a) = i - 1
        /\ \A j \in 1..(i - 1) : a[j] = q[j]
    BY <1>1, <2>1
  <2>4. /\ b \in Seq(S) /\ Len(b) = Len(q) - i
        /\ \A j \in 1..(Len(q) - i) : b[j] = q[i + j]
    BY <1>1, <2>1
  <2> HIDE DEF a, b
  <2>5. /\ a \o b \in Seq(S)
        /\ Len(a \o b) = Len(q) - 1
        /\ \A j \in 1..(Len(q) - 1) :
             (a \o b)[j] = IF j < i THEN q[j] ELSE q[j + 1]
    <3>1. /\ a \o b \in Seq(S)
          /\ Len(a \o b) = Len(a) + Len(b)
          /\ \A j \in 1..(Len(a) + Len(b)) :
               (a \o b)[j] = IF j <= Len(a) THEN a[j] ELSE b[j - Len(a)]
      BY <2>3, <2>4, ConcatProperties, Zenon
    <3>2. Len(a) + Len(b) = Len(q) - 1
      BY <1>1, <2>1, <2>3, <2>4
    <3>3. ASSUME NEW j \in 1..(Len(q) - 1), j < i
          PROVE  (a \o b)[j] = q[j]
      BY <1>1, <2>1, <2>3, <3>1, <3>2, <3>3
    <3>4. ASSUME NEW j \in 1..(Len(q) - 1), ~(j < i)
          PROVE  (a \o b)[j] = q[j + 1]
      <4>1. /\ ~(j <= Len(a))
            /\ j - Len(a) \in 1..(Len(q) - i) /\ i + (j - Len(a)) = j + 1
        BY <1>1, <2>1, <2>3, <3>4
      <4> QED
        BY <2>4, <3>1, <3>2, <4>1
    <3> QED
      BY <3>1, <3>2, <3>3, <3>4
  <2>6. Distinct(a \o b)
    BY <1>1, <2>1, <2>5 DEF Distinct
  <2>7. ASSUME NEW j \in 1..Len(q), q[j] # c
        PROVE  q[j] \in Entries(a \o b)
    <3>1. CASE j < i
      <4>1. j \in 1..(Len(q) - 1)
        BY <1>1, <2>1, <3>1
      <4>2. (a \o b)[j] = q[j]
        BY <2>5, <3>1, <4>1
      <4>3. Len(a \o b) = Len(q) - 1
        BY <2>5
      <4> QED
        BY <4>1, <4>2, <4>3 DEF Entries
    <3>2. CASE j > i
      <4>1. j - 1 \in 1..(Len(q) - 1) /\ ~(j - 1 < i) /\ (j - 1) + 1 = j
        BY <1>1, <2>1, <3>2
      <4> QED
        BY <2>5, <4>1 DEF Entries
    <3> QED
      BY <1>1, <2>1, <2>7, <3>1, <3>2
  <2>8. ASSUME NEW j \in 1..(Len(q) - 1)
        PROVE  (a \o b)[j] \in Entries(q) \ {c}
    BY <1>1, <2>1, <2>5, <2>8 DEF Entries, Distinct
  <2>9. Entries(a \o b) = Entries(q) \ {c}
    BY <2>5, <2>7, <2>8 DEF Entries
  <2> QED
    BY <2>2, <2>5, <2>6, <2>9
<1> QED
  BY <1>2, <1>3

-----------------------------------------------------------------------------
(* The inductive invariant.                                                *)

ListOf(c) == IF ask[c].prio = "interactive" THEN interactive ELSE normal

Listed == Entries(interactive) \cup Entries(normal)

(* NoLostWaiter, list by list instead of over their concatenation.         *)
ListsOK ==
  /\ ~busy => interactive = <<>> /\ normal = <<>>
  /\ Distinct(interactive) /\ Distinct(normal)
  /\ Entries(interactive) \cap Entries(normal) = {}
  /\ \A c \in Callers : pc[c] = "queued" => c \in Entries(ListOf(c))
  /\ \A c \in Listed : pc[c] \in {"queued", "leaving"}

QueueInv == /\ TypeOK
            /\ SlotAccounting
            /\ ListsOK
            /\ OneStream
            /\ LeaseFollowsSlot
            /\ NoRunOnLeasedModel

(* Line is interactive followed by normal.                                 *)
LEMMA LineIndex ==
  ASSUME TypeOK
  PROVE  /\ Line \in Seq(Callers)
         /\ Len(interactive) \in Nat /\ Len(normal) \in Nat
         /\ Len(Line) = Len(interactive) + Len(normal)
         /\ \A k \in 1..Len(Line) :
              Line[k] = IF k <= Len(interactive) THEN interactive[k]
                        ELSE normal[k - Len(interactive)]
         /\ \A k \in 1..Len(interactive) : Line[k] = interactive[k]
         /\ \A k \in 1..Len(normal) : Line[Len(interactive) + k] = normal[k]
<1>1. interactive \in Seq(Callers) /\ normal \in Seq(Callers)
  BY DEF TypeOK
<1>2. /\ Line \in Seq(Callers)
      /\ Len(Line) = Len(interactive) + Len(normal)
      /\ \A k \in 1..(Len(interactive) + Len(normal)) :
           Line[k] = IF k <= Len(interactive) THEN interactive[k]
                     ELSE normal[k - Len(interactive)]
  BY <1>1, ConcatProperties, Zenon DEF Line
<1>3. Len(interactive) \in Nat /\ Len(normal) \in Nat
  BY <1>1
<1>4. ASSUME NEW k \in 1..Len(interactive)
      PROVE  Line[k] = interactive[k]
  BY <1>2, <1>3
<1>5. ASSUME NEW k \in 1..Len(normal)
      PROVE  Line[Len(interactive) + k] = normal[k]
  BY <1>2, <1>3
<1> QED
  BY <1>2, <1>3, <1>4, <1>5

(* The entries of Line are those of both lists.                            *)
LEMMA LineEntries ==
  ASSUME TypeOK
  PROVE  Listed = {Line[k] : k \in 1..Len(Line)} /\ Listed \subseteq Callers
<1>1. ASSUME NEW k \in 1..Len(Line)
      PROVE  Line[k] \in Listed
  BY LineIndex DEF Listed, Entries
<1>2. ASSUME NEW k \in 1..Len(interactive)
      PROVE  \E j \in 1..Len(Line) : Line[j] = interactive[k]
  BY LineIndex
<1>3. ASSUME NEW k \in 1..Len(normal)
      PROVE  \E j \in 1..Len(Line) : Line[j] = normal[k]
  <2>1. Len(interactive) + k \in 1..Len(Line)
    BY LineIndex
  <2> QED
    BY <2>1, LineIndex
<1>4. Listed \subseteq Callers
  BY DEF Listed, Entries, TypeOK
<1> QED
  BY <1>1, <1>2, <1>3, <1>4 DEF Listed, Entries

(* What dropping the permit does to everybody else: at most one live       *)
(* waiter is granted the slot, and only dead entries disappear with it.    *)
LEMMA DropPermitEffect ==
  ASSUME TypeOK, ListsOK,
         NEW c \in Callers, Owns(c), busy,
         NEW after, DropPermit(c, after)
  PROVE  /\ interactive' \in Seq(Callers) /\ normal' \in Seq(Callers)
         /\ Distinct(interactive') /\ Distinct(normal')
         /\ Entries(interactive)' \subseteq Entries(interactive)
         /\ Entries(normal)' \subseteq Entries(normal)
         /\ \/ \E w \in Callers \ {c} :
                 /\ pc[w] = "queued" /\ busy'
                 /\ pc' = [pc EXCEPT ![c] = after, ![w] = "granted"]
                 /\ w \notin Listed'
                 /\ \A d \in Callers \ {w} : pc[d] = "queued" =>
                      /\ d \in Entries(interactive) => d \in Entries(interactive)'
                      /\ d \in Entries(normal) => d \in Entries(normal)'
            \/ /\ busy' = FALSE /\ interactive' = <<>> /\ normal' = <<>>
               /\ pc' = [pc EXCEPT ![c] = after]
               /\ \A d \in Callers : pc[d] # "queued"
<1>1. CASE HandOver(c, after)
  <2>1. PICK k \in 1..Len(Line) :
          /\ FirstLive(k)
          /\ pc' = [pc EXCEPT ![c] = after, ![Line[k]] = "granted"]
          /\ interactive' = Popped(interactive, k)
          /\ normal' = Popped(normal, k - Len(interactive))
          /\ UNCHANGED busy
    BY <1>1 DEF HandOver
  <2> DEFINE w == Line[k]
  <2>2. /\ interactive \in Seq(Callers) /\ normal \in Seq(Callers)
        /\ Distinct(interactive) /\ Distinct(normal)
        /\ Entries(interactive) \cap Entries(normal) = {}
    BY DEF TypeOK, ListsOK
  <2>3. k \in Int /\ k - Len(interactive) \in Int
    BY <2>1, LineIndex
  <2>4. /\ interactive' \in Seq(Callers) /\ Distinct(interactive')
        /\ Entries(interactive') =
             {interactive[i] : i \in {j \in 1..Len(interactive) : j > k}}
    BY <2>1, <2>2, <2>3, PoppedEntries
  <2>5. /\ normal' \in Seq(Callers) /\ Distinct(normal')
        /\ Entries(normal') =
             {normal[i] : i \in {j \in 1..Len(normal) : j > k - Len(interactive)}}
    BY <2>1, <2>2, <2>3, PoppedEntries
  <2>6. /\ w \in Callers /\ pc[w] = "queued" /\ w # c
        /\ \A j \in 1..(k - 1) : pc[Line[j]] # "queued"
    BY <2>1, LineEntries DEF FirstLive, Live, Owns
  <2>7. ASSUME NEW d \in Callers \ {w}, pc[d] = "queued", d \in Entries(interactive)
        PROVE  d \in Entries(interactive')
    <3>1. PICK i \in 1..Len(interactive) : interactive[i] = d
      BY <2>7 DEF Entries
    <3>2. Line[i] = d /\ i # k /\ ~(i \in 1..(k - 1))
      BY <2>6, <2>7, <3>1, LineIndex
    <3>3. i > k
      BY <2>1, <3>2, LineIndex
    <3> QED
      BY <2>4, <3>1, <3>3
  <2>8. ASSUME NEW d \in Callers \ {w}, pc[d] = "queued", d \in Entries(normal)
        PROVE  d \in Entries(normal')
    <3>1. PICK i \in 1..Len(normal) : normal[i] = d
      BY <2>8 DEF Entries
    <3>2. /\ Line[Len(interactive) + i] = d /\ Len(interactive) + i # k
          /\ ~(Len(interactive) + i \in 1..(k - 1))
      BY <2>6, <2>8, <3>1, LineIndex
    <3>3. i > k - Len(interactive)
      BY <2>1, <3>2, LineIndex
    <3> QED
      BY <2>5, <3>1, <3>3
  <2>9. w \notin Entries(interactive') /\ w \notin Entries(normal')
    <3>1. CASE k <= Len(interactive)
      <4>1. k \in 1..Len(interactive) /\ w = interactive[k]
        BY <3>1, LineIndex
      <4>2. w \in Entries(interactive) /\ w \notin Entries(normal)
        BY <2>2, <4>1 DEF Entries
      <4>3. w \notin Entries(normal')
        BY <2>5, <4>2 DEF Entries
      <4>4. w \notin Entries(interactive')
        BY <2>2, <2>4, <4>1, LineIndex DEF Distinct
      <4> QED
        BY <4>3, <4>4
    <3>2. CASE k > Len(interactive)
      <4>1. /\ k - Len(interactive) \in 1..Len(normal)
            /\ w = normal[k - Len(interactive)]
        BY <3>2, LineIndex
      <4>2. w \in Entries(normal) /\ w \notin Entries(interactive)
        BY <2>2, <4>1 DEF Entries
      <4>3. w \notin Entries(interactive')
        BY <2>4, <4>2 DEF Entries
      <4>4. w \notin Entries(normal')
        BY <2>2, <2>5, <4>1, LineIndex DEF Distinct
      <4> QED
        BY <4>3, <4>4
    <3> QED
      BY <3>1, <3>2, LineIndex
  <2>10. Entries(interactive') = Entries(interactive)' /\ Entries(normal') = Entries(normal)'
    BY DEF Entries
  <2>11. Listed' = Entries(interactive') \cup Entries(normal')
    BY DEF Listed, Entries
  <2>12. /\ Entries(interactive') \subseteq Entries(interactive)
         /\ Entries(normal') \subseteq Entries(normal)
    BY <2>4, <2>5 DEF Entries
  <2> QED
    BY <2>1, <2>4, <2>5, <2>6, <2>7, <2>8, <2>9, <2>10, <2>11, <2>12
<1>2. CASE Free(c, after)
  <2>1. /\ busy' = FALSE /\ interactive' = <<>> /\ normal' = <<>>
        /\ pc' = [pc EXCEPT ![c] = after]
        /\ \A k \in 1..Len(Line) : pc[Line[k]] # "queued"
    BY <1>2 DEF Free, Live
  <2>2. ASSUME NEW d \in Callers
        PROVE  pc[d] # "queued"
    BY <2>1, LineEntries DEF ListsOK, ListOf, Listed
  <2>3. Entries(interactive)' = {} /\ Entries(normal)' = {}
    BY <2>1 DEF Entries
  <2>4. Distinct(interactive') /\ Distinct(normal')
    BY <2>1 DEF Distinct
  <2> QED
    BY <2>1, <2>2, <2>3, <2>4
<1> QED
  BY <1>1, <1>2 DEF DropPermit

(* Hence dropping it keeps the slot and the lists in order.                *)
LEMMA DropPermitInv ==
  ASSUME QueueInv,
         NEW c \in Callers, Owns(c),
         NEW after \in PCs \ {"granted", "holding", "running", "begin", "queued", "leaving"},
         DropPermit(c, after),
         \A d \in Callers \ {c} : ask'[d] = ask[d]
  PROVE  /\ busy' \in BOOLEAN
         /\ interactive' \in Seq(Callers) /\ normal' \in Seq(Callers)
         /\ pc' \in [Callers -> PCs]
         /\ pc'[c] = after
         /\ \A d \in Callers \ {c} : \/ pc'[d] = pc[d]
                                     \/ pc[d] = "queued" /\ pc'[d] = "granted"
         /\ SlotAccounting' /\ ListsOK'
<1> DEFINE Gone == {"granted", "holding", "running", "begin", "queued", "leaving"}
<1>0. TypeOK /\ ListsOK /\ SlotAccounting /\ busy
  BY DEF QueueInv, SlotAccounting
<1>1. /\ interactive' \in Seq(Callers) /\ normal' \in Seq(Callers)
      /\ Distinct(interactive') /\ Distinct(normal')
      /\ Entries(interactive)' \subseteq Entries(interactive)
      /\ Entries(normal)' \subseteq Entries(normal)
  BY <1>0, DropPermitEffect
<1>2. pc \in [Callers -> PCs]
  BY <1>0 DEF TypeOK
<1>3. ASSUME NEW w \in Callers \ {c},
             pc[w] = "queued", busy',
             pc' = [pc EXCEPT ![c] = after, ![w] = "granted"],
             w \notin Listed',
             \A d \in Callers \ {w} : pc[d] = "queued" =>
               /\ d \in Entries(interactive) => d \in Entries(interactive)'
               /\ d \in Entries(normal) => d \in Entries(normal)'
      PROVE  /\ busy' \in BOOLEAN
             /\ pc' \in [Callers -> PCs] /\ pc'[c] = after
             /\ \A d \in Callers \ {c} : \/ pc'[d] = pc[d]
                                         \/ pc[d] = "queued" /\ pc'[d] = "granted"
             /\ SlotAccounting' /\ ListsOK'
  <2>1. /\ pc' \in [Callers -> PCs] /\ pc'[c] = after /\ pc'[w] = "granted"
        /\ \A d \in Callers \ {c, w} : pc'[d] = pc[d]
    BY <1>2, <1>3 DEF PCs
  <2>2. busy' = TRUE
    <3>1. busy' \in BOOLEAN
      BY <1>0, DropPermitEffect, <1>3 DEF DropPermit, HandOver, Free, TypeOK
    <3> QED
      BY <1>3, <3>1
  <2>3. SlotAccounting'
    BY <1>0, <2>1, <2>2 DEF SlotAccounting, Owns
  <2>4. \A d \in Callers : pc'[d] = "queued" =>
          d \in (Entries(IF ask[d].prio = "interactive" THEN interactive ELSE normal))'
    <3> SUFFICES ASSUME NEW d \in Callers, pc'[d] = "queued"
                 PROVE  d \in (Entries(ListOf(d)))'
      BY DEF ListOf
    <3>1. d # c /\ d # w /\ pc[d] = "queued" /\ ask'[d] = ask[d]
      BY <2>1
    <3>2. d \in Entries(ListOf(d))
      BY <1>0, <3>1 DEF ListsOK
    <3>3. CASE ask[d].prio = "interactive"
      <4>1. d \in Entries(interactive)
        BY <3>2, <3>3 DEF ListOf
      <4>2. d \in Entries(interactive)'
        BY <1>3, <3>1, <4>1
      <4> QED
        BY <3>1, <3>3, <4>2 DEF ListOf, Entries
    <3>4. CASE ask[d].prio # "interactive"
      <4>1. d \in Entries(normal)
        BY <3>2, <3>4 DEF ListOf
      <4>2. d \in Entries(normal)'
        BY <1>3, <3>1, <4>1
      <4> QED
        BY <3>1, <3>4, <4>2 DEF ListOf, Entries
    <3> QED
      BY <3>3, <3>4
  <2>5. \A d \in Listed' : pc'[d] \in {"queued", "leaving"}
    <3> SUFFICES ASSUME NEW d \in Listed'
                 PROVE  pc'[d] \in {"queued", "leaving"}
      OBVIOUS
    <3>1. d \in Listed /\ d \in Callers /\ d # w
      BY <1>0, <1>1, <1>3, LineEntries DEF Listed
    <3>2. pc[d] \in {"queued", "leaving"} /\ d # c
      BY <1>0, <3>1 DEF ListsOK, Owns
    <3> QED
      BY <2>1, <3>1, <3>2
  <2>6. (Entries(interactive) \cap Entries(normal) = {})'
    BY <1>0, <1>1 DEF ListsOK
  <2>7. ListsOK'
    BY <1>1, <2>2, <2>4, <2>5, <2>6 DEF ListsOK, ListOf, Distinct
  <2> QED
    BY <1>3, <2>1, <2>2, <2>3, <2>7
<1>4. ASSUME busy' = FALSE, interactive' = <<>>, normal' = <<>>,
             pc' = [pc EXCEPT ![c] = after],
             \A d \in Callers : pc[d] # "queued"
      PROVE  /\ busy' \in BOOLEAN
             /\ pc' \in [Callers -> PCs] /\ pc'[c] = after
             /\ \A d \in Callers \ {c} : \/ pc'[d] = pc[d]
                                         \/ pc[d] = "queued" /\ pc'[d] = "granted"
             /\ SlotAccounting' /\ ListsOK'
  <2>1. /\ pc' \in [Callers -> PCs] /\ pc'[c] = after
        /\ \A d \in Callers \ {c} : pc'[d] = pc[d]
    BY <1>2, <1>4 DEF PCs
  <2>2. \A d \in Callers : pc'[d] # "queued"
    BY <1>4, <2>1
  <2>3. SlotAccounting'
    BY <1>0, <1>4, <2>1 DEF SlotAccounting, Owns
  <2>4. Entries(interactive)' = {} /\ Entries(normal)' = {}
    BY <1>4 DEF Entries
  <2>5. ListsOK'
    BY <1>1, <1>4, <2>2, <2>4 DEF ListsOK, Listed, Distinct
  <2> QED
    BY <1>4, <2>1, <2>3, <2>5
<1> QED
  BY <1>0, <1>1, <1>3, <1>4, DropPermitEffect
-----------------------------------------------------------------------------
(* The slot and the lease: what every step must leave alone.               *)

SlotInv == OneStream /\ LeaseFollowsSlot /\ NoRunOnLeasedModel

(* A step of c that moves only c's future, changes neither slot nor lists  *)
(* and neither starts nor ends an ownership.                               *)
LEMMA PcMove ==
  ASSUME QueueInv,
         NEW c \in Callers, NEW place \in PCs \ {"queued"},
         pc[c] \notin {"queued", "leaving"},
         pc' = [pc EXCEPT ![c] = place],
         Owns(c) <=> place \in {"granted", "holding", "running", "begin"},
         UNCHANGED <<busy, lists>>,
         \A d \in Callers \ {c} : ask'[d] = ask[d]
  PROVE  pc' \in [Callers -> PCs] /\ SlotAccounting' /\ ListsOK'
<1>1. TypeOK /\ ListsOK /\ SlotAccounting /\ pc \in [Callers -> PCs]
  BY DEF QueueInv, TypeOK
<1>2. /\ pc' \in [Callers -> PCs] /\ pc'[c] = place
      /\ \A d \in Callers \ {c} : pc'[d] = pc[d]
  BY <1>1
<1>3. SlotAccounting'
  BY <1>1, <1>2 DEF SlotAccounting, Owns
<1>4. /\ interactive' = interactive /\ normal' = normal /\ busy' = busy
      /\ Entries(interactive)' = Entries(interactive)
      /\ Entries(normal)' = Entries(normal)
      /\ Listed' = Listed
  BY DEF lists, Entries, Listed
<1>5. c \notin Listed
  BY <1>1 DEF ListsOK
<1>6. \A d \in Callers : pc'[d] = "queued" => d \in Entries(ListOf(d))'
  <2> SUFFICES ASSUME NEW d \in Callers, pc'[d] = "queued"
               PROVE  d \in Entries(ListOf(d))'
    OBVIOUS
  <2>1. d # c /\ pc[d] = "queued" /\ ask'[d] = ask[d]
    BY <1>2
  <2>2. d \in Entries(ListOf(d))
    BY <1>1, <2>1 DEF ListsOK
  <2> QED
    BY <1>4, <2>1, <2>2 DEF ListOf, Entries
<1>7. \A d \in Listed' : pc'[d] \in {"queued", "leaving"}
  BY <1>1, <1>2, <1>4, <1>5, LineEntries DEF ListsOK
<1>8. ListsOK'
  BY <1>1, <1>4, <1>6, <1>7 DEF ListsOK, Distinct
<1> QED
  BY <1>2, <1>3, <1>8

(* An administrative wait is an ask like any other.                        *)
LEMMA NoAskType == NoAsk \in Asks
BY DEF NoAsk, Asks, Priority

(* The initial state.                                                      *)
LEMMA InitInv == Init => QueueInv
<1> SUFFICES ASSUME Init PROVE QueueInv
  OBVIOUS
<1>1. TypeOK
  <2>1. ask \in [Callers -> Asks]
    BY NoAskType, Zenon DEF Init
  <2>2. pc \in [Callers -> PCs]
    BY DEF Init, PCs
  <2>3. /\ busy \in BOOLEAN
        /\ streamSlot \in Streams \cup {NoStream}
        /\ lease \in Models \cup {NoModel}
    BY DEF Init
  <2>4. interactive \in Seq(Callers) /\ normal \in Seq(Callers)
    BY EmptySeq DEF Init
  <2> QED
    BY <2>1, <2>2, <2>3, <2>4 DEF TypeOK
<1>2. SlotAccounting
  BY DEF Init, SlotAccounting, Owns
<1>3. ListsOK
  BY DEF Init, ListsOK, Listed, Entries, Distinct
<1>4. OneStream /\ LeaseFollowsSlot /\ NoRunOnLeasedModel
  BY NullsAssumption
     DEF Init, OneStream, LeaseFollowsSlot, NoRunOnLeasedModel, Callers
<1> QED
  BY <1>1, <1>2, <1>3, <1>4 DEF QueueInv

(* Every step of a request or a stream that waits keeps the invariant.     *)
LEMMA ArriveInv ==
  ASSUME QueueInv, NEW c \in Requests, Request(c)
  PROVE  QueueInv'
<1>1. /\ TypeOK /\ c \in Callers /\ pc[c] = "idle"
      /\ UNCHANGED <<busy, lists, streamSlot, lease>>
  BY DEF QueueInv, Request, Arrive, ArriveUnbounded, Callers
<1>2. /\ ask' \in [Callers -> Asks]
      /\ \A d \in Callers \ {c} : ask'[d] = ask[d]
  <2>1. ask \in [Callers -> Asks]
    BY <1>1 DEF TypeOK
  <2>2. CASE Arrive(c)
    <3>1. PICK p \in Priority, m \in Models, l \in Limits \cup {NoLimit} :
            ask' = [ask EXCEPT ![c] =
                      [prio |-> p, model |-> m, limit |-> l, leases |-> FALSE]]
      BY <2>2 DEF Arrive
    <3>2. [prio |-> p, model |-> m, limit |-> l, leases |-> FALSE] \in Asks
      BY DEF Asks
    <3> QED
      BY <1>1, <2>1, <3>1, <3>2
  <2>3. CASE ArriveUnbounded(c)
    BY <1>1, <2>1, <2>3, NoAskType DEF ArriveUnbounded
  <2> QED
    BY <2>2, <2>3 DEF Request
<1>3. PICK place \in {"lease", "acquire"} : pc' = [pc EXCEPT ![c] = place]
  BY DEF Request, Arrive, ArriveUnbounded, Goto
<1>4. pc' \in [Callers -> PCs] /\ SlotAccounting' /\ ListsOK'
  BY <1>1, <1>2, <1>3, PcMove DEF PCs, Owns
<1>5. TypeOK'
  BY <1>1, <1>2, <1>4 DEF TypeOK, lists
<1>6. OneStream' /\ LeaseFollowsSlot' /\ NoRunOnLeasedModel'
  BY <1>1, <1>2, <1>3, CallersAssumption, NullsAssumption
     DEF QueueInv, TypeOK, OneStream, LeaseFollowsSlot, NoRunOnLeasedModel,
         StreamsOn, Callers
<1> QED
  BY <1>4, <1>5, <1>6 DEF QueueInv

(* Forgetting an ask keeps the asks typed and those of streams as they are. *)
LEMMA ForgetAsk ==
  ASSUME TypeOK, NEW c \in Callers, Forget(c)
  PROVE  /\ ask' \in [Callers -> Asks]
         /\ \A d \in Callers \ {c} : ask'[d] = ask[d]
         /\ \A s \in Streams : ask'[s] = ask[s]
<1>1. ask \in [Callers -> Asks]
  BY DEF TypeOK
<1>2. CASE c \in Requests
  <2>1. ask' = [ask EXCEPT ![c] = NoAsk]
    BY <1>2 DEF Forget
  <2>2. \A s \in Streams : s \in Callers /\ s # c
    BY <1>2, CallersAssumption DEF Callers
  <2> QED
    BY <1>1, <2>1, <2>2, NoAskType
<1>3. CASE c \notin Requests
  <2>1. ask' = ask
    BY <1>3 DEF Forget
  <2> QED
    BY <1>1, <2>1 DEF Callers
<1> QED
  BY <1>2, <1>3

(* A step that neither claims nor frees the slot, neither sets nor clears  *)
(* the lease and starts no run keeps what relates them.                    *)
LEMMA SlotStable ==
  ASSUME OneStream, LeaseFollowsSlot, NoRunOnLeasedModel,
         UNCHANGED <<streamSlot, lease>>,
         \A s \in Streams : /\ pc'[s] = "idle" <=> pc[s] = "idle"
                            /\ pc'[s] \in {"begin", "stream"}
                                 <=> pc[s] \in {"begin", "stream"}
                            /\ ask'[s].model = ask[s].model,
         \A c \in Callers : pc'[c] = "running" =>
           pc[c] = "running" /\ ask'[c].model = ask[c].model
  PROVE  OneStream' /\ LeaseFollowsSlot' /\ NoRunOnLeasedModel'
<1>1. OneStream'
  BY DEF OneStream
<1>2. LeaseFollowsSlot'
  BY DEF LeaseFollowsSlot
<1>3. NoRunOnLeasedModel'
  BY DEF NoRunOnLeasedModel, StreamsOn
<1> QED
  BY <1>1, <1>2, <1>3

(* Steps that drop the permit and leave slot and lease alone.              *)
LEMMA PermitStepInv ==
  ASSUME QueueInv, NEW c \in Callers,
         \/ GiveUpGranted(c) \/ Requeue(c) \/ FinishRun(c)
         \/ c \in Streams /\ (StartFails(c) \/ StartBuffered(c) \/ StreamBegun(c))
  PROVE  QueueInv'
<1>1. TypeOK /\ Owns(c) /\ UNCHANGED <<streamSlot, lease>>
  BY DEF QueueInv, GiveUpGranted, Requeue, FinishRun, StartFails, StartBuffered,
         StreamBegun, Owns
<1>2. /\ ask' \in [Callers -> Asks]
      /\ \A d \in Callers \ {c} : ask'[d] = ask[d]
      /\ \A s \in Streams : ask'[s] = ask[s]
  <2>1. CASE Forget(c)
    BY <1>1, <2>1, ForgetAsk
  <2>2. CASE UNCHANGED ask
    BY <1>1, <2>2 DEF TypeOK
  <2> QED
    BY <2>1, <2>2 DEF GiveUpGranted, Requeue, FinishRun, StartFails, StartBuffered,
                      StreamBegun
<1>3. PICK after \in {"idle", "lease", "closing", "buffered", "stream"} :
        /\ DropPermit(c, after)
        /\ c \in Streams => /\ after # "idle"
                            /\ after = "stream" <=> pc[c] = "begin"
  BY DEF GiveUpGranted, Requeue, FinishRun, StartFails, StartBuffered, StreamBegun, Home
<1>4. /\ after \in PCs \ {"granted", "holding", "running", "begin", "queued", "leaving"}
      /\ DropPermit(c, after)
  BY <1>3 DEF PCs
<1>5. /\ busy' \in BOOLEAN
      /\ interactive' \in Seq(Callers) /\ normal' \in Seq(Callers)
      /\ pc' \in [Callers -> PCs]
      /\ pc'[c] = after
      /\ \A d \in Callers \ {c} : \/ pc'[d] = pc[d]
                                  \/ pc[d] = "queued" /\ pc'[d] = "granted"
      /\ SlotAccounting' /\ ListsOK'
  BY <1>1, <1>2, <1>4, DropPermitInv
<1>6. TypeOK'
  BY <1>1, <1>2, <1>5 DEF TypeOK
<1>7. ASSUME NEW s \in Streams
      PROVE  /\ pc'[s] = "idle" <=> pc[s] = "idle"
             /\ pc'[s] \in {"begin", "stream"} <=> pc[s] \in {"begin", "stream"}
             /\ ask'[s].model = ask[s].model
  <2>1. CASE s = c
    BY <1>1, <1>2, <1>3, <1>5, <2>1 DEF Owns
  <2>2. CASE s # c
    BY <1>2, <1>5, <2>2 DEF Callers
  <2> QED
    BY <2>1, <2>2
<1>8. \A d \in Callers : pc'[d] = "running" =>
        pc[d] = "running" /\ ask'[d].model = ask[d].model
  BY <1>2, <1>3, <1>5
<1>9. OneStream' /\ LeaseFollowsSlot' /\ NoRunOnLeasedModel'
  BY <1>1, <1>7, <1>8, SlotStable DEF QueueInv
<1> QED
  BY <1>5, <1>6, <1>9 DEF QueueInv

(* Steps that move one future and leave lists, slot and lease alone.       *)
LEMMA MoveStepInv ==
  ASSUME QueueInv, NEW c \in Callers,
         \/ LeaseReleased(c) \/ GiveUpOnStream(c) \/ RefuseFull(c) \/ Receive(c)
         \/ c \in Streams /\ DiscardBuffered(c)
  PROVE  QueueInv'
<1>1. /\ TypeOK /\ UNCHANGED <<busy, lists, streamSlot, lease>>
      /\ pc[c] \in {"lease", "acquire", "granted", "buffered"}
  BY DEF QueueInv, LeaseReleased, GiveUpOnStream, RefuseFull, Receive, DiscardBuffered
<1>2. /\ ask' \in [Callers -> Asks]
      /\ \A d \in Callers \ {c} : ask'[d] = ask[d]
      /\ \A s \in Streams : ask'[s] = ask[s]
  <2>1. CASE Forget(c)
    BY <1>1, <2>1, ForgetAsk
  <2>2. CASE UNCHANGED ask
    BY <1>1, <2>2 DEF TypeOK
  <2> QED
    BY <2>1, <2>2
       DEF LeaseReleased, GiveUpOnStream, RefuseFull, Receive, DiscardBuffered
<1>3. PICK place \in {"idle", "acquire", "holding", "closing"} :
        /\ pc' = [pc EXCEPT ![c] = place]
        /\ c \in Streams => place # "idle"
        /\ place = "holding" <=> pc[c] = "granted"
  BY DEF LeaseReleased, GiveUpOnStream, RefuseFull, Receive, DiscardBuffered, Goto, Home
<1>4. /\ place \in PCs \ {"queued"}
      /\ Owns(c) <=> place \in {"granted", "holding", "running", "begin"}
  BY <1>1, <1>3 DEF PCs, Owns
<1>5. pc' \in [Callers -> PCs] /\ SlotAccounting' /\ ListsOK'
  BY <1>1, <1>2, <1>3, <1>4, PcMove
<1>6. TypeOK'
  BY <1>1, <1>2, <1>5 DEF TypeOK, lists
<1>7. \A d \in Callers : pc'[d] = IF d = c THEN place ELSE pc[d]
  BY <1>1, <1>3 DEF TypeOK
<1>8. ASSUME NEW s \in Streams
      PROVE  /\ pc'[s] = "idle" <=> pc[s] = "idle"
             /\ pc'[s] \in {"begin", "stream"} <=> pc[s] \in {"begin", "stream"}
             /\ ask'[s].model = ask[s].model
  BY <1>1, <1>2, <1>3, <1>7 DEF Callers
<1>9. \A d \in Callers : pc'[d] = "running" =>
        pc[d] = "running" /\ ask'[d].model = ask[d].model
  BY <1>2, <1>3, <1>7
<1>10. OneStream' /\ LeaseFollowsSlot' /\ NoRunOnLeasedModel'
  BY <1>1, <1>8, <1>9, SlotStable DEF QueueInv
<1> QED
  BY <1>5, <1>6, <1>10 DEF QueueInv

(* The fast path: the slot was free, so nobody owned it and nobody waited. *)
LEMMA TakeFreeInv ==
  ASSUME QueueInv, NEW c \in Callers, TakeFree(c)
  PROVE  QueueInv'
<1>1. /\ TypeOK /\ SlotAccounting /\ ListsOK
      /\ pc[c] = "acquire" /\ busy = FALSE /\ busy' = TRUE
      /\ pc' = [pc EXCEPT ![c] = "holding"]
      /\ interactive' = interactive /\ normal' = normal
      /\ UNCHANGED <<ask, streamSlot, lease>>
  BY DEF QueueInv, TakeFree, Goto, lists, TypeOK
<1>2. /\ pc' \in [Callers -> PCs]
      /\ \A d \in Callers : pc'[d] = IF d = c THEN "holding" ELSE pc[d]
  BY <1>1 DEF TypeOK, PCs
<1>3. TypeOK'
  BY <1>1, <1>2 DEF TypeOK
<1>4. SlotAccounting'
  BY <1>1, <1>2 DEF SlotAccounting, Owns
<1>5. interactive = <<>> /\ normal = <<>> /\ Listed = {}
  BY <1>1 DEF ListsOK, Listed, Entries
<1>6. \A d \in Callers : pc[d] # "queued"
  BY <1>1, <1>5 DEF ListsOK, ListOf, Listed
<1>7. ListsOK'
  BY <1>1, <1>2, <1>5, <1>6 DEF ListsOK, Listed, Entries, Distinct
<1>8. OneStream' /\ LeaseFollowsSlot' /\ NoRunOnLeasedModel'
  BY <1>1, <1>2, SlotStable DEF QueueInv, Callers
<1> QED
  BY <1>3, <1>4, <1>7, <1>8 DEF QueueInv

(* A new entry goes to the end of the list of its class, behind a busy slot. *)
LEMMA JoinInv ==
  ASSUME QueueInv, NEW c \in Callers, Join(c)
  PROVE  QueueInv'
<1>1. /\ TypeOK /\ SlotAccounting /\ ListsOK
      /\ pc[c] = "acquire" /\ busy /\ busy' = busy
      /\ pc' = [pc EXCEPT ![c] = "queued"]
      /\ UNCHANGED <<ask, streamSlot, lease>>
  BY DEF QueueInv, Join, Goto
<1>2. /\ pc' \in [Callers -> PCs]
      /\ \A d \in Callers : pc'[d] = IF d = c THEN "queued" ELSE pc[d]
  BY <1>1 DEF TypeOK, PCs
<1>3. c \notin Listed
  BY <1>1 DEF ListsOK
<1>4. ASSUME ask[c].prio = "interactive"
      PROVE  TypeOK' /\ ListsOK'
  <2>1. interactive' = Append(interactive, c) /\ normal' = normal
    BY <1>4 DEF Join
  <2>2. /\ interactive' \in Seq(Callers) /\ Distinct(interactive')
        /\ Entries(interactive') = Entries(interactive) \cup {c}
    BY <1>1, <1>3, <2>1, AppendEntry DEF TypeOK, ListsOK, Listed
  <2>3. TypeOK'
    BY <1>1, <1>2, <2>1, <2>2 DEF TypeOK
  <2>4. Listed' = Listed \cup {c}
    BY <2>1, <2>2 DEF Listed, Entries
  <2>5. Entries(interactive)' \cap Entries(normal)' = {}
    <3>1. /\ Entries(interactive)' = Entries(interactive')
          /\ Entries(normal)' = Entries(normal')
      BY DEF Entries
    <3>2. Entries(interactive) \cap Entries(normal) = {}
      BY <1>1 DEF ListsOK
    <3> QED
      BY <1>3, <2>1, <2>2, <3>1, <3>2 DEF Listed
  <2>6. \A d \in Callers : pc'[d] = "queued" => d \in Entries(ListOf(d))'
    BY <1>1, <1>2, <1>4, <2>1, <2>2 DEF ListsOK, ListOf, Entries
  <2>7. ListsOK'
    BY <1>1, <1>2, <2>1, <2>2, <2>4, <2>5, <2>6 DEF ListsOK, Distinct
  <2> QED
    BY <2>3, <2>7
<1>5. ASSUME ask[c].prio # "interactive"
      PROVE  TypeOK' /\ ListsOK'
  <2>1. normal' = Append(normal, c) /\ interactive' = interactive
    BY <1>5 DEF Join
  <2>2. /\ normal' \in Seq(Callers) /\ Distinct(normal')
        /\ Entries(normal') = Entries(normal) \cup {c}
    BY <1>1, <1>3, <2>1, AppendEntry DEF TypeOK, ListsOK, Listed
  <2>3. TypeOK'
    BY <1>1, <1>2, <2>1, <2>2 DEF TypeOK
  <2>4. Listed' = Listed \cup {c}
    BY <2>1, <2>2 DEF Listed, Entries
  <2>5. Entries(interactive)' \cap Entries(normal)' = {}
    <3>1. /\ Entries(interactive)' = Entries(interactive')
          /\ Entries(normal)' = Entries(normal')
      BY DEF Entries
    <3>2. Entries(interactive) \cap Entries(normal) = {}
      BY <1>1 DEF ListsOK
    <3> QED
      BY <1>3, <2>1, <2>2, <3>1, <3>2 DEF Listed
  <2>6. \A d \in Callers : pc'[d] = "queued" => d \in Entries(ListOf(d))'
    BY <1>1, <1>2, <1>5, <2>1, <2>2 DEF ListsOK, ListOf, Entries
  <2>7. ListsOK'
    BY <1>1, <1>2, <2>1, <2>2, <2>4, <2>5, <2>6 DEF ListsOK, Distinct
  <2> QED
    BY <2>3, <2>7
<1>6. SlotAccounting'
  BY <1>1, <1>2 DEF SlotAccounting, Owns
<1>7. OneStream' /\ LeaseFollowsSlot' /\ NoRunOnLeasedModel'
  BY <1>1, <1>2, SlotStable DEF QueueInv, Callers
<1> QED
  BY <1>4, <1>5, <1>6, <1>7 DEF QueueInv

(* The receiver drops: the entry stays in its list, dead.                  *)
LEMMA GiveUpInv ==
  ASSUME QueueInv, NEW c \in Callers, GiveUp(c)
  PROVE  QueueInv'
<1>1. /\ TypeOK /\ SlotAccounting /\ ListsOK
      /\ pc[c] = "queued" /\ pc' = [pc EXCEPT ![c] = "leaving"]
      /\ interactive' = interactive /\ normal' = normal
      /\ UNCHANGED <<busy, ask, streamSlot, lease>>
  BY DEF QueueInv, GiveUp, Goto, lists
<1>2. /\ pc' \in [Callers -> PCs]
      /\ \A d \in Callers : pc'[d] = IF d = c THEN "leaving" ELSE pc[d]
  BY <1>1 DEF TypeOK, PCs
<1>3. TypeOK'
  BY <1>1, <1>2 DEF TypeOK
<1>4. SlotAccounting'
  BY <1>1, <1>2 DEF SlotAccounting, Owns
<1>5. ListsOK'
  <2>1. Listed' = Listed /\ Listed \subseteq Callers
    BY <1>1, LineEntries DEF Listed
  <2>2. \A d \in Callers : ListOf(d)' = ListOf(d)
    BY <1>1 DEF ListOf
  <2>3. \A d \in Callers : pc'[d] = "queued" => d \in Entries(ListOf(d)')
    BY <1>1, <1>2, <2>2 DEF ListsOK
  <2>4. \A d \in Listed' : pc'[d] \in {"queued", "leaving"}
    BY <1>1, <1>2, <2>1 DEF ListsOK
  <2> QED
    BY <1>1, <2>3, <2>4 DEF ListsOK
<1>6. OneStream' /\ LeaseFollowsSlot' /\ NoRunOnLeasedModel'
  BY <1>1, <1>2, SlotStable DEF QueueInv, Callers
<1> QED
  BY <1>3, <1>4, <1>5, <1>6 DEF QueueInv

(* WaiterEntry removes the entry of a wait that has ended, and no other.   *)
LEMMA RemoveEntryInv ==
  ASSUME QueueInv, NEW c \in Callers, RemoveEntry(c)
  PROVE  QueueInv'
<1>1. /\ TypeOK /\ SlotAccounting /\ ListsOK
      /\ pc[c] = "leaving" /\ pc' = [pc EXCEPT ![c] = Home(c)]
      /\ interactive' = Without(interactive, c) /\ normal' = Without(normal, c)
      /\ Forget(c) /\ UNCHANGED <<busy, streamSlot, lease>>
  BY DEF QueueInv, RemoveEntry, Goto
<1>2. /\ ask' \in [Callers -> Asks]
      /\ \A d \in Callers \ {c} : ask'[d] = ask[d]
      /\ \A s \in Streams : ask'[s] = ask[s]
  BY <1>1, ForgetAsk
<1>3. /\ pc' \in [Callers -> PCs]
      /\ \A d \in Callers : pc'[d] = IF d = c THEN Home(c) ELSE pc[d]
      /\ Home(c) \in {"idle", "closing"} /\ (c \in Streams => Home(c) = "closing")
  BY <1>1 DEF TypeOK, PCs, Home
<1>4. /\ interactive' \in Seq(Callers) /\ Distinct(interactive')
      /\ Entries(interactive') = Entries(interactive) \ {c}
      /\ normal' \in Seq(Callers) /\ Distinct(normal')
      /\ Entries(normal') = Entries(normal) \ {c}
  BY <1>1, WithoutEntry DEF TypeOK, ListsOK
<1>5. TypeOK'
  BY <1>1, <1>2, <1>3, <1>4 DEF TypeOK
<1>6. SlotAccounting'
  BY <1>1, <1>3 DEF SlotAccounting, Owns
<1>7. Listed' = Listed \ {c}
  BY <1>4 DEF Listed, Entries
<1>8. \A d \in Callers : pc'[d] = "queued" => d \in Entries(ListOf(d))'
  <2> SUFFICES ASSUME NEW d \in Callers, pc'[d] = "queued"
               PROVE  d \in Entries(ListOf(d))'
    OBVIOUS
  <2>1. d # c /\ pc[d] = "queued" /\ ask'[d] = ask[d]
    BY <1>2, <1>3
  <2>2. d \in Entries(ListOf(d))
    BY <1>1, <2>1 DEF ListsOK
  <2>3. CASE ask[d].prio = "interactive"
    BY <1>4, <2>1, <2>2, <2>3 DEF ListOf, Entries
  <2>4. CASE ask[d].prio # "interactive"
    BY <1>4, <2>1, <2>2, <2>4 DEF ListOf, Entries
  <2> QED
    BY <2>3, <2>4
<1>9. busy \/ (interactive' = <<>> /\ normal' = <<>>)
  <2>1. CASE ~busy
    <3>1. interactive = <<>> /\ normal = <<>>
      BY <1>1, <2>1 DEF ListsOK
    <3> QED
      BY <1>1, <3>1 DEF Without
  <2> QED
    BY <2>1
<1>10. Entries(interactive)' \cap Entries(normal)' = {}
  BY <1>1, <1>4 DEF ListsOK, Entries
<1>11. \A d \in Listed' : pc'[d] \in {"queued", "leaving"}
  BY <1>1, <1>3, <1>7, LineEntries DEF ListsOK
<1>12. ListsOK'
  BY <1>1, <1>4, <1>8, <1>9, <1>10, <1>11 DEF ListsOK, Distinct
<1>13. OneStream' /\ LeaseFollowsSlot' /\ NoRunOnLeasedModel'
  <2>1. \A s \in Streams : /\ pc'[s] = "idle" <=> pc[s] = "idle"
                           /\ pc'[s] \in {"begin", "stream"}
                                <=> pc[s] \in {"begin", "stream"}
                           /\ ask'[s].model = ask[s].model
    BY <1>1, <1>2, <1>3 DEF Callers
  <2>2. \A d \in Callers : pc'[d] = "running" =>
          pc[d] = "running" /\ ask'[d].model = ask[d].model
    BY <1>2, <1>3
  <2> QED
    BY <1>1, <2>1, <2>2, SlotStable DEF QueueInv
<1> QED
  BY <1>5, <1>6, <1>12, <1>13 DEF QueueInv

(* A run starts on a model nobody leases.                                  *)
LEMMA StartRunInv ==
  ASSUME QueueInv, NEW c \in Callers, StartRun(c)
  PROVE  QueueInv'
<1>1. /\ TypeOK /\ pc[c] = "holding" /\ ~StreamsOn(ask[c].model)
      /\ pc' = [pc EXCEPT ![c] = "running"]
      /\ UNCHANGED <<busy, lists, ask, streamSlot, lease>>
  BY DEF QueueInv, StartRun, Goto
<1>2. \A d \in Callers : pc'[d] = IF d = c THEN "running" ELSE pc[d]
  BY <1>1 DEF TypeOK
<1>3. pc' \in [Callers -> PCs] /\ SlotAccounting' /\ ListsOK'
  BY <1>1, PcMove DEF PCs, Owns
<1>4. TypeOK'
  BY <1>1, <1>3 DEF TypeOK, lists
<1>5. OneStream' /\ LeaseFollowsSlot'
  BY <1>1, <1>2 DEF QueueInv, OneStream, LeaseFollowsSlot, Callers
<1>6. NoRunOnLeasedModel'
  BY <1>1, <1>2 DEF QueueInv, NoRunOnLeasedModel, StreamsOn
<1> QED
  BY <1>3, <1>4, <1>5, <1>6 DEF QueueInv

(* The slot is claimed only when no other item is between claim and free.  *)
LEMMA ClaimStreamInv ==
  ASSUME QueueInv, NEW s \in Streams, ClaimStream(s)
  PROVE  QueueInv'
<1>1. /\ TypeOK /\ s \in Callers /\ pc[s] = "idle" /\ streamSlot = NoStream
      /\ streamSlot' = s /\ pc' = [pc EXCEPT ![s] = "acquire"]
      /\ UNCHANGED <<busy, lists, lease>>
  BY DEF QueueInv, ClaimStream, Goto, Callers
<1>2. /\ ask' \in [Callers -> Asks]
      /\ \A d \in Callers \ {s} : ask'[d] = ask[d]
  <2>1. PICK m \in Models, l \in Limits \cup {NoLimit} :
          ask' = [ask EXCEPT ![s] =
                    [prio |-> "interactive", model |-> m, limit |-> l, leases |-> TRUE]]
    BY DEF ClaimStream
  <2>2. [prio |-> "interactive", model |-> m, limit |-> l, leases |-> TRUE] \in Asks
    BY DEF Asks, Priority
  <2>3. ask \in [Callers -> Asks]
    BY <1>1 DEF TypeOK
  <2> QED
    BY <2>1, <2>2, <2>3
<1>3. \A d \in Callers : pc'[d] = IF d = s THEN "acquire" ELSE pc[d]
  BY <1>1 DEF TypeOK
<1>4. pc' \in [Callers -> PCs] /\ SlotAccounting' /\ ListsOK'
  BY <1>1, <1>2, PcMove DEF PCs, Owns
<1>5. TypeOK'
  BY <1>1, <1>2, <1>4 DEF TypeOK, lists
<1>6. OneStream'
  BY <1>1, <1>3, NullsAssumption DEF QueueInv, OneStream, Callers
<1>7. lease = NoModel
  BY <1>1, NullsAssumption DEF QueueInv, LeaseFollowsSlot
<1>8. LeaseFollowsSlot'
  BY <1>1, <1>2, <1>3, <1>7, NullsAssumption DEF QueueInv, LeaseFollowsSlot, Callers
<1>9. NoRunOnLeasedModel'
  BY <1>1, <1>7, NullsAssumption DEF NoRunOnLeasedModel, StreamsOn
<1> QED
  BY <1>4, <1>5, <1>6, <1>8, <1>9 DEF QueueInv

(* The model is leased under the permit, so no batch run is under way.     *)
LEMMA LeaseModelInv ==
  ASSUME QueueInv, NEW s \in Streams, LeaseModel(s)
  PROVE  QueueInv'
<1>1. /\ TypeOK /\ s \in Callers /\ pc[s] = "holding"
      /\ lease' = ask[s].model /\ pc' = [pc EXCEPT ![s] = "begin"]
      /\ UNCHANGED <<busy, lists, ask, streamSlot>>
  BY DEF QueueInv, LeaseModel, Goto, Callers
<1>2. \A d \in Callers : pc'[d] = IF d = s THEN "begin" ELSE pc[d]
  BY <1>1 DEF TypeOK
<1>3. pc' \in [Callers -> PCs] /\ SlotAccounting' /\ ListsOK'
  BY <1>1, PcMove DEF PCs, Owns
<1>4. ask[s] \in Asks
  BY <1>1 DEF TypeOK
<1>5. TypeOK'
  BY <1>1, <1>3, <1>4 DEF TypeOK, lists, Asks
<1>6. OneStream' /\ streamSlot = s
  BY <1>1, <1>2 DEF QueueInv, OneStream, Callers
<1>7. LeaseFollowsSlot'
  BY <1>1, <1>2, <1>6 DEF QueueInv, OneStream, LeaseFollowsSlot, Callers
<1>8. \A d \in Callers : pc'[d] # "running"
  BY <1>1, <1>2 DEF QueueInv, SlotAccounting, Owns
<1>9. NoRunOnLeasedModel'
  BY <1>8 DEF NoRunOnLeasedModel
<1> QED
  BY <1>3, <1>5, <1>6, <1>7, <1>9 DEF QueueInv

(* A committed turn keeps the stream slot while it asks for the batch slot. *)
LEMMA CommitBufferedInv ==
  ASSUME QueueInv, NEW s \in Streams, CommitBuffered(s)
  PROVE  QueueInv'
<1>1. /\ TypeOK /\ s \in Callers /\ pc[s] = "buffered"
      /\ pc' = [pc EXCEPT ![s] = "lease"]
      /\ UNCHANGED <<busy, lists, streamSlot, lease>>
  BY DEF QueueInv, CommitBuffered, Goto, Callers
<1>2. /\ ask' \in [Callers -> Asks]
      /\ \A d \in Callers \ {s} : ask'[d] = ask[d]
      /\ ask'[s].model = ask[s].model
  <2>1. PICK l \in Limits \cup {NoLimit} :
          ask' = [ask EXCEPT ![s].prio = "normal", ![s].limit = l, ![s].leases = FALSE]
    BY DEF CommitBuffered
  <2>2. ask \in [Callers -> Asks]
    BY <1>1 DEF TypeOK
  <2>3. ask'[s] = [ask[s] EXCEPT !.prio = "normal", !.limit = l, !.leases = FALSE]
    BY <1>1, <2>1, <2>2
  <2>4. ask'[s] \in Asks /\ ask'[s].model = ask[s].model
    BY <1>1, <2>2, <2>3 DEF Asks, Priority
  <2> QED
    BY <1>1, <2>1, <2>2, <2>4
<1>3. \A d \in Callers : pc'[d] = IF d = s THEN "lease" ELSE pc[d]
  BY <1>1 DEF TypeOK
<1>4. pc' \in [Callers -> PCs] /\ SlotAccounting' /\ ListsOK'
  BY <1>1, <1>2, PcMove DEF PCs, Owns
<1>5. TypeOK'
  BY <1>1, <1>2, <1>4 DEF TypeOK, lists
<1>6. ASSUME NEW t \in Streams
      PROVE  /\ pc'[t] = "idle" <=> pc[t] = "idle"
             /\ pc'[t] \in {"begin", "stream"} <=> pc[t] \in {"begin", "stream"}
             /\ ask'[t].model = ask[t].model
  BY <1>1, <1>2, <1>3 DEF Callers
<1>7. \A d \in Callers : pc'[d] = "running" =>
        pc[d] = "running" /\ ask'[d].model = ask[d].model
  BY <1>2, <1>3
<1>8. OneStream' /\ LeaseFollowsSlot' /\ NoRunOnLeasedModel'
  BY <1>1, <1>6, <1>7, SlotStable DEF QueueInv
<1> QED
  BY <1>4, <1>5, <1>8 DEF QueueInv

(* Only the holder of the slot clears the lease, so it clears its own.     *)
LEMMA ClearLeaseInv ==
  ASSUME QueueInv, NEW s \in Streams, ClearLease(s)
  PROVE  QueueInv'
<1>1. /\ TypeOK /\ s \in Callers /\ pc[s] \in {"stream", "closing"}
      /\ lease' = NoModel /\ pc' = [pc EXCEPT ![s] = "closed"]
      /\ UNCHANGED <<busy, lists, ask, streamSlot>>
  BY DEF QueueInv, ClearLease, Goto, Callers
<1>2. \A d \in Callers : pc'[d] = IF d = s THEN "closed" ELSE pc[d]
  BY <1>1 DEF TypeOK
<1>3. pc' \in [Callers -> PCs] /\ SlotAccounting' /\ ListsOK'
  BY <1>1, PcMove DEF PCs, Owns
<1>4. TypeOK'
  BY <1>1, <1>3 DEF TypeOK, lists
<1>5. OneStream' /\ streamSlot = s
  BY <1>1, <1>2 DEF QueueInv, OneStream, Callers
<1>6. LeaseFollowsSlot'
  BY <1>1, <1>2, <1>5 DEF QueueInv, OneStream, LeaseFollowsSlot, Callers
<1>7. NoRunOnLeasedModel'
  BY <1>1, NullsAssumption DEF NoRunOnLeasedModel, StreamsOn
<1> QED
  BY <1>3, <1>4, <1>5, <1>6, <1>7 DEF QueueInv

(* The stream slot is freed after the lease was cleared.                   *)
LEMMA FreeStreamSlotInv ==
  ASSUME QueueInv, NEW s \in Streams, FreeStreamSlot(s)
  PROVE  QueueInv'
<1>1. /\ TypeOK /\ s \in Callers /\ pc[s] = "closed"
      /\ streamSlot' = NoStream /\ ask' = [ask EXCEPT ![s] = NoAsk]
      /\ pc' = [pc EXCEPT ![s] = "idle"]
      /\ UNCHANGED <<busy, lists, lease>>
  BY DEF QueueInv, FreeStreamSlot, Goto, Callers
<1>2. /\ ask' \in [Callers -> Asks]
      /\ \A d \in Callers \ {s} : ask'[d] = ask[d]
  BY <1>1, NoAskType DEF TypeOK
<1>3. \A d \in Callers : pc'[d] = IF d = s THEN "idle" ELSE pc[d]
  BY <1>1 DEF TypeOK
<1>4. pc' \in [Callers -> PCs] /\ SlotAccounting' /\ ListsOK'
  BY <1>1, <1>2, PcMove DEF PCs, Owns
<1>5. TypeOK'
  BY <1>1, <1>2, <1>4 DEF TypeOK, lists
<1>6. OneStream' /\ streamSlot = s
  BY <1>1, <1>3, NullsAssumption DEF QueueInv, OneStream, Callers
<1>7. lease = NoModel
  BY <1>1, <1>6 DEF QueueInv, LeaseFollowsSlot
<1>8. LeaseFollowsSlot'
  BY <1>1, <1>2, <1>3, <1>6, <1>7 DEF QueueInv, OneStream, LeaseFollowsSlot, Callers
<1>9. NoRunOnLeasedModel'
  BY <1>1, <1>7, NullsAssumption DEF NoRunOnLeasedModel, StreamsOn
<1> QED
  BY <1>4, <1>5, <1>6, <1>8, <1>9 DEF QueueInv

-----------------------------------------------------------------------------
(* The theorems.                                                           *)

(* A stuttering step keeps the invariant.                                  *)
LEMMA StutterInv == QueueInv /\ UNCHANGED vars => QueueInv'
<1> SUFFICES ASSUME QueueInv, UNCHANGED vars PROVE QueueInv'
  OBVIOUS
<1>1. /\ busy' = busy /\ interactive' = interactive /\ normal' = normal
      /\ pc' = pc /\ ask' = ask /\ streamSlot' = streamSlot /\ lease' = lease
  BY DEF vars
<1> QED
  <2>1. TypeOK' /\ SlotAccounting'
    BY <1>1 DEF QueueInv, TypeOK, SlotAccounting, Owns
  <2>2. ListsOK'
    BY <1>1 DEF QueueInv, ListsOK, ListOf, Listed, Entries, Distinct
  <2>3. OneStream' /\ LeaseFollowsSlot' /\ NoRunOnLeasedModel'
    BY <1>1 DEF QueueInv, OneStream, LeaseFollowsSlot, NoRunOnLeasedModel, StreamsOn
  <2> QED
    BY <2>1, <2>2, <2>3 DEF QueueInv

(* Every step keeps the invariant: one case per group of actions.          *)
LEMMA NextInv == QueueInv /\ [Next]_vars => QueueInv'
<1> SUFFICES ASSUME QueueInv, [Next]_vars PROVE QueueInv'
  OBVIOUS
<1>1. ASSUME NEW c \in Callers, Waits(c) PROVE QueueInv'
  BY <1>1, MoveStepInv, PermitStepInv, TakeFreeInv, JoinInv, GiveUpInv, RemoveEntryInv
     DEF Waits
<1>2. ASSUME NEW c \in Callers, Runs(c) PROVE QueueInv'
  BY <1>2, StartRunInv, PermitStepInv DEF Runs
<1>3. ASSUME NEW c \in Requests, Request(c) PROVE QueueInv'
  BY <1>3, ArriveInv
<1>4. ASSUME NEW s \in Streams, Stream(s) PROVE QueueInv'
  <2>1. s \in Callers
    BY DEF Callers
  <2> QED
    BY <1>4, <2>1, ClaimStreamInv, LeaseModelInv, PermitStepInv, CommitBufferedInv,
       MoveStepInv, ClearLeaseInv, FreeStreamSlotInv DEF Stream
<1>5. CASE UNCHANGED vars
  BY <1>5, StutterInv
<1> QED
  BY <1>1, <1>2, <1>3, <1>4, <1>5 DEF Next

(* The inductive invariant holds in every reachable state of the queue,    *)
(* whatever the callers, models and bounds: all other theorems follow.     *)
THEOREM QueueInvariant == Spec => []QueueInv
<1> QED
  BY InitInv, NextInv, PTL DEF Spec

(* Whatever callers, models and bounds there are, every variable keeps its *)
(* type.                                                                   *)
THEOREM TypeCorrect == Spec => []TypeOK
<1>1. QueueInv => TypeOK
  BY DEF QueueInv
<1> QED
  BY <1>1, QueueInvariant, PTL

(* The slot has at most one owner, and is busy exactly while it has one:   *)
(* no race of a grant with a timeout or a disconnect leaks or doubles it.  *)
THEOREM SlotNeverLost == Spec => []SlotAccounting
<1>1. QueueInv => SlotAccounting
  BY DEF QueueInv
<1> QED
  BY <1>1, QueueInvariant, PTL

(* A caller that still waits always has its entry in its list, and a free  *)
(* slot leaves nobody behind.                                              *)
THEOREM WaitersKept == Spec => []NoLostWaiter
<1>1. QueueInv => NoLostWaiter
  <2> SUFFICES ASSUME QueueInv PROVE NoLostWaiter
    OBVIOUS
  <2>1. TypeOK /\ ListsOK
    BY DEF QueueInv
  <2>2. ~busy => Line = <<>>
    BY <2>1 DEF ListsOK, Line
  <2>3. ASSUME NEW i \in 1..Len(Line), NEW j \in 1..Len(Line), Line[i] = Line[j]
        PROVE  i = j
    <3> DEFINE n == Len(interactive)
    <3>1. /\ n \in Nat /\ Len(normal) \in Nat /\ i \in Int /\ j \in Int
          /\ Len(Line) = n + Len(normal)
          /\ \A k \in 1..Len(Line) :
               /\ k <= n => k \in 1..n /\ Line[k] = interactive[k]
               /\ k > n => k - n \in 1..Len(normal) /\ Line[k] = normal[k - n]
      BY <2>1, LineIndex
    <3>2. /\ Distinct(interactive) /\ Distinct(normal)
          /\ \A a \in 1..n, b \in 1..Len(normal) : interactive[a] # normal[b]
      BY <2>1 DEF ListsOK, Entries
    <3> HIDE DEF n
    <3>3. CASE i <= n /\ j <= n
      <4>1. i \in 1..n /\ j \in 1..n /\ interactive[i] = interactive[j]
        BY <2>3, <3>1, <3>3
      <4> QED
        BY <3>2, <4>1 DEF Distinct, n
    <3>4. CASE i > n /\ j > n
      <4>1. /\ i - n \in 1..Len(normal) /\ j - n \in 1..Len(normal)
            /\ normal[i - n] = normal[j - n]
        BY <2>3, <3>1, <3>4
      <4>2. i - n = j - n
        BY <3>2, <4>1 DEF Distinct
      <4> QED
        BY <3>1, <4>2
    <3>5. CASE i <= n /\ j > n
      BY <2>3, <3>1, <3>2, <3>5
    <3>6. CASE i > n /\ j <= n
      BY <2>3, <3>1, <3>2, <3>6
    <3> QED
      BY <3>1, <3>3, <3>4, <3>5, <3>6
  <2>4. \A c \in Callers : pc[c] = "queued" =>
          c \in Entries(IF ask[c].prio = "interactive" THEN interactive ELSE normal)
    BY <2>1 DEF ListsOK, ListOf
  <2>5. \A i \in 1..Len(Line) : pc[Line[i]] \in {"queued", "leaving"}
    BY <2>1, LineEntries DEF ListsOK
  <2> QED
    BY <2>2, <2>3, <2>4, <2>5 DEF NoLostWaiter
<1> QED
  BY <1>1, QueueInvariant, PTL

(* The lease is that of the stream that holds the slot.                    *)
THEOREM LeaseIsOfSlotHolder == Spec => []LeaseFollowsSlot
<1>1. QueueInv => LeaseFollowsSlot
  BY DEF QueueInv
<1> QED
  BY <1>1, QueueInvariant, PTL

(* No batch run is ever under way on the model a live stream holds.        *)
THEOREM LeaseExcludesRuns == Spec => []NoRunOnLeasedModel
<1>1. QueueInv => NoRunOnLeasedModel
  BY DEF QueueInv
<1> QED
  BY <1>1, QueueInvariant, PTL

(* What a step of one caller does to the others' ownership: the only ways  *)
(* to get the slot are the fast path on a free slot and a grant to the     *)
(* first live waiter.                                                      *)
LEMMA GainsSlot ==
  ASSUME QueueInv, Next, NEW d \in Callers, ~Owns(d), Owns(d)'
  PROVE  \/ ~busy
         \/ \E k \in 1..Len(Line) : FirstLive(k) /\ Line[k] = d
<1>1. pc \in [Callers -> PCs]
  BY DEF QueueInv, TypeOK
<1> DEFINE Claim == \/ ~busy
                    \/ \E k \in 1..Len(Line) : FirstLive(k) /\ Line[k] = d
<1>2. ASSUME NEW c \in Callers, NEW place,
             pc' = [pc EXCEPT ![c] = place],
             place \in {"granted", "holding", "running", "begin"} => Owns(c) \/ ~busy
      PROVE  Claim
  BY <1>1, <1>2 DEF Owns
<1>3. ASSUME NEW c \in Callers, NEW after, DropPermit(c, after),
             after \notin {"granted", "holding", "running", "begin"}
      PROVE  Claim
  BY <1>1, <1>3 DEF DropPermit, HandOver, Free, Owns
<1>4. ASSUME NEW c \in Callers, Waits(c)
      PROVE  Claim
  <2>1. CASE LeaseReleased(c) \/ GiveUpOnStream(c) \/ RefuseFull(c) \/ Join(c)
               \/ GiveUp(c) \/ RemoveEntry(c)
    BY <1>2, <2>1 DEF LeaseReleased, GiveUpOnStream, RefuseFull, Join, GiveUp,
                      RemoveEntry, Goto, Home
  <2>2. CASE TakeFree(c)
    BY <2>2 DEF TakeFree
  <2>3. CASE Receive(c)
    BY <1>2, <2>3 DEF Receive, Goto, Owns
  <2>4. CASE GiveUpGranted(c)
    BY <1>3, <2>4 DEF GiveUpGranted, Home
  <2> QED
    BY <1>4, <2>1, <2>2, <2>3, <2>4 DEF Waits
<1>5. ASSUME NEW c \in Callers, Runs(c)
      PROVE  Claim
  <2>1. CASE StartRun(c)
    BY <1>2, <2>1 DEF StartRun, Goto, Owns
  <2>2. CASE Requeue(c) \/ FinishRun(c)
    BY <1>3, <2>2 DEF Requeue, FinishRun, Home
  <2> QED
    BY <1>5, <2>1, <2>2 DEF Runs
<1>6. ASSUME NEW c \in Requests, Request(c)
      PROVE  Claim
  BY <1>2, <1>6 DEF Request, Arrive, ArriveUnbounded, Goto, Callers
<1>7. ASSUME NEW s \in Streams, Stream(s)
      PROVE  Claim
  <2>1. s \in Callers
    BY DEF Callers
  <2>2. CASE ClaimStream(s) \/ CommitBuffered(s) \/ DiscardBuffered(s)
               \/ ClearLease(s) \/ FreeStreamSlot(s)
    BY <1>2, <2>1, <2>2 DEF ClaimStream, CommitBuffered, DiscardBuffered, ClearLease,
                            FreeStreamSlot, Goto
  <2>3. CASE LeaseModel(s)
    BY <1>2, <2>1, <2>3 DEF LeaseModel, Goto, Owns
  <2>4. CASE StartFails(s) \/ StartBuffered(s) \/ StreamBegun(s)
    BY <1>3, <2>1, <2>4 DEF StartFails, StartBuffered, StreamBegun
  <2> QED
    BY <1>7, <2>2, <2>3, <2>4 DEF Stream
<1> QED
  BY <1>4, <1>5, <1>6, <1>7 DEF Next

(* Nobody gets the slot before a waiter that must be served first, neither *)
(* a newcomer on the fast path nor a queued caller of a later place or of  *)
(* the lower class.                                                        *)
THEOREM NobodyOvertakes == Spec => ServedInOrder
<1>1. QueueInv /\ [Next]_vars =>
        [\A c, d \in Callers :
           Before(c, d) /\ pc'[c] = "queued" /\ c # d => Owns(d) \/ ~Owns(d)']_vars
  <2> SUFFICES ASSUME QueueInv, Next, NEW c \in Callers, NEW d \in Callers,
                      Before(c, d), pc'[c] = "queued", c # d, ~Owns(d), Owns(d)'
               PROVE  FALSE
    OBVIOUS
  <2>1. TypeOK /\ ListsOK /\ pc[c] = "queued"
    BY DEF QueueInv, Before
  <2>2. c \in Listed
    BY <2>1 DEF ListsOK, ListOf, Listed
  <2>3. PICK i \in 1..Len(Line) : Line[i] = c
    BY <2>1, <2>2, LineEntries
  <2>4. busy
    BY <2>1, <2>2 DEF ListsOK, Listed, Entries
  <2>5. PICK k \in 1..Len(Line) : FirstLive(k) /\ Line[k] = d
    BY <2>4, GainsSlot
  <2>6. i < k
    BY <2>3, <2>5 DEF Before
  <2>7. Len(Line) \in Nat
    BY <2>1, LineIndex
  <2>8. i \in 1..(k - 1)
    BY <2>3, <2>5, <2>6, <2>7
  <2> QED
    BY <2>1, <2>3, <2>5, <2>8 DEF FirstLive, Live
<1> QED
  BY <1>1, QueueInvariant, PTL DEF Spec, ServedInOrder

-----------------------------------------------------------------------------
(* The bound.                                                              *)

(* Nobody's place gets worse: what stands in p stood in q no further ahead.*)
Advances(p, q) == \A i \in 1..Len(p) : \E j \in 1..Len(q) : j >= i /\ p[i] = q[j]

LEMMA StaysAdvances ==
  ASSUME NEW S, NEW q \in Seq(S)
  PROVE  Advances(q, q) /\ Advances(<<>>, q)
BY DEF Advances

LEMMA PoppedAdvances ==
  ASSUME NEW S, NEW q \in Seq(S), NEW k \in Int
  PROVE  Advances(Popped(q, k), q)
<1>1. Len(q) \in Nat
  OBVIOUS
<1>2. CASE k <= 0
  BY <1>2, StaysAdvances DEF Popped
<1>3. CASE k > 0
  <2> DEFINE p == SubSeq(q, k + 1, Len(q))
  <2>1. /\ Len(p) = IF k < Len(q) THEN Len(q) - k ELSE 0
        /\ \A i \in 1..(Len(q) - k) : p[i] = q[k + i]
    BY <1>3
  <2>2. Popped(q, k) = p
    BY <1>3 DEF Popped
  <2> HIDE DEF p
  <2>3. ASSUME NEW i \in 1..Len(p)
        PROVE  k + i \in 1..Len(q) /\ k + i >= i /\ p[i] = q[k + i]
    BY <1>1, <1>3, <2>1
  <2> QED
    BY <2>2, <2>3 DEF Advances
<1> QED
  BY <1>2, <1>3

LEMMA WithoutAdvances ==
  ASSUME NEW S, NEW q \in Seq(S), NEW c
  PROVE  Advances(Without(q, c), q)
<1>1. Len(q) \in Nat
  OBVIOUS
<1>2. CASE ~ \E j \in 1..Len(q) : q[j] = c
  BY <1>2, StaysAdvances DEF Without
<1>3. CASE \E j \in 1..Len(q) : q[j] = c
  <2> DEFINE i == CHOOSE j \in 1..Len(q) : q[j] = c
             a == SubSeq(q, 1, i - 1)
             b == SubSeq(q, i + 1, Len(q))
  <2>1. i \in 1..Len(q)
    BY <1>3
  <2>2. Without(q, c) = a \o b
    BY <1>3 DEF Without
  <2> HIDE DEF i
  <2>3. /\ a \in Seq(S) /\ Len(a) = i - 1
        /\ \A j \in 1..(i - 1) : a[j] = q[j]
    BY <1>1, <2>1
  <2>4. /\ b \in Seq(S) /\ Len(b) = Len(q) - i
        /\ \A j \in 1..(Len(q) - i) : b[j] = q[i + j]
    BY <1>1, <2>1
  <2> HIDE DEF a, b
  <2>5. /\ Len(a \o b) = Len(a) + Len(b)
        /\ \A j \in 1..(Len(a) + Len(b)) :
             (a \o b)[j] = IF j <= Len(a) THEN a[j] ELSE b[j - Len(a)]
    BY <2>3, <2>4, ConcatProperties, Zenon
  <2>6. ASSUME NEW j \in 1..Len(a \o b)
        PROVE  \E k \in 1..Len(q) : k >= j /\ (a \o b)[j] = q[k]
    <3>1. CASE j <= Len(a)
      <4>1. j \in 1..(i - 1) /\ j \in 1..Len(q) /\ (a \o b)[j] = a[j]
        BY <1>1, <2>1, <2>3, <2>4, <2>5, <3>1
      <4> QED
        BY <2>3, <4>1
    <3>2. CASE j > Len(a)
      <4>1. /\ j - Len(a) \in 1..(Len(q) - i) /\ (a \o b)[j] = b[j - Len(a)]
            /\ i + (j - Len(a)) = j + 1 /\ j + 1 \in 1..Len(q)
        BY <1>1, <2>1, <2>3, <2>4, <2>5, <3>2
      <4> QED
        BY <2>4, <4>1
    <3> QED
      BY <2>3, <2>1, <3>1, <3>2
  <2> QED
    BY <2>2, <2>6 DEF Advances
<1> QED
  BY <1>2, <1>3

(* Whoever advances, and asks what he asked, is within his bound.          *)
LEMMA AdvancingKeepsBound ==
  ASSUME TypeOK, BoundRespected,
         NEW q, q \in {interactive, normal},
         NEW p, Len(p) \in Nat, Advances(p, q),
         \A d \in Entries(q) : d \in Entries(p) => ask'[d] = ask[d],
         NEW i \in 1..Len(p), ask'[p[i]].limit # NoLimit
  PROVE  i <= ask'[p[i]].limit
<1>1. q \in Seq(Callers) /\ Len(q) \in Nat
  BY DEF TypeOK
<1>2. PICK j \in 1..Len(q) : j >= i /\ p[i] = q[j]
  BY DEF Advances
<1>3. p[i] \in Entries(p) /\ q[j] \in Entries(q) /\ q[j] \in Callers
  BY <1>1 DEF Entries
<1>4. ask'[p[i]] = ask[q[j]]
  BY <1>2, <1>3
<1>5. ask[q[j]].limit \in Limits \cup {NoLimit}
  BY <1>3 DEF TypeOK, Asks
<1>6. ask[q[j]].limit \in Nat
  BY <1>4, <1>5, LimitsAssumption
<1>7. j <= ask[q[j]].limit
  BY <1>4 DEF BoundRespected
<1> QED
  BY <1>1, <1>2, <1>4, <1>6, <1>7

(* Both lists at once.                                                     *)
LEMMA ListsKeepBound ==
  ASSUME TypeOK, TypeOK', BoundRespected,
         Advances(interactive', interactive), Advances(normal', normal),
         \A d \in Listed : d \in Listed' => ask'[d] = ask[d]
  PROVE  BoundRespected'
<1>1. Len(interactive') \in Nat /\ Len(normal') \in Nat
  BY DEF TypeOK
<1>2. /\ Entries(interactive) \subseteq Listed /\ Entries(normal) \subseteq Listed
      /\ Entries(interactive') \subseteq Listed' /\ Entries(normal') \subseteq Listed'
  BY DEF Listed, Entries
<1>3. ASSUME NEW i \in 1..Len(interactive'), ask'[interactive'[i]].limit # NoLimit
      PROVE  i <= ask'[interactive'[i]].limit
  BY <1>1, <1>2, <1>3, AdvancingKeepsBound
<1>4. ASSUME NEW i \in 1..Len(normal'), ask'[normal'[i]].limit # NoLimit
      PROVE  i <= ask'[normal'[i]].limit
  BY <1>1, <1>2, <1>4, AdvancingKeepsBound
<1> QED
  BY <1>3, <1>4 DEF BoundRespected

(* Who gets the slot, and the dead entries ahead of him, leave the lists.  *)
LEMMA DropPermitAdvances ==
  ASSUME TypeOK, NEW c, NEW after, DropPermit(c, after)
  PROVE  Advances(interactive', interactive) /\ Advances(normal', normal)
<1>1. interactive \in Seq(Callers) /\ normal \in Seq(Callers)
  BY DEF TypeOK
<1>2. CASE HandOver(c, after)
  <2>1. PICK k \in 1..Len(Line) : /\ interactive' = Popped(interactive, k)
                                 /\ normal' = Popped(normal, k - Len(interactive))
    BY <1>2 DEF HandOver
  <2>2. k \in Int /\ k - Len(interactive) \in Int
    BY LineIndex
  <2> QED
    BY <1>1, <2>1, <2>2, PoppedAdvances
<1>3. CASE Free(c, after)
  BY <1>1, <1>3, StaysAdvances DEF Free
<1> QED
  BY <1>2, <1>3 DEF DropPermit

(* A caller whose ask changes has no entry.                                *)
LEMMA BoundKept ==
  ASSUME QueueInv, QueueInv', BoundRespected, Next
  PROVE  BoundRespected'
<1>1. /\ TypeOK /\ TypeOK'
      /\ \A d \in Listed : d \in Callers /\ pc[d] \in {"queued", "leaving"}
  BY LineEntries DEF QueueInv, ListsOK
<1>2. /\ Advances(interactive, interactive) /\ Advances(normal, normal)
  BY <1>1, StaysAdvances DEF TypeOK
<1>3. ASSUME NEW c \in Callers, pc[c] \notin {"queued", "leaving"},
             ask' = ask \/ \E a : ask' = [ask EXCEPT ![c] = a]
      PROVE  \A d \in Listed : ask'[d] = ask[d]
  BY <1>1, <1>3 DEF TypeOK
<1>4. ASSUME NEW c \in Callers, pc[c] \notin {"queued", "leaving"},
             ask' = ask \/ \E a : ask' = [ask EXCEPT ![c] = a],
             UNCHANGED lists \/ \E after : DropPermit(c, after)
      PROVE  BoundRespected'
  <2>1. Advances(interactive', interactive) /\ Advances(normal', normal)
    BY <1>1, <1>2, <1>4, DropPermitAdvances DEF lists
  <2> QED
    BY <1>1, <1>3, <1>4, <2>1, ListsKeepBound
<1>5. ASSUME NEW c \in Callers, Join(c)
      PROVE  BoundRespected'
  <2>1. /\ ~IsFull(c) /\ ask' = ask
        /\ \/ interactive' = Append(interactive, c) /\ normal' = normal
           \/ normal' = Append(normal, c) /\ interactive' = interactive
    BY <1>5 DEF Join
  <2>2. /\ interactive \in Seq(Callers) /\ normal \in Seq(Callers)
        /\ Len(interactive) \in Nat /\ Len(normal) \in Nat
    BY <1>1 DEF TypeOK
  <2>3. ASSUME NEW q \in {interactive, normal}, NEW i \in 1..Len(Append(q, c)),
               ask[Append(q, c)[i]].limit # NoLimit
        PROVE  i <= ask[Append(q, c)[i]].limit
    <3>1. CASE i <= Len(q)
      <4>1. Append(q, c)[i] = q[i] /\ i \in 1..Len(q)
        BY <2>2, <3>1
      <4> QED
        BY <2>3, <4>1 DEF BoundRespected
    <3>2. CASE i = Len(q) + 1
      <4>1. Append(q, c)[i] = c
        BY <2>2, <3>2
      <4>2. ask[c].limit \in Limits \cup {NoLimit}
        BY <1>1 DEF TypeOK, Asks
      <4>3. ask[c].limit # NoLimit /\ ask[c].limit \in Nat
        BY <2>3, <4>1, <4>2, LimitsAssumption
      <4>4. Len(interactive) + Len(normal) < ask[c].limit
        BY <2>1, <2>2, <4>3 DEF IsFull, Waiting
      <4> QED
        BY <2>2, <3>2, <4>1, <4>3, <4>4
    <3> QED
      BY <2>2, <3>1, <3>2
  <2> QED
    BY <2>1, <2>3 DEF BoundRespected
<1>6. ASSUME NEW c \in Callers, RemoveEntry(c)
      PROVE  BoundRespected'
  <2>1. /\ interactive' = Without(interactive, c) /\ normal' = Without(normal, c)
        /\ ask' = ask \/ ask' = [ask EXCEPT ![c] = NoAsk]
    BY <1>6 DEF RemoveEntry, Forget
  <2>2. Advances(interactive', interactive) /\ Advances(normal', normal)
    BY <1>1, <2>1, WithoutAdvances DEF TypeOK
  <2>3. c \notin Listed'
    <3>1. /\ interactive \in Seq(Callers) /\ normal \in Seq(Callers)
          /\ Distinct(interactive) /\ Distinct(normal)
      BY DEF QueueInv, ListsOK, TypeOK
    <3>2. c \notin Entries(interactive') /\ c \notin Entries(normal')
      BY <2>1, <3>1, WithoutEntry
    <3> QED
      BY <3>2 DEF Listed, Entries
  <2>4. \A d \in Listed : d \in Listed' => ask'[d] = ask[d]
    BY <1>1, <2>1, <2>3 DEF TypeOK
  <2> QED
    BY <1>1, <2>2, <2>4, ListsKeepBound
<1>7. ASSUME NEW c \in Callers, GiveUp(c)
      PROVE  BoundRespected'
  <2>1. UNCHANGED <<lists, ask>>
    BY <1>7 DEF GiveUp
  <2> QED
    BY <2>1 DEF lists, BoundRespected
<1>8. ASSUME NEW c \in Callers, Waits(c), ~Join(c), ~RemoveEntry(c), ~GiveUp(c)
      PROVE  BoundRespected'
  BY <1>4, <1>8 DEF Waits, LeaseReleased, GiveUpOnStream, TakeFree, RefuseFull, Receive,
                    GiveUpGranted, Forget
<1>9. ASSUME NEW c \in Callers, Runs(c)
      PROVE  BoundRespected'
  BY <1>4, <1>9 DEF Runs, StartRun, Requeue, FinishRun, Forget
<1>10. ASSUME NEW c \in Requests, Request(c)
       PROVE  BoundRespected'
  BY <1>4, <1>10 DEF Request, Arrive, ArriveUnbounded, Callers
<1>11. ASSUME NEW s \in Streams, ClaimStream(s) \/ FreeStreamSlot(s)
       PROVE  BoundRespected'
  BY <1>4, <1>11 DEF ClaimStream, FreeStreamSlot, Callers
<1>12. ASSUME NEW s \in Streams, CommitBuffered(s)
       PROVE  BoundRespected'
  <2>1. s \in Callers /\ pc[s] = "buffered" /\ UNCHANGED lists
    BY <1>12 DEF CommitBuffered, Callers
  <2>2. \E a : ask' = [ask EXCEPT ![s] = a]
    BY <1>12, <2>1 DEF CommitBuffered
  <2> QED
    BY <1>4, <2>1, <2>2
<1>13. ASSUME NEW s \in Streams, Stream(s), ~ClaimStream(s), ~FreeStreamSlot(s),
              ~CommitBuffered(s)
       PROVE  BoundRespected'
  BY <1>4, <1>13 DEF Stream, LeaseModel, StartFails, StartBuffered, StreamBegun,
                     DiscardBuffered, ClearLease, Callers
<1> QED
  BY <1>5, <1>6, <1>7, <1>8, <1>9, <1>10, <1>11, <1>12, <1>13 DEF Next

(* A bounded caller never waits behind more than its bound of its class,   *)
(* however the lists shrink and grow in between (acquire decides Full on   *)
(* the length of both).                                                    *)
THEOREM BoundNeverExceeded == Spec => []BoundRespected
<1>1. Init => BoundRespected
  BY DEF Init, BoundRespected
<1>2. QueueInv /\ QueueInv' /\ BoundRespected /\ [Next]_vars => BoundRespected'
  <2> SUFFICES ASSUME QueueInv, QueueInv', BoundRespected, [Next]_vars
               PROVE  BoundRespected'
    OBVIOUS
  <2>1. CASE UNCHANGED vars
    BY <2>1 DEF vars, lists, BoundRespected
  <2> QED
    BY <2>1, BoundKept
<1> QED
  BY <1>1, <1>2, QueueInvariant, PTL DEF Spec
=============================================================================
