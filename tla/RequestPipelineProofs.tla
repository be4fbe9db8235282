------------------------ MODULE RequestPipelineProofs ------------------------
(***************************************************************************)
(* Proofs about RequestPipeline: for any number of clients, any models     *)
(* with any capabilities and anything they may ask, every answer keeps to  *)
(* what was asked, and what is said of the loaded model's capabilities is  *)
(* what requests meet.                                                     *)
(*                                                                         *)
(* First the operators of the plan, where the work is: a model's language  *)
(* is found by SelectInSeq, and what makes it the right one is that it     *)
(* passes the test it was selected by.  Then the steps: a request carries  *)
(* the plan of its own ask from the worker's start to its answer, although *)
(* a worker outlives the handler that started it.                          *)
(***************************************************************************)
EXTENDS RequestPipeline, WellFoundedInduction, TLAPS

AllAsks == UNION {Asks[m][r] : m \in Modes, r \in Requests}

(* A second run is one that may be made, of a model that rejected a first. *)
RetryFits(plan, m) == MayRetry(plan) /\ m \in Rejecting

(* What the run is reported to have been is what it was.                   *)
ResultFits(result, plan, m) ==
  /\ result.outcome \in {"whole", "partial", "failed"}
  /\ result.retried \in BOOLEAN
  /\ result.retried => RetryFits(plan, m)
  /\ result.outcome # "failed" =>
       result.ran = IF result.retried THEN "none" ELSE plan.timestamps

Honoured(ask, a) ==
  TimestampsHonoured(ask, a) /\ LanguageHonoured(ask, a) /\ OptionsHonoured(ask, a)

(* A request that runs has the plan of its ask for its model, which is not *)
(* refused; once it is over what is left of it is its ask and its answer.  *)
RequestFits(q) ==
  /\ q = [pc |-> q.pc, ask |-> q.ask, plan |-> q.plan, model |-> q.model,
          result |-> q.result, answer |-> q.answer]
  /\ q.pc \notin {"idle", "over"} => q.ask \in AllAsks
  /\ q.pc \in {"queue", "bind", "run", "format"} => q.model \in Models
  /\ q.pc \in {"run", "format"} =>
       q.plan = Plan(q.ask, Caps[q.model]) /\ ~Refused(q.ask, Caps[q.model])
  /\ q.pc = "format" => ResultFits(q.result, q.plan, q.model)
  /\ q.answer # None => Honoured(q.ask, q.answer)

(* The worker a request waits for is its own, and no earlier one.          *)
WorkerFits(w, q) ==
  /\ w = [plan |-> w.plan, model |-> w.model, retry |-> w.retry, cancelled |-> w.cancelled]
  /\ w.retry \in BOOLEAN
  /\ w.retry => RetryFits(w.plan, w.model)
  /\ q.pc = "run" => w.plan = q.plan /\ w.model = q.model

RequestsFit ==
  /\ req = [r \in Requests |-> req[r]]
  /\ worker = [r \in Requests |-> worker[r]]
  /\ \A r \in Requests :
       RequestFits(req[r]) /\ (worker[r] # None => WorkerFits(worker[r], req[r]))

(* Only a model that rejects its timestamps is marked.                     *)
MarkFits ==
  loaded # None =>
    /\ loaded = [id |-> loaded.id, rejected |-> loaded.rejected]
    /\ loaded.id \in Models /\ loaded.rejected \in BOOLEAN
    /\ loaded.rejected => loaded.id \in Rejecting

RequestInv == mode \in Modes /\ RequestsFit /\ MarkFits
------------------------------------------------------------------------------
(* The operators of the plan.                                              *)

(* A set of numbers that is not empty has a least element.                 *)
LEMMA LeastIndex ==
  ASSUME NEW S, S \subseteq Nat, S # {}
  PROVE  Min(S) \in S
<1>1. PICK R : R = {ss \in Nat \X Nat : ss[1] < ss[2]}
  OBVIOUS
<1>2. IsWellFoundedOn(R, Nat)
  BY <1>1, NatLessThanWellFounded, Zenon DEF OpToRel
<1>3. PICK x \in S : \A y \in S : <<y, x>> \notin R
  BY <1>2, WFMin
<1>4. \A y \in Nat, z \in Nat : y < z => <<y, z>> \in R
  BY <1>1
<1>5. ASSUME NEW y \in S  PROVE x =< y
  <2>1. x \in Nat /\ y \in Nat
    BY <1>3
  <2>2. ~(y < x)
    BY <1>3, <1>4, <2>1
  <2>. QED
    BY <2>1, <2>2
<1>. QED
  BY <1>5 DEF Min

(* The languages of a model are tags, and None is not one of them.         *)
LEMMA LanguagesAreTags ==
  ASSUME NEW m \in Models
  PROVE  /\ Len(Caps[m].languages) \in Nat
         /\ DOMAIN Caps[m].languages = 1 .. Len(Caps[m].languages)
         /\ \A i \in DOMAIN Caps[m].languages : Caps[m].languages[i] # None
<1>1. PICK languages : languages = Caps[m].languages
  OBVIOUS
<1>2. PICK T : T = Range(languages)
  OBVIOUS
<1>3. languages \in Seq(T) /\ None \notin T
  BY <1>1, <1>2, CapsAssumption
<1>4. Len(languages) \in Nat /\ DOMAIN languages = 1 .. Len(languages)
  BY <1>3
<1>5. \A i \in DOMAIN languages : languages[i] \in T
  BY <1>2 DEF Range
<1>. QED
  BY <1>1, <1>3, <1>4, <1>5

(* A hint is matched with a language that means it, when there is one.     *)
LEMMA MatchedFits ==
  ASSUME NEW m \in Models, NEW hint
  PROVE  LET own == Matched(hint, Caps[m].languages)
         IN IF own = None THEN ~Speaks(Caps[m], hint)
            ELSE \E i \in DOMAIN Caps[m].languages :
                   own = Caps[m].languages[i] /\ Canonical(own) = Canonical(hint)
<1>1. PICK languages : languages = Caps[m].languages
  OBVIOUS
<1>2. PICK n \in Nat : n = Len(languages) /\ DOMAIN languages = 1 .. n
  BY <1>1, LanguagesAreTags
<1>3. \A i \in 1 .. n : languages[i] # None
  BY <1>1, <1>2, LanguagesAreTags
<1>4. PICK B : B = {i \in 1 .. n : Base(languages[i]) = Base(hint)}
  OBVIOUS
<1>5. PICK A : A = {i \in 1 .. n : Canonical(languages[i]) = Canonical(hint)}
  OBVIOUS
<1>6. B \subseteq A
  BY <1>4, <1>5 DEF Canonical
<1>7. B \subseteq Nat /\ A \subseteq Nat
  BY <1>4, <1>5
<1>8. (B # {} => Min(B) \in B) /\ (A # {} => Min(A) \in A)
  BY <1>7, LeastIndex
<1>9. Matched(hint, languages) =
        IF B # {} THEN languages[Min(B)] ELSE IF A # {} THEN languages[Min(A)] ELSE None
  <2>1. SelectInSeq(languages, LAMBDA l : Base(l) = Base(hint)) =
          IF B # {} THEN Min(B) ELSE 0
    BY <1>2, <1>4 DEF SelectInSeq
  <2>2. SelectInSeq(languages, LAMBDA l : Canonical(l) = Canonical(hint)) =
          IF A # {} THEN Min(A) ELSE 0
    BY <1>2, <1>5 DEF SelectInSeq
  <2>3. (B # {} => Min(B) # 0) /\ (A # {} => Min(A) # 0)
    BY <1>4, <1>5, <1>8
  <2>. QED
    BY <2>1, <2>2, <2>3, Zenon DEF Matched
<1>10. \A i \in A : languages[i] # None /\ Canonical(languages[i]) = Canonical(hint)
  BY <1>3, <1>5
<1>11. A = {} => ~Speaks(Caps[m], hint)
  BY <1>1, <1>2, <1>5 DEF Speaks
<1>12. \A i \in A : i \in DOMAIN languages
  BY <1>2, <1>5
<1>. QED
  BY <1>1, <1>6, <1>8, <1>9, <1>10, <1>11, <1>12

(* Without a match a run is in a language of the model, or in any.         *)
LEMMA FallbackFits ==
  ASSUME NEW m \in Models, Fallback(Caps[m]) # None
  PROVE  \E i \in DOMAIN Caps[m].languages : Fallback(Caps[m]) = Caps[m].languages[i]
<1>1. PICK languages : languages = Caps[m].languages
  OBVIOUS
<1>2. PICK n \in Nat : n = Len(languages) /\ DOMAIN languages = 1 .. n
  BY <1>1, LanguagesAreTags
<1>3. PICK E : E = {i \in 1 .. n : Base(languages[i]) = "en"}
  OBVIOUS
<1>4. E # {} => Min(E) \in E
  BY <1>3, LeastIndex
<1>5. SelectInSeq(languages, LAMBDA l : Base(l) = "en") = IF E # {} THEN Min(E) ELSE 0
  BY <1>2, <1>3 DEF SelectInSeq
<1>6. languages # <<>>
  BY <1>1 DEF Fallback
<1>7. n # 0
  BY <1>1, <1>2, <1>6, CapsAssumption
<1>8. Fallback(Caps[m]) \in {languages[1]} \cup {languages[i] : i \in E}
  <2>1. E # {} => Min(E) # 0
    BY <1>3, <1>4
  <2>. QED
    BY <1>1, <1>4, <1>5, <2>1 DEF Fallback
<1>. QED
  BY <1>1, <1>2, <1>3, <1>7, <1>8

LEMMA LanguageFits ==
  ASSUME NEW m \in Models, NEW ask,
         NEW chosen, chosen = Language(ask, Caps[m])
  PROVE  /\ chosen.applied \in BOOLEAN
         /\ chosen.tag # None => \E i \in DOMAIN Caps[m].languages :
                                   chosen.tag = Caps[m].languages[i]
         /\ ask.language = None => ~chosen.applied
         /\ ask.language # None => (chosen.applied <=> Speaks(Caps[m], ask.language))
         /\ chosen.applied => chosen.tag # None /\ ask.language # None
                              /\ Canonical(chosen.tag) = Canonical(ask.language)
<1>1. PICK own : own = IF ask.language = None THEN None
                       ELSE Matched(ask.language, Caps[m].languages)
  OBVIOUS
<1>2. PICK other : other = Fallback(Caps[m])
  OBVIOUS
<1>3. PICK applied \in BOOLEAN : applied = (own # None)
  OBVIOUS
<1>4. chosen = [tag |-> IF own # None THEN own ELSE other, applied |-> applied]
  BY <1>1, <1>2, <1>3, Zenon DEF Language
<1>5. own # None => /\ ask.language # None
                    /\ \E i \in DOMAIN Caps[m].languages :
                         own = Caps[m].languages[i] /\ Canonical(own) = Canonical(ask.language)
  BY <1>1, MatchedFits
<1>6. own = None /\ ask.language # None => ~Speaks(Caps[m], ask.language)
  BY <1>1, MatchedFits
<1>7. own # None => Speaks(Caps[m], ask.language)
  BY <1>5 DEF Speaks
<1>8. other # None => \E i \in DOMAIN Caps[m].languages : other = Caps[m].languages[i]
  BY <1>2, FallbackFits
<1>9. chosen.applied = applied
  BY <1>4
<1>10. applied <=> own # None
  BY <1>3
<1>11. chosen.applied \in BOOLEAN
  BY <1>4
<1>12. chosen.tag = IF own # None THEN own ELSE other
  BY <1>4
<1>. QED
  BY <1>1, <1>5, <1>6, <1>7, <1>8, <1>9, <1>11, <1>12, <1>10

LEMMA SourceFits ==
  ASSUME NEW m \in Models, NEW ask, Source(ask, Caps[m]) # None
  PROVE  \E i \in DOMAIN Caps[m].languages :
           /\ Source(ask, Caps[m]) = Caps[m].languages[i]
           /\ \/ Language(ask, Caps[m]).tag = Caps[m].languages[i]
              \/ Len(Caps[m].languages) = 1
<1>1. PICK tag : tag = Language(ask, Caps[m]).tag
  OBVIOUS
<1>2. tag # None => \E i \in DOMAIN Caps[m].languages : tag = Caps[m].languages[i]
  BY <1>1, LanguageFits
<1>3. Len(Caps[m].languages) = 1 => 1 \in DOMAIN Caps[m].languages
  BY LanguagesAreTags
<1>4. Source(ask, Caps[m]) =
        IF tag = None /\ Len(Caps[m].languages) = 1 THEN Caps[m].languages[1] ELSE tag
  BY <1>1 DEF Source
<1>. QED
  BY <1>1, <1>2, <1>3, <1>4

(* The answer made from the plan of an ask that is not refused, after one  *)
(* run or two, keeps to the ask; text says nothing.                        *)
LEMMA PlannedIsHonoured ==
  ASSUME NEW m \in Models, NEW ask, ~Refused(ask, Caps[m]),
         NEW plan, plan = Plan(ask, Caps[m]),
         NEW retried \in BOOLEAN, retried => RetryFits(plan, m),
         NEW a, a.model = m, a.language = Heard(plan, Caps[m]),
         a.ran = (IF retried THEN "none" ELSE plan.timestamps),
         a.target = plan.target, a.prompt = plan.prompt,
         ask.format = "text" => a.says = None,
         ask.format # "text" =>
           /\ a.says.unavailable = retried
           /\ a.says.truncated <=> ~a.whole
           /\ a.says.hint = (IF ask.language = None THEN None ELSE plan.applied)
           /\ a.says.evidence = "user_selected" => plan.applied
           /\ a.says.target = plan.target /\ a.says.prompt = plan.prompt
  PROVE  TimestampsHonoured(ask, a) /\ LanguageHonoured(ask, a) /\ OptionsHonoured(ask, a)
<1>1. plan.timestamps = Timestamps(ask, Caps[m]) /\ plan.explicit = Explicit(ask)
      /\ plan.prompt = ask.prompt
      /\ plan.language = Language(ask, Caps[m]).tag
      /\ plan.applied = Language(ask, Caps[m]).applied
      /\ plan.target = (IF ask.translate /\ ~AlreadyThere(ask, Caps[m])
                        THEN Target(ask) ELSE None)
  BY Zenon DEF Plan
<1>2. TimestampsHonoured(ask, a)
  <2>1. CASE ask.format = "text"
    BY <1>1, <2>1 DEF TimestampsHonoured, Timestamps, Explicit
  <2>2. CASE ask.format # "text"
    BY <1>1, <2>2 DEF TimestampsHonoured, Timestamps, Explicit, RetryFits, MayRetry
  <2>. QED
    BY <2>1, <2>2
<1>3. LanguageHonoured(ask, a)
  <2>1. PICK chosen : chosen = Language(ask, Caps[m])
    OBVIOUS
  <2>2. /\ chosen.applied \in BOOLEAN
        /\ ask.language = None => ~chosen.applied
        /\ ask.language # None => (chosen.applied <=> Speaks(Caps[m], ask.language))
        /\ chosen.applied => chosen.tag # None /\ ask.language # None
                             /\ Canonical(chosen.tag) = Canonical(ask.language)
    BY <2>1, LanguageFits
  <2>3. plan.language = chosen.tag /\ plan.applied = chosen.applied
    BY <1>1, <2>1
  <2>4. ReadsLanguage(Caps[m]) => a.language = chosen.tag
    BY <2>3 DEF Heard
  <2>5. SupportsHint(Caps[m]) /\ chosen.applied => Follows(a, ask.language)
    BY <2>2, <2>4 DEF SupportsHint, Follows
  <2>6. a.says # None =>
          /\ a.says.hint = (IF ask.language = None THEN None ELSE chosen.applied)
          /\ a.says.evidence = "user_selected" => chosen.applied
    BY <2>3
  <2>. QED
    BY <2>2, <2>5, <2>6, NoneAssumption DEF LanguageHonoured
<1>4. OptionsHonoured(ask, a)
  <2>1. Target(ask) # None
    BY NoneAssumption DEF Target
  <2>2. AlreadyThere(ask, Caps[m]) =>
          \E i \in DOMAIN Caps[m].languages :
            /\ Canonical(Caps[m].languages[i]) = Canonical(Target(ask))
            /\ plan.language = Caps[m].languages[i] \/ Len(Caps[m].languages) = 1
    BY <1>1, SourceFits DEF AlreadyThere
  <2>3. ReadsLanguage(Caps[m]) => a.language = plan.language
    BY DEF Heard
  <2>. QED
    BY <1>1, <2>1, <2>2, <2>3 DEF OptionsHonoured
<1>. QED
  BY <1>2, <1>3, <1>4

(* What a loaded model is said to be capable of is what is not refused.    *)
LEMMA RefusedIsLacking ==
  ASSUME NEW l, l.id \in Models, NEW ask, Refused(ask, Caps[l.id])
  PROVE  Lacks(View(l), ask)
<1>1. PICK caps : caps = Caps[l.id]
  OBVIOUS
<1>2. caps.timestamps \in {"none", "segment", "word", "token"} /\ caps.targets # None
  BY <1>1, CapsAssumption
<1>3. PICK view : view = View(l)
  OBVIOUS
<1>4. /\ view.prompt = IsWhisper(caps) /\ view.temperature = IsWhisper(caps)
      /\ view.targets = (IF caps.translates THEN caps.targets ELSE None)
      /\ view.timestamps = (IF l.rejected THEN "rejected" ELSE caps.timestamps)
  BY <1>1, <1>3, Zenon DEF View
<1>. QED
  BY <1>1, <1>2, <1>3, <1>4, NoneAssumption
     DEF Refused, Lacks, Timestamps, Explicit, Offers, Target

------------------------------------------------------------------------------
(* The steps.                                                              *)

(* A step changes one request and its worker.                              *)
LEMMA OneMoves ==
  ASSUME RequestsFit, NEW r \in Requests,
         NEW q, RequestFits(q), req' = [req EXCEPT ![r] = q],
         NEW w, w # None => WorkerFits(w, q), worker' = [worker EXCEPT ![r] = w]
  PROVE  RequestsFit'
  BY DEF RequestsFit

LEMMA RequestMoves ==
  ASSUME RequestsFit, NEW r \in Requests,
         NEW q, RequestFits(q), req' = [req EXCEPT ![r] = q],
         worker' = worker, q.pc # "run"
  PROVE  RequestsFit'
<1>1. PICK w : w = worker[r] /\ worker' = [worker EXCEPT ![r] = w]
  BY DEF RequestsFit
<1>2. w # None => WorkerFits(w, q)
  BY <1>1 DEF RequestsFit, WorkerFits
<1>. QED
  BY <1>1, <1>2, OneMoves

(* What is over without an answer leaves no trace but its worker.          *)
LEMMA EndsEmpty ==
  ASSUME RequestsFit, NEW r \in Requests, EndWith(r, None),
         \/ worker' = worker
         \/ Cancel(r)
         \/ worker' = [worker EXCEPT ![r] = None]
  PROVE  RequestsFit'
<1>1. PICK q : q = [pc |-> "over", ask |-> None, plan |-> None, model |-> None,
                    result |-> None, answer |-> None]
  OBVIOUS
<1>2. q = [Quiet EXCEPT !.pc = "over"]
  BY <1>1 DEF Quiet
<1>3. req' = [req EXCEPT ![r] = q]
  BY <1>2 DEF EndWith
<1>4. RequestFits(q) /\ q.pc = "over"
  BY <1>1 DEF RequestFits
<1>5. CASE worker' = worker
  BY <1>3, <1>4, <1>5, RequestMoves
<1>6. CASE Cancel(r) /\ worker[r] # None
  <2>1. PICK w : w = [worker[r] EXCEPT !.cancelled = TRUE]
    OBVIOUS
  <2>2. WorkerFits(worker[r], req[r])
    BY <1>6 DEF RequestsFit
  <2>3. WorkerFits(w, q)
    BY <1>4, <2>1, <2>2 DEF WorkerFits
  <2>4. worker' = [worker EXCEPT ![r] = w]
    BY <1>6, <2>1 DEF Cancel
  <2>. QED
    BY <1>3, <1>4, <2>3, <2>4, OneMoves
<1>7. CASE Cancel(r) /\ worker[r] = None
  BY <1>3, <1>4, <1>7, RequestMoves DEF Cancel
<1>8. CASE worker' = [worker EXCEPT ![r] = None]
  BY <1>3, <1>4, <1>8, OneMoves
<1>. QED
  BY <1>5, <1>6, <1>7, <1>8

LEMMA ArriveFits ==
  ASSUME RequestInv, NEW r \in Requests, Arrive(r)
  PROVE  RequestsFit'
<1>1. PICK ask \in AllAsks :
        req' = [req EXCEPT ![r] = [Quiet EXCEPT !.pc = "network", !.ask = ask]]
  <2>1. PICK ask \in Asks[mode][r] :
          req' = [req EXCEPT ![r] = [Quiet EXCEPT !.pc = "network", !.ask = ask]]
    BY DEF Arrive
  <2>2. ask \in AllAsks
    BY <2>1 DEF RequestInv, AllAsks
  <2>. QED
    BY <2>1, <2>2
<1>2. PICK q : q = [Quiet EXCEPT !.pc = "network", !.ask = ask]
  OBVIOUS
<1>3. RequestFits(q) /\ q.pc = "network"
  BY <1>2 DEF RequestFits, Quiet
<1>. QED
  BY <1>1, <1>2, <1>3, RequestMoves DEF Arrive, RequestInv

(* On its way to the engine a request changes place, and gets its model.   *)
LEMMA GoesOn ==
  ASSUME RequestsFit, NEW r \in Requests, UNCHANGED worker,
         \/ req[r].pc = "network" /\ Goto(r, "handler")
         \/ req[r].pc = "queue" /\ Goto(r, "bind")
  PROVE  RequestsFit'
<1>1. PICK place \in {"handler", "bind"} :
        /\ req' = [req EXCEPT ![r].pc = place]
        /\ place = "bind" => req[r].pc = "queue"
        /\ req[r].pc \notin {"idle", "over"}
  BY DEF Goto
<1>2. PICK q : q = [req[r] EXCEPT !.pc = place]
  OBVIOUS
<1>3. RequestFits(req[r]) /\ req' = [req EXCEPT ![r] = q]
  BY <1>1, <1>2 DEF RequestsFit
<1>4. RequestFits(q) /\ q.pc = place
  BY <1>1, <1>2, <1>3 DEF RequestFits
<1>. QED
  BY <1>1, <1>3, <1>4, RequestMoves

LEMMA HandleFits ==
  ASSUME RequestInv, NEW r \in Requests, Handle(r), ~EndWith(r, None)
  PROVE  RequestsFit'
<1>1. RequestFits(req[r]) /\ req[r].pc = "handler"
  BY DEF Handle, RequestInv, RequestsFit
<1>2. PICK m \in Resolved(req[r].ask) : req' = [req EXCEPT ![r].pc = "queue", ![r].model = m]
  BY DEF Handle
<1>3. m \in Models
  <2>1. req[r].ask \in AllAsks
    BY <1>1 DEF RequestFits
  <2>2. req[r].ask.model \in Models \cup {None}
    BY <2>1, AskAssumption DEF AllAsks
  <2>. QED
    BY <1>2, <2>2, AskAssumption DEF Resolved
<1>4. PICK q : q = [req[r] EXCEPT !.pc = "queue", !.model = m]
  OBVIOUS
<1>5. req' = [req EXCEPT ![r] = q]
  BY <1>2, <1>4 DEF RequestInv, RequestsFit
<1>6. RequestFits(q) /\ q.pc = "queue"
  BY <1>1, <1>3, <1>4 DEF RequestFits
<1>. QED
  BY <1>5, <1>6, RequestMoves DEF Handle, RequestInv

(* The worker starts with the plan the request was given.                  *)
LEMMA PlanFits ==
  ASSUME RequestInv, NEW r \in Requests, PlanAndStart(r),
         ~Refused(req[r].ask, Caps[req[r].model])
  PROVE  RequestsFit'
<1>1. RequestFits(req[r]) /\ req[r].pc = "bind"
  BY DEF PlanAndStart, RequestInv, RequestsFit
<1>2. PICK m : m = req[r].model
  OBVIOUS
<1>3. PICK plan : plan = Plan(req[r].ask, Caps[m])
  OBVIOUS
<1>4. PICK w : w = [plan |-> plan, model |-> m, retry |-> FALSE, cancelled |-> FALSE]
  OBVIOUS
<1>5. /\ req' = [req EXCEPT ![r].pc = "run", ![r].plan = plan]
      /\ worker' = [worker EXCEPT ![r] = w]
  BY <1>2, <1>3, <1>4 DEF PlanAndStart
<1>6. PICK q : q = [req[r] EXCEPT !.pc = "run", !.plan = plan]
  OBVIOUS
<1>7. req' = [req EXCEPT ![r] = q]
  BY <1>5, <1>6 DEF RequestInv, RequestsFit
<1>8. RequestFits(q) /\ q.plan = plan /\ q.model = m
  BY <1>1, <1>2, <1>3, <1>6 DEF RequestFits
<1>9. WorkerFits(w, q)
  BY <1>4, <1>8 DEF WorkerFits
<1>. QED
  BY <1>5, <1>7, <1>8, <1>9, OneMoves DEF RequestInv

LEMMA RetryMayBe ==
  ASSUME RequestInv, NEW r \in Requests, Retry(r)
  PROVE  RequestsFit'
<1>1. RequestFits(req[r]) /\ WorkerFits(worker[r], req[r])
  BY DEF Retry, RequestInv, RequestsFit
<1>2. PICK w : w = [worker[r] EXCEPT !.retry = TRUE]
  OBVIOUS
<1>3. worker' = [worker EXCEPT ![r] = w] /\ req' = [req EXCEPT ![r] = req[r]]
  BY <1>2 DEF Retry, RequestInv, RequestsFit
<1>4. RetryFits(worker[r].plan, worker[r].model)
  BY DEF Retry, Rejected, RetryFits
<1>5. WorkerFits(w, req[r])
  BY <1>1, <1>2, <1>4 DEF WorkerFits
<1>. QED
  BY <1>1, <1>3, <1>5, OneMoves DEF RequestInv

(* Only a worker that its request still waits for says what it ran.        *)
LEMMA WorkerEndFits ==
  ASSUME RequestInv, NEW r \in Requests, WorkerEnds(r)
  PROVE  RequestsFit'
<1>1. PICK w : w = worker[r]
  OBVIOUS
<1>2. RequestFits(req[r]) /\ WorkerFits(w, req[r])
  BY <1>1 DEF WorkerEnds, RequestInv, RequestsFit
<1>3. worker' = [worker EXCEPT ![r] = None]
  BY DEF WorkerEnds
<1>4. CASE req[r].pc # "run"
  <2>1. req' = [req EXCEPT ![r] = req[r]]
    BY <1>4 DEF WorkerEnds, RequestInv, RequestsFit
  <2>. QED
    BY <1>2, <1>3, <2>1, OneMoves DEF RequestInv
<1>5. CASE req[r].pc = "run"
  <2>1. PICK outcome \in Outcomes(w) :
          req' = [req EXCEPT ![r].pc = "format",
                             ![r].result = [outcome |-> outcome, ran |-> Ran(w),
                                            retried |-> w.retry /\ outcome = "whole"]]
    BY <1>1, <1>5 DEF WorkerEnds
  <2>2. PICK retried \in BOOLEAN : retried = (w.retry /\ outcome = "whole")
    OBVIOUS
  <2>3. PICK result : result = [outcome |-> outcome, ran |-> Ran(w), retried |-> retried]
    OBVIOUS
  <2>4. PICK q : q = [req[r] EXCEPT !.pc = "format", !.result = result]
    OBVIOUS
  <2>5. req' = [req EXCEPT ![r] = q]
    BY <2>1, <2>2, <2>3, <2>4, Zenon DEF RequestInv, RequestsFit
  <2>6. ResultFits(result, w.plan, w.model)
    BY <1>2, <2>1, <2>2, <2>3 DEF ResultFits, Outcomes, Ran, WorkerFits
  <2>7. w.plan = req[r].plan /\ w.model = req[r].model
    BY <1>2, <1>5 DEF WorkerFits
  <2>8. RequestFits(q)
    BY <1>2, <1>5, <2>4, <2>6, <2>7 DEF RequestFits
  <2>. QED
    BY <1>3, <2>5, <2>8, OneMoves DEF RequestInv
<1>. QED
  BY <1>4, <1>5

(* The answer keeps to the ask, for the plan does.                         *)
LEMMA FormatFits ==
  ASSUME RequestInv, NEW r \in Requests, Format(r), ~EndWith(r, None)
  PROVE  RequestsFit'
<1>1. RequestFits(req[r]) /\ req[r].pc = "format"
  BY DEF Format, RequestInv, RequestsFit
<1>2. PICK detected \in BOOLEAN : EndWith(r, Answer(r, detected))
  BY DEF Format
<1>3. req[r].result.outcome # "failed"
  BY DEF Format
<1>4. PICK ask : ask = req[r].ask
  OBVIOUS
<1>5. PICK plan : plan = req[r].plan
  OBVIOUS
<1>6. PICK m \in Models : m = req[r].model
  BY <1>1 DEF RequestFits
<1>7. PICK result : result = req[r].result
  OBVIOUS
<1>8. PICK a : a = Answer(r, detected)
  OBVIOUS
<1>9. /\ ~Refused(ask, Caps[m]) /\ plan = Plan(ask, Caps[m])
      /\ ResultFits(result, plan, m)
  BY <1>1, <1>4, <1>5, <1>6, <1>7 DEF RequestFits
<1>10. PICK says : says =
         [unavailable |-> result.retried, truncated |-> result.outcome = "partial",
          hint |-> IF ask.language = None THEN None ELSE plan.applied,
          evidence |-> Evidence(plan, detected), language |-> plan.language,
          target |-> plan.target, prompt |-> plan.prompt]
  OBVIOUS
<1>11. a = [model |-> m, ran |-> result.ran, whole |-> result.outcome = "whole",
            language |-> Heard(plan, Caps[m]), target |-> plan.target,
            prompt |-> plan.prompt,
            says |-> IF ask.format = "text" THEN None ELSE says]
  BY <1>4, <1>5, <1>6, <1>7, <1>8, <1>10, Zenon DEF Answer, Diagnostics
<1>12. Honoured(ask, a)
  <2>1. Evidence(plan, detected) = "user_selected" => plan.applied
    BY DEF Evidence
  <2>2. /\ result.retried \in BOOLEAN
        /\ result.retried => RetryFits(plan, m)
        /\ result.ran = IF result.retried THEN "none" ELSE plan.timestamps
        /\ result.outcome = "whole" \/ result.outcome = "partial"
    BY <1>3, <1>7, <1>9 DEF ResultFits
  <2>3. /\ a.model = m /\ a.language = Heard(plan, Caps[m])
        /\ a.ran = result.ran /\ a.whole = (result.outcome = "whole")
        /\ a.target = plan.target /\ a.prompt = plan.prompt
        /\ a.says = (IF ask.format = "text" THEN None ELSE says)
    BY <1>11, Zenon
  <2>4. /\ says.unavailable = result.retried
        /\ says.truncated = (result.outcome = "partial")
        /\ says.hint = (IF ask.language = None THEN None ELSE plan.applied)
        /\ says.evidence = Evidence(plan, detected)
        /\ says.target = plan.target /\ says.prompt = plan.prompt
    BY <1>10, Zenon
  <2>5. says.truncated <=> ~a.whole
    BY <2>2, <2>3, <2>4
  <2>6. ask.format # "text" =>
          /\ a.says.unavailable = result.retried
          /\ a.says.truncated <=> ~a.whole
          /\ a.says.hint = (IF ask.language = None THEN None ELSE plan.applied)
          /\ a.says.evidence = "user_selected" => plan.applied
          /\ a.says.target = plan.target /\ a.says.prompt = plan.prompt
    BY <2>1, <2>3, <2>4, <2>5, Zenon
  <2>7. a.ran = (IF result.retried THEN "none" ELSE plan.timestamps)
    BY <2>2, <2>3
  <2>8. ask.format = "text" => a.says = None
    BY <2>3
  <2>. QED
    BY <1>9, <2>2, <2>3, <2>6, <2>7, <2>8, PlannedIsHonoured DEF Honoured
<1>13. PICK q : q = [pc |-> "over", ask |-> ask, plan |-> None, model |-> None,
                     result |-> None, answer |-> a]
  OBVIOUS
<1>14. req' = [req EXCEPT ![r] = q]
  BY <1>2, <1>4, <1>8, <1>13 DEF EndWith, Quiet, Format
<1>15. RequestFits(q) /\ q.pc = "over"
  BY <1>12, <1>13 DEF RequestFits
<1>. QED
  BY <1>14, <1>15, RequestMoves DEF Format, RequestInv

(* A mark is set by an answer that took two runs, on the model it ran.     *)
LEMMA MarkStaysTrue ==
  ASSUME RequestInv, Next
  PROVE  MarkFits'
<1>1. ASSUME NEW m \in Models, loaded' = Fresh(m)  PROVE MarkFits'
  BY <1>1 DEF MarkFits, Fresh
<1>2. CASE UNCHANGED loaded
  BY <1>2 DEF RequestInv, MarkFits
<1>3. CASE loaded' = None
  BY <1>3 DEF MarkFits
<1>4. CASE Administer
  <2>1. loaded' = None \/ \E m \in Models : loaded' = Fresh(m)
    BY <1>4, AskAssumption DEF Administer
  <2>. QED
    BY <1>1, <1>3, <2>1
<1>5. ASSUME NEW r \in Requests, Load(r)  PROVE MarkFits'
  <2>1. RequestFits(req[r]) /\ req[r].pc = "bind"
    BY <1>5 DEF Load, RequestInv, RequestsFit
  <2>2. req[r].model \in Models
    BY <2>1 DEF RequestFits
  <2>. QED
    BY <1>1, <1>2, <1>5, <2>2 DEF Load
<1>6. ASSUME NEW r \in Requests, Format(r)  PROVE MarkFits'
  <2>1. RequestFits(req[r]) /\ req[r].pc = "format"
    BY <1>6 DEF Format, RequestInv, RequestsFit
  <2>2. req[r].result.retried => req[r].model \in Rejecting
    BY <2>1 DEF RequestFits, ResultFits, RetryFits
  <2>3. UNCHANGED loaded \/ loaded' = Mark(req[r].model, req[r].result.retried)
    BY <1>6 DEF Format
  <2>4. CASE /\ req[r].result.retried /\ Loaded(req[r].model)
             /\ loaded' = [loaded EXCEPT !.rejected = TRUE]
    BY <2>2, <2>4 DEF RequestInv, MarkFits, Loaded
  <2>. QED
    BY <1>2, <2>3, <2>4 DEF Mark
<1>7. ASSUME NEW r \in Requests,
             \/ Arrive(r) \/ NetworkGate(r) \/ Handle(r) \/ PlanAndStart(r) \/ Work(r)
             \/ TakeTurn(r) \/ GiveUpTurn(r) \/ Timeout(r) \/ Disconnect(r)
      PROVE  UNCHANGED loaded
  BY <1>7
     DEF Arrive, NetworkGate, Handle, PlanAndStart, Work, Retry, WorkerEnds, TakeTurn,
         GiveUpTurn, Timeout, Disconnect
<1>8. CASE Roam \/ Recheck \/ StoreReport
  BY <1>2, <1>8 DEF Roam, Recheck, StoreReport
<1>. QED
  BY <1>2, <1>4, <1>5, <1>6, <1>7, <1>8 DEF Next, Proceed

LEMMA RequestsStayFit ==
  ASSUME RequestInv, Next
  PROVE  RequestsFit'
<1>1. RequestsFit
  BY DEF RequestInv
<1>2. CASE UNCHANGED <<req, worker>>
  BY <1>1, <1>2 DEF RequestsFit
<1>3. ASSUME NEW r \in Requests, Arrive(r)  PROVE RequestsFit'
  BY <1>3, ArriveFits
<1>4. ASSUME NEW r \in Requests, NetworkGate(r)  PROVE RequestsFit'
  BY <1>1, <1>4, GoesOn, EndsEmpty DEF NetworkGate
<1>5. ASSUME NEW r \in Requests, Handle(r)  PROVE RequestsFit'
  <2>1. UNCHANGED worker
    BY <1>5 DEF Handle
  <2>. QED
    BY <1>1, <1>5, <2>1, HandleFits, EndsEmpty
<1>6. ASSUME NEW r \in Requests, TakeTurn(r)  PROVE RequestsFit'
  BY <1>1, <1>6, GoesOn DEF TakeTurn
<1>7. ASSUME NEW r \in Requests, GiveUpTurn(r)  PROVE RequestsFit'
  BY <1>1, <1>7, EndsEmpty DEF GiveUpTurn
<1>8. ASSUME NEW r \in Requests, Load(r)  PROVE RequestsFit'
  BY <1>1, <1>2, <1>8, EndsEmpty DEF Load
<1>9. ASSUME NEW r \in Requests, PlanAndStart(r)  PROVE RequestsFit'
  <2>1. CASE Refused(req[r].ask, Caps[req[r].model])
    BY <1>1, <1>9, <2>1, EndsEmpty DEF PlanAndStart
  <2>. QED
    BY <1>9, <2>1, PlanFits
<1>10. ASSUME NEW r \in Requests, Work(r)  PROVE RequestsFit'
  BY <1>10, RetryMayBe, WorkerEndFits DEF Work
<1>11. ASSUME NEW r \in Requests, Timeout(r) \/ Disconnect(r)  PROVE RequestsFit'
  BY <1>1, <1>11, EndsEmpty DEF Timeout, Disconnect
<1>12. ASSUME NEW r \in Requests, Format(r)  PROVE RequestsFit'
  <2>1. UNCHANGED worker
    BY <1>12 DEF Format
  <2>. QED
    BY <1>1, <1>12, <2>1, FormatFits, EndsEmpty
<1>13. CASE Administer \/ Roam \/ Recheck \/ StoreReport
  BY <1>2, <1>13 DEF Administer, Roam, Recheck, StoreReport
<1>. QED
  BY <1>3, <1>4, <1>5, <1>6, <1>7, <1>8, <1>9, <1>10, <1>11, <1>12, <1>13
     DEF Next, Proceed

LEMMA ModeStays ==
  ASSUME Next
  PROVE  UNCHANGED mode
<1>1. ASSUME NEW r \in Requests,
             \/ Arrive(r) \/ NetworkGate(r) \/ Handle(r) \/ Load(r) \/ PlanAndStart(r)
             \/ Format(r)
      PROVE  UNCHANGED mode
  BY <1>1 DEF Arrive, NetworkGate, Handle, Load, PlanAndStart, Format
<1>2. ASSUME NEW r \in Requests,
             Work(r) \/ TakeTurn(r) \/ GiveUpTurn(r) \/ Timeout(r) \/ Disconnect(r)
      PROVE  UNCHANGED mode
  BY <1>2 DEF Work, Retry, WorkerEnds, TakeTurn, GiveUpTurn, Timeout, Disconnect
<1>3. CASE Administer \/ Roam \/ Recheck \/ StoreReport
  BY <1>3 DEF Administer, Roam, Recheck, StoreReport
<1>. QED
  BY <1>1, <1>2, <1>3 DEF Next, Proceed

LEMMA RequestInit == Init => RequestInv
<1>. SUFFICES ASSUME Init  PROVE RequestInv
  OBVIOUS
<1>1. Quiet.pc = "idle" /\ RequestFits(Quiet)
  BY DEF Quiet, RequestFits
<1>2. RequestsFit
  BY <1>1 DEF Init, RequestsFit
<1>. QED
  BY <1>2 DEF Init, RequestInv, MarkFits

LEMMA RequestStep == RequestInv /\ [Next]_vars => RequestInv'
<1>. SUFFICES ASSUME RequestInv, [Next]_vars  PROVE RequestInv'
  OBVIOUS
<1>1. CASE Next
  BY <1>1, MarkStaysTrue, RequestsStayFit, ModeStays DEF RequestInv
<1>2. CASE UNCHANGED vars
  BY <1>2 DEF vars, RequestInv, RequestsFit, MarkFits
<1>. QED
  BY <1>1, <1>2

LEMMA RequestAlways == Spec => []RequestInv
  BY RequestInit, RequestStep, PTL DEF Spec

------------------------------------------------------------------------------

(* Every answer keeps to what was asked, whichever model was swapped in,   *)
(* whatever the engine rejected and however often it was run               *)
(* (transcribe_or_translate in api.rs, plan in run_plan.rs).               *)
THEOREM AnswersHonourAsks == Spec => []AnswerHonoursAsk
<1>1. RequestInv => AnswerHonoursAsk
  BY DEF RequestInv, RequestsFit, RequestFits, Honoured, AnswerHonoursAsk
<1>. QED
  BY <1>1, RequestAlways, PTL

(* Nothing that the view of the loaded model offers is refused, and only a *)
(* model that rejects its timestamps is said to (EffectiveCaps::to_json in *)
(* capabilities.rs against plan in run_plan.rs).                           *)
THEOREM ViewAlwaysTrue == Spec => []ViewIsTrue
<1>1. ASSUME RequestInv  PROVE ViewIsTrue
  <2>. SUFFICES ASSUME loaded # None
       PROVE  /\ View(loaded).timestamps = "rejected" => loaded.id \in Rejecting
              /\ \A r \in Requests :
                   req[r].pc = "bind" /\ req[r].model = loaded.id
                     /\ Refused(req[r].ask, Caps[loaded.id])
                     => Lacks(View(loaded), req[r].ask)
    BY DEF ViewIsTrue
  <2>1. /\ loaded.id \in Models /\ loaded.rejected \in BOOLEAN
        /\ loaded.rejected => loaded.id \in Rejecting
    BY <1>1 DEF RequestInv, MarkFits
  <2>2. View(loaded).timestamps \in {"rejected", Caps[loaded.id].timestamps}
        /\ (~loaded.rejected => View(loaded).timestamps = Caps[loaded.id].timestamps)
    BY DEF View
  <2>3. Caps[loaded.id].timestamps # "rejected"
    BY <2>1, CapsAssumption
  <2>. QED
    BY <2>1, <2>2, <2>3, RefusedIsLacking
<1>. QED
  BY <1>1, RequestAlways, PTL
=============================================================================
