--------------------------- MODULE RequestPipeline ---------------------------
(***************************************************************************)
(* A transcription or translation request from the socket to its answer    *)
(* (transcribe_or_translate in src/api.rs): the network gate, the update   *)
(* gate, the token, the turn, the model, the plan (run_plan.rs), the run   *)
(* with its one retry, the answer (format.rs); beside it the recheck of    *)
(* the network (network.rs) and what is remembered of a model's            *)
(* capabilities (capabilities.rs).                                         *)
(*                                                                         *)
(* The order of the queue is InferenceQueue's, the loading of models and   *)
(* what may be asked for is ModelResidency's, and when a transaction is    *)
(* under way is UpdateTransaction's: here a turn, a load and maintenance   *)
(* just happen.  A language tag is the sequence of its subtags.            *)
(***************************************************************************)
EXTENDS Sequences, SequencesExt

CONSTANTS Requests,    \* clients, each with one request at a time
          Models, Caps, \* what the engine says of a loaded model
          Rejecting,   \* models that reject the timestamps they advertise
          Modes,       \* resolved network modes, or "custom"
          Worlds,      \* what the detectors may find
          Asks,        \* what a request may ask, by mode and client
          Selected,    \* the models that are selected or loaded at startup
          None

Detected == {"lan", "tailscale"}   \* modes whose report is detected live

ASSUME ModeAssumption == Modes \subseteq {"local", "custom"} \cup Detected
ASSUME AskAssumption ==
  /\ Rejecting \subseteq Models /\ Selected \subseteq Models
  /\ \A m \in Modes, r \in Requests :
       Asks[m][r] # {} /\ \A ask \in Asks[m][r] : ask.model \in Models \cup {None}
ASSUME CapsAssumption == \A m \in Models :
  /\ Caps[m].languages \in Seq(Range(Caps[m].languages))
  /\ None \notin Range(Caps[m].languages) /\ Caps[m].targets # None
  /\ Caps[m].timestamps \in {"none", "segment", "word", "token"}
(* None is neither a flag nor a language nor a temperature.                *)
ASSUME NoneAssumption == None \notin BOOLEAN /\ None # "outside" /\ None # <<"en">>

VARIABLES mode,        \* network_mode, or "custom" when a host was given
          world,       \* profiles and Tailscale address as they are now
          probe,       \* the answer of a detection that has not been stored
          report,      \* network_state.effective
          loaded,      \* App::loaded: the model and the mark in its caps
          permit,      \* who holds the turn: a handler, then its worker
          worker,      \* the blocking task of a request that runs
          req          \* the requests

vars == <<mode, world, probe, report, loaded, permit, worker, req>>

Quiet == [pc |-> "idle", ask |-> None, plan |-> None, model |-> None,
          result |-> None, answer |-> None]

------------------------------------------------------------------------------
(* The network.                                                            *)

AllPrivate(profiles) == profiles # {} /\ "public" \notin profiles

(* None is a command that failed, or was killed after its five seconds.    *)
DetectLan(w)       == w.profiles # None /\ AllPrivate(w.profiles)
DetectTailscale(w) == w.address # None

Detect(m, w) ==
  CASE m = "lan"       -> IF DetectLan(w) THEN "lan" ELSE "local"
    [] m = "tailscale" -> IF DetectTailscale(w) THEN "tailscale" ELSE "local"
    [] OTHER           -> m

PeerAllowed(peer) ==
  \/ peer = "loopback"
  \/ mode = "custom"
  \/ mode = "lan" /\ report = "lan"
  \/ mode = "tailscale" /\ report = "tailscale" /\ peer = "tailnet"

Init ==
  /\ mode \in Modes
  /\ world \in Worlds
  /\ probe = None
  /\ report = Detect(mode, world)
  /\ loaded = None
  /\ permit = None
  /\ worker = [r \in Requests |-> None]
  /\ req = [r \in Requests |-> Quiet]

------------------------------------------------------------------------------
(* The plan.                                                               *)

Base(tag) == tag[1]
Canonical(tag) ==
  IF Base(tag) = "nb" THEN "no" ELSE IF Base(tag) = "fil" THEN "tl" ELSE Base(tag)

(* The model's own tag for a hint: by base language first, then by alias.  *)
Matched(hint, languages) ==
  LET base  == SelectInSeq(languages, LAMBDA l : Base(l) = Base(hint))
      alias == SelectInSeq(languages, LAMBDA l : Canonical(l) = Canonical(hint))
  IN IF base # 0 THEN languages[base]
     ELSE IF alias # 0 THEN languages[alias] ELSE None

(* Without a match: detection, then English, then the first language.      *)
Fallback(caps) ==
  LET english == SelectInSeq(caps.languages, LAMBDA l : Base(l) = "en")
  IN IF caps.languages = <<>> \/ caps.detects THEN None
     ELSE IF english # 0 THEN caps.languages[english] ELSE caps.languages[1]

Language(ask, caps) ==
  LET own == IF ask.language = None THEN None ELSE Matched(ask.language, caps.languages)
  IN [tag     |-> IF own # None THEN own ELSE Fallback(caps),
      applied |-> own # None]

IsWhisper(caps) == caps.arch = "whisper" /\ caps.ext

(* Granite's engine never reads the language it is given, which only the   *)
(* view of the capabilities knows.                                         *)
ReadsLanguage(caps) == caps.arch # "granite"
SupportsHint(caps)  == ReadsLanguage(caps) /\ caps.languages # <<>>

(* Granularity: asked for explicitly, or the default of verbose_json.      *)
Explicit(ask) == ask.format = "verbose_json" /\ ask.granularities \cap {"word", "segment"} # {}
Timestamps(ask, caps) ==
  IF ask.format # "verbose_json" THEN "none"
  ELSE IF "word" \in ask.granularities THEN "word"
  ELSE IF "segment" \in ask.granularities \/ caps.timestamps # "none" THEN "segment"
  ELSE "none"

(* The source, as far as it is known before the run.                       *)
Source(ask, caps) ==
  LET tag == Language(ask, caps).tag
  IN IF tag = None /\ Len(caps.languages) = 1 THEN caps.languages[1] ELSE tag
Target(ask)   == IF ask.target = None THEN <<"en">> ELSE ask.target
AlreadyThere(ask, caps) ==
  Source(ask, caps) # None /\ Canonical(Source(ask, caps)) = Canonical(Target(ask))
Offers(caps, tag) == IF caps.targets = {} THEN tag = <<"en">> ELSE tag \in caps.targets

(* The options that get a request refused rather than served without.      *)
Refused(ask, caps) ==
  \/ ask.prompt /\ ~IsWhisper(caps)
  \/ ask.temperature = "outside"
  \/ ask.temperature # None /\ ~IsWhisper(caps)
  \/ ask.format \notin {"json", "text", "verbose_json"}
  \/ Timestamps(ask, caps) = "word" /\ caps.timestamps \notin {"word", "token"}
  \/ Timestamps(ask, caps) = "segment" /\ caps.timestamps = "none"
  \/ ask.translate /\ ~caps.translates
  \/ ask.translate /\ ~AlreadyThere(ask, caps) /\ ~Offers(caps, Target(ask))

Plan(ask, caps) ==
  [language   |-> Language(ask, caps).tag,
   applied    |-> Language(ask, caps).applied,
   prompt     |-> ask.prompt,
   timestamps |-> Timestamps(ask, caps),
   explicit   |-> Explicit(ask),
   target     |-> IF ask.translate /\ ~AlreadyThere(ask, caps) THEN Target(ask) ELSE None]

(* Mutant of MayRetry: any choice may be downgraded.                       *)
MayRetryAny(plan) == plan.timestamps # "none"

MayRetry(plan) == plan.timestamps = "segment" /\ ~plan.explicit

------------------------------------------------------------------------------
(* The steps of a request.                                                 *)

Goto(r, place) == req' = [req EXCEPT ![r].pc = place]
(* An answer, or None: an error.  The next request is a new one.           *)
EndWith(r, answer) ==
  req' = [req EXCEPT ![r] = IF answer = None THEN [Quiet EXCEPT !.pc = "over"]
                            ELSE [Quiet EXCEPT !.pc = "over", !.ask = req[r].ask, !.answer = answer]]

Arrive(r) ==
  /\ req[r].pc \in {"idle", "over"}
  /\ \E ask \in Asks[mode][r] : req' = [req EXCEPT ![r] = [Quiet EXCEPT !.pc = "network", !.ask = ask]]
  /\ UNCHANGED <<mode, world, probe, report, loaded, permit, worker>>

NetworkGate(r) ==
  /\ req[r].pc = "network"
  /\ IF PeerAllowed(req[r].ask.peer) THEN Goto(r, "handler") ELSE EndWith(r, None)
  /\ UNCHANGED <<mode, world, probe, report, loaded, permit, worker>>

Authorized(ask) == ask.token \in {"admin", "user"}

(* No name is the default model's; who asks when there is none is refused. *)
Resolved(ask) == IF ask.model = None THEN Selected ELSE {ask.model}

(* Before the queue: the update gate and the token, then the fields, the   *)
(* audio and whether the model is installed and verified.                  *)
Handle(r) ==
  /\ req[r].pc = "handler"
  /\ \/ /\ Authorized(req[r].ask)
        /\ \E m \in Resolved(req[r].ask) :
             req' = [req EXCEPT ![r].pc = "queue", ![r].model = m]
     \/ EndWith(r, None)
  /\ UNCHANGED <<mode, world, probe, report, loaded, permit, worker>>

TakeTurn(r) ==
  /\ req[r].pc = "queue" /\ permit = None
  /\ permit' = r
  /\ Goto(r, "bind")
  /\ UNCHANGED <<mode, world, probe, report, loaded, worker>>

GiveUpTurn(r) ==
  /\ req[r].pc = "queue"
  /\ EndWith(r, None)
  /\ UNCHANGED <<mode, world, probe, report, loaded, permit, worker>>

Loaded(m) == loaded # None /\ loaded.id = m
(* A model just loaded is believed in what it says of itself.              *)
Fresh(m)  == [id |-> m, rejected |-> FALSE]

Load(r) ==
  /\ req[r].pc = "bind" /\ ~Loaded(req[r].model)
  /\ \/ loaded' = Fresh(req[r].model) /\ UNCHANGED <<req, permit>>
     \/ EndWith(r, None) /\ permit' = None /\ UNCHANGED loaded
  /\ UNCHANGED <<mode, world, probe, report, worker>>

(* The capabilities are copied with the model; the plan is made from them. *)
PlanAndStart(r) ==
  LET m == req[r].model
      ask == req[r].ask
  IN
  /\ req[r].pc = "bind" /\ Loaded(m)
  /\ IF Refused(ask, Caps[m])
       THEN EndWith(r, None) /\ permit' = None /\ UNCHANGED worker
       ELSE /\ req' = [req EXCEPT ![r].pc = "run", ![r].plan = Plan(ask, Caps[m])]
            /\ worker' = [worker EXCEPT ![r] =
                 [plan |-> Plan(ask, Caps[m]), model |-> m, retry |-> FALSE, cancelled |-> FALSE]]
            /\ UNCHANGED permit
  /\ UNCHANGED <<mode, world, probe, report, loaded>>

(* The granularity handed to the engine: none in the retry.                *)
Ran(w) == IF w.retry THEN "none" ELSE w.plan.timestamps
Rejected(w) == w.model \in Rejecting /\ Ran(w) # "none"

(* Whatever a retry fails with, the first error is reported.               *)
Outcomes(w) ==
  IF w.cancelled THEN {"failed"}
  ELSE IF Rejected(w) THEN {"failed"}
  ELSE {"whole", "failed"} \cup (IF w.retry THEN {} ELSE {"partial"})

Retry(r) ==
  LET w == worker[r] IN
  /\ w # None /\ ~w.retry /\ Rejected(w) /\ MayRetry(w.plan)
  /\ worker' = [worker EXCEPT ![r].retry = TRUE]
  /\ UNCHANGED <<mode, world, probe, report, loaded, permit, req>>

(* The permit goes with the worker, whether the handler still waits or not.*)
WorkerEnds(r) ==
  LET w == worker[r] IN
  /\ w # None
  /\ ~(Rejected(w) /\ MayRetry(w.plan) /\ ~w.cancelled)
  /\ \E outcome \in Outcomes(w) :
       req' = IF req[r].pc = "run"
                THEN [req EXCEPT ![r].pc = "format",
                                 ![r].result = [outcome |-> outcome, ran |-> Ran(w),
                                                retried |-> w.retry /\ outcome = "whole"]]
                ELSE req
  /\ worker' = [worker EXCEPT ![r] = None]
  /\ permit' = None
  /\ UNCHANGED <<mode, world, probe, report, loaded>>

(* Dropping the handler cancels its worker, which still has to end.        *)
Cancel(r) == worker' = IF worker[r] = None THEN worker ELSE [worker EXCEPT ![r].cancelled = TRUE]

Timeout(r) ==
  /\ req[r].pc = "run"
  /\ EndWith(r, None)
  /\ Cancel(r)
  /\ UNCHANGED <<mode, world, probe, report, loaded, permit>>

Disconnect(r) ==
  /\ req[r].pc \notin {"idle", "over"}
  /\ EndWith(r, None)
  /\ Cancel(r)
  /\ permit' = IF req[r].pc = "bind" THEN None ELSE permit
  /\ UNCHANGED <<mode, world, probe, report, loaded>>

Evidence(plan, detected) ==
  IF plan.applied THEN "user_selected"
  ELSE IF plan.language # None THEN "model_constrained"
  ELSE IF detected THEN "model_detected" ELSE "unknown"

Diagnostics(r, detected) ==
  LET plan == req[r].plan
  IN [unavailable |-> req[r].result.retried,
      truncated   |-> req[r].result.outcome = "partial",
      hint        |-> IF req[r].ask.language = None THEN None ELSE plan.applied,
      evidence    |-> Evidence(plan, detected),
      language    |-> plan.language,
      target      |-> plan.target,
      prompt      |-> plan.prompt]

(* The language a run was in as far as it was told: None is the engine's   *)
(* own choice.                                                             *)
Heard(plan, caps) == IF ReadsLanguage(caps) THEN plan.language ELSE None

(* What ran, and what the body says of it: text is the bare transcript.    *)
Answer(r, detected) ==
  LET plan == req[r].plan
  IN [model    |-> req[r].model,
      ran      |-> req[r].result.ran,
      whole    |-> req[r].result.outcome = "whole",
      language |-> Heard(plan, Caps[req[r].model]),
      target   |-> plan.target,
      prompt   |-> plan.prompt,
      says     |-> IF req[r].ask.format = "text" THEN None ELSE Diagnostics(r, detected)]

(* What is said of a loaded model's capabilities.                          *)
View(l) ==
  LET caps == Caps[l.id]
  IN [prompt      |-> IsWhisper(caps),
      temperature |-> IsWhisper(caps),
      hint        |-> SupportsHint(caps),
      targets     |-> IF caps.translates THEN caps.targets ELSE None,
      timestamps  |-> IF l.rejected THEN "rejected" ELSE caps.timestamps]

(* Mutant of Mark: whatever is loaded by now is marked.                    *)
MarkLoaded(m, retried) ==
  IF retried /\ loaded # None THEN [loaded EXCEPT !.rejected = TRUE] ELSE loaded

Mark(m, retried) ==
  IF retried /\ Loaded(m) THEN [loaded EXCEPT !.rejected = TRUE] ELSE loaded

Format(r) ==
  /\ req[r].pc = "format"
  /\ IF req[r].result.outcome = "failed"
       THEN EndWith(r, None) /\ UNCHANGED loaded
       ELSE /\ \E detected \in BOOLEAN : EndWith(r, Answer(r, detected))
            /\ loaded' = Mark(req[r].model, req[r].result.retried)
  /\ UNCHANGED <<mode, world, probe, report, permit, worker>>

------------------------------------------------------------------------------
(* Beside the requests.                                                    *)

(* Select, deselect, unload, and the load at startup; not while a request  *)
(* binds, a race that is ModelResidency's.                                 *)
Administer ==
  /\ \A r \in Requests : req[r].pc # "bind"
  /\ loaded' \in {Fresh(m) : m \in Selected} \cup {None}
  /\ UNCHANGED <<mode, world, probe, report, permit, worker, req>>

(* The network changes; only a detected mode looks.                        *)
Roam ==
  /\ mode \in Detected
  /\ world' \in Worlds
  /\ UNCHANGED <<mode, probe, report, loaded, permit, worker, req>>

(* Mutant of Recheck: a detection that fails leaves the last report.       *)
RecheckKeeps ==
  /\ mode \in Detected /\ probe = None
  /\ probe' = IF world.profiles = None THEN report ELSE Detect(mode, world)
  /\ UNCHANGED <<mode, world, report, loaded, permit, worker, req>>

Recheck ==
  /\ mode \in Detected /\ probe = None
  /\ probe' = Detect(mode, world)
  /\ UNCHANGED <<mode, world, report, loaded, permit, worker, req>>

StoreReport ==
  /\ probe # None
  /\ report' = probe
  /\ probe' = None
  /\ UNCHANGED <<mode, world, loaded, permit, worker, req>>

Proceed(r) ==
  NetworkGate(r) \/ Handle(r) \/ Load(r) \/ PlanAndStart(r) \/ Format(r)
Work(r) == Retry(r) \/ WorkerEnds(r)

Next ==
  \/ \E r \in Requests :
       \/ Arrive(r) \/ Proceed(r) \/ Work(r) \/ TakeTurn(r)
       \/ GiveUpTurn(r) \/ Timeout(r) \/ Disconnect(r)
  \/ Administer \/ Roam \/ Recheck \/ StoreReport

Spec == Init /\ [][Next]_vars

(* The timer of the recheck, the runtime, an engine whose runs end, and a  *)
(* queue that serves whoever waits (InferenceQueue).                       *)
FairSpec ==
  /\ Spec
  /\ WF_vars(Recheck) /\ WF_vars(StoreReport)
  /\ \A r \in Requests : WF_vars(Proceed(r)) /\ WF_vars(Work(r)) /\ SF_vars(TakeTurn(r))
------------------------------------------------------------------------------
(* A granularity asked for explicitly is the one that ran, and timestamps  *)
(* go missing only from a default, and are then said to be unavailable     *)
(* (should_retry_without_timestamps in run_plan.rs).                       *)
TimestampsHonoured(ask, a) ==
  /\ Explicit(ask) =>
       /\ a.ran = IF "word" \in ask.granularities THEN "word" ELSE "segment"
       /\ ~a.says.unavailable
  /\ ask.format = "verbose_json" /\ a.ran = "none" =>
       a.says.unavailable \/ Caps[a.model].timestamps = "none"
  /\ a.says # None /\ a.says.unavailable => ask.format = "verbose_json" /\ a.ran = "none"

(* A hint that a language of the model means is the language of the run,   *)
(* in every format, for an engine that reads it.  What JSON says of a hint *)
(* follows the model's list, so on Granite it may say "applied" of a run   *)
(* that never read it; text says nothing (resolve_language, format.rs).    *)
Speaks(caps, tag) == \E i \in DOMAIN caps.languages : Canonical(caps.languages[i]) = Canonical(tag)
Follows(a, tag)   == a.language # None /\ Canonical(a.language) = Canonical(tag)
LanguageHonoured(ask, a) ==
  LET caps == Caps[a.model]
  IN /\ ask.language # None /\ Speaks(caps, ask.language) /\ SupportsHint(caps)
          => Follows(a, ask.language)
     /\ a.says # None =>
          /\ a.says.hint = None <=> ask.language = None
          /\ ask.language # None => (a.says.hint <=> Speaks(caps, ask.language))
          /\ a.says.evidence = "user_selected"
               => ask.language # None /\ (Follows(a, ask.language) \/ ~SupportsHint(caps))

(* A translation is into the language asked for, or the run was in that    *)
(* language to begin with, which on Granite is only assumed; a prompt is   *)
(* used or refused, never dropped; JSON says when the transcript was cut.  *)
OptionsHonoured(ask, a) ==
  LET caps == Caps[a.model]
  IN /\ a.prompt = ask.prompt
     /\ a.target # None => ask.translate /\ a.target = Target(ask)
     /\ ask.translate /\ a.target = None =>
          \E i \in DOMAIN caps.languages :
             /\ Canonical(caps.languages[i]) = Canonical(Target(ask))
             /\ \/ a.language = caps.languages[i]
                \/ Len(caps.languages) = 1
                \/ ~ReadsLanguage(caps)
     /\ a.says # None =>
          /\ a.says.truncated <=> ~a.whole
          /\ a.says.target = a.target /\ a.says.prompt = a.prompt

(* What was asked is what was done, or a JSON answer says otherwise,       *)
(* whichever model was swapped in, whatever the engine rejected and        *)
(* however often it was run.  Two exceptions are named above: a text       *)
(* answer is the bare transcript, in which a hint that nobody speaks and a *)
(* transcript cut short pass unsaid, and Granite ignores the language      *)
(* (api.rs transcribe_or_translate, "an explicit request keeps failing").  *)
AnswerHonoursAsk ==
  \A r \in Requests : req[r].answer # None =>
    /\ TimestampsHonoured(req[r].ask, req[r].answer)
    /\ LanguageHonoured(req[r].ask, req[r].answer)
    /\ OptionsHonoured(req[r].ask, req[r].answer)

(* The view of the capabilities and the planner agree although neither     *)
(* reads the other: nothing the view offers is refused to a request.       *)
Lacks(view, ask) ==
  \/ ask.prompt /\ ~view.prompt
  \/ ask.temperature # None /\ (~view.temperature \/ ask.temperature = "outside")
  \/ ask.format \notin {"json", "text", "verbose_json"}
  \/ Explicit(ask) /\ view.timestamps \in {"rejected", "none"}
  \/ Explicit(ask) /\ "word" \in ask.granularities /\ view.timestamps = "segment"
  \/ ask.translate /\ view.targets = None
  \/ ask.translate /\ view.targets = {} /\ Target(ask) # <<"en">>
  \/ ask.translate /\ view.targets \notin {None, {}} /\ Target(ask) \notin view.targets

(* What the view says of the loaded model is what requests meet: what they *)
(* are refused it does not offer, and only a model whose engine did reject *)
(* its own timestamps is said to, though the mark is set after the turn    *)
(* has gone and other models may have been swapped in and out since        *)
(* (capabilities.rs to_json against run_plan.rs plan; api.rs               *)
(* transcribe_or_translate, mark_timestamp_granularity_rejected).          *)
ViewIsTrue ==
  loaded # None =>
    /\ View(loaded).timestamps = "rejected" => loaded.id \in Rejecting
    /\ \A r \in Requests :
         req[r].pc = "bind" /\ req[r].model = loaded.id /\ Refused(req[r].ask, Caps[loaded.id])
           => Lacks(View(loaded), req[r].ask)

Inside == {"handler", "queue", "bind", "run", "format"}

(* Once the network allows no other device, or cannot be told, for good,   *)
(* requests from other devices come to an end and no more are let in       *)
(* (network.rs: "or a detection failure falls back to local-only"; api.rs  *)
(* network_gate and the periodic recheck).                                 *)
RemoteShutOut ==
  <>[](Detect(mode, world) = "local") =>
    <>[](\A r \in Requests :
           req[r].pc \in Inside => req[r].ask.peer = "loopback")
==============================================================================
