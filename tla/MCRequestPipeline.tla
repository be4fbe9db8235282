------------------------- MODULE MCRequestPipeline -------------------------
(* RequestPipeline for TLC: four models, and two clients.  Other devices   *)
(* ask for something plain; the options are varied from loopback.          *)
EXTENDS RequestPipeline

en == <<"en">>
no == <<"no">>
Tags == {<<"en", "US">>, <<"nb">>, <<"xx">>, None}

(* whisper detects and translates into English; canary advertises its      *)
(* targets and detects nothing; tiny knows one language and no timestamps; *)
(* granite ignores the language it is given.                               *)
MCModels == {"whisper", "canary", "tiny", "granite"}
MCCaps ==
  [m \in MCModels |->
    CASE m = "whisper" ->
           [arch |-> "whisper", ext |-> TRUE, languages |-> <<en, no>>, targets |-> {},
            translates |-> TRUE, detects |-> TRUE, timestamps |-> "word"]
      [] m = "canary" ->
           [arch |-> "canary", ext |-> FALSE, languages |-> <<no, en>>, targets |-> {en, no},
            translates |-> TRUE, detects |-> FALSE, timestamps |-> "segment"]
      [] m = "tiny" ->
           [arch |-> "moonshine", ext |-> FALSE, languages |-> <<en>>, targets |-> {},
            translates |-> FALSE, detects |-> FALSE, timestamps |-> "none"]
      [] m = "granite" ->
           [arch |-> "granite", ext |-> FALSE, languages |-> <<en, no>>, targets |-> {},
            translates |-> TRUE, detects |-> FALSE, timestamps |-> "word"]]

MCWorlds ==
  {[profiles |-> {"private", "domain"}, address |-> "tailnet"],
   [profiles |-> {"private", "public"}, address |-> None],
   [profiles |-> None, address |-> None]}

Plain ==
  [peer |-> "loopback", token |-> "user", model |-> "canary", language |-> None,
   prompt |-> FALSE, temperature |-> None, format |-> "verbose_json", granularities |-> {},
   translate |-> FALSE, target |-> None]

Remote == {[Plain EXCEPT !.peer = p] : p \in {"loopback", "lan", "tailnet"}}

Varied ==
  {[Plain EXCEPT !.model = m, !.granularities = g] :
     m \in MCModels, g \in {{}, {"word"}, {"segment", "other"}}}
  \cup {[Plain EXCEPT !.model = m, !.format = "text", !.language = l] : m \in MCModels, l \in Tags}
  \cup {[Plain EXCEPT !.model = m, !.format = f] : m \in MCModels, f \in {"json", "srt"}}
  \cup {[Plain EXCEPT !.model = None]}
  \cup {[Plain EXCEPT !.model = m, !.language = l] : m \in MCModels, l \in Tags}
  \cup {[Plain EXCEPT !.model = m, !.language = l, !.translate = TRUE, !.target = t] :
     m \in MCModels, l \in Tags, t \in {None, no}}
  \cup {[Plain EXCEPT !.model = m, !.prompt = TRUE] : m \in MCModels}
  \cup {[Plain EXCEPT !.model = m, !.temperature = t] :
     m \in MCModels, t \in {"inside", "outside"}}

MCAsks ==
  [m \in Modes |-> [r \in Requests |->
     CASE m \in Detected /\ r = "first" -> Remote
       [] m \in Detected               -> {[Plain EXCEPT !.peer = "lan"]}
       [] m = "local" /\ r = "first"   -> Varied
       [] m = "local"                  -> {[Plain EXCEPT !.model = "tiny"]}
       [] OTHER                        -> {[Plain EXCEPT !.peer = "lan", !.token = None]}]]
=============================================================================
