--------------------------- MODULE PromptContext ---------------------------
(***************************************************************************)
(* What one dialogue turn hands to the model (mvp_service.py): the parts   *)
(* of the system prompt and of the user prompt, each named for what it     *)
(* allows or tells, and what is taken back from the answer's metadata.     *)
(*                                                                         *)
(* t is a context of DialogueGuards with the fields the prompt adds:       *)
(* channel, compact, clauses, style, bondStatus, preferred, premises,      *)
(* stories, day, experiences, evidence, performances, stickers, places,    *)
(* attachments, wants and fails (the tools asked for, and those failing).  *)
(***************************************************************************)
EXTENDS DialogueGuards

-----------------------------------------------------------------------------
(* The scene.  Place and activity are handed over only when asked after.   *)
Named(t) == {p \in {t.scene.place, t.scene.analyst} \ {""} : p \in Says(t.message, "place")}

SceneFocus(t) == IF t.framed THEN t.sceneFocus ELSE t.focus

PlaceAsked(t) ==
  \/ SceneFocus(t) = "location" \/ Named(t) # {}
  \/ SceneFocus(t) # "visit_followup" /\ IsVisit(t)

SceneForPrompt(t) ==
  (IF PlaceAsked(t) THEN {"place", "analyst"} ELSE {})
    \cup (IF SceneFocus(t) = "current_activity" THEN {"doing"} ELSE {})

(* Where the two of them said they are: she says she is somewhere, or she  *)
(* agrees to what the analyst proposed.                                    *)
ConfirmedIn(turn) ==
  LET hers == {m[2] : m \in {m \in turn.assistant : m[1] = "place"}}
      his  == {m[2] : m \in {m \in turn.user : m[1] = "place"}}
      here(x) == <<"at", x>> \in turn.assistant
  IN IF hers # {} /\ here("here") THEN hers
     ELSE IF <<"at", "meet">> \in turn.user /\ here("yes") /\ ~here("no") THEN his ELSE {}

ConfirmedPlace(turns) ==
  LET said == {i \in DOMAIN turns : i > Len(turns) - 4 /\ ConfirmedIn(turns[i]) # {}}
  IN IF said = {} THEN {} ELSE ConfirmedIn(turns[Max(said)])

-----------------------------------------------------------------------------
(* What has been said, and what they are to each other.                    *)
CardTurns == 3

ContinuityCard(t) ==
  [prior    |-> t.turns # << >>,
   recent   |-> SubSeq(t.turns, Max({1, Len(t.turns) - CardTurns + 1}), Len(t.turns)),
   changed  |-> t.turns # << >> /\ t.turns[Len(t.turns)].channel # t.channel,
   premises |-> IF t.framed THEN {} ELSE t.premises,
   stories  |-> t.stories, day |-> t.day]

(* A premise is a set of phrases; the card and the memory do not look for  *)
(* the same ones.                                                          *)
PremisePhrases == {"my wife", "my old woman", "already my wife", "already my old woman", "my husband",
                   "a bond", "bonded already", "made a bond", "a couple", "married"}
BindingPhrases == {"my wife", "my old woman", "already my wife", "a bond", "made a bond", "a couple", "married"}

RelationshipPremise(message) == IF message \cap PremisePhrases = {} THEN {} ELSE {message}

AddressMemory(t) ==
  IF /\ t.preferred # ""
     /\ t.bondStatus = "explicit" \/ \E p \in t.premises : p \cap BindingPhrases # {}
  THEN t.preferred ELSE ""

RelationshipForPrompt(t) ==
  IF \/ t.focus \in {"casual_check_in", "food_or_drink", "shared_meal", "current_activity", "location",
                     "visit_followup", "current_condition"}
     \/ "relationship" \notin t.intents
  THEN "none" ELSE t.bondStatus

RelationshipContract(t) ==
  CASE RelationshipForPrompt(t) = "none"      -> "none"
    [] RelationshipForPrompt(t) = "explicit"  -> IF t.focus = "relationship_label" THEN "admit" ELSE "background only"
    [] RelationshipForPrompt(t) = "supported" -> "no label"
    [] OTHER                                  -> "what is known"

AddressRule(t) ==
  IF AddressMemory(t) # "" THEN AddressMemory(t)
  ELSE IF RelationshipForPrompt(t) = "explicit" THEN t.preferred ELSE ""

(* Facade-verified records only, twelve at most.                           *)
ExperiencePool(items) ==
  LET fit == SelectSeq(items, LAMBDA e : /\ e.domain = "session" /\ e.status \in {"confirmed", "reported"}
                                         /\ e.summary # "" /\ e.sources # << >>)
  IN [i \in 1..Min({12, Len(fit)}) |-> [fit[i] EXCEPT !.sources = SubSeq(@, 1, Min({4, Len(@)}))]]

-----------------------------------------------------------------------------
(* Evidence: hits in rank order, each [doc, text, size], within a budget.  *)
DailyFocus   == {"casual_check_in", "food_or_drink", "shared_meal", "current_activity", "routine_activity",
                 "location", "visit_followup", "open_invitation"}
GeneralFocus == {"preference_or_value", "costume_detail", "logistics_detail", "companion_relationship", "general"}

Budget(focus) ==
  IF focus \in DailyFocus THEN [each |-> 12, all |-> 52]
  ELSE IF focus \in GeneralFocus THEN [each |-> 22, all |-> 105] ELSE [each |-> 32, all |-> 180]

Fitted(hits, budget) ==
  LET fit[i \in 0..Len(hits)] ==
        IF i = 0 THEN [kept |-> << >>, used |-> 0, seen |-> {}, over |-> FALSE]
        ELSE LET s == fit[i - 1]
                 n == Min({hits[i].size, budget.each, budget.all - s.used})
             IN IF s.over \/ hits[i] \in s.seen THEN s
                ELSE IF s.used = budget.all THEN [s EXCEPT !.over = TRUE]
                ELSE [kept |-> Append(s.kept, [hits[i] EXCEPT !.size = n]), used |-> s.used + n,
                      seen |-> s.seen \cup {hits[i]}, over |-> FALSE]
  IN fit[Len(hits)].kept

(* A line of the profile is hers when it reads as spoken: l names the      *)
(* marks its text bears.                                                   *)
IsVoiceLine(l) ==
  /\ l.marks \cap {"empty", "long", "as analyst"} = {}
  /\ l.marks \cap {"I or you", "spoken form"} # {} \/ l.marks \cap {"her name", "she"} = {}

(* One spoken line is offered once, whatever sections it was filed under.  *)
VoiceLines(lines, limit, seen) ==
  LET take[i \in 0..Len(lines)] ==
        IF i = 0 THEN [kept |-> << >>, seen |-> seen]
        ELSE LET s == take[i - 1]
             IN IF Len(s.kept) = limit \/ ~IsVoiceLine(lines[i]) \/ lines[i].key \in s.seen THEN s
                ELSE [kept |-> Append(s.kept, lines[i]), seen |-> s.seen \cup {lines[i].key}]
  IN take[Len(lines)]

ProfileForPrompt(p) ==
  LET moods == VoiceLines(p.moods, 8, {})
      short == SelectSeq(p.phrases, LAMBDA l : IsVoiceLine(l) /\ "over 24" \notin l.marks)
  IN [moods    |-> moods.kept,
      analyst  |-> VoiceLines(p.analyst, 8, moods.seen).kept,
      repeated |-> SubSeq(short, 1, Min({6, Len(short)}))]

(* The projection is kept for 64 profiles, the least recently used leaving.*)
(* An entry is [key, value]; a key names what the value was made from.     *)
ProfileKey(p) == [version |-> p.version, mtime |-> p.mtime, print |-> p.profile, who |-> p.who]

CacheProfile(cache, p, limit) ==
  LET key  == ProfileKey(p)
      hit  == {i \in DOMAIN cache : cache[i].key = key}
      kept == SelectSeq(cache, LAMBDA e : e.key # key)
      e    == IF hit # {} THEN cache[CHOOSE i \in hit : TRUE] ELSE [key |-> key, value |-> ProfileForPrompt(p.profile)]
      all  == Append(kept, e)
  IN [value |-> e.value, cache |-> SubSeq(all, Max({1, Len(all) - limit + 1}), Len(all))]

(* How long a stretch of the answer is a source line; every window of      *)
(* "least" characters found in some source counts (737).                   *)
CopiedRun(text, sources, least) ==
  LET copied(i) == \E s \in sources : \E j \in 1..(Len(s) - least + 1) :
                      SubSeq(s, j, j + least - 1) = SubSeq(text, i, i + least - 1)
      run[i \in 0..Max({0, Len(text) - least + 1})] == IF i = 0 \/ ~copied(i) THEN 0 ELSE run[i - 1] + 1
      longest == Max({run[i] : i \in DOMAIN run})
  IN IF longest = 0 THEN 0 ELSE longest + least - 1

SourceCopy(message, text, sources, least) ==
  IF "original line" \in message THEN 0 ELSE CopiedRun(text, sources, least)

-----------------------------------------------------------------------------
(* The tools of the assistant: one task at most, the clock besides.        *)
Tasks == << "get_market_history", "research_current_info", "web_search", "fetch_web_page", "calculator" >>

ToolCalls(t) ==
  LET task == SelectSeq(Tasks, LAMBDA k : k \in t.wants)
      told(k) == [name |-> k, status |-> IF k \in t.fails THEN "failed" ELSE "completed"]
  IN IF t.mode # "assistant" THEN << >>
     ELSE (IF task = << >> THEN << >> ELSE << told(task[1]) >>)
            \o (IF "get_current_time" \in t.wants THEN << [name |-> "get_current_time", status |-> "completed"] >>
               ELSE << >>)

Boundary(t) ==
  IF t.mode # "immersive" \/ <<"outfit", "reset">> \in Marks(t.message) THEN "standard"
  ELSE IF Says(t.message, "meta") = {} THEN "standard"
  ELSE IF <<"outfit", "named">> \in Marks(t.message) THEN "meta_costume" ELSE "meta_system"

(* What the answer must do: the boundary first, then what the turn became. *)
ResponseContract(t) ==
  LET framed == {c.domain : c \in {c \in Range(t.clauses) : ~c.quoted}}
      plain  == IF Boundary(t) # "standard" THEN {Boundary(t)} ELSE {t.focus}
  IN IF t.focus = "visit_followup" THEN {"wait, do not name the place"}
     ELSE IF t.arrival THEN {"greet and go on"}
     ELSE IF ~t.framed THEN plain
     ELSE {"clause by clause"} \cup (framed \cap {"canon_recall", "session_recall", "casual"})
            \cup (CASE t.live.status = "active" -> {"now only"} [] t.live.status = "ambiguous" -> {"ask which"}
                    [] OTHER -> {})
            \cup (IF framed = {"casual"} THEN plain ELSE {})

Blocks(t) == IF t.channel = "text" THEN {"message", "sticker"} ELSE {"speech", "action"}

StyleRule(t) ==
  CASE t.style.kind = "costume" /\ t.style.status \in {"active", "unresolved"} /\ t.style.named -> "this outfit"
    [] t.style.kind = "armor" /\ t.style.status = "active" -> IF t.style.related THEN "outfits of this armor"
                                                              ELSE "this armor, no outfit"
    [] OTHER -> "no outfit"

(* The fields the model is asked for, in order.                            *)
Compact(t) == (t.compact \/ t.framed) /\ t.mode = "immersive"

Schema(t) ==
  IF Compact(t)
  THEN (IF t.framed THEN << "interaction_decision", "memory_candidates" >> ELSE << >>)
         \o << "state_updates", "expression_state", "stage_motion", "performance_id", "confidence", "content_blocks" >>
  ELSE << "answer", "content_blocks", "expression_state", "stage_motion", "state_updates", "analysis_process",
          "work_summary", "work_steps", "confidence" >>

SystemPrompt(t) ==
  [scene     |-> SceneForPrompt(t),
   privacy   |-> ~PlaceAsked(t),
   card      |-> ContinuityCard(t),
   shared    |-> ContinuityCard(t).premises,
   cross     |-> IF t.cross THEN {"shared story"} \cup (IF t.character = "developer" THEN {"admit the armor"} ELSE {})
                 ELSE {},
   names     |-> Aliases(t),
   hint      |-> t.hint,
   style     |-> StyleRule(t),
   mode      |-> t.mode,
   tools     |-> IF t.mode = "assistant" THEN ToolCalls(t) ELSE << >>,
   boundary  |-> IF t.mode = "immersive" THEN Boundary(t) ELSE "standard",
   bond      |-> RelationshipForPrompt(t),
   address   |-> AddressRule(t),
   blocks    |-> Blocks(t),
   persona   |-> IF t.dual THEN "morsos" ELSE "",
   schema    |-> Schema(t)]

(* What chat adds: performances face to face, stickers in a message, the   *)
(* places to go to, and how the answer is to say that she comes.           *)
Offers(t) ==
  [acts      |-> IF t.channel = "in_person" THEN t.performances ELSE {},
   stickers  |-> IF t.channel = "text" THEN SubSeq(t.stickers, 1, Min({8, Len(t.stickers)})) ELSE << >>,
   places    |-> t.places,
   decision  |-> t.framed,
   proposals |-> t.places # {} /\ ~t.framed]

UserPrompt(t) ==
  [evidence     |-> Fitted(t.evidence, Budget(t.focus)),
   contract     |-> ResponseContract(t),
   relationship |-> RelationshipContract(t),
   address      |-> AddressMemory(t),
   experiences  |-> IF t.framed THEN ExperiencePool(t.experiences) ELSE << >>,
   scene        |-> SceneForPrompt(t),
   live         |-> IF t.arrival \/ t.focus = "visit_followup" THEN "none" ELSE t.live.status,
   message      |-> IF t.arrival THEN << >> ELSE t.message,
   conversation |-> [turns |-> t.turns, premises |-> t.premises]]

(* A second call carries the first request whole, and what was wrong.      *)
Instructed ==
  {"text_rendezvous_semantics", "address_alias_echo", "companion_hostility", "fenny_daily_harshness",
   "unsupported_analyst_premise", "unsupported_session_premise", "unsupported_casual_state_claim",
   "unsupported_current_food_fact", "shared_meal_context_lost", "routine_activity", "routine_contradiction",
   "open_invitation_topic_reset", "character_signature_overuse", "mechanical_dialogue", "repeated_response",
   "narrative_action_repetition", "direct_answer_focus", "unprompted_scene_disclosure",
   "unprompted_logistics_plan", "unprompted_plot_recap", "repeated_recent_event_after_channel_switch",
   "interaction_opening_required", "dual_persona_unresolved", "unsupported_quote", "immersive_meta"}

RewritePrompt(t, answer) ==
  [request |-> UserPrompt(t), previous |-> answer, violations |-> FoundFamilies(answer, t),
   told |-> Instructed \cap FoundFamilies(answer, t)]

-----------------------------------------------------------------------------
(* The analyst's own blocks: [type, text], a sticker last; {} is a refusal *)
(* and a text is "" where nothing of it can be shown.                      *)
NormalizedBlocks(message, blocks, channel) ==
  LET allowed == IF channel = "text" THEN {"message", "sticker"} ELSE {"speech", "action"}
      kept    == SelectSeq(blocks, LAMBDA b : (b.type = "sticker" /\ channel = "text") \/ b.text # "")
      pics    == {i \in DOMAIN blocks : blocks[i].type = "sticker" /\ channel = "text"}
      refused == \/ Len(blocks) > 8
                 \/ \E i \in pics : i # Len(blocks) \/ blocks[i].text \in {"", "bad id"}
                 \/ \E b \in Range(kept) : b.type \notin allowed \/ b.text = "long"
  IN IF refused THEN {}
     ELSE IF kept # << >> THEN {kept}
     ELSE IF message = "" THEN {<< >>}
     ELSE {<< [type |-> IF channel = "text" THEN "message" ELSE "speech", text |-> message] >>}

(* What the answer proposes beside its text is only ever a reference.      *)
InteractionDecision(v) ==
  IF v.decision \in {"accept_now", "decline", "defer", "clarify"} /\ "odd" \notin {v.location, v.activity}
  THEN {v} ELSE {}

Eligible(clauses) ==
  {i \in DOMAIN clauses : /\ clauses[i].domain = "casual" /\ clauses[i].time = "now"
                          /\ ~clauses[i].negated /\ ~clauses[i].quoted}

MemoryCandidates(items, clauses, blocks) ==
  SelectSeq(SubSeq(items, 1, Min({4, Len(items)})),
            LAMBDA m : /\ m.type = "ordinary_interaction"
                       /\ Len(m.clauses) \in 1..4 /\ Range(m.clauses) \subseteq Eligible(clauses)
                       /\ Len(m.blocks) \in 1..4
                       /\ \A b \in Range(m.blocks) : b \in DOMAIN blocks /\ blocks[b].type = "action")
=============================================================================
