---------------------------- MODULE GuardChecks ----------------------------
(***************************************************************************)
(* What the guard of a dialogue turn promises, checked over small          *)
(* contexts and answers of one or two sentences.                           *)
(***************************************************************************)
EXTENDS Integers, Sequences, SequencesExt

LOCAL INSTANCE PromptContext
LOCAL Turn == INSTANCE DialogueTurn

LOCAL Plain == [focus |-> "general", framed |-> FALSE, mode |-> "immersive", boundary |-> "standard",
  message |-> << {} >>, hits |-> {}, excerpts |-> {}, profile |-> {}, confirmed |-> {}, turns |-> << >>,
  hour |-> 9, character |-> "other", intents |-> {}, known |-> "", switched |-> FALSE,
  scene |-> [place |-> "garden", analyst |-> "office", doing |-> "filing"],
  live |-> [status |-> "none", place |-> "", doing |-> ""], sceneFocus |-> "general",
  candidates |-> {}, mentions |-> {}, cross |-> FALSE, dual |-> FALSE, social |-> FALSE,
  rendezvous |-> FALSE, hint |-> "", members |-> {}, bond |-> FALSE,
  pet |-> [explicit |-> FALSE, name |-> ""], newest |-> "", summaries |-> << >>, sticker |-> FALSE,
  arrival |-> FALSE, calls |-> << >>]

LOCAL Live(focus, status) ==
  [Plain EXCEPT !.focus = focus, !.sceneFocus = focus, !.candidates = {"lifu", "fenny"},
                !.live = [status |-> status, place |-> "garden", doing |-> "filing"]]
LOCAL Asks(focus, clause) == [Plain EXCEPT !.focus = focus, !.message = << clause >>]

LOCAL Visit == {<<"visit", "request">>}
LOCAL Meal  == {<<"food", "plan">>}

LOCAL Contexts ==
  {[Plain EXCEPT !.focus = f] : f \in {"general", "casual_check_in", "shared_meal", "open_invitation",
                                       "preference_or_value", "session_recall"}}
  \cup {Asks("food_or_drink", m) : m \in {Meal, Meal \cup Visit, {<<"food", "record">>},
                                          {<<"food", "drink">>}, {<<"food", "shared">>, <<"food", "eaten">>}}}
  \cup {Asks("routine_activity", m) : m \in {{}, {<<"act", "train">>, <<"act", "rest">>}}}
  \cup {Asks("location", Visit), Asks("visit_followup", Visit),
        Asks("general", {<<"bond", "word">>, <<"asks", "list">>}), Asks("general", {<<"invite", "walk">>})}
  \cup {Live(f, s) : f \in {"location", "current_activity"}, s \in {"active", "ambiguous"}}
  \cup {[Plain EXCEPT !.dual = TRUE], [Plain EXCEPT !.rendezvous = TRUE], [Plain EXCEPT !.hint = "what"],
        [Plain EXCEPT !.social = TRUE, !.candidates = {"lifu"}], [Plain EXCEPT !.character = "fenny"],
        [Plain EXCEPT !.character = "developer", !.cross = TRUE], [Plain EXCEPT !.boundary = "meta_system"],
        [Plain EXCEPT !.focus = "logistics_detail", !.members = {"tess"}],
        [Plain EXCEPT !.focus = "narrative_recall", !.hits = {<<"trait", "early">>, <<"met", "noon">>}]}

LOCAL Turns == {<< >>, << [user |-> {}, assistant |-> {<<"signature", "omen">>, <<"event", "back">>}] >>}

LOCAL Fresh    == {[q EXCEPT !.framed = f] : q \in Contexts, f \in BOOLEAN}
LOCAL Everyone == {[q EXCEPT !.turns = t] : q \in Fresh, t \in Turns}

LOCAL Words ==
  {<<"trait", "early">>, <<"trait", "knows">>, <<"met", "noon">>, <<"past", "trip">>, <<"state", "sleepy">>,
   <<"place", "garden">>, <<"doing", "filing">>, <<"plan", "meetup">>, <<"topic", "reset">>,
   <<"time", "just_now">>, <<"signature", "omen">>, <<"event", "back">>, <<"hostile", "foe">>,
   <<"harsh", "dull">>, <<"unsure", "fact">>, <<"bond", "refused">>, <<"quote", "line">>, <<"meta", "model">>,
   <<"opens", "report">>, <<"go", "accepted">>, <<"story", "chapter">>, <<"food", "undecided">>,
   <<"name", "lifu">>, <<"plain", "reply">>}

LOCAL Meals ==
  {{<<"food", "eaten">>, <<"food", "answers">>, <<"meal", "lunch">>},
   {<<"food", "eaten">>, <<"food", "answers">>, <<"food", "shared">>},
   {<<"food", "asks_back">>, <<"food", "asks">>}, {<<"food", "historical">>, <<"food", "answers">>},
   {<<"act", "lazing">>, <<"act", "at_training">>, <<"act", "train">>}}

LOCAL Sentences == {{w} : w \in Words} \cup Meals
LOCAL Texts == {<< s >> : s \in Sentences}
               \cup {<< s, t >> : s \in Sentences, t \in {{<<"plain", "reply">>}, {<<"place", "garden">>},
                                                          {<<"trait", "knows">>, <<"plain", "wish">>}}}
LOCAL Answer(t) == [text |-> t, blocks |-> << >>]

-----------------------------------------------------------------------------
(* A line put in place of a refused answer is not refused itself: it       *)
(* breaks neither the family it replaces nor one that may not be shown     *)
(* (mvp_service.py:10684-11132).  Excepted is a visit asked for in another *)
(* question without a frame: one guard demands the place, another forbids  *)
(* it (8385, 8342).  An edit may leave what another family found.          *)
LOCAL AtOdds(f, q) == f = "visit_location" /\ q.focus \notin {"location", "visit_followup"}

(* The branch chat takes: the first whose family the rewrite still breaks. *)
LOCAL Taken(a, q) ==
  LET found == FoundFamilies(a, q)
      i     == SelectInSeq(Turn!Branches, LAMBDA b : b[1] \in found)
  IN IF i = 0 THEN << "none", "keep" >> ELSE Turn!Branches[i]

LinesStand ==
  \A q \in Everyone : \A t \in Texts :
    LET taken == Taken(Answer(t), q)
        f     == taken[1]
    IN taken[2] = "replace" /\ ~AtOdds(f, q) =>
         FoundFamilies(Answer(Replacement(f, Answer(t), q)), q) \cap (Turn!Hard \cup {f}) = {}

(* No answer satisfies both guards of such a visit: the exception is real. *)
VisitIsAtOdds ==
  \A q \in {c \in Everyone : IsVisit(c) /\ ~c.framed /\ c.focus = "food_or_drink"} : \A t \in Texts :
    FoundFamilies(Answer(t), q) \cap {"visit_location", "unprompted_scene_disclosure"} # {}

(* What the character said proves nothing of the analyst, of a meeting, of *)
(* her own state or of the scene: only repetition, and a quotation without *)
(* a frame, look at it (7826, 8536).                                       *)
LOCAL MayLookBack(q) == {"character_signature_overuse", "repeated_response", "narrative_action_repetition",
                         "repeated_recent_event_after_channel_switch"}
                        \cup (IF q.framed THEN {} ELSE {"unsupported_quote"})

NotItsOwnWitness ==
  \A q \in Fresh : \A t \in Texts :
    LET told == [q EXCEPT !.turns = << [user |-> {}, assistant |-> UNION Sentences] >>]
        calm == [q EXCEPT !.turns = << [user |-> {}, assistant |-> {}] >>]
    IN FoundFamilies(Answer(t), told) \ MayLookBack(q) = FoundFamilies(Answer(t), calm) \ MayLookBack(q)

(* An edit removes the claim and nothing but the sentences that make it;   *)
(* what follows "as you know" survives (8699, 8758, 8782, 8812).           *)
LOCAL Keeps(edited, text, Bad(_)) ==
  \A s \in Range(text) : ~Bad(s) => s \in Range(edited)

EditsAreLocal ==
  \A q \in Fresh : \A t \in Texts :
    LET traits == UnsupportedAnalystPremises(Answer(t), q)
        met    == UnsupportedMeetings(Answer(t), q)
        calmed == StripAnalystPremises(t, traits)
        apart  == StripMeetings(t, met)
    IN /\ UnsupportedAnalystPremises(Answer(calmed), q) = {}
       /\ Keeps(calmed, t, LAMBDA s : \E m \in s : m[1] = "trait")
       /\ "knows" \in traits /\ {<<"trait", "knows">>, <<"plain", "wish">>} \in Range(t)
            => {<<"plain", "wish">>} \in Range(calmed)
       /\ UnsupportedMeetings(Answer(apart), q) = {}
       /\ Keeps(apart, t, LAMBDA s : \E m \in s : m[1] \in {"met", "past"})
       /\ UnpromptedPlan(Answer(StripPlans(t)), q) = FALSE
       /\ UnpromptedScene(Answer(StripScene(t, q)), q) = {}

(* An established bond is neither refused nor told as mere colleagues, a   *)
(* name meant for another is never echoed, and a repair needs no second    *)
(* (9637, 9662, 9793, 9849).                                               *)
LOCAL Bonded ==
  [Plain EXCEPT !.bond = TRUE, !.message = << {<<"bond", "word">>, <<"asks", "yes_no">>, <<"state", "pain">>} >>,
     !.focus = "current_condition", !.newest = "recovered", !.pet = [explicit |-> TRUE, name |-> "dear"],
     !.mentions = {[alias |-> "cat", name |-> "felis", who |-> "felis", canonical |-> TRUE],
                   [alias |-> "me", name |-> "self", who |-> "other", canonical |-> TRUE]}]

LOCAL Bits == {<<"bond", "refused">>, <<"bond", "colleague">>, <<"bond", "label">>, <<"name", "cat">>,
               <<"name", "me">>, <<"calls", "analyst">>, <<"pain", "old">>}

RepairsStand ==
  \A s \in SUBSET Bits :
    LET once == Repaired(<< s >>, Bonded)
    IN /\ Repaired(once, Bonded) = once
       /\ ~Mentions(once, "bond", {"refused"})
       /\ Mentions(once, "bond", {"colleague"}) => Mentions(once, "bond", {"label"})
       /\ AliasEcho(Answer(once), Bonded) = {}
       /\ <<"name", "me">> \in s /\ ~Mentions(<< s >>, "bond", {"refused"})
            /\ (<<"bond", "colleague">> \in s => <<"bond", "label">> \in s) => "me" \in Says(once, "name")
       /\ Mentions(once, "pain", {"old"}) => Mentions(once, "pain", {"recovered"})

(* Greeted again while the provider is down, the character does not repeat *)
(* herself until the session holds all the turns it can (7704, 248).       *)
GreetingsRotate ==
  \A n \in 0..(MaxSessionTurns - 1) :
    LET at(k) == [Plain EXCEPT !.focus = "casual_check_in", !.turns = [i \in 1..k |-> [user |-> {}, assistant |-> {}]]]
        next  == [at(n + 1) EXCEPT !.turns[n + 1].assistant = UNION Range(CasualLine(at(n)))]
    IN ~Repeated(Answer(CasualLine(next)), next)

(* The account of an assistant's work never carries what must stay hidden, *)
(* however the model fills it (7505, 7543).                                *)
LOCAL Accounts == {{}, {"prompt in Chinese"}, {"system prompt", "fact"}, {"fact"}}

NothingHiddenShown ==
  \A x, y, z \in Accounts : \A calls \in {<< >>, << "search" >>} :
    LET w == [summary |-> x, steps |-> << y, z >>]
        p == [overview |-> y, sections |-> << z, x >>]
        shown == AnalysisProcess(p, WorkTrace(w, calls), calls)
    IN /\ WorkTrace(w, calls).summary \cap Secret = {}
       /\ (shown.overview \cup UNION Range(shown.sections)) \cap Secret = {}
       /\ shown.overview # {} /\ shown.sections # << >>

-----------------------------------------------------------------------------
(* The prompt.  What it hands over and what the guard then allows.         *)
LOCAL Extra ==
  [channel |-> "in_person", compact |-> FALSE, clauses |-> << >>, bondStatus |-> "none", preferred |-> "darling",
   style |-> [kind |-> "none", status |-> "none", named |-> FALSE, related |-> FALSE],
   premises |-> {}, stories |-> {}, day |-> "", experiences |-> << >>, evidence |-> << >>, performances |-> {"bow"},
   stickers |-> << >>, places |-> {}, wants |-> {}, fails |-> {}]
LOCAL Full(q) == q @@ Extra

LOCAL SceneAsked(q, f) == IF q.framed THEN f = "location" ELSE q.focus \in {"location", "current_activity"}
LOCAL Placed == {Full([q EXCEPT !.message = m \o q.message, !.sceneFocus = f,
                                !.live.status = IF SceneAsked(q, f) THEN "active" ELSE "none"]) :
                   q \in {c \in Fresh : Len(c.message) <= 1},
                   m \in {<< >>, << Visit >>, << {<<"place", "office">>} >>, << {<<"place", "garden">>} >>},
                   f \in {"general", "location"}}

(* The place the prompt gives may also be said, unless it was given for a  *)
(* visit asked within another question or because the other's place was    *)
(* named; and a place the guard demands was given (3606, 8342, 8385).      *)
GivenMayBeSaid ==
  \A t \in Placed :
    LET a      == Answer(<< {<<"place", t.scene.place>>} >>)
        barred == UnpromptedScene(a, t) # {}
        other  == (IsVisit(t) /\ SceneFocus(t) # "visit_followup") \/ Named(t) = {t.scene.analyst}
    IN /\ "place" \in SystemPrompt(t).scene /\ barred => other
       /\ VisitLocationMissing(Answer(<< {} >>), t) => "place" \in SystemPrompt(t).scene
       /\ "place" \notin UserPrompt(t).scene /\ ~barred =>
            t.focus \in {"location", "visit_followup"} \/ <<"place", t.scene.place>> \in t.hits \cup t.confirmed

(* Evidence keeps the order of rank and stays in its budget, nothing twice *)
(* and nothing passed over but a repetition; only the last may be cut for  *)
(* the whole (_prompt, 7092).                                              *)
LOCAL Hits == [doc : {"d1", "d2"}, size : {1, 3, 5}]
LOCAL Budgets == {[each |-> 3, all |-> 7], [each |-> 4, all |-> 4], [each |-> 9, all |-> 6]}

EvidenceFits ==
  \A n \in 0..4 : \A hits \in [1..n -> Hits] : \A b \in Budgets :
    LET kept  == Fitted(hits, b)
        used[i \in 0..Len(kept)] == IF i = 0 THEN 0 ELSE used[i - 1] + kept[i].size
        first == SelectSeq([i \in 1..n |-> [hit |-> hits[i], at |-> i]],
                           LAMBDA h : \A j \in 1..(h.at - 1) : hits[j] # h.hit)
    IN /\ used[Len(kept)] <= b.all
       /\ \A i \in DOMAIN kept : /\ kept[i].doc = first[i].hit.doc /\ kept[i].size > 0
                                  /\ i < Len(kept) => kept[i].size = Min({b.each, first[i].hit.size})
       /\ Len(kept) < Len(first) => used[Len(kept)] = b.all

(* A pasted source line is always noticed, and never counted shorter than  *)
(* the longest stretch it shares with one source (_longest_copied_run).    *)
LOCAL Longest(text, sources) ==
  Max({0} \cup {j - i + 1 : <<i, j>> \in {<<i, j>> \in (1..Len(text)) \X (1..Len(text)) :
        \E s \in sources : \E k \in 0..(Len(s) - (j - i + 1)) : SubSeq(s, k + 1, k + j - i + 1) = SubSeq(text, i, j)}})

CopiesNoticed ==
  \A n \in 0..5 : \A text \in [1..n -> {1, 2}] : \A source \in [1..4 -> {1, 2}] : \A least \in {2, 3} :
    LET run == CopiedRun(text, {source, << 2, 2, 1 >>}, least)
        ref == Longest(text, {source, << 2, 2, 1 >>})
    IN (run = 0 <=> ref < least) /\ (run # 0 => run >= ref)

(* Where blocks may be shown before the answer is complete, every proposal *)
(* has come before them, and the prompt offers nothing that only the whole *)
(* answer could settle (9911, 7038).                                       *)
StreamedInOrder ==
  \A q \in Fresh : \A mode \in {"immersive", "assistant"} : \A sticker, compact \in BOOLEAN :
    LET t == Full([q EXCEPT !.mode = mode, !.sticker = sticker])
        u == [t EXCEPT !.compact = compact, !.places = IF q.rendezvous THEN {"garden"} ELSE {},
                       !.stickers = IF sticker THEN << "wave" >> ELSE << >>]
        p == SystemPrompt(u)
    IN compact /\ StreamEligible(u) =>
         /\ p.schema[Len(p.schema)] = "content_blocks"
         /\ \A k \in {"state_updates", "performance_id"} : \E i \in 1..(Len(p.schema) - 1) : p.schema[i] = k
         /\ Offers(u).stickers = << >> /\ Offers(u).places = {} /\ p.tools = << >> /\ p.cross = {}
         /\ UserPrompt(u).live = "none"

(* Every complaint of the guard has its instruction in the second prompt,  *)
(* but these five (_guarded_rewrite_prompt, 9473).                         *)
LOCAL Untold == {"relationship_roster", "logistics_evidence_missing", "visit_location",
                 "cross_character_fact_mismatch", "live_scene_mismatch"}

ComplaintsAreTold ==
  UNION {RewritePrompt(Full(q), Answer(t)).violations \ RewritePrompt(Full(q), Answer(t)).told :
           q \in {c \in Contexts : c.turns = << >>}, t \in Texts} = Untold

(* A profile changed in place is not answered from the cache, and the      *)
(* cache stays in its bound (_cached_dialogue_profile_prompt_context).     *)
LOCAL Line(k, marks) == [key |-> k, marks |-> marks]
LOCAL Profiles == {[moods |-> m, analyst |-> a, phrases |-> m] :
                     m \in {<< >>, << Line("a", {}), Line("b", {"she"}), Line("a", {"I or you"}) >>},
                     a \in {<< >>, << Line("a", {}), Line("c", {"she", "spoken form"}), Line("d", {"as analyst"}) >>}}
LOCAL Asked == {[version |-> "v", mtime |-> 1, profile |-> p, who |-> w] : p \in Profiles, w \in {"lifu", "tess"}}

ProfilesAreCurrent ==
  \A run \in [1..3 -> Asked] :
    LET after[i \in 0..3] == IF i = 0 THEN [value |-> << >>, cache |-> << >>]
                             ELSE CacheProfile(after[i - 1].cache, run[i], 2)
    IN \A i \in 1..3 : /\ after[i].value = ProfileForPrompt(run[i].profile)
                        /\ Len(after[i].cache) <= 2
                        /\ LET shown == after[i].value.moods \o after[i].value.analyst
                           IN \A j, k \in DOMAIN shown : shown[j].key = shown[k].key => j = k

(* What is proposed to be remembered rests on what the analyst did in this *)
(* turn and on an action shown in it: nothing from a message, a plan, a    *)
(* quotation or a denial (_memory_event_candidates, 6664).                 *)
LOCAL Clauses == {<< [domain |-> d, time |-> w, negated |-> n, quoted |-> k],
                     [domain |-> "casual", time |-> "now", negated |-> FALSE, quoted |-> FALSE] >> :
                    d \in {"casual", "canon_recall"}, w \in {"now", "future"}, n \in BOOLEAN, k \in BOOLEAN}
LOCAL Items == {[type |-> y, clauses |-> c, blocks |-> b] :
                  y \in {"ordinary_interaction", "promise"}, c \in {<< >>, << 1 >>, << 1, 2 >>, << 3 >>},
                  b \in {<< >>, << 1 >>, << 2 >>, << 1, 3 >>}}
LOCAL Written == {<< >>, << [type |-> "message", text |-> "hi"], [type |-> "message", text |-> "so"] >>,
                  << [type |-> "action", text |-> "nods"], [type |-> "speech", text |-> "hi"] >>,
                  << [type |-> "speech", text |-> "hi"], [type |-> "action", text |-> ""] >>,
                  << [type |-> "message", text |-> ""], [type |-> "sticker", text |-> "wave01"] >>,
                  << [type |-> "sticker", text |-> "wave01"], [type |-> "message", text |-> "so"] >>}

OnlyDeedsRemembered ==
  \A clauses \in Clauses : \A channel \in {"text", "in_person"} : \A w \in Written : \A items \in {<< i, j >> : i, j \in Items} :
    \A blocks \in NormalizedBlocks("hello", w, channel) :
      /\ NormalizedBlocks("hello", blocks, channel) = {blocks}
      /\ \A i \in DOMAIN blocks : blocks[i].type = "sticker" => i = Len(blocks) /\ channel = "text"
      /\ LET kept == MemoryCandidates(items, clauses, blocks)
         IN kept # << >> => /\ channel = "in_person" /\ \E b \in Range(blocks) : b.type = "action"
                            /\ \A m \in Range(kept) : 1 \in Range(m.clauses) =>
                                 clauses[1] = [domain |-> "casual", time |-> "now", negated |-> FALSE, quoted |-> FALSE]

(* What binds them is called by its name in both modes, but the card of it *)
(* is shown only where it is asked after; three ways of saying it are      *)
(* noted and never looked for (_relationship_address_memory, 5366).        *)
BondIsKnown ==
  \A q \in Contexts : \A phrase \in PremisePhrases : \A mode \in {"immersive", "assistant"} : \A asked \in BOOLEAN :
    LET t == [Full([q EXCEPT !.mode = mode, !.intents = IF asked THEN {"relationship"} ELSE {}])
                EXCEPT !.premises = RelationshipPremise({phrase, "hello"}), !.bondStatus = "supported"]
    IN /\ (SystemPrompt(t).address = "darling") <=> phrase \notin {"already my old woman", "my husband", "bonded already"}
       /\ SystemPrompt(t).bond # "none" => asked /\ UserPrompt(t).relationship = "no label"

ASSUME LinesStand
ASSUME VisitIsAtOdds
ASSUME NotItsOwnWitness
ASSUME EditsAreLocal
ASSUME RepairsStand
ASSUME GreetingsRotate
ASSUME NothingHiddenShown
ASSUME GivenMayBeSaid
ASSUME EvidenceFits
ASSUME CopiesNoticed
ASSUME StreamedInOrder
ASSUME ComplaintsAreTold
ASSUME ProfilesAreCurrent
ASSUME OnlyDeedsRemembered
ASSUME BondIsKnown
=============================================================================
