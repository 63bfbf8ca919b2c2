--------------------------- MODULE DialogueGuards ---------------------------
(***************************************************************************)
(* What the guard of a dialogue turn finds in an answer, the local lines   *)
(* and edits that replace a bad one, and the repairs made to a good one    *)
(* (mvp_service.py, the helpers of _answer_guardrail_violations and chat). *)
(* DialogueTurn says when each is used.                                    *)
(*                                                                         *)
(* A sentence is a set of marks <<kind, what>>: what the term lists and    *)
(* patterns of the code find in it.  A text is a sequence of sentences;    *)
(* an answer is [text, blocks], a block [type, text].  q is the context of *)
(* the turn: the analyst's message (a text, clause by clause), the         *)
(* evidence retrieved (sets of marks), the turns of the session and the    *)
(* scene; q.framed where the public service supplies a turn frame.         *)
(***************************************************************************)
EXTENDS Integers, Sequences, SequencesExt, FiniteSetsExt

Marks(text) == UNION Range(text)
Says(text, kind) == {m[2] : m \in {n \in Marks(text) : n[1] = kind}}
Mentions(text, kind, what) == Says(text, kind) \cap what # {}
Has(s, kind, what) == <<kind, what>> \in s
Without(text, marks) == SelectSeq(text, LAMBDA s : s \cap marks = {})

(* The block the analyst hears first: it has to answer the question.       *)
FirstVerbal(a) ==
  LET spoken == SelectSeq(a.blocks, LAMBDA b : b.type \in {"speech", "message"} /\ b.text # << >>)
  IN IF spoken = << >> THEN a.text ELSE spoken[1].text

Recent(q, n) == {q.turns[i] : i \in {j \in DOMAIN q.turns : j > Len(q.turns) - n}}

-----------------------------------------------------------------------------
(* Evidence.  A turn before this one proves a quotation (without a frame)  *)
(* and what the analyst said, never a claim of the character's.            *)
Sources(q) == q.hits \cup q.excerpts \cup q.profile

QuoteEvidence(q) ==
  Marks(q.message) \cup Sources(q)
    \cup (IF q.framed THEN q.confirmed
          ELSE UNION {t.user \cup t.assistant : t \in Range(q.turns)})

UnsupportedQuotes(a, q) == {x \in Says(a.text, "quote") : <<"quote", x>> \notin QuoteEvidence(q)}

UnsupportedAnalystPremises(a, q) ==
  {x \in Says(a.text, "trait") :
     <<"trait", x>> \notin Sources(q) \cup (IF q.framed THEN q.confirmed ELSE {})}

UnsupportedCasualState(a, q) ==
  IF q.focus # "casual_check_in" \/ Says(q.message, "state") # {} THEN {}
  ELSE {x \in Says(a.text, "state") : <<"state", x>> \notin q.hits \cup q.profile}

(* A meeting the analyst has not spoken of.  Asked to recall with nothing  *)
(* confirmed, "we, last time" is an invented memory too.                   *)
MeetingSources(q) ==
  IF q.framed
  THEN UNION {s \in Range(q.message) : ~Has(s, "clause", "aside")} \cup q.confirmed
         \cup (IF q.focus = "narrative_recall" THEN q.hits ELSE {})
  ELSE Marks(q.message) \cup UNION {t.user : t \in Range(q.turns)}

UnsupportedMeetings(a, q) ==
  LET claimed == Says(a.text, "met")
                   \cup (IF q.framed /\ q.focus = "session_recall" /\ q.confirmed = {}
                         THEN Says(a.text, "past") ELSE {})
  IN IF \E m \in MeetingSources(q) : m[1] \in {"met", "meet"} THEN {} ELSE claimed

-----------------------------------------------------------------------------
(* Meals.  An everyday meal may be claimed; not one copied from a source,  *)
(* shared with an analyst who has not said so, or before its hour.         *)
Kept(s) == s \cap {<<"food", x>> : x \in {"asks", "tentative", "later", "suggests", "denied"}} = {}

MealClaims(text) ==
  {s \in Range(text) : /\ Has(s, "food", "eaten") /\ Kept(s)
                       /\ Has(s, "food", "shared") \/ ~Has(s, "food", "of_analyst")}

SharedMealMentioned(q) ==
  LET told == Range(q.message) \cup {t.user : t \in Range(q.turns)}
                \cup (IF q.framed THEN {q.confirmed} ELSE {})
  IN \E s \in told : Has(s, "food", "shared") /\ Has(s, "food", "eaten")

MealHour == [night |-> 21, dinner |-> 17, lunch |-> 11, breakfast |-> 5]

(* Before four in the morning any meal of the day before is plausible.     *)
MealNotDue(s, hour) ==
  LET named == {MealHour[m] : m \in {k \in DOMAIN MealHour : Has(s, "meal", k)}}
  IN hour >= 4 /\ named # {} /\ hour < Max(named)

UnsupportedFood(a, q) ==
  LET claims == IF q.focus = "food_or_drink" THEN MealClaims(FirstVerbal(a)) ELSE {}
  IN {"shared" : s \in {c \in claims : Has(c, "food", "shared") /\ ~SharedMealMentioned(q)}}
     \cup {"source" : s \in {c \in claims : {m \in c : m[1] = "line"} \cap Sources(q) # {}}}
     \cup {"time" : s \in {c \in claims : ~Has(c, "food", "other_day") /\ MealNotDue(c, q.hour)}}

SharedMealLost(a, q) == q.focus = "shared_meal" /\ Mentions(FirstVerbal(a), "food", {"undecided"})

(* The first sentence that answers or asks back decides: an answer, an     *)
(* answer before the question, a dish proposed, or a plan handed back.     *)
Answers(s)  == Has(s, "food", "answers")
AsksBack(s) == Has(s, "food", "asks_back")
Proposes(s) == Has(s, "food", "item") /\ Has(s, "food", "proposal") /\ ~Has(s, "food", "done")

IsPlanQuestion(q) == /\ Mentions(q.message, "food", {"plan"})
                     /\ ~Mentions(q.message, "food", {"record", "wish", "addressed"})

DirectAnswerMissing(a, q) ==
  LET open    == FirstVerbal(a)
      i       == SelectInSeq(open, LAMBDA s : AsksBack(s) \/ Answers(s))
      Settles(s) == \/ Has(s, "food", "answers_first")
                    \/ Proposes(s)
                    \/ IsPlanQuestion(q) /\ Has(s, "food", "hands_over")
      stale   == Mentions(open, "food", {"historical"}) /\ ~Mentions(open, "food", {"current"})
  IN /\ q.focus = "food_or_drink"
     /\ stale \/ i = 0 \/ (AsksBack(open[i]) /\ ~Settles(open[i]))

-----------------------------------------------------------------------------
(* Routine questions are about another hour than the live scene.           *)
IsChoice(q) == {"train", "rest"} \subseteq Says(q.message, "act")

RoutineTimeScope(a, q) == q.focus = "routine_activity" /\ Mentions(FirstVerbal(a), "time", {"just_now"})

RoutineDirect(a, q) ==
  /\ q.focus = "routine_activity" /\ IsChoice(q)
  /\ ~Mentions(FirstVerbal(a), "act", {"train", "rest", "schedule"})

RoutineContradiction(a, q) ==
  LET open == Says(FirstVerbal(a), "act")
  IN /\ q.focus = "routine_activity" /\ IsChoice(q)
     /\ {"lazing", "at_training"} \subseteq open /\ "if" \notin open

TopicReset(a, q) == q.focus = "open_invitation" /\ Mentions(a.text, "topic", {"reset"})

(* A signature trait is flavour: not in two of the last four turns unless  *)
(* the analyst asks.                                                       *)
SignatureOveruse(a, q) ==
  /\ q.character = "signature" /\ Says(q.message, "signature") = {} /\ Says(a.text, "signature") # {}
  /\ \E t \in Recent(q, 3) : \E m \in t.assistant : m[1] = "signature"

-----------------------------------------------------------------------------
(* The scene.  q.scene is what the server knows, q.live the part this turn *)
(* asks about: status "none", "active" or "ambiguous".                     *)
DisclosureFocus(q) == IF q.framed /\ q.live.status # "none" THEN q.sceneFocus ELSE q.focus

Disclosed(a, q, kind, value) ==
  /\ value # "" /\ value \in Says(a.text, kind) /\ value \notin Says(q.message, kind)
  /\ ~(q.framed /\ <<kind, value>> \in q.hits \cup q.confirmed)

UnpromptedScene(a, q) ==
  IF DisclosureFocus(q) \in {"location", "visit_followup"} THEN {}
  ELSE {f \in {"place", "analyst", "doing"} :
          /\ Disclosed(a, q, IF f = "doing" THEN "doing" ELSE "place", q.scene[f])
          /\ f # "doing" \/ DisclosureFocus(q) # "current_activity"}

IsVisit(q) == Mentions(q.message, "visit", {"request"})

VisitLocationMissing(a, q) ==
  /\ IsVisit(q) /\ ~q.framed /\ q.focus # "visit_followup"
  /\ q.scene.place # "" /\ q.scene.place \notin Says(a.text, "place")

VisitLocationRepeated(a, q) ==
  /\ q.focus = "visit_followup" /\ IsVisit(q)
  /\ (({q.known} \cup {q.scene.place}) \ {""}) \cap Says(a.text, "place") # {}

UnpromptedPlan(a, q) ==
  /\ ~IsVisit(q) /\ ~Mentions(q.message, "plan", {"asked"})
  /\ Mentions(a.text, "plan", {"meetup", "shared"})

UnpromptedPlot(a, q) ==
  /\ "experience" \notin q.intents /\ Mentions(q.message, "invite", {"walk", "other"})
  /\ Says(q.message, "story") = {} /\ Says(a.text, "story") # {}

(* An event of the last reply retold as new after a change of channel.     *)
RepeatedEvent(a, q) ==
  /\ q.turns # << >> /\ q.switched
  /\ \E e \in Says(a.text, "event") \ Says(q.message, "event") : <<"event", e>> \in Last(q.turns).assistant

(* A live scene must be answered: its place, or its activity, or at least  *)
(* some present state; asked of several, which one is meant.               *)
LiveMismatch(a, q) ==
  \/ /\ q.live.status = "active" /\ q.focus = "location" /\ q.live.place # ""
     /\ q.live.place \notin Says(a.text, "place")
  \/ /\ q.live.status = "active" /\ q.focus = "current_activity" /\ q.live.doing # ""
     /\ q.live.doing \notin Says(a.text, "doing")
     /\ q.live.place = "" \/ q.live.place \notin Says(a.text, "place")
     /\ ~Mentions(FirstVerbal(a), "time", {"just_now", "status"})
  \/ /\ q.live.status = "ambiguous"
     /\ ~Mentions(a.text, "asks", {"which"})
     /\ ~(Cardinality(q.candidates) > 1 /\ q.candidates \subseteq Says(a.text, "name")
            /\ Mentions(a.text, "asks", {"question"}))

-----------------------------------------------------------------------------
(* Others and the bond.                                                    *)
Roster == {"lifu", "fenny", "katya", "tess", "yao", "jasmine", "acacia", "chenxing"}

(* Asked of in one clause: the bond and a list of it.                      *)
IsRosterQuestion(q) == \E s \in Range(q.message) : Has(s, "bond", "word") /\ Has(s, "asks", "list")

RosterViolations(a, q) ==
  IF ~IsRosterQuestion(q) THEN {}
  ELSE {"missing" : x \in Roster \ Says(a.text, "name")}
       \cup ({"excluded"} \cap {IF "enya" \in Says(a.text, "name") THEN "excluded" ELSE "none"})

(* The label is asked for outright, as a yes or no, or with a question     *)
(* mark; a bond word used as a form of address asks nothing.               *)
IsLabelQuestion(q) ==
  \E s \in Range(q.message) :
    \/ Has(s, "asks", "bond")
    \/ Has(s, "bond", "copula") /\ (Has(s, "asks", "yes_no") \/ Has(s, "asks", "question"))
    \/ Has(s, "bond", "word") /\ Has(s, "asks", "yes_no")

CrossCharacterMismatch(a, q) == q.cross /\ q.character = "developer" /\ Mentions(a.text, "unsure", {"fact"})

DualUnresolved(a, q) ==
  q.dual /\ (Mentions(a.text, "bond", {"refused"}) \/ ~Mentions(a.text, "name", {"morsos", "qinnuo"}))

Hostility(a, q) == IF q.social THEN Says(a.text, "hostile") ELSE {}

FennyHarsh(a, q) ==
  IF q.character = "fenny" /\ ~Mentions(q.message, "stakes", {"high"}) THEN Says(a.text, "harsh") ELSE {}

(* Names an analyst uses for somebody else are understood, not repeated.   *)
Aliases(q) == {m \in q.mentions : m.canonical /\ m.who # q.character}
AliasEcho(a, q) == {m.alias : m \in Aliases(q)} \cap Says(a.text, "name")

RendezvousUnclear(a, q) ==
  /\ ~q.framed /\ q.rendezvous
  /\ ~Mentions(a.text, "go", {"declined"}) /\ Mentions(a.text, "go", {"accepted"}) /\ ~Mentions(a.text, "go", {"waits"})

HintMissing(a, q) == q.hint # "" /\ (FirstVerbal(a) = << >> \/ ~Has(FirstVerbal(a)[1], "opens", q.hint))

MetaLeaks(a, q) ==
  IF q.mode = "immersive" /\ q.boundary = "meta_system"
  THEN Says(a.text, "meta") \cup {"quote" : x \in Says(a.text, "quote")} ELSE {}

-----------------------------------------------------------------------------
(* Style.                                                                  *)
NaturalFocus == {"general", "casual_check_in", "food_or_drink", "shared_meal", "current_activity",
                 "location", "visit_followup", "open_invitation", "preference_or_value",
                 "costume_detail", "logistics_detail"}

Mechanical(a, q) ==
  /\ q.mode # "assistant" /\ q.focus \in NaturalFocus /\ FirstVerbal(a) # << >>
  /\ Has(FirstVerbal(a)[1], "opens", "report")

(* "line": the wording of a long answer; "shape": a greeting with its time *)
(* words, names and meals taken out.                                       *)
Repeated(a, q) ==
  \/ \E t \in Recent(q, 3) : \E x \in Says(a.text, "line") : <<"line", x>> \in t.assistant
  \/ /\ q.focus = "casual_check_in"
     /\ \E t \in Recent(q, 4) : \E x \in Says(a.text, "shape") : <<"shape", x>> \in t.assistant

(* A gesture of the last four turns, or a third of one family in eight.    *)
GestureRepeated(a, q) ==
  LET now == Says(a.text, "gesture")
      exact == \E t \in Recent(q, 4) : \E g \in now : <<"gesture", g>> \in t.assistant
      family(f) == Cardinality({i \in DOMAIN q.turns : /\ i > Len(q.turns) - 8
                                                       /\ <<"family", f>> \in q.turns[i].assistant})
                     + (IF f \in Says(a.text, "family") THEN 1 ELSE 0)
  IN now # {} /\ (exact \/ \E f \in {m[2] : m \in {n \in UNION {t.assistant : t \in Range(q.turns)}
                                                     \cup Marks(a.text) : n[1] = "family"}} :
                             family(f) >= 3)

LogisticsMissing(a, q) ==
  q.focus = "logistics_detail" /\ q.members # {} /\ q.members \cap Says(a.text, "name") = {}

-----------------------------------------------------------------------------
(* All of them, by the family DialogueTurn names.                          *)
Found(a, q) ==
  [immersive_meta              |-> MetaLeaks(a, q) # {},
   relationship_roster         |-> RosterViolations(a, q) # {},
   address_alias_echo          |-> AliasEcho(a, q) # {},
   companion_hostility         |-> Hostility(a, q) # {},
   text_rendezvous_semantics   |-> RendezvousUnclear(a, q),
   fenny_daily_harshness       |-> FennyHarsh(a, q) # {},
   unsupported_analyst_premise |-> UnsupportedAnalystPremises(a, q) # {},
   unsupported_session_premise |-> UnsupportedMeetings(a, q) # {},
   unsupported_casual_state_claim |-> UnsupportedCasualState(a, q) # {},
   unsupported_current_food_fact  |-> UnsupportedFood(a, q) # {},
   shared_meal_context_lost    |-> SharedMealLost(a, q),
   routine_activity            |-> RoutineTimeScope(a, q) \/ RoutineDirect(a, q),
   routine_contradiction       |-> RoutineContradiction(a, q),
   open_invitation_topic_reset |-> TopicReset(a, q),
   character_signature_overuse |-> SignatureOveruse(a, q),
   mechanical_dialogue         |-> Mechanical(a, q),
   repeated_response           |-> Repeated(a, q),
   narrative_action_repetition |-> GestureRepeated(a, q),
   direct_answer_focus         |-> DirectAnswerMissing(a, q),
   logistics_evidence_missing  |-> LogisticsMissing(a, q),
   unprompted_scene_disclosure |-> UnpromptedScene(a, q) # {},
   visit_location              |-> VisitLocationMissing(a, q) \/ VisitLocationRepeated(a, q),
   unprompted_logistics_plan   |-> UnpromptedPlan(a, q),
   unprompted_plot_recap       |-> UnpromptedPlot(a, q),
   repeated_recent_event_after_channel_switch |-> RepeatedEvent(a, q),
   interaction_opening_required |-> HintMissing(a, q),
   cross_character_fact_mismatch |-> CrossCharacterMismatch(a, q),
   dual_persona_unresolved     |-> DualUnresolved(a, q),
   live_scene_mismatch         |-> LiveMismatch(a, q),
   unsupported_quote           |-> UnsupportedQuotes(a, q) # {}]

FoundFamilies(a, q) == LET f == Found(a, q) IN {k \in DOMAIN f : f[k]}

-----------------------------------------------------------------------------
(* The local lines.  One sentence each; its marks are what the guard would *)
(* find in the words of the code.  A line rotates with the turns the       *)
(* session still holds.                                                    *)
MaxSessionTurns == 6
Variant(q) == (Len(q.turns) % 3) + 1

FoodKind(q) ==
  IF Mentions(q.message, "food", {"record"}) THEN "state"
  ELSE IF Mentions(q.message, "food", {"drink"}) \/ IsPlanQuestion(q) THEN "plan" ELSE "wish"

FoodLine(q) ==
  << {<<"food", "answers">>,
      <<"food", IF FoodKind(q) = "state" THEN "current" ELSE <<"item", "item", "current">>[Variant(q)]>>} >>

CasualLine(q) == << {<<"line", <<"first", "second", "third">>[Variant(q)]>>} >>

SharedMealLine(q)     == << {<<"go", "accepted">>, <<"food", "shared">>} >>
OpenInvitationLine(q) == << {<<"topic", "kept">>} >>
RoutineLine(q)        == << {<<"act", "schedule">>, <<"act", "if">>, <<"act", "rest">>, <<"act", "train">>} >>
SignatureLine(q)      == << {<<"go", "accepted">>, <<"food", "item">>} >>
RendezvousLine(q)     == << {<<"go", "accepted">>, <<"go", "waits">>} >>
RosterLine(q)         == << {<<"name", n>> : n \in Roster} >>
MorsosLine(q)         == << {<<"name", "morsos">>, <<"asks", "question">>} >>
CrossLine(q)          == << {<<"fact", "shared_story">>} >>
WarmLine(q)           == << {<<"go", "accepted">>}, {<<"asks", "question">>} >>
HintLine(q)           == << {<<"opens", q.hint>>} >>
CommunicationLine(q)  == << {<<"plain", "channel">>} >>
CompanionLine(q)      == << {<<"name", n>> : n \in q.candidates} >>
FollowupLine(q)       == << {<<"go", "waits">>} >>
BoundaryLine(q)       == << {<<"plain", "self">>} >>

VisitLine(q) == IF q.scene.place = "" THEN << {<<"asks", "place">>} >>
                ELSE << {<<"place", q.scene.place>>}, {<<"go", "waits">>} >>

WhichLine(q) == << {<<"name", n>> : n \in q.candidates} \cup {<<"asks", "which">>} >>

LiveLine(q) ==
  IF q.live.status = "ambiguous" THEN WhichLine(q)
  ELSE << {<<"place", IF q.live.place = "" THEN "base" ELSE q.live.place>>,
           <<"doing", IF q.live.doing = "" THEN "resting" ELSE q.live.doing>>} >>

(* The activity without the place nobody asked for.                        *)
ActivityLine(q) ==
  IF q.live.status = "ambiguous" THEN WhichLine(q)
  ELSE << {<<"doing", IF q.live.doing = "" THEN "resting" ELSE q.live.doing>>, <<"time", "just_now">>} >>

LogisticsLine(q) == << {<<"name", n>> : n \in q.members} >>

DirectLine(q) == IF q.focus = "food_or_drink" THEN FoodLine(q) ELSE << {<<"plain", "later">>} >>

FennyLine(q) == << {<<"plain", "joke">>} >> \o (IF q.focus = "casual_check_in" THEN CasualLine(q) ELSE << >>)

NaturalLine(q) ==
  IF q.focus \in {"location", "current_activity"} /\ q.live.status # "none"
  THEN IF q.focus = "current_activity" THEN ActivityLine(q) ELSE LiveLine(q)
  ELSE IF q.focus = "shared_meal" THEN SharedMealLine(q)
  ELSE IF q.focus = "open_invitation" THEN OpenInvitationLine(q)
  ELSE IF q.focus = "visit_followup" THEN FollowupLine(q)
  ELSE IF q.focus = "casual_check_in" THEN CasualLine(q)
  ELSE << {<<"plain", q.focus>>} >>

(* The story in short, from the first source that has one.                 *)
NarrativeLine(q) ==
  IF q.focus \in {"narrative_recall", "evidence_answer", "current_fact"} /\ q.summaries # << >>
  THEN << << {<<"story", q.summaries[1]>>} >> >> ELSE << >>

(* Nothing generated is no new conversation: the line takes up the thread. *)
ContinuityLine(q) == << {<<"thread", IF q.turns = << >> THEN "opened" ELSE "kept">>} >>

(* When the provider gave no text at all.                                  *)
EmptyLine(q) ==
  IF q.sticker THEN << {<<"plain", "sticker">>} >>
  ELSE IF q.rendezvous THEN << {<<"plain", "thinking">>} >>
  ELSE IF q.dual THEN MorsosLine(q)
  ELSE IF IsRosterQuestion(q) THEN RosterLine(q)
  ELSE IF q.bond /\ IsLabelQuestion(q) THEN << {<<"bond", "label">>} >>
  ELSE IF q.hint # "" THEN HintLine(q)
  ELSE IF q.live.status # "none"
       THEN IF q.focus = "current_activity" THEN ActivityLine(q) ELSE LiveLine(q)
  ELSE IF q.focus = "casual_check_in" THEN CasualLine(q)
  ELSE IF q.focus = "food_or_drink" THEN FoodLine(q)
  ELSE IF q.focus \in {"current_activity", "location"} THEN << {<<"time", "status">>} >>
  ELSE IF q.focus = "logistics_detail" THEN LogisticsLine(q)
  ELSE IF NarrativeLine(q) # << >> THEN NarrativeLine(q)[1]
  ELSE ContinuityLine(q)

-----------------------------------------------------------------------------
(* Edits: the sentences that offend go, or the line above if nothing is    *)
(* left.  "knows" opens a sentence with "as you know": that clause goes,   *)
(* the rest of the sentence stays.                                         *)
Or(text, line) == IF text = << >> THEN line ELSE text

StripAnalystPremises(text, premises) ==
  LET freed == IF "knows" \in premises
               THEN [i \in DOMAIN text |-> text[i] \ {<<"trait", "knows">>}] ELSE text
      bare  == SelectSeq(freed, LAMBDA s : s # {})
  IN Or(Without(bare, {<<"trait", p>> : p \in premises}), << {<<"plain", "greeting">>} >>)

StripMeetings(text, premises) ==
  Or(Without(text, {"met", "past"} \X premises),
     << {<<"plain", "not_settled">>} >>)

StripPlans(text) ==
  Or(Without(text, {<<"plan", "meetup">>, <<"plan", "shared">>}), << {<<"plain", "heart">>} >>)

StripEvents(text) ==
  Or(Without(text, {m \in Marks(text) : m[1] = "event"}), << {<<"thread", "kept">>} >>)

(* Every place and activity of the scene goes, unprompted or not.          *)
StripScene(text, q) ==
  IF q.focus = "current_activity" /\ q.live.status # "none" THEN ActivityLine(q)
  ELSE Or(Without(text, {<<"place", q.scene.place>>, <<"place", q.scene.analyst>>, <<"doing", q.scene.doing>>}),
          << {<<"plain", "free">>} >>)

StripQuotes(text, spans) == [i \in DOMAIN text |-> text[i] \ {<<"quote", x>> : x \in spans}]

(* What takes the place of an answer whose rewrite still breaks family f.  *)
Replacement(f, a, q) ==
  CASE f = "text_rendezvous_semantics"      -> RendezvousLine(q)
    [] f = "direct_answer_focus"            -> DirectLine(q)
    [] f = "relationship_roster"            -> RosterLine(q)
    [] f = "unsupported_casual_state_claim" -> CasualLine(q)
    [] f = "unsupported_current_food_fact"  -> DirectLine(q)
    [] f = "shared_meal_context_lost"       -> SharedMealLine(q)
    [] f \in {"routine_activity", "routine_contradiction"} -> RoutineLine(q)
    [] f = "open_invitation_topic_reset"    -> OpenInvitationLine(q)
    [] f = "character_signature_overuse"    -> SignatureLine(q)
    [] f = "cross_character_fact_mismatch"  -> CrossLine(q)
    [] f = "dual_persona_unresolved"        -> MorsosLine(q)
    [] f = "mechanical_dialogue"            -> NaturalLine(q)
    [] f = "logistics_evidence_missing"     -> LogisticsLine(q)
    [] f = "unsupported_session_premise"    -> StripMeetings(a.text, UnsupportedMeetings(a, q))
    [] f = "unprompted_scene_disclosure"    -> StripScene(a.text, q)
    [] f = "unprompted_logistics_plan"      -> StripPlans(a.text)
    [] f = "unprompted_plot_recap"          -> WarmLine(q)
    [] f = "repeated_recent_event_after_channel_switch" -> StripEvents(a.text)
    [] f = "repeated_response" -> IF q.focus = "casual_check_in" THEN CasualLine(q) ELSE NaturalLine(q)
    [] f = "interaction_opening_required"   -> HintLine(q)
    [] f = "visit_location" -> IF VisitLocationRepeated(a, q) THEN FollowupLine(q) ELSE VisitLine(q)
    [] f = "live_scene_mismatch" -> IF q.focus = "current_activity" THEN ActivityLine(q) ELSE LiveLine(q)
    [] f = "companion_hostility"            -> CompanionLine(q)
    [] f = "fenny_daily_harshness"          -> FennyLine(q)
    [] f = "unsupported_analyst_premise"    -> StripAnalystPremises(a.text, UnsupportedAnalystPremises(a, q))
    [] f \in {"immersive_meta", "unsupported_quote"} ->
         IF q.boundary = "meta_system" THEN BoundaryLine(q)
         ELSE StripQuotes(a.text, UnsupportedQuotes(a, q))
    [] OTHER -> a.text

-----------------------------------------------------------------------------
(* Repairs of an answer that passed.                                       *)
RenameAliases(text, q) ==
  LET named(n) == IF \E m \in Aliases(q) : m.alias = n
                  THEN (CHOOSE m \in Aliases(q) : m.alias = n).name ELSE n
  IN [i \in DOMAIN text |-> {IF m[1] = "name" THEN <<"name", named(m[2])>> ELSE m : m \in text[i]}]

(* "analyst" as a form of address becomes the pet name the bond allows.    *)
Address(text, q) ==
  IF ~(q.bond \/ q.pet.explicit) \/ q.pet.name = "" THEN text
  ELSE [i \in DOMAIN text |-> {IF m = <<"calls", "analyst">> THEN <<"calls", q.pet.name>> ELSE m : m \in text[i]}]

(* Only a refusal or a merely professional answer is put right.            *)
RepairBond(text, q) ==
  LET refused == Mentions(text, "bond", {"refused"})
      named   == Mentions(text, "bond", {"label"})
      played  == Mentions(text, "bond", {"colleague"})
  IN IF /\ q.bond /\ IsLabelQuestion(q)
        /\ refused \/ (~named /\ played)
     THEN << {<<"bond", "label">>} >> ELSE text

(* A symptom the newest source says is healed may not be told as current.  *)
RepairLatest(text, q) ==
  IF /\ q.focus = "current_condition" /\ Mentions(q.message, "state", {"pain"})
     /\ q.newest = "recovered" /\ Mentions(text, "pain", {"old"}) /\ ~Mentions(text, "pain", {"recovered"})
  THEN Append(text, {<<"pain", "recovered">>}) ELSE text

Repaired(text, q) == RenameAliases(Address(RepairLatest(RepairBond(text, q), q), q), q)

(* Only a plain check-in may show text before the whole answer is judged.  *)
StreamEligible(q) ==
  /\ q.mode = "immersive" /\ q.focus = "casual_check_in" /\ q.boundary = "standard"
  /\ ~q.arrival /\ ~q.rendezvous /\ ~q.sticker /\ q.mentions = {} /\ ~q.cross /\ ~q.social
  /\ ~q.dual /\ q.hint = "" /\ q.calls = << >> /\ q.live.status = "none"
  /\ q.intents \cap {"relationship", "experience", "current_state"} = {}

-----------------------------------------------------------------------------
(* Assistant mode: the account of its work.  A text is a set of words;     *)
(* w = [summary, steps], p = [overview, sections] as generated.            *)
Secret    == {"chain of thought", "system prompt", "api key", "prompt in Chinese"}
Open(x)   == IF x \cap Secret = {} THEN x ELSE {}

WorkTrace(w, calls) ==
  LET steps == SelectSeq(SubSeq(w.steps, 1, Min({5, Len(w.steps)})),
                         LAMBDA x : x # {} /\ x \cap (Secret \ {"prompt in Chinese"}) = {})
      done == [i \in 1..Min({3, Len(calls)}) |-> {"tool", calls[i]}]
  IN [summary |-> IF Open(w.summary) # {} THEN Open(w.summary)
                  ELSE {IF calls # << >> THEN "tools used" ELSE "in layers"},
      steps   |-> IF steps # << >> THEN steps ELSE IF done # << >> THEN done ELSE << {"usual steps"} >>]

AnalysisProcess(p, w, calls) ==
  LET own    == SelectSeq(SubSeq(p.sections, 1, Min({7, Len(p.sections)})), LAMBDA x : Open(x) # {})
      traced == SelectSeq(SubSeq(w.steps, 1, Min({6, Len(w.steps)})), LAMBDA x : Open(x) # {})
      base   == IF own # << >> THEN own ELSE traced
      tools  == IF calls = << >> THEN base ELSE Append(base, {"tool"} \cup Range(calls))
      all    == IF tools = << >> THEN << {"usual sections"} >> ELSE tools
  IN [overview |-> IF Open(p.overview) # {} THEN Open(p.overview)
                   ELSE IF Open(w.summary) # {} THEN Open(w.summary) ELSE {"goal"},
      sections |-> SubSeq(all, 1, Min({7, Len(all)}))]
=============================================================================
