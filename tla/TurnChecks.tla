----------------------------- MODULE TurnChecks -----------------------------
(***************************************************************************)
(* DialogueTurn evaluated over bounded inputs: every pair of answers made  *)
(* of at most two blocks, with and without early output. Retrieval over    *)
(* small corpora chosen from a library of documents of two characters, two *)
(* armors and two costumes, with every outfit and question.                *)
(***************************************************************************)
EXTENDS Integers, Sequences, FiniteSets, SequencesExt
LOCAL INSTANCE DialogueTurn
LOCAL INSTANCE Retrieval

LOCAL Said(ch, marks) == [type |-> Default(ch), text |-> marks]
LOCAL Pic(marks) == [type |-> "sticker", text |-> marks]

LOCAL Reply(blocks, end, cue, updates, ack) ==
  [end |-> end, head |-> TRUE, ack |-> ack,
   gen |-> [answer |-> << >>, blocks |-> blocks, cue |-> cue, updates |-> updates]]

LOCAL Plain == Reply(<< >>, "whole", TRUE, FALSE, << >>)

LOCAL Input(ch, streaming, budget, answers) ==
  [channel |-> ch, streaming |-> streaming, budget |-> budget, answers |-> answers,
   arrival |-> FALSE, meta |-> FALSE, asked |-> FALSE, maxBlocks |-> 2,
   local |-> {}, edited |-> {}]

(* Turns that may show blocks early: up to three of them, a store that     *)
(* confirms, refuses or loses each, a stream that ends in every way.       *)
LOCAL StreamTexts == {{}, {"open"}, {"text_channel"}, {"alias"}, {"untidy"}}
LOCAL Streams ==
  {Reply([i \in DOMAIN s |-> Said("text", s[i])], end, FALSE, updates, ack) :
     s \in SeqOf(StreamTexts, 2) \cup {<< {}, {}, {} >>},
     end \in {"whole", "cut", "error"}, updates \in BOOLEAN,
     ack \in {<<"yes", "yes", "yes">>, <<"no", "yes", "yes">>, <<"yes", "lost", "yes">>,
              <<"lost", "yes", "yes">>}}

LOCAL StreamInputs ==
  {Input("text", TRUE, 2, <<a, b>>) : a \in Streams,
     b \in {Plain, Reply(<< Said("text", {}) >>, "whole", TRUE, FALSE, << >>)}}

(* Turns judged only when whole: each family of interest in the first and  *)
(* in the second answer, a local or edited line that may be bad itself.    *)
LOCAL Marks(ch) == {{}, {"companion_hostility"}, {"unsupported_quote"}, {"address_alias_echo"},
  {"unsupported_session_premise"}, {"latest_state"}, {"narrative_action_repetition"}, {"unsafe"},
  IF ch = "text" THEN {"text_channel"} ELSE {"mixed"}}

LOCAL WholeReplies(ch) ==
  {Reply(<< Said(ch, m) >>, "whole", TRUE, FALSE, << >>) : m \in Marks(ch)}
  \cup {Plain, Reply(<< >>, "error", FALSE, FALSE, << >>),
        Reply(<< Pic({}) >>, "whole", FALSE, FALSE, << >>),
        Reply(<< [type |-> "action", text |-> {"in_person"}] >>, "whole", TRUE, FALSE, << >>)}

LOCAL WholeInputs ==
  UNION {{[Input(ch, FALSE, k[1], <<a, b>>) EXCEPT !.arrival = k[2], !.meta = k[3],
                                                  !.local = l[1], !.edited = l[2]] :
            k \in {<<1, FALSE, FALSE>>, <<2, FALSE, FALSE>>, <<3, FALSE, FALSE>>,
                   <<2, TRUE, FALSE>>, <<2, FALSE, TRUE>>},
            l \in {<< {}, {} >>, << {"unsupported_quote"}, {} >>, << {}, {"companion_hostility"} >>},
            a \in WholeReplies(ch), b \in WholeReplies(ch)}
         : ch \in {"text", "in_person"}}

LOCAL TextMarks(bs) == UNION {b.text : b \in Range(bs)}

(* A turn never makes more calls than its budget, nor a third one however  *)
(* large the budget is, and an arrival makes one (recovery and rewrite     *)
(* share the second call).                                                 *)
LOCAL TwoCallsAtMost(in, r) ==
  r.calls <= in.budget /\ r.calls <= 2 /\ (in.arrival => r.calls <= 1)

(* Once a block is on the reader's screen the provider is never asked      *)
(* again, and the turn ends with those blocks in front or as partial.      *)
LOCAL PublishedStands(in, r) ==
  r.pub # << >> =>
    /\ r.calls = 1
    /\ r.out \in {"answer", "generation_partial", "public_database_unavailable"}
    /\ r.out = "answer" => IsPrefix(r.pub, r.gen.blocks)

(* Nothing with an unresolved hard family, and nothing unsafe, is shown:   *)
(* not the model's, nor a local or an edited line.                         *)
LOCAL NothingHardShown(in, r) ==
  r.out = "answer" => TextMarks(r.gen.blocks) \cap (Hard \cup {"unsafe", "mixed"}) = {}

(* "accepted" means the first answer, and a local line is never accepted   *)
(* unless it filled in for an answer that came out empty at the very end.  *)
LOCAL AcceptedIsFirst(in, r) ==
  r.out = "answer" /\ Disposition(r) = "accepted" => r.calls = 1 /\ ~ r.local

(* An unverifiable quotation in the model's own blocks is never rescued by *)
(* removing its quotation marks: the blocks keep them and the turn fails.  *)
LOCAL QuoteIsFatal(in, r) ==
  "unsupported_quote_sanitized" \in r.adj => r.out = "role_guard_rejected"

ASSUME StreamedTurns ==
  \A in \in StreamInputs : LET r == Turn(in) IN
    TwoCallsAtMost(in, r) /\ PublishedStands(in, r) /\ NothingHardShown(in, r)

ASSUME WholeTurns ==
  \A in \in WholeInputs : LET r == Turn(in) IN
    /\ TwoCallsAtMost(in, r)
    /\ NothingHardShown(in, r)
    /\ AcceptedIsFirst(in, r)
    /\ QuoteIsFatal(in, r)

----------------------------------------------------------------------------
(* The evidence a question brings up *)

LOCAL Doc(id, source, about, story, merit) ==
  [id |-> id, source |-> source, about |-> about, names |-> {}, armor |-> "none", costume |-> "none",
   links |-> {}, recommends |-> {}, page |-> story, story |-> story, topics |-> {}, date |-> id, merit |-> merit]

LOCAL Me == {"she"}
LOCAL Profile == Doc(1, "character_profile", Me, "p", 0)
LOCAL Voice == [Doc(2, "character_voice", Me, "v", 1) EXCEPT !.topics = {"place"}]
LOCAL Mail == [Doc(3, "special_mail", Me, "m", 2) EXCEPT !.topics = {"pain", "state", "love", "covenant"}]
LOCAL Note == [Doc(4, "special_mail", Me, "m", 1) EXCEPT !.topics = {"love"}]
LOCAL Story == [Doc(5, "main_story", {}, "s", 5) EXCEPT !.names = {"she", "other"}, !.topics = {"armour"}]
LOCAL Event == Doc(6, "event_lore", {}, "e", 6)
LOCAL Other == Doc(7, "character_profile", {"other"}, "o", 4)
LOCAL Armor(id, a) == [Doc(id, "character_armor", Me, a, 0) EXCEPT !.armor = a]
LOCAL Dress(id, c, a) == [Doc(id, "character_costume", Me, c, 0) EXCEPT !.costume = c, !.armor = a]
LOCAL A1 == Armor(8, "a1")
LOCAL A2 == Armor(9, "a2")
LOCAL C1 == Dress(10, "c1", "a1")
LOCAL C2 == Dress(11, "c2", "a1")
LOCAL C3 == Dress(12, "c3", "a2")
LOCAL Squad == [Doc(13, "logistics_lore", {}, "q", 3) EXCEPT !.recommends = {"a1"}]

LOCAL Outfits == {A1, A2, C1, C2, C3}
LOCAL Corpora ==
  {Outfits \cup s : s \in {{}, {Squad}, {Mail, Story}, {Mail, Story, Event, Squad}}}
  \cup {{Profile, Voice, Mail, Note, Story, Event, Other, Squad} \cup s : s \in SUBSET {A1, C1}}

LOCAL Rows(corpus) == StyleRows(corpus, "she")
LOCAL Lengths(corpus) == {[r \in Rows(corpus) |-> IF r.kind = "armor" THEN n ELSE 4] : n \in {3, 7}}
LOCAL Messages(corpus) ==
  {[manual |-> manual, names |-> names, reset |-> FALSE, asksCostume |-> asks, length |-> length] :
     manual \in {{}, {"unknown"}}, names \in {n \in SUBSET Rows(corpus) : Cardinality(n) <= 2},
     asks \in BOOLEAN, length \in Lengths(corpus)}
LOCAL Styles(corpus) == {ResolveStyle(corpus, "she", m, NoStyle) : m \in Messages(corpus)}

LOCAL View(corpus) == {d.id : d \in {d \in corpus : "other" \notin d.about /\ d.source # "logistics_lore"}}

LOCAL Query(intents, focus, frame, mentions, topics, corpus, limit) ==
  [me |-> "she", intents |-> intents, focus |-> focus, frame |-> frame, scene |-> "none", meta |-> FALSE,
   mentions |-> mentions, topics |-> topics, limit |-> limit,
   hits |-> Ranked(corpus, [intents |-> intents, me |-> "nobody"], NoStyle)]

LOCAL Questions(corpus, limits) ==
  {Query(q[1], q[2], f, q[3], q[4], RuntimeDocuments(corpus), n) :
     f \in {"none", "casual", "canon", "mixed"}, n \in limits,
     q \in {<< {"general"}, "general", {}, {} >>,
            << {"general"}, "current_activity", {}, {} >>,
            << {"costume"}, "costume_detail", {}, {} >>,
            << {"relationship"}, "relationship_label", {}, {} >>,
            << {"experience", "relationship"}, "past_experience", {"other"}, {"armour"} >>,
            << {"current_state"}, "current_condition", {}, {"pain"} >>,
            << {"companion_social"}, "companion_relationship", {"other"}, {} >>,
            << {"logistics"}, "logistics_detail", {}, {} >>}}

LOCAL Every(limits, P(_, _, _)) ==
  \A corpus \in Corpora : \A style \in Styles(corpus), q \in Questions(corpus, limits) : P(corpus, style, q)

LOCAL Told(s) == {s[i] : i \in DOMAIN s}
LOCAL Ids(s) == {s[i].id : i \in DOMAIN s}

(* Whatever is asked, no page of an outfit reaches the prompt but of the   *)
(* costume that is worn, or of the armor whose costumes were asked for;    *)
(* with an outfit no other armor's page does, nor a squad's that is not    *)
(* linked to it.                                                           *)
OutfitMeant ==
  LET P(corpus, style, q) ==
        \A d \in Told(Retrieve(corpus, View(corpus), style, q)) :
          /\ d.source = "character_costume" =>
               \/ style.kind = "costume" /\ style.exact /\ d.costume = style.costume
               \/ style.kind = "armor" /\ d.id \in style.related /\ d.armor = style.armor
          /\ (style.armor # "none" /\ d.source = "character_armor") => d.armor = style.armor
          /\ (style.armor # "none" /\ d.source = "logistics_lore") => style.armor \in d.links
  IN Every({4}, P)

(* A worn costume is shown with the page of its armor, however much else   *)
(* ranks above it, wherever there is room for two; only a question about    *)
(* a squad's page leaves fewer places, and then the costume takes the last. *)
OutfitPaired ==
  LET P(corpus, style, q) ==
        LET docs == RuntimeDocuments(corpus)
            shown == Ids(Rerank(Searched(docs, View(corpus), style, q), docs, View(corpus), style, q))
        IN style.kind = "costume" /\ style.exact =>
             /\ shown \cap {d.id : d \in {d \in corpus : d.costume = style.costume}} # {}
             /\ (q.limit > 1 /\ {A1, A2} \subseteq corpus /\ ("logistics" \notin q.intents \/ Squad \notin corpus)) =>
                  shown \cap {d.id : d \in {d \in corpus : d.source = "character_armor" /\ d.armor = style.armor}} # {}
  IN Every({1, 2}, P)

(* The evidence fits its limit, no document is in it twice, and no story   *)
(* more than once (twice when the question is of a relationship).          *)
EvidenceVaried ==
  LET P(corpus, style, q) ==
        LET e == Retrieve(corpus, View(corpus), style, q) IN
        /\ Len(e) <= q.limit /\ Cardinality(Ids(e)) = Len(e)
        /\ \A i \in DOMAIN e : Chunks(e, e[i]) <= IF "relationship" \in q.intents THEN 2 ELSE 1
  IN Every({4}, P)

(* Talk of today, framed as such, never brings a story, a mail or an event *)
(* into the prompt, whatever was promoted on the way.                      *)
TodayIsNotStory ==
  LET P(corpus, style, q) ==
        q.frame = "casual" =>
          \A id \in Ids(Retrieve(corpus, View(corpus), style, q)) : id \notin {Mail.id, Note.id, Story.id, Event.id, Squad.id}
  IN Every({2}, P)

(* A recall of the story with another is answered from a story of both if  *)
(* there is one on the topic, a question of love from the strongest        *)
(* evidence.                                                               *)
RecallHasItsEvidence ==
  LET P(corpus, style, q) ==
        LET e == Ids(Retrieve(corpus, View(corpus), style, q)) IN
        /\ (Recalls(q) /\ Story \in corpus /\ q.topics = {"armour"}) => Story.id \in e
        /\ (q.focus = "relationship_label" /\ q.frame \in {"none", "canon", "mixed"} /\ Mail \in corpus
            /\ style.kind = "none") => Mail.id \in e
  IN Every({2}, P)

ASSUME OutfitMeant
ASSUME OutfitPaired
ASSUME EvidenceVaried
ASSUME TodayIsNotStory
ASSUME RecallHasItsEvidence
=============================================================================
