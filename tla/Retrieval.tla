----------------------------- MODULE Retrieval ------------------------------
(***************************************************************************)
(* What a character is shown before she answers: retrieve and _rerank_hits *)
(* of mvp_service.py over a corpus, with the outfit a message means.       *)
(*                                                                         *)
(* A document is a record: id, source, the characters it is `about` and    *)
(* those its text `names`, the armor and costume of an outfit's page, the  *)
(* armors a squad's page `links` and `recommends`, the `page` it is a      *)
(* chunk of, its `story`, the `topics` of its words, a `date`, and `merit`,*)
(* what the words of the question add to its score.  A query is            *)
(*   [me, intents, focus, frame, scene, meta, mentions, topics, hits, limit] *)
(* where frame is "none" or the domain of the turn's clauses and `hits`    *)
(* are the documents the index finds, in its order.                        *)
(***************************************************************************)
EXTENDS Integers, Sequences, FiniteSets, SequencesExt

Costumes == {"character_costume"}      \* also spelled character_costumes

\* source_layer
Layer(d) ==
  CASE d.source \in Costumes -> "costume_specific"
    [] d.source \in {"main_story", "character_story", "character_profile", "character_armor", "character_voice"} -> "stable"
    [] d.source \in {"special_mail", "character_affection", "event_lore"} -> "situational"
    [] OTHER -> "general"

Direct(d, me) == me \in d.about

First(s, n) == SubSeq(s, 1, IF Len(s) < n THEN Len(s) ELSE n)
Best(set, Over(_, _)) ==
  [n \in 1..Cardinality(set) |-> CHOOSE d \in set : Cardinality({x \in set : Over(x, d)}) = n - 1]
Without(s, gone) == LET Kept(d) == d \notin gone IN SelectSeq(s, Kept)

(***************************************************************************)
(* A squad's page is linked to an armor by its metadata or, for every      *)
(* chunk of the page, by a recommendation beside the armor's name.         *)
(***************************************************************************)
LogisticsLinks(corpus, d) ==
  LET page == {x \in corpus : x.source = "logistics_lore" /\ x.page = d.page}
      pages == {x \in corpus : x.source = "character_armor"}
  IN UNION {x.links : x \in page} \cup {a.armor : a \in {a \in pages : \E x \in page : a.armor \in x.recommends}}

RuntimeDocuments(corpus) ==
  {IF d.source # "logistics_lore" THEN d
   ELSE LET links == LogisticsLinks(corpus, d)
            armors == {a \in corpus : a.source = "character_armor" /\ a.armor \in links}
        IN [d EXCEPT !.links = links, !.about = @ \cup UNION {a.about : a \in armors}] : d \in corpus}

(***************************************************************************)
(* The outfit.  A row of the index stands for a costume or an armor of the *)
(* character; `length` is that of its longest name in the message.         *)
(***************************************************************************)
NoStyle == [kind |-> "none", status |-> "none", armor |-> "none", costume |-> "none", exact |-> FALSE,
            documents |-> {}, related |-> {}]

StyleRows(corpus, me) ==
  {[kind |-> IF d.source \in Costumes THEN "costume" ELSE "armor", armor |-> d.armor, costume |-> d.costume] :
     d \in {d \in corpus : d.source \in Costumes \cup {"character_armor"} /\ Direct(d, me)}}

RowDocuments(corpus, me, row) ==
  {d.id : d \in {d \in corpus : /\ Direct(d, me)
                                /\ IF row.kind = "costume" THEN d.source \in Costumes /\ d.costume = row.costume
                                   ELSE d.source = "character_armor" /\ d.armor = row.armor}}

\* _style_matches: a costume's name weighs two characters more.
MatchScore(row, length) == 10 * length[row] + (IF row.kind = "costume" THEN 20 ELSE 0)
Ambiguous(rows) ==
  LET costumes == {r.costume : r \in {r \in rows : r.kind = "costume"}}
  IN Cardinality(costumes) > 1
     \/ (costumes = {} /\ Cardinality({r.armor : r \in rows}) > 1)

FromRow(corpus, me, row) ==
  [NoStyle EXCEPT !.kind = row.kind, !.status = "active", !.armor = row.armor, !.exact = TRUE,
                  !.costume = IF row.kind = "costume" THEN row.costume ELSE "none",
                  !.documents = RowDocuments(corpus, me, row)]

\* Asking for the outfits of an armor shows them all and puts none on.
RelatedCostumes(corpus, me, row) ==
  LET rows == {r \in StyleRows(corpus, me) : r.kind = "costume" /\ r.armor = row.armor}
      related == UNION {RowDocuments(corpus, me, r) : r \in rows}
  IN [FromRow(corpus, me, row) EXCEPT !.related = related, !.exact = related = {}]

StyleNamed(corpus, me, rows, length, asksCostume) ==
  LET best == {r \in rows : \A other \in rows : MatchScore(other, length) <= MatchScore(r, length)}
  IN IF Ambiguous(rows) \/ Cardinality(best) # 1 THEN {}
     ELSE {IF r.kind = "armor" /\ asksCostume THEN RelatedCostumes(corpus, me, r) ELSE FromRow(corpus, me, r) : r \in best}

(* A message is [manual, names, reset, asksCostume, length]: the rows a     *)
(* chosen label names ({"unknown"} for one that names none), then those of  *)
(* the words; otherwise the outfit of the session goes on.                  *)
ResolveStyle(corpus, me, m, session) ==
  LET chosen == StyleNamed(corpus, me, m.manual \ {"unknown"}, m.length, m.asksCostume)
      spoken == StyleNamed(corpus, me, m.names, m.length, m.asksCostume)
  IN CASE m.manual # {} -> IF chosen # {} THEN CHOOSE s \in chosen : TRUE
                           ELSE [NoStyle EXCEPT !.kind = "costume", !.status = "unresolved"]
       [] m.reset -> [NoStyle EXCEPT !.status = "cleared"]
       [] m.names # {} -> IF spoken # {} THEN CHOOSE s \in spoken : TRUE ELSE [NoStyle EXCEPT !.status = "ambiguous"]
       [] session.status \in {"active", "unresolved"} -> session
       [] OTHER -> NoStyle

(***************************************************************************)
(* _allowed_document.                                                      *)
(***************************************************************************)
Worn(style) == style.kind = "costume" /\ style.status \in {"active", "unresolved"} /\ style.exact
ArmorShown(style) == style.kind = "armor" /\ style.related # {}

AllowedDocument(d, view, style, me) ==
  /\ d.id \in view \/ (d.source = "logistics_lore" /\ Direct(d, me))
  /\ (style.status \in {"active", "unresolved"} /\ style.armor # "none") =>
       /\ d.source = "character_armor" => d.armor = style.armor
       /\ d.source = "logistics_lore" => style.armor \in d.links
  /\ (style.kind = "armor" /\ d.source \in Costumes) =>
       style.related # {} /\ d.armor = style.armor /\ d.id \in style.related
  /\ (Layer(d) = "costume_specific" /\ ~ArmorShown(style)) =>
       Worn(style) /\ (d.costume = style.costume \/ d.id \in style.documents)

(***************************************************************************)
(* _rerank_hits.                                                           *)
(***************************************************************************)
SameCostume(d, style) == Worn(style) /\ d.source \in Costumes /\ d.costume = style.costume
SameArmor(d, style) == style.armor # "none" /\ d.source = "character_armor" /\ d.armor = style.armor

Score(d, q, style) ==
  (IF Direct(d, q.me) THEN 42 ELSE 0) + 11 * d.merit
  - (IF ~Direct(d, q.me) /\ d.source = "main_story" /\ "experience" \notin q.intents THEN 18 ELSE 0)
  + (IF ~Worn(style) THEN 0
     ELSE IF SameCostume(d, style) THEN 260
     ELSE IF SameArmor(d, style) THEN 230
     ELSE IF d.id \in style.documents THEN 240 ELSE 0)

Ranked(docs, q, style) ==
  LET Over(a, b) == Score(a, q, style) > Score(b, q, style)
                    \/ (Score(a, q, style) = Score(b, q, style) /\ a.id > b.id)
  IN Best(docs, Over)

NaturalFocus ==
  {"food_or_drink", "shared_meal", "current_activity", "routine_activity", "location",
   "visit_followup", "open_invitation"}
LatestRequested(q) ==
  q.focus = "current_condition" \/ ("current_state" \in q.intents /\ q.focus \notin NaturalFocus)

(* diversify: one chunk of a story (two when the question is of a           *)
(* relationship) and three of a source, then what was passed over fills     *)
(* the rest, but never a story twice.                                       *)
Chunks(s, d) == Cardinality({i \in DOMAIN s : s[i].story = d.story})
OfSource(s, d) == Cardinality({i \in DOMAIN s : s[i].source = d.source})

Diversify(docs, q, limit) ==
  LET most == IF "relationship" \in q.intents THEN 2 ELSE 1
      cap == IF LatestRequested(q) THEN 4 ELSE 3
      Take(acc, d) ==
        IF Len(acc.kept) >= limit THEN acc
        ELSE IF Chunks(acc.kept, d) >= most \/ OfSource(acc.kept, d) >= cap
          THEN [acc EXCEPT !.passed = Append(@, d)]
        ELSE [acc EXCEPT !.kept = Append(@, d)]
      Fill(kept, d) == IF Len(kept) >= limit \/ Chunks(kept, d) >= most THEN kept ELSE Append(kept, d)
      taken == FoldLeft(Take, [kept |-> << >>, passed |-> << >>], docs)
  IN FoldLeft(Fill, taken.kept, taken.passed)

Limit(q) == IF q.limit > 12 THEN 12 ELSE q.limit

(* _relationship_background: the documents of the character with words of   *)
(* love, the strong ones first, one of a title.                             *)
RelationshipEvidence(corpus, me) ==
  LET loving == {d \in corpus : Direct(d, me) /\ d.topics \cap {"love", "covenant"} # {}}
      Weight(d) == (IF "covenant" \in d.topics THEN 38 ELSE 0) + (IF "love" \in d.topics THEN 14 ELSE 0)
      Over(a, b) == Weight(a) > Weight(b) \/ (Weight(a) = Weight(b) /\ a.id > b.id)
      One(kept, d) == IF Chunks(kept, d) > 0 \/ Len(kept) = 5 THEN kept ELSE Append(kept, d)
  IN FoldLeft(One, << >>, Best(loving, Over))

RelationshipLabel(corpus, me, audited) ==
  LET evidence == ToSet(RelationshipEvidence(corpus, me)) IN
  IF me \in audited /\ \E d \in evidence : "covenant" \in d.topics THEN "explicit"
  ELSE IF evidence # {} THEN "supported" ELSE "unknown"

\* The last place is given to the best global story, and then to the second.
WithStories(selected, globals) ==
  LET Replace(s, g) == IF g \in ToSet(s) \/ s = << >> THEN s ELSE [s EXCEPT ![Len(s)] = g]
  IN FoldLeft(Replace, selected, First(globals, 2))

\* An outfit shown without the others it must come with takes the last place
\* that is not its own.
WithOutfit(selected, mandatory) ==
  LET ids == {d.id : d \in ToSet(mandatory)}
      Promote(s, d) ==
        LET free == {i \in DOMAIN s : s[i].id \notin ids}
            last == CHOOSE i \in free : \A j \in free : j <= i
        IN IF d.id \in {x.id : x \in ToSet(s)} \/ free = {} THEN s ELSE [s EXCEPT ![last] = d]
  IN FoldLeft(Promote, selected, mandatory)

Candidates(hits, corpus, view, style, q) ==
  ToSet(hits) \cup {d \in corpus : AllowedDocument(d, view, style, q.me) /\ Direct(d, q.me)}

Rerank(hits, corpus, view, style, q) ==
  LET ranked == Ranked(Candidates(hits, corpus, view, style, q), q, style)
      Of(P(_)) == SelectSeq(ranked, P)
      Squad(d) == d.source = "logistics_lore" /\ Direct(d, q.me)
      Global(d) == ~Direct(d, q.me) /\ d.source \in {"main_story", "event_lore"}
      Dress(d) == SameCostume(d, style)
      Armor(d) == SameArmor(d, style)
      Related(d) == d.id \in style.related
      loved == First(SelectSeq(RelationshipEvidence(corpus, q.me), LAMBDA d : d \in ToSet(ranked)), 4)
      mandatory == CASE Worn(style) -> First(Of(Dress), 1) \o First(Of(Armor), 1)
                     [] ArmorShown(style) -> First(Of(Related), 2) \o First(Of(Armor), 1)
                     [] OTHER -> << >>
      squads == IF "logistics" \in q.intents /\ Of(Squad) # << >> THEN Of(Squad) ELSE ranked
      first == Diversify(squads, q, Limit(q))
      second == IF "relationship" \in q.intents
                THEN Diversify(loved \o Without(first, ToSet(loved)), q, Limit(q)) ELSE first
      third == IF "experience" \in q.intents THEN WithStories(second, Of(Global)) ELSE second
      fourth == IF ArmorShown(style) /\ mandatory # << >>
                THEN Diversify(mandatory \o Without(third, ToSet(mandatory)), q, Limit(q)) ELSE third
  IN WithOutfit(Diversify(fourth, q, Limit(q)), mandatory)

(***************************************************************************)
(* Evidence promoted beside the search.                                    *)
(***************************************************************************)
Newest(a, b) == a.date > b.date \/ (a.date = b.date /\ a.id > b.id)

\* _latest_state_hits: of the condition that is asked after.
LatestState(corpus, view, style, q) ==
  LET asked == q.topics \cap {"pain", "recovery"}
      known == {d \in corpus : /\ Direct(d, q.me) /\ AllowedDocument(d, view, style, q.me)
                               /\ "state" \in d.topics /\ d.topics \cap asked # {}
                               /\ "pain" \in asked => "pain" \in d.topics}
  IN Best(known, Newest)

\* _companion_social_evidence: what both are in, then a profile of each.
SharedTypes == {"main_story", "character_story", "event_lore"}
ProfileTypes == {"character_profile", "character_voice"}

SocialEvidence(corpus, q) ==
  LET others == q.mentions \ {q.me}
      Present(d, who) == who \in d.about \cup d.names
      shared == {d \in corpus : /\ d.source \in SharedTypes /\ Present(d, q.me)
                                /\ \E o \in others : Present(d, o)}
      profiles == {d \in corpus : d.source \in ProfileTypes /\ d.about \cap others # {}}
      One(kept, d) == IF \E x \in ToSet(kept) : x.source \in ProfileTypes /\ x.about = d.about THEN kept
                      ELSE Append(kept, d)
  IN IF others = {} THEN << >>
     ELSE First(FoldLeft(One, First(Best(shared, Newest), 2), Best(profiles, Newest)), 4)

SocialTier(corpus, q) ==
  LET found == ToSet(SocialEvidence(corpus, q)) IN
  IF q.mentions \ {q.me} = {} THEN "none"
  ELSE IF \E d \in found : d.source \in SharedTypes THEN "shared_evidence"
  ELSE IF found # {} THEN "profile_impression" ELSE "hypothetical_only"

\* _cross_character_main_story_hits: a main story of both on the topic.
CrossStory(corpus, q) ==
  LET others == q.mentions \ {q.me}
      asked == q.topics \cap {"armour"}
      both == {d \in corpus : /\ d.source = "main_story" /\ q.me \in d.names
                              /\ d.names \cap others # {} /\ d.topics \cap asked # {}}
      One(kept, d) == IF Chunks(kept, d) > 0 THEN kept ELSE Append(kept, d)
  IN First(FoldLeft(One, << >>, Best(both, Newest)), 2)

(***************************************************************************)
(* retrieve.                                                               *)
(***************************************************************************)
DailyFocus == NaturalFocus \cup {"casual_check_in", "general"}

Recalls(q) == q.frame \in {"canon", "mixed"}
FramedFocus(q) ==
  CASE q.frame = "canon" -> "narrative_recall"
    [] q.frame = "session" -> "session_recall"
    [] q.frame = "mixed" -> "mixed_dialogue"
    [] OTHER -> q.focus

\* A short answer of the index is filled with what the character knows.
Searched(corpus, view, style, q) ==
  LET Fits(d) == AllowedDocument(d, view, style, q.me)
      found == SelectSeq(q.hits, Fits)
      Over(a, b) ==
        LET outfit(d) == style.kind = "costume" /\ Layer(d) = "costume_specific" IN
        IF outfit(a) # outfit(b) THEN outfit(a)
        ELSE IF (Layer(a) = "stable") # (Layer(b) = "stable") THEN Layer(a) = "stable" ELSE a.id > b.id
      more == {d \in corpus \ ToSet(found) : Fits(d) /\ (q.frame = "none" \/ Recalls(q) \/ Layer(d) = "stable")}
      full == IF Len(found) >= q.limit THEN found ELSE First(found \o Best(more, Over), q.limit)
  IN First(full, Limit(q))

Promoted(first, rest, limit) == First(first \o Without(rest, ToSet(first)), limit)

\* Daily talk keeps who she is; a chosen outfit is part of it, and what
\* happens somewhere else is not what she is doing now.
DailySources(q, style) ==
  IF q.focus = "casual_check_in" THEN {"character_profile", "character_voice"}
  ELSE {"character_profile", "character_voice", "character_affection"}
       \cup (IF q.frame # "none" /\ q.focus = "costume_detail" /\ style.exact
             THEN Costumes \cup {"character_armor"} ELSE {})

Daily(found, q, style) ==
  LET Stays(d) == d.source \in DailySources(q, style)
      kept == SelectSeq(found, Stays)
      Anywhere(d) == "place" \notin d.topics
      placed == IF q.focus \in {"current_activity", "routine_activity"} /\ "place" \notin q.topics
                THEN SelectSeq(kept, Anywhere) ELSE kept
  IN IF q.frame = "none" /\ kept = << >> /\ q.focus # "casual_check_in" THEN found
     ELSE First(placed, IF Limit(q) > 5 THEN 5 ELSE Limit(q))

Retrieve(corpus, view, style, q) ==
  LET docs == RuntimeDocuments(corpus)
      ranked == Rerank(Searched(docs, view, style, q), docs, view, style, q)
      focus == FramedFocus(q)
      latest == IF focus = "current_condition" THEN LatestState(docs, view, style, q) ELSE << >>
      state == IF latest = << >> THEN ranked ELSE Promoted(latest, ranked, Limit(q))
      social == IF focus = "companion_relationship" THEN SocialEvidence(docs, q) ELSE << >>
      met == IF social = << >> THEN state ELSE Promoted(social, state, Limit(q))
      daily == IF ~Recalls(q) /\ (q.frame # "none" \/ focus \in DailyFocus)
               THEN Daily(met, [q EXCEPT !.focus = focus], style) ELSE met
      cross == IF q.frame = "none" \/ Recalls(q) THEN CrossStory(docs, q) ELSE << >>
      told == IF cross = << >> THEN daily ELSE Promoted(cross, daily, Limit(q))
  IN IF q.scene # "none" /\ q.frame = "none" THEN << >> ELSE told

ConversationMode(q) ==
  CASE q.frame = "mixed" -> "mixed_dialogue"
    [] Recalls(q) -> "narrative_recall"
    [] q.frame = "session" -> "session_recall"
    [] q.meta -> "diegetic_reframe"
    [] q.scene # "none" -> "live_scene"
    [] q.focus = "relationship_label" -> "relationship"
    [] q.focus \in DailyFocus \cup {"companion_relationship"} -> "natural_chat"
    [] "current_state" \in q.intents -> "current_fact"
    [] "experience" \in q.intents -> "narrative_recall"
    [] OTHER -> "evidence_answer"

\* _question_focus: what the words ask for, the first that fits.
QuestionFocus(intents, asks) ==
  CASE "costume" \in intents -> "costume_detail"
    [] "companion_social" \in intents /\ "logistics" \notin intents -> "companion_relationship"
    [] "logistics" \in intents -> "logistics_detail"
    [] {"meal", "offer"} \subseteq asks -> "shared_meal"
    [] "food" \in asks -> "food_or_drink"
    [] "visit" \in asks -> "location"
    [] "wish" \in asks -> "open_invitation"
    [] {"earlier", "activity"} \subseteq asks -> "routine_activity"
    [] "doing" \in asks -> "current_activity"
    [] "where" \in asks -> "location"
    [] "relationship" \in intents /\ "label" \in asks -> "relationship_label"
    [] "greeting" \in asks -> "casual_check_in"
    [] "condition" \in asks -> "current_condition"
    [] "preference" \in intents -> "preference_or_value"
    [] "experience" \in intents -> "past_experience"
    [] OTHER -> "general"

\* _live_scene_context: the scene of the one who is asked after.
LiveScene(focus, mentions, present, me) ==
  IF focus \notin {"location", "current_activity"} THEN "none"
  ELSE IF Cardinality(mentions) > 1 THEN "ambiguous"
  ELSE IF (IF mentions = {} THEN {me} ELSE mentions) \subseteq present THEN "active" ELSE "none"

=============================================================================
