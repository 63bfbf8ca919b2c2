--------------------------- MODULE FeedbackIssues ---------------------------
(***************************************************************************)
(* The feedback inbox of the local workspace (mvp_service.py 11704-12150): *)
(* three append-only files, the reports, what was decided of a report      *)
(* (triage) and what was decided of a family of reports (events).  Nothing *)
(* is rewritten: a list is worked out from the files at each reading.      *)
(*                                                                         *)
(* A text is a set of words, each standing for one term list of the code.  *)
(* Reports are numbered in the order of the file; created is their clock.  *)
(***************************************************************************)
EXTENDS Integers, Sequences, SequencesExt, FiniteSetsExt

-----------------------------------------------------------------------------
(* Families.  A rule names the word lists a text must touch, each by one   *)
(* of its alternatives; the first rule that fits decides.                  *)
Rules ==
  << << <<{"covenant"}, {"list of"}>>,                  "formal_relationship_roster" >>,
     << <<{"covenant", "pet name"}>>,                   "formal_relationship_address" >>,
     << <<{"meal brought"}, {"meal forgotten"}>>,       "current_food_continuity" >>,
     << <<{"what eaten"}>>,                             "current_food_continuity" >>,
     << <<{"squad"}>>,                                  "logistics_linkage" >>,
     << <<{"nickname"}>>,                               "nickname_mapping" >>,
     << <<{"omen"}, {"repeated"}>>,                     "signature_trait_repetition" >>,
     << <<{"place"}, {"repeated"}>>,                    "location_repetition" >>,
     << <<{"place"}, {"conflict"}>>,                    "location_conflict" >>,
     << <<{"visit"}, {"place"}>>,                       "visit_location_disclosure" >>,
     << <<{"training"}, {"conflict"}>>,                 "current_activity_choice" >>,
     << <<{"gesture"}, {"typed together"}>>,            "composer_action_and_speech" >>,
     << <<{"gesture"}, {"hidden in text"}>>,            "text_action_visibility" >>,
     << <<{"intimacy"}, {"broken off"}>>,               "intimacy_continuity" >>,
     << <<{"market"}, {"lacking"}>>,                    "assistant_market_data" >>,
     << <<{"weather"}, {"lacking"}>>,                   "assistant_current_research" >>,
     << <<{"cautious"}>>,                               "assistant_opinion" >>,
     << <<{"opinion"}, {"persona"}>>,                   "assistant_opinion" >>,
     << <<{"work trace"}, {"style"}>>,                  "assistant_execution_summary" >>,
     << <<{"markdown"}>>,                               "assistant_markdown" >>,
     << <<{"typing"}, {"simulated"}>>,                  "assistant_typing_simulation" >>,
     << <<{"failed request"}>>,                         "assistant_request_failure" >>,
     << <<{"model"}>>,                                  "json_or_implementation_leak" >>,
     << <<{"channel", "typing"}>>,                      "communication_state" >>,
     << <<{"mode"}>>,                                   "mode_continuity" >>,
     << <<{"button"}>>,                                 "client_input_state" >>,
     << <<{"forced plot"}>>,                            "forced_plot_recap" >>,
     << <<{"stiff"}>>,                                  "relationship_warmth" >>,
     << <<{"plot", "forced plot", "broken off"}>>,      "narrative_continuity" >>,
     << <<{"costume"}>>,                                "costume_context" >> >>

CategoryFamily == [client_function |-> "client_input_state", knowledge_memory |-> "narrative_continuity",
                   conversation_experience |-> "narrative_continuity", character_portrayal |-> "costume_context"]

(* The analyst's words decide; the answer complained of only where there   *)
(* are none.                                                               *)
Judged(row) == IF row.free \cup row.message # {} THEN row.free \cup row.message ELSE row.answer

(* An unknown complaint is a family of its own, told by its words.         *)
IssueKey(row) ==
  LET i == SelectInSeq(Rules, LAMBDA r : \A k \in DOMAIN r[1] : Judged(row) \cap r[1][k] # {})
  IN IF i # 0 THEN << Rules[i][2], {} >>
     ELSE IF row.category \in DOMAIN CategoryFamily THEN << CategoryFamily[row.category], {} >>
     ELSE << "other", Judged(row) >>

Broad == {"narrative_continuity", "client_input_state", "json_or_implementation_leak", "food_current_fact",
          "shared_meal_continuity", "routine_activity_logic", "character_signature_frequency",
          "location_continuity", "client_dual_input"}

(* The families stored before these rules were too broad.                  *)
EffectiveKey(row) ==
  IF row.stored = << >> THEN IssueKey(row)
  ELSE IF row.stored[1] \in {<< b, {} >> : b \in Broad} THEN IssueKey(row) ELSE row.stored[1]

Superseded == {"assistant_execution_summary", "assistant_markdown", "assistant_request_failure",
               "assistant_typing_simulation"}
Unverified == {"client_input_state", "narrative_continuity", "costume_context", "nickname_mapping", "other"}

DefaultStatus(key) ==
  IF key[1] \in Superseded THEN "superseded_by_architecture"
  ELSE IF key[1] \in Unverified THEN "needs_verification" ELSE "fixed_verified"

Statuses == {"open", "planned", "needs_verification", "fixed_verified", "not_reproduced", "duplicate",
             "superseded_by_architecture"}

-----------------------------------------------------------------------------
(* The files.  An event is [key, status, at, source].                      *)
Latest(events, key) == SelectLastInSeq(events, LAMBDA e : e.key = key)
Decided(events)     == {e.key : e \in Range(events)}

(* Reading the inbox records a default for each family that has no event:  *)
(* what is missing is read without the lock, and appended under it.        *)
Missing(rows, events) == {EffectiveKey(r) : r \in Range(rows)} \ Decided(events)

SyncRead(rows, events, now) ==
  FoldSet(LAMBDA key, added : Append(added, [key |-> key, status |-> DefaultStatus(key), at |-> now,
                                             source |-> "build_default"]),
          << >>, Missing(rows, events))

SyncWrite(events, added) == events \o added

SetStatus(events, key, status, now) ==
  IF status \notin Statuses THEN events
  ELSE Append(events, [key |-> key, status |-> status, at |-> now, source |-> "manual"])

(* A report is stored with the family of its words; refused where its      *)
(* scope lacks what it is about or it says nothing.                        *)
Fit(row) ==
  /\ row.scope \in {"product", "conversation", "message"}
  /\ row.scope # "product" => row.session # ""
  /\ row.scope = "message" => row.ref # ""
  /\ IF row.category # "" THEN row.category \in DOMAIN CategoryFamily /\ row.free # {}
     ELSE row.options # {} \/ row.free # {}

AppendFeedback(rows, row) ==
  IF Fit(row) THEN Append(rows, [row EXCEPT !.stored = << IssueKey(row) >>]) ELSE rows

Triage(triage, rows, id, status) ==
  IF status \in {"pending_triage", "planned", "resolved", "ignored"} /\ id \in DOMAIN rows
  THEN Append(triage, [id |-> id, status |-> status]) ELSE triage

-----------------------------------------------------------------------------
(* The list.  The oldest report of a family is the first, the others are   *)
(* duplicates of it and do not reopen it.                                  *)
Family(rows, key) == {i \in DOMAIN rows : EffectiveKey(rows[i]) = key}

Before(rows, i, j) == rows[i].created < rows[j].created \/ (rows[i].created = rows[j].created /\ i < j)

FirstOf(rows, key) ==
  CHOOSE i \in Family(rows, key) : \A j \in Family(rows, key) : j = i \/ Before(rows, i, j)

Annotated(rows, events) ==
  [i \in DOMAIN rows |->
     LET key    == EffectiveKey(rows[i])
         last   == Latest(events, key)
         status == IF last = 0 THEN DefaultStatus(key) ELSE events[last].status
         at     == IF last = 0 THEN 0 ELSE events[last].at
     IN [key        |-> key,
         status     |-> IF status \in Statuses THEN status ELSE "needs_verification",
         occurrence |-> IF FirstOf(rows, key) = i THEN "first" ELSE "duplicate",
         of         |-> FirstOf(rows, key),
         recurrence |-> Cardinality({j \in Family(rows, key) : Before(rows, j, i)}),
         reports    |-> Cardinality(Family(rows, key)),
         after      |-> status = "fixed_verified" /\ at # 0 /\ rows[i].created > at]]

Feedback(rows, triage, events, wanted, limit) ==
  LET told    == Annotated(rows, events)
      triaged(i) == LET k == SelectLastInSeq(triage, LAMBDA t : t.id = i)
                    IN IF k = 0 THEN "pending_triage" ELSE triage[k].status
      fits    == {i \in DOMAIN rows : /\ wanted.session \in {"", rows[i].session}
                                      /\ wanted.status \in {"", triaged(i)}
                                      /\ wanted.resolution \in {"", told[i].status}}
      keys    == {told[i].key : i \in fits}
      shown   == {i \in fits : Cardinality({j \in fits : j > i}) < Max({1, Min({limit, 200})})}
  IN [total   |-> Cardinality(fits),
      rows    |-> [n \in 1..Cardinality(shown) |->
                     LET i == CHOOSE i \in shown : Cardinality({j \in shown : j >= i}) = n
                     IN [id |-> i, triage |-> triaged(i), issue |-> told[i]]],
      issues  |-> [k \in keys |-> Cardinality({i \in fits : told[i].key = k})]]
=============================================================================
