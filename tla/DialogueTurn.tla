---------------------------- MODULE DialogueTurn ----------------------------
(***************************************************************************)
(* One public dialogue turn as functions of what the provider answers:     *)
(* the paid calls, the blocks shown while the answer still streams, the    *)
(* guard, its one rewrite or local replacement, the last check and the     *)
(* public boundary (mvp_service.py chat, generation_stream.py,             *)
(* dialogue_output.py, public_service.py _chat_sync).                      *)
(*                                                                         *)
(* A text is the set of marks that tell what the code would find in it: a  *)
(* guard family it breaks, a repair it calls for, "mixed" (speech that     *)
(* opens with an action), "open" (not a finished sentence), "untidy" and   *)
(* "long" (the public boundary alters it), "unsafe".  A block is           *)
(* [type, text]; an answer <<text>> or << >>; t is the turn so far.        *)
(***************************************************************************)
EXTENDS Integers, Sequences, SequencesExt, FiniteSetsExt

Repairs == {"relationship", "latest_state", "address", "alias"}

(* What to do with a family the rewrite left, in the order of the code:    *)
(* refuse the answer, put a local line in its place, edit its text, or go  *)
(* back to the answer before the rewrite.                                  *)
FirstBranches ==
  << <<"in_person", "reject">>,
     <<"text_rendezvous_semantics", "replace">>,
     <<"direct_answer_focus", "replace">>,
     <<"relationship_roster", "replace">>,
     <<"unsupported_casual_state_claim", "replace">>,
     <<"unsupported_current_food_fact", "replace">>,
     <<"shared_meal_context_lost", "replace">>,
     <<"routine_activity", "replace">>,        \* the wrong hour, or no answer
     <<"routine_contradiction", "replace">> >>

MiddleBranches ==
  << <<"open_invitation_topic_reset", "replace">>,
     <<"character_signature_overuse", "replace">>,
     <<"cross_character_fact_mismatch", "replace">>,
     <<"dual_persona_unresolved", "replace">>,
     <<"logistics_evidence_missing", "replace">>,   \* hides mechanical_dialogue
     <<"mechanical_dialogue", "replace">>,
     <<"unsupported_session_premise", "premise">>,
     <<"unprompted_scene_disclosure", "edit">> >>

LastBranches ==
  << <<"unprompted_logistics_plan", "edit">>,
     <<"unprompted_plot_recap", "replace">>,
     <<"repeated_recent_event_after_channel_switch", "edit">>,
     <<"repeated_response", "edit">>,
     <<"narrative_action_repetition", "restore">>,
     <<"interaction_opening_required", "edit">>,
     <<"communication_block_type", "replace">>,
     <<"text_channel", "replace">>,
     <<"visit_location", "replace">>,
     <<"live_scene_mismatch", "replace">>,
     <<"companion_hostility", "replace">>,
     <<"fenny_daily_harshness", "replace">>,
     <<"unsupported_analyst_premise", "edit">>,
     <<"address_alias_echo", "rename">> >>

Branches == FirstBranches \o MiddleBranches \o LastBranches

(* Families that may not be shown while unresolved. *)
Hard == {"in_person", "communication_block_type", "text_channel", "immersive_meta",
         "relationship_roster", "unsupported_analyst_premise",
         "unsupported_session_premise", "unsupported_casual_state_claim",
         "unprompted_scene_disclosure", "cross_character_fact_mismatch",
         "dual_persona_unresolved", "live_scene_mismatch", "unsupported_quote",
         "text_rendezvous_semantics", "unsupported_current_food_fact",
         "shared_meal_context_lost", "routine_contradiction"}

Families == {Branches[i][1] : i \in DOMAIN Branches} \cup Hard

-----------------------------------------------------------------------------
(* Blocks. *)
Default(ch) == IF ch = "text" THEN "message" ELSE "speech"
Allowed(ch) == IF ch = "text" THEN {"message", "sticker"} ELSE {"speech", "action"}
Verbal(bs)  == SelectSeq(bs, LAMBDA b : b.type # "sticker")
Stickers(bs) == SelectSeq(bs, LAMBDA b : b.type = "sticker")

(* An action that opens a spoken block becomes a block of its own. *)
Split(ch, b) ==
  IF ch = "in_person" /\ b.type = "speech" /\ "mixed" \in b.text
  THEN << [type |-> "action", text |-> {}], [b EXCEPT !.text = @ \ {"mixed"}] >>
  ELSE << b >>

SplitAll(ch, bs) == FlattenSeq([i \in DOMAIN bs |-> Split(ch, bs[i])])

(* The blocks of the channel's types, or the top-level answer where none   *)
(* of them speaks; the first sticker of a text turn goes last.             *)
Spoken(ch, gen, answer) ==
  LET kept == SelectSeq(Verbal(gen.blocks), LAMBDA b : b.type \in Allowed(ch))
  IN IF kept = << >> /\ answer # << >>
     THEN << [type |-> Default(ch), text |-> answer[1]] >> ELSE kept

Normalized(ch, gen, answer) ==
  LET pics == IF ch = "text" THEN Stickers(gen.blocks) ELSE << >>
  IN SplitAll(ch, Spoken(ch, gen, answer)) \o SubSeq(pics, 1, IF pics = << >> THEN 0 ELSE 1)

Reclassified(ch, gen, answer) ==
  LET spoken == Spoken(ch, gen, answer) IN SplitAll(ch, spoken) # spoken

Rendered(bs) == IF Verbal(bs) = << >> THEN << >>
                ELSE << UNION {b.text : b \in Range(Verbal(bs))} >>

GeneratedAnswer(gen) == IF gen.answer # << >> THEN gen.answer ELSE Rendered(gen.blocks)

HasSticker(gen) == \E b \in Range(gen.blocks) : b.type = "sticker" /\ "outside" \notin b.text

ChannelViolations(ch, bs) ==
  {"communication_block_type" : b \in {c \in Range(bs) : c.type \notin Allowed(ch)}}
  \cup {"in_person" : b \in {c \in Range(bs) : /\ ch = "in_person" /\ c.type = "speech"
                                                /\ "mixed" \in c.text}}

(* The guard over the whole answer. *)
Violations(ch, answer, bs) ==
  (UNION Range(answer) \cap Families) \cup ChannelViolations(ch, bs)

-----------------------------------------------------------------------------
(* Provider calls.  a.end is "whole", "cut" (no stop reason) or "error";   *)
(* a.head: the envelope opens with an empty state proposal and no staging  *)
(* and its blocks come last; a.ack[k] is what the store says of the first  *)
(* k blocks: "yes", "no" or "lost".                                        *)
Reserved(in, t) == t.calls < in.budget

Finished(bs) == \A b \in Range(bs) : b.type \in {"message", "speech"} /\ "open" \notin b.text

Clean(in, bs) ==
  LET gen == [answer |-> << >>, blocks |-> bs]
  IN /\ Normalized(in.channel, gen, Rendered(bs)) = bs
     /\ UNION Range(Rendered(bs)) \cap Repairs = {}
     /\ Violations(in.channel, Rendered(bs), bs) = {}

(* The public boundary must leave an early block as it is. *)
Publishable(in, bs) == \A b \in Range(bs) : /\ b.type = Default(in.channel)
                                            /\ b.text \cap {"untidy", "long", "unsafe"} = {}

(* What the parser publishes of an envelope, block after block.  A block   *)
(* it cannot take (a sticker, one too many) ends the early output, and the *)
(* turn if something was shown; so does a shown answer that goes bad.      *)
Feed(in, a) ==
  LET bs == a.gen.blocks
      fed[k \in 0..Len(bs)] ==
        IF k = 0 THEN [len |-> 0, fail |-> "", on |-> TRUE]
        ELSE LET s == fed[k - 1]
                 p == SubSeq(bs, 1, k)
                 odd == k > in.maxBlocks \/ bs[k].type = "sticker"
             IN IF s.fail # "" \/ ~ s.on THEN s
                ELSE IF odd \/ ~ Clean(in, p)
                     THEN IF s.len > 0 THEN [s EXCEPT !.fail = "generation_partial"]
                          ELSE [s EXCEPT !.on = ~ odd]
                ELSE IF ~ (Finished(p) /\ Publishable(in, p)) \/ a.ack[k] = "no" THEN s
                ELSE IF a.ack[k] = "lost" THEN [s EXCEPT !.fail = "public_database_unavailable"]
                ELSE [s EXCEPT !.len = k]
  IN fed[Len(bs)]

(* How a read answer fails: no stop reason, or an envelope that changed    *)
(* after blocks of it were shown.                                          *)
StreamEnd(in, a, pub) ==
  IF a.end = "error" \/ (a.end = "cut" /\ in.streaming) \/ (pub # << >> /\ a.gen.updates)
  THEN IF pub # << >> THEN "generation_partial" ELSE "provider_request_failed" ELSE ""

(* One call, never repeated: what it published, how it failed if it did.   *)
CallModel(in, t, a, validated) ==
  IF ~ Reserved(in, t) THEN [made |-> 0, pub |-> << >>, fail |-> "provider_request_failed"]
  ELSE LET s   == IF in.streaming /\ validated /\ a.head THEN Feed(in, a)
                  ELSE [len |-> 0, fail |-> "", on |-> FALSE]
           pub == SubSeq(a.gen.blocks, 1, s.len)
       IN [made |-> 1, pub |-> pub,
           fail |-> IF s.fail # "" THEN s.fail ELSE StreamEnd(in, a, pub)]

-----------------------------------------------------------------------------
(* The stages.  t.out is "running" until the turn ends with a code.        *)
Start == [out |-> "running", calls |-> 0, pub |-> << >>, viol |-> {}, adj |-> {},
          gen |-> [answer |-> << >>, blocks |-> << >>, cue |-> FALSE, updates |-> FALSE],
          text |-> << >>, local |-> FALSE, rejected |-> FALSE]

End(t, code) == [t EXCEPT !.out = code]

Made(t, c) == [t EXCEPT !.calls = @ + c.made, !.pub = @ \o c.pub]

(* The line the code writes itself; in.local are the marks it would bear.  *)
LocalLine(in) == [answer |-> << in.local >>, cue |-> FALSE, updates |-> FALSE,
                  blocks |-> << [type |-> Default(in.channel), text |-> in.local] >>]

Primary(in, t) ==
  LET a == in.answers[1]
      c == CallModel(in, t, a, TRUE)
      u == [Made(t, c) EXCEPT !.gen = a.gen, !.text = GeneratedAnswer(a.gen)]
  IN IF c.fail # "" THEN End(Made(t, c), c.fail)
     ELSE IF c.pub # << >> /\ (a.gen.updates \/ u.text = << >>) THEN End(u, "generation_partial")
     ELSE u

(* A successful answer with nothing to show is asked for once more; the    *)
(* second answer counts only if it has something.                          *)
RecoverEmpty(in, t) ==
  IF t.text # << >> \/ HasSticker(t.gen) \/ in.arrival THEN t
  ELSE LET a == in.answers[2]
           c == CallModel(in, t, a, FALSE)
       IN IF c.fail # "" \/ (GeneratedAnswer(a.gen) = << >> /\ ~ HasSticker(a.gen))
          THEN Made(t, c)
          ELSE [Made(t, c) EXCEPT !.gen = a.gen, !.text = GeneratedAnswer(a.gen),
                                  !.adj = @ \cup {"empty_output_recovery"}]

UseLocalLine(in, t) == [t EXCEPT !.gen = LocalLine(in), !.text = << in.local >>,
                                 !.adj = @ \cup {"empty_model_output_guard"}]

FillEmpty(in, t) == IF t.text = << >> /\ ~ HasSticker(t.gen) THEN UseLocalLine(in, t) ELSE t

(* Blocks and text after normalisation, and the families they break.       *)
WithBlocks(in, t) ==
  LET bs == Normalized(in.channel, t.gen, t.text)
      u  == IF bs = << >> THEN t ELSE [t EXCEPT !.gen.blocks = bs, !.text = Rendered(bs)]
  IN [u EXCEPT !.viol = Violations(in.channel, u.text, u.gen.blocks),
               !.adj = @ \cup {"in_person_blocks_reclassified" :
                                x \in {y \in {1} : Reclassified(in.channel, t.gen, t.text)}}]

Check(in, t) ==
  LET u == WithBlocks(in, t)
  IN IF t.pub # << >> /\ (~ IsPrefix(t.pub, u.gen.blocks) \/ u.viol # {})
     THEN End(u, "generation_partial") ELSE u

(* Two calls went into an empty answer: no third one for a rewrite.        *)
NoThirdCall(in, t) ==
  IF /\ t.viol # {} /\ t.calls >= 2
     /\ t.adj \cap {"empty_output_recovery", "empty_model_output_guard"} # {}
  THEN [UseLocalLine(in, t) EXCEPT !.viol = {}, !.local = TRUE] ELSE t

(* What is done with the families the rewrite left: t is the answer before *)
(* it, left the one after it (t again if the call failed).                 *)
Resolve(in, t, left) ==
  LET is    == {i \in DOMAIN Branches : Branches[i][1] \in left.viol}
      how   == IF is = {} THEN "none" ELSE Branches[Min(is)][2]
      at    == [t EXCEPT !.calls = left.calls, !.adj = left.adj]
      line  == [at EXCEPT !.gen = LocalLine(in), !.text = << in.local >>, !.local = TRUE]
      edit  == [left EXCEPT !.gen.blocks = << >>, !.text = << in.edited >>]
      named == [left EXCEPT !.text = [i \in DOMAIN @ |-> @[i] \ {"address_alias_echo"}],
                            !.adj = @ \cup {"address_alias_normalized"}]
  IN IF how = "reject" THEN [at EXCEPT !.rejected = TRUE]
     ELSE IF how = "edit" THEN [edit EXCEPT !.local = TRUE]
     ELSE IF how = "premise" THEN edit
     ELSE IF how = "restore" THEN [at EXCEPT !.local = TRUE]
     ELSE IF how = "replace" \/ in.meta THEN line
     ELSE IF how = "rename" THEN named
     ELSE [at EXCEPT !.text = [i \in DOMAIN @ |-> @[i] \ {"unsupported_quote"}],
                     !.adj = @ \cup {"unsupported_quote_sanitized" :
                                      x \in {y \in UNION Range(at.text) : y = "unsupported_quote"}}]

(* One rewrite, never for an arrival; a clean one takes the answer's place.*)
Rewrite(in, t) ==
  IF t.viol = {} THEN t
  ELSE LET a == in.answers[2]
           c == IF in.arrival THEN [made |-> 0, pub |-> << >>, fail |-> "provider_request_failed"]
                ELSE CallModel(in, t, a, FALSE)
           n == [Made(t, c) EXCEPT !.adj = @ \cup {"answer_guardrail_retry"}]
           u == WithBlocks(in, [n EXCEPT !.gen = a.gen, !.text = GeneratedAnswer(a.gen)])
       IN IF c.fail = "" /\ u.viol = {} THEN u
          ELSE Resolve(in, t, IF c.fail = "" THEN u ELSE n)

(* Deterministic repairs of the text; blocks of a text they change go.     *)
Repaired(t) ==
  LET text == [i \in DOMAIN t.text |-> t.text[i] \ (Repairs \cup {"address_alias_echo"})]
  IN IF text = t.text THEN t
     ELSE [t EXCEPT !.text = text, !.gen.blocks = << >>, !.adj = @ \cup {"repaired"}]

Superseding == {"repaired", "address_alias_normalized", "unsupported_quote_sanitized"}

(* The last blocks, the last check, and whether the staging cue survives.  *)
Final(in, t) ==
  LET loc == t.local \/ "empty_model_output_guard" \in t.adj
      u   == Repaired(t)
      bs  == Normalized(in.channel, u.gen, u.text)
      v   == IF bs = << >>
             THEN [UseLocalLine(in, u) EXCEPT !.gen.cue = u.gen.cue]
             ELSE [u EXCEPT !.gen.blocks = bs, !.text = Rendered(bs)]
      w   == [v EXCEPT !.viol = Violations(in.channel, v.text, v.gen.blocks), !.local = loc]
      rej == t.rejected \/ w.viol \cap Hard # {}
  IN IF t.pub # << >> /\ (~ IsPrefix(t.pub, w.gen.blocks) \/ w.viol # {})
     THEN End(w, "generation_partial")
     ELSE [w EXCEPT !.rejected = rej,
                    !.gen.cue = @ /\ ~ (rej \/ loc \/ w.adj \cap Superseding # {})]

Disposition(t) ==
  IF t.rejected THEN "rejected"
  ELSE IF t.local THEN "safe_fallback"
  ELSE IF t.adj \cap (Superseding \cup {"answer_guardrail_retry", "empty_output_recovery",
                                        "in_person_blocks_reclassified"}) # {}
       THEN "normalized" ELSE "accepted"

-----------------------------------------------------------------------------
(* The public boundary: the channel's blocks, one allowed sticker, a safe  *)
(* line for an unsafe answer, the length limit and tidied punctuation.     *)
Cut(bs) ==
  LET long == {i \in DOMAIN bs : "long" \in bs[i].text}
      n    == IF long = {} THEN Len(bs) ELSE Min(long)
  IN [i \in 1..n |-> [bs[i] EXCEPT !.text = @ \ {"long", "untidy"}]]

Shown(in, t) ==
  LET said == SelectSeq(Verbal(t.gen.blocks), LAMBDA b : b.type \in Allowed(in.channel))
      few  == SubSeq(said, 1, Min({Len(said), in.maxBlocks}))
      own  == IF Len(said) >= in.maxBlocks THEN << >>
              ELSE SelectSeq(Stickers(t.gen.blocks), LAMBDA b : "outside" \notin b.text)
      pics == IF in.channel # "text" THEN << >>
              ELSE IF own # << >> THEN << own[1] >>
              ELSE IF in.asked THEN << [type |-> "sticker", text |-> {}] >> ELSE << >>
  IN IF \E b \in Range(few) : "unsafe" \in b.text
     THEN << [type |-> Default(in.channel), text |-> {}] >>
     ELSE Cut(few) \o pics

Answer(in, t) ==
  LET bs == Shown(in, t)
  IN IF t.out # "running" THEN t
     ELSE IF t.rejected THEN End(t, "role_guard_rejected")
     ELSE IF t.pub # << >> /\ ~ IsPrefix(t.pub, bs) THEN End(t, "generation_partial")
     ELSE IF bs = << >> THEN End(t, "upstream_invalid_response")
     ELSE [End(t, "answer") EXCEPT !.gen.blocks = bs]

(* The whole turn. *)
Running(t, u) == IF t.out = "running" THEN u ELSE t

Turn(in) ==
  LET t1 == Primary(in, Start)
      t2 == Running(t1, FillEmpty(in, RecoverEmpty(in, t1)))
      t3 == Running(t2, Check(in, t2))
      t4 == Running(t3, Rewrite(in, NoThirdCall(in, t3)))
      t5 == Running(t4, Final(in, t4))
  IN Answer(in, t5)
=============================================================================
