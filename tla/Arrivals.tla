------------------------------ MODULE Arrivals -------------------------------
(***************************************************************************)
(* Going somewhere together and arriving: the movement a conversation      *)
(* agrees on, the presence endpoints of the first protocol, and the paid   *)
(* greeting of both protocols with the summary of a conversation, which    *)
(* are answered once however often they are sent                           *)
(* (public_service.py, public_main.py, arrival_ticket.py).                 *)
(*                                                                         *)
(* A world is [at, spot, pending, events, rev]: where each character is,   *)
(* where the visitor is, the set of rendezvous, the last four events.      *)
(***************************************************************************)
EXTENDS Integers, Sequences, SequencesExt

CONSTANT Rooms                        \* the places one can be invited to

Nowhere == "nowhere"

LastFour(s) == SubSeq(s, IF Len(s) > 4 THEN Len(s) - 3 ELSE 1, Len(s))

\* _state_with_event
WithEvent(w, event, spot) == [w EXCEPT !.events = LastFour(Append(@, event)), !.spot = spot, !.rev = @ + 1]

PendingFor(w, c) == {p \in w.pending : p.who = c}
Elsewhere(w, c) == {p \in w.pending : p.who # c}

(***************************************************************************)
(* What a message asks for.  Of its words only these matter: blocked by a  *)
(* refusal, a condition or the past; whom it `seeks` (at most one);        *)
(* whether it asks to go; the room it names or that of the activity it     *)
(* names; whether it only continues ("let us go then").                    *)
(***************************************************************************)
TargetPresence(m, w, me) == {w.at[c] : c \in {c \in m.seeks : c # me /\ w.at[c] \in Rooms}}

DirectIntent(m, w, me) ==
  CASE m.blocked -> Nowhere
    [] TargetPresence(m, w, me) # {} -> CHOOSE r \in TargetPresence(m, w, me) : TRUE
    [] ~m.asks -> Nowhere
    [] m.named # Nowhere -> m.named
    [] OTHER -> m.activity

(* A continuation inherits the latest invitation of the last eight turns,   *)
(* however often it was answered or taken back since.                       *)
JointMoveIntent(m, history, w, me) ==
  LET recent == SubSeq(history, IF Len(history) > 8 THEN Len(history) - 7 ELSE 1, Len(history))
      open == {i \in DOMAIN recent : DirectIntent(recent[i], w, me) # Nowhere}
      latest == CHOOSE i \in open : \A j \in open : j <= i
  IN IF DirectIntent(m, w, me) # Nowhere THEN DirectIntent(m, w, me)
     ELSE IF ~m.continues \/ m.blocked \/ open = {} THEN Nowhere
     ELSE DirectIntent(recent[latest], w, me)

\* validate_movement_request: a chosen room is asked for in the catalogue's words.
ValidMovementRequest(req, w, me) ==
  req.chosen # Nowhere => (req.catalogue /\ DirectIntent(req.message, w, me) = req.chosen)

MovementIntent(req, w, me) ==
  LET intent == JointMoveIntent(req.message, req.history, w, me)
  IN IF req.chosen = Nowhere \/ intent = req.chosen THEN intent ELSE Nowhere

(* An answer is [blocked, asksBack, eager, yes, waits]: it `waits` "there",   *)
(* or goes "ahead" to wait, words that would refuse where both are present. *)
Accepted(answer, channel) ==
  /\ ~answer.blocked /\ (answer.waits = "ahead" => channel = "text")
  /\ answer.asksBack => answer.eager
  /\ \/ channel = "text" /\ answer.waits # "no"
     \/ answer.yes \/ answer.eager

(***************************************************************************)
(* _apply_joint_movement: the world, and whether an event was made, found  *)
(* again or refused.                                                       *)
(***************************************************************************)
EventId(req) == <<req.id, IF req.channel = "text" THEN "rendezvous_waiting" ELSE "joint_move">>

Moved(w, req, me, room) ==
  LET there == [w EXCEPT !.at[me] = room] IN
  IF req.channel = "text"
  THEN WithEvent([there EXCEPT !.pending = Elsewhere(w, me) \cup {[who |-> me, id |-> EventId(req), room |-> room]}],
                 EventId(req), w.spot)
  ELSE WithEvent([there EXCEPT !.pending = Elsewhere(w, me)], EventId(req), room)

ApplyJointMovement(w, req, me, answer) ==
  LET room == MovementIntent(req, w, me) IN
  CASE room = Nowhere -> [world |-> w, status |-> "movement_intent_unresolved"]
    [] ~Accepted(answer, req.channel) -> [world |-> w, status |-> "character_did_not_accept_now"]
    [] req.channel = "text" /\ answer.waits = "no" -> [world |-> w, status |-> "rendezvous_semantics_unresolved"]
    [] \E p \in PendingFor(w, me) : req.channel = "text" /\ p.id = EventId(req) ->
         [world |-> w, status |-> "character_waiting"]
    [] EventId(req) \in ToSet(w.events) -> [world |-> w, status |-> "already_applied"]
    [] OTHER -> [world |-> Moved(w, req, me, room),
                 status |-> IF req.channel = "text" THEN "character_waiting" ELSE "applied"]

(***************************************************************************)
(* The presence endpoints.  Joining takes the rendezvous that waits.       *)
(***************************************************************************)
JoinPending(w, c) ==
  IF PendingFor(w, c) = {} THEN w
  ELSE [w EXCEPT !.at[c] = (CHOOSE p \in PendingFor(w, c) : TRUE).room, !.pending = Elsewhere(w, c)]

TransitionPresence(w, c, id, channel) ==
  IF channel = "in_person" THEN WithEvent(JoinPending(w, c), id, w.at[c]) ELSE WithEvent(w, id, w.spot)

PreparePresenceArrival(w, c, id) == WithEvent(JoinPending(w, c), id, w.at[c])

(***************************************************************************)
(* Paid work under one id.  `s` is what the store keeps: the row, its      *)
(* result, the calls paid for; `o` is how far this attempt comes.          *)
(***************************************************************************)
Unclaimed == [row |-> "none", result |-> "none", paid |-> 0]
Complete(s, result) == [s EXCEPT !.row = "completed", !.result = result]
Claimed(s) == [s EXCEPT !.row = "processing"]
Pay(s) == [s EXCEPT !.paid = @ + 1]

(* What may go wrong once the generation started: nothing is released any   *)
(* more.  A result that cannot be stored leaves an interruption, or if that *)
(* fails too, a claim whose lease expires into one.                         *)
Generated(s, o, reply) ==
  CASE o = "ok" -> {Complete(Pay(s), reply)}
    [] o = "provider" -> {Complete(Pay(s), "provider_request_failed")}
    [] o \in {"guard", "silent"} -> {Complete(Pay(s), "role_guard_rejected")}
    [] o = "empty" -> {Complete(Pay(s), "upstream_invalid_response")}
    [] o = "stopped" -> {Complete(t, "generation_interrupted") : t \in {s, Pay(s)}}
    [] o = "unsaved" -> {Complete(Pay(s), "generation_interrupted"), Claimed(Pay(s))}
    [] o = "crash" -> {Claimed(t) : t \in {s, Pay(s)}}
    [] OTHER -> {}

BeforePaying == {"invalid", "preflight", "busy"}       \* the claim is released

\* POST /public/v1/presence/arrival; the coin is thrown in every attempt.
PresenceArrival(s, decision, o) ==
  CASE s.row # "none" -> {s}
    [] o = "invalid" -> {s}
    [] decision = "unnoticed" -> {Complete(s, "unnoticed")}
    [] o \in BeforePaying -> {s}
    [] o = "limits" -> {Complete(s, "rate_limit_exceeded")}
    [] OTHER -> Generated(s, o, "noticed")

(* POST /public/v2/presence/arrival: `e` is [replayOnly, enabled, joined,    *)
(* ticket, late]; the ticket is looked at before and, `late`, after the      *)
(* claim.                                                                   *)
PresenceArrivalV2(s, e, o) ==
  CASE s.row # "none" \/ e.replayOnly \/ ~e.enabled \/ ~e.joined \/ e.ticket # "valid" -> {s}
    [] e.late \/ o \in BeforePaying -> {s}
    [] o = "limits" -> {Complete(s, "rate_limit_exceeded")}
    [] OTHER -> Generated(s, o, "noticed")

(* POST /public/v1/chat/summarize: a foreground action, a disconnected       *)
(* browser or a minute stop it; what it has not stored it never asks again.  *)
Summarize(s, o) ==
  CASE s.row # "none" \/ o \in BeforePaying \cup {"limits"} -> {s}
    [] o \in {"guard", "silent", "empty"} -> {Complete(Pay(s), "generation_interrupted")}
    [] o = "unsaved" -> {Claimed(Pay(s))}
    [] OTHER -> Generated(s, o, "summary")

\* A lease nobody renews ends in an interruption (RequestStore).
Expire(s) == IF s.row = "processing" THEN {Complete(s, "generation_interrupted")} ELSE {s}

(***************************************************************************)
(* verify_arrival_ticket and prepare_arrival: the ticket of a completed    *)
(* join, of this browser, character, segment, world and context.           *)
(***************************************************************************)
TicketSeconds == 300

TicketStatus(ticket, request, now) ==
  CASE ~ticket.signed \/ ticket.of # request.of -> "invalid"
    [] ticket.issued > now -> "invalid"
    [] ticket.issued + TicketSeconds <= now -> "expired"
    [] OTHER -> "valid"

Meets(joined, request, w, c) ==
  /\ joined.status = "joined" /\ joined.of = request.of /\ joined.ticket = request.ticket
  /\ w.spot = w.at[c]

(***************************************************************************)
(* authority_change: what a committed answer tells the ledger of           *)
(* proactive messages about the rendezvous of its character.               *)
(***************************************************************************)
AuthorityChange(before, after, c, today, waiting) ==
  LET old == {p.id : p \in PendingFor(before, c)}
      new == {p.id : p \in PendingFor(after, c)}
  IN IF ~today THEN [created |-> {}, closed |-> {}]
     ELSE [created |-> IF waiting THEN new \ old ELSE {}, closed |-> old \ new]
=============================================================================
