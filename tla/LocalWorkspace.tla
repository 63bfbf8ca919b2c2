--------------------------- MODULE LocalWorkspace ---------------------------
(***************************************************************************)
(* The local application: one character, one session and one world of      *)
(* mvp_service.py, kept in the memory of the process and in chat_store.py. *)
(* A chat reads what was answered, moves the scene, claims its message,    *)
(* asks the model, remembers the turn and stores the exchange; arrivals,   *)
(* channel switches, agent tasks and deletions use the same state.         *)
(*                                                                         *)
(* As in AgentRun a workspace is a record and every step of a handler an   *)
(* operator from a workspace to the workspaces it can leave.               *)
(***************************************************************************)
EXTENDS Integers, Sequences, FiniteSets

TurnModes == {"immersive", "assistant"}
MaxTurns == 2                  \* _MAX_SESSION_TURNS, smaller

NoTurns == [m \in TurnModes |-> << >>]
Last(s, n) == SubSeq(s, IF Len(s) > n THEN Len(s) - n + 1 ELSE 1, Len(s))

(* owned: the stored session names its character, as a turn's does and an  *)
(* agent task's does not.  A world an agent task stored first is empty.    *)
Session(turns, channel, owned) == [turns |-> turns, channel |-> channel, owned |-> owned]
EmptyWorld == [analyst |-> "nowhere", at |-> "nowhere"]
NewWorld == [analyst |-> "nowhere", at |-> "template"]

Workspace ==
  [memory |-> [session |-> {}, world |-> {}],
   session |-> {}, world |-> {},
   answered |-> {}, claims |-> {}, stale |-> {}, messages |-> << >>, arrivals |-> {},
   jobs |-> << >>, calls |-> << >>, replies |-> {}]

Has(s) == s # {}
The(s) == CHOOSE x \in s : TRUE

(***************************************************************************)
(* The caches of the process.                                              *)
(***************************************************************************)
HydrateSession(w) ==
  IF Has(w.memory.session) \/ ~Has(w.session) \/ ~The(w.session).owned THEN w
  ELSE [w EXCEPT !.memory.session = w.session]

HydrateWorld(w) ==
  IF Has(w.memory.world) \/ ~Has(w.world) THEN w ELSE [w EXCEPT !.memory.world = w.world]

\* Reading a world nobody has seen makes it.
SeenWorld(w) ==
  LET h == HydrateWorld(w)
  IN IF Has(h.memory.world) THEN h ELSE [h EXCEPT !.memory.world = {NewWorld}]

WorldOf(w) == The(w.memory.world)
CoLocated(world) == world.analyst # "nowhere" /\ world.analyst = world.at

StoredChannel(w) == IF Has(w.memory.session) THEN The(w.memory.session).channel ELSE "in_person"

(***************************************************************************)
(* A chat.  A request is [id, channel, join, anchor, asks, mode]: the      *)
(* channel it names or "kept", whether it joins the character, the place   *)
(* the last turns confirmed or "none", and the switch its words ask for.   *)
(***************************************************************************)
Requested(w, r) == IF r.channel = "kept" THEN StoredChannel(w) ELSE r.channel

\* _dialogue_channel_transition: a declared text channel holds at once, an
\* asked-for switch after the reply, what is the channel already not at all.
Active(w, r) == IF r.asks = "is_text" THEN "text" ELSE Requested(w, r)
Next(w, r) ==
  CASE r.asks = "is_text" -> "text"
    [] r.asks = "to_text" -> "text"
    [] r.asks = "to_person" -> "in_person"
    [] OTHER -> Active(w, r)
SwitchesToPerson(w, r) == r.asks = "to_person" /\ Requested(w, r) # "in_person"

\* A confirmed place moves the character; a meeting needs both in one place.
Anchored(world, r) == IF r.anchor \in {"none", world.at} THEN world ELSE [world EXCEPT !.at = r.anchor]
Joined(world, r, channel) ==
  IF channel = "in_person" /\ world.at # "nowhere" /\ (r.join \/ world.analyst = "nowhere")
  THEN [world EXCEPT !.analyst = world.at] ELSE world

Refused(w, r, world) ==
  \/ Active(w, r) = "in_person" /\ (IF r.join THEN world.at = "nowhere" ELSE ~CoLocated(world))
  \/ SwitchesToPerson(w, r) /\ ~CoLocated(world)

Answer(w, r, kind) == [w EXCEPT !.replies = @ \cup {<< r.id, kind >>}]

Job(w, r, pc) ==
  [kind |-> "chat", req |-> r, pc |-> pc, channel |-> Active(w, r), next |-> Next(w, r),
   met |-> CoLocated(WorldOf(w)), saved |-> {}]

\* Everything before the claim: a stored answer is replayed, the scene moved
\* in memory, a meeting of two who are apart refused.
Enter(w, r) ==
  LET h == SeenWorld(HydrateSession(w))
      world == Joined(Anchored(WorldOf(h), r), r, Active(h, r))
      moved == [h EXCEPT !.memory.world = {world}]
  IN IF r.id \in w.answered THEN {Answer(w, r, "replay")}
     ELSE IF Refused(h, r, world) THEN {Answer(moved, r, "conflict")}
     ELSE {[moved EXCEPT !.jobs = Append(@, Job(moved, r, "claim"))]}

SetJob(w, k, pc) == [w EXCEPT !.jobs[k].pc = pc]

\* claim_request: the row of another handler keeps the message for five
\* minutes; after them it is taken over.
ClaimRequest(w, id) == id = "none" \/ id \notin w.claims \/ id \in w.stale

Claim(w, k) ==
  LET r == w.jobs[k].req
  IN IF ClaimRequest(w, r.id)
       THEN {[SetJob(w, k, "model") EXCEPT !.claims = @ \cup ({r.id} \ {"none"}), !.stale = @ \ {r.id}]}
     ELSE IF r.id \in w.answered THEN {Answer(SetJob(w, k, "ended"), r, "replay")}
     ELSE {Answer(SetJob(w, k, "ended"), r, "in_progress")}

Release(w, id) == [w EXCEPT !.claims = @ \ {id}, !.stale = @ \ {id}]

\* The paid call.  Its failure releases the claim, and the route tries one
\* other provider with a chat of its own; what fails later releases nothing.
Ask(w, k) ==
  LET r == w.jobs[k].req
      asked == [w EXCEPT !.calls = Append(@, r.id)]
  IN {SetJob(asked, k, "remember"), SetJob(asked, k, "ended"),
      SetJob(Release(asked, r.id), k, IF w.jobs[k].kind = "chat" THEN "fallback" ELSE "ended")}

Fallback(w, k) ==
  {SetJob(w, k, "ended")}
  \cup {[v EXCEPT !.jobs = [j \in DOMAIN v.jobs |->
           IF j > Len(w.jobs) THEN [v.jobs[j] EXCEPT !.kind = "last"] ELSE v.jobs[j]]] :
         v \in Enter(SetJob(w, k, "ended"), w.jobs[k].req)}

(* _remember_session: the turn joins those of its mode, in the memory of   *)
(* the session as it is now.                                               *)
Remember(w, turn, mode, channel) ==
  LET turns == IF Has(w.memory.session) THEN The(w.memory.session).turns ELSE NoTurns
  IN [w EXCEPT !.memory.session =
        {Session([turns EXCEPT ![mode] = Last(Append(@, turn), MaxTurns)], channel, TRUE)}]

\* The states to store are copied before the store's lock is taken.
RememberTurn(w, k) ==
  LET j == w.jobs[k]
      kept == Remember(w, j.req.id, j.req.mode, j.next)
  IN {[SetJob(kept, k, "store") EXCEPT !.jobs[k].saved = {kept.memory}]}

\* save_exchange: both messages, the answer, the end of the claim and both
\* states in one transaction.
SaveExchange(w, k) ==
  LET j == w.jobs[k]
      states == The(j.saved)
      stored == [SetJob(w, k, "ended") EXCEPT
                   !.session = states.session, !.world = states.world,
                   !.messages = Append(@, [id |-> j.req.id, mode |-> j.req.mode, channel |-> j.channel,
                                           met |-> j.met]),
                   !.answered = @ \cup ({j.req.id} \ {"none"})]
  IN {Answer(Release(stored, j.req.id), j.req, "answer")}

JobStep(w, k) ==
  CASE w.jobs[k].pc = "claim" -> Claim(w, k)
    [] w.jobs[k].pc = "model" -> Ask(w, k)
    [] w.jobs[k].pc = "fallback" -> Fallback(w, k)
    [] w.jobs[k].pc = "remember" -> RememberTurn(w, k)
    [] w.jobs[k].pc = "store" -> SaveExchange(w, k)
    [] OTHER -> {}

(***************************************************************************)
(* The channel switch, and an arrival that opens with one.                 *)
(***************************************************************************)
SavePresence(w, channel) ==
  [w EXCEPT !.world = w.memory.world,
            !.session = IF Has(w.session)
                        THEN IF Has(w.memory.session) THEN w.memory.session
                             ELSE {Session(NoTurns, channel, FALSE)}
                        ELSE @]

SwitchTo(w, channel) ==
  LET h == HydrateSession(SeenWorld(w))
      moved == IF channel = "in_person" THEN [h EXCEPT !.memory.world = {[WorldOf(h) EXCEPT !.analyst = WorldOf(h).at]}]
               ELSE h
      spoken == IF Has(moved.memory.session)
                THEN [moved EXCEPT !.memory.session = {[The(@) EXCEPT !.channel = channel]}] ELSE moved
  IN IF channel = "in_person" /\ WorldOf(h).at = "nowhere" THEN {h}
     ELSE {SavePresence(spoken, channel)}

\* begin_presence_arrival decides once; a switch that is refused leaves the
\* decision without an answer.
Arrival(id, decision, status) == [id |-> id, decision |-> decision, status |-> status]

PrepareArrival(w, id) ==
  IF \E a \in w.arrivals : a.id = id THEN {w}
  ELSE UNION {{IF WorldOf(v).at = "nowhere"
                 THEN [v EXCEPT !.arrivals = @ \cup {Arrival(id, d, "processing")}]
               ELSE IF d = "unnoticed"
                 THEN [v EXCEPT !.arrivals = @ \cup {Arrival(id, d, "completed")}]
               ELSE [v EXCEPT !.arrivals = @ \cup {Arrival(id, d, "processing")},
                              !.jobs = Append(@, [Job(v, [id |-> id, channel |-> "in_person", join |-> FALSE,
                                 anchor |-> "none", asks |-> "none", mode |-> "immersive"], "meet")
                                 EXCEPT !.kind = "arrival"])] :
               v \in SwitchTo(w, "in_person")} : d \in {"noticed", "unnoticed"}}

Complete(w, id, status) ==
  [w EXCEPT !.arrivals = {IF a.id = id THEN [a EXCEPT !.status = status] ELSE a : a \in @}]

\* finish_presence_arrival: a chat of its own that neither claims nor is
\* remembered, then the spoken lines; a provider that fails or says nothing
\* falls back to an arrival she did not notice, any other error to neither.
Meet(w, k, anchor) ==
  LET j == w.jobs[k]
      r == [j.req EXCEPT !.anchor = anchor]
      world == Joined(Anchored(WorldOf(w), r), r, "in_person")
      moved == [SetJob(w, k, "ended") EXCEPT !.memory.world = {world}]
      asked == [moved EXCEPT !.calls = Append(@, j.req.id)]
      kept == Remember(asked, j.req.id, "immersive", "in_person")
      said == [kept EXCEPT !.session = kept.memory.session, !.world = kept.memory.world,
                           !.messages = Append(@, [id |-> j.req.id, mode |-> "immersive",
                                                   channel |-> "in_person", met |-> CoLocated(world)])]
  IN IF ~CoLocated(world) THEN {moved}
     ELSE {Complete(said, j.req.id, "completed"), Complete(asked, j.req.id, "fallback_unnoticed"), asked}

(***************************************************************************)
(* An agent task, a deletion, time and a restart.                          *)
(***************************************************************************)

\* The task's message is stored under a session and a world of its own make;
\* what the process remembers is left alone.
AgentTask(w, r) ==
  {[w EXCEPT !.session = {Session(NoTurns, "text", FALSE)},
             !.world = IF Has(w.world) THEN @ ELSE {EmptyWorld},
             !.messages = IF r.id \in w.answered THEN @ ELSE Append(@, [id |-> r.id, mode |-> "assistant", channel |-> "text", met |-> FALSE]),
             !.answered = @ \cup ({r.id} \ {"none"})]}

\* clear: the messages and answers of a mode with its turns, in both places.
Clear(w, mode) ==
  LET Kept(m) == m.mode # mode
      gone == {w.messages[i].id : i \in {i \in DOMAIN w.messages : w.messages[i].mode = mode}}
      Without(s) == {[x EXCEPT !.turns[mode] = << >>] : x \in s}
  IN IF ~Has(w.session) THEN {w}
     ELSE {[w EXCEPT !.messages = SelectSeq(@, Kept), !.answered = @ \ gone,
                     !.session = Without(@), !.memory.session = Without(@)]}

Age(w) == {[w EXCEPT !.stale = w.claims]}
Restart(w) == {[w EXCEPT !.memory = [session |-> {}, world |-> {}], !.jobs = << >>]}

=============================================================================
