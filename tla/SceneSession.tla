--------------------------- MODULE SceneSession ---------------------------
(***************************************************************************)
(* The scene of a visitor: where she is, where each character is, who      *)
(* waits for her. The server keeps none of it. Every answer carries a      *)
(* signed world package, shared by all characters, and a signed context    *)
(* of one character, and the browser sends both with its next request      *)
(* (dialogue_v2_service.py, public_service.py, public_frontend/app.js).    *)
(* A request can be slow, an answer late or lost, and midnight can fall    *)
(* between any two steps. One request of the visitor is served at a time.  *)
(***************************************************************************)
EXTENDS Naturals, FiniteSets, FiniteSetsExt

CONSTANTS
  Characters,
  Places,
  Daily,         \* Daily[d][c]: where the schedule of day d puts character c
  Wishes,        \* Wishes[c]: what the visitor may answer when a new day is noticed
  Asks,          \* bound: what a chat may ask for
  Kinds,         \* bound: Kinds[c]: the requests made to character c
  MaxDay,        \* bound: days
  MaxRequests,   \* bound: requests in a behaviour
  MaxOpen        \* bound: requests and answers under way at a time

ASSUME SceneAssumption ==
  /\ MaxDay \in Nat \ {0} /\ MaxRequests \in Nat /\ MaxOpen \in Nat
  /\ \A d \in 1..MaxDay : Daily[d] \in [Characters -> Places]
  /\ \A c \in Characters : Wishes[c] \subseteq {"continue", "start"}
  /\ \A c \in Characters : Kinds[c] \subseteq
       {"chat", "resolve", "open", "join", "keep", "cancel", "transition"}

None == "none"

VARIABLES
  today,      \* the Hong Kong date
  world,      \* the browser's world package
  ctx,        \* ctx[c]: its context package for c
  segment,    \* segment[c]: its conversation segment with c
  wish,       \* wish[c]: its unanswered continuity decision
  noticed,    \* noticed[c]: the local day of its last activity with c
  sent,       \* requests on their way to the server
  job,        \* the chat being served: {} or a singleton
  answers,    \* answers on their way to the browser
  used,       \* requests made
  raced,      \* history: a request was made while another was unanswered
  ended       \* history: meetings seen to end, by a join, a cancellation or a new start

browser == <<world, ctx, segment, wish, noticed>>
history == <<raced, ended>>
vars == <<today, browser, sent, job, answers, used, history>>

----------------------------------------------------------------------------
(* World packages *)

Default(d) ==
  [rev |-> 1, day |-> d, spot |-> None, at |-> Daily[d],
   pend |-> [c \in Characters |-> {}]]

\* No package at all is read as one of no day.
Blank == [Default(1) EXCEPT !.rev = 0, !.day = 0]

\* a new day numbered from the beginning
NormalizedAnew(w, d) == IF w.day = d THEN w ELSE Default(d)

Normalized(w, d) ==
  IF w.day = d THEN w ELSE [Default(d) EXCEPT !.rev = w.rev + 1]

Together(w, c) == w.spot = w.at[c]

Joined(w, c) ==
  LET place == IF w.pend[c] = {} THEN w.at[c] ELSE (CHOOSE p \in w.pend[c] : TRUE).place
  IN [w EXCEPT !.at[c] = place, !.spot = place, !.pend[c] = {}, !.rev = @ + 1]

----------------------------------------------------------------------------
(* Contexts *)

Fresh(s) == [seg |-> s, rev |-> 0, epoch |-> 0, overlay |-> {}, inv |-> {}]

Context(r) ==
  IF r.wish = "start"
  THEN [r.ctx EXCEPT !.epoch = @ + 1, !.overlay = {}, !.inv = {}]
  ELSE r.ctx

Restores(r, d) == \E o \in Context(r).overlay : o.day # d /\ r.wish = "continue"

\* The context was signed after the world it comes with.
Stale(r, d) ==
  \E o \in Context(r).overlay :
    \/ o.epoch # Context(r).epoch
    \/ ~Restores(r, d) /\ r.world.rev < o.rev

Restored(w, c, o) ==
  [w EXCEPT !.spot = o.spot, !.at[c] = o.at,
            !.pend[c] = IF o.pend = {} THEN @ ELSE o.pend,
            !.rev = Max({@, o.rev + 1})]

\* the appointment survives the fresh start
RestartedWaiting(w, c) ==
  [w EXCEPT !.spot = None, !.at[c] = Daily[w.day][c], !.rev = @ + 1]

Restarted(w, c) ==
  [w EXCEPT !.spot = None, !.at[c] = Daily[w.day][c], !.pend[c] = {}, !.rev = @ + 1]

World(r, d) ==
  LET w == Normalized(r.world, d)
  IN CASE r.wish = "start" -> Restarted(w, r.c)
       [] Restores(r, d)   -> Restored(w, r.c, CHOOSE o \in r.ctx.overlay : TRUE)
       [] OTHER            -> w

\* An accepted invitation is forgotten once the meeting it led to took place.
Settled(x, w, c) ==
  IF \E i \in x.inv, o \in x.overlay :
       /\ i.status = "accepted" /\ ~i.later
       /\ i.id = o.id /\ i.place = o.place
       /\ w.pend[c] = {} /\ Together(w, c) /\ w.at[c] = i.place
  THEN [x EXCEPT !.inv = {}]
  ELSE x

Refreshed(o, w, c, channel) ==
  [o EXCEPT !.spot = w.spot, !.at = w.at[c], !.pend = w.pend[c],
            !.rev = w.rev, !.day = w.day, !.channel = channel]

\* only the first scene event writes the overlay
SignedOnce(r, x, w, channel, act) ==
  [x EXCEPT
    !.rev = @ + 1,
    !.overlay =
      IF act # {} /\ @ = {}
      THEN {Refreshed([epoch |-> x.epoch, id |-> r.id, place |-> p, spot |-> None,
                       at |-> None, pend |-> {}, rev |-> 0, day |-> 0,
                       channel |-> channel], w, r.c, channel) : p \in act}
      ELSE @]

\* act is {} or the place of the scene event this turn confirmed.
Signed(r, x, w, channel, act) ==
  [x EXCEPT
    !.rev = @ + 1,
    !.overlay =
      IF act # {}
      THEN {Refreshed([epoch |-> x.epoch, id |-> r.id, place |-> p, spot |-> None,
                       at |-> None, pend |-> {}, rev |-> 0, day |-> 0,
                       channel |-> channel], w, r.c, channel) : p \in act}
      ELSE {IF o.day = w.day \/ r.wish = "continue"
            THEN Refreshed(o, w, r.c, channel) ELSE o : o \in @}]

Answer(r, w, x) ==
  [c |-> r.c, world |-> w, ctx |-> x,
   ends |-> (r.kind \in {"join", "keep", "cancel", "transition"} \/ r.wish = "start")]

----------------------------------------------------------------------------
(* The browser *)

Init ==
  /\ today = 1
  /\ world = Blank
  /\ segment = [c \in Characters |-> 0]
  /\ ctx = [c \in Characters |-> Fresh(0)]
  /\ wish = [c \in Characters |-> None]
  /\ noticed = [c \in Characters |-> 1]
  /\ sent = {} /\ job = {} /\ answers = {} /\ used = 0
  /\ raced = FALSE /\ ended = {}

Midnight ==
  /\ today < MaxDay
  /\ today' = today + 1
  /\ UNCHANGED <<browser, sent, job, answers, used, history>>

\* The first activity of a day, by the clock of the browser, asks whether to go on with yesterday's scene;
\* starting anew opens a new segment, which leaves the old context behind.
NoticeDay(c) ==
  /\ noticed[c] < MaxDay
  /\ noticed' = [noticed EXCEPT ![c] = @ + 1]
  /\ \E u \in Wishes[c] :
       /\ wish' = [wish EXCEPT ![c] = u]
       /\ segment' = [segment EXCEPT ![c] = @ + (IF u = "start" THEN 1 ELSE 0)]
       /\ ctx' = [ctx EXCEPT ![c] = IF u = "start" THEN Fresh(segment[c] + 1) ELSE @]
  /\ UNCHANGED <<today, world, sent, job, answers, used, history>>

Card(c) ==
  IF world.pend[c] # {} THEN {[of |-> "pend", id |-> p.id] : p \in world.pend[c]}
  ELSE {[of |-> "inv", id |-> i.id] : i \in ctx[c].inv}

Send(c, kind, channel, ask, place, card) ==
  /\ used < MaxRequests
  /\ Cardinality(sent) + Cardinality(job) + Cardinality(answers) < MaxOpen
  /\ used' = used + 1
  /\ sent' = sent \cup {[id |-> used + 1, c |-> c, kind |-> kind, channel |-> channel,
                         ask |-> ask, place |-> place, card |-> card, wish |-> wish[c],
                         world |-> world, ctx |-> ctx[c]]}
  /\ raced' = (raced \/ sent \cup job \cup answers # {})
  /\ UNCHANGED <<today, browser, job, answers, ended>>

SendChat(c) ==
  /\ "chat" \in Kinds[c]
  /\ \E channel \in {"text", "in_person"}, ask \in Asks, place \in Places :
       /\ channel = "in_person" => Together(world, c)
       /\ (ask \in {"now", "later"}) # (place = world.at[c])   \* bound: invited elsewhere
       /\ Send(c, "chat", channel, ask, place, {})

SendAction(c) ==
  \E kind \in Kinds[c] \ {"chat"} :
    /\ kind = "keep" => world.pend[c] # {}
    /\ kind = "join" => world.pend[c] = {}
    /\ kind = "cancel" => Card(c) # {}
    /\ Send(c, kind, "text", "none", world.at[c],
            IF kind \in {"keep", "cancel"} THEN Card(c) ELSE {})

\* any world of the day replaces another
NewerDay(w) == w.day >= world.day

\* A world is replaced only by one of a later day or a later revision, and a
\* context of the segment only by a later one: both or neither.
Newer(w) == \/ w.day > world.day
            \/ w.day = world.day /\ w.rev > world.rev
            \/ w = world

Fits(x, c) == /\ x.seg = segment[c]
              /\ x.epoch >= ctx[c].epoch
              /\ x.rev > ctx[c].rev

Deliver(a) ==
  /\ a \in answers
  /\ answers' = answers \ {a}
  /\ wish' = IF \A x \in a.ctx : x.seg = segment[a.c]
             THEN [wish EXCEPT ![a.c] = None] ELSE wish
  /\ IF Newer(a.world) /\ \A x \in a.ctx : Fits(x, a.c)
     THEN /\ world' = a.world
          /\ ctx' = IF a.ctx = {} THEN ctx
                    ELSE [ctx EXCEPT ![a.c] = CHOOSE x \in a.ctx : TRUE]
          /\ ended' = ended \cup
               {p.id : p \in {p \in world.pend[a.c] \ a.world.pend[a.c] :
                           a.ends \/ a.world.day = world.day}}
     ELSE UNCHANGED <<world, ctx, ended>>
  /\ UNCHANGED <<today, segment, noticed, sent, job, used, raced>>

Lose(a) ==
  /\ a \in answers
  /\ answers' = answers \ {a}
  /\ UNCHANGED <<today, browser, sent, job, used, history>>

----------------------------------------------------------------------------
(* Scene actions: served at once *)

Active(x) == {i \in x.inv : i.status \in {"proposed", "accepted", "deferred", "clarify"}}

Current(r, w, x) ==
  \/ r.kind \notin {"keep", "cancel"}
  \/ \E p \in w.pend[r.c] : [of |-> "pend", id |-> p.id] \in r.card
  \/ /\ r.kind = "cancel" /\ w.pend[r.c] = {}
     /\ \E i \in Active(x) : [of |-> "inv", id |-> i.id] \in r.card

Channel(x) == IF \E o \in x.overlay : o.channel = "in_person" THEN "in_person" ELSE "text"

Acted(r, w, x) ==
  CASE r.kind = "resolve" -> Answer(r, w, {Signed(r, x, w, Channel(x), {})})
    [] r.kind = "open" ->
         LET v == [w EXCEPT !.rev = @ + 1]
         IN Answer(r, v, {Signed(r, x, v, "text", {})})
    [] r.kind \in {"join", "keep"} ->
         LET v == Joined(w, r.c)
         IN Answer(r, v, {Signed(r, [x EXCEPT !.inv = {}], v, "in_person",
                                 {IF w.pend[r.c] = {} THEN None ELSE v.spot})})
    [] r.kind = "cancel" ->
         LET v == [w EXCEPT !.pend[r.c] = {}, !.rev = @ + 1]
         IN Answer(r, v, {Signed(r, [x EXCEPT !.inv = {}], v, Channel(x),
                                 {p.place : p \in w.pend[r.c]})})

SceneAction(r) ==
  LET w == World(r, today)
      x == Settled(Context(r), w, r.c)
  IN /\ r \in sent /\ r.kind \notin {"chat", "transition"} /\ job = {}
     /\ sent' = sent \ {r}
     /\ answers' = IF ~Stale(r, today) /\ Current(r, w, x)
                   THEN answers \cup {Acted(r, w, x)} ELSE answers
     /\ UNCHANGED <<today, browser, job, used, history>>

\* The first protocol knows no context: going to her joins who waits.
Transition(r) ==
  /\ r \in sent /\ r.kind = "transition" /\ job = {}
  /\ sent' = sent \ {r}
  /\ answers' = answers \cup {Answer(r, Joined(Normalized(r.world, today), r.c), {})}
  /\ UNCHANGED <<today, browser, job, used, history>>

----------------------------------------------------------------------------
(* Chats: admitted, generated after a wait, finished *)

\* What the message asks for: {} or one intent, read with the invitation.
Intent(r, x) ==
  IF r.ask \in {"cancel", "defer"}
  THEN {[op |-> r.ask, place |-> i.place, later |-> r.ask = "defer"] : i \in Active(x)}
  ELSE {[op |-> "invite", place |-> r.place, later |-> r.ask = "later"] :
          u \in {r.ask} \ {None}}

Admit(r) ==
  LET w == World(r, today)
      x == Settled(Context(r), w, r.c)
  IN /\ r \in sent /\ r.kind = "chat" /\ job = {}
     /\ sent' = sent \ {r}
     /\ job' = IF Stale(r, today) \/ (r.channel = "in_person" /\ ~Together(w, r.c))
               THEN {}
               ELSE {[r |-> r, x |-> x, w |-> w, begun |-> FALSE]}
     /\ UNCHANGED <<today, browser, answers, used, history>>

\* The turn reads the package again when its generation begins.
Begin ==
  \E j \in job :
    /\ ~j.begun
    /\ job' = {[j EXCEPT !.begun = TRUE, !.w = [Normalized(j.w, today) EXCEPT !.rev = @ + 1]]}
    /\ UNCHANGED <<today, browser, sent, answers, used, history>>

Fails ==
  /\ job # {} /\ job' = {}
  /\ UNCHANGED <<today, browser, sent, answers, used, history>>

Moved(w, r, i) ==
  IF r.channel = "text"
  THEN [w EXCEPT !.at[r.c] = i.place, !.pend[r.c] = {[id |-> r.id, place |-> i.place]},
                 !.rev = @ + 1]
  ELSE [w EXCEPT !.at[r.c] = i.place, !.spot = i.place, !.pend[r.c] = {}, !.rev = @ + 1]

Status(d) == CASE d = "accept" -> "accepted" [] d = "decline" -> "declined"
               [] d = "defer" -> "deferred" [] OTHER -> "clarify"

Replied(j, i, d) ==
  LET r == j.r
      inv == [id |-> r.id, place |-> i.place, later |-> i.later, status |-> Status(d)]
      ends == i.op \in {"cancel", "defer"} \/ (d = "accept" /\ i.later)
      v == IF ends /\ j.w.pend[r.c] # {}
           THEN [j.w EXCEPT !.pend[r.c] = {}, !.rev = @ + 1] ELSE j.w
      m == Moved(j.w, r, i)
  IN IF d = "accept" /\ ~i.later
     THEN Answer(r, m, {Signed(r, [j.x EXCEPT !.inv = IF r.channel = "text" THEN {inv} ELSE {}],
                               m, r.channel, {i.place})})
     ELSE Answer(r, v, {Signed(r, [j.x EXCEPT !.inv =
                                     IF /\ d = "decline" /\ ~ends
                                        /\ j.w.pend[r.c] # {} /\ @ # {}
                                     THEN @ ELSE {inv}],
                               v, r.channel,
                               IF v # j.w /\ d # "accept" THEN {i.place} ELSE {})})

\* A reply that refuses what its decision accepts counts as unclear.
Decisions(i) ==
  CASE i.op = "cancel" -> {"decline"} [] i.op = "defer" -> {"defer"}
    [] OTHER -> {"accept", "decline", "defer", "clarify"}

Finish ==
  \E j \in job :
    /\ j.begun
    /\ job' = {}
    /\ \/ \E i \in Intent(j.r, j.x), d \in {"accept", "decline", "defer", "clarify"} :
            /\ d \in Decisions(i)
            /\ answers' = answers \cup {Replied(j, i, d)}
       \/ LET inv == {[id |-> j.r.id, place |-> i.place, later |-> i.later,
                       status |-> "proposed"] : i \in {i \in Intent(j.r, j.x) : i.op = "invite"}}
          IN /\ \A i \in Intent(j.r, j.x) : i.op = "invite"
             /\ answers' = answers \cup
                  {Answer(j.r, j.w, {Signed(j.r, [j.x EXCEPT !.inv = IF inv = {} THEN @ ELSE inv],
                                            j.w, j.r.channel, {})})}
    /\ UNCHANGED <<today, browser, sent, used, history>>

Next ==
  \/ Midnight
  \/ \E c \in Characters : NoticeDay(c) \/ SendChat(c) \/ SendAction(c)
  \/ \E a \in answers : Deliver(a) \/ Lose(a)
  \/ \E r \in sent : SceneAction(r) \/ Transition(r) \/ Admit(r)
  \/ Begin \/ Fails \/ Finish

Spec == Init /\ [][Next]_vars

----------------------------------------------------------------------------
(* Properties *)

\* Who waits for her waits where they agreed to meet.
WaitsWhereAgreed ==
  \A c \in Characters : \A p \in world.pend[c] : world.at[c] = p.place

\* Within a day a context is never newer than the world it is sent with.
PairAccepted ==
  \A c \in Characters : \A o \in ctx[c].overlay :
    o.epoch = ctx[c].epoch /\ (o.day = world.day => o.rev <= world.rev)

\* The packages the browser holds are never refused as stale.
Accepted ==
  \A c \in Characters :
    ~Stale([c |-> c, wish |-> wish[c], ctx |-> ctx[c], world |-> world], today)

\* With one request at a time, whatever the day and whatever answers are lost.
NeverWedged == raced \/ Accepted

\* With one request at a time, a meeting that was seen to end is not restored.
EndedStaysEnded ==
  raced \/ \A c \in Characters : \A p \in world.pend[c] : p.id \notin ended
=============================================================================
