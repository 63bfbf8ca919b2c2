---------------------------- MODULE BrowserProofs ----------------------------
(***************************************************************************)
(* Theorems about what a browser keeps.  SceneSession, for any characters, *)
(* places, schedules, requests and days: what the packages a browser holds *)
(* say of each other, through late and lost answers, overtaking and        *)
(* midnight.  TabWriter, for any number of tabs, with Web Locks or with    *)
(* leases renewed in time, and although acquisitions cross and loads fail: *)
(* the types, one writer, and a writer whose copy is current.              *)
(***************************************************************************)
EXTENDS SceneSession, TabWriter, TLAPS


Channels == {"text", "in_person"}
Meeting == [id : Nat, place : Places]
WorldSet ==
  [rev : Nat, day : Nat, spot : Places \cup {None}, at : [Characters -> Places],
   pend : [Characters -> SUBSET Meeting]]
Overlay ==
  [epoch : Nat, id : Nat, place : Places \cup {None}, spot : Places \cup {None}, at : Places,
   pend : SUBSET Meeting, rev : Nat, day : Nat, channel : Channels]
Invitation ==
  [id : Nat, place : Places, later : BOOLEAN,
   status : {"proposed", "accepted", "declined", "deferred", "clarify"}]
ContextSet ==
  [seg : Nat, rev : Nat, epoch : Nat, overlay : SUBSET Overlay, inv : SUBSET Invitation]
Wished == {None, "continue", "start"}
Request ==
  [id : Nat, c : Characters,
   kind : {"chat", "resolve", "open", "join", "keep", "cancel", "transition"}, channel : Channels,
   ask : Asks \cup {"none"}, place : Places, card : SUBSET [of : {"pend", "inv"}, id : Nat],
   wish : Wished, world : WorldSet, ctx : ContextSet]
Work == [r : Request, x : ContextSet, w : WorldSet, begun : BOOLEAN]
Reply == [c : Characters, world : WorldSet, ctx : SUBSET ContextSet, ends : BOOLEAN]

TypeOK ==
  /\ today \in 1..MaxDay
  /\ world \in WorldSet
  /\ ctx \in [Characters -> ContextSet]
  /\ segment \in [Characters -> Nat]
  /\ wish \in [Characters -> Wished]
  /\ noticed \in [Characters -> Nat]
  /\ sent \subseteq Request
  /\ job \subseteq Work /\ \A j, k \in job : j = k
  /\ answers \subseteq Reply
  /\ used \in Nat /\ raced \in BOOLEAN /\ ended \subseteq Nat

\* Who waits is where it was agreed.
Arranged(w) == \A c \in Characters : \A p \in w.pend[c] : w.at[c] = p.place

\* A world and a context of c that fit: at most one scene event, of the
\* context's epoch, not newer than the world and, while c waits, of its day
\* (unless the visitor goes on with an older scene, which is being read).
Pair(c, w, x, u) ==
  /\ Arranged(w)
  /\ \A o, q \in x.overlay : o = q
  /\ \A o \in x.overlay :
       /\ o.epoch = x.epoch
       /\ o.day <= w.day
       /\ o.day = w.day => o.rev <= w.rev
       /\ w.pend[c] # {} => o.day = w.day \/ u = "continue"
       /\ \A p \in o.pend : o.at = p.place

\* A request, the work on it or its answer as a flight: the character, the
\* world it carries, and the segment, revision and days of the context it
\* will bring.
FlightSet ==
  [c : Characters, w : WorldSet, seg : Nat, rev : Nat, days : SUBSET Nat, revs : SUBSET Nat]

Flight(c, w, x, rev) ==
  [c |-> c, w |-> w, seg |-> x.seg, rev |-> rev,
   days |-> {w.day} \cup {o.day : o \in x.overlay}, revs |-> {o.rev : o \in x.overlay}]
Worldly(c, w) ==
  [c |-> c, w |-> w, seg |-> 0, rev |-> 0, days |-> {w.day}, revs |-> {}]

OfRequest(r) == Flight(r.c, r.world, r.ctx, r.ctx.rev + 1)
OfWork(j) == Flight(j.r.c, j.w, j.x, j.x.rev + 1)
OfReply(a) ==
  IF a.ctx = {} THEN Worldly(a.c, a.world)
  ELSE LET x == CHOOSE x \in a.ctx : TRUE IN Flight(a.c, a.world, x, x.rev)

FlightsOf(S, J, A) ==
  {OfRequest(r) : r \in S} \cup {OfWork(j) : j \in J} \cup {OfReply(a) : a \in A}
Flights == FlightsOf(sent, job, answers)

\* The card of a request about an appointment is of that appointment.
CardFits(r) ==
  r.world.pend[r.c] # {} => \A k \in r.card : k.of = "pend"

PairsFit ==
  /\ \A c \in Characters : ctx[c].seg = segment[c] /\ Pair(c, world, ctx[c], None)
  /\ \A r \in sent : CardFits(r) /\ Pair(r.c, r.world, r.ctx, None)
  /\ \A j \in job : /\ j.r.kind = "chat" /\ (j.r.wish = "start" => j.x.overlay = {})
                    /\ Pair(j.r.c, j.w, j.x, j.r.wish)
  /\ \A a \in answers : /\ \A x \in a.ctx : Pair(a.c, a.world, x, None)
                        /\ \A x, y \in a.ctx : x = y
                        /\ Arranged(a.world)
                        /\ a.ctx = {} => a.world.pend[a.c] = {}

\* A flight whose context a browser with these segments and contexts would
\* still take.
Live(f, sg, x) == f.seg = sg[f.c] /\ f.rev > x[f.c].rev

\* No package is of a day to come; a context on its way is at most one
\* revision ahead.
Bounded(F, t, w, sg, x) ==
  /\ w.day <= t
  /\ \A f \in F :
       /\ f.w.day <= t
       /\ f.w.day \in f.days
       /\ f.seg <= sg[f.c]
       /\ f.seg = sg[f.c] => f.rev <= x[f.c].rev + 1

\* A flight to one character carries the appointment of another only from a
\* day the browser has seen, and what the browser knows or will take of that
\* other one is not older.
Apart(F, w, sg, x) ==
  /\ \A f \in F : Live(f, sg, x) /\ w.pend[f.c] # {} => \A d \in f.days : d >= w.day
  /\ \A g \in F : \A c \in Characters \ {g.c} : g.w.pend[c] # {} =>
       /\ g.w.day <= w.day
       /\ \A o \in x[c].overlay : o.day >= g.w.day
       /\ \A f \in F : f.c = c /\ Live(f, sg, x) => \A d \in f.days : d >= g.w.day

\* Revisions only grow from the browser to the server and back.
Rising(F, w, x) ==
  /\ \A c \in Characters : \A o \in x[c].overlay : o.rev <= w.rev
  /\ \A f \in F : f.w.rev >= w.rev /\ \A n \in f.revs : n <= f.w.rev

Alone ==
  /\ \A r, q \in sent : r = q
  /\ \A a, b \in answers : a = b
  /\ sent # {} => job = {} /\ answers = {}
  /\ job # {} => answers = {}

FlightsBounded == Bounded(Flights, today, world, segment, ctx)
FlightsApart == Apart(Flights, world, segment, ctx)
Ordered == Rising(Flights, world, ctx)

IInv ==
  /\ TypeOK /\ PairsFit /\ FlightsBounded /\ FlightsApart
  /\ raced \/ (Alone /\ Ordered)
-----------------------------------------------------------------------------
(* Worlds and contexts, one step at a time *)

\* Serving c takes the world w on to v: later or the same, and who waits of
\* the others waited there on the same day.
Onward(c, w, v) ==
  /\ v \in WorldSet /\ v.day >= w.day /\ v.rev >= w.rev
  /\ \A k \in Characters \ {c} : v.pend[k] = {} \/ (v.pend[k] = w.pend[k] /\ v.day = w.day)

\* The larger of two numbers is one of them, and neither is above it.
LEMMA MaxOfTwo ==
  ASSUME NEW m \in Nat, NEW n \in Nat
  PROVE  Max({m, n}) \in Nat /\ Max({m, n}) >= m /\ Max({m, n}) >= n
<1>1. PICK k \in {m, n} : \A y \in {m, n} : k >= y
  <2>1. CASE m >= n
    BY <2>1
  <2>2. CASE ~(m >= n)
    BY <2>2
  <2> QED BY <2>1, <2>2
<1>2. Max({m, n}) \in {m, n} /\ \A y \in {m, n} : Max({m, n}) >= y
  BY <1>1 DEF Max
<1> QED BY <1>2

\* The world a day begins with.
LEMMA DefaultFacts ==
  ASSUME NEW d \in 1..MaxDay
  PROVE  Default(d) \in WorldSet /\ Arranged(Default(d)) /\ Default(d).day = d
         /\ Default(d).pend = [c \in Characters |-> {}] /\ Default(d).at = Daily[d]
<1>1. Daily[d] \in [Characters -> Places] /\ d \in Nat
  BY SceneAssumption
<1> QED BY <1>1 DEF Default, WorldSet, Arranged

\* A world read on day d is of that day; nobody waits from an earlier one.
LEMMA NormalizedFacts ==
  ASSUME NEW w \in WorldSet, NEW d \in 1..MaxDay, Arranged(w), w.day <= d
  PROVE  LET v == Normalized(w, d)
         IN /\ v \in WorldSet /\ Arranged(v) /\ v.day = d /\ v.rev >= w.rev
            /\ v = w \/ (w.day # d /\ \A k \in Characters : v.pend[k] = {})
<1>1. CASE w.day = d
  BY <1>1 DEF Normalized, WorldSet
<1>2. CASE w.day # d
  <2>1. Normalized(w, d) = [Default(d) EXCEPT !.rev = w.rev + 1]
    BY <1>2 DEF Normalized
  <2>2. w.rev \in Nat
    BY DEF WorldSet
  <2>3. /\ Normalized(w, d) \in WorldSet /\ Normalized(w, d).day = d
        /\ Normalized(w, d).rev = w.rev + 1
        /\ Normalized(w, d).pend = [c \in Characters |-> {}]
    <3> DEFINE D == Default(d)
    <3>1. D \in WorldSet /\ D.day = d /\ D.pend = [c \in Characters |-> {}]
      BY DefaultFacts
    <3>2. Normalized(w, d) = [D EXCEPT !.rev = w.rev + 1]
      BY <2>1
    <3> HIDE DEF D
    <3> QED BY <2>2, <3>1, <3>2 DEF WorldSet
  <2> QED BY <1>2, <2>2, <2>3 DEF Arranged
<1> QED BY <1>1, <1>2

\* A step of a world on its day keeps a pair that fits.
LEMMA PairOnward ==
  ASSUME NEW c \in Characters, NEW w \in WorldSet, NEW v \in WorldSet, NEW x \in ContextSet,
         NEW u, Pair(c, w, x, u), Arranged(v),
         v.day = w.day, v.rev >= w.rev, v.pend[c] # {} => w.pend[c] # {}
  PROVE  Pair(c, v, x, u)
<1>1. w.rev \in Nat /\ v.rev \in Nat /\ \A o \in x.overlay : o.rev \in Nat /\ o.day \in Nat
  BY DEF WorldSet, ContextSet, Overlay
<1> QED BY <1>1 DEF Pair
IsWorld(v) ==
  v = [k \in DOMAIN v |-> v[k]] /\ DOMAIN v = {"rev", "day", "spot", "at", "pend"}

\* A world is what its parts are.
LEMMA WorldParts ==
  ASSUME NEW w \in WorldSet
  PROVE  /\ IsWorld(w)
         /\ w.rev \in Nat /\ w.day \in Nat /\ w.spot \in Places \cup {None}
         /\ w.at \in [Characters -> Places] /\ w.pend \in [Characters -> SUBSET Meeting]
BY DEF WorldSet, IsWorld

\* A step that leaves the others where they are and puts c where it waits.
LEMMA StepFacts ==
  ASSUME NEW c \in Characters, NEW w \in WorldSet, Arranged(w), NEW v, IsWorld(v),
         v.rev \in Nat, v.rev >= w.rev, v.day = w.day, v.spot \in Places \cup {None},
         v.at \in [Characters -> Places], v.pend \in [Characters -> SUBSET Meeting],
         \A k \in Characters \ {c} : v.at[k] = w.at[k] /\ v.pend[k] = w.pend[k],
         \A p \in v.pend[c] : v.at[c] = p.place
  PROVE  Onward(c, w, v) /\ Arranged(v)
<1>1. w.rev \in Nat /\ w.day \in Nat
  BY WorldParts
<1>2. v = [rev |-> v.rev, day |-> v.day, spot |-> v.spot, at |-> v.at, pend |-> v.pend]
  BY DEF IsWorld
<1>3. v \in WorldSet
  BY <1>1, <1>2 DEF WorldSet
<1>4. Onward(c, w, v)
  BY <1>1, <1>3 DEF Onward
<1>5. Arranged(v)
  BY DEF Arranged
<1> QED BY <1>4, <1>5

LEMMA RaisedFacts ==
  ASSUME NEW c \in Characters, NEW w \in WorldSet, Arranged(w)
  PROVE  LET v == [w EXCEPT !.rev = @ + 1]
         IN Onward(c, w, v) /\ Arranged(v) /\ v.day = w.day /\ v.pend = w.pend
<1> DEFINE v == [w EXCEPT !.rev = @ + 1]
<1>1. /\ w.rev \in Nat /\ w.day \in Nat
  BY WorldParts
<1>2. v \in WorldSet /\ v.rev = w.rev + 1 /\ v.day = w.day /\ v.pend = w.pend /\ v.at = w.at
  BY DEF WorldSet
<1> HIDE DEF v
<1>3. Onward(c, w, v) /\ Arranged(v)
  BY <1>1, <1>2 DEF Arranged, Onward
<1> QED BY <1>2, <1>3 DEF v

LEMMA ClearedFacts ==
  ASSUME NEW c \in Characters, NEW w \in WorldSet, Arranged(w)
  PROVE  LET v == [w EXCEPT !.pend[c] = {}, !.rev = @ + 1]
         IN Onward(c, w, v) /\ Arranged(v) /\ v.day = w.day /\ v.pend[c] = {}
<1> DEFINE v == [w EXCEPT !.pend[c] = {}, !.rev = @ + 1]
<1>1. /\ IsWorld(v) /\ v.rev = w.rev + 1 /\ v.day = w.day /\ v.spot = w.spot /\ v.at = w.at
      /\ v.pend = [w.pend EXCEPT ![c] = {}]
  BY WorldParts DEF IsWorld
<1>2. w.at = [w.at EXCEPT ![c] = w.at[c]] /\ w.at[c] \in Places
      /\ w.rev + 1 \in Nat /\ w.rev + 1 >= w.rev /\ w.spot \in Places \cup {None}
  BY WorldParts
<1> HIDE DEF v
<1>3. /\ v.at \in [Characters -> Places] /\ v.pend \in [Characters -> SUBSET Meeting]
      /\ v.pend[c] = {}
      /\ \A k \in Characters \ {c} : v.at[k] = w.at[k] /\ v.pend[k] = w.pend[k]
  BY <1>1, WorldParts
<1>4. Onward(c, w, v) /\ Arranged(v)
  BY <1>1, <1>2, <1>3, StepFacts
<1> QED BY <1>1, <1>3, <1>4 DEF v

LEMMA RestartedFacts ==
  ASSUME NEW c \in Characters, NEW w \in WorldSet, Arranged(w), w.day \in 1..MaxDay
  PROVE  LET v == Restarted(w, c)
         IN Onward(c, w, v) /\ Arranged(v) /\ v.day = w.day /\ v.pend[c] = {}
<1> DEFINE v == Restarted(w, c)
           at == Daily[w.day][c]
<1>1. at \in Places /\ w.rev + 1 \in Nat /\ w.rev + 1 >= w.rev
  BY WorldParts, SceneAssumption
<1>2. v = [w EXCEPT !.spot = None, !.at[c] = at, !.pend[c] = {}, !.rev = @ + 1]
  BY DEF Restarted
<1> HIDE DEF v, at
<1>3. /\ IsWorld(v) /\ v.rev = w.rev + 1 /\ v.day = w.day /\ v.spot = None
      /\ v.at = [w.at EXCEPT ![c] = at] /\ v.pend = [w.pend EXCEPT ![c] = {}]
  BY <1>2, WorldParts DEF IsWorld
<1>6. /\ v.at \in [Characters -> Places] /\ v.pend \in [Characters -> SUBSET Meeting]
      /\ v.at[c] = at /\ v.pend[c] = {}
      /\ \A k \in Characters \ {c} : v.at[k] = w.at[k] /\ v.pend[k] = w.pend[k]
  BY <1>1, <1>3, WorldParts
<1>7. Onward(c, w, v) /\ Arranged(v)
  BY <1>1, <1>3, <1>6, StepFacts
<1> QED BY <1>1, <1>3, <1>6, <1>7 DEF v

LEMMA RestoredFacts ==
  ASSUME NEW c \in Characters, NEW w \in WorldSet, NEW o \in Overlay, Arranged(w),
         w.pend[c] = {}, \A p \in o.pend : o.at = p.place
  PROVE  LET v == Restored(w, c, o)
         IN Onward(c, w, v) /\ Arranged(v) /\ v.day = w.day /\ v.pend[c] = o.pend
<1>1. w.rev \in Nat /\ o.rev + 1 \in Nat /\ o.spot \in Places \cup {None} /\ o.at \in Places
      /\ o.pend \in SUBSET Meeting
  BY WorldParts DEF Overlay
<1> DEFINE v == Restored(w, c, o)
           n == Max({w.rev, o.rev + 1})
           q == IF o.pend = {} THEN w.pend[c] ELSE o.pend
<1>2. n \in Nat /\ n >= w.rev
  BY <1>1, MaxOfTwo
<1>3. q = o.pend
  OBVIOUS
<1>4. v = [w EXCEPT !.spot = o.spot, !.at[c] = o.at, !.pend[c] = q, !.rev = n]
  BY DEF Restored
<1> HIDE DEF v, n, q
<1>5. /\ IsWorld(v) /\ v.rev = n /\ v.day = w.day /\ v.spot = o.spot
      /\ v.at = [w.at EXCEPT ![c] = o.at] /\ v.pend = [w.pend EXCEPT ![c] = o.pend]
  BY <1>3, <1>4, WorldParts DEF IsWorld
<1>6. /\ v.at \in [Characters -> Places] /\ v.pend \in [Characters -> SUBSET Meeting]
      /\ v.at[c] = o.at /\ v.pend[c] = o.pend
      /\ \A k \in Characters \ {c} : v.at[k] = w.at[k] /\ v.pend[k] = w.pend[k]
  BY <1>1, <1>5, WorldParts
<1>7. Onward(c, w, v) /\ Arranged(v)
  BY <1>1, <1>5, <1>2, <1>6, StepFacts
<1> QED BY <1>1, <1>5, <1>2, <1>6, <1>7 DEF v

LEMMA JoinedFacts ==
  ASSUME NEW c \in Characters, NEW w \in WorldSet, Arranged(w)
  PROVE  LET v == Joined(w, c)
         IN /\ Onward(c, w, v) /\ Arranged(v) /\ v.day = w.day /\ v.pend[c] = {}
            /\ v.spot \in Places
<1> DEFINE v == Joined(w, c)
           place == IF w.pend[c] = {} THEN w.at[c] ELSE (CHOOSE p \in w.pend[c] : TRUE).place
<1>1. w.at[c] \in Places /\ \A p \in w.pend[c] : p.place \in Places
  BY WorldParts DEF Meeting
<1>2. place \in Places /\ w.rev + 1 \in Nat /\ w.rev + 1 >= w.rev
  BY <1>1, WorldParts
<1>3. v = [w EXCEPT !.at[c] = place, !.spot = place, !.pend[c] = {}, !.rev = @ + 1]
  BY DEF Joined
<1> HIDE DEF v, place
<1>4. /\ IsWorld(v) /\ v.rev = w.rev + 1 /\ v.day = w.day /\ v.spot = place
      /\ v.at = [w.at EXCEPT ![c] = place] /\ v.pend = [w.pend EXCEPT ![c] = {}]
  BY <1>3, WorldParts DEF IsWorld
<1>6. /\ v.at \in [Characters -> Places] /\ v.pend \in [Characters -> SUBSET Meeting]
      /\ v.at[c] = place /\ v.pend[c] = {}
      /\ \A k \in Characters \ {c} : v.at[k] = w.at[k] /\ v.pend[k] = w.pend[k]
  BY <1>2, <1>4, WorldParts
<1>7. Onward(c, w, v) /\ Arranged(v)
  BY <1>2, <1>4, <1>6, StepFacts
<1> QED BY <1>2, <1>4, <1>6, <1>7 DEF v

LEMMA MovedFacts ==
  ASSUME NEW r, NEW i, NEW w \in WorldSet, Arranged(w),
         r.c \in Characters, r.id \in Nat, r.channel \in Channels, i.place \in Places
  PROVE  LET v == Moved(w, r, i)
         IN /\ Onward(r.c, w, v) /\ Arranged(v) /\ v.day = w.day
            /\ \A p \in v.pend[r.c] : p.id = r.id
<1> DEFINE v == Moved(w, r, i)
           c == r.c
           met == [id |-> r.id, place |-> i.place]
<1>1. met \in Meeting /\ met.place = i.place /\ met.id = r.id /\ c \in Characters
      /\ {met} \in SUBSET Meeting /\ w.rev + 1 \in Nat /\ w.rev + 1 >= w.rev
      /\ w.spot \in Places \cup {None}
  BY WorldParts DEF Meeting
<1>2. CASE r.channel = "text"
  <2>1. v = [w EXCEPT !.at[c] = i.place, !.pend[c] = {met}, !.rev = @ + 1]
    BY <1>2 DEF Moved
  <2> HIDE DEF v, met, c
  <2>2. /\ IsWorld(v) /\ v.rev = w.rev + 1 /\ v.day = w.day /\ v.spot = w.spot
        /\ v.at = [w.at EXCEPT ![c] = i.place] /\ v.pend = [w.pend EXCEPT ![c] = {met}]
    BY <2>1, WorldParts DEF IsWorld
  <2>3. /\ v.at \in [Characters -> Places] /\ v.pend \in [Characters -> SUBSET Meeting]
        /\ v.at[c] = i.place /\ v.pend[c] = {met}
        /\ \A k \in Characters \ {c} : v.at[k] = w.at[k] /\ v.pend[k] = w.pend[k]
    BY <1>1, <2>2, WorldParts
  <2>4. Onward(c, w, v) /\ Arranged(v)
    BY <1>1, <2>2, <2>3, StepFacts
  <2> QED BY <1>1, <2>2, <2>3, <2>4 DEF v, c
<1>3. CASE r.channel # "text"
  <2>1. v = [w EXCEPT !.at[c] = i.place, !.spot = i.place, !.pend[c] = {}, !.rev = @ + 1]
    BY <1>3 DEF Moved
  <2> HIDE DEF v, met, c
  <2>2. /\ IsWorld(v) /\ v.rev = w.rev + 1 /\ v.day = w.day /\ v.spot = i.place
        /\ v.at = [w.at EXCEPT ![c] = i.place] /\ v.pend = [w.pend EXCEPT ![c] = {}]
    BY <2>1, WorldParts DEF IsWorld
  <2>3. /\ v.at \in [Characters -> Places] /\ v.pend \in [Characters -> SUBSET Meeting]
        /\ v.at[c] = i.place /\ v.pend[c] = {}
        /\ \A k \in Characters \ {c} : v.at[k] = w.at[k] /\ v.pend[k] = w.pend[k]
    BY <1>1, <2>2, WorldParts
  <2>4. Onward(c, w, v) /\ Arranged(v)
    <3>1. v.spot \in Places \cup {None} /\ v.rev \in Nat /\ v.rev >= w.rev
      BY <1>1, <2>2
    <3>2. \A p \in v.pend[c] : v.at[c] = p.place
      BY <2>3
    <3> QED BY <1>1, <2>2, <2>3, <3>1, <3>2, StepFacts
  <2> QED BY <1>1, <2>2, <2>3, <2>4 DEF v, c
<1> QED BY <1>2, <1>3
LEMMA OnwardOnward ==
  ASSUME NEW c \in Characters, NEW u \in WorldSet, NEW w, NEW v, Onward(c, u, w), Onward(c, w, v)
  PROVE  Onward(c, u, v)
<1>1. /\ u.rev \in Nat /\ w.rev \in Nat /\ v.rev \in Nat
      /\ u.day \in Nat /\ w.day \in Nat /\ v.day \in Nat
  BY WorldParts DEF Onward
<1>2. v.rev >= u.rev /\ v.day >= u.day
  BY <1>1 DEF Onward
<1> QED BY <1>1, <1>2 DEF Onward

\* A world read on its day: NormalizedFacts in terms of Onward.
LEMMA ReadFacts ==
  ASSUME NEW c \in Characters, NEW w \in WorldSet, NEW d \in 1..MaxDay, Arranged(w), w.day <= d
  PROVE  LET v == Normalized(w, d)
         IN Onward(c, w, v) /\ Arranged(v) /\ v.day = d /\ (v.pend[c] = {} \/ v = w)
<1>1. w.day \in Nat
  BY WorldParts
<1> QED BY <1>1, NormalizedFacts DEF Onward

\* The context a request is answered with.
LEMMA ContextFacts ==
  ASSUME NEW r \in Request
  PROVE  LET x == Context(r)
         IN /\ x \in ContextSet /\ x.seg = r.ctx.seg /\ x.rev = r.ctx.rev
            /\ r.wish # "start" => x = r.ctx
            /\ r.wish = "start" => x.overlay = {}
<1>1. r.ctx \in ContextSet
  BY DEF Request
<1>2. CASE r.wish = "start"
  <2> DEFINE x == [r.ctx EXCEPT !.epoch = @ + 1, !.overlay = {}, !.inv = {}]
  <2>1. /\ x = [k \in DOMAIN x |-> x[k]] /\ DOMAIN x = {"seg", "rev", "epoch", "overlay", "inv"}
        /\ x.seg = r.ctx.seg /\ x.rev = r.ctx.rev /\ x.epoch = r.ctx.epoch + 1
        /\ x.overlay = {} /\ x.inv = {}
    BY <1>1 DEF ContextSet
  <2>2. Context(r) = x
    BY <1>2 DEF Context
  <2> HIDE DEF x
  <2>3. x = [seg |-> x.seg, rev |-> x.rev, epoch |-> x.epoch, overlay |-> x.overlay, inv |-> x.inv]
    BY <2>1
  <2>4. r.ctx.seg \in Nat /\ r.ctx.rev \in Nat /\ r.ctx.epoch + 1 \in Nat
    BY <1>1 DEF ContextSet
  <2>5. x \in ContextSet
    BY <2>1, <2>3, <2>4 DEF ContextSet
  <2> QED BY <1>2, <2>1, <2>2, <2>5
<1>3. CASE r.wish # "start"
  BY <1>1, <1>3 DEF Context
<1> QED BY <1>2, <1>3

\* The world a request is answered in: of the day it is served on, with the
\* appointment of c it knows of, or the one of the older scene gone on with.
LEMMA WorldFacts ==
  ASSUME NEW r \in Request, NEW d \in 1..MaxDay,
         Pair(r.c, r.world, r.ctx, None), r.world.day <= d
  PROVE  LET w == World(r, d)
         IN /\ Onward(r.c, r.world, w) /\ Arranged(w) /\ w.day = d
            /\ Pair(r.c, w, Context(r), r.wish)
            /\ r.wish = "start" => w.pend[r.c] = {}
            /\ \/ w.pend[r.c] \subseteq r.world.pend[r.c]
               \/ \E o \in Context(r).overlay : w.pend[r.c] = o.pend
<1> DEFINE c == r.c
           n == Normalized(r.world, d)
           x == Context(r)
<1>1. c \in Characters /\ r.world \in WorldSet /\ r.ctx \in ContextSet
      /\ r.world.day \in Nat /\ r.world.rev \in Nat
  BY WorldParts DEF Request
<1>2. Arranged(r.world)
  BY DEF Pair
<1>3. Onward(c, r.world, n) /\ Arranged(n) /\ n.day = d /\ (n.pend[c] = {} \/ n = r.world)
  BY <1>1, <1>2, ReadFacts
<1>4. n \in WorldSet
  BY <1>3 DEF Onward
<1>5. CASE r.wish = "start"
  <2>1. World(r, d) = Restarted(n, c) /\ x.overlay = {}
    <3>1. World(r, d) = Restarted(n, c)
      BY <1>5 DEF World, Restores
    <3>2. x.overlay = {}
      BY <1>5, ContextFacts
    <3> QED BY <3>1, <3>2
  <2>2. Onward(c, n, Restarted(n, c)) /\ Arranged(Restarted(n, c)) /\ Restarted(n, c).day = d
        /\ Restarted(n, c).pend[c] = {}
    BY <1>1, <1>3, <1>4, RestartedFacts
  <2>3. Onward(c, r.world, Restarted(n, c))
    BY <1>1, <1>3, <2>2, OnwardOnward
  <2>4. Pair(c, Restarted(n, c), x, r.wish)
    BY <2>1, <2>2 DEF Pair
  <2> QED BY <2>1, <2>2, <2>3, <2>4
<1>6. CASE r.wish # "start" /\ Restores(r, d)
  <2>1. x = r.ctx /\ r.wish = "continue"
    BY <1>6, ContextFacts DEF Restores
  <2>2. PICK o \in r.ctx.overlay : o.day # d /\ o = CHOOSE u \in r.ctx.overlay : TRUE
    BY <1>6, <2>1 DEF Restores, Pair
  <2>3. World(r, d) = Restored(n, c, o)
    BY <1>6, <2>2 DEF World
  <2>4. o \in Overlay /\ o.day \in Nat /\ o.rev \in Nat
    BY <1>1, <2>2 DEF ContextSet, Overlay
  <2>5. n.pend[c] = {}
    BY <1>1, <1>3, <2>2 DEF Pair, None
  <2>6. \A p \in o.pend : o.at = p.place
    BY <2>2 DEF Pair
  <2>7. Onward(c, n, Restored(n, c, o)) /\ Arranged(Restored(n, c, o))
        /\ Restored(n, c, o).day = d /\ Restored(n, c, o).pend[c] = o.pend
    BY <1>1, <1>3, <1>4, <2>4, <2>5, <2>6, RestoredFacts
  <2>8. Onward(c, r.world, Restored(n, c, o))
    BY <1>1, <1>3, <2>7, OnwardOnward
  <2>9. o.epoch = x.epoch /\ o.day <= d /\ o.day # d /\ \A u \in x.overlay : u = o
    BY <1>1, <2>1, <2>2, <2>4 DEF Pair
  <2>10. Pair(c, Restored(n, c, o), x, r.wish)
    BY <2>1, <2>6, <2>7, <2>9 DEF Pair
  <2> QED BY <1>6, <2>1, <2>2, <2>3, <2>7, <2>8, <2>10
<1>7. CASE r.wish # "start" /\ ~Restores(r, d)
  <2>1. World(r, d) = n /\ x = r.ctx
    BY <1>7, ContextFacts DEF World
  <2>2. \A o \in x.overlay : o.day \in Nat /\ o.rev \in Nat
    BY <1>1, <2>1 DEF ContextSet, Overlay
  <2>3. \A o \in x.overlay : o.day <= d /\ (o.day = d => o.rev <= n.rev)
    BY <1>1, <1>3, <1>4, <2>1, <2>2, WorldParts DEF Pair, Onward, Normalized
  <2>4. \A o \in x.overlay : n.pend[c] # {} => o.day = d
    BY <1>3, <2>1 DEF Pair, None
  <2>5. Pair(c, n, x, r.wish)
    BY <1>3, <2>1, <2>3, <2>4 DEF Pair
  <2> QED BY <1>3, <1>7, <2>1, <2>5
<1> QED BY <1>5, <1>6, <1>7
\* A context whose invitation is replaced.
LEMMA InvitedFacts ==
  ASSUME NEW x \in ContextSet, NEW q \in SUBSET Invitation
  PROVE  LET y == [x EXCEPT !.inv = q]
         IN /\ y \in ContextSet /\ y.seg = x.seg /\ y.rev = x.rev /\ y.epoch = x.epoch
            /\ y.overlay = x.overlay /\ y.inv = q
BY DEF ContextSet

LEMMA SettledFacts ==
  ASSUME NEW x \in ContextSet, NEW w, NEW c
  PROVE  LET y == Settled(x, w, c)
         IN /\ y \in ContextSet /\ y.seg = x.seg /\ y.rev = x.rev /\ y.epoch = x.epoch
            /\ y.overlay = x.overlay /\ y.inv \subseteq x.inv
<1>1. Settled(x, w, c) \in {x, [x EXCEPT !.inv = {}]}
  BY DEF Settled
<1>2. {} \in SUBSET Invitation
  OBVIOUS
<1>3. LET y == [x EXCEPT !.inv = {}]
      IN /\ y \in ContextSet /\ y.seg = x.seg /\ y.rev = x.rev /\ y.epoch = x.epoch
         /\ y.overlay = x.overlay /\ y.inv = {}
  BY <1>2, InvitedFacts
<1> QED BY <1>1, <1>3

\* The overlay written or refreshed in a world.
LEMMA RefreshedFacts ==
  ASSUME NEW o, NEW w \in WorldSet, NEW c \in Characters, NEW channel \in Channels,
         o = [k \in DOMAIN o |-> o[k]],
         DOMAIN o = {"epoch", "id", "place", "spot", "at", "pend", "rev", "day", "channel"},
         o.epoch \in Nat, o.id \in Nat, o.place \in Places \cup {None}
  PROVE  LET u == Refreshed(o, w, c, channel)
         IN /\ u \in Overlay /\ u.epoch = o.epoch /\ u.day = w.day /\ u.rev = w.rev
            /\ u.at = w.at[c] /\ u.pend = w.pend[c]
<1> DEFINE u == Refreshed(o, w, c, channel)
<1>1. /\ u = [k \in DOMAIN u |-> u[k]] /\ DOMAIN u = DOMAIN o
      /\ u.epoch = o.epoch /\ u.id = o.id /\ u.place = o.place /\ u.spot = w.spot
      /\ u.at = w.at[c] /\ u.pend = w.pend[c] /\ u.rev = w.rev /\ u.day = w.day
      /\ u.channel = channel
  BY DEF Refreshed
<1> HIDE DEF u
<1>2. u = [epoch |-> u.epoch, id |-> u.id, place |-> u.place, spot |-> u.spot, at |-> u.at,
           pend |-> u.pend, rev |-> u.rev, day |-> u.day, channel |-> u.channel]
  BY <1>1
<1>3. w.at[c] \in Places /\ w.pend[c] \in SUBSET Meeting /\ w.rev \in Nat /\ w.day \in Nat
      /\ w.spot \in Places \cup {None}
  BY WorldParts
<1>4. u \in Overlay
  BY <1>1, <1>2, <1>3 DEF Overlay
<1> QED BY <1>1, <1>4 DEF u

\* A signed context fits the world it is signed with, and keeps an older
\* scene only when nobody waits.
LEMMA SignedFacts ==
  ASSUME NEW r, r.c \in Characters, r.id \in Nat, NEW x \in ContextSet, NEW w \in WorldSet,
         NEW channel \in Channels, NEW act \in SUBSET (Places \cup {None}),
         \A p, q \in act : p = q, Arranged(w),
         act = {} => Pair(r.c, w, x, r.wish)
  PROVE  LET y == Signed(r, x, w, channel, act)
         IN /\ y \in ContextSet /\ y.seg = x.seg /\ y.rev = x.rev + 1 /\ y.inv = x.inv
            /\ Pair(r.c, w, y, None)
            /\ \A o \in y.overlay :
                 \/ o.day = w.day /\ o.rev = w.rev /\ o.pend = w.pend[r.c]
                 \/ o \in x.overlay /\ o.day # w.day /\ w.pend[r.c] = {} /\ act = {}
<1> DEFINE c == r.c
           y == Signed(r, x, w, channel, act)
           new(p) == [epoch |-> x.epoch, id |-> r.id, place |-> p, spot |-> None,
                      at |-> None, pend |-> {}, rev |-> 0, day |-> 0, channel |-> channel]
           kept(o) == IF o.day = w.day \/ r.wish = "continue"
                      THEN Refreshed(o, w, c, channel) ELSE o
           L == IF act # {} THEN {Refreshed(new(p), w, c, channel) : p \in act}
                ELSE {kept(o) : o \in x.overlay}
<1>1. y = [x EXCEPT !.rev = @ + 1, !.overlay = L]
  BY DEF Signed
<1>2. /\ x.epoch \in Nat /\ x.seg \in Nat /\ x.rev + 1 \in Nat /\ x.inv \in SUBSET Invitation
      /\ x.overlay \in SUBSET Overlay
      /\ \A o \in x.overlay : o.day \in Nat /\ o.rev \in Nat
      /\ w.day \in Nat /\ w.rev \in Nat
  BY WorldParts DEF ContextSet, Overlay
<1>3. \A u \in L :
        /\ u \in Overlay /\ u.epoch = x.epoch
        /\ \/ u.day = w.day /\ u.rev = w.rev /\ u.at = w.at[c] /\ u.pend = w.pend[c]
           \/ /\ u \in x.overlay /\ u.day # w.day /\ act = {} /\ r.wish # "continue"
  <2>1. CASE act # {}
    <3> SUFFICES ASSUME NEW p \in act
                 PROVE  LET u == Refreshed(new(p), w, c, channel)
                        IN /\ u \in Overlay /\ u.epoch = x.epoch /\ u.day = w.day
                           /\ u.rev = w.rev /\ u.at = w.at[c] /\ u.pend = w.pend[c]
      BY <2>1
    <3>1. /\ new(p) = [k \in DOMAIN new(p) |-> new(p)[k]]
          /\ DOMAIN new(p) =
               {"epoch", "id", "place", "spot", "at", "pend", "rev", "day", "channel"}
          /\ new(p).epoch = x.epoch /\ new(p).id = r.id /\ new(p).place = p
      OBVIOUS
    <3> HIDE DEF new
    <3> QED BY <1>2, <3>1, RefreshedFacts
  <2>2. CASE act = {}
    <3> SUFFICES ASSUME NEW o \in x.overlay
                 PROVE  LET u == kept(o)
                        IN /\ u \in Overlay /\ u.epoch = x.epoch
                           /\ \/ /\ u.day = w.day /\ u.rev = w.rev /\ u.at = w.at[c]
                                 /\ u.pend = w.pend[c]
                              \/ u = o /\ u.day # w.day /\ r.wish # "continue"
      BY <2>2
    <3>1. /\ o = [k \in DOMAIN o |-> o[k]]
          /\ DOMAIN o =
               {"epoch", "id", "place", "spot", "at", "pend", "rev", "day", "channel"}
          /\ o.epoch \in Nat /\ o.id \in Nat /\ o.place \in Places \cup {None}
      BY <1>2 DEF Overlay
    <3>2. o \in Overlay /\ o.epoch = x.epoch
      BY <1>2, <2>2 DEF Pair
    <3>3. CASE o.day = w.day \/ r.wish = "continue"
      BY <3>1, <3>2, <3>3, RefreshedFacts
    <3>4. CASE ~(o.day = w.day \/ r.wish = "continue")
      BY <3>2, <3>4
    <3> QED BY <3>3, <3>4
  <2> QED BY <2>1, <2>2
<1>4. \A o, u \in L : o = u
  <2>1. \A o, u \in x.overlay : act = {} => o = u
    BY DEF Pair
  <2> QED BY <2>1
<1> HIDE DEF L
<1>5. /\ y = [k \in DOMAIN y |-> y[k]] /\ DOMAIN y = {"seg", "rev", "epoch", "overlay", "inv"}
      /\ y.seg = x.seg /\ y.rev = x.rev + 1 /\ y.epoch = x.epoch /\ y.inv = x.inv
      /\ y.overlay = L
  <2> HIDE DEF y
  <2> QED BY <1>1 DEF ContextSet
<1> HIDE DEF y
<1>6. y = [seg |-> y.seg, rev |-> y.rev, epoch |-> y.epoch, overlay |-> y.overlay, inv |-> y.inv]
  BY <1>5
<1>7. y \in ContextSet
  BY <1>2, <1>3, <1>5, <1>6 DEF ContextSet
<1>8. \A o \in L : \/ o.day = w.day /\ o.rev = w.rev /\ o.pend = w.pend[c]
                   \/ o \in x.overlay /\ o.day # w.day /\ w.pend[c] = {} /\ act = {}
  BY <1>3 DEF Pair
<1>9. Pair(c, w, y, None)
  <2>1. \A o \in y.overlay : o.day <= w.day /\ (o.day = w.day => o.rev <= w.rev)
    BY <1>2, <1>3, <1>5 DEF Pair
  <2>2. \A o \in y.overlay : w.pend[c] # {} => o.day = w.day
    BY <1>3, <1>5, <1>8
  <2>3. \A o \in y.overlay : \A p \in o.pend : o.at = p.place
    BY <1>3, <1>5 DEF Pair, Arranged
  <2> QED BY <1>3, <1>4, <1>5, <2>1, <2>2, <2>3 DEF Pair
<1> QED BY <1>5, <1>7, <1>8, <1>9 DEF y
-----------------------------------------------------------------------------
(* Answers *)

Ends(r) == r.kind \in {"join", "keep", "cancel", "transition"} \/ r.wish = "start"

\* An answer to r, served in the world w with the context x: both go on by
\* one, together, and only a chat arranges a new meeting. An older scene is
\* kept only by an answer that ends no appointment.
Answered(r, w, x, a) ==
  /\ a \in Reply /\ a.c = r.c /\ a.ends = Ends(r)
  /\ Onward(r.c, w, a.world) /\ a.world.day = w.day
  /\ \A p \in a.world.pend[r.c] : p \in w.pend[r.c] \/ (p.id = r.id /\ r.kind = "chat")
  /\ \E y \in ContextSet :
       /\ a.ctx = {y} /\ y.seg = x.seg /\ y.rev = x.rev + 1
       /\ Pair(r.c, a.world, y, None)
       /\ \A o \in y.overlay :
            \/ o.day = w.day /\ o.rev = a.world.rev /\ o.pend = a.world.pend[r.c]
            \/ /\ o \in x.overlay /\ o.day # w.day /\ a.world.pend[r.c] = {}
               /\ Ends(r) => r.world.pend[r.c] = {}

LEMMA OnwardStays ==
  ASSUME NEW c \in Characters, NEW w \in WorldSet
  PROVE  Onward(c, w, w)
BY WorldParts DEF Onward

\* What every answer has in common: a step of the world and a signature.
LEMMA AnswerFacts ==
  ASSUME NEW r \in Request, NEW w \in WorldSet, NEW v, NEW x \in ContextSet,
         NEW z \in ContextSet, z.seg = x.seg, z.rev = x.rev, z.epoch = x.epoch,
         z.overlay = x.overlay,
         NEW channel \in Channels, NEW act \in SUBSET (Places \cup {None}),
         \A p, q \in act : p = q,
         Onward(r.c, w, v), Arranged(v), v.day = w.day,
         \A p \in v.pend[r.c] : p \in w.pend[r.c] \/ (p.id = r.id /\ r.kind = "chat"),
         act = {} => /\ Pair(r.c, w, x, r.wish)
                     /\ v.pend[r.c] # {} => w.pend[r.c] # {}
                     /\ x.overlay # {} /\ Ends(r) => r.world.pend[r.c] = {}
  PROVE  Answered(r, w, x, Answer(r, v, {Signed(r, z, v, channel, act)}))
<1> DEFINE y == Signed(r, z, v, channel, act)
           a == Answer(r, v, {y})
<1>1. r.c \in Characters /\ r.id \in Nat /\ v \in WorldSet /\ v.rev >= w.rev
      /\ r.kind \in {"chat", "resolve", "open", "join", "keep", "cancel", "transition"}
  BY DEF Request, Onward
<1>2. act = {} => Pair(r.c, v, z, r.wish)
  <2> SUFFICES ASSUME act = {} PROVE Pair(r.c, v, z, r.wish)
    OBVIOUS
  <2>1. Pair(r.c, v, x, r.wish)
    BY <1>1, PairOnward
  <2> QED BY <2>1 DEF Pair
<1>3. /\ y \in ContextSet /\ y.seg = x.seg /\ y.rev = x.rev + 1
      /\ Pair(r.c, v, y, None)
      /\ \A o \in y.overlay :
           \/ o.day = v.day /\ o.rev = v.rev /\ o.pend = v.pend[r.c]
           \/ o \in x.overlay /\ o.day # v.day /\ v.pend[r.c] = {} /\ act = {}
  <2>1. /\ y \in ContextSet /\ y.seg = z.seg /\ y.rev = z.rev + 1
        /\ Pair(r.c, v, y, None)
        /\ \A o \in y.overlay :
             \/ o.day = v.day /\ o.rev = v.rev /\ o.pend = v.pend[r.c]
             \/ o \in z.overlay /\ o.day # v.day /\ v.pend[r.c] = {} /\ act = {}
    BY <1>1, <1>2, SignedFacts
  <2> HIDE DEF y
  <2> QED BY <2>1
<1> HIDE DEF y
<1>4. /\ a = [c |-> a.c, world |-> a.world, ctx |-> a.ctx, ends |-> a.ends]
      /\ a.c = r.c /\ a.world = v /\ a.ctx = {y} /\ a.ends = Ends(r) /\ a.ends \in BOOLEAN
  BY DEF Answer, Ends
<1> HIDE DEF a
<1>5. a \in Reply
  BY <1>1, <1>3, <1>4 DEF Reply
<1>6. \A o \in y.overlay :
        \/ o.day = w.day /\ o.rev = a.world.rev /\ o.pend = a.world.pend[r.c]
        \/ /\ o \in x.overlay /\ o.day # w.day /\ a.world.pend[r.c] = {}
           /\ Ends(r) => r.world.pend[r.c] = {}
  BY <1>3, <1>4
<1> QED BY <1>3, <1>4, <1>5, <1>6 DEF Answered, a, y

\* A scene action answers.
LEMMA ActedFacts ==
  ASSUME NEW r \in Request, r.kind \notin {"chat", "transition"},
         NEW w \in WorldSet, NEW x \in ContextSet, CardFits(r), Current(r, w, x),
         Pair(r.c, w, x, r.wish), r.wish = "start" => x.overlay = {}
  PROVE  Answered(r, w, x, Acted(r, w, x))
<1> DEFINE c == r.c
<1>1. c \in Characters /\ Arranged(w)
      /\ r.kind \in {"resolve", "open", "join", "keep", "cancel"}
  BY DEF Request, Pair
<1>2. Channel(x) \in Channels /\ "text" \in Channels /\ "in_person" \in Channels
  BY DEF Channel, Channels
<1>3. LET z == [x EXCEPT !.inv = {}]
      IN /\ z \in ContextSet /\ z.seg = x.seg /\ z.rev = x.rev /\ z.epoch = x.epoch
         /\ z.overlay = x.overlay
  <2>1. {} \in SUBSET Invitation
    OBVIOUS
  <2> QED BY <2>1, InvitedFacts
<1>4. CASE r.kind = "resolve"
  <2>1. Acted(r, w, x) = Answer(r, w, {Signed(r, x, w, Channel(x), {})})
    BY <1>4 DEF Acted
  <2>2. ~(x.overlay # {} /\ Ends(r))
    BY <1>4 DEF Ends
  <2> DEFINE v == w
             act == {}
  <2>3. Onward(c, w, v) /\ Arranged(v) /\ v.day = w.day /\ v.pend = w.pend
    BY <1>1, OnwardStays
  <2>4. act \in SUBSET (Places \cup {None}) /\ \A p, q \in act : p = q
    OBVIOUS
  <2>5. Acted(r, w, x) = Answer(r, v, {Signed(r, x, v, Channel(x), act)})
    BY <2>1
  <2> HIDE DEF v, act
  <2>6. Answered(r, w, x, Answer(r, v, {Signed(r, x, v, Channel(x), act)}))
    BY <1>1, <1>2, <2>2, <2>3, <2>4, AnswerFacts
  <2> QED BY <2>5, <2>6
<1>5. CASE r.kind = "open"
  <2> DEFINE v == [w EXCEPT !.rev = @ + 1]
  <2>1. Acted(r, w, x) = Answer(r, v, {Signed(r, x, v, "text", {})})
    BY <1>5 DEF Acted
  <2>2. Onward(c, w, v) /\ Arranged(v) /\ v.day = w.day /\ v.pend = w.pend
    BY <1>1, RaisedFacts
  <2>3. ~(x.overlay # {} /\ Ends(r))
    BY <1>5 DEF Ends
  <2> DEFINE act == {}
  <2>4. act \in SUBSET (Places \cup {None}) /\ \A p, q \in act : p = q
    OBVIOUS
  <2>5. Acted(r, w, x) = Answer(r, v, {Signed(r, x, v, "text", act)})
    BY <2>1
  <2> HIDE DEF v, act
  <2>6. Answered(r, w, x, Answer(r, v, {Signed(r, x, v, "text", act)}))
    BY <1>1, <1>2, <2>2, <2>3, <2>4, AnswerFacts
  <2> QED BY <2>5, <2>6
<1>6. CASE r.kind \in {"join", "keep"}
  <2> DEFINE v == Joined(w, c)
             z == [x EXCEPT !.inv = {}]
             act == {IF w.pend[c] = {} THEN None ELSE v.spot}
  <2>1. Acted(r, w, x) = Answer(r, v, {Signed(r, z, v, "in_person", act)})
    BY <1>6 DEF Acted
  <2>2. Onward(c, w, v) /\ Arranged(v) /\ v.day = w.day /\ v.pend[c] = {} /\ v.spot \in Places
    BY <1>1, JoinedFacts
  <2>3. act \in SUBSET (Places \cup {None}) /\ act # {} /\ \A p, q \in act : p = q
    BY <2>2
  <2>4. /\ z \in ContextSet /\ z.seg = x.seg /\ z.rev = x.rev /\ z.epoch = x.epoch
        /\ z.overlay = x.overlay
    BY <1>3
  <2> HIDE DEF v, z, act
  <2> QED BY <1>1, <1>2, <2>1, <2>2, <2>3, <2>4, AnswerFacts
<1>7. CASE r.kind = "cancel"
  <2> DEFINE v == [w EXCEPT !.pend[c] = {}, !.rev = @ + 1]
             z == [x EXCEPT !.inv = {}]
             act == {p.place : p \in w.pend[c]}
  <2>1. Acted(r, w, x) = Answer(r, v, {Signed(r, z, v, Channel(x), act)})
    BY <1>7 DEF Acted
  <2>2. Onward(c, w, v) /\ Arranged(v) /\ v.day = w.day /\ v.pend[c] = {}
    BY <1>1, ClearedFacts
  <2>3. act \in SUBSET (Places \cup {None}) /\ \A p, q \in act : p = q
    <3>1. \A p \in w.pend[c] : p.place \in Places /\ p.place = w.at[c]
      BY <1>1, WorldParts DEF Meeting, Arranged
    <3> QED BY <3>1
  <2>4. act = {} => r.world.pend[c] = {}
    BY <1>7 DEF Current, CardFits
  <2>5. /\ z \in ContextSet /\ z.seg = x.seg /\ z.rev = x.rev /\ z.epoch = x.epoch
        /\ z.overlay = x.overlay
    BY <1>3
  <2> HIDE DEF v, z, act
  <2> QED BY <1>1, <1>2, <2>1, <2>2, <2>3, <2>4, <2>5, AnswerFacts
<1> QED BY <1>1, <1>4, <1>5, <1>6, <1>7
\* A chat answers a decided intent.
LEMMA RepliedFacts ==
  ASSUME NEW j \in Work, j.r.kind = "chat", NEW i, NEW d \in {"accept", "decline", "defer", "clarify"},
         i.place \in Places, i.later \in BOOLEAN,
         Pair(j.r.c, j.w, j.x, j.r.wish), j.r.wish = "start" => j.x.overlay = {}
  PROVE  Answered(j.r, j.w, j.x, Replied(j, i, d))
<1> DEFINE r == j.r
           w == j.w
           x == j.x
           c == r.c
           inv == [id |-> r.id, place |-> i.place, later |-> i.later, status |-> Status(d)]
           ends == i.op \in {"cancel", "defer"} \/ (d = "accept" /\ i.later)
           cleared == ends /\ w.pend[c] # {}
           v == IF cleared THEN [w EXCEPT !.pend[c] = {}, !.rev = @ + 1] ELSE w
           m == Moved(w, r, i)
<1>1. r \in Request /\ w \in WorldSet /\ x \in ContextSet /\ c \in Characters /\ r.id \in Nat
      /\ r.channel \in Channels /\ Arranged(w) /\ (Ends(r) <=> r.wish = "start")
  BY DEF Work, Request, Pair, Ends
<1>2. {inv} \in SUBSET Invitation /\ {} \in SUBSET Invitation
  BY <1>1 DEF Invitation, Status
<1>3. \A q \in SUBSET Invitation :
        LET z == [x EXCEPT !.inv = q]
        IN /\ z \in ContextSet /\ z.seg = x.seg /\ z.rev = x.rev /\ z.epoch = x.epoch
           /\ z.overlay = x.overlay
  BY <1>1, InvitedFacts
<1>4. x.overlay # {} => ~Ends(r)
  BY <1>1
<1> HIDE DEF inv, c, w, x, r, ends
<1>5. CASE d = "accept" /\ ~i.later
  <2> DEFINE q == IF r.channel = "text" THEN {inv} ELSE {}
             z == [x EXCEPT !.inv = q]
             act == {i.place}
  <2>1. Replied(j, i, d) = Answer(r, m, {Signed(r, z, m, r.channel, act)})
    BY <1>5 DEF Replied, r, w, x, c, inv
  <2>2. q \in SUBSET Invitation
    BY <1>2
  <2> HIDE DEF q
  <2>3. /\ z \in ContextSet /\ z.seg = x.seg /\ z.rev = x.rev /\ z.epoch = x.epoch
        /\ z.overlay = x.overlay
    BY <1>3, <2>2
  <2>4. Onward(r.c, w, m) /\ Arranged(m) /\ m.day = w.day /\ \A p \in m.pend[r.c] : p.id = r.id
    BY <1>1, MovedFacts DEF c
  <2>5. act \in SUBSET (Places \cup {None}) /\ act # {} /\ \A p, k \in act : p = k
    OBVIOUS
  <2>6. r.kind = "chat"
    BY DEF r
  <2> HIDE DEF z, m, act
  <2>7. Answered(r, w, x, Answer(r, m, {Signed(r, z, m, r.channel, act)}))
    BY <1>1, <2>3, <2>4, <2>5, <2>6, AnswerFacts
  <2> QED BY <2>1, <2>7 DEF r, w, x
<1>6. CASE ~(d = "accept" /\ ~i.later)
  <2> DEFINE q == IF /\ d = "decline" /\ ~ends
                     /\ w.pend[c] # {} /\ x.inv # {}
                  THEN x.inv ELSE {inv}
             z == [x EXCEPT !.inv = q]
             act == IF v # w /\ d # "accept" THEN {i.place} ELSE {}
  <2>1. Replied(j, i, d) = Answer(r, v, {Signed(r, z, v, r.channel, act)})
    BY <1>6 DEF Replied, r, w, x, c, inv, ends
  <2>2. q \in SUBSET Invitation
    BY <1>1, <1>2 DEF ContextSet
  <2> HIDE DEF q
  <2>3. /\ z \in ContextSet /\ z.seg = x.seg /\ z.rev = x.rev /\ z.epoch = x.epoch
        /\ z.overlay = x.overlay
    BY <1>3, <2>2
  <2>4. Onward(c, w, v) /\ Arranged(v) /\ v.day = w.day /\ v.pend[c] \subseteq w.pend[c]
    <3>1. CASE cleared
      BY <1>1, <3>1, ClearedFacts
    <3>2. CASE ~cleared
      BY <1>1, <3>2, OnwardStays
    <3> QED BY <3>1, <3>2
  <2>5. act \in SUBSET (Places \cup {None}) /\ \A p, k \in act : p = k
    OBVIOUS
  <2> HIDE DEF z, v, act
  <2>6. Pair(r.c, w, x, r.wish)
    BY DEF r, w, x
  <2>7. Answered(r, w, x, Answer(r, v, {Signed(r, z, v, r.channel, act)}))
    BY <1>1, <1>4, <2>3, <2>4, <2>5, <2>6, AnswerFacts DEF c
  <2> QED BY <2>1, <2>7 DEF r, w, x
<1> QED BY <1>5, <1>6

\* A chat answers without deciding anything.
LEMMA SaidFacts ==
  ASSUME NEW j \in Work, j.r.kind = "chat", NEW q \in SUBSET Invitation,
         Pair(j.r.c, j.w, j.x, j.r.wish), j.r.wish = "start" => j.x.overlay = {}
  PROVE  Answered(j.r, j.w, j.x,
           Answer(j.r, j.w, {Signed(j.r, [j.x EXCEPT !.inv = q], j.w, j.r.channel, {})}))
<1> DEFINE r == j.r
           w == j.w
           x == j.x
           v == w
           z == [x EXCEPT !.inv = q]
           act == {}
<1>1. r \in Request /\ w \in WorldSet /\ x \in ContextSet /\ r.c \in Characters
      /\ r.channel \in Channels /\ Arranged(w) /\ (Ends(r) <=> r.wish = "start")
  BY DEF Work, Request, Pair, Ends
<1>2. /\ z \in ContextSet /\ z.seg = x.seg /\ z.rev = x.rev /\ z.epoch = x.epoch
      /\ z.overlay = x.overlay
  BY <1>1, InvitedFacts
<1>3. Onward(r.c, w, v) /\ Arranged(v) /\ v.day = w.day /\ v.pend = w.pend
  BY <1>1, OnwardStays
<1>4. act \in SUBSET (Places \cup {None}) /\ \A p, k \in act : p = k
  OBVIOUS
<1>5. Pair(r.c, w, x, r.wish) /\ (x.overlay # {} => ~Ends(r))
  BY <1>1
<1> HIDE DEF r, w, x, v, z, act
<1>6. Answered(r, w, x, Answer(r, v, {Signed(r, z, v, r.channel, act)}))
  BY <1>1, <1>2, <1>3, <1>4, <1>5, AnswerFacts
<1> QED BY <1>6 DEF r, w, x, v, z, act
-----------------------------------------------------------------------------
(* Flights *)

LEMMA FlightParts ==
  ASSUME NEW f \in FlightSet
  PROVE  /\ f.c \in Characters /\ f.w \in WorldSet /\ f.seg \in Nat /\ f.rev \in Nat
         /\ f.days \in SUBSET Nat /\ f.revs \in SUBSET Nat
         /\ f.w.day \in Nat /\ f.w.rev \in Nat /\ DOMAIN f.w.pend = Characters
BY WorldParts DEF FlightSet

LEMMA FlightFacts ==
  ASSUME NEW c \in Characters, NEW w \in WorldSet, NEW x \in ContextSet, NEW n \in Nat
  PROVE  LET f == Flight(c, w, x, n)
         IN /\ f \in FlightSet /\ f.c = c /\ f.w = w /\ f.seg = x.seg /\ f.rev = n
            /\ f.days = {w.day} \cup {o.day : o \in x.overlay}
            /\ f.revs = {o.rev : o \in x.overlay}
<1>1. /\ x.seg \in Nat /\ x.overlay \in SUBSET Overlay /\ w.day \in Nat
      /\ \A o \in x.overlay : o.day \in Nat /\ o.rev \in Nat
  BY WorldParts DEF ContextSet, Overlay
<1> QED BY <1>1 DEF Flight, FlightSet

\* The next flight of the same request, served until day t.
Advances(f, g, t) ==
  /\ g.c = f.c /\ Onward(f.c, f.w, g.w) /\ g.w.day <= t /\ g.w.day \in g.days
  /\ (g.seg = f.seg /\ g.rev = f.rev) \/ (g.seg = 0 /\ g.rev = 0)
  /\ \A d \in g.days : d \in f.days \/ d = g.w.day
  /\ \A n \in g.revs : n \in f.revs \/ n = g.w.rev

\* What holds of the flights holds of those that follow them.
LEMMA FlightsAdvance ==
  ASSUME NEW F \in SUBSET FlightSet, NEW G \in SUBSET FlightSet, NEW t \in Nat, NEW w \in WorldSet,
         NEW sg \in [Characters -> Nat], NEW x \in [Characters -> ContextSet],
         \A g \in G : g \in F \/ \E f \in F : Advances(f, g, t),
         Bounded(F, t, w, sg, x), Apart(F, w, sg, x)
  PROVE  /\ Bounded(G, t, w, sg, x) /\ Apart(G, w, sg, x)
         /\ Rising(F, w, x) => Rising(G, w, x)
<1>1. /\ w.day \in Nat /\ w.rev \in Nat /\ \A c \in Characters : sg[c] \in Nat
      /\ \A c \in Characters : x[c].rev \in Nat /\ \A o \in x[c].overlay : o.day \in Nat
  BY WorldParts DEF ContextSet, Overlay
<1>2. \A g \in G : \E f \in F :
        /\ f.c = g.c /\ g.w.day <= t /\ g.w.day \in g.days
        /\ (g.seg = f.seg /\ g.rev = f.rev) \/ (g.seg = 0 /\ g.rev = 0)
        /\ \A d \in g.days : d \in f.days \/ d = g.w.day
        /\ \A n \in g.revs : n \in f.revs \/ n = g.w.rev
        /\ g.w.day >= f.w.day /\ g.w.rev >= f.w.rev
        /\ \A k \in Characters \ {g.c} : g.w.pend[k] # {} => f.w.pend[k] # {} /\ g.w.day = f.w.day
  <2> SUFFICES ASSUME NEW g \in G
               PROVE  \E f \in F :
                 /\ f.c = g.c /\ g.w.day <= t /\ g.w.day \in g.days
                 /\ (g.seg = f.seg /\ g.rev = f.rev) \/ (g.seg = 0 /\ g.rev = 0)
                 /\ \A d \in g.days : d \in f.days \/ d = g.w.day
                 /\ \A n \in g.revs : n \in f.revs \/ n = g.w.rev
                 /\ g.w.day >= f.w.day /\ g.w.rev >= f.w.rev
                 /\ \A k \in Characters \ {g.c} :
                      g.w.pend[k] # {} => f.w.pend[k] # {} /\ g.w.day = f.w.day
    OBVIOUS
  <2>1. CASE g \in F
    BY <2>1, FlightParts DEF Bounded
  <2>2. CASE \E f \in F : Advances(f, g, t)
    BY <2>2 DEF Advances, Onward
  <2> QED BY <2>1, <2>2
<1>3. \A f \in F \cup G : /\ f.w.day \in Nat /\ f.w.rev \in Nat /\ f.seg \in Nat /\ f.rev \in Nat
                          /\ f.c \in Characters /\ f.days \subseteq Nat /\ f.revs \subseteq Nat
  BY FlightParts
<1>4. Bounded(G, t, w, sg, x)
  <2> SUFFICES ASSUME NEW g \in G
               PROVE  /\ g.w.day <= t /\ g.w.day \in g.days /\ g.seg <= sg[g.c]
                      /\ g.seg = sg[g.c] => g.rev <= x[g.c].rev + 1
    BY DEF Bounded
  <2>1. PICK f \in F :
          /\ f.c = g.c /\ g.w.day <= t /\ g.w.day \in g.days
          /\ (g.seg = f.seg /\ g.rev = f.rev) \/ (g.seg = 0 /\ g.rev = 0)
    BY <1>2
  <2>2. f.seg <= sg[f.c] /\ (f.seg = sg[f.c] => f.rev <= x[f.c].rev + 1)
    BY DEF Bounded
  <2>3. sg[g.c] \in Nat /\ x[g.c].rev \in Nat
    BY <1>1, <1>3
  <2> QED BY <2>1, <2>2, <2>3
<1>5. \A g \in G : Live(g, sg, x) =>
        \E f \in F : /\ f.c = g.c /\ Live(f, sg, x) /\ f.w.day <= g.w.day /\ f.w.day \in f.days
                     /\ \A d \in g.days : d \in f.days \/ d = g.w.day
  <2> SUFFICES ASSUME NEW g \in G, Live(g, sg, x)
               PROVE  \E f \in F :
                 /\ f.c = g.c /\ Live(f, sg, x) /\ f.w.day <= g.w.day /\ f.w.day \in f.days
                 /\ \A d \in g.days : d \in f.days \/ d = g.w.day
    OBVIOUS
  <2>1. PICK f \in F :
          /\ f.c = g.c /\ g.w.day >= f.w.day
          /\ (g.seg = f.seg /\ g.rev = f.rev) \/ (g.seg = 0 /\ g.rev = 0)
          /\ \A d \in g.days : d \in f.days \/ d = g.w.day
    BY <1>2
  <2>2. g.rev # 0
    BY <1>1, <1>3 DEF Live
  <2>3. Live(f, sg, x) /\ f.w.day \in f.days
    BY <2>1, <2>2 DEF Live, Bounded
  <2> QED BY <1>3, <2>1, <2>3
<1>6. Apart(G, w, sg, x)
  <2>1. ASSUME NEW g \in G, Live(g, sg, x), w.pend[g.c] # {}, NEW d \in g.days
        PROVE  d >= w.day
    <3>1. PICK f \in F :
            /\ f.c = g.c /\ Live(f, sg, x) /\ f.w.day <= g.w.day /\ f.w.day \in f.days
            /\ \A e \in g.days : e \in f.days \/ e = g.w.day
      BY <1>5, <2>1
    <3>2. \A e \in f.days : e >= w.day
      BY <2>1, <3>1 DEF Apart
    <3> QED BY <1>1, <1>3, <2>1, <3>1, <3>2
  <2>2. ASSUME NEW g \in G, NEW c \in Characters \ {g.c}, g.w.pend[c] # {}
        PROVE  /\ g.w.day <= w.day
               /\ \A o \in x[c].overlay : o.day >= g.w.day
               /\ \A f \in G : f.c = c /\ Live(f, sg, x) => \A d \in f.days : d >= g.w.day
    <3>1. PICK h \in F : h.c = g.c /\ h.w.pend[c] # {} /\ g.w.day = h.w.day
      BY <1>2, <2>2
    <3>2. /\ h.w.day <= w.day
          /\ \A o \in x[c].overlay : o.day >= h.w.day
          /\ \A f \in F : f.c = c /\ Live(f, sg, x) => \A d \in f.days : d >= h.w.day
      BY <3>1 DEF Apart
    <3>3. ASSUME NEW f \in G, f.c = c, Live(f, sg, x), NEW d \in f.days
          PROVE  d >= g.w.day
      <4>1. PICK e \in F :
              /\ e.c = f.c /\ Live(e, sg, x) /\ e.w.day <= f.w.day /\ e.w.day \in e.days
              /\ \A n \in f.days : n \in e.days \/ n = f.w.day
        BY <1>5, <3>3
      <4>2. \A n \in e.days : n >= h.w.day
        BY <3>2, <3>3, <4>1
      <4> QED BY <1>3, <3>1, <3>3, <4>1, <4>2
    <3> QED BY <3>1, <3>2, <3>3
  <2> QED BY <2>1, <2>2 DEF Apart
<1>7. ASSUME Rising(F, w, x) PROVE Rising(G, w, x)
  <2> SUFFICES ASSUME NEW g \in G
               PROVE  g.w.rev >= w.rev /\ \A n \in g.revs : n <= g.w.rev
    BY <1>7 DEF Rising
  <2>1. PICK f \in F : g.w.rev >= f.w.rev /\ \A n \in g.revs : n \in f.revs \/ n = g.w.rev
    BY <1>2
  <2>2. f.w.rev >= w.rev /\ \A n \in f.revs : n <= f.w.rev
    BY <1>7 DEF Rising
  <2>3. f.w.rev \in Nat /\ g.w.rev \in Nat /\ f.revs \subseteq Nat
    BY <1>3
  <2> QED BY <1>1, <2>1, <2>2, <2>3
<1> QED BY <1>4, <1>6, <1>7
\* A request brings what the browser holds.
LEMMA FlightsSend ==
  ASSUME NEW F \in SUBSET FlightSet, NEW c \in Characters, NEW t \in Nat, NEW w \in WorldSet,
         NEW sg \in [Characters -> Nat], NEW x \in [Characters -> ContextSet],
         \A k \in Characters : x[k].seg = sg[k] /\ Pair(k, w, x[k], None),
         Bounded(F, t, w, sg, x), Apart(F, w, sg, x)
  PROVE  LET G == F \cup {Flight(c, w, x[c], x[c].rev + 1)}
         IN /\ G \in SUBSET FlightSet
            /\ Bounded(G, t, w, sg, x) /\ Apart(G, w, sg, x)
            /\ Rising(F, w, x) => Rising(G, w, x)
<1> DEFINE h == Flight(c, w, x[c], x[c].rev + 1)
           G == F \cup {h}
<1>1. /\ w.day \in Nat /\ w.rev \in Nat /\ x[c] \in ContextSet /\ x[c].rev \in Nat
      /\ x[c].rev + 1 \in Nat
      /\ \A k \in Characters : sg[k] \in Nat /\ \A o \in x[k].overlay : o.day \in Nat /\ o.rev \in Nat
  BY WorldParts DEF ContextSet, Overlay
<1>2. /\ h \in FlightSet /\ h.c = c /\ h.w = w /\ h.seg = x[c].seg /\ h.rev = x[c].rev + 1
      /\ h.days = {w.day} \cup {o.day : o \in x[c].overlay}
      /\ h.revs = {o.rev : o \in x[c].overlay}
  BY <1>1, FlightFacts
<1> HIDE DEF h
<1>3. \A k \in Characters : w.pend[k] # {} => \A o \in x[k].overlay : o.day = w.day
  BY DEF Pair, None
<1>4. \A f \in F : /\ f.w.day \in Nat /\ f.w.rev \in Nat /\ f.c \in Characters
                   /\ f.days \subseteq Nat /\ f.revs \subseteq Nat
  BY FlightParts
<1>5. Bounded(G, t, w, sg, x)
  BY <1>1, <1>2 DEF Bounded
<1>6. \A f \in G : Live(f, sg, x) /\ w.pend[f.c] # {} => \A d \in f.days : d >= w.day
  <2>1. \A f \in F : Live(f, sg, x) /\ w.pend[f.c] # {} => \A d \in f.days : d >= w.day
    BY DEF Apart
  <2>2. w.pend[c] # {} => \A d \in h.days : d >= w.day
    BY <1>1, <1>2, <1>3
  <2> QED BY <1>2, <2>1, <2>2
<1>7. ASSUME NEW g \in G, NEW k \in Characters \ {g.c}, g.w.pend[k] # {}
      PROVE  /\ g.w.day <= w.day
             /\ \A o \in x[k].overlay : o.day >= g.w.day
             /\ \A f \in G : f.c = k /\ Live(f, sg, x) => \A d \in f.days : d >= g.w.day
  <2>1. CASE g = h
    <3>1. g.w.day = w.day /\ w.pend[k] # {}
      BY <1>2, <1>7, <2>1
    <3> QED BY <1>1, <1>3, <1>6, <3>1
  <2>2. CASE g \in F
    <3>1. /\ g.w.day <= w.day
          /\ \A o \in x[k].overlay : o.day >= g.w.day
          /\ \A f \in F : f.c = k /\ Live(f, sg, x) => \A d \in f.days : d >= g.w.day
      BY <1>7, <2>2 DEF Apart
    <3>2. h.c = k => \A d \in h.days : d >= g.w.day
      BY <1>2, <3>1
    <3> QED BY <3>1, <3>2
  <2> QED BY <2>1, <2>2
<1>8. Apart(G, w, sg, x)
  BY <1>6, <1>7 DEF Apart
<1>9. Rising(F, w, x) => Rising(G, w, x)
  BY <1>1, <1>2 DEF Rising
<1> QED BY <1>2, <1>5, <1>8, <1>9 DEF h

\* A world that is not older replaces another.
LEMMA NewerFacts ==
  ASSUME NEW w \in WorldSet, NEW v \in WorldSet,
         \/ v.day > w.day \/ (v.day = w.day /\ v.rev > w.rev) \/ v = w
  PROVE  v.day >= w.day /\ (v.day = w.day => v.rev >= w.rev)
<1>1. /\ w.day \in Nat /\ w.rev \in Nat /\ v.day \in Nat /\ v.rev \in Nat
  BY WorldParts
<1> QED BY <1>1

\* The browser takes what the flight g brought to c: its world, and its
\* context where it has one.
Takes(g, w, x, v, y, sg) ==
  /\ g.w = v
  /\ \A k \in Characters \ {g.c} : y[k] = x[k]
  /\ \/ y[g.c] = x[g.c] /\ v.pend[g.c] = {}
     \/ /\ Live(g, sg, x) /\ y[g.c].rev = g.rev
        /\ \A o \in y[g.c].overlay : o.day \in g.days /\ o.rev \in g.revs

LEMMA FlightsTake ==
  ASSUME NEW F \in SUBSET FlightSet, NEW G \in SUBSET F, NEW g \in F, NEW t \in Nat,
         NEW w \in WorldSet, NEW v \in WorldSet,
         NEW sg \in [Characters -> Nat], NEW x \in [Characters -> ContextSet],
         NEW y \in [Characters -> ContextSet], Takes(g, w, x, v, y, sg),
         v.day >= w.day, Bounded(F, t, w, sg, x), Apart(F, w, sg, x)
  PROVE  Bounded(G, t, v, sg, y) /\ Apart(G, v, sg, y)
<1>1. /\ w.day \in Nat /\ v.day \in Nat /\ \A k \in Characters : sg[k] \in Nat
      /\ \A k \in Characters : x[k].rev \in Nat /\ y[k].rev \in Nat
  BY WorldParts DEF ContextSet
<1>2. \A f \in F : /\ f.w.day \in Nat /\ f.seg \in Nat /\ f.rev \in Nat
                   /\ f.c \in Characters /\ f.days \subseteq Nat
  BY FlightParts
<1>3. \A k \in Characters : y[k].rev >= x[k].rev
  <2>1. g.c \in Characters
    BY <1>2
  <2>2. y[g.c].rev >= x[g.c].rev
    BY <1>1, <1>2, <2>1 DEF Takes, Live
  <2> QED BY <1>1, <2>2 DEF Takes
<1>4. \A f \in G : Live(f, sg, y) => Live(f, sg, x)
  <2> SUFFICES ASSUME NEW f \in G, Live(f, sg, y) PROVE f.rev > x[f.c].rev
    BY DEF Live
  <2>1. f.rev > y[f.c].rev /\ f.rev \in Nat /\ x[f.c].rev \in Nat /\ y[f.c].rev \in Nat
        /\ y[f.c].rev >= x[f.c].rev
    BY <1>1, <1>2, <1>3 DEF Live
  <2> QED BY <2>1
<1>5. Bounded(G, t, v, sg, y)
  <2>1. v.day <= t
    BY DEF Takes, Bounded
  <2>2. ASSUME NEW f \in G, f.seg = sg[f.c] PROVE f.rev <= y[f.c].rev + 1
    <3>1. f.rev <= x[f.c].rev + 1 /\ f.c \in Characters /\ f.rev \in Nat
      BY <1>2, <2>2 DEF Bounded
    <3>2. y[f.c].rev >= x[f.c].rev /\ x[f.c].rev \in Nat /\ y[f.c].rev \in Nat
      BY <1>1, <1>3, <3>1
    <3> QED BY <3>1, <3>2
  <2> QED BY <2>1, <2>2 DEF Bounded
<1>6. ASSUME NEW f \in G, Live(f, sg, y), v.pend[f.c] # {}, NEW d \in f.days
      PROVE  d >= v.day
  <2>1. Live(f, sg, x)
    BY <1>4, <1>6
  <2>2. CASE f.c = g.c
    <3>1. y[g.c].rev = g.rev /\ Live(g, sg, x)
      BY <1>6, <2>2 DEF Takes
    <3>2. f.rev > g.rev /\ g.rev > x[g.c].rev /\ f.rev <= x[g.c].rev + 1
      BY <1>6, <2>1, <2>2, <3>1 DEF Live, Bounded
    <3> QED BY <1>1, <1>2, <2>2, <3>2
  <2>3. CASE f.c # g.c
    <3>1. f.c \in Characters \ {g.c} /\ g.w.pend[f.c] # {} /\ g.w = v
      BY <1>2, <1>6, <2>3 DEF Takes
    <3> QED BY <2>1, <3>1 DEF Apart
  <2> QED BY <2>2, <2>3
<1>7. ASSUME NEW h \in G, NEW k \in Characters \ {h.c}, h.w.pend[k] # {}
      PROVE  /\ h.w.day <= v.day
             /\ \A o \in y[k].overlay : o.day >= h.w.day
             /\ \A f \in G : f.c = k /\ Live(f, sg, y) => \A d \in f.days : d >= h.w.day
  <2>1. /\ h.w.day <= w.day
        /\ \A o \in x[k].overlay : o.day >= h.w.day
        /\ \A f \in F : f.c = k /\ Live(f, sg, x) => \A d \in f.days : d >= h.w.day
    BY <1>7 DEF Apart
  <2>2. \A o \in y[k].overlay : o.day >= h.w.day
    <3>1. CASE y[k] = x[k]
      BY <2>1, <3>1
    <3>2. CASE y[k] # x[k]
      <4>1. k = g.c /\ Live(g, sg, x) /\ \A o \in y[k].overlay : o.day \in g.days
        BY <3>2 DEF Takes
      <4> QED BY <2>1, <4>1
    <3> QED BY <3>1, <3>2
  <2>3. h.w.day <= v.day
    BY <1>1, <1>2, <2>1
  <2> QED BY <1>4, <2>1, <2>2, <2>3
<1>8. Apart(G, v, sg, y)
  BY <1>6, <1>7 DEF Apart
<1> QED BY <1>5, <1>8

\* The others still fit the world that comes with an answer to c.
LEMMA OthersFit ==
  ASSUME NEW F \in SUBSET FlightSet, NEW g \in F, NEW w \in WorldSet,
         NEW sg, NEW x \in [Characters -> ContextSet], NEW k \in Characters \ {g.c},
         Pair(k, w, x[k], None), Arranged(g.w), g.w.day >= w.day, g.w.day = w.day => g.w.rev >= w.rev,
         Apart(F, w, sg, x)
  PROVE  Pair(k, g.w, x[k], None)
<1> DEFINE v == g.w
<1>1. /\ w.day \in Nat /\ w.rev \in Nat /\ v.day \in Nat /\ v.rev \in Nat
      /\ \A o \in x[k].overlay : o.day \in Nat /\ o.rev \in Nat
  BY WorldParts, FlightParts DEF ContextSet, Overlay
<1>2. \A o \in x[k].overlay : o.day <= w.day /\ (o.day = w.day => o.rev <= w.rev)
  BY DEF Pair
<1>3. v.pend[k] # {} => \A o \in x[k].overlay : v.day <= w.day /\ o.day >= v.day
  BY DEF Apart
<1>4. \A o \in x[k].overlay :
        /\ o.day <= v.day /\ (o.day = v.day => o.rev <= v.rev)
        /\ v.pend[k] # {} => o.day = v.day
  BY <1>1, <1>2, <1>3
<1> QED BY <1>4 DEF Pair

\* A new segment leaves every flight to c behind.
LEMMA FlightsLeft ==
  ASSUME NEW F \in SUBSET FlightSet, NEW c \in Characters, NEW t \in Nat, NEW w \in WorldSet,
         NEW sg \in [Characters -> Nat], NEW x \in [Characters -> ContextSet],
         NEW y, y.overlay = {}, Bounded(F, t, w, sg, x), Apart(F, w, sg, x)
  PROVE  LET sg2 == [sg EXCEPT ![c] = @ + 1]
             x2 == [x EXCEPT ![c] = y]
         IN /\ Bounded(F, t, w, sg2, x2) /\ Apart(F, w, sg2, x2)
            /\ Rising(F, w, x) => Rising(F, w, x2)
<1> DEFINE sg2 == [sg EXCEPT ![c] = @ + 1]
           x2 == [x EXCEPT ![c] = y]
<1>1. sg2[c] = sg[c] + 1 /\ x2[c] = y /\ sg[c] \in Nat
      /\ \A k \in Characters \ {c} : sg2[k] = sg[k] /\ x2[k] = x[k]
  OBVIOUS
<1> HIDE DEF sg2, x2
<1>2. \A f \in F : f.seg \in Nat /\ f.c \in Characters
  BY FlightParts
<1>3. \A f \in F : f.c = c => f.seg # sg2[c] /\ f.seg <= sg2[c]
  BY <1>1, <1>2 DEF Bounded
<1>4. \A f \in F : Live(f, sg2, x2) => f.c # c /\ Live(f, sg, x)
  BY <1>1, <1>2, <1>3 DEF Live
<1>5. Bounded(F, t, w, sg2, x2)
  BY <1>1, <1>2, <1>3 DEF Bounded
<1>6. Apart(F, w, sg2, x2)
  <2>1. \A f \in F : Live(f, sg2, x2) /\ w.pend[f.c] # {} => \A d \in f.days : d >= w.day
    BY <1>4 DEF Apart
  <2>2. ASSUME NEW g \in F, NEW k \in Characters \ {g.c}, g.w.pend[k] # {}
        PROVE  /\ g.w.day <= w.day
               /\ \A o \in x2[k].overlay : o.day >= g.w.day
               /\ \A f \in F : f.c = k /\ Live(f, sg2, x2) => \A d \in f.days : d >= g.w.day
    <3>1. /\ g.w.day <= w.day
          /\ \A o \in x[k].overlay : o.day >= g.w.day
          /\ \A f \in F : f.c = k /\ Live(f, sg, x) => \A d \in f.days : d >= g.w.day
      BY <2>2 DEF Apart
    <3> QED BY <1>1, <1>4, <3>1
  <2> QED BY <2>1, <2>2 DEF Apart
<1>7. Rising(F, w, x) => Rising(F, w, x2)
  BY <1>1 DEF Rising
<1> QED BY <1>5, <1>6, <1>7 DEF sg2, x2
LEMMA WorkParts ==
  ASSUME NEW j \in Work
  PROVE  /\ j.r \in Request /\ j.x \in ContextSet /\ j.w \in WorldSet /\ j.begun \in BOOLEAN
         /\ j.r.c \in Characters /\ j.r.id \in Nat /\ j.r.channel \in Channels
         /\ j.x.seg \in Nat /\ j.x.rev \in Nat /\ j.x.rev + 1 \in Nat
BY DEF Work, Request, ContextSet

LEMMA RequestParts ==
  ASSUME NEW r \in Request
  PROVE  /\ r.c \in Characters /\ r.world \in WorldSet /\ r.ctx \in ContextSet /\ r.id \in Nat
         /\ r.channel \in Channels /\ r.wish \in Wished /\ r.place \in Places
         /\ r.ctx.seg \in Nat /\ r.ctx.rev \in Nat /\ r.ctx.rev + 1 \in Nat
BY DEF Request, ContextSet

LEMMA ReplyParts ==
  ASSUME NEW a \in Reply
  PROVE  /\ a.c \in Characters /\ a.world \in WorldSet /\ a.ctx \in SUBSET ContextSet
         /\ a.ends \in BOOLEAN
         /\ \A x \in a.ctx : x.seg \in Nat /\ x.rev \in Nat
BY DEF Reply, ContextSet

LEMMA ReplyFlight ==
  ASSUME NEW a \in Reply
  PROVE  LET f == OfReply(a)
         IN /\ f \in FlightSet /\ f.c = a.c /\ f.w = a.world /\ f.w.day \in f.days
            /\ a.ctx = {} => f = Worldly(a.c, a.world)
            /\ \A y : a.ctx = {y} => f = Flight(a.c, a.world, y, y.rev)
<1> DEFINE f == OfReply(a)
<1>1. CASE a.ctx = {}
  <2>1. f = Worldly(a.c, a.world)
    BY <1>1 DEF OfReply
  <2>2. a.world.day \in Nat
    BY ReplyParts, WorldParts
  <2> QED BY <1>1, <2>1, <2>2, ReplyParts DEF Worldly, FlightSet
<1>2. CASE a.ctx # {}
  <2>1. PICK x \in a.ctx : f = Flight(a.c, a.world, x, x.rev)
    BY <1>2 DEF OfReply
  <2>2. f \in FlightSet /\ f.c = a.c /\ f.w = a.world /\ f.w.day \in f.days
    <3> HIDE DEF f
    <3> QED BY <2>1, ReplyParts, FlightFacts
  <2> QED BY <1>2, <2>1, <2>2
<1> QED BY <1>1, <1>2

LEMMA FlightsTyped ==
  ASSUME NEW S \in SUBSET Request, NEW J \in SUBSET Work, NEW A \in SUBSET Reply
  PROVE  FlightsOf(S, J, A) \in SUBSET FlightSet
<1>1. \A r \in S : OfRequest(r) \in FlightSet
  BY RequestParts, FlightFacts DEF OfRequest
<1>2. \A j \in J : OfWork(j) \in FlightSet
  BY WorkParts, FlightFacts DEF OfWork
<1>3. \A a \in A : OfReply(a) \in FlightSet
  BY ReplyFlight
<1> QED BY <1>1, <1>2, <1>3 DEF FlightsOf

\* The answer is the next flight of the one it answers.
LEMMA AnswerAdvances ==
  ASSUME NEW r \in Request, NEW w \in WorldSet, NEW x \in ContextSet, NEW a, NEW t,
         NEW f \in FlightSet, f.c = r.c, Onward(r.c, f.w, w), w.day <= t,
         f.seg = x.seg, f.rev = x.rev + 1,
         \A o \in x.overlay : o.day \in f.days /\ o.rev \in f.revs,
         Answered(r, w, x, a)
  PROVE  Advances(f, OfReply(a), t)
<1> DEFINE g == OfReply(a)
<1>1. a \in Reply /\ a.c = r.c /\ Onward(r.c, w, a.world) /\ a.world.day = w.day
  BY DEF Answered
<1>2. PICK y \in ContextSet :
        /\ a.ctx = {y} /\ y.seg = x.seg /\ y.rev = x.rev + 1
        /\ \A o \in y.overlay :
             (o.day = w.day /\ o.rev = a.world.rev) \/ o \in x.overlay
  BY DEF Answered
<1>3. g = Flight(a.c, a.world, y, y.rev) /\ g \in FlightSet /\ g.w.day \in g.days
  BY <1>1, <1>2, ReplyFlight
<1> HIDE DEF g
<1>4. /\ g.c = a.c /\ g.w = a.world /\ g.seg = y.seg /\ g.rev = y.rev
      /\ g.days = {a.world.day} \cup {o.day : o \in y.overlay}
      /\ g.revs = {o.rev : o \in y.overlay}
  BY <1>3 DEF Flight
<1>5. Onward(f.c, f.w, g.w)
  BY <1>1, <1>4, FlightParts, RequestParts, OnwardOnward
<1>6. \A d \in g.days : d \in f.days \/ d = g.w.day
  BY <1>1, <1>2, <1>4
<1>7. \A n \in g.revs : n \in f.revs \/ n = g.w.rev
  BY <1>2, <1>4
<1> QED BY <1>1, <1>2, <1>3, <1>4, <1>5, <1>6, <1>7 DEF Advances, g
-----------------------------------------------------------------------------
(* The invariant holds at first, and every step keeps it *)

LEMMA InitInv ==
  Init => IInv
<1> SUFFICES ASSUME Init PROVE IInv
  OBVIOUS
<1>1. 1 \in 1..MaxDay
  BY SceneAssumption
<1> DEFINE D == Default(1)
<1>2. world \in WorldSet /\ world.day = 0 /\ world.rev = 0
      /\ world.pend = [c \in Characters |-> {}]
  <2>1. D \in WorldSet /\ D.pend = [c \in Characters |-> {}]
    BY <1>1, DefaultFacts
  <2>2. world = [D EXCEPT !.rev = 0, !.day = 0]
    BY DEF Init, Blank
  <2> HIDE DEF D
  <2> QED BY <2>1, <2>2 DEF WorldSet
<1>3. \A c \in Characters :
        ctx[c] \in ContextSet /\ ctx[c].seg = 0 /\ ctx[c].overlay = {}
  BY DEF Init, Fresh, ContextSet
<1>4. ctx \in [Characters -> ContextSet]
  BY <1>3 DEF Init
<1>5. TypeOK
  BY <1>1, <1>2, <1>4 DEF Init, TypeOK, Wished, None
<1>6. PairsFit
  BY <1>2, <1>3 DEF Init, PairsFit, Pair, Arranged
<1>7. Flights = {}
  BY DEF Init, Flights, FlightsOf
<1>8. FlightsBounded /\ FlightsApart /\ Ordered
  BY <1>2, <1>3, <1>7 DEF Init, FlightsBounded, FlightsApart, Ordered, Bounded, Apart, Rising
<1>9. Alone
  BY DEF Init, Alone
<1> QED BY <1>5, <1>6, <1>8, <1>9 DEF IInv

\* What the invariant says of the parts.
LEMMA InvParts ==
  ASSUME IInv
  PROVE  /\ today \in Nat /\ today \in 1..MaxDay
         /\ world \in WorldSet /\ ctx \in [Characters -> ContextSet]
         /\ segment \in [Characters -> Nat]
         /\ sent \in SUBSET Request /\ job \in SUBSET Work /\ answers \in SUBSET Reply
         /\ Flights \in SUBSET FlightSet
         /\ Bounded(Flights, today, world, segment, ctx)
         /\ Apart(Flights, world, segment, ctx)
<1>1. today \in Nat
  BY DEF IInv, TypeOK
<1>2. sent \in SUBSET Request /\ job \in SUBSET Work /\ answers \in SUBSET Reply
  BY DEF IInv, TypeOK
<1>3. Flights \in SUBSET FlightSet
  BY <1>2, FlightsTyped DEF Flights
<1> QED BY <1>1, <1>2, <1>3 DEF IInv, TypeOK, FlightsBounded, FlightsApart

\* A step of the server or of the network: the browser stays as it is and
\* every flight is an old one or follows one.
LEMMA ServeKeeps ==
  ASSUME IInv, UNCHANGED <<today, browser, used, history>>,
         sent' \in SUBSET sent, job' \in SUBSET Work, \A j, k \in job' : j = k,
         answers' \in SUBSET Reply,
         \A j \in job' : /\ j.r.kind = "chat" /\ (j.r.wish = "start" => j.x.overlay = {})
                         /\ Pair(j.r.c, j.w, j.x, j.r.wish),
         \A a \in answers' : /\ \A x \in a.ctx : Pair(a.c, a.world, x, None)
                             /\ \A x, y \in a.ctx : x = y
                             /\ Arranged(a.world)
                             /\ a.ctx = {} => a.world.pend[a.c] = {},
         \A g \in Flights' : g \in Flights \/ \E f \in Flights : Advances(f, g, today),
         Alone => Alone'
  PROVE  IInv'
<1>1. TypeOK'
  BY DEF IInv, TypeOK, browser, history
<1>2. PairsFit'
  BY DEF IInv, PairsFit, browser
<1>3. Flights' \in SUBSET FlightSet
  <2>1. sent' \in SUBSET Request
    BY InvParts
  <2>2. FlightsOf(sent', job', answers') \in SUBSET FlightSet
    BY <2>1, FlightsTyped
  <2> QED BY <2>2 DEF Flights
<1>4. /\ Bounded(Flights', today, world, segment, ctx) /\ Apart(Flights', world, segment, ctx)
      /\ Rising(Flights, world, ctx) => Rising(Flights', world, ctx)
  BY <1>3, InvParts, FlightsAdvance
<1>5. today' = today /\ world' = world /\ segment' = segment /\ ctx' = ctx /\ raced' = raced
  BY DEF browser, history
<1>6. FlightsBounded' /\ FlightsApart' /\ (Ordered => Ordered')
  BY <1>4, <1>5 DEF FlightsBounded, FlightsApart, Ordered
<1> QED BY <1>1, <1>2, <1>5, <1>6 DEF IInv

LEMMA MidnightKeeps ==
  ASSUME IInv, Midnight
  PROVE  IInv'
<1>1. today' = today + 1 /\ today' \in 1..MaxDay /\ today \in Nat
  BY InvParts, SceneAssumption DEF Midnight
<1>2. TypeOK' /\ PairsFit' /\ (Alone => Alone')
  BY <1>1 DEF IInv, TypeOK, PairsFit, Midnight, browser, history, Alone
<1>3. Flights' = Flights
  BY DEF Midnight, Flights, FlightsOf
<1>4. world' = world /\ segment' = segment /\ ctx' = ctx /\ raced' = raced
  BY DEF Midnight, browser, history
<1>5. \A f \in Flights : f.w.day \in Nat
  BY InvParts, FlightParts
<1>6. Bounded(Flights, today', world, segment, ctx)
  <2>1. world.day \in Nat
    BY InvParts, WorldParts
  <2> QED BY <1>1, <1>5, <2>1, InvParts DEF Bounded
<1>7. FlightsBounded' /\ FlightsApart' /\ (Ordered => Ordered')
  BY <1>3, <1>4, <1>6, InvParts DEF FlightsBounded, FlightsApart, Ordered
<1> QED BY <1>2, <1>4, <1>7 DEF IInv

LEMMA NoticeDayKeeps ==
  ASSUME IInv, NEW c \in Characters, NoticeDay(c)
  PROVE  IInv'
<1>1. PICK u \in Wishes[c] :
        /\ wish' = [wish EXCEPT ![c] = u]
        /\ segment' = [segment EXCEPT ![c] = @ + (IF u = "start" THEN 1 ELSE 0)]
        /\ ctx' = [ctx EXCEPT ![c] = IF u = "start" THEN Fresh(segment[c] + 1) ELSE @]
  BY DEF NoticeDay
<1>2. UNCHANGED <<today, world, sent, job, answers, used, history>>
      /\ noticed' = [noticed EXCEPT ![c] = @ + 1]
  BY DEF NoticeDay
<1>3. u \in {"continue", "start"}
  BY SceneAssumption
<1>4. Flights' = Flights
  BY <1>2 DEF Flights, FlightsOf
<1> DEFINE y == Fresh(segment[c] + 1)
<1>5. y \in ContextSet /\ y.overlay = {} /\ y.seg = segment[c] + 1
  <2>1. segment[c] + 1 \in Nat
    BY InvParts
  <2> QED BY <2>1 DEF Fresh, ContextSet
<1> HIDE DEF y
<1>6. CASE u = "start"
  <2>1. segment' = [segment EXCEPT ![c] = @ + 1] /\ ctx' = [ctx EXCEPT ![c] = y]
    BY <1>1, <1>6 DEF y
  <2>2. /\ Bounded(Flights, today, world, segment', ctx')
        /\ Apart(Flights, world, segment', ctx')
        /\ Rising(Flights, world, ctx) => Rising(Flights, world, ctx')
    BY <1>5, <2>1, InvParts, FlightsLeft
  <2>3. FlightsBounded' /\ FlightsApart' /\ (Ordered => Ordered')
    BY <1>2, <1>4, <2>2 DEF FlightsBounded, FlightsApart, Ordered
  <2>4. segment' \in [Characters -> Nat] /\ ctx' \in [Characters -> ContextSet]
    BY <1>5, <2>1, InvParts
  <2>5. TypeOK'
    BY <1>1, <1>2, <1>3, <2>4 DEF IInv, TypeOK, history, Wished
  <2>6. \A k \in Characters : ctx'[k].seg = segment'[k] /\ Pair(k, world, ctx'[k], None)
    <3>1. ctx'[c] = y /\ segment'[c] = segment[c] + 1
      BY <2>1, InvParts
    <3>2. Pair(c, world, y, None)
      BY <1>5 DEF IInv, PairsFit, Pair
    <3>3. \A k \in Characters \ {c} : ctx'[k] = ctx[k] /\ segment'[k] = segment[k]
      BY <2>1, InvParts
    <3> QED BY <1>5, <3>1, <3>2, <3>3 DEF IInv, PairsFit
  <2>7. PairsFit'
    BY <1>2, <2>6 DEF IInv, PairsFit
  <2> QED BY <1>2, <2>3, <2>5, <2>7 DEF IInv, history, Alone
<1>7. CASE u = "continue"
  <2>1. segment' = segment /\ ctx' = ctx
    BY <1>1, <1>7, InvParts
  <2>2. TypeOK'
    BY <1>1, <1>2, <1>3, <2>1 DEF IInv, TypeOK, history, Wished
  <2>3. PairsFit' /\ FlightsBounded' /\ FlightsApart' /\ (Ordered => Ordered')
    BY <1>2, <1>4, <2>1
       DEF IInv, PairsFit, FlightsBounded, FlightsApart, Ordered
  <2> QED BY <1>2, <2>2, <2>3 DEF IInv, history, Alone
<1> QED BY <1>3, <1>6, <1>7
LEMMA SendKeeps ==
  ASSUME IInv, NEW c \in Characters,
         NEW kind \in {"chat", "resolve", "open", "join", "keep", "cancel", "transition"},
         NEW channel \in Channels, NEW ask \in Asks \cup {"none"}, NEW place \in Places,
         NEW card \in SUBSET [of : {"pend", "inv"}, id : Nat],
         world.pend[c] # {} => \A k \in card : k.of = "pend",
         Send(c, kind, channel, ask, place, card)
  PROVE  IInv'
<1> DEFINE r == [id |-> used + 1, c |-> c, kind |-> kind, channel |-> channel, ask |-> ask,
                 place |-> place, card |-> card, wish |-> wish[c], world |-> world,
                 ctx |-> ctx[c]]
<1>1. /\ sent' = sent \cup {r} /\ used' = used + 1
      /\ raced' = (raced \/ sent \cup job \cup answers # {})
      /\ UNCHANGED <<today, browser, job, answers, ended>>
  BY DEF Send
<1>2. used \in Nat /\ wish[c] \in Wished /\ raced \in BOOLEAN
  BY DEF IInv, TypeOK
<1>3. r \in Request
  BY <1>2, InvParts DEF Request
<1>4. /\ r.c = c /\ r.world = world /\ r.ctx = ctx[c] /\ r.card = card
  OBVIOUS
<1> HIDE DEF r
<1>5. TypeOK'
  <2>1. sent' \in SUBSET Request
    BY <1>1, <1>3, InvParts
  <2>2. used' \in Nat /\ raced' \in BOOLEAN
    BY <1>1, <1>2
  <2> QED BY <1>1, <2>1, <2>2 DEF IInv, TypeOK, browser
<1>6. PairsFit'
  <2>1. CardFits(r) /\ Pair(r.c, r.world, r.ctx, None)
    BY <1>4 DEF IInv, PairsFit, CardFits
  <2>2. \A q \in sent' : CardFits(q) /\ Pair(q.c, q.world, q.ctx, None)
    BY <1>1, <2>1 DEF IInv, PairsFit
  <2> QED BY <1>1, <2>2 DEF IInv, PairsFit, browser
<1> DEFINE h == Flight(c, world, ctx[c], ctx[c].rev + 1)
           G == Flights \cup {h}
<1>7. Flights' = G
  BY <1>1, <1>4 DEF Flights, FlightsOf, OfRequest
<1>8. /\ Bounded(G, today, world, segment, ctx) /\ Apart(G, world, segment, ctx)
      /\ Rising(Flights, world, ctx) => Rising(G, world, ctx)
  <2>1. \A k \in Characters : ctx[k].seg = segment[k] /\ Pair(k, world, ctx[k], None)
    BY DEF IInv, PairsFit
  <2> QED BY <2>1, InvParts, FlightsSend
<1> HIDE DEF G
<1>9. FlightsBounded' /\ FlightsApart' /\ (Ordered => Ordered')
  BY <1>1, <1>7, <1>8 DEF FlightsBounded, FlightsApart, Ordered, browser
<1>10. raced' \/ Alone'
  BY <1>1 DEF Alone
<1> QED BY <1>1, <1>5, <1>6, <1>9, <1>10 DEF IInv

LEMMA SendChatKeeps ==
  ASSUME IInv, NEW c \in Characters, SendChat(c)
  PROVE  IInv'
<1>1. PICK channel \in {"text", "in_person"}, ask \in Asks, place \in Places :
        Send(c, "chat", channel, ask, place, {})
  BY DEF SendChat
<1> DEFINE card == {}
           kind == "chat"
<1>2. /\ kind \in {"chat", "resolve", "open", "join", "keep", "cancel", "transition"}
      /\ channel \in Channels /\ ask \in Asks \cup {"none"}
      /\ card \in SUBSET [of : {"pend", "inv"}, id : Nat] /\ \A k \in card : k.of = "pend"
  BY DEF Channels
<1>3. Send(c, kind, channel, ask, place, card)
  BY <1>1
<1> HIDE DEF card, kind
<1> QED BY <1>2, <1>3, SendKeeps

LEMMA SendActionKeeps ==
  ASSUME IInv, NEW c \in Characters, SendAction(c)
  PROVE  IInv'
<1> DEFINE card(kind) == IF kind \in {"keep", "cancel"} THEN Card(c) ELSE {}
<1>1. PICK kind \in Kinds[c] : Send(c, kind, "text", "none", world.at[c], card(kind))
  BY DEF SendAction
<1>2. kind \in {"chat", "resolve", "open", "join", "keep", "cancel", "transition"}
  BY SceneAssumption
<1>3. world.at[c] \in Places /\ world.pend[c] \in SUBSET Meeting
      /\ ctx[c].inv \in SUBSET Invitation
  BY InvParts, WorldParts DEF ContextSet
<1>4. Card(c) \in SUBSET [of : {"pend", "inv"}, id : Nat]
      /\ (world.pend[c] # {} => \A k \in Card(c) : k.of = "pend")
  BY <1>3 DEF Card, Meeting, Invitation
<1>5. card(kind) \in SUBSET [of : {"pend", "inv"}, id : Nat]
      /\ (world.pend[c] # {} => \A k \in card(kind) : k.of = "pend")
  BY <1>4
<1> DEFINE channel == "text"
           ask == "none"
           place == world.at[c]
           q == card(kind)
<1>6. /\ channel \in Channels /\ ask \in Asks \cup {"none"} /\ place \in Places
      /\ Send(c, kind, channel, ask, place, q)
  BY <1>1, <1>3 DEF Channels
<1> HIDE DEF channel, ask, place, q
<1>7. q \in SUBSET [of : {"pend", "inv"}, id : Nat]
      /\ (world.pend[c] # {} => \A k \in q : k.of = "pend")
  BY <1>5 DEF q
<1> QED BY <1>2, <1>6, <1>7, SendKeeps

\* What the invariant says of an answer on its way.
LEMMA AnswerParts ==
  ASSUME IInv, NEW a \in answers
  PROVE  /\ a \in Reply /\ a.c \in Characters /\ a.world \in WorldSet
         /\ a.ctx \in SUBSET ContextSet /\ a.ends \in BOOLEAN
         /\ OfReply(a) \in Flights /\ OfReply(a).c = a.c /\ OfReply(a).w = a.world
         /\ Arranged(a.world)
<1>1. a \in Reply /\ Arranged(a.world)
  BY DEF IInv, TypeOK, PairsFit
<1>2. OfReply(a) \in Flights
  BY DEF Flights, FlightsOf
<1> QED BY <1>1, <1>2, ReplyParts, ReplyFlight

LEMMA LoseKeeps ==
  ASSUME IInv, NEW a \in answers, Lose(a)
  PROVE  IInv'
<1>1. answers' = answers \ {a} /\ UNCHANGED <<today, browser, sent, job, used, history>>
  BY DEF Lose
<1>2. \A g \in Flights' : g \in Flights
  BY <1>1 DEF Flights, FlightsOf
<1>3. /\ sent' \in SUBSET sent /\ job' \in SUBSET Work /\ \A j, k \in job' : j = k
      /\ answers' \in SUBSET Reply
  BY <1>1 DEF IInv, TypeOK
<1>4. Alone => Alone'
  BY <1>1 DEF Alone
<1>5. /\ \A j \in job' : /\ j.r.kind = "chat" /\ (j.r.wish = "start" => j.x.overlay = {})
                         /\ Pair(j.r.c, j.w, j.x, j.r.wish)
      /\ \A b \in answers' : /\ \A x \in b.ctx : Pair(b.c, b.world, x, None)
                             /\ \A x, y \in b.ctx : x = y
                             /\ Arranged(b.world)
                             /\ b.ctx = {} => b.world.pend[b.c] = {}
  BY <1>1 DEF IInv, PairsFit
<1> QED BY <1>1, <1>2, <1>3, <1>4, <1>5, ServeKeeps

LEMMA DeliverKeeps ==
  ASSUME IInv, NEW a \in answers, Deliver(a)
  PROVE  IInv'
<1> DEFINE g == OfReply(a)
           applied == Newer(a.world) /\ \A x \in a.ctx : Fits(x, a.c)
<1>1. /\ answers' = answers \ {a}
      /\ wish' = IF \A x \in a.ctx : x.seg = segment[a.c]
                 THEN [wish EXCEPT ![a.c] = None] ELSE wish
      /\ UNCHANGED <<today, segment, noticed, sent, job, used, raced>>
  BY DEF Deliver
<1>2. /\ a \in Reply /\ a.c \in Characters /\ a.world \in WorldSet
      /\ a.ctx \in SUBSET ContextSet
      /\ g \in Flights /\ g.c = a.c /\ g.w = a.world /\ Arranged(a.world)
  BY AnswerParts
<1>3. /\ \A x \in a.ctx : Pair(a.c, a.world, x, None)
      /\ \A x, y \in a.ctx : x = y
      /\ a.ctx = {} => a.world.pend[a.c] = {}
  BY DEF IInv, PairsFit
<1>4. Flights' \in SUBSET Flights
  BY <1>1 DEF Flights, FlightsOf
<1>5. wish' \in [Characters -> Wished]
  BY <1>1, <1>2 DEF IInv, TypeOK, Wished
<1>6. Alone => Alone' /\ Flights' = {}
  <2> SUFFICES ASSUME Alone PROVE Alone' /\ Flights' = {}
    OBVIOUS
  <2>1. sent = {} /\ job = {} /\ answers = {a}
    BY DEF Alone
  <2>2. sent' = {} /\ job' = {} /\ answers' = {}
    BY <1>1, <2>1
  <2> QED BY <2>2 DEF Alone, Flights, FlightsOf
<1>7. CASE ~applied
  <2>1. UNCHANGED <<world, ctx, ended>>
    BY <1>7 DEF Deliver
  <2>2. TypeOK'
    BY <1>1, <1>5, <2>1 DEF IInv, TypeOK
  <2>3. PairsFit'
    BY <1>1, <2>1 DEF IInv, PairsFit
  <2>4. FlightsBounded' /\ FlightsApart' /\ (Ordered => Ordered')
    <3>1. /\ Bounded(Flights', today, world, segment, ctx)
          /\ Apart(Flights', world, segment, ctx)
          /\ Rising(Flights, world, ctx) => Rising(Flights', world, ctx)
      BY <1>4, InvParts DEF Bounded, Apart, Rising
    <3> QED BY <1>1, <2>1, <3>1 DEF FlightsBounded, FlightsApart, Ordered
  <2> QED BY <1>1, <1>6, <2>2, <2>3, <2>4 DEF IInv
<1>8. CASE applied
  <2> DEFINE v == a.world
  <2>1. /\ world' = v
        /\ ctx' = IF a.ctx = {} THEN ctx ELSE [ctx EXCEPT ![a.c] = CHOOSE x \in a.ctx : TRUE]
        /\ ended' = ended \cup {p.id : p \in {p \in world.pend[a.c] \ a.world.pend[a.c] :
                                               a.ends \/ a.world.day = world.day}}
    BY <1>8 DEF Deliver
  <2>2. v.day >= world.day /\ (v.day = world.day => v.rev >= world.rev)
    BY <1>2, <1>8, InvParts, NewerFacts DEF Newer
  <2>3. /\ ctx' \in [Characters -> ContextSet]
        /\ \A k \in Characters \ {a.c} : ctx'[k] = ctx[k]
        /\ \/ a.ctx = {} /\ ctx'[a.c] = ctx[a.c]
           \/ a.ctx = {ctx'[a.c]} /\ Fits(ctx'[a.c], a.c)
    <3>1. CASE a.ctx = {}
      BY <2>1, <3>1, InvParts
    <3>2. CASE a.ctx # {}
      <4>1. PICK x \in a.ctx : ctx' = [ctx EXCEPT ![a.c] = x]
        BY <2>1, <3>2
      <4>2. x \in ContextSet /\ Fits(x, a.c) /\ a.ctx = {x}
        BY <1>2, <1>3, <1>8
      <4> QED BY <1>2, <4>1, <4>2, InvParts
    <3> QED BY <3>1, <3>2
  <2>4. ended' \subseteq Nat
    <3>1. ended \subseteq Nat
      BY DEF IInv, TypeOK
    <3>2. \A p \in world.pend[a.c] : p.id \in Nat
      BY <1>2, InvParts, WorldParts DEF Meeting
    <3> QED BY <2>1, <3>1, <3>2
  <2>5. TypeOK'
    BY <1>1, <1>2, <1>5, <2>1, <2>3, <2>4 DEF IInv, TypeOK
  <2>6. Takes(g, world, ctx, v, ctx', segment)
    <3>1. CASE a.ctx = {}
      <4>1. v.pend[a.c] = {} /\ ctx'[a.c] = ctx[a.c]
        BY <1>3, <2>3, <3>1
      <4> HIDE DEF g
      <4> QED BY <1>2, <2>3, <4>1 DEF Takes
    <3>2. CASE a.ctx # {}
      <4> DEFINE x == ctx'[a.c]
      <4>1. a.ctx = {x} /\ Fits(x, a.c) /\ x \in ContextSet
        BY <1>2, <2>3, <3>2
      <4> HIDE DEF x
      <4>2. g = Flight(a.c, v, x, x.rev)
        BY <1>2, <4>1, ReplyFlight
      <4>3. /\ g.seg = x.seg /\ g.rev = x.rev
            /\ g.days = {v.day} \cup {o.day : o \in x.overlay}
            /\ g.revs = {o.rev : o \in x.overlay}
        BY <4>2 DEF Flight
      <4> HIDE DEF g
      <4>4. Live(g, segment, ctx)
        BY <1>2, <4>1, <4>3 DEF Live, Fits
      <4>5. \A o \in x.overlay : o.day \in g.days /\ o.rev \in g.revs
        BY <4>3
      <4> QED BY <1>2, <2>3, <4>3, <4>4, <4>5 DEF Takes, x
    <3> QED BY <3>1, <3>2
  <2>7. Bounded(Flights', today, v, segment, ctx') /\ Apart(Flights', v, segment, ctx')
    <3> HIDE DEF g, v
    <3>1. v \in WorldSet
      BY <1>2 DEF v
    <3> QED BY <1>2, <1>4, <2>2, <2>3, <2>6, <3>1, InvParts, FlightsTake
  <2>8. PairsFit'
    <3>1. ASSUME NEW k \in Characters
          PROVE  ctx'[k].seg = segment[k] /\ Pair(k, v, ctx'[k], None)
      <4>1. CASE k # a.c
        <5>1. ctx'[k] = ctx[k] /\ k \in Characters \ {g.c}
          BY <1>2, <2>3, <4>1
        <5>2. Pair(k, world, ctx[k], None) /\ ctx[k].seg = segment[k]
          BY DEF IInv, PairsFit
        <5>3. Arranged(g.w) /\ g.w.day >= world.day /\ (g.w.day = world.day => g.w.rev >= world.rev)
          BY <1>2, <2>2
        <5> HIDE DEF g
        <5>4. Pair(k, g.w, ctx[k], None)
          BY <1>2, <5>1, <5>2, <5>3, InvParts, OthersFit
        <5> QED BY <1>2, <5>1, <5>2, <5>4
      <4>2. CASE k = a.c /\ a.ctx = {}
        <5>1. ctx'[k] = ctx[k] /\ v.pend[k] = {}
          BY <1>3, <2>3, <4>2
        <5>2. Pair(k, world, ctx[k], None) /\ ctx[k].seg = segment[k]
          BY DEF IInv, PairsFit
        <5>3. /\ \A o \in ctx[k].overlay : o.day \in Nat /\ o.rev \in Nat
              /\ world.day \in Nat /\ world.rev \in Nat /\ v.day \in Nat /\ v.rev \in Nat
          BY <1>2, InvParts, WorldParts DEF ContextSet, Overlay
        <5>4. \A o \in ctx[k].overlay : o.day <= v.day /\ (o.day = v.day => o.rev <= v.rev)
          BY <2>2, <5>2, <5>3 DEF Pair
        <5> QED BY <1>2, <5>1, <5>2, <5>4 DEF Pair
      <4>3. CASE k = a.c /\ a.ctx # {}
        BY <1>3, <2>3, <4>3 DEF Fits
      <4> QED BY <4>1, <4>2, <4>3
    <3> QED BY <1>1, <2>1, <3>1 DEF IInv, PairsFit
  <2>9. FlightsBounded' /\ FlightsApart'
    BY <1>1, <2>1, <2>7 DEF FlightsBounded, FlightsApart
  <2>10. Alone /\ Ordered => Ordered'
    <3> SUFFICES ASSUME Alone, Ordered PROVE Ordered'
      OBVIOUS
    <3>1. Flights' = {}
      BY <1>6
    <3>2. g.w.rev >= world.rev /\ \A n \in g.revs : n <= g.w.rev
      BY <1>2 DEF Ordered, Rising
    <3>3. world.rev \in Nat /\ v.rev \in Nat
          /\ \A k \in Characters : \A o \in ctx[k].overlay : o.rev \in Nat /\ o.rev <= world.rev
      BY <1>2, InvParts, WorldParts DEF Ordered, Rising, ContextSet, Overlay
    <3>4. \A k \in Characters : \A o \in ctx'[k].overlay : o.rev <= v.rev
      <4> HIDE DEF g
      <4> QED BY <1>2, <2>6, <3>2, <3>3 DEF Takes
    <3> QED BY <2>1, <3>1, <3>4 DEF Ordered, Rising
  <2> QED BY <1>1, <1>6, <2>5, <2>8, <2>9, <2>10 DEF IInv
<1> QED BY <1>7, <1>8
\* How a request on its way is read when it is served.
LEMMA ServedFacts ==
  ASSUME IInv, NEW r \in sent
  PROVE  LET w == World(r, today)
             x == Settled(Context(r), w, r.c)
             f == OfRequest(r)
         IN /\ r \in Request /\ w \in WorldSet /\ x \in ContextSet
            /\ Onward(r.c, r.world, w) /\ w.day = today
            /\ Pair(r.c, w, x, r.wish) /\ (r.wish = "start" => x.overlay = {})
            /\ r.wish = "start" => w.pend[r.c] = {}
            /\ \/ w.pend[r.c] \subseteq r.world.pend[r.c]
               \/ \E o \in x.overlay : w.pend[r.c] = o.pend
            /\ x.overlay \subseteq r.ctx.overlay
            /\ f \in Flights /\ f \in FlightSet /\ f.c = r.c /\ f.w = r.world
            /\ f.seg = x.seg /\ f.rev = x.rev + 1
            /\ \A o \in x.overlay : o.day \in f.days /\ o.rev \in f.revs
<1> DEFINE w == World(r, today)
           x == Settled(Context(r), w, r.c)
           f == OfRequest(r)
<1>1. r \in Request /\ Pair(r.c, r.world, r.ctx, None) /\ today \in 1..MaxDay
  BY InvParts DEF IInv, PairsFit
<1>2. f \in Flights
  BY DEF Flights, FlightsOf
<1>3. /\ f \in FlightSet /\ f.c = r.c /\ f.w = r.world /\ f.seg = r.ctx.seg
      /\ f.rev = r.ctx.rev + 1
      /\ f.days = {r.world.day} \cup {o.day : o \in r.ctx.overlay}
      /\ f.revs = {o.rev : o \in r.ctx.overlay}
  BY <1>1, RequestParts, FlightFacts DEF OfRequest
<1> HIDE DEF f
<1>4. r.world.day <= today
  BY <1>2, <1>3, InvParts DEF Bounded
<1>5. /\ Onward(r.c, r.world, w) /\ Arranged(w) /\ w.day = today
      /\ Pair(r.c, w, Context(r), r.wish)
      /\ r.wish = "start" => w.pend[r.c] = {}
      /\ \/ w.pend[r.c] \subseteq r.world.pend[r.c]
         \/ \E o \in Context(r).overlay : w.pend[r.c] = o.pend
  BY <1>1, <1>4, WorldFacts
<1>6. /\ Context(r) \in ContextSet /\ Context(r).seg = r.ctx.seg /\ Context(r).rev = r.ctx.rev
      /\ r.wish # "start" => Context(r) = r.ctx
      /\ r.wish = "start" => Context(r).overlay = {}
  BY <1>1, ContextFacts
<1> HIDE DEF w
<1>7. /\ x \in ContextSet /\ x.seg = Context(r).seg /\ x.rev = Context(r).rev
      /\ x.epoch = Context(r).epoch /\ x.overlay = Context(r).overlay
  BY <1>6, SettledFacts
<1> HIDE DEF x
<1>8. Pair(r.c, w, x, r.wish)
  BY <1>5, <1>7 DEF Pair
<1>9. x.overlay \subseteq r.ctx.overlay
  BY <1>6, <1>7
<1>10. w \in WorldSet
  BY <1>5 DEF Onward
<1> QED BY <1>1, <1>2, <1>3, <1>5, <1>6, <1>7, <1>8, <1>9, <1>10 DEF w, x, f

LEMMA AnsweredFits ==
  ASSUME NEW r, NEW w, NEW x, NEW a, Answered(r, w, x, a)
  PROVE  /\ a \in Reply
         /\ \A y \in a.ctx : Pair(a.c, a.world, y, None)
         /\ \A y, z \in a.ctx : y = z
         /\ Arranged(a.world) /\ a.ctx # {}
BY DEF Answered, Pair

LEMMA SceneActionKeeps ==
  ASSUME IInv, NEW r \in sent, SceneAction(r)
  PROVE  IInv'
<1> DEFINE w == World(r, today)
           x == Settled(Context(r), w, r.c)
           f == OfRequest(r)
           a == Acted(r, w, x)
<1>1. /\ r.kind \notin {"chat", "transition"} /\ sent' = sent \ {r}
      /\ answers' = IF ~Stale(r, today) /\ Current(r, w, x) THEN answers \cup {a} ELSE answers
      /\ UNCHANGED <<today, browser, job, used, history>>
  BY DEF SceneAction
<1>2. Alone => Alone'
  <2>1. job = {}
    BY DEF SceneAction
  <2>2. Alone => answers = {} /\ sent' = {}
    BY <1>1 DEF Alone
  <2>3. answers = {} => \A b, e \in answers' : b = e
    BY <1>1
  <2> QED BY <1>1, <2>1, <2>2, <2>3 DEF Alone
<1>3. /\ r \in Request /\ w \in WorldSet /\ x \in ContextSet
      /\ Onward(r.c, r.world, w) /\ w.day = today
      /\ Pair(r.c, w, x, r.wish) /\ (r.wish = "start" => x.overlay = {})
      /\ f \in Flights /\ f \in FlightSet /\ f.c = r.c /\ f.w = r.world
      /\ f.seg = x.seg /\ f.rev = x.rev + 1
      /\ \A o \in x.overlay : o.day \in f.days /\ o.rev \in f.revs
  BY ServedFacts
<1>4. Current(r, w, x) => Answered(r, w, x, a)
  <2>1. CardFits(r)
    BY DEF IInv, PairsFit
  <2> HIDE DEF w, x
  <2> QED BY <1>1, <1>3, <2>1, ActedFacts
<1> HIDE DEF w, x, f, a
<1>5. Current(r, w, x) => Advances(f, OfReply(a), today)
  <2>1. today \in Nat
    BY InvParts
  <2>2. w.day <= today
    BY <1>3, <2>1
  <2> QED BY <1>3, <1>4, <2>2, AnswerAdvances
<1>6. \A g \in Flights' : g \in Flights \/ \E h \in Flights : Advances(h, g, today)
  BY <1>1, <1>3, <1>5 DEF Flights, FlightsOf
<1>7. answers' \in SUBSET Reply
      /\ \A b \in answers' : /\ \A y \in b.ctx : Pair(b.c, b.world, y, None)
                             /\ \A y, z \in b.ctx : y = z
                             /\ Arranged(b.world)
                             /\ b.ctx = {} => b.world.pend[b.c] = {}
  <2>1. \A b \in answers' : b \in answers \/ Answered(r, w, x, b)
    BY <1>1, <1>4
  <2>2. ASSUME NEW b \in answers', Answered(r, w, x, b)
        PROVE  /\ b \in Reply
               /\ \A y \in b.ctx : Pair(b.c, b.world, y, None)
               /\ \A y, z \in b.ctx : y = z
               /\ Arranged(b.world)
               /\ b.ctx # {}
    BY <2>2, AnsweredFits
  <2>3. ASSUME NEW b \in answers'
        PROVE  /\ b \in Reply
               /\ \A y \in b.ctx : Pair(b.c, b.world, y, None)
               /\ \A y, z \in b.ctx : y = z
               /\ Arranged(b.world)
               /\ b.ctx = {} => b.world.pend[b.c] = {}
    <3>1. CASE b \in answers
      BY <3>1 DEF IInv, TypeOK, PairsFit
    <3>2. CASE b \notin answers
      BY <2>1, <2>2, <3>2
    <3> QED BY <3>1, <3>2
  <2> QED BY <2>3
<1>8. /\ sent' \in SUBSET sent /\ job' \in SUBSET Work /\ \A j, k \in job' : j = k
      /\ \A j \in job' : /\ j.r.kind = "chat" /\ (j.r.wish = "start" => j.x.overlay = {})
                         /\ Pair(j.r.c, j.w, j.x, j.r.wish)
  BY <1>1 DEF IInv, TypeOK, PairsFit
<1> QED BY <1>1, <1>2, <1>6, <1>7, <1>8, ServeKeeps

LEMMA TransitionKeeps ==
  ASSUME IInv, NEW r \in sent, Transition(r)
  PROVE  IInv'
<1> DEFINE n == Normalized(r.world, today)
           v == Joined(n, r.c)
           a == Answer(r, v, {})
           f == OfRequest(r)
<1>1. /\ sent' = sent \ {r} /\ answers' = answers \cup {a} /\ job = {}
      /\ UNCHANGED <<today, browser, job, used, history>>
  BY DEF Transition
<1>2. Alone => Alone'
  <2>1. Alone => answers = {} /\ sent' = {}
    BY <1>1 DEF Alone
  <2>2. answers = {} => \A b, e \in answers' : b = e
    BY <1>1
  <2> QED BY <1>1, <2>1, <2>2 DEF Alone
<1>3. /\ r \in Request /\ r.c \in Characters /\ r.world \in WorldSet
      /\ f \in Flights /\ f \in FlightSet /\ f.c = r.c /\ f.w = r.world
      /\ today \in 1..MaxDay /\ today \in Nat
  BY ServedFacts, RequestParts, InvParts
<1>4. Arranged(r.world) /\ r.world.day <= today
  BY <1>3, InvParts DEF IInv, PairsFit, Pair, Bounded
<1>5. Onward(r.c, r.world, n) /\ Arranged(n) /\ n.day = today
  BY <1>3, <1>4, ReadFacts
<1>6. Onward(r.c, n, v) /\ Arranged(v) /\ v.day = today /\ v.pend[r.c] = {}
  <2>1. n \in WorldSet
    BY <1>5 DEF Onward
  <2> HIDE DEF n
  <2> QED BY <1>3, <1>5, <2>1, JoinedFacts
<1>7. Onward(r.c, r.world, v) /\ v \in WorldSet
  <2> HIDE DEF n, v
  <2>1. Onward(r.c, r.world, v)
    BY <1>3, <1>5, <1>6, OnwardOnward
  <2> QED BY <2>1 DEF Onward
<1> HIDE DEF n, v, f
<1>8. /\ a = [c |-> a.c, world |-> a.world, ctx |-> a.ctx, ends |-> a.ends]
      /\ a.c = r.c /\ a.world = v /\ a.ctx = {} /\ a.ends \in BOOLEAN
  BY DEF Answer
<1> HIDE DEF a
<1>9. a \in Reply
  BY <1>3, <1>7, <1>8 DEF Reply
<1>10. Advances(f, OfReply(a), today)
  <2> DEFINE g == OfReply(a)
  <2>1. g = Worldly(r.c, v)
    BY <1>8, <1>9, ReplyFlight
  <2>2. g.c = r.c /\ g.w = v /\ g.seg = 0 /\ g.rev = 0 /\ g.days = {v.day} /\ g.revs = {}
    BY <2>1 DEF Worldly
  <2> HIDE DEF g
  <2>3. v.day <= today
    BY <1>3, <1>6
  <2> QED BY <1>3, <1>6, <1>7, <2>2, <2>3 DEF Advances, g
<1>11. \A g \in Flights' : g \in Flights \/ \E h \in Flights : Advances(h, g, today)
  BY <1>1, <1>3, <1>10 DEF Flights, FlightsOf
<1>12. answers' \in SUBSET Reply
       /\ \A b \in answers' : /\ \A y \in b.ctx : Pair(b.c, b.world, y, None)
                              /\ \A y, z \in b.ctx : y = z
                              /\ Arranged(b.world)
                              /\ b.ctx = {} => b.world.pend[b.c] = {}
  BY <1>1, <1>6, <1>8, <1>9 DEF IInv, TypeOK, PairsFit
<1>13. /\ sent' \in SUBSET sent /\ job' \in SUBSET Work /\ \A j, k \in job' : j = k
       /\ \A j \in job' : /\ j.r.kind = "chat" /\ (j.r.wish = "start" => j.x.overlay = {})
                          /\ Pair(j.r.c, j.w, j.x, j.r.wish)
  BY <1>1 DEF IInv, TypeOK, PairsFit
<1> QED BY <1>1, <1>2, <1>11, <1>12, <1>13, ServeKeeps

LEMMA AdmitKeeps ==
  ASSUME IInv, NEW r \in sent, Admit(r)
  PROVE  IInv'
<1> DEFINE w == World(r, today)
           x == Settled(Context(r), w, r.c)
           f == OfRequest(r)
           k == [r |-> r, x |-> x, w |-> w, begun |-> FALSE]
<1>1. /\ r.kind = "chat" /\ sent' = sent \ {r} /\ job = {} /\ job' \in {{}, {k}}
      /\ UNCHANGED <<today, browser, answers, used, history>>
  BY DEF Admit
<1>2. Alone => Alone'
  BY <1>1 DEF Alone
<1>3. /\ r \in Request /\ w \in WorldSet /\ x \in ContextSet
      /\ Onward(r.c, r.world, w) /\ w.day = today
      /\ Pair(r.c, w, x, r.wish) /\ (r.wish = "start" => x.overlay = {})
      /\ f \in Flights /\ f \in FlightSet /\ f.c = r.c /\ f.w = r.world
      /\ f.seg = x.seg /\ f.rev = x.rev + 1
      /\ \A o \in x.overlay : o.day \in f.days /\ o.rev \in f.revs
  BY ServedFacts
<1> HIDE DEF w, x, f
<1>4. k \in Work /\ k.r = r /\ k.x = x /\ k.w = w
  BY <1>3 DEF Work
<1> HIDE DEF k
<1>5. Advances(f, OfWork(k), today)
  <2> DEFINE g == OfWork(k)
  <2>1. x.rev + 1 \in Nat /\ r.c \in Characters /\ today \in Nat
    BY <1>3, RequestParts, InvParts DEF ContextSet
  <2>2. /\ g.c = r.c /\ g.w = w /\ g.seg = x.seg /\ g.rev = x.rev + 1
        /\ g.days = {w.day} \cup {o.day : o \in x.overlay}
        /\ g.revs = {o.rev : o \in x.overlay}
    BY <1>3, <1>4, <2>1, FlightFacts DEF OfWork
  <2> HIDE DEF g
  <2> QED BY <1>3, <2>1, <2>2 DEF Advances, g
<1>6. \A g \in Flights' : g \in Flights \/ \E h \in Flights : Advances(h, g, today)
  BY <1>1, <1>3, <1>5 DEF Flights, FlightsOf
<1>7. /\ sent' \in SUBSET sent /\ job' \in SUBSET Work /\ \A i, j \in job' : i = j
      /\ \A j \in job' : /\ j.r.kind = "chat" /\ (j.r.wish = "start" => j.x.overlay = {})
                         /\ Pair(j.r.c, j.w, j.x, j.r.wish)
  BY <1>1, <1>3, <1>4
<1>8. answers' \in SUBSET Reply
      /\ \A b \in answers' : /\ \A y \in b.ctx : Pair(b.c, b.world, y, None)
                             /\ \A y, z \in b.ctx : y = z
                             /\ Arranged(b.world)
                             /\ b.ctx = {} => b.world.pend[b.c] = {}
  BY <1>1 DEF IInv, TypeOK, PairsFit
<1> QED BY <1>1, <1>2, <1>6, <1>7, <1>8, ServeKeeps
\* What the invariant says of the work under way.
LEMMA JobParts ==
  ASSUME IInv, NEW j \in job
  PROVE  LET f == OfWork(j)
         IN /\ j \in Work /\ job = {j} /\ j.r.kind = "chat"
            /\ (j.r.wish = "start" => j.x.overlay = {}) /\ Pair(j.r.c, j.w, j.x, j.r.wish)
            /\ j.r \in Request /\ j.w \in WorldSet /\ j.x \in ContextSet
            /\ f \in Flights /\ f \in FlightSet /\ f.c = j.r.c /\ f.w = j.w
            /\ f.seg = j.x.seg /\ f.rev = j.x.rev + 1
            /\ f.days = {j.w.day} \cup {o.day : o \in j.x.overlay}
            /\ f.revs = {o.rev : o \in j.x.overlay}
            /\ j.w.day <= today
<1> DEFINE f == OfWork(j)
<1>1. /\ j \in Work /\ job = {j} /\ j.r.kind = "chat"
      /\ (j.r.wish = "start" => j.x.overlay = {}) /\ Pair(j.r.c, j.w, j.x, j.r.wish)
  BY DEF IInv, TypeOK, PairsFit
<1>2. f \in Flights
  BY DEF Flights, FlightsOf
<1>3. /\ f \in FlightSet /\ f.c = j.r.c /\ f.w = j.w
      /\ f.seg = j.x.seg /\ f.rev = j.x.rev + 1
      /\ f.days = {j.w.day} \cup {o.day : o \in j.x.overlay}
      /\ f.revs = {o.rev : o \in j.x.overlay}
  BY <1>1, WorkParts, FlightFacts DEF OfWork
<1> HIDE DEF f
<1>4. j.w.day <= today
  BY <1>2, <1>3, InvParts DEF Bounded
<1> QED BY <1>1, <1>2, <1>3, <1>4, WorkParts DEF f

LEMMA BeginKeeps ==
  ASSUME IInv, Begin
  PROVE  IInv'
<1>1. PICK j \in job :
        /\ job' = {[j EXCEPT !.begun = TRUE, !.w = [Normalized(j.w, today) EXCEPT !.rev = @ + 1]]}
        /\ UNCHANGED <<today, browser, sent, answers, used, history>>
  BY DEF Begin
<1> DEFINE c == j.r.c
           n == Normalized(j.w, today)
           v == [n EXCEPT !.rev = @ + 1]
           f == OfWork(j)
           k == [j EXCEPT !.begun = TRUE, !.w = v]
<1>2. Alone => Alone'
  BY <1>1 DEF Alone
<1>3. /\ j \in Work /\ j.r.kind = "chat"
      /\ (j.r.wish = "start" => j.x.overlay = {}) /\ Pair(c, j.w, j.x, j.r.wish)
      /\ j.r \in Request /\ j.w \in WorldSet /\ j.x \in ContextSet
      /\ f \in Flights /\ f \in FlightSet /\ f.c = c /\ f.w = j.w
      /\ f.seg = j.x.seg /\ f.rev = j.x.rev + 1
      /\ f.days = {j.w.day} \cup {o.day : o \in j.x.overlay}
      /\ f.revs = {o.rev : o \in j.x.overlay}
      /\ j.w.day <= today
  BY JobParts
<1>4. c \in Characters /\ today \in 1..MaxDay /\ today \in Nat /\ Arranged(j.w)
  BY <1>3, RequestParts, InvParts DEF Pair
<1>5. Onward(c, j.w, n) /\ Arranged(n) /\ n.day = today /\ (n.pend[c] = {} \/ n = j.w)
  BY <1>3, <1>4, ReadFacts
<1>6. Onward(c, n, v) /\ Arranged(v) /\ v.day = today /\ v.pend = n.pend
  <2>1. n \in WorldSet
    BY <1>5 DEF Onward
  <2> HIDE DEF n
  <2> QED BY <1>4, <1>5, <2>1, RaisedFacts
<1>7. Onward(c, j.w, v) /\ v \in WorldSet
  <2> HIDE DEF n, v
  <2>1. Onward(c, j.w, v)
    BY <1>3, <1>4, <1>5, <1>6, OnwardOnward
  <2> QED BY <2>1 DEF Onward
<1>8. Pair(c, v, j.x, j.r.wish)
  <2> HIDE DEF c, n, v
  <2>1. CASE n = j.w
    <3>1. v.day = j.w.day /\ v.rev >= j.w.rev /\ v.pend = j.w.pend
      BY <1>5, <1>6, <1>7, <2>1 DEF Onward
    <3> QED BY <1>3, <1>4, <1>6, <1>7, <3>1, PairOnward
  <2>2. CASE n # j.w /\ j.w.day # today
    <3>1. v.pend[c] = {} /\ v.day = today
      BY <1>5, <1>6, <2>2
    <3>2. \A o \in j.x.overlay : o.day <= j.w.day /\ o.day \in Nat /\ j.w.day \in Nat
      BY <1>3, WorldParts DEF Pair, ContextSet, Overlay
    <3>3. \A o \in j.x.overlay : o.day <= v.day /\ o.day # v.day
      BY <1>3, <1>4, <2>2, <3>1, <3>2
    <3> QED BY <1>3, <1>6, <3>1, <3>3 DEF Pair
  <2>3. n = j.w \/ j.w.day # today
    BY DEF n, Normalized
  <2> QED BY <2>1, <2>2, <2>3
<1> HIDE DEF c, n, v, f
<1>9. k \in Work /\ k.r = j.r /\ k.x = j.x /\ k.w = v
  BY <1>3, <1>7 DEF Work
<1> HIDE DEF k
<1>10. Advances(f, OfWork(k), today)
  <2> DEFINE g == OfWork(k)
  <2>1. /\ g.c = c /\ g.w = v /\ g.seg = j.x.seg /\ g.rev = j.x.rev + 1
        /\ g.days = {v.day} \cup {o.day : o \in j.x.overlay}
        /\ g.revs = {o.rev : o \in j.x.overlay}
    BY <1>9, WorkParts, FlightFacts DEF OfWork, c
  <2> HIDE DEF g
  <2> QED BY <1>3, <1>4, <1>6, <1>7, <2>1 DEF Advances, g
<1>11. job' = {k}
  BY <1>1 DEF k, v, n
<1>12. \A g \in Flights' : g \in Flights \/ \E h \in Flights : Advances(h, g, today)
  BY <1>1, <1>3, <1>10, <1>11 DEF Flights, FlightsOf
<1>13. /\ sent' \in SUBSET sent /\ job' \in SUBSET Work /\ \A i, m \in job' : i = m
       /\ \A m \in job' : /\ m.r.kind = "chat" /\ (m.r.wish = "start" => m.x.overlay = {})
                          /\ Pair(m.r.c, m.w, m.x, m.r.wish)
  BY <1>1, <1>3, <1>8, <1>9, <1>11 DEF c
<1>14. answers' \in SUBSET Reply
       /\ \A b \in answers' : /\ \A y \in b.ctx : Pair(b.c, b.world, y, None)
                              /\ \A y, z \in b.ctx : y = z
                              /\ Arranged(b.world)
                              /\ b.ctx = {} => b.world.pend[b.c] = {}
  BY <1>1 DEF IInv, TypeOK, PairsFit
<1> QED BY <1>1, <1>2, <1>12, <1>13, <1>14, ServeKeeps

LEMMA FailsKeeps ==
  ASSUME IInv, Fails
  PROVE  IInv'
<1>1. job' = {} /\ UNCHANGED <<today, browser, sent, answers, used, history>>
  BY DEF Fails
<1>2. Alone => Alone'
  BY <1>1 DEF Alone
<1>3. \A g \in Flights' : g \in Flights
  BY <1>1 DEF Flights, FlightsOf
<1>4. /\ sent' \in SUBSET sent /\ job' \in SUBSET Work /\ \A i, m \in job' : i = m
      /\ \A m \in job' : /\ m.r.kind = "chat" /\ (m.r.wish = "start" => m.x.overlay = {})
                         /\ Pair(m.r.c, m.w, m.x, m.r.wish)
  BY <1>1
<1>5. answers' \in SUBSET Reply
      /\ \A b \in answers' : /\ \A y \in b.ctx : Pair(b.c, b.world, y, None)
                             /\ \A y, z \in b.ctx : y = z
                             /\ Arranged(b.world)
                             /\ b.ctx = {} => b.world.pend[b.c] = {}
  BY <1>1 DEF IInv, TypeOK, PairsFit
<1> QED BY <1>1, <1>2, <1>3, <1>4, <1>5, ServeKeeps

\* The places and times a chat can be about.
LEMMA IntentFacts ==
  ASSUME NEW j \in Work, NEW i \in Intent(j.r, j.x)
  PROVE  i.place \in Places /\ i.later \in BOOLEAN
<1>1. j.r.place \in Places /\ \A e \in j.x.inv : e.place \in Places
  BY WorkParts, RequestParts DEF ContextSet, Invitation
<1>2. CASE j.r.ask \in {"cancel", "defer"}
  <2> DEFINE later == j.r.ask = "defer"
  <2>1. PICK e \in j.x.inv : i = [op |-> j.r.ask, place |-> e.place, later |-> later]
    BY <1>2, Zenon DEF Intent, Active
  <2>2. later \in BOOLEAN
    OBVIOUS
  <2> HIDE DEF later
  <2> QED BY <1>1, <2>1, <2>2
<1>3. CASE j.r.ask \notin {"cancel", "defer"}
  <2> DEFINE later == j.r.ask = "later"
  <2>1. i = [op |-> "invite", place |-> j.r.place, later |-> later]
    BY <1>3, Zenon DEF Intent
  <2>2. later \in BOOLEAN
    OBVIOUS
  <2> HIDE DEF later
  <2> QED BY <1>1, <2>1, <2>2
<1> QED BY <1>2, <1>3

\* What finishing a chat sends is an answer to it.
LEMMA FinishAnswers ==
  ASSUME IInv, NEW j \in job, Finish
  PROVE  /\ job' = {} /\ UNCHANGED <<today, browser, sent, used, history>>
         /\ \E a : Answered(j.r, j.w, j.x, a) /\ answers' = answers \cup {a}
<1>1. /\ j \in Work /\ job = {j} /\ j.r.kind = "chat"
      /\ (j.r.wish = "start" => j.x.overlay = {}) /\ Pair(j.r.c, j.w, j.x, j.r.wish)
      /\ j.r \in Request /\ j.w \in WorldSet /\ j.x \in ContextSet
  BY JobParts
<1>2. job' = {} /\ UNCHANGED <<today, browser, sent, used, history>>
  BY DEF Finish
<1>3. CASE \E i \in Intent(j.r, j.x), d \in {"accept", "decline", "defer", "clarify"} :
             answers' = answers \cup {Replied(j, i, d)}
  <2>1. PICK i \in Intent(j.r, j.x), d \in {"accept", "decline", "defer", "clarify"} :
          answers' = answers \cup {Replied(j, i, d)}
    BY <1>3
  <2>2. i.place \in Places /\ i.later \in BOOLEAN
    BY <1>1, IntentFacts
  <2>3. Answered(j.r, j.w, j.x, Replied(j, i, d))
    BY <1>1, <2>2, RepliedFacts
  <2> QED BY <1>2, <2>1, <2>3
<1>4. CASE ~\E i \in Intent(j.r, j.x), d \in {"accept", "decline", "defer", "clarify"} :
             answers' = answers \cup {Replied(j, i, d)}
  <2> DEFINE inv == {[id |-> j.r.id, place |-> i.place, later |-> i.later,
                      status |-> "proposed"] : i \in {i \in Intent(j.r, j.x) : i.op = "invite"}}
             q == IF inv = {} THEN j.x.inv ELSE inv
             a == Answer(j.r, j.w, {Signed(j.r, [j.x EXCEPT !.inv = q], j.w, j.r.channel, {})})
  <2>1. answers' = answers \cup {a}
    BY <1>1, <1>4 DEF Finish
  <2>2. inv \in SUBSET Invitation
    BY <1>1, WorkParts, IntentFacts DEF Invitation
  <2>3. q \in SUBSET Invitation
    BY <1>1, <2>2 DEF ContextSet
  <2> HIDE DEF q
  <2>4. Answered(j.r, j.w, j.x, a)
    BY <1>1, <2>3, SaidFacts
  <2> QED BY <1>2, <2>1, <2>4
<1> QED BY <1>3, <1>4

LEMMA FinishKeeps ==
  ASSUME IInv, Finish
  PROVE  IInv'
<1>1. PICK j \in job : TRUE
  BY DEF Finish
<1>2. job' = {} /\ UNCHANGED <<today, browser, sent, used, history>>
  BY FinishAnswers
<1>3. PICK a : Answered(j.r, j.w, j.x, a) /\ answers' = answers \cup {a}
  BY FinishAnswers
<1> DEFINE f == OfWork(j)
<1>4. /\ j.r \in Request /\ j.w \in WorldSet /\ j.x \in ContextSet
      /\ f \in Flights /\ f \in FlightSet /\ f.c = j.r.c /\ f.w = j.w
      /\ f.seg = j.x.seg /\ f.rev = j.x.rev + 1
      /\ f.days = {j.w.day} \cup {o.day : o \in j.x.overlay}
      /\ f.revs = {o.rev : o \in j.x.overlay}
      /\ j.w.day <= today
  BY JobParts
<1> HIDE DEF f
<1>5. Advances(f, OfReply(a), today)
  <2>1. Onward(j.r.c, f.w, j.w)
    BY <1>4, RequestParts, OnwardStays
  <2>2. \A o \in j.x.overlay : o.day \in f.days /\ o.rev \in f.revs
    BY <1>4
  <2> QED BY <1>3, <1>4, <2>1, <2>2, AnswerAdvances
<1>6. \A g \in Flights' : g \in Flights \/ \E h \in Flights : Advances(h, g, today)
  BY <1>2, <1>3, <1>4, <1>5 DEF Flights, FlightsOf
<1>7. Alone => Alone'
  BY <1>1, <1>2, <1>3 DEF Alone
<1>8. /\ a \in Reply
      /\ \A y \in a.ctx : Pair(a.c, a.world, y, None)
      /\ \A y, z \in a.ctx : y = z
      /\ Arranged(a.world) /\ a.ctx # {}
  BY <1>3, AnsweredFits
<1>9. answers' \in SUBSET Reply
      /\ \A b \in answers' : /\ \A y \in b.ctx : Pair(b.c, b.world, y, None)
                             /\ \A y, z \in b.ctx : y = z
                             /\ Arranged(b.world)
                             /\ b.ctx = {} => b.world.pend[b.c] = {}
  BY <1>3, <1>8 DEF IInv, TypeOK, PairsFit
<1>10. /\ sent' \in SUBSET sent /\ job' \in SUBSET Work /\ \A i, m \in job' : i = m
       /\ \A m \in job' : /\ m.r.kind = "chat" /\ (m.r.wish = "start" => m.x.overlay = {})
                          /\ Pair(m.r.c, m.w, m.x, m.r.wish)
  BY <1>2
<1> QED BY <1>2, <1>6, <1>7, <1>9, <1>10, ServeKeeps

LEMMA StutterKeeps ==
  ASSUME IInv, UNCHANGED vars
  PROVE  IInv'
<1>1. UNCHANGED <<today, world, ctx, segment, wish, noticed, sent, job, answers, used, raced, ended>>
  BY DEF vars, browser, history
<1>2. Flights' = Flights
  BY <1>1 DEF Flights, FlightsOf
<1> QED BY <1>1, <1>2 DEF IInv, TypeOK, PairsFit, FlightsBounded, FlightsApart, Alone, Ordered

LEMMA NextKeeps ==
  ASSUME IInv, [Next]_vars
  PROVE  IInv'
<1>1. CASE Midnight
  BY <1>1, MidnightKeeps
<1>2. ASSUME NEW c \in Characters, NoticeDay(c) \/ SendChat(c) \/ SendAction(c) PROVE IInv'
  BY <1>2, NoticeDayKeeps, SendChatKeeps, SendActionKeeps
<1>3. ASSUME NEW a \in answers, Deliver(a) \/ Lose(a) PROVE IInv'
  BY <1>3, DeliverKeeps, LoseKeeps
<1>4. ASSUME NEW r \in sent, SceneAction(r) \/ Transition(r) \/ Admit(r) PROVE IInv'
  BY <1>4, SceneActionKeeps, TransitionKeeps, AdmitKeeps
<1>5. CASE Begin \/ Fails \/ Finish
  BY <1>5, BeginKeeps, FailsKeeps, FinishKeeps
<1>6. CASE UNCHANGED vars
  BY <1>6, StutterKeeps
<1> QED BY <1>1, <1>2, <1>3, <1>4, <1>5, <1>6 DEF Next

-----------------------------------------------------------------------------
(* The theorems *)

\* The invariant holds in every state, whatever is sent, lost or late.
THEOREM Invariance == Spec => []IInv
BY InitInv, NextKeeps, PTL DEF Spec

\* Who waits for the visitor waits where they agreed to meet, in whatever
\* order the answers of the characters, which share the world, arrive.
THEOREM WaitingStays == Spec => []WaitsWhereAgreed
<1>1. IInv => WaitsWhereAgreed
  BY DEF IInv, PairsFit, Pair, Arranged, WaitsWhereAgreed
<1> QED BY <1>1, Invariance, PTL

\* World and context are taken together or not at all, so within a day no
\* context is newer than the world it is sent with, of the same scene.
THEOREM PackagesFit == Spec => []PairAccepted
<1>1. IInv => PairAccepted
  BY DEF IInv, PairsFit, Pair, PairAccepted
<1> QED BY <1>1, Invariance, PTL

\* With one request at a time the server refuses nothing the browser holds,
\* whatever the day and whichever answers are lost.
THEOREM NeverRefused == Spec => []NeverWedged
<1>1. ASSUME IInv PROVE NeverWedged
  <2> SUFFICES ASSUME ~raced, NEW c \in Characters
               PROVE  ~Stale([c |-> c, wish |-> wish[c], ctx |-> ctx[c], world |-> world], today)
    BY DEF NeverWedged, Accepted
  <2> DEFINE r == [c |-> c, wish |-> wish[c], ctx |-> ctx[c], world |-> world]
  <2>1. \A o \in ctx[c].overlay : o.epoch = ctx[c].epoch /\ o.rev <= world.rev
    BY <1>1 DEF IInv, PairsFit, Pair, Ordered, Rising
  <2>2. world.rev \in Nat /\ \A o \in ctx[c].overlay : o.rev \in Nat
    BY <1>1, InvParts, WorldParts DEF ContextSet, Overlay
  <2>3. CASE wish[c] = "start"
    <3>1. Context(r).overlay = {}
      <4>1. ctx[c] \in ContextSet
        BY <1>1, InvParts
      <4>2. Context(r) = [ctx[c] EXCEPT !.epoch = @ + 1, !.overlay = {}, !.inv = {}]
        BY <2>3 DEF Context
      <4> QED BY <4>1, <4>2 DEF ContextSet
    <3> QED BY <3>1 DEF Stale
  <2>4. CASE wish[c] # "start"
    <3>1. Context(r) = ctx[c]
      BY <2>4 DEF Context
    <3> QED BY <2>1, <2>2, <3>1 DEF Stale
  <2> QED BY <2>3, <2>4
<1> QED BY <1>1, Invariance, PTL
-----------------------------------------------------------------------------
(* Meetings that ended *)

\* The meetings with c the browser knows of: the one somebody waits for, and
\* the one of the scene it could go on with.
Known(c) == world.pend[c] \cup UNION {o.pend : o \in ctx[c].overlay}

\* With one request at a time: what is known has not ended, has one meeting
\* of a number, and is of characters one can talk to. The number of the
\* request under way is new.
KnownFit ==
  /\ \A c \in Characters : \A p \in Known(c) : p.id <= used /\ p.id \notin ended
  /\ \A n \in ended : n <= used
  /\ \A c, k \in Characters : \A p \in Known(c), q \in Known(k) : p.id = q.id => p = q /\ c = k
  /\ \A c \in Characters : "chat" \notin Kinds[c] => Known(c) = {}
  /\ sent \cup job \cup answers # {} =>
       used \notin ended /\ \A c \in Characters : \A p \in Known(c) : p.id # used

\* Of the others a package says at most what the browser knows.
OthersKnown(c, w) == \A k \in Characters \ {c} : w.pend[k] \subseteq world.pend[k]

RequestsKnown ==
  \A r \in sent :
    /\ r.kind \in Kinds[r.c] /\ r.id = used /\ r.world = world
    /\ r.ctx.seg = segment[r.c] => r.ctx = ctx[r.c]

WorkKnown ==
  \A j \in job :
    /\ j.r.kind \in Kinds[j.r.c] /\ j.r.id = used /\ j.r.world = world
    /\ OthersKnown(j.r.c, j.w)
    /\ j.x.seg = segment[j.r.c] =>
         j.x.overlay \subseteq ctx[j.r.c].overlay /\ j.w.pend[j.r.c] \subseteq Known(j.r.c)

\* An answer brings what is known or the meeting its chat arranged; an older
\* scene comes back only when no appointment ends with it.
ReplyKnown(a) ==
  /\ OthersKnown(a.c, a.world)
  /\ a.ctx = {} => "transition" \in Kinds[a.c]
  /\ \A y \in a.ctx : y.seg = segment[a.c] =>
       /\ \A p \in a.world.pend[a.c] :
            p \in Known(a.c) \/ (p.id = used /\ "chat" \in Kinds[a.c])
       /\ \A o \in y.overlay :
            \/ o.pend = a.world.pend[a.c]
            \/ /\ o \in ctx[a.c].overlay /\ o.day # a.world.day
               /\ a.ends => world.pend[a.c] = {}

KInv ==
  raced \/ (KnownFit /\ RequestsKnown /\ WorkKnown /\ \A a \in answers : ReplyKnown(a))

\* The first protocol, which knows no contexts, is not mixed with chats that
\* arrange something: with scene actions on, the browser never asks for a
\* transition (app.js, transitionPresence); with them off, a chat has no
\* intent (dialogue_v2_service.py).
OneProtocol == \A c \in Characters : "transition" \in Kinds[c] => "chat" \notin Kinds[c]

LEMMA KInvInit ==
  ASSUME Init
  PROVE  KInv
<1>1. \A c \in Characters : world.pend[c] = {} /\ ctx[c].overlay = {}
  BY DEF Init, Blank, Default, Fresh
<1>2. \A c \in Characters : Known(c) = {}
  BY <1>1 DEF Known
<1> QED BY <1>2 DEF Init, KInv, KnownFit, RequestsKnown, WorkKnown

\* A step of the server or the network leaves what is known as it is.
LEMMA ServeKnows ==
  ASSUME IInv, KInv, UNCHANGED <<browser, used, history>>,
         sent' \in SUBSET sent, sent' \cup job' \cup answers' # {} => sent \cup job \cup answers # {},
         ~raced => WorkKnown', ~raced => \A a \in answers' : ReplyKnown(a)'
  PROVE  KInv'
<1> SUFFICES ASSUME ~raced PROVE KInv'
  BY DEF KInv, history
<1>1. \A c \in Characters : Known(c)' = Known(c)
  BY DEF Known, browser
<1>2. KnownFit'
  BY <1>1 DEF KInv, KnownFit, browser, history
<1>3. RequestsKnown'
  BY DEF KInv, RequestsKnown, browser
<1> QED BY <1>2, <1>3 DEF KInv

\* Nothing new is known while something is under way.
LEMMA SameKnown ==
  ASSUME UNCHANGED <<browser, used>>
  PROVE  /\ \A c \in Characters : Known(c)' = Known(c)
         /\ \A c, w : OthersKnown(c, w)' = OthersKnown(c, w)
BY DEF Known, OthersKnown, browser

LEMMA SameReplies ==
  ASSUME UNCHANGED <<browser, used>>, NEW a, a \in Reply, ReplyKnown(a)
  PROVE  ReplyKnown(a)'
BY SameKnown, ReplyParts DEF ReplyKnown, OthersKnown, browser

LEMMA SameWork ==
  ASSUME UNCHANGED <<browser, used>>, job' \in SUBSET job, IInv, WorkKnown
  PROVE  WorkKnown'
<1>1. \A j \in job' : j \in job /\ j.r.c \in Characters
  BY JobParts, RequestParts
<1> QED BY <1>1, SameKnown DEF WorkKnown, OthersKnown, browser

LEMMA KMidnight ==
  ASSUME IInv, KInv, Midnight
  PROVE  KInv'
<1>1. UNCHANGED <<browser, sent, job, answers, used, history>>
  BY DEF Midnight
<1>2. ~raced => WorkKnown'
  BY <1>1, SameWork DEF KInv
<1>3. ~raced => \A a \in answers' : ReplyKnown(a)'
  BY <1>1, SameReplies DEF KInv, IInv, TypeOK
<1> QED BY <1>1, <1>2, <1>3, ServeKnows

LEMMA KLose ==
  ASSUME IInv, KInv, NEW a \in answers, Lose(a)
  PROVE  KInv'
<1>1. answers' = answers \ {a} /\ UNCHANGED <<browser, sent, job, used, history>>
  BY DEF Lose
<1>2. ~raced => WorkKnown'
  BY <1>1, SameWork DEF KInv
<1>3. ~raced => \A b \in answers' : ReplyKnown(b)'
  BY <1>1, SameReplies DEF KInv, IInv, TypeOK
<1> QED BY <1>1, <1>2, <1>3, ServeKnows

LEMMA KFails ==
  ASSUME IInv, KInv, Fails
  PROVE  KInv'
<1>1. job # {} /\ job' = {} /\ UNCHANGED <<browser, sent, answers, used, history>>
  BY DEF Fails
<1>2. ~raced => WorkKnown'
  BY <1>1 DEF WorkKnown
<1>3. ~raced => \A b \in answers' : ReplyKnown(b)'
  BY <1>1, SameReplies DEF KInv, IInv, TypeOK
<1> QED BY <1>1, <1>2, <1>3, ServeKnows

LEMMA KNoticeDay ==
  ASSUME IInv, KInv, NEW c \in Characters, NoticeDay(c)
  PROVE  KInv'
<1> SUFFICES ASSUME ~raced PROVE KInv'
  BY DEF KInv, NoticeDay, history
<1>1. UNCHANGED <<today, world, sent, job, answers, used, history>>
  BY DEF NoticeDay
<1>2. /\ segment' \in [Characters -> Nat] /\ ctx' \in [Characters -> ContextSet]
      /\ \A k \in Characters \ {c} : segment'[k] = segment[k] /\ ctx'[k] = ctx[k]
      /\ \/ segment'[c] = segment[c] /\ ctx'[c] = ctx[c]
         \/ segment'[c] = segment[c] + 1 /\ ctx'[c].overlay = {}
  <2>1. IInv'
    BY NoticeDayKeeps
  <2>2. segment' \in [Characters -> Nat] /\ ctx' \in [Characters -> ContextSet]
    BY <2>1 DEF IInv, TypeOK
  <2>3. PICK u \in Wishes[c] :
          /\ segment' = [segment EXCEPT ![c] = @ + (IF u = "start" THEN 1 ELSE 0)]
          /\ ctx' = [ctx EXCEPT ![c] = IF u = "start" THEN Fresh(segment[c] + 1) ELSE @]
    BY DEF NoticeDay
  <2>4. \A k \in Characters \ {c} : segment'[k] = segment[k] /\ ctx'[k] = ctx[k]
    BY <2>3, InvParts
  <2>5. CASE u = "start"
    BY <2>2, <2>3, <2>4, <2>5, InvParts DEF Fresh
  <2>6. CASE u # "start"
    BY <2>2, <2>3, <2>4, <2>6, InvParts
  <2> QED BY <2>5, <2>6
<1>3. \A k \in Characters : Known(k)' \in SUBSET Known(k)
  BY <1>1, <1>2 DEF Known
<1>4. \A f \in Flights : f.seg = segment'[f.c] =>
        segment'[f.c] = segment[f.c] /\ ctx'[f.c] = ctx[f.c]
  <2> SUFFICES ASSUME NEW f \in Flights, f.seg = segment'[f.c]
               PROVE  segment'[f.c] = segment[f.c] /\ ctx'[f.c] = ctx[f.c]
    OBVIOUS
  <2>1. f.c \in Characters /\ f.seg \in Nat /\ f.seg <= segment[f.c] /\ segment[f.c] \in Nat
    BY InvParts, FlightParts DEF Bounded
  <2> QED BY <1>2, <2>1
<1>5. KnownFit'
  BY <1>1, <1>3 DEF KInv, KnownFit, history
<1>6. RequestsKnown'
  <2> SUFFICES ASSUME NEW r \in sent
               PROVE  /\ r.kind \in Kinds[r.c] /\ r.id = used /\ r.world = world
                      /\ r.ctx.seg = segment'[r.c] => r.ctx = ctx'[r.c]
    BY <1>1 DEF RequestsKnown
  <2>1. OfRequest(r) \in Flights /\ OfRequest(r).c = r.c /\ OfRequest(r).seg = r.ctx.seg
    BY DEF Flights, FlightsOf, OfRequest, Flight
  <2> QED BY <1>4, <2>1 DEF KInv, RequestsKnown
<1>7. WorkKnown'
  <2> SUFFICES ASSUME NEW j \in job
               PROVE  /\ j.r.kind \in Kinds[j.r.c] /\ j.r.id = used /\ j.r.world = world
                      /\ OthersKnown(j.r.c, j.w)'
                      /\ j.x.seg = segment'[j.r.c] =>
                           /\ j.x.overlay \subseteq ctx'[j.r.c].overlay
                           /\ j.w.pend[j.r.c] \subseteq Known(j.r.c)'
    BY <1>1 DEF WorkKnown
  <2>1. OfWork(j) \in Flights /\ OfWork(j).c = j.r.c /\ OfWork(j).seg = j.x.seg
    BY JobParts
  <2>2. j.x.seg = segment'[j.r.c] =>
          /\ segment'[j.r.c] = segment[j.r.c] /\ ctx'[j.r.c] = ctx[j.r.c]
          /\ Known(j.r.c)' = Known(j.r.c)
    BY <1>1, <1>4, <2>1 DEF Known
  <2> QED BY <1>1, <2>2 DEF KInv, WorkKnown, OthersKnown
<1>8. ASSUME NEW a \in answers' PROVE ReplyKnown(a)'
  <2>1. a \in answers /\ ReplyKnown(a)
    BY <1>1 DEF KInv
  <2>2. OfReply(a) \in Flights /\ OfReply(a).c = a.c
    BY <2>1, AnswerParts
  <2>3. \A y \in a.ctx : y.seg = segment'[a.c] =>
          /\ segment'[a.c] = segment[a.c] /\ ctx'[a.c] = ctx[a.c]
          /\ Known(a.c)' = Known(a.c)
    <3> SUFFICES ASSUME NEW y \in a.ctx, y.seg = segment'[a.c]
                 PROVE  /\ segment'[a.c] = segment[a.c] /\ ctx'[a.c] = ctx[a.c]
                        /\ Known(a.c)' = Known(a.c)
      OBVIOUS
    <3>1. a.ctx = {y}
      BY <2>1 DEF IInv, PairsFit
    <3>2. OfReply(a).seg = y.seg
      <4>1. OfReply(a) = Flight(a.c, a.world, y, y.rev)
        BY <2>1, <3>1, AnswerParts, ReplyFlight
      <4> QED BY <4>1 DEF Flight
    <3> QED BY <1>1, <1>4, <2>2, <3>2 DEF Known
  <2> QED BY <1>1, <2>1, <2>3 DEF ReplyKnown, OthersKnown
<1> QED BY <1>5, <1>6, <1>7, <1>8 DEF KInv
LEMMA KnownTyped ==
  ASSUME IInv, NEW c \in Characters
  PROVE  Known(c) \in SUBSET Meeting
<1>1. world.pend[c] \in SUBSET Meeting /\ \A o \in ctx[c].overlay : o.pend \in SUBSET Meeting
  BY InvParts, WorldParts DEF ContextSet, Overlay
<1> QED BY <1>1 DEF Known

\* A request made while nothing is under way has a number of its own.
LEMMA KSend ==
  ASSUME IInv, KInv, NEW c \in Characters, NEW kind \in Kinds[c], NEW channel, NEW ask, NEW place,
         NEW card, Send(c, kind, channel, ask, place, card)
  PROVE  KInv'
<1> DEFINE r == [id |-> used + 1, c |-> c, kind |-> kind, channel |-> channel, ask |-> ask,
                 place |-> place, card |-> card, wish |-> wish[c], world |-> world,
                 ctx |-> ctx[c]]
<1>1. /\ sent' = sent \cup {r} /\ used' = used + 1
      /\ raced' = (raced \/ sent \cup job \cup answers # {})
      /\ UNCHANGED <<today, browser, job, answers, ended>>
  BY DEF Send
<1>2. r.c = c /\ r.kind = kind /\ r.id = used + 1 /\ r.world = world /\ r.ctx = ctx[c]
  OBVIOUS
<1> HIDE DEF r
<1> SUFFICES ASSUME ~raced' PROVE KInv'
  BY DEF KInv
<1>3. ~raced /\ sent = {} /\ job = {} /\ answers = {}
  BY <1>1
<1>4. used \in Nat /\ ended \in SUBSET Nat
  BY DEF IInv, TypeOK
<1>5. \A k \in Characters : Known(k)' = Known(k) /\ \A p \in Known(k) : p.id \in Nat
  BY <1>1, KnownTyped DEF Known, browser, Meeting
<1>6. KnownFit'
  <2>1. KnownFit
    BY <1>3 DEF KInv
  <2>2. \A n \in ended : n <= used + 1 /\ n # used + 1
    BY <1>4, <2>1 DEF KnownFit
  <2>3. \A k \in Characters : \A p \in Known(k) : p.id <= used + 1 /\ p.id # used + 1
    BY <1>4, <1>5, <2>1 DEF KnownFit
  <2> QED BY <1>1, <1>5, <2>1, <2>2, <2>3 DEF KnownFit
<1>7. RequestsKnown'
  BY <1>1, <1>2, <1>3 DEF RequestsKnown, browser
<1>8. WorkKnown' /\ \A a \in answers' : ReplyKnown(a)'
  BY <1>1, <1>3 DEF WorkKnown
<1> QED BY <1>6, <1>7, <1>8 DEF KInv

LEMMA KSendChat ==
  ASSUME IInv, KInv, NEW c \in Characters, SendChat(c)
  PROVE  KInv'
<1> DEFINE kind == "chat"
           card == {}
<1>1. PICK channel \in {"text", "in_person"}, ask \in Asks, place \in Places :
        Send(c, kind, channel, ask, place, card)
  BY DEF SendChat
<1>2. kind \in Kinds[c]
  BY DEF SendChat
<1> HIDE DEF kind, card
<1> QED BY <1>1, <1>2, KSend

LEMMA KSendAction ==
  ASSUME IInv, KInv, NEW c \in Characters, SendAction(c)
  PROVE  KInv'
<1> DEFINE card(kind) == IF kind \in {"keep", "cancel"} THEN Card(c) ELSE {}
           channel == "text"
           ask == "none"
           place == world.at[c]
<1>1. PICK kind \in Kinds[c] : Send(c, kind, channel, ask, place, card(kind))
  BY DEF SendAction
<1> DEFINE q == card(kind)
<1>2. Send(c, kind, channel, ask, place, q)
  BY <1>1
<1> HIDE DEF channel, ask, place, q
<1> QED BY <1>2, KSend

\* Who is gone on with or waits after a request is served was known.
LEMMA OnwardKnows ==
  ASSUME NEW c \in Characters, NEW w, NEW v, OthersKnown(c, w), Onward(c, w, v)
  PROVE  OthersKnown(c, v)
BY DEF OthersKnown, Onward

LEMMA ServedKnows ==
  ASSUME IInv, KInv, ~raced, NEW r \in sent
  PROVE  LET w == World(r, today)
             x == Settled(Context(r), w, r.c)
         IN /\ r.kind \in Kinds[r.c] /\ r.id = used /\ r.world = world
            /\ OthersKnown(r.c, w)
            /\ x.seg = segment[r.c] =>
                 x.overlay \subseteq ctx[r.c].overlay /\ w.pend[r.c] \subseteq Known(r.c)
<1> DEFINE w == World(r, today)
           x == Settled(Context(r), w, r.c)
<1>1. /\ r.kind \in Kinds[r.c] /\ r.id = used /\ r.world = world
      /\ r.ctx.seg = segment[r.c] => r.ctx = ctx[r.c]
  BY DEF KInv, RequestsKnown
<1>2. /\ r \in Request /\ Onward(r.c, r.world, w)
      /\ \/ w.pend[r.c] \subseteq r.world.pend[r.c]
         \/ \E o \in x.overlay : w.pend[r.c] = o.pend
      /\ x.overlay \subseteq r.ctx.overlay
  BY ServedFacts
<1>3. r.c \in Characters /\ x.seg = r.ctx.seg
  <2>1. Context(r) \in ContextSet /\ Context(r).seg = r.ctx.seg
    BY <1>2, ContextFacts
  <2> HIDE DEF w
  <2>2. x.seg = Context(r).seg
    BY <2>1, SettledFacts
  <2> QED BY <1>2, <2>1, <2>2, RequestParts
<1> HIDE DEF w, x
<1>4. OthersKnown(r.c, w)
  <2>1. OthersKnown(r.c, world)
    BY DEF OthersKnown
  <2> QED BY <1>1, <1>2, <1>3, <2>1, OnwardKnows
<1>5. x.seg = segment[r.c] =>
        x.overlay \subseteq ctx[r.c].overlay /\ w.pend[r.c] \subseteq Known(r.c)
  BY <1>1, <1>2, <1>3 DEF Known
<1> QED BY <1>1, <1>4, <1>5 DEF w, x
LEMMA AnsweredKnows ==
  ASSUME NEW r, r.kind \in Kinds[r.c], r.id = used, r.world = world,
         NEW w, OthersKnown(r.c, w), NEW x,
         x.seg = segment[r.c] =>
           x.overlay \subseteq ctx[r.c].overlay /\ w.pend[r.c] \subseteq Known(r.c),
         NEW a, Answered(r, w, x, a)
  PROVE  ReplyKnown(a)
<1>1. /\ a.c = r.c /\ a.ends = Ends(r) /\ a.world.day = w.day
      /\ Onward(r.c, w, a.world)
      /\ \A p \in a.world.pend[r.c] : p \in w.pend[r.c] \/ (p.id = r.id /\ r.kind = "chat")
  BY DEF Answered
<1>2. PICK y \in ContextSet :
        /\ a.ctx = {y} /\ y.seg = x.seg
        /\ \A o \in y.overlay :
             \/ o.day = w.day /\ o.rev = a.world.rev /\ o.pend = a.world.pend[r.c]
             \/ /\ o \in x.overlay /\ o.day # w.day /\ a.world.pend[r.c] = {}
                /\ Ends(r) => r.world.pend[r.c] = {}
  BY DEF Answered
<1>3. OthersKnown(a.c, a.world)
  BY <1>1 DEF OthersKnown, Onward
<1>4. ASSUME y.seg = segment[a.c]
      PROVE  /\ \A p \in a.world.pend[a.c] :
                  p \in Known(a.c) \/ (p.id = used /\ "chat" \in Kinds[a.c])
             /\ \A o \in y.overlay :
                  \/ o.pend = a.world.pend[a.c]
                  \/ /\ o \in ctx[a.c].overlay /\ o.day # a.world.day
                     /\ a.ends => world.pend[a.c] = {}
  <2>1. x.overlay \subseteq ctx[r.c].overlay /\ w.pend[r.c] \subseteq Known(r.c)
    BY <1>1, <1>2, <1>4
  <2>2. \A p \in a.world.pend[a.c] :
          p \in Known(a.c) \/ (p.id = used /\ "chat" \in Kinds[a.c])
    BY <1>1, <2>1
  <2>3. \A o \in y.overlay :
          \/ o.pend = a.world.pend[a.c]
          \/ /\ o \in ctx[a.c].overlay /\ o.day # a.world.day
             /\ a.ends => world.pend[a.c] = {}
    BY <1>1, <1>2, <2>1
  <2> QED BY <2>2, <2>3
<1> QED BY <1>2, <1>3, <1>4 DEF ReplyKnown

LEMMA KSceneAction ==
  ASSUME IInv, KInv, NEW r \in sent, SceneAction(r)
  PROVE  KInv'
<1> DEFINE w == World(r, today)
           x == Settled(Context(r), w, r.c)
           a == Acted(r, w, x)
<1>1. /\ r.kind \notin {"chat", "transition"} /\ sent' = sent \ {r} /\ job = {}
      /\ answers' = IF ~Stale(r, today) /\ Current(r, w, x) THEN answers \cup {a} ELSE answers
      /\ UNCHANGED <<today, browser, job, used, history>>
  BY DEF SceneAction
<1>2. ~raced => WorkKnown'
  BY <1>1 DEF WorkKnown
<1>3. ASSUME ~raced, NEW b \in answers' PROVE ReplyKnown(b)'
  <2>1. CASE b \in answers
    BY <1>1, <1>3, <2>1, SameReplies DEF KInv, IInv, TypeOK
  <2>2. CASE b \notin answers
    <3>1. b = a /\ Current(r, w, x)
      BY <1>1, <2>2
    <3>2. /\ r \in Request /\ w \in WorldSet /\ x \in ContextSet
          /\ Pair(r.c, w, x, r.wish) /\ (r.wish = "start" => x.overlay = {})
      BY ServedFacts
    <3>3. /\ r.kind \in Kinds[r.c] /\ r.id = used /\ r.world = world
          /\ OthersKnown(r.c, w)
          /\ x.seg = segment[r.c] =>
               x.overlay \subseteq ctx[r.c].overlay /\ w.pend[r.c] \subseteq Known(r.c)
      BY <1>3, ServedKnows
    <3>4. CardFits(r)
      BY DEF IInv, PairsFit
    <3> HIDE DEF w, x
    <3>5. Answered(r, w, x, a)
      BY <1>1, <3>1, <3>2, <3>4, ActedFacts
    <3> HIDE DEF a
    <3>6. ReplyKnown(b)
      BY <3>1, <3>3, <3>5, AnsweredKnows
    <3>7. b \in Reply
      BY <3>1, <3>5 DEF Answered
    <3> QED BY <1>1, <3>6, <3>7, SameReplies
  <2> QED BY <2>1, <2>2
<1>4. sent' \in SUBSET sent /\ sent # {}
  BY <1>1
<1> HIDE DEF w, x, a
<1> QED BY <1>1, <1>2, <1>3, <1>4, ServeKnows

LEMMA KTransition ==
  ASSUME IInv, KInv, NEW r \in sent, Transition(r)
  PROVE  KInv'
<1> DEFINE n == Normalized(r.world, today)
           v == Joined(n, r.c)
           a == Answer(r, v, {})
<1>1. /\ r.kind = "transition" /\ sent' = sent \ {r} /\ answers' = answers \cup {a} /\ job = {}
      /\ UNCHANGED <<today, browser, job, used, history>>
  BY DEF Transition
<1>2. ~raced => WorkKnown'
  BY <1>1 DEF WorkKnown
<1>3. /\ r \in Request /\ r.c \in Characters /\ r.world \in WorldSet
      /\ OfRequest(r) \in Flights /\ OfRequest(r).w = r.world
      /\ today \in 1..MaxDay /\ today \in Nat
  BY ServedFacts, RequestParts, InvParts
<1>4. Arranged(r.world) /\ r.world.day <= today
  BY <1>3, InvParts DEF IInv, PairsFit, Pair, Bounded
<1>5. Onward(r.c, r.world, n) /\ Arranged(n) /\ n.day = today
  BY <1>3, <1>4, ReadFacts
<1>6. Onward(r.c, r.world, v)
  <2>1. n \in WorldSet
    BY <1>5 DEF Onward
  <2> HIDE DEF n
  <2>2. Onward(r.c, n, v)
    BY <1>3, <1>5, <2>1, JoinedFacts
  <2> HIDE DEF v
  <2> QED BY <1>3, <1>5, <2>2, OnwardOnward
<1> HIDE DEF n, v
<1>7. a.c = r.c /\ a.world = v /\ a.ctx = {}
  BY DEF Answer
<1> HIDE DEF a
<1>8. ASSUME ~raced, NEW b \in answers' PROVE ReplyKnown(b)'
  <2>1. CASE b \in answers
    BY <1>1, <1>8, <2>1, SameReplies DEF KInv, IInv, TypeOK
  <2>2. CASE b \notin answers
    <3>1. b = a
      BY <1>1, <2>2
    <3>2. r.kind \in Kinds[r.c] /\ r.world = world
      BY <1>8 DEF KInv, RequestsKnown
    <3>3. OthersKnown(r.c, v)
      BY <1>6, <3>2 DEF OthersKnown, Onward
    <3> QED BY <1>1, <1>7, <3>1, <3>2, <3>3 DEF ReplyKnown, OthersKnown, browser
  <2> QED BY <2>1, <2>2
<1>9. sent' \in SUBSET sent /\ sent # {}
  BY <1>1
<1> QED BY <1>1, <1>2, <1>8, <1>9, ServeKnows
LEMMA KAdmit ==
  ASSUME IInv, KInv, NEW r \in sent, Admit(r)
  PROVE  KInv'
<1> DEFINE w == World(r, today)
           x == Settled(Context(r), w, r.c)
           k == [r |-> r, x |-> x, w |-> w, begun |-> FALSE]
<1>1. /\ sent' = sent \ {r} /\ job' \in {{}, {k}}
      /\ UNCHANGED <<today, browser, answers, used, history>>
  BY DEF Admit
<1>2. ASSUME ~raced PROVE WorkKnown'
  <2>1. /\ r.kind \in Kinds[r.c] /\ r.id = used /\ r.world = world
        /\ OthersKnown(r.c, w)
        /\ x.seg = segment[r.c] =>
             x.overlay \subseteq ctx[r.c].overlay /\ w.pend[r.c] \subseteq Known(r.c)
    BY <1>2, ServedKnows
  <2> HIDE DEF w, x
  <2>2. k.r = r /\ k.x = x /\ k.w = w /\ r.c \in Characters
    BY ServedFacts, RequestParts
  <2> HIDE DEF k
  <2> QED BY <1>1, <2>1, <2>2, SameKnown DEF WorkKnown, OthersKnown, browser
<1>3. ~raced => \A b \in answers' : ReplyKnown(b)'
  BY <1>1, SameReplies DEF KInv, IInv, TypeOK
<1>4. sent' \in SUBSET sent /\ sent # {}
  BY <1>1
<1> QED BY <1>1, <1>2, <1>3, <1>4, ServeKnows

LEMMA KBegin ==
  ASSUME IInv, KInv, Begin
  PROVE  KInv'
<1>1. PICK j \in job :
        /\ job' = {[j EXCEPT !.begun = TRUE, !.w = [Normalized(j.w, today) EXCEPT !.rev = @ + 1]]}
        /\ UNCHANGED <<today, browser, sent, answers, used, history>>
  BY DEF Begin
<1> DEFINE c == j.r.c
           n == Normalized(j.w, today)
           v == [n EXCEPT !.rev = @ + 1]
           k == [j EXCEPT !.begun = TRUE, !.w = v]
<1>2. /\ j \in Work /\ j.w \in WorldSet /\ j.w.day <= today /\ Pair(c, j.w, j.x, j.r.wish)
      /\ c \in Characters /\ today \in 1..MaxDay
  BY JobParts, WorkParts, InvParts
<1>3. Onward(c, j.w, n) /\ Arranged(n) /\ n.day = today /\ (n.pend[c] = {} \/ n = j.w)
  <2>1. Arranged(j.w)
    BY <1>2 DEF Pair
  <2> HIDE DEF c
  <2> QED BY <1>2, <2>1, ReadFacts
<1>4. v.pend = n.pend
  <2>1. n \in WorldSet
    BY <1>3 DEF Onward
  <2> QED BY <2>1 DEF WorldSet
<1>5. k.r = j.r /\ k.x = j.x /\ k.w = v
  BY <1>2 DEF Work
<1>6. job' = {k}
  BY <1>1
<1> HIDE DEF n, v, k
<1>7. ASSUME ~raced PROVE WorkKnown'
  <2>1. /\ j.r.kind \in Kinds[c] /\ j.r.id = used /\ j.r.world = world
        /\ OthersKnown(c, j.w)
        /\ j.x.seg = segment[c] =>
             j.x.overlay \subseteq ctx[c].overlay /\ j.w.pend[c] \subseteq Known(c)
    BY <1>7 DEF KInv, WorkKnown
  <2>2. OthersKnown(c, v)
    BY <1>3, <1>4, <2>1 DEF OthersKnown, Onward
  <2>3. v.pend[c] \subseteq j.w.pend[c]
    BY <1>3, <1>4
  <2>4. /\ Known(c)' = Known(c)
        /\ used' = used /\ world' = world /\ segment' = segment /\ ctx' = ctx
    BY <1>1, <1>2, SameKnown DEF browser
  <2>5. /\ k.r.kind \in Kinds[c] /\ k.r.id = used' /\ k.r.world = world' /\ k.r.c = c
        /\ k.w = v /\ \A i \in Characters \ {c} : v.pend[i] \subseteq world'.pend[i]
        /\ k.x.seg = segment'[c] =>
             k.x.overlay \subseteq ctx'[c].overlay /\ v.pend[c] \subseteq Known(c)'
    BY <1>5, <2>1, <2>2, <2>3, <2>4 DEF OthersKnown
  <2> HIDE DEF c
  <2> QED BY <1>6, <2>5 DEF WorkKnown, OthersKnown
<1>8. ~raced => \A b \in answers' : ReplyKnown(b)'
  BY <1>1, SameReplies DEF KInv, IInv, TypeOK
<1>9. sent' \in SUBSET sent /\ job # {}
  BY <1>1
<1> QED BY <1>1, <1>7, <1>8, <1>9, ServeKnows

LEMMA KFinish ==
  ASSUME IInv, KInv, Finish
  PROVE  KInv'
<1>1. PICK j \in job : TRUE
  BY DEF Finish
<1>2. job' = {} /\ UNCHANGED <<today, browser, sent, used, history>>
  BY FinishAnswers
<1>3. PICK a : Answered(j.r, j.w, j.x, a) /\ answers' = answers \cup {a}
  BY FinishAnswers
<1>4. ~raced => WorkKnown'
  BY <1>2 DEF WorkKnown
<1>5. ASSUME ~raced PROVE ReplyKnown(a)
  <2>1. /\ j.r.kind \in Kinds[j.r.c] /\ j.r.id = used /\ j.r.world = world
        /\ OthersKnown(j.r.c, j.w)
        /\ j.x.seg = segment[j.r.c] =>
             j.x.overlay \subseteq ctx[j.r.c].overlay /\ j.w.pend[j.r.c] \subseteq Known(j.r.c)
    BY <1>5 DEF KInv, WorkKnown
  <2> QED BY <1>3, <2>1, AnsweredKnows
<1>6. ASSUME ~raced PROVE \A b \in answers' : ReplyKnown(b)'
  <2>1. \A b \in answers' : b \in Reply /\ ReplyKnown(b)
    BY <1>3, <1>5, <1>6 DEF KInv, IInv, TypeOK, Answered
  <2> QED BY <1>2, <2>1, SameReplies
<1> QED BY <1>1, <1>2, <1>4, <1>6, ServeKnows

LEMMA KStutter ==
  ASSUME KInv, UNCHANGED vars
  PROVE  KInv'
<1>1. UNCHANGED <<world, ctx, segment, sent, job, answers, used, raced, ended>>
  BY DEF vars, browser, history
<1>2. /\ \A c \in Characters : Known(c)' = Known(c)
      /\ \A c, w : OthersKnown(c, w)' = OthersKnown(c, w)
  BY <1>1 DEF Known, OthersKnown
<1>3. KnownFit' = KnownFit
  BY <1>1, <1>2 DEF KnownFit
<1>4. RequestsKnown' = RequestsKnown
  BY <1>1 DEF RequestsKnown
<1>5. WorkKnown' = WorkKnown
  BY <1>1 DEF WorkKnown, OthersKnown, Known
<1>6. \A a : ReplyKnown(a)' = ReplyKnown(a)
  BY <1>1 DEF ReplyKnown, OthersKnown, Known
<1> QED BY <1>1, <1>3, <1>4, <1>5, <1>6 DEF KInv
\* What an answer brings was known, or is the meeting its chat arranged.
LEMMA TakenKnown ==
  ASSUME IInv, KInv, OneProtocol, ~raced, NEW a \in answers, Deliver(a),
         Newer(a.world), \A x \in a.ctx : Fits(x, a.c), NEW k \in Characters
  PROVE  /\ \A p \in Known(k)' :
              p \in Known(k) \/ (p.id = used /\ k = a.c /\ p \in a.world.pend[k] /\ "chat" \in Kinds[k])
         /\ \A p \in Known(k)' : k = a.c /\ p \in world.pend[k] \ a.world.pend[k] =>
              ~a.ends /\ a.world.day # world.day
<1> DEFINE c == a.c
           v == a.world
<1>1. /\ a \in Reply /\ c \in Characters /\ ReplyKnown(a)
      /\ ctx \in [Characters -> ContextSet]
  BY AnswerParts, InvParts DEF KInv
<1>2. /\ world' = v
      /\ ctx' = IF a.ctx = {} THEN ctx ELSE [ctx EXCEPT ![c] = CHOOSE x \in a.ctx : TRUE]
  BY DEF Deliver
<1>3. CASE k # c
  <2>1. ctx'[k] = ctx[k] /\ v.pend[k] \subseteq world.pend[k]
    BY <1>1, <1>2, <1>3 DEF ReplyKnown, OthersKnown
  <2> QED BY <1>2, <1>3, <2>1 DEF Known
<1>4. CASE k = c /\ a.ctx = {}
  <2>1. Known(c) = {} /\ v.pend[c] = {} /\ ctx' = ctx
    BY <1>1, <1>2, <1>4 DEF ReplyKnown, OneProtocol, KInv, KnownFit, IInv, PairsFit
  <2>2. Known(c)' = {}
    BY <1>2, <2>1 DEF Known
  <2> QED BY <1>4, <2>2
<1>5. CASE k = c /\ a.ctx # {}
  <2>1. PICK y \in a.ctx : ctx'[c] = y
    BY <1>1, <1>2, <1>5
  <2>2. y.seg = segment[c]
    BY <2>1 DEF Fits
  <2>3. /\ \A p \in v.pend[c] : p \in Known(c) \/ (p.id = used /\ "chat" \in Kinds[c])
        /\ \A o \in y.overlay :
             \/ o.pend = v.pend[c]
             \/ /\ o \in ctx[c].overlay /\ o.day # v.day
                /\ a.ends => world.pend[c] = {}
    BY <1>1, <2>1, <2>2 DEF ReplyKnown
  <2>4. \A p \in Known(c)' : p \in v.pend[c] \/ \E o \in y.overlay : p \in o.pend
    BY <1>2, <2>1 DEF Known
  <2>5. \A p \in Known(c)' : p \in Known(c) \/ (p.id = used /\ p \in v.pend[c] /\ "chat" \in Kinds[c])
    BY <2>3, <2>4 DEF Known
  <2>6. ASSUME NEW p \in Known(c)', p \in world.pend[c] \ v.pend[c]
        PROVE  ~a.ends /\ v.day # world.day
    <3>1. PICK o \in y.overlay : p \in o.pend /\ o.pend # v.pend[c]
      BY <2>4, <2>6
    <3>2. o \in ctx[c].overlay /\ o.day # v.day /\ ~a.ends
      BY <2>3, <2>6, <3>1
    <3>3. Pair(c, world, ctx[c], None)
      BY <1>1 DEF IInv, PairsFit
    <3>4. o.day = world.day
      BY <2>6, <3>2, <3>3 DEF Pair, None
    <3> QED BY <3>2, <3>4
  <2> QED BY <1>5, <2>5, <2>6
<1> QED BY <1>3, <1>4, <1>5

LEMMA KDeliver ==
  ASSUME IInv, KInv, OneProtocol, NEW a \in answers, Deliver(a)
  PROVE  KInv'
<1> DEFINE c == a.c
           v == a.world
           applied == Newer(v) /\ \A x \in a.ctx : Fits(x, c)
           gone == {p \in world.pend[c] \ v.pend[c] : a.ends \/ v.day = world.day}
<1>1. answers' = answers \ {a} /\ UNCHANGED <<today, segment, noticed, sent, job, used, raced>>
  BY DEF Deliver
<1> SUFFICES ASSUME ~raced PROVE KInv'
  BY <1>1 DEF KInv
<1>2. sent = {} /\ job = {} /\ answers' = {} /\ sent' = {} /\ job' = {}
  BY <1>1 DEF IInv, Alone
<1>3. RequestsKnown' /\ WorkKnown' /\ \A b \in answers' : ReplyKnown(b)'
  BY <1>2 DEF RequestsKnown, WorkKnown
<1>4. /\ KnownFit /\ used \notin ended
      /\ \A k \in Characters : \A p \in Known(k) : p.id # used
  BY DEF KInv, KnownFit
<1>5. /\ a \in Reply /\ c \in Characters /\ v \in WorldSet /\ Arranged(v) /\ used \in Nat
      /\ v.pend[c] \in SUBSET Meeting
  BY AnswerParts, WorldParts DEF IInv, TypeOK
<1>6. CASE ~applied
  <2>1. UNCHANGED <<world, ctx, ended>>
    BY <1>6 DEF Deliver
  <2>2. \A k \in Characters : Known(k)' = Known(k)
    BY <2>1 DEF Known
  <2>3. KnownFit'
    BY <1>1, <1>2, <1>4, <2>1, <2>2 DEF KnownFit
  <2> QED BY <1>3, <2>3 DEF KInv
<1>7. CASE applied
  <2>1. ended' = ended \cup {p.id : p \in gone}
    BY <1>7 DEF Deliver
  <2>2. \A k \in Characters :
          /\ \A p \in Known(k)' :
               p \in Known(k) \/ (p.id = used /\ k = c /\ p \in v.pend[k] /\ "chat" \in Kinds[k])
          /\ \A p \in Known(k)' : k = c => p \notin gone
    BY <1>7, TakenKnown
  <2>3. \A p \in gone : p \in Known(c)
    BY DEF Known
  <2> HIDE DEF gone, applied, c, v
  <2>4. \A n \in ended' : n <= used
    BY <1>4, <1>5, <2>1, <2>3 DEF KnownFit
  <2>5. \A k \in Characters : \A p \in Known(k)' : p.id <= used
    BY <1>4, <1>5, <2>2 DEF KnownFit
  <2>6. ASSUME NEW k \in Characters, NEW q \in Known(k)' PROVE q.id \notin ended'
    <3>1. q.id \notin ended
      BY <1>4, <2>2 DEF KnownFit
    <3>2. ASSUME NEW p \in gone, p.id = q.id PROVE FALSE
      <4>1. p.id # used /\ p \in Known(c)
        BY <1>4, <1>5, <2>3
      <4>2. q \in Known(k)
        BY <2>2, <3>2, <4>1
      <4>3. q = p /\ k = c
        BY <1>4, <1>5, <3>2, <4>1, <4>2 DEF KnownFit
      <4> QED BY <2>2, <4>3
    <3> QED BY <2>1, <3>1, <3>2
  <2>7. ASSUME NEW k \in Characters, NEW m \in Characters, NEW p \in Known(k)', NEW q \in Known(m)',
               p.id = q.id
        PROVE  p = q /\ k = m
    <3>1. CASE p.id = used
      <4>1. k = c /\ m = c /\ p \in v.pend[c] /\ q \in v.pend[c]
        BY <1>4, <2>2, <2>7, <3>1
      <4>2. p.place = q.place /\ p \in Meeting /\ q \in Meeting
        BY <1>5, <4>1 DEF Arranged
      <4> QED BY <2>7, <4>1, <4>2 DEF Meeting
    <3>2. CASE p.id # used
      BY <1>4, <2>2, <2>7, <3>2 DEF KnownFit
    <3> QED BY <3>1, <3>2
  <2>8. \A k \in Characters : "chat" \notin Kinds[k] => Known(k)' = {}
    BY <1>4, <2>2 DEF KnownFit
  <2>9. KnownFit'
    BY <1>1, <1>2, <2>4, <2>5, <2>6, <2>7, <2>8 DEF KnownFit
  <2> QED BY <1>3, <2>9 DEF KInv
<1> QED BY <1>6, <1>7

LEMMA KNext ==
  ASSUME IInv, KInv, OneProtocol, [Next]_vars
  PROVE  KInv'
<1>1. CASE Midnight
  BY <1>1, KMidnight
<1>2. ASSUME NEW c \in Characters, NoticeDay(c) \/ SendChat(c) \/ SendAction(c) PROVE KInv'
  BY <1>2, KNoticeDay, KSendChat, KSendAction
<1>3. ASSUME NEW a \in answers, Deliver(a) \/ Lose(a) PROVE KInv'
  BY <1>3, KDeliver, KLose
<1>4. ASSUME NEW r \in sent, SceneAction(r) \/ Transition(r) \/ Admit(r) PROVE KInv'
  BY <1>4, KSceneAction, KTransition, KAdmit
<1>5. CASE Begin \/ Fails \/ Finish
  BY <1>5, KBegin, KFails, KFinish
<1>6. CASE UNCHANGED vars
  BY <1>6, KStutter
<1> QED BY <1>1, <1>2, <1>3, <1>4, <1>5, <1>6 DEF Next

\* With one request at a time, a meeting that was seen to end by a join, a
\* cancellation or a fresh start is not waited for again, across midnights
\* and lost answers; where the first protocol is not mixed with chats.
THEOREM EndedIsNotRestored ==
  ASSUME OneProtocol
  PROVE  Spec => []EndedStaysEnded
<1>1. KInv => EndedStaysEnded
  BY DEF KInv, KnownFit, Known, EndedStaysEnded
<1> QED BY <1>1, InitInv, NextKeeps, KInvInit, KNext, PTL DEF Spec

-------------------------------------------------------------------------------
(* The tabs and the right to write.                                            *)

\* A message reaches open pages only.
LEMMA TellsTyped ==
    ASSUME TabTypeOK, NEW t \in Tab, NEW kind \in Kind
    PROVE  /\ Tells(t, kind) \in [Tab -> SUBSET Kind]
           /\ \A u \in Tab \ open : Tells(t, kind)[u] = {}
  BY DEF Tells, TabTypeOK

LEMMA StoredTyped ==
    ASSUME TabTypeOK, NEW t \in Tab
    PROVE  /\ Stored(t) \in [Tab -> {"none", "fresh", "stale"}]
           /\ Stored(t)[t] = "fresh"
  BY DEF Stored, TabTypeOK

\* The types of a decision on the right to write.
LEMMA DecidedTyped ==
    ASSUME TabTypeOK, NEW t \in open, NEW granted \in BOOLEAN, Decided(t, granted)
    PROVE  /\ holder' \in Tab \cup {NoOne, Gone}
           /\ mode = "locks" => holder' # Gone
           /\ live' \in BOOLEAN
           /\ owned' \in [Tab -> BOOLEAN]
           /\ owned'[t] = granted
           /\ \A u \in Tab : u # t => owned'[u] = owned[u]
           /\ renewing' \in [Tab -> BOOLEAN]
  <1>1. t \in Tab
    BY DEF TabTypeOK
  <1>2. /\ holder' \in Tab \cup {NoOne, Gone}
        /\ mode = "locks" => holder' # Gone
        /\ live' \in BOOLEAN
    BY <1>1, NamesAssumption DEF Decided, TabTypeOK
  <1>3. owned' = [owned EXCEPT ![t] = granted] /\ owned \in [Tab -> BOOLEAN]
    BY DEF Decided, TabTypeOK
  <1>4. /\ owned' \in [Tab -> BOOLEAN]
        /\ owned'[t] = granted
        /\ \A u \in Tab : u # t => owned'[u] = owned[u]
    BY <1>1, <1>3, Zenon
  <1>5. renewing' \in [Tab -> BOOLEAN]
    BY <1>1, Zenon DEF Decided, TabTypeOK
  <1> QED
    BY <1>2, <1>4, <1>5

-----------------------------------------------------------------------------
(* Type correctness.                                                       *)

\* A closed page has nothing to do.
ClosedIsIdle ==
    \A t \in Tab \ open :
        ~owned[t] /\ ~asking[t] /\ calls[t] = {} /\ loads[t] = {} /\ mail[t] = {}

LEMMA PagesKeepTypes ==
    ASSUME TabTypeOK, NEW t \in Tab, Open(t) \/ Close(t)
    PROVE  TabTypeOK'
<1>1. CASE Open(t)
    <2>1. calls' \in [Tab -> SUBSET (Asker \cup {"boot"})]
        BY <1>1 DEF Open, TabTypeOK, Add
    <2>2. \A u \in Tab : u # t => calls'[u] = calls[u]
        BY <1>1 DEF Open, TabTypeOK, Add
    <2>3. open' \in SUBSET Tab /\ owned' \in [Tab -> BOOLEAN]
        BY <1>1, Zenon DEF Open, TabTypeOK
    <2>4. \A u \in Tab : u # t => owned'[u] = owned[u]
        BY <1>1 DEF Open, TabTypeOK
    <2>5. ClosedIsIdle'
        BY <1>1, <2>2, <2>4 DEF Open, TabTypeOK, ClosedIsIdle
    <2> QED
        BY <1>1, <2>1, <2>3, <2>5 DEF Open, TabTypeOK, right, ClosedIsIdle
<1>2. CASE Close(t)
    <2>1. /\ holder' \in Tab \cup {NoOne, Gone}
          /\ mode = "locks" => holder' # Gone
        <3>1. holder' \in {holder, NoOne, Gone} /\ NoOne # Gone
            BY <1>2 DEF Close, NoOne, Gone
        <3>2. mode = "locks" => holder' \in {holder, NoOne}
            BY <1>2 DEF Close
        <3> QED BY <3>1, <3>2 DEF TabTypeOK
    <2>2. /\ owned' \in [Tab -> BOOLEAN] /\ renewing' \in [Tab -> BOOLEAN]
          /\ asking' \in [Tab -> BOOLEAN]
        BY <1>2, Zenon DEF Close, TabTypeOK
    <2>3. /\ calls' \in [Tab -> SUBSET (Asker \cup {"boot"})]
          /\ loads' \in [Tab -> SUBSET {"boot", "take-over"}]
          /\ mail' \in [Tab -> SUBSET Kind]
          /\ copy' \in [Tab -> {"none", "fresh", "stale"}]
        BY <1>2 DEF Close, TabTypeOK
    <2>4. timers' \in [Tab -> 0..MaxTimers] /\ releases' \in [Tab -> 0..MaxReleases]
        BY <1>2, BoundsAssumption DEF Close, TabTypeOK
    <2>5. ClosedIsIdle'
        BY <1>2 DEF Close, TabTypeOK, ClosedIsIdle
    <2> QED
        BY <1>2, <2>1, <2>2, <2>3, <2>4, <2>5 DEF Close, TabTypeOK, ClosedIsIdle
<1> QED
    BY <1>1, <1>2

LEMMA BootKeepsTypes ==
    ASSUME TabTypeOK, NEW t \in Tab, BootDecided(t)
    PROVE  TabTypeOK'
<1>1. t \in open /\ Decided(t, Grants(t)) /\ Grants(t) \in BOOLEAN
    BY DEF BootDecided, TabTypeOK, Grants
<1>2. /\ holder' \in Tab \cup {NoOne, Gone}
      /\ mode = "locks" => holder' # Gone
      /\ live' \in BOOLEAN
      /\ owned' \in [Tab -> BOOLEAN]
      /\ \A u \in Tab : u # t => owned'[u] = owned[u]
      /\ renewing' \in [Tab -> BOOLEAN]
    BY <1>1, DecidedTyped
<1>3. /\ calls' \in [Tab -> SUBSET (Asker \cup {"boot"})]
      /\ \A u \in Tab : u # t => calls'[u] = calls[u]
    BY DEF BootDecided, TabTypeOK, Drop
<1>4. /\ loads' \in [Tab -> SUBSET {"boot", "take-over"}]
      /\ \A u \in Tab : u # t => loads'[u] = loads[u]
      /\ copy' \in [Tab -> {"none", "fresh", "stale"}]
    BY DEF BootDecided, Reloads, TabTypeOK, Add
<1>5. ClosedIsIdle'
    BY <1>1, <1>2, <1>3, <1>4 DEF BootDecided, TabTypeOK, ClosedIsIdle
<1> QED
    BY <1>2, <1>3, <1>4, <1>5 DEF BootDecided, TabTypeOK, ClosedIsIdle

LEMMA AcquiredKeepsTypes ==
    ASSUME TabTypeOK, NEW t \in Tab, NEW origin \in Asker, Acquired(t, origin)
    PROVE  TabTypeOK'
<1>1. t \in open /\ Decided(t, TRUE)
    BY DEF Acquired, TabTypeOK
<1>2. /\ holder' \in Tab \cup {NoOne, Gone}
      /\ mode = "locks" => holder' # Gone
      /\ live' \in BOOLEAN
      /\ owned' \in [Tab -> BOOLEAN]
      /\ \A u \in Tab : u # t => owned'[u] = owned[u]
      /\ renewing' \in [Tab -> BOOLEAN]
    BY <1>1, DecidedTyped
<1>3. /\ calls' \in [Tab -> SUBSET (Asker \cup {"boot"})]
      /\ \A u \in Tab : u # t => calls'[u] = calls[u]
    BY DEF Acquired, TabTypeOK, Drop
<1>4. /\ loads' \in [Tab -> SUBSET {"boot", "take-over"}]
      /\ \A u \in Tab : u # t => loads'[u] = loads[u]
      /\ copy' \in [Tab -> {"none", "fresh", "stale"}]
    BY DEF Acquired, Reloads, TabTypeOK, Add
<1>5. ClosedIsIdle'
    BY <1>1, <1>2, <1>3, <1>4 DEF Acquired, TabTypeOK, ClosedIsIdle
<1> QED
    BY <1>2, <1>3, <1>4, <1>5 DEF Acquired, TabTypeOK, ClosedIsIdle

LEMMA RefusalKeepsTypes ==
    ASSUME TabTypeOK, NEW t \in Tab, NEW origin \in Asker, NotAcquired(t, origin)
    PROVE  TabTypeOK'
<1>1. t \in open /\ Decided(t, FALSE)
    BY DEF NotAcquired, TabTypeOK
<1>2. /\ holder' \in Tab \cup {NoOne, Gone}
      /\ mode = "locks" => holder' # Gone
      /\ live' \in BOOLEAN
      /\ owned' \in [Tab -> BOOLEAN]
      /\ \A u \in Tab : u # t => owned'[u] = owned[u]
      /\ renewing' \in [Tab -> BOOLEAN]
    BY <1>1, DecidedTyped
<1>3. /\ calls' \in [Tab -> SUBSET (Asker \cup {"boot"})]
      /\ \A u \in Tab : u # t => calls'[u] = calls[u]
    BY DEF NotAcquired, TabTypeOK, Drop
<1>4. timers' \in [Tab -> 0..MaxTimers]
    BY BoundsAssumption DEF NotAcquired, TabTypeOK
<1>5. mail' \in [Tab -> SUBSET Kind] /\ \A u \in Tab \ open : mail'[u] = {}
    <2>1. CASE origin = "click"
        BY <2>1, TellsTyped DEF NotAcquired, Kind
    <2>2. CASE origin # "click"
        BY <2>2 DEF NotAcquired, TabTypeOK
    <2> QED BY <2>1, <2>2
<1>6. asking' \in [Tab -> BOOLEAN] /\ \A u \in Tab : u # t => asking'[u] = asking[u]
    BY Zenon DEF NotAcquired, TabTypeOK
<1>7. ClosedIsIdle'
    BY <1>1, <1>2, <1>3, <1>5, <1>6 DEF NotAcquired, TabTypeOK, ClosedIsIdle
<1> QED
    BY <1>2, <1>3, <1>4, <1>5, <1>6, <1>7 DEF NotAcquired, TabTypeOK, ClosedIsIdle

LEMMA LoadsKeepTypes ==
    ASSUME TabTypeOK, NEW t \in Tab, NEW origin \in {"boot", "take-over"},
           LoadEnds(t, origin) \/ LoadFails(t, origin)
    PROVE  TabTypeOK'
<1>1. /\ loads' \in [Tab -> SUBSET {"boot", "take-over"}]
      /\ \A u \in Tab : u # t => loads'[u] = loads[u]
      /\ t \in open
    BY DEF LoadEnds, LoadFails, TabTypeOK, Drop
<1>2. copy' \in [Tab -> {"none", "fresh", "stale"}]
    BY DEF LoadEnds, LoadFails, TabTypeOK
<1>3. asking' \in [Tab -> BOOLEAN] /\ \A u \in Tab : u # t => asking'[u] = asking[u]
    <2>1. CASE LoadEnds(t, origin)
        <3>1. PICK b \in BOOLEAN : b = (asking[t] /\ origin = "boot")
            OBVIOUS
        <3>2. asking' = [asking EXCEPT ![t] = b]
            BY <2>1, <3>1, Zenon DEF LoadEnds
        <3> QED BY <3>2, Zenon DEF TabTypeOK
    <2>2. CASE LoadFails(t, origin)
        BY <2>2 DEF LoadFails, TabTypeOK
    <2> QED BY <2>1, <2>2
<1>4. ClosedIsIdle'
    BY <1>1, <1>3 DEF LoadEnds, LoadFails, TabTypeOK, ClosedIsIdle, mine
<1> QED
    BY <1>1, <1>2, <1>3, <1>4 DEF LoadEnds, LoadFails, TabTypeOK, ClosedIsIdle, right, mine

\* The button, a timeout and a message that the right is free lead to calls.
LEMMA AskingKeepsTypes ==
    ASSUME TabTypeOK, NEW t \in Tab, Click(t) \/ TimerFires(t) \/ HearReleased(t)
    PROVE  TabTypeOK'
<1>1. /\ calls' \in [Tab -> SUBSET (Asker \cup {"boot"})]
      /\ \A u \in Tab : u # t => calls'[u] = calls[u]
    BY DEF Click, TimerFires, HearReleased, TabTypeOK, Add, Asker
<1>2. asking' \in [Tab -> BOOLEAN] /\ \A u \in Tab : u # t => asking'[u] = asking[u]
    BY Zenon DEF Click, TimerFires, HearReleased, TabTypeOK
<1>3. timers' \in [Tab -> 0..MaxTimers]
    BY BoundsAssumption DEF Click, TimerFires, HearReleased, TabTypeOK
<1>4. /\ mail' \in [Tab -> SUBSET Kind]
      /\ \A u \in Tab : mail'[u] \subseteq mail[u]
    BY DEF Click, TimerFires, HearReleased, TabTypeOK, Drop
<1>5. t \notin open => calls' = calls /\ asking' = asking
    BY DEF Click, TimerFires, HearReleased, TabTypeOK, Ready
<1>6. ClosedIsIdle'
    BY <1>1, <1>2, <1>4, <1>5
       DEF Click, TimerFires, HearReleased, TabTypeOK, ClosedIsIdle, mine
<1> QED
    BY <1>1, <1>2, <1>3, <1>4, <1>6
       DEF Click, TimerFires, HearReleased, TabTypeOK, ClosedIsIdle, right, mine

\* A message that asks for the right, or tells of a change.
LEMMA HearingKeepsTypes ==
    ASSUME TabTypeOK, NEW t \in Tab, HearTakeOver(t) \/ HearChange(t)
    PROVE  TabTypeOK'
<1>1. /\ mail' \in [Tab -> SUBSET Kind]
      /\ \A u \in Tab : mail'[u] \subseteq mail[u]
    BY DEF HearTakeOver, HearChange, TabTypeOK, Drop
<1>2. releases' \in [Tab -> 0..MaxReleases]
    BY BoundsAssumption DEF HearTakeOver, HearChange, TabTypeOK
<1>3. copy' \in [Tab -> {"none", "fresh", "stale"}]
    BY DEF HearTakeOver, HearChange, TabTypeOK
<1>4. ClosedIsIdle'
    BY <1>1 DEF HearTakeOver, HearChange, TabTypeOK, ClosedIsIdle, mine
<1> QED
    BY <1>1, <1>2, <1>3, <1>4
       DEF HearTakeOver, HearChange, TabTypeOK, ClosedIsIdle, right, mine

LEMMA ReleaseKeepsTypes ==
    ASSUME TabTypeOK, NEW t \in Tab, ReleaseEnds(t)
    PROVE  TabTypeOK'
<1>1. /\ holder' \in Tab \cup {NoOne, Gone}
      /\ mode = "locks" => holder' # Gone
    <2>1. holder' \in {holder, NoOne} /\ NoOne # Gone
        BY DEF ReleaseEnds, NoOne, Gone
    <2> QED BY <2>1 DEF TabTypeOK
<1>2. /\ owned' \in [Tab -> BOOLEAN]
      /\ \A u \in Tab : owned'[u] => owned[u]
      /\ renewing' \in [Tab -> BOOLEAN]
    BY Zenon DEF ReleaseEnds, TabTypeOK
<1>3. /\ mail' \in [Tab -> SUBSET Kind]
      /\ \A u \in Tab \ open : mail'[u] = {}
    BY TellsTyped DEF ReleaseEnds, Kind
<1>4. releases' \in [Tab -> 0..MaxReleases] /\ copy' \in [Tab -> {"none", "fresh", "stale"}]
    BY BoundsAssumption DEF ReleaseEnds, TabTypeOK
<1>5. ClosedIsIdle'
    BY <1>2, <1>3 DEF ReleaseEnds, TabTypeOK, ClosedIsIdle
<1> QED
    BY <1>1, <1>2, <1>3, <1>4, <1>5 DEF ReleaseEnds, TabTypeOK, ClosedIsIdle

LEMMA RenewalKeepsTypes ==
    ASSUME TabTypeOK, NEW t \in Tab, Renew(t)
    PROVE  TabTypeOK'
<1>1. /\ holder' \in Tab \cup {NoOne, Gone}
      /\ mode = "locks" => holder' # Gone
      /\ live' \in BOOLEAN
    BY NamesAssumption DEF Renew, TabTypeOK, right
<1>2. releases' \in [Tab -> 0..MaxReleases]
    BY BoundsAssumption DEF Renew, TabTypeOK
<1> QED
    BY <1>1, <1>2 DEF Renew, TabTypeOK, mine

LEMMA WritingKeepsTypes ==
    ASSUME TabTypeOK, NEW t \in Tab, PutThread(t) \/ ClearHistory(t)
    PROVE  TabTypeOK'
<1>1. copy' \in [Tab -> {"none", "fresh", "stale"}]
    BY StoredTyped DEF PutThread, ClearHistory
<1>2. /\ mail' \in [Tab -> SUBSET Kind]
      /\ \A u \in Tab \ open : mail'[u] = {}
    BY TellsTyped DEF PutThread, ClearHistory, Kind, TabTypeOK
<1>3. /\ holder' \in Tab \cup {NoOne, Gone}
      /\ mode = "locks" => holder' # Gone
      /\ live' \in BOOLEAN
    BY NamesAssumption DEF PutThread, ClearHistory, TabTypeOK, right
<1> QED
    BY <1>1, <1>2, <1>3 DEF PutThread, ClearHistory, TabTypeOK, mine, work

LEMMA NextKeepsTypes == TabTypeOK /\ [TabNext]_tabVars => TabTypeOK'
<1> SUFFICES ASSUME TabTypeOK, [TabNext]_tabVars PROVE TabTypeOK'
    OBVIOUS
<1>1. CASE Expire
    BY <1>1 DEF Expire, TabTypeOK, mine, work, NoOne, Gone
<1>2. ASSUME NEW t \in Tab, Open(t) \/ Close(t) PROVE TabTypeOK'
    BY <1>2, PagesKeepTypes
<1>3. ASSUME NEW t \in Tab, Decides(t) PROVE TabTypeOK'
    BY <1>3, BootKeepsTypes, AcquiredKeepsTypes, RefusalKeepsTypes DEF Decides
<1>4. ASSUME NEW t \in Tab, Loads(t) PROVE TabTypeOK'
    BY <1>4, LoadsKeepTypes DEF Loads
<1>5. ASSUME NEW t \in Tab, Click(t) \/ TimerFires(t) \/ HearReleased(t) PROVE TabTypeOK'
    BY <1>5, AskingKeepsTypes
<1>6. ASSUME NEW t \in Tab, HearTakeOver(t) \/ HearChange(t) PROVE TabTypeOK'
    BY <1>6, HearingKeepsTypes
<1>7. ASSUME NEW t \in Tab, ReleaseEnds(t) \/ Renew(t) PROVE TabTypeOK'
    BY <1>7, ReleaseKeepsTypes, RenewalKeepsTypes
<1>8. ASSUME NEW t \in Tab, PutThread(t) \/ ClearHistory(t) PROVE TabTypeOK'
    BY <1>8, WritingKeepsTypes
<1>9. CASE UNCHANGED tabVars
    BY <1>9 DEF tabVars, TabTypeOK
<1> QED
    BY <1>1, <1>2, <1>3, <1>4, <1>5, <1>6, <1>7, <1>8, <1>9, Zenon DEF TabNext, Hears

\* The variables keep their types, and a page that is closed has no call,
\* load or message of its own left.
THEOREM TabTypes == TabSpec => []TabTypeOK
<1>1. ASSUME TabInit PROVE TabTypeOK
    <2>1. /\ owned \in [Tab -> BOOLEAN] /\ renewing \in [Tab -> BOOLEAN]
          /\ asking \in [Tab -> BOOLEAN]
        BY <1>1, Zenon DEF TabInit
    <2>2. /\ calls \in [Tab -> SUBSET (Asker \cup {"boot"})]
          /\ loads \in [Tab -> SUBSET {"boot", "take-over"}]
          /\ mail \in [Tab -> SUBSET Kind]
          /\ copy \in [Tab -> {"none", "fresh", "stale"}]
        BY <1>1 DEF TabInit
    <2>3. timers \in [Tab -> 0..MaxTimers] /\ releases \in [Tab -> 0..MaxReleases]
        BY <1>1, BoundsAssumption DEF TabInit
    <2>4. mode \in Modes /\ holder = NoOne /\ NoOne # Gone /\ live = TRUE /\ open = {}
        BY <1>1 DEF TabInit, NoOne, Gone
    <2>5. ClosedIsIdle
        BY <1>1 DEF TabInit, ClosedIsIdle
    <2> QED
        BY <2>1, <2>2, <2>3, <2>4, <2>5 DEF TabTypeOK, ClosedIsIdle
<1> QED
    BY <1>1, NextKeepsTypes, PTL DEF TabSpec

-----------------------------------------------------------------------------
(* One writer with a current copy.                                         *)

\* With Web Locks, or when no page misses the renewals of its lease.
Timely == mode = "locks" \/ ~LateRenewal

\* A lease that is named is one that runs.
LeaseRuns == mode = "lease" => live

\* The tab that is the writer, and not about to ask whether it is, is the one
\* that the lock or the lease is given to.
WriterHolds == \A t \in Tab : Ready(t) /\ owned[t] => holder = t

WriterInv == LeaseRuns /\ WriterHolds /\ WriterIsCurrent

\* The right is given to nobody as long as another tab is the writer.
LEMMA GrantsAreExclusive ==
    ASSUME TabTypeOK, LeaseRuns, WriterHolds, NEW t \in Tab, NEW u \in Tab,
           Grants(t), Ready(u), owned[u]
    PROVE  u = t
BY NamesAssumption DEF TabTypeOK, LeaseRuns, WriterHolds, Grants

LEMMA OneHolder == WriterHolds => OneWriter
BY DEF WriterHolds, OneWriter

LEMMA PagesKeepWriter ==
    ASSUME TabTypeOK, WriterInv, NEW t \in Tab, Open(t) \/ Close(t)
    PROVE  WriterInv'
<1>1. CASE Open(t)
    <2>1. ~Ready(t)'
        BY <1>1 DEF Open, Ready, TabTypeOK, Add
    <2>2. \A u \in Tab : u # t => (Ready(u)' <=> Ready(u)) /\ owned'[u] = owned[u]
        BY <1>1 DEF Open, Ready, TabTypeOK, Add
    <2> QED
        BY <1>1, <2>1, <2>2 DEF Open, WriterInv, LeaseRuns, WriterHolds, WriterIsCurrent, right
<1>2. CASE Close(t)
    <2>1. ~Ready(t)'
        BY <1>2 DEF Close, Ready
    <2>2. \A u \in Tab : u # t => /\ Ready(u)' => Ready(u)
                                  /\ owned'[u] = owned[u] /\ copy'[u] = copy[u]
        BY <1>2 DEF Close, Ready, TabTypeOK
    <2>3. \A u \in Tab : u # t /\ holder = u => holder' = u
        BY <1>2 DEF Close
    <2> QED
        BY <1>2, <2>1, <2>2, <2>3 DEF Close, WriterInv, LeaseRuns, WriterHolds, WriterIsCurrent
<1> QED
    BY <1>1, <1>2

\* A decision, of a booting page or of one that takes over: whoever gets the
\* right is the only writer and has dropped its copy.
LEMMA DecidedKeepsWriter ==
    ASSUME TabTypeOK, WriterInv, NEW t \in open, NEW granted \in BOOLEAN,
           Decided(t, granted),
           granted => Grants(t) /\ copy'[t] = "none",
           \A u \in Tab : u # t => calls'[u] = calls[u] /\ copy'[u] = copy[u],
           open' = open, mode' = mode
    PROVE  WriterInv'
<1>0. t \in Tab
    BY DEF TabTypeOK
<1>1. owned'[t] = granted /\ \A u \in Tab : u # t => owned'[u] = owned[u]
    BY DecidedTyped
<1>2. LeaseRuns'
    BY DEF WriterInv, LeaseRuns, Decided
<1>3. \A u \in Tab : u # t => (Ready(u)' <=> Ready(u))
    BY DEF Ready
<1>4. ASSUME NEW u \in Tab, Ready(u)', owned'[u]
      PROVE  holder' = u /\ copy'[u] # "stale"
    <2>1. CASE u = t
        BY <1>0, <1>1, <1>4, <2>1 DEF Decided
    <2>2. CASE u # t
        <3>1. Ready(u) /\ owned[u]
            BY <1>1, <1>3, <1>4, <2>2
        <3>2. ~granted
            BY <1>0, <2>2, <3>1, GrantsAreExclusive DEF WriterInv
        <3>3. holder' = holder
            BY <3>2 DEF Decided
        <3> QED
            BY <2>2, <3>1, <3>3 DEF WriterInv, WriterHolds, WriterIsCurrent
    <2> QED BY <2>1, <2>2
<1> QED
    BY <1>2, <1>4 DEF WriterInv, WriterHolds, WriterIsCurrent

LEMMA DecisionsKeepWriter ==
    ASSUME TabTypeOK, WriterInv, NEW t \in Tab, Decides(t)
    PROVE  WriterInv'
<1>1. CASE BootDecided(t)
    <2>1. t \in open /\ Decided(t, Grants(t)) /\ Grants(t) \in BOOLEAN
        BY <1>1 DEF BootDecided, TabTypeOK, Grants
    <2>2. /\ copy'[t] = "none" /\ open' = open /\ mode' = mode
          /\ \A u \in Tab : u # t => calls'[u] = calls[u] /\ copy'[u] = copy[u]
        BY <1>1 DEF BootDecided, Reloads, Drop, TabTypeOK
    <2> QED
        BY <2>1, <2>2, DecidedKeepsWriter
<1>2. ASSUME NEW o \in Asker, Acquired(t, o) PROVE WriterInv'
    <2>1. t \in open /\ Decided(t, TRUE) /\ Grants(t)
        BY <1>2 DEF Acquired, TabTypeOK
    <2>2. /\ copy'[t] = "none" /\ open' = open /\ mode' = mode
          /\ \A u \in Tab : u # t => calls'[u] = calls[u] /\ copy'[u] = copy[u]
        BY <1>2 DEF Acquired, Reloads, Drop, TabTypeOK
    <2> QED
        BY <2>1, <2>2, DecidedKeepsWriter
<1>3. ASSUME NEW o \in Asker, NotAcquired(t, o) PROVE WriterInv'
    <2>1. t \in open /\ Decided(t, FALSE)
        BY <1>3 DEF NotAcquired, TabTypeOK
    <2>2. /\ open' = open /\ mode' = mode
          /\ \A u \in Tab : u # t => calls'[u] = calls[u] /\ copy'[u] = copy[u]
        BY <1>3 DEF NotAcquired, Drop, TabTypeOK
    <2> QED
        BY <2>1, <2>2, DecidedKeepsWriter
<1> QED
    BY <1>1, <1>2, <1>3 DEF Decides

\* Loading, asking and hearing give nobody the right to write.
LEMMA AskingKeepsWriter ==
    ASSUME TabTypeOK, WriterInv, NEW t \in Tab,
           Loads(t) \/ Click(t) \/ TimerFires(t) \/ Hears(t)
    PROVE  WriterInv'
<1>1. holder' = holder /\ live' = live /\ mode' = mode /\ open' = open /\ owned' = owned
    BY DEF Loads, LoadEnds, LoadFails, Click, TimerFires, Hears, HearTakeOver,
           HearReleased, HearChange, right, mine
<1>2. \A u \in Tab : Ready(u)' <=> Ready(u)
    BY <1>1 DEF Loads, LoadEnds, LoadFails, Click, TimerFires, Hears, HearTakeOver,
                HearReleased, HearChange, Ready, TabTypeOK, Add
<1>3. \A u \in Tab : copy'[u] = copy[u] \/ copy'[u] = "fresh"
    BY DEF Loads, LoadEnds, LoadFails, Click, TimerFires, Hears, HearTakeOver,
           HearReleased, HearChange, TabTypeOK
<1> QED
    BY <1>1, <1>2, <1>3 DEF WriterInv, LeaseRuns, WriterHolds, WriterIsCurrent

LEMMA ReleaseKeepsWriter ==
    ASSUME TabTypeOK, WriterInv, NEW t \in Tab, ReleaseEnds(t)
    PROVE  WriterInv'
<1>1. /\ ~owned'[t] /\ live' = live /\ mode' = mode
      /\ \A u \in Tab : u # t => owned'[u] = owned[u] /\ copy'[u] = copy[u]
    BY DEF ReleaseEnds, TabTypeOK
<1>2. \A u \in Tab : Ready(u)' <=> Ready(u)
    BY DEF ReleaseEnds, Ready
<1>3. \A u \in Tab : u # t /\ holder = u => holder' = u
    BY DEF ReleaseEnds
<1> QED
    BY <1>1, <1>2, <1>3 DEF WriterInv, LeaseRuns, WriterHolds, WriterIsCurrent

LEMMA RenewalKeepsWriter ==
    ASSUME TabTypeOK, WriterInv, NEW t \in Tab, Renew(t)
    PROVE  WriterInv'
<1>1. owned' = owned /\ copy' = copy /\ mode' = mode /\ calls' = calls /\ open' = open
    BY DEF Renew, mine
<1>2. LeaseRuns'
    BY DEF Renew, WriterInv, LeaseRuns, right
<1>3. ASSUME NEW u \in Tab, Ready(u), owned[u] PROVE holder' = u
    BY <1>3, GrantsAreExclusive DEF Renew, WriterInv, WriterHolds, right
<1> QED
    BY <1>1, <1>2, <1>3 DEF WriterInv, Ready, WriterHolds, WriterIsCurrent

\* What the writer stores leaves only readers behind.
LEMMA WritingKeepsWriter ==
    ASSUME TabTypeOK, WriterInv, NEW t \in Tab, PutThread(t) \/ ClearHistory(t)
    PROVE  WriterInv'
<1>1. /\ owned' = owned /\ mode' = mode /\ calls' = calls /\ open' = open
      /\ Ready(t) /\ owned[t] /\ copy' = Stored(t)
    BY DEF PutThread, ClearHistory, mine, work
<1>2. LeaseRuns' /\ (holder' = holder \/ holder' = t)
    BY DEF PutThread, ClearHistory, WriterInv, LeaseRuns, right
<1>3. ASSUME NEW u \in Tab, Ready(u), owned[u] PROVE u = t
    BY <1>1, <1>3, OneHolder DEF WriterInv, OneWriter
<1>4. copy'[t] = "fresh"
    BY <1>1, StoredTyped
<1> QED
    BY <1>1, <1>2, <1>3, <1>4 DEF WriterInv, Ready, WriterHolds, WriterIsCurrent

LEMMA NextKeepsWriter ==
    TabTypeOK /\ (Timely => WriterInv) /\ [TabNext]_tabVars => (Timely => WriterInv)'
<1> SUFFICES ASSUME TabTypeOK, Timely => WriterInv, [TabNext]_tabVars, Timely' PROVE WriterInv'
    OBVIOUS
<1>0. Timely /\ WriterInv
    <2>1. mode' = mode
        BY DEF TabNext, tabVars, Expire, Open, Close, Click, PutThread, ClearHistory, Decides,
               BootDecided, Acquired, NotAcquired, Loads, LoadEnds, LoadFails, Hears,
               HearTakeOver, HearReleased, HearChange, TimerFires, ReleaseEnds, Renew
    <2> QED BY <2>1 DEF Timely
<1>1. CASE Expire
    <2>1. holder' = NoOne /\ holder = Gone /\ live' = live /\ mode' = mode
        BY <1>0, <1>1 DEF Expire, Timely
    <2>2. owned' = owned /\ copy' = copy /\ calls' = calls /\ open' = open
        BY <1>1 DEF Expire, mine, work
    <2> QED
        BY <1>0, <2>1, <2>2, NamesAssumption
           DEF WriterInv, LeaseRuns, Ready, WriterHolds, WriterIsCurrent
<1>2. ASSUME NEW t \in Tab, Open(t) \/ Close(t) PROVE WriterInv'
    BY <1>0, <1>2, PagesKeepWriter
<1>3. ASSUME NEW t \in Tab, Decides(t) PROVE WriterInv'
    BY <1>0, <1>3, DecisionsKeepWriter
<1>4. ASSUME NEW t \in Tab, Loads(t) \/ Click(t) \/ TimerFires(t) \/ Hears(t) PROVE WriterInv'
    BY <1>0, <1>4, AskingKeepsWriter
<1>5. ASSUME NEW t \in Tab, ReleaseEnds(t) \/ Renew(t) PROVE WriterInv'
    BY <1>0, <1>5, ReleaseKeepsWriter, RenewalKeepsWriter
<1>6. ASSUME NEW t \in Tab, PutThread(t) \/ ClearHistory(t) PROVE WriterInv'
    BY <1>0, <1>6, WritingKeepsWriter
<1>7. CASE UNCHANGED tabVars
    BY <1>0, <1>7 DEF tabVars, WriterInv, LeaseRuns, Ready, WriterHolds, WriterIsCurrent
<1> QED
    BY <1>1, <1>2, <1>3, <1>4, <1>5, <1>6, <1>7, Zenon DEF TabNext

\* The inductive invariant: it holds in every state of every behaviour.
THEOREM WriterInvariance == TabSpec => [](TabTypeOK /\ (Timely => WriterInv))
<1>1. TabInit => (Timely => WriterInv)
    BY DEF TabInit, WriterInv, LeaseRuns, Ready, WriterHolds, WriterIsCurrent
<1> QED
    BY <1>1, NextKeepsWriter, TabTypes, PTL DEF TabSpec

\* Whatever tabs open, close, press the button and hear from each other, two
\* of them are never writers together: with Web Locks always, with leases as
\* long as the pages renew them in time.
THEOREM OneWriterAtATime == TabSpec => [](Timely => OneWriter)
<1>1. (Timely => WriterInv) => (Timely => OneWriter)
    BY OneHolder DEF WriterInv
<1> QED
    BY <1>1, WriterInvariance, PTL

\* Under the same condition the writer's copy never lacks what another tab
\* has stored, so nothing it saves undoes another tab's work.
THEOREM WriterSavesCurrentHistory == TabSpec => [](Timely => WriterIsCurrent)
<1>1. (Timely => WriterInv) => (Timely => WriterIsCurrent)
    BY DEF WriterInv
<1> QED
    BY <1>1, WriterInvariance, PTL

===============================================================================
