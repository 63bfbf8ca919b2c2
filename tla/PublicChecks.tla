---------------------------- MODULE PublicChecks -----------------------------
(***************************************************************************)
(* The public service over small worlds: two characters, two rooms, every  *)
(* kind of message and answer, a few steps.                                *)
(***************************************************************************)
EXTENDS Integers, Sequences, FiniteSets, TLC
LOCAL INSTANCE Arrivals WITH Rooms <- {"cafe", "park"}

LOCAL Who == {"she", "other"}
LOCAL Start == [at |-> [c \in Who |-> IF c = "she" THEN "home" ELSE "park"], spot |-> "home",
                pending |-> {}, events |-> << >>, rev |-> 1]

LOCAL Message(seeks, asks, named, continues, blocked) ==
  [seeks |-> seeks, asks |-> asks, named |-> named, activity |-> "nowhere", continues |-> continues, blocked |-> blocked]
LOCAL Invitation(r) == Message({}, TRUE, r, FALSE, FALSE)
LOCAL Messages ==
  {Invitation("cafe"), Message({"other"}, FALSE, "nowhere", FALSE, FALSE),
   Message({}, FALSE, "nowhere", TRUE, FALSE), Message({}, TRUE, "cafe", FALSE, TRUE)}
LOCAL Requests(id) ==
  {[id |-> id, message |-> m, history |-> h, channel |-> ch, chosen |-> x, catalogue |-> TRUE] :
     m \in Messages, h \in {<< >>, <<Invitation("park")>>}, ch \in {"text", "in_person"}, x \in {"nowhere", "cafe"}}
LOCAL Answers ==
  {[blocked |-> b, asksBack |-> q, eager |-> e, yes |-> TRUE, waits |-> w] :
     b, q, e \in BOOLEAN, w \in {"no", "there", "ahead"}}
LOCAL SureAnswers == {[blocked |-> FALSE, asksBack |-> FALSE, eager |-> TRUE, yes |-> TRUE, waits |-> w] : w \in {"no", "there"}}

(* A world with the rendezvous the ledger of proactive messages holds open. *)
LOCAL Turn(s, id, answers) ==
  UNION {{LET done == ApplyJointMovement(s.world, req, "she", a)
                     told == AuthorityChange(s.world, done.world, "she", TRUE, done.status = "character_waiting")
                 IN [world |-> done.world, open |-> (s.open \ told.closed) \cup told.created] :
                   req \in Requests(id)} : a \in answers}
LOCAL Visit(s, id) ==
  {LET told == AuthorityChange(s.world, w, "she", TRUE, FALSE) IN [world |-> w, open |-> s.open \ told.closed] :
     w \in {TransitionPresence(s.world, "she", <<id, "go">>, "in_person"),
            TransitionPresence(s.world, "she", <<id, "text">>, "text"),
            PreparePresenceArrival(s.world, "she", <<id, "arrive">>)}}

LOCAL Lived ==
  LET live[n \in 0..3] ==
        IF n = 0 THEN {[world |-> Start, open |-> {}]}
        ELSE live[n - 1] \cup UNION {Turn(s, n, SureAnswers) \cup Visit(s, n) : s \in live[n - 1]}
  IN live[3]

(* Who waits is where it was agreed, and the ledger knows of it; a visitor  *)
(* who goes to her is with her and keeps nobody waiting.                    *)
WaitsThere ==
  \A s \in Lived :
    /\ \A p \in s.world.pending : s.world.at[p.who] = p.room
    /\ s.open = {p.id : p \in s.world.pending}
    /\ \A next \in {TransitionPresence(s.world, "she", "go", "in_person"), PreparePresenceArrival(s.world, "she", "go")} :
         next.spot = next.at["she"] /\ PendingFor(next, "she") = {}

(* The same answered request moves nobody twice, also when up to three      *)
(* other things happened in between.                                        *)
MovesOnce ==
  \A s \in Lived : \A req \in Requests(9), a \in SureAnswers :
    LET once == ApplyJointMovement(s.world, req, "she", a).world
        visited == Visit([world |-> once, open |-> {}], 10)
        again(w) == ApplyJointMovement(w, req, "she", a).world
    IN /\ again(once) = once
       /\ once # s.world => \A v \in visited : again(v.world) = v.world

(* Whatever is said, the visitor is moved by no text, and she by no refusal. *)
MovesByAgreement ==
  \A req \in Requests(9), a \in Answers :
    LET done == ApplyJointMovement(Start, req, "she", a).world IN
    /\ req.channel = "text" => done.spot = Start.spot
    /\ (a.blocked \/ (a.asksBack /\ ~a.eager) \/ req.message.blocked) => done = Start
    /\ req.channel = "in_person" /\ a.waits = "ahead" => done = Start

(* However often an arrival or a summary is sent, with whatever fate, it is  *)
(* paid for once, and an answer given stands.                                *)
LOCAL Fates ==
  {"ok", "provider", "guard", "silent", "empty", "stopped", "unsaved", "crash", "invalid", "preflight", "busy", "limits"}
LOCAL Tickets ==
  {[replayOnly |-> r, enabled |-> TRUE, joined |-> TRUE, ticket |-> t, late |-> l] :
     r, l \in BOOLEAN, t \in {"valid", "expired"}}
LOCAL Handle(kind, s) ==
  CASE kind = "arrival" -> UNION {PresenceArrival(s, d, o) : d \in {"noticed", "unnoticed"}, o \in Fates}
    [] kind = "arrival-v2" -> UNION {PresenceArrivalV2(s, e, o) : e \in Tickets, o \in Fates}
    [] OTHER -> UNION {Summarize(s, o) : o \in Fates}

LOCAL Rows(kind) ==
  LET seen[n \in 0..4] ==
        IF n = 0 THEN {Unclaimed} ELSE seen[n - 1] \cup UNION {Handle(kind, s) \cup Expire(s) : s \in seen[n - 1]}
  IN seen[4]

PaidForOnce ==
  \A kind \in {"arrival", "arrival-v2", "summary"} : \A s \in Rows(kind) :
    /\ s.paid <= 1
    /\ s.row = "none" => s.paid = 0
    /\ s.row = "completed" => Handle(kind, s) \cup Expire(s) = {s}
    /\ s.result \in {"noticed", "summary"} => s.paid = 1

(* A ticket is worth exactly its five minutes.                               *)
TicketInTime ==
  \A issued \in {0, 5}, now \in {0, 4, 5, 299, 300, 304, 305} :
    LET t == [signed |-> TRUE, of |-> "me", issued |-> issued]
        status == TicketStatus(t, [of |-> "me"], now)
    IN (status = "valid") <=> (now >= issued /\ now - issued < 300)

(***************************************************************************)
(* Credentials: every order of two revocations and a cleanup at the        *)
(* server, rotations of the signing keys, and the histories of a browser   *)
(* with two credentials, three revocations and one reload.                 *)
(***************************************************************************)
LOCAL Seal == INSTANCE Credentials

LOCAL Settings == [tabHours |-> 6]
LOCAL KeyKinds == {<<"vendor", "tab">>, <<"relay", "tab">>, <<"vendor", "long">>, <<"relay", "short">>}
LOCAL Hours == {0, 1, 2, 5, 6, 7, 167, 168, 169, 191, 192, 193, 240}

(* A credential that carries its time of issue and is not younger than a   *)
(* revocation never opens again, in whatever order revocations are stored  *)
(* and whenever their row is cleaned up; every other one opens, for its    *)
(* subject and provider alone, until it ends.                              *)
RevokedForGood ==
  \A kind \in KeyKinds, at \in {0, 2, 6}, first \in Hours, second \in Hours, cleaned \in Hours, now \in Hours :
    LET cred == Seal!Issued(Settings, "me", kind[1], kind[2], at)
        row == Seal!Revoked(Seal!Revoked(Seal!NoRevocation, first), second)
        kept == IF cleaned <= now THEN Seal!Cleaned(row, cleaned) ELSE row
        last == IF first < second THEN second ELSE first
        Opens(subject, provider) == Seal!Opens(Settings, cred, subject, provider, now, kept)
    IN now >= last /\ now >= at /\ cleaned >= last =>
         /\ Opens("me", kind[1]) <=> now < cred.exp /\ (cred.version = 1 \/ at > last)
         /\ ~Opens("other", kind[1]) /\ ~Opens("me", "another")

LOCAL Configurations ==
  [key : {"k1", "k2", "k3"}, id : {"", "a", "b", "c"}, previous : {""}, previousId : {""}]
LOCAL Rotated(conf, key, id) == [key |-> key, id |-> id, previous |-> conf.key, previousId |-> conf.id]

(* A package signed before one rotation is still accepted after it, named  *)
(* keys or not, and so is one signed before its key was given a name;      *)
(* after a second rotation it is refused.                                  *)
KeysRotate ==
  \A conf \in Configurations, id2, id3 \in {"", "a", "b", "c"} :
    \A k2 \in {"k1", "k2", "k3"} \ {conf.key} : \A k3 \in {"k1", "k2", "k3"} \ {conf.key, k2} :
      LET second == Rotated(conf, k2, id2)
          third == Rotated(second, k3, id3)
      IN \A package \in {Seal!Signed(conf), Seal!Signed([conf EXCEPT !.id = ""])} :
           /\ Seal!Verifies(conf, package)
           /\ Seal!Verifies(second, package)
           /\ ~Seal!Verifies(third, package)

LOCAL BrowserMoves(b) ==
  LET three == Len(b.calls) >= 3 IN
  (IF three /\ Seal!Kept(b) THEN {} ELSE Seal!Clear(b))
  \cup (IF three THEN {} ELSE Seal!Boot(b))
  \cup (IF three \/ Len(b.creds) >= 2 THEN {}
        ELSE UNION {Seal!BeginIssue(b, k[1], k[2]) : k \in KeyKinds \ {<<"relay", "short">>}})
  \cup Seal!Abort(b) \cup Seal!Issue(b, Settings)
  \cup UNION {Seal!Execute(b, i) \cup Seal!Confirmed(b, i) \cup Seal!GivenUp(b, i)
                \cup Seal!Unanswered(b, i) : i \in DOMAIN b.calls}

LOCAL BrowserHistories ==
  LET grow[n \in 0..60] ==
        IF n = 0 THEN << {Seal!Browser}, {Seal!Browser} >>
        ELSE LET old == grow[n - 1]
                 new == UNION {BrowserMoves(b) : b \in old[2]} \ old[1]
             IN IF old[2] = {} THEN old ELSE << old[1] \cup new, new >>
  IN grow[60]

(* Without a mark in the storage every credential that was kept and then   *)
(* cleared or replaced is revoked, unless the server refused to for good   *)
(* or two revocations overlapped, where the answer to one takes away the   *)
(* mark of the other.  One that was not cleared opens, unless a revocation *)
(* was on its way when it was issued, or it is a relay's of one tab, which *)
(* a later retry revokes with the others.                                  *)
ClearedIsRevoked ==
  LET all == BrowserHistories IN
  /\ all[2] = {}
  /\ \A b \in all[1] : \A n \in DOMAIN b.creds :
       LET cred == b.creds[n]
           Opens == Seal!Opens(Settings, cred, "me", cred.provider, b.clock, b.row)
       IN /\ n \in (b.cleared \ b.given) /\ cred.retention # "tab" /\ ~b.pending /\ ~b.overlaps => ~Opens
          /\ n \notin (b.cleared \cup b.crossed) /\ <<cred.provider, cred.retention>> # <<"relay", "tab">>
               => Opens \/ b.clock >= cred.exp

ASSUME WaitsThere
ASSUME MovesOnce
ASSUME MovesByAgreement
ASSUME PaidForOnce
ASSUME TicketInTime
ASSUME RevokedForGood
ASSUME KeysRotate
ASSUME ClearedIsRevoked

-----------------------------------------------------------------------------
(***************************************************************************)
(* Media over two characters with two expressions and one performance      *)
(* each: art with everything in order or one thing wrong, a built release  *)
(* with each of its files and lines changed, lost, doubled or added, and   *)
(* conversations of a few turns with three stickers.                       *)
(***************************************************************************)
LOCAL Shown == {"mia", "ada"}
LOCAL M == INSTANCE MediaRelease WITH Characters <- Shown, States <- {"neutral", "happy"}

LOCAL Neutral == <<0, 1, 2>>
LOCAL Layer(role, px, at) == [role |-> role, px |-> px, at |-> at]
LOCAL Art(layers, preview, region) ==
  [reviewed |-> TRUE, base |-> Neutral, preview |-> preview, layers |-> layers, region |-> region, armsWhole |-> TRUE,
   round |-> 1, pose |-> [approved |-> TRUE, sealed |-> TRUE, selected |-> TRUE, preview |-> preview, layers |-> layers],
   fallback |-> "happy", design |-> "mia"]
LOCAL Smile == Layer("head_face", <<0, 3>>, 1)
LOCAL NeutralArt == Art(<<Layer("neutral_base", Neutral, 0)>>, Neutral, {})
LOCAL HappyArt == Art(<<Layer("neutral_base", Neutral, 0), Smile>>, <<0, 1, 3>>, {3})
LOCAL PoseArt == Art(<<Layer("reviewed_pose_underlay", <<0, 4, 0>>, 0), Smile>>, <<0, 4, 3>>, {2, 3})

(* Art of which one thing may be wrong: the base, where the face is drawn,  *)
(* what was approved, where it may differ.                                  *)
LOCAL Sketches ==
  {Art(<<Layer(role, base, 0), Layer("head_face", face, at)>>, preview, region) :
     role \in {"neutral_base", "neutral_underlay", "reviewed_pose_underlay"},
     base \in {Neutral, <<0, 1, 0>>, <<0, 4, 0>>, <<0, 0, 0>>}, face \in {<<0, 3>>, <<3, 0>>, <<3, 3>>}, at \in 0..2,
     preview \in {Neutral, <<0, 1, 3>>, <<0, 4, 3>>, <<0, 3, 2>>, <<0, 3, 0>>, <<0, 0, 3>>}, region \in {{}, {3}, {2, 3}}}
LOCAL Unsealed == {[a EXCEPT !.pose.sealed = FALSE] : a \in Sketches}

(* What is accepted as an expression shows the locked character wherever    *)
(* nobody allowed a change; and a base that hides or replaces part of it    *)
(* does so only inside that region or as a sealed pose.                     *)
OnlyTheRegionChanges ==
  \A a \in {a \in Sketches \cup Unsealed : M!ValidPresentation(a, "happy", Neutral)} :
    \A p \in 1..3 :
      LET seen == M!Flatten(a.layers, 3)[p] IN
      /\ seen # Neutral[p] => p \in a.region
      /\ a.layers[1].px[p] \notin {0, Neutral[p]} => (a.pose.sealed /\ a.pose.layers = a.layers)
      /\ a.layers[1].px[p] # Neutral[p] => (p \in a.region \/ M!Covers(a.layers[2], p) \/ seen = Neutral[p])

LOCAL Approval(c, happy, cues) ==
  [of |-> c, policy |-> "layered", sharedPolicy |-> "layered", allApproved |-> TRUE, neutral |-> Neutral,
   neutralReview |-> [approved |-> TRUE, of |-> Neutral], states |-> [s \in {"neutral", "happy"} |-> IF s = "happy" THEN happy ELSE NeutralArt],
   inventory |-> {[sealed |-> TRUE, cues |-> cues, decided |-> cues]},
   performances |-> [q \in cues |-> [PoseArt EXCEPT !.design = c]]]
LOCAL Approvals == [c \in Shown |-> Approval(c, HappyArt, IF c = "mia" THEN {"wave"} ELSE {})]

LOCAL Picture(n) == [px |-> <<n>>, form |-> "avatar", size |-> <<1, 1>>, alpha |-> FALSE]
LOCAL AvatarRef(id, n) == [path |-> <<"avatars", id, Picture(n)>>, hash |-> Picture(n)]
LOCAL AvatarRow(id, n) ==
  [id |-> id, evidence |-> M!LicenseEvidence, thumbnail |-> AvatarRef(id, n), stage |-> AvatarRef(id, n + 1),
   expressions |-> {}, states |-> 0, performances |-> 0, source |-> "none"]
LOCAL AvatarManifest ==
  [version |-> "avatars-1", schema |-> 3, reviewed |-> TRUE, analyst |-> {AvatarRow("analyst", 30)},
   characters |-> <<AvatarRow("mia", 10), AvatarRow("ada", 20)>>, totals |-> << >>]
LOCAL Avatars ==
  M!Sealed((M!Top :> AvatarManifest) @@ M!FilesOf({AvatarRef("mia", 10), AvatarRef("mia", 11), AvatarRef("ada", 20),
                                                   AvatarRef("ada", 21), AvatarRef("analyst", 30), AvatarRef("analyst", 31)}))

LOCAL Sources == [pending |-> TRUE, rows |-> [c \in Shown |-> c]]
LOCAL Rights(approvals) ==
  [index |-> Sources, expressions |-> 4, performances |-> 1, status |-> "waiver",
   rights |-> [granted |-> TRUE, scope |-> "runtime", independent |-> FALSE, verified |-> FALSE, authorized |-> TRUE],
   rows |-> [c \in Shown |-> [source |-> Sources.rows[c], approval |-> approvals[c]]], authorization |-> {}]
LOCAL Inputs(approvals) ==
  [sources |-> Sources, rights |-> Rights(approvals), approvals |-> approvals, avatars |-> Avatars, reuse |-> {}, lossy |-> {}]
LOCAL Good == Inputs(Approvals)

(* An encoder that keeps a color within one, one that loses a pixel.        *)
LOCAL Encoders ==
  LET all == UNION {{l.px : l \in {a.layers[i] : i \in DOMAIN a.layers}} : a \in {NeutralArt, HappyArt, PoseArt}}
  IN {[px \in all |-> IF px = <<0, 3>> THEN <<0, n>> ELSE px] : n \in {0, 1, 2, 3, 4}}

LOCAL PrivatePackage ==
  LET inner(c) == [M!RuntimeManifest(Good, c) EXCEPT !.status = "pending"]
  IN M!Sealed((M!Top :> [pending |-> TRUE, event |-> "approved", characters |-> Shown])
              @@ M!FilesOf({[path |-> M!Inner(c), hash |-> inner(c)] : c \in Shown} \cup UNION {M!InnerRefs(inner(c)) : c \in Shown}))
LOCAL Reusing(package) ==
  [Good EXCEPT !.reuse = {package}, !.rights.authorization = {[package |-> PrivatePackage, event |-> "approved"]}]
LOCAL Unplain(c) ==
  LET inner == [PrivatePackage.files[M!Inner(c)] EXCEPT !.extra = {"note"}]
  IN M!Sealed([PrivatePackage.files EXCEPT ![M!Inner(c)] = inner])

LOCAL AllInputs ==
  {Good} \cup {[Good EXCEPT !.lossy = {e}] : e \in Encoders}
    \cup {Inputs([Approvals EXCEPT !["ada"] = Approval("ada", a, {})]) : a \in {HappyArt, [HappyArt EXCEPT !.region = {2}], PoseArt,
                                                                              [PoseArt EXCEPT !.pose.sealed = FALSE]}}
    \cup {Inputs([Approvals EXCEPT !["ada"] = Approvals["mia"]]), [Good EXCEPT !.approvals["ada"].states["happy"] = PoseArt],
          [Good EXCEPT !.rights.rights.independent = TRUE], [Good EXCEPT !.rights.performances = 2]}
    \cup {Reusing(PrivatePackage), Reusing(Unplain("ada")), [Reusing(PrivatePackage) EXCEPT !.lossy = {CHOOSE e \in Encoders : TRUE}]}
LOCAL Builds == {b \in UNION {{[in |-> in, release |-> r] : r \in M!BuildRelease(in, in, "v1", FALSE)} : in \in AllInputs} : TRUE}

(* What a release draws for a character is, pixel by pixel, what a person   *)
(* approved, at most a shade off where it was encoded with loss; its        *)
(* fallback pictures are the approved ones exactly; and nothing of a        *)
(* private package but the contract's fields gets out.                      *)
ShowsWhatWasApproved ==
  /\ \E b \in Builds : b.in.lossy # {}
  /\ \E b \in Builds : b.in.reuse # {}
  /\ \A b \in Builds : \A c \in Shown :
       LET m == b.release.files[M!Inner(c)]
           arts == [s \in {"neutral", "happy"} |-> b.in.approvals[c].states[s]] @@ b.in.approvals[c].performances
       IN /\ m.extra = {} /\ m.status = "waiver"
          /\ \A row \in M!RowsOf(m) :
               LET art == arts[row.shown[2]] IN
               /\ M!Near(art.preview, M!Drawn(m.presentations[row.shown]))
               /\ b.in.lossy = {} => M!Drawn(m.presentations[row.shown]) = art.preview
               /\ row.stage.hash.px = art.preview /\ row.face.hash.px = art.preview

(* Nothing is published over a release or from inputs that changed while    *)
(* it was built, whatever of them changed.                                  *)
ChangedInputsStop ==
  LET late == {[Good EXCEPT !.approvals["ada"].states["happy"].round = 2], [Good EXCEPT !.rights.performances = 0],
               [Good EXCEPT !.sources.pending = FALSE], [Good EXCEPT !.avatars = PrivatePackage]}
  IN /\ M!BuildRelease(Good, Good, "v1", FALSE) # {} /\ M!BuildRelease(Good, Good, "v1", TRUE) = {}
     /\ \A l \in late : M!BuildRelease(Good, l, "v1", FALSE) = {}

LOCAL Release == CHOOSE r \in M!BuildRelease(Good, Good, "v1", FALSE) : TRUE
LOCAL Drop(s, i) == SubSeq(s, 1, i - 1) \o SubSeq(s, i + 1, Len(s))
LOCAL Bent(x) ==
  CASE M!IsPicture(x) -> [x EXCEPT !.alpha = ~@]
    [] "placed" \in DOMAIN x -> [x EXCEPT !.placed = ~@]
    [] OTHER -> [x EXCEPT !.version = "v0"]

(* One thing of a package differs from what was published: a file, or a     *)
(* line of its list.                                                        *)
LOCAL Damaged(r) ==
  {[r EXCEPT !.files[p] = Bent(r.files[p])] : p \in DOMAIN r.files}
    \cup {[r EXCEPT !.files = [q \in DOMAIN r.files \ {p} |-> r.files[q]]] : p \in DOMAIN r.files}
    \cup {[r EXCEPT !.sums = Drop(@, i)] : i \in DOMAIN r.sums}
    \cup {[r EXCEPT !.sums[i].hash = Bent(@)] : i \in DOMAIN r.sums}
    \cup {[r EXCEPT !.sums = Append(@, [kind |-> "entry", path |-> <<"avatars", "x", Picture(99)>>, hash |-> Picture(99)])],
          [r EXCEPT !.sums[1].kind = "broken"]}
LOCAL WithExtra(r) == [r EXCEPT !.files = (<<"avatars", "x", Picture(99)>> :> Picture(99)) @@ @]

DamageIsNoticed ==
  /\ \A r \in Damaged(Release) \cup {[Release EXCEPT !.sums = @ \o @]} : ~M!Verified(r, "v1")
  /\ ~M!Verified(Release, "v2")
  /\ M!Verified(WithExtra(Release), "v1")
  /\ \A r \in Damaged(Release) :
       LET before == M!Catalog({}, Release, "v1", FALSE) IN
       /\ M!Catalog(before, r, "v1", FALSE) = before
       /\ M!Advertised(M!Catalog(before, r, "v1", TRUE)) = M!Advertised({})
       /\ (M!Inner("mia") \notin DOMAIN r.files \/ r.files[M!Inner("mia")] # Release.files[M!Inner("mia")])
            => M!PerformanceCatalog(before, r, "mia") = {}

(* Releases put together by another hand, with a list that fits.  What is   *)
(* verified of them is shown whole: every picture the page will ask for is  *)
(* there with its bytes, in the character's own directory, drawn inside its *)
(* canvas, under public rights, and a performance has a state to fall back  *)
(* on.                                                                      *)
LOCAL Hands(m) ==
  LET row == m.states["happy"]
      pres == m.presentations[row.shown]
      put(p) == [m EXCEPT !.presentations[row.shown] = p]
  IN {m, [m EXCEPT !.of = "ada"], [m EXCEPT !.rights.scope = ""], [m EXCEPT !.status = "pending"], [m EXCEPT !.schema = 2],
      [m EXCEPT !.schema = 1], [m EXCEPT !.states["happy"] = m.states["neutral"]], [m EXCEPT !.states["happy"].face = row.stage],
      [m EXCEPT !.states["happy"].face.path[2] = "ada"], [m EXCEPT !.states["happy"].sizes.stage[1] = 4],
      [m EXCEPT !.performances["wave"].fallback = "angry"],
      [m EXCEPT !.states = [x \in {"neutral"} |-> m.states[x]], !.presentations = [id \in DOMAIN @ \ {row.shown} |-> @[id]]],
      [m EXCEPT !.performances = << >>],
      put([pres EXCEPT !.layers = << >>]), put([pres EXCEPT !.layers[2].at = 2]), put([pres EXCEPT !.layers = @ \o @]),
      put([pres EXCEPT !.layers = SubSeq(@, 1, 1)]), put([pres EXCEPT !.layers[2].ref.path[2] = "ada"]),
      put([pres EXCEPT !.width = 1]), put([pres EXCEPT !.stage = row.face]),
      put([pres EXCEPT !.strategy = "single"]), put([pres EXCEPT !.layers[2].ref.hash.alpha = FALSE])}
LOCAL Assembled(m) ==
  LET top == [Release.files[M!Top] EXCEPT !.characters[1].expressions = {[path |-> M!Inner("mia"), hash |-> m]}]
      listed == M!Referenced(top)
      all == (M!Top :> top) @@ (M!Inner("mia") :> m) @@ M!FilesOf(M!InnerRefs(m)) @@ Release.files
  IN {M!Sealed([p \in DOMAIN all \cap listed |-> all[p]]), M!Sealed([p \in (DOMAIN Release.files) \cap listed |-> all[p]])}

VerifiedIsWhole ==
  \A m \in Hands(Release.files[M!Inner("mia")]) : \A r \in {r \in Assembled(m) : M!Verified(r, "v1")} :
    LET cat == M!Catalog({}, r, "v1", FALSE)
        shown == M!Avatar(cat, "mia") \cup M!AnalystAvatar(cat) \cup M!ExpressionManifest(cat, "mia") \cup M!InnerRefs(m)
    IN /\ \A ref \in shown : ref.path \in DOMAIN r.files /\ r.files[ref.path] = ref.hash
       /\ \A ref \in M!InnerRefs(m) : ref.path[2] = "mia"
       /\ \A pres \in M!Layered(m) :
            /\ M!Visible(M!Drawn(pres))
            /\ \A i \in DOMAIN pres.layers : LET px == pres.layers[i].ref.hash.px IN
                 \A p \in DOMAIN px : px[p] # 0 => p + pres.layers[i].at \in DOMAIN M!Drawn(pres)
       /\ "happy" \in DOMAIN m.states
       /\ \A row \in M!RowsOf(m) : row.face.hash.size = <<384, 384>>
       /\ \A p \in M!PerformanceCatalog(cat, r, "mia") : p.fallback \in DOMAIN m.states
       /\ m.status \in {"waiver", "verified"} /\ m.rights.scope # ""

(***************************************************************************)
(* Stickers: three of the characters, two for all.                         *)
(***************************************************************************)
LOCAL StickerRef(id, kind) == LET x == [px |-> id, form |-> kind, size |-> <<1, 1>>, alpha |-> TRUE] IN
                              [path |-> <<"stickers", id, kind>>, hash |-> x]
LOCAL Sticker(id, owners, tags) ==
  [id |-> id, owners |-> owners, tags |-> tags, scope |-> IF owners = {} THEN "generic" ELSE "character", section |-> "s",
   described |-> TRUE, main |-> StickerRef(id, "main"), thumbnail |-> StickerRef(id, "thumbnail"), display |-> StickerRef(id, "display")]
LOCAL Stickers ==
  <<Sticker("own", {"mia"}, {"playful"}), Sticker("both", {"mia", "ada"}, {"playful"}), Sticker("hers", {"ada"}, {"playful", "strong"}), Sticker("all", {}, {"strong"}),
    Sticker("any", {}, {"emotion"})>>
LOCAL StickerPack(schema) ==
  M!Sealed((M!Top :> [version |-> "s1", schema |-> schema, reviewed |-> TRUE, count |-> 5, stickers |-> Stickers])
           @@ M!FilesOf(UNION {M!StickerRefs(Stickers[i], schema) : i \in DOMAIN Stickers}))

StickersStand ==
  \A schema \in 1..2 :
    LET pack == StickerPack(schema) IN
    /\ M!StickersVerified(pack, "s1")
    /\ \A r \in Damaged(pack) : ~M!StickersVerified(r, "s1")
    /\ \A i \in DOMAIN pack.sums : LET wrong == [pack.sums[i] EXCEPT !.hash = Bent(@)] IN
         ~M!StickersVerified([pack EXCEPT !.sums = Append(@, wrong)], "s1")

(* Turning the pages from the first to the last shows every sticker that is *)
(* wanted, once and in order, whatever the size of a page.                  *)
PagesShowAllOnce ==
  \A limit \in 0..3, owner \in {"", "mia"}, tag \in {"", "strong"}, scope \in {"", "generic"} :
    LET f == [section |-> "", scope |-> scope, owner |-> owner, tag |-> tag]
        turn[n \in 0..6] ==
          IF n = 0 THEN [at |-> {0}, seen |-> << >>]
          ELSE LET old == turn[n - 1] IN
               IF old.at = {} THEN old
               ELSE LET page == M!StickerPage(Stickers, f, CHOOSE c \in old.at : TRUE, limit)
                    IN [at |-> page.next, seen |-> old.seen \o page.items]
    IN turn[6].at = {} /\ turn[6].seen = SelectSeq(Stickers, LAMBDA item : M!Wanted(item, f))

LOCAL Said == {[asks |-> a, mood |-> m] : a \in BOOLEAN, m \in {"plain", "playful", "strong"}}
LOCAL Draws == {[roll |-> r, start |-> k] : r \in {0, 8, 30}, k \in 0..1}
LOCAL Chats ==
  LET next(h) == {Append(h, [mine |-> TRUE, stickers |-> << >>])}
                   \cup UNION {LET c == M!StickerCandidates(Stickers, h, "mia", m, d)
                               IN {Append(h, [mine |-> TRUE, stickers |-> <<c[i].id>>]) : i \in DOMAIN c} : m \in Said, d \in Draws}
      grow[n \in 0..3] == IF n = 0 THEN {<< >>} ELSE grow[n - 1] \cup UNION {next(h) : h \in grow[n - 1]}
  IN grow[3]

(* She never sends another's sticker, one of her own if it fits the mood,   *)
(* never a third one in a row unless asked, and none of the recent ones     *)
(* while another fits.                                                      *)
StickersFitTheTurn ==
  \A h \in Chats, m \in Said, d \in Draws :
    LET offered == {s.id : s \in {M!StickerCandidates(Stickers, h, "mia", m, d)[i] :
                                   i \in DOMAIN M!StickerCandidates(Stickers, h, "mia", m, d)}}
        last(n) == {i \in DOMAIN h : i > Len(h) - n}
        used == {h[i].stickers[1] : i \in {i \in DOMAIN h : h[i].stickers # << >>}}
    IN /\ "hers" \notin offered
       /\ (offered # {} /\ ~m.asks) => (Len(h) < 2 \/ \E i \in last(2) : h[i].stickers = << >>)
       /\ (offered \cap used # {}) => offered \subseteq used
       /\ (offered # {} /\ m.mood # "strong") => offered \subseteq {"own", "both"}
       /\ (m.asks /\ offered = {}) => \A i \in DOMAIN Stickers : ~("mia" \in Stickers[i].owners \/ Stickers[i].owners = {})
                                                           \/ Stickers[i].tags \cap M!MoodTags(m.mood) = {}

ASSUME OnlyTheRegionChanges
ASSUME ShowsWhatWasApproved
ASSUME ChangedInputsStop
ASSUME DamageIsNoticed
ASSUME VerifiedIsWhole
ASSUME StickersStand
ASSUME PagesShowAllOnce
ASSUME StickersFitTheTurn

=============================================================================
