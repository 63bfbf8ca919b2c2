----------------------------- MODULE MediaRelease -----------------------------
(***************************************************************************)
(* Character pictures and stickers: what an art approval binds, what the   *)
(* builder publishes from it, what the service verifies before it shows a  *)
(* single picture, and which stickers a turn may use                       *)
(* (character_layered_release.py, build_character_media_release.py,        *)
(* verified_media_inputs.py, public_media.py, public_stickers.py).         *)
(*                                                                         *)
(* A SHA256 digest is the content it stands for.  A picture is             *)
(* [px, form, size, alpha]: a row of pixels with 0 for a transparent one,  *)
(* its form ("native", "face", "stage", "webp", ...), its size and whether *)
(* it has an alpha channel.  A Ref is [path, hash].  A package is          *)
(* [files, sums]: files by path and the lines of its SHA256SUMS.  Paths    *)
(* are tuples: <<"manifest">>, <<"expressions", id>>, and <<directory, id, *)
(* content>> for a file named after its hash.                              *)
(***************************************************************************)
EXTENDS Integers, Sequences, FiniteSets, SequencesExt

CONSTANTS Characters, States          \* who can be chosen; the expression states, "neutral" one of them

Top == <<"manifest">>
Inner(c) == <<"expressions", c>>
Safe(path) == path[1] # "outside"

(***************************************************************************)
(* Art: a presentation is a stack of layers drawn over each other and the  *)
(* flattened preview a person approved.  A layer is [role, px, at]: where  *)
(* its row of pixels begins.  Layers drawn for delivery have no role.      *)
(***************************************************************************)
Underlays == {"neutral_base", "neutral_underlay", "reviewed_pose_underlay"}
Roles == Underlays \cup {"head_face", "connected_gesture", "front_hair"}

Covers(layer, p) == (p - layer.at) \in DOMAIN layer.px /\ layer.px[p - layer.at] # 0
Flatten(layers, width) ==
  [p \in 1..width |->
     LET drawn == {i \in DOMAIN layers : Covers(layers[i], p)}
         top == layers[CHOOSE i \in drawn : \A j \in drawn : j <= i]
     IN IF drawn = {} THEN 0 ELSE top.px[p - top.at]]

SeeThrough(px) == \E p \in DOMAIN px : px[p] = 0
Visible(px) == \E p \in DOMAIN px : px[p] # 0
CountRole(art, role) == Cardinality({i \in DOMAIN art.layers : art.layers[i].role = role})

\* _reviewed_pose_binding: a whole pose may replace the base only if a sealed round approved exactly it.
PoseBound(art) ==
  /\ art.pose.approved /\ art.pose.sealed /\ art.pose.selected
  /\ art.pose.preview = art.preview /\ art.pose.layers = art.layers

BaseFits(art, neutral) ==
  LET base == art.layers[1] IN
  /\ base.role \in Underlays /\ Len(base.px) = Len(neutral) /\ base.at = 0 /\ SeeThrough(base.px)
  /\ base.role = "neutral_base" => Visible(base.px)
  /\ base.role = "neutral_base" => base.px = neutral
  /\ base.role = "neutral_underlay" => \A p \in DOMAIN neutral : base.px[p] \in {0, neutral[p]}
  /\ (\E i \in DOMAIN art.layers : art.layers[i].role = "reviewed_pose_underlay") => PoseBound(art)

LayersFit(art, neutral) ==
  \A i \in 2..Len(art.layers) :
    /\ art.layers[i].role \in Roles \ Underlays
    /\ art.layers[i].at >= 0 /\ art.layers[i].at + Len(art.layers[i].px) <= Len(neutral)
    /\ Visible(art.layers[i].px) /\ SeeThrough(art.layers[i].px)

Painted(art) == FoldLeft(LAMBDA n, l : n + Len(l.px), 0, art.layers)

\* validate_presentation: raises unless all of this holds.
ValidPresentation(art, key, neutral) ==
  /\ art.reviewed /\ art.base = neutral /\ Len(art.preview) = Len(neutral)
  /\ Visible(art.preview) /\ SeeThrough(art.preview)
  /\ Len(art.layers) \in 1..8 /\ BaseFits(art, neutral) /\ LayersFit(art, neutral)
  /\ Painted(art) <= 4 * Len(neutral)
  /\ CountRole(art, "head_face") <= 1
  /\ key # "neutral" => CountRole(art, "head_face") = 1
  /\ art.preview = Flatten(art.layers, Len(neutral))
  /\ key = "neutral" => (Len(art.layers) = 1 /\ art.preview = neutral)
  /\ key # "neutral" =>
       (art.region # {} /\ \A p \in DOMAIN neutral \ art.region : art.preview[p] = neutral[p])
  /\ CountRole(art, "connected_gesture") > 0 => art.armsWhole
  /\ art.round >= 1

\* _approved_cues: three to six, or exactly those of a sealed decision.
CuesApproved(approval) ==
  IF approval.inventory = {} THEN Cardinality(DOMAIN approval.performances) \in 3..6
  ELSE \A inv \in approval.inventory :
         /\ inv.sealed /\ inv.cues = DOMAIN approval.performances
         /\ Cardinality(inv.cues) <= 6 /\ inv.decided = inv.cues

PolicyFits(approval) == approval.policy = "layered" /\ approval.sharedPolicy = "layered"
NeutralApproved(approval) == approval.neutralReview.approved /\ approval.neutralReview.of = approval.neutral

\* validate_character
ValidCharacter(approval, c) ==
  /\ approval.of = c /\ PolicyFits(approval) /\ approval.allApproved /\ NeutralApproved(approval)
  /\ DOMAIN approval.states = States
  /\ \A s \in States : ValidPresentation(approval.states[s], s, approval.neutral)
  /\ CuesApproved(approval)
  /\ \A cue \in DOMAIN approval.performances :
       /\ approval.performances[cue].fallback \in States /\ approval.performances[cue].design = c
       /\ ValidPresentation(approval.performances[cue], cue, approval.neutral)

(***************************************************************************)
(* Packages and their checksums.                                           *)
(***************************************************************************)
Entries(r) == {i \in DOMAIN r.sums : r.sums[i].kind = "entry"}
Listed(r) == {r.sums[i].path : i \in Entries(r)}
FirstSum(r) == [p \in Listed(r) |-> r.sums[CHOOSE i \in Entries(r) :
                                  r.sums[i].path = p /\ \A j \in Entries(r) : r.sums[j].path = p => i <= j].hash]
LastSum(r) == [p \in Listed(r) |-> r.sums[CHOOSE i \in Entries(r) :
                                  r.sums[i].path = p /\ \A j \in Entries(r) : r.sums[j].path = p => j <= i].hash]

FileStands(r, ref) ==
  /\ Safe(ref.path) /\ ref.path \in DOMAIN r.files /\ ref.path \in Listed(r)
  /\ r.files[ref.path] = ref.hash /\ FirstSum(r)[ref.path] = ref.hash

SumsReadable(r) ==
  /\ Len(r.sums) > 0 /\ \A i \in DOMAIN r.sums : r.sums[i].kind # "broken"
  /\ \A i \in Entries(r) : Safe(r.sums[i].path)
  /\ Cardinality(Listed(r)) = Cardinality(Entries(r))

LicenseEvidence == {"license", "license_version", "license_source", "license_revision", "file_page", "source_image",
                    "source_revision", "source_timestamp", "source_uploader", "source_sha1", "original_sha256",
                    "transformations"}
LicenseVerified(item) == LicenseEvidence \subseteq item.evidence

RightsArePublic(m) ==
  \/ m.status = "waiver" /\ m.rights.granted /\ m.rights.scope # ""
  \/ m.status = "verified" /\ m.rights.independent /\ m.rights.verified

AvatarStands(r, row) == FileStands(r, row.thumbnail) /\ FileStands(r, row.stage)

(***************************************************************************)
(* The expression manifest of one character: [of, schema, status, rights,  *)
(* source, placed, contract, states, performances, presentations].  A row  *)
(* is [face, stage, sizes, shown, strategy], a presentation [strategy,     *)
(* stage, size, width, placed, layers], a layer [ref, at].                 *)
(***************************************************************************)
IsPicture(x) == "px" \in DOMAIN x
NamedBy(ref, directory, c) == ref.path = <<directory, c, ref.hash>>

\* _verify_presentation_layers
LayersStand(r, c, pres) ==
  LET width(i) == Len(pres.layers[i].ref.hash.px)
      Sum == FoldLeft(LAMBDA n, l : n + Len(l.ref.hash.px), 0, pres.layers)
  IN /\ Len(pres.layers) \in 1..8
     /\ \A i \in DOMAIN pres.layers :
          LET ref == pres.layers[i].ref IN
          /\ FileStands(r, ref) /\ NamedBy(ref, "layers", c) /\ ref.hash.alpha
          /\ pres.layers[i].at >= 0 /\ pres.layers[i].at + width(i) <= pres.width
     /\ Sum <= 4 * pres.width

RowsOf(m) == {m.states[s] : s \in DOMAIN m.states} \cup {m.performances[q] : q \in DOMAIN m.performances}

PresentationStands(r, c, m, row) ==
  \E id \in DOMAIN m.presentations : \E pres \in {m.presentations[id]} :
    /\ id = row.shown /\ pres.strategy = row.strategy /\ pres.stage = row.stage /\ pres.size = row.sizes.stage
    /\ pres.strategy \in {"single"} \cup (IF m.schema = 3 THEN {"layered"} ELSE {})
    /\ pres.strategy = "layered" => LayersStand(r, c, pres)
    /\ pres.placed

RowStands(r, c, m, row) ==
  /\ FileStands(r, row.face) /\ NamedBy(row.face, "faces", c) /\ FileStands(r, row.stage) /\ NamedBy(row.stage, "stage", c)
  /\ row.face.hash.alpha /\ row.stage.hash.alpha
  /\ row.sizes = [face |-> row.face.hash.size, stage |-> row.stage.hash.size]
  /\ row.sizes.face = <<384, 384>> /\ row.sizes.stage[2] = 1024 /\ row.sizes.stage[1] \in 1..4096
  /\ m.schema \in {2, 3} => PresentationStands(r, c, m, row)

PerformancesFit(m, item) ==
  LET named == DOMAIN m.performances IN
  (named # {} \/ item.performances > 0) =>
    /\ m.schema = 3 /\ m.contract /\ Cardinality(named) <= 6 /\ item.performances = Cardinality(named)
    /\ \A q \in named : m.performances[q].fallback \in States /\ m.performances[q].shown = <<"performance", q>>

\* _verify_expression_entry
ExpressionStands(r, item) ==
  \E ref \in item.expressions : \E m \in {ref.hash} :
    /\ ref.path = Inner(item.id) /\ item.states = Cardinality(States) /\ FileStands(r, ref)
    /\ m.schema \in 1..3 /\ m.of = item.id /\ RightsArePublic(m) /\ m.source = item.source /\ m.placed
    /\ DOMAIN m.states = States
    /\ m.schema \in {2, 3} => m.contract
    /\ PerformancesFit(m, item)
    /\ \A row \in RowsOf(m) : RowStands(r, item.id, m, row)
    /\ m.schema \in {2, 3} => DOMAIN m.presentations = {row.shown : row \in RowsOf(m)}

(***************************************************************************)
(* PublicMediaCatalog.verify: nothing is advertised unless all holds.  The *)
(* manifest is [version, schema, reviewed, totals, characters, analyst],   *)
(* its totals << >> where it claims none.                                  *)
(***************************************************************************)
Layered(m) == {m.presentations[id] : id \in {id \in DOMAIN m.presentations : m.presentations[id].strategy = "layered"}}
InnerRefs(m) ==
  UNION {{row.face, row.stage} : row \in RowsOf(m)}
    \cup UNION {{pres.layers[i].ref : i \in DOMAIN pres.layers} : pres \in Layered(m)}
ItemRefs(item, schema) ==
  {item.thumbnail, item.stage}
    \cup IF schema = 4 THEN item.expressions \cup UNION {InnerRefs(ref.hash) : ref \in item.expressions} ELSE {}
Items(m) == {m.characters[i] : i \in DOMAIN m.characters}
Referenced(m) ==
  {Top} \cup {ref.path : ref \in UNION {ItemRefs(item, m.schema) : item \in Items(m)}}
        \cup UNION {{a.thumbnail.path, a.stage.path} : a \in m.analyst}

TotalsFit(m) ==
  LET n == Cardinality(Characters)
      cues == FoldLeft(LAMBDA k, item : k + item.performances, 0, m.characters)
  IN m.schema = 4 => m.totals = [characters |-> n, states |-> n * Cardinality(States),
                                 assets |-> 2 * n * Cardinality(States), performances |-> cues]

Verified(r, version) ==
  /\ Top \in DOMAIN r.files /\ "characters" \in DOMAIN r.files[Top]
  /\ LET m == r.files[Top] IN
     /\ m.version = version /\ m.schema \in {3, 4} /\ m.reviewed /\ TotalsFit(m)
     /\ SumsReadable(r) /\ Top \in Listed(r) /\ FirstSum(r)[Top] = m
     /\ \A i, j \in DOMAIN m.characters : i # j => m.characters[i].id # m.characters[j].id
     /\ {item.id : item \in Items(m)} = Characters /\ m.analyst # {}
     /\ \A item \in Items(m) \cup m.analyst : LicenseVerified(item) /\ AvatarStands(r, item)
     /\ m.schema = 4 => \A item \in Items(m) : ExpressionStands(r, item)
     /\ Listed(r) \subseteq Referenced(m)

(* The catalogue verifies once and keeps the answer with the manifest until *)
(* it is forced; only performances read their file again.                   *)
Catalog(kept, r, version, force) ==
  IF kept # {} /\ ~force THEN kept
  ELSE {IF Verified(r, version) THEN [ok |-> TRUE, items |-> Items(r.files[Top]), analyst |-> r.files[Top].analyst,
                                      schema |-> r.files[Top].schema]
        ELSE [ok |-> FALSE, items |-> {}, analyst |-> {}, schema |-> 0]}

Avatar(cat, c) == UNION {UNION {{item.stage, item.thumbnail} : item \in {i \in k.items : i.id = c}} : k \in cat}
AnalystAvatar(cat) == UNION {UNION {{a.stage, a.thumbnail} : a \in k.analyst} : k \in cat}
ExpressionManifest(cat, c) ==
  UNION {UNION {item.expressions : item \in {i \in k.items : i.id = c}} : k \in {k \in cat : k.schema = 4}}
PerformanceCatalog(cat, r, c) ==
  UNION {LET m == ref.hash IN {[cue |-> q, fallback |-> m.performances[q].fallback] : q \in DOMAIN m.performances} :
           ref \in {x \in ExpressionManifest(cat, c) : x.path \in DOMAIN r.files /\ r.files[x.path] = x.hash}}
Attributions(cat) == UNION {k.items \cup k.analyst : k \in cat}
Advertised(cat) == {[id |-> c, avatar |-> Avatar(cat, c), expressions |-> ExpressionManifest(cat, c)] : c \in Characters}

(***************************************************************************)
(* Stickers.  An item is [id, owners, tags, scope, section, described,     *)
(* main, thumbnail, display]: `described` if its source, license and       *)
(* provenance are all given.  Here a blank line of SHA256SUMS is an error  *)
(* and of two lines for one file the last one counts.                      *)
(***************************************************************************)
StickerFileStands(r, ref) ==
  /\ Safe(ref.path) /\ ref.path \in DOMAIN r.files /\ r.files[ref.path] = ref.hash
  /\ ref.path \in Listed(r) /\ LastSum(r)[ref.path] = ref.hash

StickerRefs(item, schema) == {item.main, item.thumbnail} \cup IF schema = 2 THEN {item.display} ELSE {}
StickerStands(r, item, schema) ==
  /\ item.tags # {} /\ item.scope = (IF item.owners = {} THEN "generic" ELSE "character") /\ item.described
  /\ \A ref \in StickerRefs(item, schema) : StickerFileStands(r, ref)

StickersVerified(r, version) ==
  /\ Top \in DOMAIN r.files /\ "stickers" \in DOMAIN r.files[Top]
  /\ LET m == r.files[Top] IN
     /\ m.version = version /\ m.schema \in {1, 2} /\ m.reviewed /\ m.count = Len(m.stickers)
     /\ \A i \in DOMAIN r.sums : r.sums[i].kind = "entry" /\ Safe(r.sums[i].path)
     /\ Top \in Listed(r) /\ LastSum(r)[Top] = m
     /\ \A i, j \in DOMAIN m.stickers : i # j => m.stickers[i].id # m.stickers[j].id
     /\ \A i \in DOMAIN m.stickers : StickerStands(r, m.stickers[i], m.schema)
     /\ Listed(r) \subseteq {Top} \cup UNION {{ref.path : ref \in StickerRefs(m.stickers[i], m.schema)} : i \in DOMAIN m.stickers}

\* list: a filter is [section, scope, owner, tag], "" where it asks nothing.
Wanted(item, f) ==
  /\ f.section \in {"", item.section} /\ f.scope \in {"", item.scope}
  /\ (f.owner = "" \/ f.owner \in item.owners) /\ (f.tag = "" \/ f.tag \in item.tags)
StickerPage(stickers, f, cursor, limit) ==
  LET values == SelectSeq(stickers, LAMBDA item : Wanted(item, f))
      first == IF cursor < 0 THEN 0 ELSE cursor
      size == IF limit < 1 THEN 1 ELSE IF limit > 500 THEN 500 ELSE limit
      page == SubSeq(values, first + 1, IF first + size < Len(values) THEN first + size ELSE Len(values))
  IN [items |-> page, total |-> Len(values), next |-> IF first + Len(page) < Len(values) THEN {first + Len(page)} ELSE {}]

ResolveSticker(stickers, id) == {item \in ToSet(stickers) : item.id = id}
StickerAttributions(stickers) == ToSet(stickers)

(***************************************************************************)
(* sticker_candidates.  A turn of the history is [mine, stickers]; a draw  *)
(* is [roll, start], derived from the request and the history; a message   *)
(* may ask for a sticker and has a mood.                                   *)
(***************************************************************************)
Mine(history) == SelectSeq(history, LAMBDA t : t.mine)
CoolingDown(history) ==
  LET mine == Mine(history) IN
  Len(mine) >= 2 /\ \A i \in {Len(mine) - 1, Len(mine)} : mine[i].stickers # << >>

Chance(mood) == CASE mood = "strong" -> 40 [] mood = "playful" -> 25 [] OTHER -> 8       \* per cent
MoodTags(mood) ==
  CASE mood = "strong" -> {"strong", "celebration"} [] mood = "playful" -> {"playful", "emotion"} [] OTHER -> {}

Recent(history) ==
  LET last == SubSeq(history, IF Len(history) > 8 THEN Len(history) - 7 ELSE 1, Len(history))
      used == FoldLeft(LAMBDA acc, t : IF t.mine THEN acc \o t.stickers ELSE acc, << >>, last)
  IN ToSet(SubSeq(used, IF Len(used) > 8 THEN Len(used) - 7 ELSE 1, Len(used)))

Compatible(stickers, c, mood) ==
  LET fits(item) == MoodTags(mood) = {} \/ item.tags \cap MoodTags(mood) # {}
      own == SelectSeq(stickers, LAMBDA item : fits(item) /\ c \in item.owners)
      generic == SelectSeq(stickers, LAMBDA item : fits(item) /\ item.owners = {})
  IN IF own # << >> THEN own ELSE generic

Rotated(s, k) == SubSeq(s, k + 1, Len(s)) \o SubSeq(s, 1, k)

StickerCandidates(stickers, history, c, message, draw) ==
  LET page == StickerPage(stickers, [section |-> "", scope |-> "", owner |-> "", tag |-> ""], 0, 500).items
      fitting == Compatible(page, c, message.mood)
      fresh == SelectSeq(fitting, LAMBDA item : item.id \notin Recent(history))
      chosen == IF fresh # << >> THEN fresh ELSE fitting
      rotated == Rotated(chosen, draw.start % Len(chosen))
  IN IF \/ CoolingDown(history) /\ ~message.asks
        \/ ~message.asks /\ draw.roll >= Chance(message.mood)
        \/ fitting = << >> THEN << >>
     ELSE SubSeq(rotated, 1, IF Len(rotated) > 8 THEN 8 ELSE Len(rotated))

(***************************************************************************)
(* build_release: from the reviewed inputs to a release, or nothing.  The  *)
(* inputs are [sources, rights, approvals, avatars, reuse, lossy]: the     *)
(* index of private sources, the decision on rights, an approval for each  *)
(* character, the package of avatars, {} or a private package to reuse,    *)
(* and {} or what the encoder makes of a layer.                            *)
(***************************************************************************)
SourcesFit(src) == src.pending /\ DOMAIN src.rows = Characters
RightsFit(rights, src) ==
  /\ rights.index = src /\ rights.expressions = Cardinality(Characters) * Cardinality(States)
  /\ RightsArePublic(rights)
  /\ rights.status = "waiver" => (~rights.rights.independent /\ ~rights.rights.verified /\ rights.rights.authorized)
RightsRowsFit(in) ==
  /\ DOMAIN in.rights.rows = Characters
  /\ \A c \in Characters : in.rights.rows[c] = [source |-> in.sources.rows[c], approval |-> in.approvals[c]]

\* VerifiedPackage: exactly the files of its list, each as listed.
PackageWhole(r) ==
  /\ \A i \in DOMAIN r.sums : r.sums[i].kind = "entry" /\ Safe(r.sums[i].path)
  /\ Cardinality(Listed(r)) = Len(r.sums) /\ Top \in Listed(r) /\ Listed(r) = DOMAIN r.files
  /\ \A p \in DOMAIN r.files : FirstSum(r)[p] = r.files[p]

Ref(directory, c, content) == [path |-> <<directory, c, content>>, hash |-> content]
Picture(px, form, size) == [px |-> px, form |-> form, size |-> size, alpha |-> TRUE]
Face(art) == Picture(art.preview, "face", <<384, 384>>)
Stage(art) == Picture(art.preview, "stage", <<Len(art.preview), 1024>>)
Native(layer) == Picture(layer.px, "native", <<Len(layer.px), 1>>)

\* render_layers, _render_non_mia_assets
DeliveredLayers(c, art) ==
  [i \in DOMAIN art.layers |-> [ref |-> Ref("layers", c, Native(art.layers[i])), at |-> art.layers[i].at]]
Row(c, art, id) ==
  [face |-> Ref("faces", c, Face(art)), stage |-> Ref("stage", c, Stage(art)), shown |-> id, strategy |-> "layered",
   sizes |-> [face |-> Face(art).size, stage |-> Stage(art).size]]
Presentation(c, art) ==
  [strategy |-> "layered", stage |-> Ref("stage", c, Stage(art)), size |-> Stage(art).size, width |-> Len(art.preview),
   placed |-> TRUE, layers |-> DeliveredLayers(c, art)]

\* _render_runtime_manifest
RuntimeManifest(in, c) ==
  LET a == in.approvals[c] IN
  [of |-> c, schema |-> 3, status |-> in.rights.status, rights |-> in.rights.rights, placed |-> TRUE, contract |-> TRUE,
   source |-> [source |-> in.sources.rows[c], index |-> in.sources, approval |-> a], extra |-> {},
   states |-> [s \in States |-> Row(c, a.states[s], <<"expression", s>>)],
   performances |-> [q \in DOMAIN a.performances |->
                       [fallback |-> a.performances[q].fallback] @@ Row(c, a.performances[q], <<"performance", q>>)],
   presentations |-> [id \in {<<"expression", s>> : s \in States} \cup {<<"performance", q>> : q \in DOMAIN a.performances} |->
                        Presentation(c, IF id[1] = "expression" THEN a.states[id[2]] ELSE a.performances[id[2]])]]

(* A private package is reused only if it is what this very approval would  *)
(* render, nothing beside it, and its publication was authorized; source    *)
(* and rights are then replaced by the new decision.                        *)
Republished(in, m, c) == [m EXCEPT !.status = in.rights.status, !.rights = in.rights.rights,
                                   !.source = RuntimeManifest(in, c).source]
PublicationAuthorized(in, package) ==
  in.rights.authorization = {[package |-> package, event |-> package.files[Top].event]}
InContractFields(m) == m.extra = {}          \* _public_runtime_shape
PrivateManifestsFit(in, package) ==
  /\ PackageWhole(package) /\ package.files[Top].pending /\ PublicationAuthorized(in, package)
  /\ Characters = package.files[Top].characters
  /\ \A c \in Characters :
       /\ Inner(c) \in Listed(package) /\ ~IsPicture(package.files[Inner(c)])
       /\ package.files[Inner(c)].status = "pending" /\ InContractFields(package.files[Inner(c)])
       /\ Republished(in, package.files[Inner(c)], c) = RuntimeManifest(in, c)
  /\ Listed(package) = {Top} \cup {Inner(c) : c \in Characters}
                     \cup UNION {{ref.path : ref \in InnerRefs(package.files[Inner(c)])} : c \in Characters}

(***************************************************************************)
(* Smaller layers for delivery: the same inventory, places and widths, and *)
(* a stack that looks like the approved one.                               *)
(***************************************************************************)
Near(a, b) ==
  /\ Len(a) = Len(b)
  /\ \A p \in DOMAIN a : (a[p] = 0) = (b[p] = 0) /\ a[p] - b[p] \in -1..1
Drawn(pres) == Flatten([i \in DOMAIN pres.layers |-> [px |-> pres.layers[i].ref.hash.px, at |-> pres.layers[i].at]], pres.width)

Derived(m, encode) ==
  [m EXCEPT !.presentations = [id \in DOMAIN @ |-> [@[id] EXCEPT !.layers = [i \in DOMAIN @ |->
     [@[i] EXCEPT !.ref = Ref("layers", m.of, Picture(encode[@.hash.px], "webp", <<Len(encode[@.hash.px]), 1>>))]]]]]
DerivationPasses(m, derived) ==
  \A id \in DOMAIN m.presentations :
    /\ \A i \in DOMAIN m.presentations[id].layers :
         Len(m.presentations[id].layers[i].ref.hash.px) = Len(derived.presentations[id].layers[i].ref.hash.px)
    /\ Near(Drawn(m.presentations[id]), Drawn(derived.presentations[id]))

\* The native layers no manifest names any more are removed.
Kept(files, before, after) ==
  LET old == UNION {{pres.layers[i].ref.path : i \in DOMAIN pres.layers} : pres \in UNION {Layered(m) : m \in before}}
      named == {ref.path : ref \in UNION {InnerRefs(m) : m \in after}}
  IN Restrict(files, DOMAIN files \ (old \ named))

\* validate_avatar: a verified release of avatars and nothing else.
AvatarsFit(package) ==
  LET top == package.files[Top] IN
  /\ PackageWhole(package) /\ top.schema = 3 /\ Verified(package, top.version) /\ Listed(package) = Referenced(top)

InputsApproved(in) ==
  /\ SourcesFit(in.sources) /\ RightsFit(in.rights, in.sources) /\ AvatarsFit(in.avatars)
  /\ DOMAIN in.approvals = Characters
  /\ \A c \in Characters : ValidCharacter(in.approvals[c], c)
  /\ RightsRowsFit(in)
  /\ in.rights.performances = FoldSet(LAMBDA c, n : n + Cardinality(DOMAIN in.approvals[c].performances), 0, Characters)
  /\ \A package \in in.reuse : PrivateManifestsFit(in, package)

FilesOf(refs) == [p \in {ref.path : ref \in refs} |-> (CHOOSE ref \in refs : ref.path = p).hash]
Sealed(files) == [files |-> files,
                  sums |-> FoldSet(LAMBDA p, lines : Append(lines, [kind |-> "entry", path |-> p, hash |-> files[p]]),
                                   << >>, DOMAIN files)]

ReleaseManifest(in, version, manifests) ==
  LET top == in.avatars.files[Top]
      n == Cardinality(Characters)
      item(row) == [row EXCEPT !.expressions = {[path |-> Inner(row.id), hash |-> manifests[row.id]]},
                               !.states = Cardinality(States), !.source = manifests[row.id].source,
                               !.performances = Cardinality(DOMAIN manifests[row.id].performances)]
  IN [version |-> version, schema |-> 4, reviewed |-> top.reviewed, analyst |-> top.analyst,
      characters |-> [i \in DOMAIN top.characters |-> item(top.characters[i])],
      totals |-> [characters |-> n, states |-> n * Cardinality(States), assets |-> 2 * n * Cardinality(States),
                  performances |-> in.rights.performances]]

Candidate(in, version) ==
  LET native == [c \in Characters |-> RuntimeManifest(in, c)]
      final == [c \in Characters |-> IF in.lossy = {} THEN native[c]
                                     ELSE Derived(native[c], CHOOSE e \in in.lossy : TRUE)]
      drawn == UNION {InnerRefs(native[c]) \cup InnerRefs(final[c]) : c \in Characters}
      art == Kept(FilesOf(drawn), {native[c] : c \in Characters}, {final[c] : c \in Characters})
      inner == FilesOf({[path |-> Inner(c), hash |-> final[c]] : c \in Characters})
  IN Sealed((Top :> ReleaseManifest(in, version, final)) @@ inner @@ art @@ in.avatars.files)

(* What is published is verified as the service will verify it, and only if *)
(* nothing it was made from changed meanwhile.                              *)
BuildRelease(in, late, version, taken) ==
  IF /\ ~taken /\ InputsApproved(in)
     /\ \A e \in in.lossy : \A c \in Characters : DerivationPasses(RuntimeManifest(in, c), Derived(RuntimeManifest(in, c), e))
     /\ Verified(Candidate(in, version), version) /\ PackageWhole(Candidate(in, version))
     /\ late = in
  THEN {Candidate(in, version)} ELSE {}
=============================================================================
