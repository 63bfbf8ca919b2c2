---------------------------- MODULE ReleaseHost ----------------------------
(***************************************************************************)
(* The release host: two colours, each a slot of four files, the five      *)
(* files that name the serving release, the immutable anchors both can be  *)
(* restored from, the baselines, and the images kept for all of them       *)
(* (App/ops/release_state.py, maintenance.py, deploy.sh, promote.sh).      *)
(* Every operation holds the host's release lock, so operations do not     *)
(* interleave; what interrupts them is a crash between two file writes.    *)
(* Writes and renames of a single file are atomic and durable.             *)
(***************************************************************************)
EXTENDS Naturals, Sequences, FiniteSets, SequencesExt

CONSTANTS
  Releases,      \* commits; a release's application image is named by the commit
  Emb,           \* the embedding image each release is built with
  Features,      \* releases whose version is x.Y.0: they can be baselines
  First,         \* the release the host was bootstrapped with
  MaxAnchors,    \* bound: anchor directories ever made
  MaxAway,       \* bound: retired anchors at a time
  MaxGrants,     \* bound: swap authorisations that exist at a time
  MaxCrashes,    \* bound: crashes of an operation
  CrashIn,       \* bound: the operations a crash may hit
  Kinds          \* bound: the kinds of maintenance that are done at all

ASSUME HostAssumption ==
  /\ First \in Releases
  /\ DOMAIN Emb = Releases
  /\ Features \subseteq Releases
  /\ MaxAnchors \in Nat /\ MaxAway \in Nat /\ MaxGrants \in Nat /\ MaxCrashes \in Nat
  /\ CrashIn \subseteq {"stage", "restore", "switch"}
  /\ Kinds \subseteq {"swap", "retire", "collect"}

None == "none"
Colours == {"blue", "green"}
Other(c) == CHOOSE d \in Colours : d # c

VARIABLES
  slot,       \* slot[c]: the files of colour c; env also says where its settings are
  cur,        \* the five files that name the serving release
  kept,       \* anchors under releases/anchors
  away,       \* anchors under retired/anchors
  index,      \* releases/anchors/latest.json: the anchor of each colour, if any
  baselines,  \* anchors marked as stable baselines, newest first
  images,     \* images in the local store
  api,        \* api[c]: the release whose image the container of colour c runs
  embedding,  \* the image the shared embedding container runs
  pending,    \* the candidate awaiting review, if any
  grants,     \* authorised embedding swaps
  op,         \* the operation holding the lock and the writes it has left
  torn,       \* a switch was interrupted and no later one has completed
  crashes

anchoring == <<kept, away, index, baselines>>
running == <<images, api, embedding>>
vars == <<slot, cur, anchoring, running, pending, grants, op, torn, crashes>>

Idle == [kind |-> "idle"]
Lock == op.kind = "idle"

Init ==
  /\ slot = [c \in Colours |->
       IF c = "blue"
       THEN [env |-> [rel |-> First, from |-> {}], manifest |-> First,
             config |-> First, marker |-> First, receipt |-> None]
       ELSE [env |-> [rel |-> None, from |-> {}], manifest |-> None,
             config |-> None, marker |-> None, receipt |-> None]]
  /\ cur = [env |-> First, active |-> "blue", manifest |-> First,
            config |-> First, marker |-> [colour |-> "blue", rel |-> First]]
  /\ kept = {} /\ away = {}
  /\ index = [c \in Colours |-> {}]
  /\ baselines = <<>>
  /\ images = {First, Emb[First]}
  /\ api = [c \in Colours |-> IF c = "blue" THEN First ELSE None]
  /\ embedding = Emb[First]
  /\ pending = {}
  /\ grants = {}
  /\ op = Idle
  /\ torn = FALSE
  /\ crashes = 0

(***************************************************************************)
(* Anchors.                                                                *)
(***************************************************************************)
\* active_release: the marker, the manifest and the environment agree.
ActiveAgrees ==
  /\ cur.marker.colour = cur.active
  /\ cur.manifest = cur.marker.rel
  /\ cur.env = cur.marker.rel

\* The settings file a colour's environment names can be read.
Readable(c) == slot[c].env.from \subseteq kept

\* archive_colour accepts a colour whose four files name one release.
Whole(c) ==
  /\ slot[c].marker # None
  /\ slot[c].manifest = slot[c].marker
  /\ slot[c].config = slot[c].marker
  /\ slot[c].env.rel = slot[c].marker
  /\ Readable(c)

\* The directory is named by the hash of what it holds; the environment in it
\* names the anchor its settings were restored from.
AnchorOf(c) == [rel |-> slot[c].marker, colour |-> c, from |-> slot[c].env.from]

Archive(as) ==
  /\ Cardinality(kept \cup away \cup as) <= MaxAnchors
  /\ kept' = kept \cup as

ActiveOnly == {cur.active}
Present == {c \in Colours : slot[c].marker # None}
\* archive_colours: both colours, the inactive one if it holds a release.
ArchiveColours ==
  /\ ActiveAgrees
  /\ cur.active \in Present
  /\ \A c \in Present : Whole(c)
  /\ Archive({AnchorOf(c) : c \in Present})
  /\ index' = [c \in Colours |-> IF c \in Present THEN {AnchorOf(c)} ELSE {}]

Anchor ==
  /\ Lock
  /\ ArchiveColours
  /\ UNCHANGED <<slot, cur, away, baselines, running, pending, grants, op, torn, crashes>>

(***************************************************************************)
(* Writing a colour: stage and restore end with the same files in the same *)
(* order, the marker after the others, then the stage receipt.             *)
(***************************************************************************)
SlotFiles == <<"env", "manifest", "config", "marker", "receipt">>

\* shared_dependency_gate of a candidate against the serving release: unchanged,
\* or an embedding swap authorised from exactly the recorded image.
Granted(r) == [from |-> Emb[cur.env], to |-> Emb[r]] \in grants
Gate(r) == Emb[r] = Emb[cur.env] \/ Granted(r)

\* record_candidate: another candidate still awaiting review is not replaced.
Reserve(r, c) ==
  /\ \A p \in pending : p.rel \in {r, cur.marker.rel}
  /\ pending' = {[rel |-> r, colour |-> c, base |-> cur.marker.rel]}

\* deploy.sh up to the publication of the colour: the colours are archived, the
\* gate passes, the candidate is recorded, its images are pulled and it runs.
\* Bound: the serving release is not staged once more.
Stage(r) ==
  /\ Lock
  /\ r # cur.marker.rel
  /\ ArchiveColours
  /\ Gate(r)
  /\ LET c == Other(cur.active) IN
     /\ Reserve(r, c)
     /\ api' = [api EXCEPT ![c] = r]
     /\ op' = [kind |-> "stage", colour |-> c, rel |-> r, from |-> {}, left |-> SlotFiles]
  /\ images' = images \cup {r, Emb[r]}
  /\ UNCHANGED <<slot, cur, away, baselines, embedding, grants, torn, crashes>>

\* restore_colour into the inactive colour, which is archived first if it holds
\* a release. The anchor's settings are used where they are.
RestorableAny(c) == TRUE
Restorable(c) == c # cur.active

Restore(a) ==
  /\ Lock
  /\ ActiveAgrees
  /\ a \in kept
  /\ \E c \in Colours :
     /\ Restorable(c)
     /\ IF c \in Present
        THEN Whole(c) /\ Archive({AnchorOf(c)})
        ELSE UNCHANGED kept
     /\ op' = [kind |-> "restore", colour |-> c, rel |-> a.rel, from |-> {a}, left |-> SlotFiles]
  /\ UNCHANGED <<slot, cur, away, index, baselines, running, pending, grants, torn, crashes>>

Written(f) ==
  IF f = "env" THEN [rel |-> op.rel, from |-> op.from]
  ELSE IF f = "receipt" /\ op.kind = "restore" THEN None ELSE op.rel

WriteSlot ==
  /\ op.kind \in {"stage", "restore"}
  /\ slot' = [slot EXCEPT ![op.colour][Head(op.left)] = Written(Head(op.left))]
  /\ op' = IF Len(op.left) = 1 THEN Idle ELSE [op EXCEPT !.left = Tail(@)]
  /\ UNCHANGED <<cur, anchoring, running, pending, grants, torn, crashes>>

(***************************************************************************)
(* Switching to the other colour: promotion and rollback (promote.sh).     *)
(***************************************************************************)
CurrentFiles == <<"env", "active", "manifest", "config", "marker">>

\* The checks of both modes: the colour's marker, manifest and configuration
\* binding name one release, and so do the binding and marker of the colour
\* that serves. The environment's images are not among them; the data root it
\* names is, and all the releases of the model use one data version.
Checked(c) ==
  /\ slot[c].marker # None
  /\ slot[c].manifest = slot[c].marker
  /\ slot[c].config = slot[c].marker
  /\ slot[cur.active].config = slot[cur.active].marker
  /\ Readable(c)

\* A forward promotion needs an acceptance: the candidate reserved against the
\* serving release is the one staged, received and running.
Accepted(c) ==
  /\ ActiveAgrees
  /\ pending = {[rel |-> slot[c].marker, colour |-> c, base |-> cur.marker.rel]}
  /\ slot[c].receipt = slot[c].marker
  /\ api[c] = slot[c].marker

\* The shared embedding container is recreated when it does not run the image
\* of the marker; a forward promotion needs the gate to name the swap.
Swaps(c) == embedding # Emb[slot[c].marker]
MaySwapUngated(c, forward) == Swaps(c) => Emb[slot[c].marker] \in images
MaySwap(c, forward) ==
  Swaps(c) =>
    /\ Emb[slot[c].marker] \in images
    /\ forward => Emb[slot[c].env.rel] # Emb[cur.env] /\ Granted(slot[c].env.rel)

Switch(forward) ==
  /\ Lock
  /\ LET c == Other(cur.active) IN
     /\ Checked(c)
     /\ forward => Accepted(c)
     /\ MaySwap(c, forward)
     /\ api' = [api EXCEPT ![c] = slot[c].env.rel]
     /\ embedding' = IF Swaps(c) THEN Emb[slot[c].env.rel] ELSE embedding
     /\ op' = [kind |-> "switch", colour |-> c, rel |-> slot[c].marker,
               forward |-> forward, swapped |-> Swaps(c), left |-> CurrentFiles]
     /\ images' = images \cup {slot[c].env.rel, embedding'}
  /\ UNCHANGED <<slot, cur, anchoring, pending, grants, torn, crashes>>

\* commit_promoted_state: five renames, in this order, of copies of the
\* colour's files and of the marker that was read.
WriteCurrent ==
  /\ op.kind = "switch" /\ op.left # <<>>
  /\ LET f == Head(op.left) IN
     cur' = [cur EXCEPT ![f] =
       IF f = "env" THEN slot[op.colour].env.rel
       ELSE IF f = "active" THEN op.colour
       ELSE IF f = "marker" THEN [colour |-> op.colour, rel |-> op.rel]
       ELSE slot[op.colour][f]]
  /\ op' = [op EXCEPT !.left = Tail(@)]
  /\ torn' = (torn /\ Len(op.left) > 1)
  /\ UNCHANGED <<slot, anchoring, running, pending, grants, crashes>>

\* What follows the durable commit: a forward swap's authorisation is consumed
\* and the candidate that was promoted is no longer pending.
FinishSwitch ==
  /\ op.kind = "switch" /\ op.left = <<>>
  /\ grants' = IF op.swapped /\ op.forward THEN {} ELSE grants
  /\ pending' = IF ActiveAgrees THEN {p \in pending : p.rel # op.rel} ELSE pending
  /\ op' = Idle
  /\ UNCHANGED <<slot, cur, anchoring, running, torn, crashes>>

Crash ==
  /\ op.kind \in CrashIn
  /\ crashes < MaxCrashes
  /\ crashes' = crashes + 1
  /\ torn' = (torn \/ (op.kind = "switch" /\ op.left # <<>>))
  /\ op' = Idle
  /\ UNCHANGED <<slot, cur, anchoring, running, pending, grants>>

Discard ==
  /\ Lock
  /\ pending # {}
  /\ pending' = {}
  /\ UNCHANGED <<slot, cur, anchoring, running, grants, op, torn, crashes>>

\* embedding_swap_authorize: from what the serving environment names; the file
\* is named by the destination, so a later one replaces it.
Authorise(e) ==
  /\ Lock /\ "swap" \in Kinds
  /\ ActiveAgrees
  /\ e # Emb[cur.env]
  /\ grants' = {g \in grants : g.to # e} \cup {[from |-> Emb[cur.env], to |-> e]}
  /\ Cardinality(grants') <= MaxGrants
  /\ UNCHANGED <<slot, cur, anchoring, running, pending, op, torn, crashes>>

ClearGrants ==
  /\ Lock /\ grants # {}
  /\ grants' = {}
  /\ UNCHANGED <<slot, cur, anchoring, running, pending, op, torn, crashes>>

(***************************************************************************)
(* Baselines, retirement and image collection.                             *)
(***************************************************************************)
\* Two baselines at most: the anchor, and the newest of the others.
BaselineMark(a) ==
  /\ Lock /\ "retire" \in Kinds
  /\ a \in kept
  /\ a.rel \in Features
  /\ LET older == {i \in DOMAIN baselines : baselines[i] # a} IN
     baselines' = IF older = {} THEN <<a>> ELSE <<a, baselines[Min(older)]>>
  /\ UNCHANGED <<slot, cur, kept, away, index, running, pending, grants, op, torn, crashes>>

\* latest.json names an anchor of the release each colour's marker names.
IndexFresh ==
  \A c \in Colours :
    /\ slot[c].marker # None
    /\ \E a \in index[c] : a.rel = slot[c].marker

\* _protected_anchor_ids.
Referenced == UNION {index[c] : c \in Colours}
MayRetire(a) == IndexFresh /\ a \notin Referenced \cup ToSet(baselines)

\* anchor_retire. Its last condition, a backup completed after the anchor was
\* made, is not kept in the state: retiring is allowed in either case.
Retire(a) ==
  /\ Lock /\ "retire" \in Kinds
  /\ a \in kept
  /\ MayRetire(a)
  /\ a \notin away /\ Cardinality(away) < MaxAway
  /\ kept' = kept \ {a}
  /\ away' = away \cup {a}
  /\ UNCHANGED <<slot, cur, index, baselines, running, pending, grants, op, torn, crashes>>

Unretire(a) ==
  /\ Lock /\ "retire" \in Kinds
  /\ a \in away \ kept
  /\ kept' = kept \cup {a}
  /\ away' = away \ {a}
  /\ UNCHANGED <<slot, cur, index, baselines, running, pending, grants, op, torn, crashes>>

ImagesOf(r) == IF r = None THEN {} ELSE {r, Emb[r]}

\* protected_image_references: what anchors, environments and manifests name.
NamedBySlots == UNION {ImagesOf(slot[c].env.rel) \cup ImagesOf(slot[c].manifest) : c \in Colours}
NamedByAnchors == UNION {ImagesOf(a.rel) : a \in kept}
ReferencesOfSlots == NamedBySlots \cup ImagesOf(cur.env) \cup ImagesOf(cur.manifest)
References == NamedByAnchors \cup NamedBySlots \cup ImagesOf(cur.env) \cup ImagesOf(cur.manifest)

\* image_gc_plan: nothing is planned while a named image is missing, and images
\* of containers stay.
Collectable ==
  IF References \subseteq images
  THEN images \ (References \cup {api[c] : c \in Colours} \cup {embedding})
  ELSE {}

Collect(i) ==
  /\ Lock /\ "collect" \in Kinds
  /\ i \in Collectable
  /\ images' = images \ {i}
  /\ UNCHANGED <<slot, cur, anchoring, api, embedding, pending, grants, op, torn, crashes>>

(***************************************************************************)
Images == Releases \cup {Emb[r] : r \in Releases}

Next ==
  \/ Anchor \/ WriteSlot \/ WriteCurrent \/ FinishSwitch \/ Crash \/ Discard \/ ClearGrants
  \/ \E r \in Releases : Stage(r)
  \/ \E a \in kept : Restore(a) \/ BaselineMark(a) \/ Retire(a)
  \/ \E a \in away : Unretire(a)
  \/ \E forward \in BOOLEAN : Switch(forward)
  \/ \E e \in {Emb[r] : r \in Releases} : Authorise(e)
  \/ \E i \in Images : Collect(i)

Spec == Init /\ [][Next]_vars

(***************************************************************************)
(* Properties.                                                             *)
(***************************************************************************)
\* The release lock's holder apart, and unless a switch was interrupted, the
\* five files that name the serving release agree, with each other and with
\* the files of the colour that serves: preparing, restoring or abandoning a
\* colour and interrupted preparations do not reach them.
CommittedAgree ==
  op.kind # "switch" /\ ~torn =>
    /\ ActiveAgrees
    /\ cur.config = cur.marker.rel
    /\ slot[cur.active].marker = cur.marker.rel
    /\ slot[cur.active].env.rel = cur.env
    /\ slot[cur.active].manifest = cur.manifest

\* Collection never removes an image that the serving release, the other
\* colour's release (the one-step rollback) or a stable baseline needs.
GcKeepsRecovery ==
  [][\A i \in images \ images' :
       /\ i \notin ImagesOf(cur.marker.rel)
       /\ \A c \in Colours : i \notin ImagesOf(slot[c].marker)
       /\ \A b \in ToSet(baselines) : i \notin ImagesOf(b.rel)]_vars

\* The release a colour held can still be restored when another replaces it:
\* an anchor of it is kept at the moment its marker is overwritten.
OverwrittenIsAnchored ==
  [][\A c \in Colours :
       slot'[c].marker # slot[c].marker /\ slot[c].marker # None =>
         \E a \in kept : a.rel = slot[c].marker]_vars

\* A forward promotion that replaces the shared embedding image holds an
\* authorisation that names exactly the image that runs and the new one,
\* unless a switch was interrupted since the last commit.
SwapAuthorised ==
  [][embedding' # embedding /\ op'.kind = "switch" /\ op'.forward /\ ~torn =>
       [from |-> embedding, to |-> embedding'] \in grants]_vars
=============================================================================
