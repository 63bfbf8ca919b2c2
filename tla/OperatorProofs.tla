--------------------------- MODULE OperatorProofs ---------------------------
(***************************************************************************)
(* Theorems about what operators do to files, a crash after each of them.  *)
(* ReleaseHost: for any releases, embedding images, bounds and kinds of    *)
(* maintenance.  What was anchored before it is overwritten stands         *)
(* whatever crashes; what says that the files of a release agree needs     *)
(* that a crash hits no unrepaired preparation of a colour, which is the   *)
(* hypothesis WritesEnd.  ReviewGraph: for any candidates, targets,        *)
(* reports and callers, without a hypothesis.                              *)
(***************************************************************************)
EXTENDS ReleaseHost, ReviewGraph, TLAPS

Held == Releases \cup {None}
Embeddings == {Emb[r] : r \in Releases}

SlotLeft ==
  {<<"env", "manifest", "config", "marker", "receipt">>, <<"manifest", "config", "marker", "receipt">>,
   <<"config", "marker", "receipt">>, <<"marker", "receipt">>, <<"receipt">>}
CurrentLeft ==
  {<<"env", "active", "manifest", "config", "marker">>, <<"active", "manifest", "config", "marker">>,
   <<"manifest", "config", "marker">>, <<"config", "marker">>, <<"marker">>, <<>>}

\* The settings an environment refers to are left out: they nest without end.
SlotTypes ==
  /\ DOMAIN slot = Colours
  /\ \A c \in Colours :
       /\ DOMAIN slot[c] = {"env", "manifest", "config", "marker", "receipt"}
       /\ slot[c].env.rel \in Held /\ slot[c].manifest \in Held
       /\ slot[c].config \in Held /\ slot[c].marker \in Held
       /\ slot[c].marker # None => slot[c].env.rel \in Releases

CurrentTypes ==
  cur \in [env : Releases, active : Colours, manifest : Releases, config : Releases,
           marker : [colour : Colours, rel : Releases]]

\* Anchors hold a release; the index and the baselines name anchors in place.
AnchorsInPlace ==
  /\ \A a \in kept \cup away : a.rel \in Releases
  /\ index \in [Colours -> SUBSET kept]
  /\ baselines \in Seq(kept) /\ Len(baselines) <= 2

RunningTypes ==
  /\ images \subseteq Images
  /\ api \in [Colours -> Held]
  /\ embedding \in Embeddings

GateTypes ==
  /\ pending \subseteq [rel : Releases, colour : Colours, base : Releases]
  /\ grants \subseteq [from : Embeddings, to : Embeddings]
  /\ torn \in BOOLEAN /\ crashes \in Nat

Preparing == op.kind \in {"stage", "restore"}

\* A preparation writes the colour that does not serve, the files it has
\* written name its release, and until the marker is overwritten what the
\* colour held is anchored.
PreparationInv ==
  /\ op = [kind |-> op.kind, colour |-> op.colour, rel |-> op.rel, from |-> op.from, left |-> op.left]
  /\ op.colour \in Colours /\ op.rel \in Releases /\ op.left \in SlotLeft
  /\ op.colour # cur.active /\ op.colour # cur.marker.colour
  /\ Len(op.left) <= 4 => slot[op.colour].env.rel = op.rel
  /\ Len(op.left) <= 3 => slot[op.colour].manifest = op.rel
  /\ Len(op.left) <= 2 => slot[op.colour].config = op.rel
  /\ Len(op.left) <= 1 => slot[op.colour].marker = op.rel
  /\ Len(op.left) >= 2 /\ slot[op.colour].marker # None =>
       \E a \in kept : a.rel = slot[op.colour].marker

\* A switch copies a colour whose checked files name one release.
SwitchInv ==
  /\ op \in [kind : {"switch"}, colour : Colours, rel : Releases, forward : BOOLEAN,
             swapped : BOOLEAN, left : CurrentLeft]
  /\ op.rel # None
  /\ slot[op.colour].marker = op.rel
  /\ slot[op.colour].manifest = op.rel
  /\ slot[op.colour].config = op.rel

Operation ==
  \/ op = Idle
  \/ Preparing /\ PreparationInv
  \/ op.kind = "switch" /\ SwitchInv

TypeOK ==
  SlotTypes /\ CurrentTypes /\ RunningTypes /\ GateTypes /\ AnchorsInPlace /\ Operation

\* While no preparation is left half written: a colour that is not being
\* prepared is whole or empty, the marker names what its colour holds, and
\* the files in use agree but for the ones a switch has not reached.
WritesEnd == CrashIn \subseteq {"switch"}

Uniform ==
  \A c \in Colours :
    ~(Preparing /\ op.colour = c) =>
      /\ slot[c].env.rel = slot[c].marker
      /\ slot[c].manifest = slot[c].marker
      /\ slot[c].config = slot[c].marker

MarkerHolds == slot[cur.marker.colour].marker = cur.marker.rel

Committed ==
  op.kind # "switch" /\ ~torn =>
    /\ ActiveAgrees
    /\ cur.config = cur.marker.rel
    /\ embedding = Emb[cur.env]

Switched ==
  op.kind = "switch" =>
    /\ embedding = Emb[op.rel]
    /\ Len(op.left) <= 4 => cur.env = op.rel
    /\ Len(op.left) <= 3 => cur.active = op.colour
    /\ Len(op.left) <= 2 => cur.manifest = op.rel
    /\ Len(op.left) <= 1 => cur.config = op.rel
    /\ Len(op.left) = 0 => cur.marker = [colour |-> op.colour, rel |-> op.rel]

Agreement == Uniform /\ MarkerHolds /\ Committed /\ Switched
IInv == TypeOK /\ Agreement
-----------------------------------------------------------------------------
LEMMA OtherColour ==
    ASSUME NEW c \in Colours
    PROVE  Other(c) \in Colours /\ Other(c) # c
<1>1. \E d \in Colours : d # c
    BY DEF Colours
<1> QED BY <1>1 DEF Other

LEMMA TailOfSlotFiles ==
    ASSUME NEW s \in SlotLeft
    PROVE  /\ Len(s) \in 1..5
           /\ Len(s) # 1 => Tail(s) \in SlotLeft /\ Len(Tail(s)) = Len(s) - 1
           /\ Len(s) = 5 => Head(s) = "env"
           /\ Len(s) = 4 => Head(s) = "manifest"
           /\ Len(s) = 3 => Head(s) = "config"
           /\ Len(s) = 2 => Head(s) = "marker"
           /\ Len(s) = 1 => Head(s) = "receipt"
<1> USE DEF SlotLeft
<1>1. CASE s = <<"env", "manifest", "config", "marker", "receipt">>
    BY <1>1
<1>2. CASE s = <<"manifest", "config", "marker", "receipt">>
    BY <1>2
<1>3. CASE s = <<"config", "marker", "receipt">>
    BY <1>3
<1>4. CASE s = <<"marker", "receipt">>
    BY <1>4
<1>5. CASE s = <<"receipt">>
    BY <1>5
<1> QED BY <1>1, <1>2, <1>3, <1>4, <1>5

LEMMA TailOfCurrentFiles ==
    ASSUME NEW s \in CurrentLeft
    PROVE  /\ Len(s) \in 0..5
           /\ s # <<>> <=> Len(s) # 0
           /\ s # <<>> => Tail(s) \in CurrentLeft /\ Len(Tail(s)) = Len(s) - 1
           /\ Len(s) = 5 => Head(s) = "env"
           /\ Len(s) = 4 => Head(s) = "active"
           /\ Len(s) = 3 => Head(s) = "manifest"
           /\ Len(s) = 2 => Head(s) = "config"
           /\ Len(s) = 1 => Head(s) = "marker"
<1> USE DEF CurrentLeft
<1>1. CASE s = <<"env", "active", "manifest", "config", "marker">>
    BY <1>1
<1>2. CASE s = <<"active", "manifest", "config", "marker">>
    BY <1>2
<1>3. CASE s = <<"manifest", "config", "marker">>
    BY <1>3
<1>4. CASE s = <<"config", "marker">>
    BY <1>4
<1>5. CASE s = <<"marker">>
    BY <1>5
<1>6. CASE s = <<>>
    BY <1>6
<1> QED BY <1>1, <1>2, <1>3, <1>4, <1>5, <1>6

LEMMA NewestOlder ==
    ASSUME NEW S, NEW b \in Seq(S), Len(b) <= 2, NEW a \in S,
           {i \in DOMAIN b : b[i] # a} # {}
    PROVE  b[Min({i \in DOMAIN b : b[i] # a})] \in S
<1> DEFINE older == {i \in DOMAIN b : b[i] # a}
<1>1. \A i \in older : b[i] \in S /\ i \in Nat
    OBVIOUS
<1>2. older \subseteq {1, 2}
    OBVIOUS
<1>3. \E i \in older : \A j \in older : i <= j
    <2>1. CASE 1 \in older
        BY <1>2, <2>1
    <2>2. CASE 1 \notin older
        BY <1>2, <2>2
    <2> QED BY <2>1, <2>2
<1>4. Min(older) \in older
    <2> HIDE DEF older
    <2> QED BY <1>3 DEF Min
<1> QED BY <1>1, <1>4
LEMMA SameElements ==
    ASSUME NEW S, NEW T, NEW b \in Seq(S), \A i \in DOMAIN b : b[i] \in T
    PROVE  b \in Seq(T)
<1>1. b \in [1..Len(b) -> T] /\ Len(b) \in Nat
    OBVIOUS
<1> QED BY <1>1

LEMMA EmbeddingOf ==
    ASSUME NEW r \in Releases
    PROVE  Emb[r] \in Embeddings /\ Emb[r] \in Images /\ r \in Images
BY DEF Embeddings, Images

-----------------------------------------------------------------------------
(* Types and the shape of the operation under way.                         *)

LEMMA InitTypes == Init => TypeOK
<1> SUFFICES ASSUME Init PROVE TypeOK
    OBVIOUS
<1> USE HostAssumption DEF Init
<1>1. SlotTypes /\ CurrentTypes
    BY DEF SlotTypes, CurrentTypes, Colours, Held
<1>2. RunningTypes /\ GateTypes
    BY EmbeddingOf DEF RunningTypes, GateTypes, Held, Colours
<1>3. AnchorsInPlace /\ Operation
    BY DEF AnchorsInPlace, Operation
<1> QED BY <1>1, <1>2, <1>3 DEF TypeOK

\* More anchors leave the index and the baselines among them.
LEMMA MoreAnchors ==
    ASSUME TypeOK, NEW as, \A a \in as : a.rel \in Releases,
           kept' = kept \cup as, UNCHANGED <<away, baselines>>,
           index' = index \/ index' \in [Colours -> SUBSET kept']
    PROVE  AnchorsInPlace'
<1> USE DEF TypeOK, AnchorsInPlace
<1>1. baselines' \in Seq(kept') /\ Len(baselines') <= 2
    <2>1. baselines \in Seq(kept) /\ Len(baselines) <= 2 /\ kept \subseteq kept'
        OBVIOUS
    <2>2. \A i \in DOMAIN baselines : baselines[i] \in kept'
        BY ONLY <2>1
    <2>3. baselines \in Seq(kept')
        BY ONLY <2>1, <2>2, SameElements
    <2> QED BY <2>1, <2>3
<1>2. index' \in [Colours -> SUBSET kept']
    BY SUBSET kept \subseteq SUBSET kept'
<1> QED BY <1>1, <1>2

\* What archiving both colours makes and names.
LEMMA ArchivedColours ==
    ASSUME TypeOK, ArchiveColours, UNCHANGED <<away, baselines>>
    PROVE  /\ AnchorsInPlace'
           /\ \A c \in Colours : slot[c].marker # None =>
                \E a \in kept' : a.rel = slot[c].marker
<1> DEFINE as == {AnchorOf(c) : c \in Present}
<1>1. \A c \in Present : c \in Colours /\ AnchorOf(c).rel \in Releases /\ AnchorOf(c).rel = slot[c].marker
    BY DEF TypeOK, SlotTypes, Present, AnchorOf, Held
<1>2. kept' = kept \cup as
    BY DEF ArchiveColours, Archive
<1>3. \A c \in Present : AnchorOf(c) \in kept'
    BY <1>2
<1>4. index' \in [Colours -> SUBSET kept']
    BY <1>3 DEF ArchiveColours
<1>5. AnchorsInPlace'
    <2> HIDE DEF as
    <2>1. \A a \in as : a.rel \in Releases
        BY <1>1 DEF as
    <2> QED BY <1>2, <1>4, <2>1, MoreAnchors
<1> QED BY <1>1, <1>3, <1>5 DEF Present

LEMMA AnchorTypes == TypeOK /\ Anchor => TypeOK'
<1> SUFFICES ASSUME TypeOK, Anchor PROVE TypeOK'
    OBVIOUS
<1>1. AnchorsInPlace'
    BY ArchivedColours DEF Anchor
<1>2. SlotTypes' /\ CurrentTypes' /\ RunningTypes' /\ GateTypes'
    BY DEF Anchor, TypeOK, SlotTypes, CurrentTypes, RunningTypes, GateTypes, running
<1>3. Operation'
    BY DEF Anchor, TypeOK, Operation, Preparing, Lock, Idle
<1> QED BY <1>1, <1>2, <1>3 DEF TypeOK

LEMMA StageTypes == ASSUME TypeOK, NEW r \in Releases, Stage(r) PROVE TypeOK'
<1> DEFINE c == Other(cur.active)
<1>1. c \in Colours /\ c # cur.active
    BY OtherColour DEF TypeOK, CurrentTypes
<1>2. AnchorsInPlace' /\ \A d \in Colours : slot[d].marker # None =>
                           \E a \in kept' : a.rel = slot[d].marker
    BY ArchivedColours DEF Stage
<1>3. SlotTypes' /\ CurrentTypes'
    BY DEF Stage, TypeOK, SlotTypes, CurrentTypes
<1>4. RunningTypes'
    BY <1>1, EmbeddingOf DEF Stage, TypeOK, RunningTypes, Held
<1>5. GateTypes'
    BY <1>1 DEF Stage, Reserve, TypeOK, GateTypes, CurrentTypes
<1>6. Operation'
    <2>1. op' = [kind |-> "stage", colour |-> c, rel |-> r, from |-> {}, left |-> SlotFiles]
        BY DEF Stage
    <2>2. SlotFiles \in SlotLeft /\ Len(SlotFiles) = 5
        BY DEF SlotFiles, SlotLeft
    <2>3. slot' = slot /\ cur' = cur /\ cur.marker.colour = cur.active
        BY DEF Stage, ArchiveColours, ActiveAgrees
    <2> HIDE DEF c
    <2>4. /\ op'.kind = "stage" /\ op'.colour = c /\ op'.rel = r /\ op'.left = SlotFiles
          /\ op' = [kind |-> op'.kind, colour |-> op'.colour, rel |-> op'.rel,
                    from |-> op'.from, left |-> op'.left]
        BY <2>1
    <2>5. PreparationInv'
        <3>1. op'.left \in SlotLeft /\ Len(op'.left) = 5
            BY <2>1, <2>2, <2>4
        <3>2. op'.colour \in Colours /\ op'.colour # cur'.active /\ op'.colour # cur'.marker.colour
            BY <1>1, <2>2, <2>3, <2>4
        <3>3. op'.rel \in Releases
            BY <2>2, <2>4
        <3>4. slot'[op'.colour].marker # None => \E b \in kept' : b.rel = slot'[op'.colour].marker
            BY <1>1, <1>2, <2>2, <2>3, <2>4
        <3> QED BY <2>4, <3>1, <3>2, <3>3, <3>4 DEF PreparationInv
    <2> QED BY <2>4, <2>5 DEF Operation, Preparing
<1> QED BY <1>2, <1>3, <1>4, <1>5, <1>6 DEF TypeOK

LEMMA RestoreTypes == ASSUME TypeOK, NEW a \in kept, Restore(a) PROVE TypeOK'
<1>1. PICK c \in Colours :
        /\ c # cur.active
        /\ IF c \in Present THEN Whole(c) /\ Archive({AnchorOf(c)}) ELSE UNCHANGED kept
        /\ op' = [kind |-> "restore", colour |-> c, rel |-> a.rel, from |-> {a}, left |-> SlotFiles]
    BY DEF Restore, Restorable
<1>2. /\ kept' = kept \cup (IF c \in Present THEN {AnchorOf(c)} ELSE {})
      /\ c \in Present => AnchorOf(c).rel = slot[c].marker /\ slot[c].marker \in Releases
    BY <1>1 DEF Archive, AnchorOf, Present, TypeOK, SlotTypes, Held
<1>3. AnchorsInPlace'
    <2> DEFINE as == IF c \in Present THEN {AnchorOf(c)} ELSE {}
    <2>1. kept' = kept \cup as /\ \A b \in as : b.rel \in Releases
        BY <1>2
    <2>2. UNCHANGED <<away, index, baselines>>
        BY DEF Restore
    <2> HIDE DEF as
    <2> QED BY <2>1, <2>2, MoreAnchors
<1>4. SlotTypes' /\ CurrentTypes' /\ RunningTypes' /\ GateTypes'
    BY DEF Restore, TypeOK, SlotTypes, CurrentTypes, RunningTypes, GateTypes, running
<1>5. Operation'
    <2>1. SlotFiles \in SlotLeft /\ Len(SlotFiles) = 5
        BY DEF SlotFiles, SlotLeft
    <2>2. slot' = slot /\ cur' = cur /\ cur.marker.colour = cur.active /\ a.rel \in Releases
        BY DEF Restore, ActiveAgrees, TypeOK, AnchorsInPlace
    <2>3. slot[c].marker # None => \E b \in kept' : b.rel = slot[c].marker
        BY <1>2 DEF Present
    <2>4. /\ op'.kind = "restore" /\ op'.colour = c /\ op'.rel = a.rel /\ op'.left = SlotFiles
          /\ op' = [kind |-> op'.kind, colour |-> op'.colour, rel |-> op'.rel,
                    from |-> op'.from, left |-> op'.left]
        BY <1>1
    <2>5. PreparationInv'
        <3>1. op'.left \in SlotLeft /\ Len(op'.left) = 5
            BY <2>1, <2>2, <2>4
        <3>2. op'.colour \in Colours /\ op'.colour # cur'.active /\ op'.colour # cur'.marker.colour
            BY <1>1, <2>2, <2>3, <2>4
        <3>3. op'.rel \in Releases
            BY <2>2, <2>4
        <3>4. slot'[op'.colour].marker # None => \E b \in kept' : b.rel = slot'[op'.colour].marker
            BY <1>1, <1>2, <2>2, <2>3, <2>4
        <3> QED BY <2>4, <3>1, <3>2, <3>3, <3>4 DEF PreparationInv
    <2> QED BY <2>4, <2>5 DEF Operation, Preparing
<1> QED BY <1>3, <1>4, <1>5 DEF TypeOK
\* One write of a preparation: the file it is, and what the operation becomes.
LEMMA SlotWritten ==
    ASSUME TypeOK, WriteSlot
    PROVE  LET f == Head(op.left) IN
           /\ Preparing /\ PreparationInv
           /\ Len(op.left) \in 1..5
           /\ slot' = [slot EXCEPT ![op.colour][f] = Written(f)]
           /\ Len(op.left) = 1 => op' = Idle
           /\ Len(op.left) # 1 =>
                /\ op' = [op EXCEPT !.left = Tail(op.left)]
                /\ Tail(op.left) \in SlotLeft
                /\ Len(Tail(op.left)) = Len(op.left) - 1
<1>1. Preparing /\ PreparationInv /\ op.left \in SlotLeft
    BY DEF TypeOK, Operation, WriteSlot, SwitchInv, PreparationInv, Preparing, Idle
<1> QED BY <1>1, TailOfSlotFiles DEF WriteSlot

\* How far a preparation has come after one write.
LEMMA SlotProgress ==
    ASSUME TypeOK, WriteSlot
    PROVE  LET n == Len(op.left)
               c == op.colour
           IN
           /\ DOMAIN slot' = Colours
           /\ \A d \in Colours : DOMAIN slot'[d] = {"env", "manifest", "config", "marker", "receipt"}
           /\ \A d \in Colours \ {c} : slot'[d] = slot[d]
           /\ slot'[c].env.rel = op.rel
           /\ n <= 4 => slot'[c].manifest = op.rel
           /\ n <= 3 => slot'[c].config = op.rel
           /\ n <= 2 => slot'[c].marker = op.rel
           /\ n > 2 => slot'[c].marker = slot[c].marker
           /\ n > 3 => slot'[c].config = slot[c].config
           /\ n > 4 => slot'[c].manifest = slot[c].manifest
<1> DEFINE n == Len(op.left)
           f == Head(op.left)
           c == op.colour
<1>1. /\ Preparing /\ PreparationInv /\ n \in 1..5
      /\ slot' = [slot EXCEPT ![c][f] = Written(f)]
      /\ n = 1 => op' = Idle
      /\ n # 1 => /\ op' = [op EXCEPT !.left = Tail(op.left)]
                  /\ Tail(op.left) \in SlotLeft
                  /\ Len(Tail(op.left)) = n - 1
    BY SlotWritten
<1>2. c \in Colours /\ op.rel \in Releases /\ SlotTypes
    BY <1>1 DEF PreparationInv, TypeOK
<1>4. /\ n = 5 => f = "env"
      /\ n = 4 => f = "manifest"
      /\ n = 3 => f = "config"
      /\ n = 2 => f = "marker"
      /\ n = 1 => f = "receipt"
    BY <1>1, TailOfSlotFiles DEF PreparationInv
<1>5. /\ DOMAIN slot' = Colours
      /\ \A d \in Colours : DOMAIN slot'[d] = {"env", "manifest", "config", "marker", "receipt"}
      /\ \A d \in Colours \ {c} : slot'[d] = slot[d]
      /\ slot'[c][f] = Written(f)
      /\ \A g \in {"env", "manifest", "config", "marker", "receipt"} \ {f} : slot'[c][g] = slot[c][g]
    <2>1. f \in {"env", "manifest", "config", "marker", "receipt"}
        <3>1. n \in 1..5
            BY <1>1
        <3> HIDE DEF f, n
        <3>2. n = 1 \/ n = 2 \/ n = 3 \/ n = 4 \/ n = 5
            BY <3>1
        <3> QED BY <1>4, <3>2
    <2> HIDE DEF f, c, n
    <2> QED BY <1>1, <1>2, <2>1 DEF SlotTypes
<1>6. /\ Written("env").rel = op.rel
      /\ Written("manifest") = op.rel /\ Written("config") = op.rel /\ Written("marker") = op.rel
    BY DEF Written
<1>7. /\ slot'[c].env.rel = op.rel
      /\ n <= 4 => slot'[c].manifest = op.rel
      /\ n <= 3 => slot'[c].config = op.rel
      /\ n <= 2 => slot'[c].marker = op.rel
      /\ n > 2 => slot'[c].marker = slot[c].marker
      /\ n > 3 => slot'[c].config = slot[c].config
      /\ n > 4 => slot'[c].manifest = slot[c].manifest
    <2> HIDE DEF n, f, c
    <2>0. /\ n <= 4 => slot[c].env.rel = op.rel
          /\ n <= 3 => slot[c].manifest = op.rel
          /\ n <= 2 => slot[c].config = op.rel
          /\ n <= 1 => slot[c].marker = op.rel
        BY <1>1 DEF PreparationInv, n, c
    <2>1. CASE n = 5
        BY <1>5, <1>6, <1>4, <2>1
    <2>2. CASE n = 4
        BY <1>5, <1>6, <1>4, <2>0, <2>2
    <2>3. CASE n = 3
        BY <1>5, <1>6, <1>4, <2>0, <2>3
    <2>4. CASE n = 2
        BY <1>5, <1>6, <1>4, <2>0, <2>4
    <2>5. CASE n = 1
        BY <1>5, <1>6, <1>4, <2>0, <2>5
    <2> QED BY <1>1, <2>1, <2>2, <2>3, <2>4, <2>5
<1> QED BY <1>5, <1>7

LEMMA WriteSlotTypes == TypeOK /\ WriteSlot => TypeOK'
<1> SUFFICES ASSUME TypeOK, WriteSlot PROVE TypeOK'
    OBVIOUS
<1> DEFINE n == Len(op.left)
           f == Head(op.left)
           c == op.colour
<1>1. /\ Preparing /\ PreparationInv /\ n \in 1..5
      /\ slot' = [slot EXCEPT ![c][f] = Written(f)]
      /\ n = 1 => op' = Idle
      /\ n # 1 => /\ op' = [op EXCEPT !.left = Tail(op.left)]
                  /\ Tail(op.left) \in SlotLeft
                  /\ Len(Tail(op.left)) = n - 1
    BY SlotWritten
<1>2. c \in Colours /\ op.rel \in Releases /\ SlotTypes
    BY <1>1 DEF PreparationInv, TypeOK
<1>3. UNCHANGED <<cur, kept, away, index, baselines, images, api, embedding, pending, grants, torn, crashes>>
    BY DEF WriteSlot, anchoring, running
<1>4. /\ DOMAIN slot' = Colours
      /\ \A d \in Colours : DOMAIN slot'[d] = {"env", "manifest", "config", "marker", "receipt"}
      /\ \A d \in Colours \ {c} : slot'[d] = slot[d]
    BY SlotProgress
<1>5. /\ slot'[c].env.rel = op.rel
      /\ n <= 4 => slot'[c].manifest = op.rel
      /\ n <= 3 => slot'[c].config = op.rel
      /\ n <= 2 => slot'[c].marker = op.rel
      /\ n > 2 => slot'[c].marker = slot[c].marker
      /\ n > 3 => slot'[c].config = slot[c].config
      /\ n > 4 => slot'[c].manifest = slot[c].manifest
    BY SlotProgress
<1>6. SlotTypes'
    <2> SUFFICES ASSUME NEW d \in Colours
                 PROVE  /\ slot'[d].env.rel \in Held /\ slot'[d].manifest \in Held
                        /\ slot'[d].config \in Held /\ slot'[d].marker \in Held
                        /\ slot'[d].marker # None => slot'[d].env.rel \in Releases
        BY <1>4 DEF SlotTypes
    <2> HIDE DEF n, f
    <2>1. CASE d = c
        BY <1>1, <1>2, <1>5, <2>1 DEF SlotTypes, Held
    <2>2. CASE d # c
        BY <1>2, <1>4, <2>2 DEF SlotTypes
    <2> QED BY <2>1, <2>2
<1>7. CurrentTypes' /\ RunningTypes' /\ GateTypes' /\ AnchorsInPlace'
    BY <1>3 DEF TypeOK, CurrentTypes, RunningTypes, GateTypes, AnchorsInPlace
<1>8. Operation'
    <2>1. CASE n = 1
        BY <1>1, <2>1 DEF Operation
    <2>2. CASE n # 1
        <3>1. /\ op'.kind = op.kind /\ op'.colour = c /\ op'.rel = op.rel
              /\ op'.left = Tail(op.left)
              /\ op' = [kind |-> op'.kind, colour |-> op'.colour, rel |-> op'.rel,
                        from |-> op'.from, left |-> op'.left]
            BY <1>1, <2>2 DEF PreparationInv
        <3>2. op'.left \in SlotLeft /\ Len(op'.left) = n - 1 /\ n - 1 \in 1..4
            BY <1>1, <2>2, <3>1
        <3>3. op'.colour # cur'.active /\ op'.colour # cur'.marker.colour
            BY <1>1, <1>3, <3>1 DEF PreparationInv
        <3>4. n - 1 >= 2 /\ slot'[c].marker # None => \E a \in kept' : a.rel = slot'[c].marker
            BY <1>1, <1>3, <1>5 DEF PreparationInv
        <3> HIDE DEF n, f, c
        <3>5. /\ n - 1 <= 4 => slot'[c].env.rel = op.rel
              /\ n - 1 <= 3 => slot'[c].manifest = op.rel
              /\ n - 1 <= 2 => slot'[c].config = op.rel
              /\ n - 1 <= 1 => slot'[c].marker = op.rel
            BY <1>1, <1>5
        <3>6. PreparationInv'
            BY <1>2, <3>1, <3>2, <3>3, <3>4, <3>5 DEF PreparationInv
        <3> QED BY <1>1, <3>1, <3>6 DEF Operation, Preparing
    <2> QED BY <2>1, <2>2
<1> QED BY <1>6, <1>7, <1>8 DEF TypeOK
\* What a switch finds, and the operation it becomes.
LEMMA SwitchFound ==
    ASSUME TypeOK, NEW forward \in BOOLEAN, Switch(forward)
    PROVE  LET c == Other(cur.active) IN
           /\ c \in Colours /\ c # cur.active
           /\ slot[c].marker \in Releases /\ slot[c].env.rel \in Releases
           /\ op'.kind = "switch" /\ op'.colour = c /\ op'.rel = slot[c].marker
           /\ op'.forward = forward /\ op'.left = CurrentFiles
           /\ SwitchInv'
<1> DEFINE c == Other(cur.active)
<1>1. c \in Colours /\ c # cur.active
    BY OtherColour DEF TypeOK, CurrentTypes
<1>2. /\ slot[c].marker # None
      /\ slot[c].manifest = slot[c].marker /\ slot[c].config = slot[c].marker
    BY DEF Switch, Checked
<1>3. slot[c].marker \in Releases /\ slot[c].env.rel \in Releases
    BY <1>1, <1>2 DEF TypeOK, SlotTypes, Held
<1>4. /\ op' = [kind |-> "switch", colour |-> c, rel |-> slot[c].marker, forward |-> forward,
                swapped |-> Swaps(c), left |-> CurrentFiles]
      /\ slot' = slot
    BY DEF Switch
<1>5. CurrentFiles \in CurrentLeft /\ Swaps(c) \in BOOLEAN
    BY DEF CurrentFiles, CurrentLeft, Swaps
<1> HIDE DEF c
<1>6. /\ op' \in [kind : {"switch"}, colour : Colours, rel : Releases, forward : BOOLEAN,
                  swapped : BOOLEAN, left : CurrentLeft]
      /\ op'.kind = "switch" /\ op'.colour = c /\ op'.rel = slot[c].marker
      /\ op'.forward = forward /\ op'.left = CurrentFiles
    BY <1>1, <1>3, <1>4, <1>5
<1>7. SwitchInv'
    BY <1>2, <1>4, <1>6 DEF SwitchInv
<1> QED BY <1>1, <1>3, <1>6, <1>7 DEF c

LEMMA SwitchTypes ==
    ASSUME TypeOK, NEW forward \in BOOLEAN, Switch(forward)
    PROVE  TypeOK'
<1> DEFINE c == Other(cur.active)
<1>1. /\ c \in Colours /\ slot[c].env.rel \in Releases
      /\ op'.kind = "switch" /\ SwitchInv'
    BY SwitchFound
<1>2. /\ api' = [api EXCEPT ![c] = slot[c].env.rel]
      /\ embedding' = IF Swaps(c) THEN Emb[slot[c].env.rel] ELSE embedding
      /\ images' = images \cup {slot[c].env.rel, embedding'}
      /\ UNCHANGED <<slot, cur, kept, away, index, baselines, pending, grants, torn, crashes>>
    BY DEF Switch, anchoring
<1> HIDE DEF c
<1>3. embedding' \in Embeddings /\ embedding' \in Images
    BY <1>1, <1>2, EmbeddingOf DEF TypeOK, RunningTypes, Embeddings, Images
<1>4. RunningTypes'
    BY <1>1, <1>2, <1>3, EmbeddingOf DEF TypeOK, RunningTypes, Held
<1>5. SlotTypes' /\ CurrentTypes' /\ GateTypes' /\ AnchorsInPlace'
    BY <1>2 DEF TypeOK, SlotTypes, CurrentTypes, GateTypes, AnchorsInPlace
<1> QED BY <1>1, <1>4, <1>5 DEF TypeOK, Operation

\* One write of a commit: the file it is, and what the operation becomes.
LEMMA CurrentWritten ==
    ASSUME TypeOK, WriteCurrent
    PROVE  LET n == Len(op.left) IN
           /\ n \in 1..5
           /\ SwitchInv /\ SwitchInv'
           /\ op'.kind = "switch" /\ op'.colour = op.colour /\ op'.rel = op.rel
           /\ Len(op'.left) = n - 1
           /\ n = 5 => cur' = [cur EXCEPT !.env = slot[op.colour].env.rel]
           /\ n = 4 => cur' = [cur EXCEPT !.active = op.colour]
           /\ n = 3 => cur' = [cur EXCEPT !.manifest = op.rel]
           /\ n = 2 => cur' = [cur EXCEPT !.config = op.rel]
           /\ n = 1 => cur' = [cur EXCEPT !.marker = [colour |-> op.colour, rel |-> op.rel]]
<1> DEFINE n == Len(op.left)
<1>1. SwitchInv /\ op.left \in CurrentLeft /\ op.left # <<>>
    BY DEF TypeOK, Operation, WriteCurrent, PreparationInv, SwitchInv, Preparing, Idle
<1>2. n \in 1..5 /\ Tail(op.left) \in CurrentLeft /\ Len(Tail(op.left)) = n - 1
    BY <1>1, TailOfCurrentFiles
<1>3. /\ op' = [op EXCEPT !.left = Tail(op.left)]
      /\ slot' = slot
    BY DEF WriteCurrent
<1>4. SwitchInv' /\ op'.kind = "switch" /\ op'.colour = op.colour /\ op'.rel = op.rel
      /\ op'.left = Tail(op.left)
    BY <1>1, <1>2, <1>3 DEF SwitchInv
<1>5. ASSUME n = 5 PROVE cur' = [cur EXCEPT !.env = slot[op.colour].env.rel]
    <2>1. Head(op.left) = "env"
        BY <1>1, <1>5, TailOfCurrentFiles
    <2> QED BY <2>1 DEF WriteCurrent
<1>6. ASSUME n = 4 PROVE cur' = [cur EXCEPT !.active = op.colour]
    <2>1. Head(op.left) = "active"
        BY <1>1, <1>6, TailOfCurrentFiles
    <2> QED BY <2>1 DEF WriteCurrent
<1>7. ASSUME n = 3 PROVE cur' = [cur EXCEPT !.manifest = op.rel]
    <2>1. Head(op.left) = "manifest" /\ slot[op.colour].manifest = op.rel
        BY <1>1, <1>7, TailOfCurrentFiles DEF SwitchInv
    <2> QED BY <2>1 DEF WriteCurrent
<1>8. ASSUME n = 2 PROVE cur' = [cur EXCEPT !.config = op.rel]
    <2>1. Head(op.left) = "config" /\ slot[op.colour].config = op.rel
        BY <1>1, <1>8, TailOfCurrentFiles DEF SwitchInv
    <2> QED BY <2>1 DEF WriteCurrent
<1>9. ASSUME n = 1 PROVE cur' = [cur EXCEPT !.marker = [colour |-> op.colour, rel |-> op.rel]]
    <2>1. Head(op.left) = "marker"
        BY <1>1, <1>9, TailOfCurrentFiles
    <2> QED BY <2>1 DEF WriteCurrent
<1> QED BY <1>1, <1>2, <1>4, <1>5, <1>6, <1>7, <1>8, <1>9

LEMMA WriteCurrentTypes == TypeOK /\ WriteCurrent => TypeOK'
<1> SUFFICES ASSUME TypeOK, WriteCurrent PROVE TypeOK'
    OBVIOUS
<1> DEFINE n == Len(op.left)
<1>1. /\ n \in 1..5
      /\ op'.kind = "switch" /\ SwitchInv /\ SwitchInv'
      /\ n = 5 => cur' = [cur EXCEPT !.env = slot[op.colour].env.rel]
      /\ n = 4 => cur' = [cur EXCEPT !.active = op.colour]
      /\ n = 3 => cur' = [cur EXCEPT !.manifest = op.rel]
      /\ n = 2 => cur' = [cur EXCEPT !.config = op.rel]
      /\ n = 1 => cur' = [cur EXCEPT !.marker = [colour |-> op.colour, rel |-> op.rel]]
    BY CurrentWritten
<1>2. op.colour \in Colours /\ op.rel \in Releases /\ slot[op.colour].env.rel \in Releases
    BY <1>1 DEF SwitchInv, TypeOK, SlotTypes
<1>3. CurrentTypes'
    <2> HIDE DEF n
    <2> USE DEF TypeOK, CurrentTypes
    <2>1. CASE n = 5
        BY <1>1, <1>2, <2>1
    <2>2. CASE n = 4
        BY <1>1, <1>2, <2>2
    <2>3. CASE n = 3
        BY <1>1, <1>2, <2>3
    <2>4. CASE n = 2
        BY <1>1, <1>2, <2>4
    <2>5. CASE n = 1
        BY <1>1, <1>2, <2>5
    <2> QED BY <1>1, <2>1, <2>2, <2>3, <2>4, <2>5
<1>4. SlotTypes' /\ RunningTypes' /\ AnchorsInPlace'
    BY DEF WriteCurrent, TypeOK, SlotTypes, RunningTypes, AnchorsInPlace, anchoring, running
<1>5. GateTypes'
    BY DEF WriteCurrent, TypeOK, GateTypes
<1> QED BY <1>1, <1>3, <1>4, <1>5 DEF TypeOK, Operation
\* Ending an operation, however it ends, and what is decided about candidates.
LEMMA EndTypes ==
    TypeOK /\ (FinishSwitch \/ Crash \/ Discard \/ ClearGrants) => TypeOK'
<1> SUFFICES ASSUME TypeOK, FinishSwitch \/ Crash \/ Discard \/ ClearGrants PROVE TypeOK'
    OBVIOUS
<1>1. UNCHANGED <<slot, cur, kept, away, index, baselines, images, api, embedding>>
    BY DEF FinishSwitch, Crash, Discard, ClearGrants, anchoring, running
<1>2. SlotTypes' /\ CurrentTypes' /\ RunningTypes' /\ AnchorsInPlace'
    BY <1>1 DEF TypeOK, SlotTypes, CurrentTypes, RunningTypes, AnchorsInPlace
<1>3. pending' \subseteq pending /\ grants' \subseteq grants
    BY DEF FinishSwitch, Crash, Discard, ClearGrants
<1>4. crashes' \in Nat
    BY DEF FinishSwitch, Crash, Discard, ClearGrants, TypeOK, GateTypes
<1>5. torn' \in BOOLEAN
    <2>1. CASE Crash
        BY <2>1 DEF Crash
    <2>2. CASE FinishSwitch \/ Discard \/ ClearGrants
        BY <2>2 DEF FinishSwitch, Discard, ClearGrants, TypeOK, GateTypes
    <2> QED BY <2>1, <2>2
<1>6. GateTypes'
    BY <1>3, <1>4, <1>5 DEF TypeOK, GateTypes
<1>7. op' = Idle
    BY DEF FinishSwitch, Crash, Discard, ClearGrants, Lock, Idle, TypeOK, Operation, Preparing, SwitchInv
<1> QED BY <1>2, <1>6, <1>7 DEF TypeOK, Operation

\* An operation that holds the lock for one write only leaves no trace of itself.
LEMMA StillIdle == TypeOK /\ Lock => op = Idle
BY DEF TypeOK, Operation, Preparing, Lock, Idle

LEMMA AuthoriseTypes == ASSUME TypeOK, NEW e \in Embeddings, Authorise(e) PROVE TypeOK'
<1>1. UNCHANGED <<slot, cur, kept, away, index, baselines, images, api, embedding, pending, torn, crashes>>
      /\ op' = Idle
    BY StillIdle DEF Authorise, anchoring, running
<1>2. SlotTypes' /\ CurrentTypes' /\ RunningTypes' /\ AnchorsInPlace' /\ Operation'
    BY <1>1 DEF TypeOK, SlotTypes, CurrentTypes, RunningTypes, AnchorsInPlace, Operation
<1>3. Emb[cur.env] \in Embeddings
    BY EmbeddingOf DEF TypeOK, CurrentTypes
<1>4. grants' = {g \in grants : g.to # e} \cup {[from |-> Emb[cur.env], to |-> e]}
    BY DEF Authorise
<1>5. GateTypes'
    BY <1>1, <1>3, <1>4 DEF TypeOK, GateTypes
<1> QED BY <1>2, <1>5 DEF TypeOK

LEMMA BaselineTypes == ASSUME TypeOK, NEW a \in kept, BaselineMark(a) PROVE TypeOK'
<1> DEFINE older == {i \in DOMAIN baselines : baselines[i] # a}
<1>1. UNCHANGED <<slot, cur, kept, away, index, images, api, embedding, pending, grants, torn, crashes>>
      /\ op' = Idle
    BY StillIdle DEF BaselineMark, running
<1>2. SlotTypes' /\ CurrentTypes' /\ RunningTypes' /\ GateTypes' /\ Operation'
    BY <1>1 DEF TypeOK, SlotTypes, CurrentTypes, RunningTypes, GateTypes, Operation
<1>3. baselines' = IF older = {} THEN <<a>> ELSE <<a, baselines[Min(older)]>>
    BY DEF BaselineMark
<1>4. older # {} => baselines[Min(older)] \in kept
    BY NewestOlder DEF TypeOK, AnchorsInPlace
<1>5. baselines' \in Seq(kept') /\ Len(baselines') <= 2
    <2> HIDE DEF older
    <2> QED BY <1>1, <1>3, <1>4
<1>6. AnchorsInPlace'
    BY <1>1, <1>5 DEF TypeOK, AnchorsInPlace
<1> QED BY <1>2, <1>6 DEF TypeOK

LEMMA RetireTypes == ASSUME TypeOK, NEW a \in kept, Retire(a) PROVE TypeOK'
<1>1. UNCHANGED <<slot, cur, index, baselines, images, api, embedding, pending, grants, torn, crashes>>
      /\ op' = Idle /\ kept' = kept \ {a} /\ away' = away \cup {a}
    BY StillIdle DEF Retire, running
<1>2. SlotTypes' /\ CurrentTypes' /\ RunningTypes' /\ GateTypes' /\ Operation'
    BY <1>1 DEF TypeOK, SlotTypes, CurrentTypes, RunningTypes, GateTypes, Operation
<1>3. (\A c \in Colours : a \notin index[c]) /\ \A i \in DOMAIN baselines : baselines[i] # a
    BY DEF Retire, MayRetire, Referenced, ToSet
<1>4. baselines \in Seq(kept) /\ Len(baselines) <= 2 /\ index \in [Colours -> SUBSET kept]
    BY DEF TypeOK, AnchorsInPlace
<1>5. \A i \in DOMAIN baselines : baselines[i] \in kept'
    BY ONLY <1>1, <1>3, <1>4
<1>6. baselines \in Seq(kept')
    BY ONLY <1>4, <1>5, SameElements
<1>7. index \in [Colours -> SUBSET kept']
    BY <1>1, <1>3, <1>4
<1>8. AnchorsInPlace'
    BY <1>1, <1>4, <1>6, <1>7 DEF TypeOK, AnchorsInPlace
<1> QED BY <1>2, <1>8 DEF TypeOK

LEMMA UnretireTypes == ASSUME TypeOK, NEW a \in away, Unretire(a) PROVE TypeOK'
<1>1. UNCHANGED <<slot, cur, index, baselines, images, api, embedding, pending, grants, torn, crashes>>
      /\ op' = Idle /\ kept' = kept \cup {a} /\ away' = away \ {a}
    BY StillIdle DEF Unretire, running
<1>2. SlotTypes' /\ CurrentTypes' /\ RunningTypes' /\ GateTypes' /\ Operation'
    BY <1>1 DEF TypeOK, SlotTypes, CurrentTypes, RunningTypes, GateTypes, Operation
<1>3. baselines \in Seq(kept) /\ Len(baselines) <= 2 /\ index \in [Colours -> SUBSET kept]
      /\ kept \subseteq kept'
    BY <1>1 DEF TypeOK, AnchorsInPlace
<1>4. \A i \in DOMAIN baselines : baselines[i] \in kept'
    BY ONLY <1>3
<1>5. baselines \in Seq(kept')
    BY ONLY <1>3, <1>4, SameElements
<1>6. AnchorsInPlace'
    BY <1>1, <1>3, <1>5 DEF TypeOK, AnchorsInPlace
<1> QED BY <1>2, <1>6 DEF TypeOK

LEMMA CollectTypes == ASSUME TypeOK, NEW i \in Images, Collect(i) PROVE TypeOK'
<1>1. UNCHANGED <<slot, cur, kept, away, index, baselines, api, embedding, pending, grants, torn, crashes>>
      /\ op' = Idle /\ images' \subseteq images
    BY StillIdle DEF Collect, anchoring
<1> QED BY <1>1 DEF TypeOK, SlotTypes, CurrentTypes, RunningTypes, GateTypes, AnchorsInPlace, Operation

LEMMA StepKeepsTypes == TypeOK /\ [Next]_vars => TypeOK'
<1> SUFFICES ASSUME TypeOK, [Next]_vars PROVE TypeOK'
    OBVIOUS
<1>1. CASE Anchor \/ WriteSlot \/ WriteCurrent
    BY <1>1, AnchorTypes, WriteSlotTypes, WriteCurrentTypes
<1>2. CASE FinishSwitch \/ Crash \/ Discard \/ ClearGrants
    BY <1>2, EndTypes
<1>3. CASE \E r \in Releases : Stage(r)
    BY <1>3, StageTypes
<1>4. CASE \E a \in kept : Restore(a) \/ BaselineMark(a) \/ Retire(a)
    BY <1>4, RestoreTypes, BaselineTypes, RetireTypes
<1>5. CASE \E a \in away : Unretire(a)
    BY <1>5, UnretireTypes
<1>6. CASE \E forward \in BOOLEAN : Switch(forward)
    BY <1>6, SwitchTypes
<1>7. CASE \E e \in Embeddings : Authorise(e)
    BY <1>7, AuthoriseTypes
<1>8. CASE \E i \in Images : Collect(i)
    BY <1>8, CollectTypes
<1>9. CASE UNCHANGED vars
    <2> USE DEF vars, anchoring, running
    <2>1. SlotTypes' /\ CurrentTypes' /\ RunningTypes' /\ GateTypes' /\ AnchorsInPlace'
        BY <1>9 DEF TypeOK, SlotTypes, CurrentTypes, RunningTypes, GateTypes, AnchorsInPlace
    <2>2. Operation'
        BY <1>9 DEF TypeOK, Operation, Preparing, PreparationInv, SwitchInv
    <2> QED BY <2>1, <2>2 DEF TypeOK
<1> QED BY <1>1, <1>2, <1>3, <1>4, <1>5, <1>6, <1>7, <1>8, <1>9 DEF Next, Embeddings

\* The files of both colours, the anchors and what is recorded of them keep
\* their types, and a preparation has anchored what it overwrites.
THEOREM TypeCorrect == Spec => []TypeOK
BY InitTypes, StepKeepsTypes, PTL DEF Spec

\* What a colour held is anchored when another release's marker replaces it,
\* whatever was interrupted and wherever.
THEOREM NothingLostByOverwriting == Spec => OverwrittenIsAnchored
<1>1. ASSUME TypeOK, [Next]_vars, NEW c \in Colours,
             slot'[c].marker # slot[c].marker, slot[c].marker # None
      PROVE  \E a \in kept : a.rel = slot[c].marker
    <2>1. slot' # slot
        BY <1>1
    <2>2. WriteSlot
        BY <1>1, <2>1 DEF Next, vars, Anchor, Stage, Restore, Switch, WriteCurrent, FinishSwitch, Crash,
                          Discard, ClearGrants, Authorise, BaselineMark, Retire, Unretire, Collect
    <2> DEFINE f == Head(op.left)
    <2>3. /\ PreparationInv /\ op.left \in SlotLeft
          /\ slot' = [slot EXCEPT ![op.colour][f] = Written(f)]
        BY <1>1, <2>2, SlotWritten DEF PreparationInv
    <2>4. op.colour = c /\ f = "marker"
        <3> HIDE DEF f
        <3> QED BY <1>1, <2>3 DEF TypeOK, SlotTypes
    <2>5. Len(op.left) = 2
        BY <2>3, <2>4, TailOfSlotFiles
    <2> QED BY <1>1, <2>3, <2>4, <2>5 DEF PreparationInv
<1>2. TypeOK /\ [Next]_vars =>
        [\A c \in Colours : slot'[c].marker # slot[c].marker /\ slot[c].marker # None =>
            \E a \in kept : a.rel = slot[c].marker]_vars
    BY <1>1
<1> QED BY <1>2, TypeCorrect, PTL DEF Spec, OverwrittenIsAnchored
-----------------------------------------------------------------------------
(* Agreement of the files, where no preparation is left half written.      *)

LEMMA InitAgrees == Init => Agreement
<1> SUFFICES ASSUME Init PROVE Agreement
    OBVIOUS
<1> USE DEF Init, Idle, Colours
<1>1. Uniform /\ MarkerHolds
    BY DEF Uniform, MarkerHolds
<1>2. Committed /\ Switched
    BY DEF Committed, Switched, ActiveAgrees
<1> QED BY <1>1, <1>2 DEF Agreement

LEMMA FrameAgrees ==
    ASSUME Agreement, UNCHANGED <<slot, cur, embedding, op, torn>>
    PROVE  Agreement'
BY DEF Agreement, Uniform, MarkerHolds, Committed, Switched, Preparing, ActiveAgrees

LEMMA PreparationAgrees ==
    ASSUME IInv, (\E r \in Releases : Stage(r)) \/ \E a \in kept : Restore(a)
    PROVE  Agreement'
<1>1. /\ UNCHANGED <<slot, cur, embedding, torn>>
      /\ op = Idle /\ op'.kind \in {"stage", "restore"}
    <2>1. CASE \E r \in Releases : Stage(r)
        BY <2>1, StillIdle DEF IInv, Stage
    <2>2. CASE \E a \in kept : Restore(a)
        BY <2>2, StillIdle DEF IInv, Restore, running
    <2> QED BY <2>1, <2>2
<1> USE <1>1 DEF IInv, Agreement, Idle
<1>2. Uniform' /\ MarkerHolds'
    BY DEF Uniform, MarkerHolds, Preparing
<1>3. Committed' /\ Switched'
    BY DEF Committed, Switched, ActiveAgrees
<1> QED BY <1>2, <1>3

LEMMA WriteSlotAgrees == ASSUME IInv, WriteSlot PROVE Agreement'
<1> DEFINE n == Len(op.left)
           c == op.colour
<1>1. /\ Preparing /\ PreparationInv /\ n \in 1..5
      /\ n = 1 => op' = Idle
      /\ n # 1 => op' = [op EXCEPT !.left = Tail(op.left)]
    BY SlotWritten DEF IInv
<1>2. /\ \A d \in Colours \ {c} : slot'[d] = slot[d]
      /\ slot'[c].env.rel = op.rel
      /\ n <= 4 => slot'[c].manifest = op.rel
      /\ n <= 3 => slot'[c].config = op.rel
      /\ n <= 2 => slot'[c].marker = op.rel
    BY SlotProgress DEF IInv
<1>3. UNCHANGED <<cur, embedding, torn>> /\ op'.kind # "switch" /\ op.kind # "switch"
    BY <1>1 DEF WriteSlot, running, Preparing, PreparationInv, Idle
<1>4. cur.marker.colour \in Colours \ {c}
    BY <1>1 DEF IInv, TypeOK, CurrentTypes, PreparationInv
<1>5. MarkerHolds'
    BY <1>2, <1>3, <1>4 DEF IInv, Agreement, MarkerHolds
<1>6. Committed' /\ Switched'
    BY <1>3 DEF IInv, Agreement, Committed, Switched, ActiveAgrees
<1>7. Uniform'
    <2>1. CASE n = 1
        BY <1>1, <1>2, <2>1 DEF IInv, Agreement, Uniform, Idle
    <2>2. CASE n # 1
        <3>1. op'.kind = op.kind /\ op'.colour = c
            BY <1>1, <2>2 DEF PreparationInv
        <3> QED BY <1>1, <1>2, <3>1 DEF IInv, Agreement, Uniform, Preparing
    <2> QED BY <2>1, <2>2
<1> QED BY <1>5, <1>6, <1>7 DEF Agreement

LEMMA SwitchAgrees ==
    ASSUME IInv, NEW forward \in BOOLEAN, Switch(forward)
    PROVE  Agreement'
<1> DEFINE c == Other(cur.active)
<1>1. /\ c \in Colours /\ slot[c].marker \in Releases
      /\ op'.kind = "switch" /\ op'.rel = slot[c].marker /\ op'.left = CurrentFiles
    BY SwitchFound DEF IInv
<1>2. /\ embedding' = IF Swaps(c) THEN Emb[slot[c].env.rel] ELSE embedding
      /\ UNCHANGED <<slot, cur, torn>> /\ op = Idle
    BY StillIdle DEF Switch, IInv
<1>3. slot[c].env.rel = slot[c].marker
    BY <1>1, <1>2 DEF IInv, Agreement, Uniform, Preparing, Idle
<1>4. embedding' = Emb[op'.rel]
    BY <1>1, <1>2, <1>3 DEF Swaps
<1>5. Len(op'.left) = 5
    BY <1>1 DEF CurrentFiles
<1>6. Switched' /\ Committed'
    BY <1>1, <1>4, <1>5 DEF Switched, Committed
<1>7. Uniform' /\ MarkerHolds'
    BY <1>1, <1>2 DEF IInv, Agreement, Uniform, MarkerHolds, Preparing, Idle
<1> QED BY <1>6, <1>7 DEF Agreement

LEMMA WriteCurrentAgrees == ASSUME IInv, WriteCurrent PROVE Agreement'
<1> DEFINE n == Len(op.left)
<1>1. /\ n \in 1..5 /\ SwitchInv
      /\ op'.kind = "switch" /\ op'.colour = op.colour /\ op'.rel = op.rel
      /\ Len(op'.left) = n - 1
      /\ n = 5 => cur' = [cur EXCEPT !.env = slot[op.colour].env.rel]
      /\ n = 4 => cur' = [cur EXCEPT !.active = op.colour]
      /\ n = 3 => cur' = [cur EXCEPT !.manifest = op.rel]
      /\ n = 2 => cur' = [cur EXCEPT !.config = op.rel]
      /\ n = 1 => cur' = [cur EXCEPT !.marker = [colour |-> op.colour, rel |-> op.rel]]
    BY CurrentWritten DEF IInv
<1>2. op.kind = "switch" /\ UNCHANGED <<slot, embedding>>
    BY DEF WriteCurrent, running
<1>3. op.colour \in Colours /\ slot[op.colour].marker = op.rel /\ slot[op.colour].env.rel = op.rel
    BY <1>1, <1>2 DEF SwitchInv, IInv, Agreement, Uniform, Preparing
<1>4. Uniform' /\ Committed'
    BY <1>1, <1>2 DEF IInv, Agreement, Uniform, Committed, Preparing
<1>5. CurrentTypes /\ MarkerHolds /\ Switched
    BY DEF IInv, TypeOK, Agreement
<1> HIDE DEF n
<1>6. MarkerHolds'
    <2>1. CASE n = 1
        BY <1>1, <1>2, <1>3, <1>5, <2>1 DEF MarkerHolds, CurrentTypes
    <2>2. CASE n # 1
        <3>1. n = 2 \/ n = 3 \/ n = 4 \/ n = 5
            BY <1>1, <2>2
        <3>2. cur'.marker = cur.marker
            BY <1>1, <1>5, <3>1 DEF CurrentTypes
        <3> QED BY <1>2, <1>5, <3>2 DEF MarkerHolds
    <2> QED BY <2>1, <2>2
<1>7. Switched'
    <2>1. /\ embedding = Emb[op.rel]
          /\ n <= 4 => cur.env = op.rel
          /\ n <= 3 => cur.active = op.colour
          /\ n <= 2 => cur.manifest = op.rel
          /\ n <= 1 => cur.config = op.rel
        BY <1>2, <1>5 DEF Switched, n
    <2>2. /\ n <= 5 => cur'.env = op.rel
          /\ n <= 4 => cur'.active = op.colour
          /\ n <= 3 => cur'.manifest = op.rel
          /\ n <= 2 => cur'.config = op.rel
          /\ n <= 1 => cur'.marker = [colour |-> op.colour, rel |-> op.rel]
        <3>1. CASE n = 5
            BY <1>1, <1>3, <1>5, <2>1, <3>1 DEF CurrentTypes
        <3>2. CASE n = 4
            BY <1>1, <1>5, <2>1, <3>2 DEF CurrentTypes
        <3>3. CASE n = 3
            BY <1>1, <1>5, <2>1, <3>3 DEF CurrentTypes
        <3>4. CASE n = 2
            BY <1>1, <1>5, <2>1, <3>4 DEF CurrentTypes
        <3>5. CASE n = 1
            BY <1>1, <1>5, <2>1, <3>5 DEF CurrentTypes
        <3> QED BY <1>1, <3>1, <3>2, <3>3, <3>4, <3>5
    <2> QED BY <1>1, <1>2, <2>1, <2>2 DEF Switched
<1> QED BY <1>4, <1>6, <1>7 DEF Agreement

LEMMA EndAgrees ==
    ASSUME IInv, WritesEnd, FinishSwitch \/ Crash
    PROVE  Agreement'
<1>1. /\ UNCHANGED <<slot, cur, embedding>>
      /\ op.kind = "switch" /\ op' = Idle /\ SwitchInv
    BY DEF FinishSwitch, Crash, WritesEnd, running, IInv, TypeOK, Operation, Idle, Preparing
<1>2. Uniform' /\ MarkerHolds'
    BY <1>1 DEF IInv, Agreement, Uniform, MarkerHolds, Preparing
<1>3. Switched'
    BY <1>1 DEF Switched, Idle
<1>4. Committed'
    <2> SUFFICES ASSUME ~torn' PROVE (ActiveAgrees /\ cur.config = cur.marker.rel /\ embedding = Emb[cur.env])'
        BY DEF Committed
    <2>1. op.left = <<>>
        BY <1>1 DEF FinishSwitch, Crash
    <2>2. Len(op.left) = 0
        BY <2>1
    <2>3. /\ embedding = Emb[op.rel] /\ cur.env = op.rel /\ cur.active = op.colour
          /\ cur.manifest = op.rel /\ cur.config = op.rel
          /\ cur.marker = [colour |-> op.colour, rel |-> op.rel]
        BY <1>1, <2>2 DEF IInv, Agreement, Switched
    <2> QED BY <1>1, <2>3 DEF ActiveAgrees
<1> QED BY <1>2, <1>3, <1>4 DEF Agreement

LEMMA StepAgrees == ASSUME WritesEnd PROVE IInv /\ [Next]_vars => Agreement'
<1> SUFFICES ASSUME IInv, [Next]_vars PROVE Agreement'
    OBVIOUS
<1>1. CASE UNCHANGED <<slot, cur, embedding, op, torn>>
    BY <1>1, FrameAgrees DEF IInv
<1>2. CASE (\E r \in Releases : Stage(r)) \/ \E a \in kept : Restore(a)
    BY <1>2, PreparationAgrees
<1>3. CASE WriteSlot \/ WriteCurrent
    BY <1>3, WriteSlotAgrees, WriteCurrentAgrees
<1>4. CASE FinishSwitch \/ Crash
    BY <1>4, EndAgrees
<1>5. CASE \E forward \in BOOLEAN : Switch(forward)
    BY <1>5, SwitchAgrees
<1>6. CASE \/ Anchor \/ Discard \/ ClearGrants
           \/ \E a \in kept : BaselineMark(a) \/ Retire(a)
           \/ \E a \in away : Unretire(a)
           \/ \E e \in Embeddings : Authorise(e)
           \/ \E i \in Images : Collect(i)
    BY <1>1, <1>6 DEF Anchor, Discard, ClearGrants, BaselineMark, Retire, Unretire, Authorise, Collect, running
<1>7. CASE UNCHANGED vars
    BY <1>1, <1>7 DEF vars, running
<1> QED BY <1>2, <1>3, <1>4, <1>5, <1>6, <1>7 DEF Next, Embeddings

\* The inductive invariant: a colour is whole unless it is being prepared, the
\* marker names what its colour holds, and the files in use agree but for the
\* ones a switch has not reached.
THEOREM Invariance == ASSUME WritesEnd PROVE Spec => []IInv
<1>1. Init => IInv
    BY InitTypes, InitAgrees DEF IInv
<1>2. IInv /\ [Next]_vars => IInv'
    BY StepKeepsTypes, StepAgrees DEF IInv
<1> QED BY <1>1, <1>2, PTL DEF Spec

\* Outside a switch, and unless one was interrupted, the five files that name
\* the serving release agree with each other and with the colour's own.
THEOREM ServingFilesAgree == ASSUME WritesEnd PROVE Spec => []CommittedAgree
<1>1. IInv => CommittedAgree
    <2> SUFFICES ASSUME IInv, op.kind # "switch", ~torn PROVE CommittedAgree
        BY DEF CommittedAgree
    <2>1. ActiveAgrees /\ cur.config = cur.marker.rel /\ cur.active \in Colours
        BY DEF IInv, Agreement, Committed, TypeOK, CurrentTypes
    <2>2. ~(Preparing /\ op.colour = cur.active)
        BY DEF IInv, TypeOK, Operation, PreparationInv, Preparing, Idle
    <2>3. /\ slot[cur.active].env.rel = slot[cur.active].marker
          /\ slot[cur.active].manifest = slot[cur.active].marker
        BY <2>1, <2>2 DEF IInv, Agreement, Uniform
    <2>4. slot[cur.active].marker = cur.marker.rel
        BY <2>1 DEF IInv, Agreement, MarkerHolds, ActiveAgrees
    <2> QED BY <2>1, <2>3, <2>4 DEF CommittedAgree, ActiveAgrees
<1> QED BY <1>1, Invariance, PTL

\* Image collection keeps what the serving release, the other colour and the
\* stable baselines need, after interrupted switches too.
THEOREM CollectionKeepsRecovery == ASSUME WritesEnd PROVE Spec => GcKeepsRecovery
<1> DEFINE Kept(i) == /\ i \notin ImagesOf(cur.marker.rel)
                      /\ \A c \in Colours : i \notin ImagesOf(slot[c].marker)
                      /\ \A b \in ToSet(baselines) : i \notin ImagesOf(b.rel)
<1>1. ASSUME IInv, [Next]_vars, NEW i \in images \ images'
      PROVE  Kept(i)
    <2>1. PICK j \in Images : Collect(j)
        BY <1>1 DEF Next, vars, Anchor, Stage, Restore, Switch, WriteCurrent, WriteSlot, FinishSwitch, Crash,
                    Discard, ClearGrants, Authorise, BaselineMark, Retire, Unretire, running
    <2>2. i \in Collectable /\ op = Idle
        BY <1>1, <2>1, StillIdle DEF Collect, IInv
    <2>3. i \notin References
        BY <2>2 DEF Collectable
    <2>4. \A c \in Colours : i \notin ImagesOf(slot[c].marker)
        <3>1. i \notin NamedBySlots
            BY <2>3 DEF References
        <3>2. \A c \in Colours : i \notin ImagesOf(slot[c].manifest)
            BY <3>1 DEF NamedBySlots
        <3> QED BY <1>1, <2>2, <3>2 DEF IInv, Agreement, Uniform, Preparing, Idle
    <2>5. i \notin ImagesOf(cur.marker.rel)
        BY <1>1, <2>4 DEF IInv, Agreement, MarkerHolds, TypeOK, CurrentTypes
    <2>6. \A b \in ToSet(baselines) : b \in kept
        BY <1>1 DEF IInv, TypeOK, AnchorsInPlace, ToSet
    <2>7. \A b \in ToSet(baselines) : i \notin ImagesOf(b.rel)
        BY <2>3, <2>6 DEF References, NamedByAnchors
    <2> QED BY <2>4, <2>5, <2>7
<1>2. IInv /\ [Next]_vars => [\A i \in images \ images' : Kept(i)]_vars
    BY <1>1
<1> QED BY <1>2, Invariance, PTL DEF Spec, GcKeepsRecovery

\* A forward promotion replaces the shared embedding image only as authorised.
THEOREM SwapsAreAuthorised == ASSUME WritesEnd PROVE Spec => SwapAuthorised
<1> DEFINE Authorised == embedding' # embedding /\ op'.kind = "switch" /\ op'.forward /\ ~torn =>
                           [from |-> embedding, to |-> embedding'] \in grants
<1>1. ASSUME IInv, [Next]_vars, embedding' # embedding, op'.kind = "switch", op'.forward, ~torn
      PROVE  [from |-> embedding, to |-> embedding'] \in grants
    <2>1. PICK forward \in BOOLEAN : Switch(forward)
        BY <1>1 DEF Next, vars, Anchor, Stage, Restore, Collect, WriteCurrent, WriteSlot, FinishSwitch, Crash,
                    Discard, ClearGrants, Authorise, BaselineMark, Retire, Unretire, running
    <2> DEFINE c == Other(cur.active)
    <2>2. forward
        BY <1>1, <2>1, SwitchFound DEF IInv
    <2>3. /\ Swaps(c) => Granted(slot[c].env.rel)
          /\ embedding' = IF Swaps(c) THEN Emb[slot[c].env.rel] ELSE embedding
          /\ op = Idle
        BY <2>1, <2>2, <1>1, StillIdle DEF Switch, MaySwap, IInv
    <2>4. embedding = Emb[cur.env]
        BY <1>1, <2>3 DEF IInv, Agreement, Committed, Idle
    <2> QED BY <1>1, <2>3, <2>4 DEF Granted
<1>2. IInv /\ [Next]_vars => [Authorised]_vars
    BY <1>1
<1> QED BY <1>2, Invariance, PTL DEF Spec, SwapAuthorised

-----------------------------------------------------------------------------
(* The review graph: what the writes q of an operation may be, given the   *)
(* files as they are when it starts and after each of its writes.          *)

\* What a file will hold when the writes are done.
Coming(q, f) == IF \E i \in DOMAIN q : q[i].file = f
                THEN q[CHOOSE i \in DOMAIN q : q[i].file = f].value
                ELSE disk[f]

\* Each file is written once, and the manifest of a completion run last.
Orderly(q) ==
    /\ \A i, j \in DOMAIN q : q[i].file = q[j].file => i = j
    /\ \A i \in DOMAIN q : q[i].file = "deep" => i = Len(q)

NodeOf(e) == [name |-> e, by |-> "human"]
EdgeOf(r) == [rel |-> r, to |-> Target[r], by |-> "human"]
ByHuman(decision) == decision.status = "approved" /\ decision.by = "human"
EntsIn(cand, nodes) == \A e \in Ents : ByHuman(cand[e]) => NodeOf(e) \in nodes
RelsIn(cand, edges) == \A r \in Rels : ByHuman(cand[r]) => EdgeOf(r) \in edges

\* No write removes what a person approved, and what a person approves now is
\* written before the decision.
NodesFirst(q) ==
    \A i \in DOMAIN q :
        /\ q[i].file = "nodes" =>
              \A e \in Ents : NodeOf(e) \in disk.nodes => NodeOf(e) \in q[i].value
        /\ q[i].file = "ents" =>
              \/ EntsIn(q[i].value, disk.nodes)
              \/ \E j \in DOMAIN q : /\ j < i /\ q[j].file = "nodes"
                                     /\ EntsIn(q[i].value, q[j].value)
EdgesFirst(q) ==
    \A i \in DOMAIN q :
        /\ q[i].file = "edges" =>
              \A r \in Rels : EdgeOf(r) \in disk.edges => EdgeOf(r) \in q[i].value
        /\ q[i].file = "rels" =>
              \/ RelsIn(q[i].value, disk.edges)
              \/ \E j \in DOMAIN q : /\ j < i /\ q[j].file = "edges"
                                     /\ RelsIn(q[i].value, q[j].value)

\* What becomes of a decision: a final one is undone by a roll-back only.
Lawful(c, old, new) ==
    old.status \in Final /\ new # old =>
        /\ old.by # "human" /\ new.status \in Waiting
        /\ \E e \in disk.events : e.candidate = c /\ e.after = old /\ e.before = new

WritesLawful(q) ==
    \A i \in DOMAIN q :
        /\ q[i].file = "ents" => \A e \in Ents : Lawful(e, disk.ents[e], q[i].value[e])
        /\ q[i].file = "rels" => \A r \in Rels : Lawful(r, disk.rels[r], q[i].value[r])

\* An event tells of a candidate that waited and of a run that decided it; one
\* of the completion run, of a candidate as that run found it.
SoundEvents(events) ==
    \A e \in events :
        /\ e.before.status \in Waiting /\ e.after.by # "human"
        /\ e.run = "deepseek" =>
              /\ disk.deep # NoRun
              /\ e.candidate \in DOMAIN disk.deep.before
              /\ e.before = disk.deep.before[e.candidate]
EventsGrow(q) ==
    \A i \in DOMAIN q :
        q[i].file = "events" => disk.events \subseteq q[i].value /\ SoundEvents(q[i].value)

\* There is one completion run, whose manifest keeps what it found.
SameRun(m) == disk.deep # NoRun /\ m.before = disk.deep.before
Covered(events) == \A c \in DOMAIN disk.deep.before :
                     \E e \in events : e.run = "deepseek" /\ e.candidate = c

\* When it is recorded as admitted there is an event on each of its candidates,
\* and when it is recorded as rolled back its traces are gone.
Cleared(q, f) == \A x \in Coming(q, f) : x.by # "deepseek"
PutBack(q, f, S) == \A c \in S \intersect DOMAIN disk.deep.before :
                      Coming(q, f)[c] = disk.deep.before[c]
CompletionLast(q) ==
    \A i \in DOMAIN q :
        q[i].file = "deep" =>
            /\ SameRun(q[i].value) /\ q[i].value.status \in {"admitted", "rolled_back"}
            /\ q[i].value.status = "admitted" => Covered(Coming(q, "events"))
            /\ q[i].value.status = "rolled_back" /\ disk.deep.status = "admitted" =>
                  /\ Cleared(q, "nodes") /\ Cleared(q, "edges")
                  /\ PutBack(q, "ents", Ents) /\ PutBack(q, "rels", Rels)

Plan(q) == /\ WritesOK(q) /\ Orderly(q) /\ NodesFirst(q) /\ EdgesFirst(q)
           /\ WritesLawful(q) /\ EventsGrow(q) /\ CompletionLast(q)

FilesOK == DOMAIN disk = Files /\ \A f \in Files : Holds(f, disk[f])
FilesSound ==
    /\ FilesOK /\ HumanApprovalsKept /\ SoundEvents(disk.events)
    /\ disk.deep # NoRun =>
         /\ \A c \in DOMAIN disk.deep.before : disk.deep.before[c].status \in Waiting
         /\ disk.deep.status = "admitted" => Covered(disk.events)
CallSound(k) ==
    \/ k = NoCall
    \/ k.op \in {"admit", "rollback"} /\ k.m \in QwenRun
    \/ k.op \in {"deep admit", "deep rollback"} /\ IsDeepRun(k.m) /\ SameRun(k.m)
CallsSound == DOMAIN call = Callers /\ \A c \in Callers : CallSound(call[c])
CountersOK == verdict \in Tables /\ gates \in BOOLEAN /\ stamp \in 0..MaxStamps /\ deaths \in 0..MaxDeaths

ReviewInv == FilesSound /\ CallsSound /\ CountersOK /\ Plan(todo)

-----------------------------------------------------------------------------
LEMMA ComingWritten ==
    ASSUME NEW q, NEW i \in DOMAIN q, \A j, k \in DOMAIN q : q[j].file = q[k].file => j = k
    PROVE  Coming(q, q[i].file) = q[i].value
<1>1. \E j \in DOMAIN q : q[j].file = q[i].file
    OBVIOUS
<1> DEFINE k == CHOOSE j \in DOMAIN q : q[j].file = q[i].file
<1>2. k \in DOMAIN q /\ q[k].file = q[i].file
    BY <1>1
<1> HIDE DEF k
<1>3. k = i
    BY <1>2
<1> QED BY <1>1, <1>3 DEF Coming, k

LEMMA ComingKept ==
    ASSUME NEW q, NEW f, \A i \in DOMAIN q : q[i].file # f
    PROVE  Coming(q, f) = disk[f]
BY DEF Coming

\* The contents of the files.
LEMMA Contents ==
    ASSUME FilesOK
    PROVE  /\ disk.ents \in [Ents -> Decision] /\ disk.rels \in [Rels -> Decision]
           /\ disk.nodes \subseteq Node /\ disk.edges \subseteq Edge /\ disk.events \subseteq EventSet
           /\ disk.qwen \in QwenRun /\ (disk.deep = NoRun \/ IsDeepRun(disk.deep))
BY DEF FilesOK, Files, Holds

LEMMA SeqOfElements ==
    ASSUME NEW S, NEW s \in Seq(S), NEW T, \A i \in DOMAIN s : s[i] \in T
    PROVE  s \in Seq(T)
OBVIOUS

\* One write: one file changes, and what is still to come does not.
LEMMA OneWrite ==
    ASSUME FilesOK, WritesOK(todo), Orderly(todo), Write
    PROVE  /\ todo # <<>> /\ 1 \in DOMAIN todo /\ todo[1].file \in Files
           /\ FilesOK'
           /\ disk'[todo[1].file] = todo[1].value
           /\ \A f \in Files : f # todo[1].file => disk'[f] = disk[f]
           /\ WritesOK(todo)' /\ Len(todo') = Len(todo) - 1 /\ Len(todo) \in Nat
           /\ \A i \in DOMAIN todo' : /\ i \in Nat /\ i + 1 \in DOMAIN todo /\ todo'[i] = todo[i + 1]
                                      /\ todo'[i].file # todo[1].file
           /\ \A i \in DOMAIN todo : i = 1 \/ i - 1 \in DOMAIN todo'
           /\ Orderly(todo)'
           /\ \A f \in Files : Coming(todo, f)' = Coming(todo, f)
<1> DEFINE S == {todo[i] : i \in DOMAIN todo}
<1>1. todo \in Seq(S) /\ todo # <<>>
    BY DEF WritesOK, Write
<1>2. \A i \in DOMAIN todo : Holds(todo[i].file, todo[i].value)
    BY DEF WritesOK
<1> HIDE DEF S
<1>3. /\ DOMAIN todo = 1..Len(todo) /\ Len(todo) \in Nat /\ Len(todo) # 0
      /\ Head(todo) = todo[1] /\ Tail(todo) \in Seq(S) /\ Len(Tail(todo)) = Len(todo) - 1
      /\ DOMAIN Tail(todo) = 1..(Len(todo) - 1)
      /\ \A i \in 1..(Len(todo) - 1) : Tail(todo)[i] = todo[i + 1]
    BY <1>1
<1>4. 1 \in DOMAIN todo /\ Holds(todo[1].file, todo[1].value)
    BY <1>2, <1>3
<1>5. todo[1].file \in Files
    BY <1>4 DEF Holds, Files
<1>6. disk' = [disk EXCEPT ![todo[1].file] = todo[1].value] /\ todo' = Tail(todo)
    BY <1>3 DEF Write
<1>7. /\ DOMAIN disk' = Files /\ disk'[todo[1].file] = todo[1].value
      /\ \A f \in Files : f # todo[1].file => disk'[f] = disk[f]
    BY <1>5, <1>6 DEF FilesOK
<1>8. FilesOK'
    BY <1>4, <1>7 DEF FilesOK, Holds, QwenRun, IsDeepRun, Node, Edge, EventSet, Decision
<1>9. \A i \in DOMAIN todo' : i \in Nat /\ i + 1 \in DOMAIN todo /\ i + 1 # 1 /\ todo'[i] = todo[i + 1]
    BY <1>3, <1>6
<1>10. WritesOK(todo)'
    <2>1. todo' \in Seq({todo'[i] : i \in DOMAIN todo'})
        <3> DEFINE T == {todo'[i] : i \in DOMAIN todo'}
        <3>1. todo' \in Seq(S) /\ \A i \in DOMAIN todo' : todo'[i] \in T
            BY <1>3, <1>6
        <3> HIDE DEF T
        <3>2. todo' \in Seq(T)
            BY <3>1, SeqOfElements
        <3> QED BY <3>2 DEF T
    <2>2. \A i \in DOMAIN todo' : Holds(todo'[i].file, todo'[i].value)
        BY <1>2, <1>9
    <2> QED BY <2>1, <2>2 DEF WritesOK, Holds, QwenRun, IsDeepRun, Node, Edge, EventSet, Decision
<1>11. \A i \in DOMAIN todo' : todo'[i].file # todo[1].file
    BY <1>4, <1>9 DEF Orderly
<1>12. \A i \in DOMAIN todo : i = 1 \/ i - 1 \in DOMAIN todo'
    BY <1>3, <1>6
<1>13. Orderly(todo)'
    <2>1. \A i, j \in DOMAIN todo' : i + 1 = j + 1 => i = j
        BY <1>9
    <2>2. \A i \in DOMAIN todo' : i + 1 = Len(todo) => i = Len(todo')
        BY <1>3, <1>6, <1>9
    <2> QED BY <1>9, <2>1, <2>2 DEF Orderly
<1>14. ASSUME NEW f \in Files
       PROVE  Coming(todo, f)' = Coming(todo, f)
    <2>1. CASE f = todo[1].file
        <3>1. Coming(todo, f) = todo[1].value
            BY <1>4, <2>1, ComingWritten DEF Orderly
        <3>2. Coming(todo, f)' = disk'[f]
            BY <1>11, <2>1 DEF Coming
        <3> QED BY <1>7, <2>1, <3>1, <3>2
    <2>2. CASE f # todo[1].file /\ \E i \in DOMAIN todo : todo[i].file = f
        <3>1. PICK i \in DOMAIN todo : todo[i].file = f
            BY <2>2
        <3>2. Coming(todo, f) = todo[i].value
            BY <3>1, ComingWritten DEF Orderly
        <3> DEFINE k == i - 1
        <3>3. k \in DOMAIN todo' /\ todo'[k] = todo[i]
            BY <1>3, <1>6, <1>12, <2>2, <3>1
        <3> HIDE DEF k
        <3> DEFINE n == CHOOSE j \in DOMAIN todo' : todo'[j].file = f
        <3>4. n \in DOMAIN todo' /\ todo'[n].file = f
            BY <3>1, <3>3
        <3>5. Coming(todo, f)' = todo'[n].value
            BY <3>1, <3>3 DEF Coming
        <3> HIDE DEF n
        <3>6. n = k
            BY <1>13, <3>1, <3>3, <3>4 DEF Orderly
        <3> QED BY <3>2, <3>3, <3>5, <3>6
    <2>3. CASE f # todo[1].file /\ \A i \in DOMAIN todo : todo[i].file # f
        <3>1. Coming(todo, f) = disk[f]
            BY <2>3, ComingKept
        <3>2. \A i \in DOMAIN todo' : todo'[i].file # f
            BY <1>9, <2>3
        <3>3. Coming(todo, f)' = disk'[f]
            BY <3>2 DEF Coming
        <3> QED BY <1>7, <2>3, <3>1, <3>3
    <2>4. (\E i \in DOMAIN todo : todo[i].file = f) \/ (\A i \in DOMAIN todo : todo[i].file # f)
        OBVIOUS
    <2> QED BY <2>1, <2>2, <2>3, <2>4
<1>15. \A i \in DOMAIN todo' : i \in Nat /\ i + 1 \in DOMAIN todo /\ todo'[i] = todo[i + 1]
                               /\ todo'[i].file # todo[1].file
    BY <1>9, <1>11
<1>16. Len(todo') = Len(todo) - 1
    BY <1>3, <1>6
<1>17. \A f \in Files : Coming(todo, f)' = Coming(todo, f)
    BY <1>14
<1> QED BY <1>1, <1>3, <1>4, <1>5, <1>7, <1>8, <1>10, <1>12, <1>13, <1>15, <1>16, <1>17

\* The manifest of the completion run keeps what the run found.
LEMMA WriteKeepsRun ==
    ASSUME ReviewInv, Write
    PROVE  /\ disk.deep = NoRun <=> disk'.deep = NoRun
           /\ disk.deep # NoRun => disk'.deep.before = disk.deep.before
           /\ todo[1].file # "deep" => disk'.deep = disk.deep
           /\ todo[1].file = "deep" =>
                 /\ disk.deep # NoRun /\ DOMAIN todo = {1}
                 /\ disk'.deep.status \in {"admitted", "rolled_back"}
                 /\ \A f \in Files \ {"deep"} : Coming(todo, f) = disk[f] /\ disk'[f] = disk[f]
<1>1. /\ 1 \in DOMAIN todo /\ Len(todo) \in Nat
      /\ disk'[todo[1].file] = todo[1].value
      /\ \A f \in Files : f # todo[1].file => disk'[f] = disk[f]
    BY OneWrite DEF ReviewInv, FilesSound, Plan
<1>2. CASE todo[1].file # "deep"
    BY <1>1, <1>2 DEF Files
<1>3. CASE todo[1].file = "deep"
    <2>1. SameRun(todo[1].value) /\ todo[1].value.status \in {"admitted", "rolled_back"}
        BY <1>1, <1>3 DEF ReviewInv, Plan, CompletionLast
    <2>2. disk'.deep = todo[1].value
        BY <1>1, <1>3
    <2>3. todo[1].value # NoRun
        BY <2>1 DEF NoRun
    <2>4. DOMAIN todo = {1}
        <3>1. 1 = Len(todo)
            BY <1>1, <1>3 DEF ReviewInv, Plan, Orderly
        <3>2. DOMAIN todo = 1..Len(todo)
            <4> DEFINE S == {todo[i] : i \in DOMAIN todo}
            <4>1. todo \in Seq(S)
                BY DEF ReviewInv, Plan, WritesOK
            <4> HIDE DEF S
            <4> QED BY <4>1
        <3> QED BY <3>1, <3>2
    <2>5. ASSUME NEW f \in Files \ {"deep"}
          PROVE  Coming(todo, f) = disk[f] /\ disk'[f] = disk[f]
        BY <1>1, <1>3, <2>4 DEF Coming
    <2> QED BY <1>3, <2>1, <2>2, <2>3, <2>4, <2>5 DEF SameRun
<1> QED BY <1>2, <1>3

LEMMA KeptMeans ==
    HumanApprovalsKept <=> EntsIn(disk.ents, disk.nodes) /\ RelsIn(disk.rels, disk.edges)
BY DEF HumanApprovalsKept, EntsIn, RelsIn, ByHuman, NodeOf, EdgeOf

LEMMA KeptMeansNext ==
    HumanApprovalsKept' <=> EntsIn(disk'.ents, disk'.nodes) /\ RelsIn(disk'.rels, disk'.edges)
BY DEF HumanApprovalsKept, EntsIn, RelsIn, ByHuman, NodeOf, EdgeOf

\* After a write the files are sound.
LEMMA WriteKeepsFiles ==
    ASSUME ReviewInv, Write
    PROVE  FilesSound'
<1>1. /\ 1 \in DOMAIN todo /\ DOMAIN todo \subseteq Nat \ {0}
      /\ disk'[todo[1].file] = todo[1].value
      /\ \A f \in Files : f # todo[1].file => disk'[f] = disk[f]
    <2>1. \A i \in DOMAIN todo : i = 1 \/ (i - 1 \in DOMAIN todo' /\ i \in Nat)
        <3> DEFINE S == {todo[i] : i \in DOMAIN todo}
        <3>1. todo \in Seq(S)
            BY DEF ReviewInv, Plan, WritesOK
        <3> HIDE DEF S
        <3>2. DOMAIN todo \subseteq Nat
            BY <3>1
        <3> QED BY <3>2, OneWrite DEF ReviewInv, FilesSound, Plan
    <2>2. 0 \notin DOMAIN todo
        <3> DEFINE S == {todo[i] : i \in DOMAIN todo}
        <3>1. todo \in Seq(S)
            BY DEF ReviewInv, Plan, WritesOK
        <3> HIDE DEF S
        <3> QED BY <3>1
    <2> QED BY <2>1, <2>2, OneWrite DEF ReviewInv, FilesSound, Plan
<1>2. FilesOK'
    BY OneWrite DEF ReviewInv, FilesSound, Plan
<1>3. EntsIn(disk'.ents, disk'.nodes)
    <2>1. EntsIn(disk.ents, disk.nodes)
        BY KeptMeans DEF ReviewInv, FilesSound
    <2>2. CASE todo[1].file = "nodes"
        <3>1. \A e \in Ents : NodeOf(e) \in disk.nodes => NodeOf(e) \in todo[1].value
            BY <1>1, <2>2 DEF ReviewInv, Plan, NodesFirst
        <3> QED BY <1>1, <2>1, <2>2, <3>1 DEF EntsIn, Files
    <2>3. CASE todo[1].file = "ents"
        <3>1. \A j \in DOMAIN todo : ~(j < 1)
            BY <1>1
        <3>2. EntsIn(todo[1].value, disk.nodes)
            BY <1>1, <2>3, <3>1 DEF ReviewInv, Plan, NodesFirst
        <3> QED BY <1>1, <2>3, <3>2 DEF Files
    <2>4. CASE todo[1].file \notin {"nodes", "ents"}
        BY <1>1, <2>1, <2>4 DEF Files
    <2> QED BY <2>2, <2>3, <2>4
<1>4. RelsIn(disk'.rels, disk'.edges)
    <2>1. RelsIn(disk.rels, disk.edges)
        BY KeptMeans DEF ReviewInv, FilesSound
    <2>2. CASE todo[1].file = "edges"
        <3>1. \A r \in Rels : EdgeOf(r) \in disk.edges => EdgeOf(r) \in todo[1].value
            BY <1>1, <2>2 DEF ReviewInv, Plan, EdgesFirst
        <3> QED BY <1>1, <2>1, <2>2, <3>1 DEF RelsIn, Files
    <2>3. CASE todo[1].file = "rels"
        <3>1. \A j \in DOMAIN todo : ~(j < 1)
            BY <1>1
        <3>2. RelsIn(todo[1].value, disk.edges)
            BY <1>1, <2>3, <3>1 DEF ReviewInv, Plan, EdgesFirst
        <3> QED BY <1>1, <2>3, <3>2 DEF Files
    <2>4. CASE todo[1].file \notin {"edges", "rels"}
        BY <1>1, <2>1, <2>4 DEF Files
    <2> QED BY <2>2, <2>3, <2>4
<1>5. SoundEvents(disk.events)'
    <2>1. SoundEvents(disk'.events)
        <3>1. CASE todo[1].file = "events"
            BY <1>1, <3>1 DEF ReviewInv, Plan, EventsGrow
        <3>2. CASE todo[1].file # "events"
            BY <1>1, <3>2 DEF ReviewInv, FilesSound, Files
        <3> QED BY <3>1, <3>2
    <2> QED BY <2>1, WriteKeepsRun DEF SoundEvents
<1>6. ASSUME disk'.deep # NoRun
      PROVE  /\ \A c \in DOMAIN disk'.deep.before : disk'.deep.before[c].status \in Waiting
             /\ disk'.deep.status = "admitted" => Covered(disk.events)'
    <2>1. disk.deep # NoRun /\ disk'.deep.before = disk.deep.before
        BY <1>6, WriteKeepsRun
    <2>2. \A c \in DOMAIN disk.deep.before : disk.deep.before[c].status \in Waiting
        BY <2>1 DEF ReviewInv, FilesSound
    <2>3. ASSUME disk'.deep.status = "admitted"
          PROVE  Covered(disk'.events)
        <3>1. CASE todo[1].file = "deep"
            <4>1. Covered(Coming(todo, "events"))
                BY <1>1, <2>3, <3>1 DEF ReviewInv, Plan, CompletionLast
            <4> QED BY <3>1, <4>1, WriteKeepsRun DEF Files
        <3>2. CASE todo[1].file = "events"
            <4>1. Covered(disk.events)
                BY <2>1, <2>3, <3>2, WriteKeepsRun DEF ReviewInv, FilesSound
            <4>2. disk.events \subseteq disk'.events
                BY <1>1, <3>2 DEF ReviewInv, Plan, EventsGrow
            <4> QED BY <4>1, <4>2 DEF Covered
        <3>3. CASE todo[1].file \notin {"events", "deep"}
            BY <1>1, <2>1, <2>3, <3>3, WriteKeepsRun DEF ReviewInv, FilesSound, Files
        <3> QED BY <3>1, <3>2, <3>3
    <2> QED BY <2>1, <2>2, <2>3 DEF Covered
<1>7. HumanApprovalsKept'
    BY <1>3, <1>4, KeptMeansNext
<1> QED BY <1>2, <1>5, <1>6, <1>7 DEF FilesSound

\* What is still to be written after a write still follows the plan.
LEMMA WriteKeepsPlan ==
    ASSUME ReviewInv, Write
    PROVE  Plan(todo)'
<1> DEFINE first == todo[1]
<1>1. /\ 1 \in DOMAIN todo
      /\ disk'[todo[1].file] = todo[1].value
      /\ \A f \in Files : f # todo[1].file => disk'[f] = disk[f]
      /\ WritesOK(todo)' /\ Orderly(todo)'
      /\ \A f \in Files : Coming(todo, f)' = Coming(todo, f)
    BY OneWrite DEF ReviewInv, FilesSound, Plan
<1>2. \A i \in DOMAIN todo' : /\ i \in Nat /\ i + 1 \in DOMAIN todo /\ todo'[i] = todo[i + 1]
                              /\ todo'[i].file # todo[1].file
    BY OneWrite DEF ReviewInv, FilesSound, Plan
<1>3. \A j \in DOMAIN todo : j \in Nat /\ (j = 1 \/ j - 1 \in DOMAIN todo')
    <2> DEFINE S == {todo[i] : i \in DOMAIN todo}
    <2>1. todo \in Seq(S)
        BY DEF ReviewInv, Plan, WritesOK
    <2> HIDE DEF S
    <2>2. DOMAIN todo \subseteq Nat
        BY <2>1
    <2> QED BY <2>2, OneWrite DEF ReviewInv, FilesSound, Plan
<1>4. NodesFirst(todo)'
    <2> SUFFICES ASSUME NEW i \in DOMAIN todo'
                 PROVE  /\ todo'[i].file = "nodes" =>
                            \A e \in Ents : NodeOf(e) \in disk'.nodes => NodeOf(e) \in todo'[i].value
                        /\ todo'[i].file = "ents" =>
                            \/ EntsIn(todo'[i].value, disk'.nodes)
                            \/ \E j \in DOMAIN todo' : /\ j < i /\ todo'[j].file = "nodes"
                                                       /\ EntsIn(todo'[i].value, todo'[j].value)
        BY DEF NodesFirst, EntsIn, NodeOf
    <2>1. i \in Nat /\ i + 1 \in DOMAIN todo /\ todo'[i] = todo[i + 1] /\ todo'[i].file # todo[1].file
        BY <1>2
    <2>2. NodesFirst(todo)
        BY DEF ReviewInv, Plan
    <2>3. CASE todo'[i].file = "nodes"
        <3>1. disk'.nodes = disk.nodes
            BY <1>1, <2>1, <2>3 DEF Files
        <3> QED BY <2>1, <2>2, <2>3, <3>1 DEF NodesFirst
    <2>4. CASE todo'[i].file = "ents"
        <3>1. CASE EntsIn(todo[i + 1].value, disk.nodes)
            <4>1. \A e \in Ents : NodeOf(e) \in disk.nodes => NodeOf(e) \in disk'.nodes
                BY <1>1, <2>2 DEF NodesFirst, Files
            <4> QED BY <2>1, <2>4, <3>1, <4>1 DEF EntsIn
        <3>2. ASSUME NEW j \in DOMAIN todo, j < i + 1, todo[j].file = "nodes",
                     EntsIn(todo[i + 1].value, todo[j].value)
              PROVE  \/ EntsIn(todo'[i].value, disk'.nodes)
                     \/ \E k \in DOMAIN todo' : /\ k < i /\ todo'[k].file = "nodes"
                                                /\ EntsIn(todo'[i].value, todo'[k].value)
            <4>1. CASE j = 1
                BY <1>1, <2>1, <3>2, <4>1 DEF Files
            <4>2. CASE j # 1
                <5> DEFINE k == j - 1
                <5>1. k \in DOMAIN todo' /\ k < i /\ todo'[k] = todo[j]
                    BY <1>2, <1>3, <2>1, <3>2, <4>2
                <5> HIDE DEF k
                <5> QED BY <2>1, <3>2, <5>1
            <4> QED BY <4>1, <4>2
        <3>3. \/ EntsIn(todo[i + 1].value, disk.nodes)
              \/ \E j \in DOMAIN todo : /\ j < i + 1 /\ todo[j].file = "nodes"
                                        /\ EntsIn(todo[i + 1].value, todo[j].value)
            BY <2>1, <2>2, <2>4 DEF NodesFirst
        <3> QED BY <2>1, <2>4, <3>1, <3>2, <3>3
    <2> QED BY <2>3, <2>4
<1>5. EdgesFirst(todo)'
    <2> SUFFICES ASSUME NEW i \in DOMAIN todo'
                 PROVE  /\ todo'[i].file = "edges" =>
                            \A r \in Rels : EdgeOf(r) \in disk'.edges => EdgeOf(r) \in todo'[i].value
                        /\ todo'[i].file = "rels" =>
                            \/ RelsIn(todo'[i].value, disk'.edges)
                            \/ \E j \in DOMAIN todo' : /\ j < i /\ todo'[j].file = "edges"
                                                       /\ RelsIn(todo'[i].value, todo'[j].value)
        BY DEF EdgesFirst, RelsIn, EdgeOf
    <2>1. i \in Nat /\ i + 1 \in DOMAIN todo /\ todo'[i] = todo[i + 1] /\ todo'[i].file # todo[1].file
        BY <1>2
    <2>2. EdgesFirst(todo)
        BY DEF ReviewInv, Plan
    <2>3. CASE todo'[i].file = "edges"
        <3>1. disk'.edges = disk.edges
            BY <1>1, <2>1, <2>3 DEF Files
        <3> QED BY <2>1, <2>2, <2>3, <3>1 DEF EdgesFirst
    <2>4. CASE todo'[i].file = "rels"
        <3>1. CASE RelsIn(todo[i + 1].value, disk.edges)
            <4>1. \A r \in Rels : EdgeOf(r) \in disk.edges => EdgeOf(r) \in disk'.edges
                BY <1>1, <2>2 DEF EdgesFirst, Files
            <4> QED BY <2>1, <2>4, <3>1, <4>1 DEF RelsIn
        <3>2. ASSUME NEW j \in DOMAIN todo, j < i + 1, todo[j].file = "edges",
                     RelsIn(todo[i + 1].value, todo[j].value)
              PROVE  \/ RelsIn(todo'[i].value, disk'.edges)
                     \/ \E k \in DOMAIN todo' : /\ k < i /\ todo'[k].file = "edges"
                                                /\ RelsIn(todo'[i].value, todo'[k].value)
            <4>1. CASE j = 1
                BY <1>1, <2>1, <3>2, <4>1 DEF Files
            <4>2. CASE j # 1
                <5> DEFINE k == j - 1
                <5>1. k \in DOMAIN todo' /\ k < i /\ todo'[k] = todo[j]
                    BY <1>2, <1>3, <2>1, <3>2, <4>2
                <5> HIDE DEF k
                <5> QED BY <2>1, <3>2, <5>1
            <4> QED BY <4>1, <4>2
        <3>3. \/ RelsIn(todo[i + 1].value, disk.edges)
              \/ \E j \in DOMAIN todo : /\ j < i + 1 /\ todo[j].file = "edges"
                                        /\ RelsIn(todo[i + 1].value, todo[j].value)
            BY <2>1, <2>2, <2>4 DEF EdgesFirst
        <3> QED BY <2>1, <2>4, <3>1, <3>2, <3>3
    <2> QED BY <2>3, <2>4
<1>6. disk.events \subseteq disk'.events
    BY <1>1 DEF ReviewInv, Plan, EventsGrow, Files
<1>7. WritesLawful(todo)'
    <2> SUFFICES ASSUME NEW i \in DOMAIN todo'
                 PROVE  /\ todo'[i].file = "ents" =>
                            \A e \in Ents : Lawful(e, disk.ents[e], todo[i].value[e])'
                        /\ todo'[i].file = "rels" =>
                            \A r \in Rels : Lawful(r, disk.rels[r], todo[i].value[r])'
        BY DEF WritesLawful
    <2>1. i + 1 \in DOMAIN todo /\ todo'[i] = todo[i + 1] /\ todo'[i].file # todo[1].file
        BY <1>2
    <2>2. CASE todo'[i].file = "ents"
        <3>1. disk'.ents = disk.ents
            BY <1>1, <2>1, <2>2 DEF Files
        <3>2. \A e \in Ents : Lawful(e, disk.ents[e], todo[i + 1].value[e])
            BY <2>1, <2>2 DEF ReviewInv, Plan, WritesLawful
        <3> QED BY <1>6, <2>1, <2>2, <3>1, <3>2 DEF Lawful
    <2>3. CASE todo'[i].file = "rels"
        <3>1. disk'.rels = disk.rels
            BY <1>1, <2>1, <2>3 DEF Files
        <3>2. \A r \in Rels : Lawful(r, disk.rels[r], todo[i + 1].value[r])
            BY <2>1, <2>3 DEF ReviewInv, Plan, WritesLawful
        <3> QED BY <1>6, <2>1, <2>3, <3>1, <3>2 DEF Lawful
    <2> QED BY <2>2, <2>3
<1>8. EventsGrow(todo)'
    <2> SUFFICES ASSUME NEW i \in DOMAIN todo', todo'[i].file = "events"
                 PROVE  disk'.events \subseteq todo'[i].value /\ SoundEvents(todo[i].value)'
        BY DEF EventsGrow
    <2>1. i + 1 \in DOMAIN todo /\ todo'[i] = todo[i + 1] /\ todo'[i].file # todo[1].file
        BY <1>2
    <2>2. disk'.events = disk.events
        BY <1>1, <2>1 DEF Files
    <2>3. disk.events \subseteq todo'[i].value /\ SoundEvents(todo'[i].value)
        BY <2>1 DEF ReviewInv, Plan, EventsGrow
    <2> QED BY <2>2, <2>3, WriteKeepsRun DEF SoundEvents
<1>9. CompletionLast(todo)'
    <2> SUFFICES ASSUME NEW i \in DOMAIN todo', todo'[i].file = "deep"
                 PROVE  /\ SameRun(todo[i].value)' /\ todo'[i].value.status \in {"admitted", "rolled_back"}
                        /\ todo'[i].value.status = "admitted" => Covered(Coming(todo, "events"))'
                        /\ todo'[i].value.status = "rolled_back" /\ disk'.deep.status = "admitted" =>
                              /\ Cleared(todo, "nodes")' /\ Cleared(todo, "edges")'
                              /\ PutBack(todo, "ents", Ents)' /\ PutBack(todo, "rels", Rels)'
        BY DEF CompletionLast
    <2>1. i + 1 \in DOMAIN todo /\ todo'[i] = todo[i + 1] /\ todo'[i].file # todo[1].file
        BY <1>2
    <2>2. disk'.deep = disk.deep
        BY <1>1, <2>1 DEF Files
    <2>3. /\ SameRun(todo'[i].value) /\ todo'[i].value.status \in {"admitted", "rolled_back"}
          /\ todo'[i].value.status = "admitted" => Covered(Coming(todo, "events"))
          /\ todo'[i].value.status = "rolled_back" /\ disk.deep.status = "admitted" =>
                /\ Cleared(todo, "nodes") /\ Cleared(todo, "edges")
                /\ PutBack(todo, "ents", Ents) /\ PutBack(todo, "rels", Rels)
        BY <2>1 DEF ReviewInv, Plan, CompletionLast
    <2>4. /\ Coming(todo, "events")' = Coming(todo, "events")
          /\ Coming(todo, "nodes")' = Coming(todo, "nodes")
          /\ Coming(todo, "edges")' = Coming(todo, "edges")
          /\ Coming(todo, "ents")' = Coming(todo, "ents")
          /\ Coming(todo, "rels")' = Coming(todo, "rels")
        BY <1>1 DEF Files
    <2>5. SameRun(todo[i].value)'
        BY <2>2, <2>3 DEF SameRun
    <2>6. ASSUME todo'[i].value.status = "admitted"
          PROVE  Covered(Coming(todo, "events"))'
        BY <2>2, <2>3, <2>4, <2>6 DEF Covered
    <2>7. ASSUME todo'[i].value.status = "rolled_back", disk'.deep.status = "admitted"
          PROVE  /\ Cleared(todo, "nodes")' /\ Cleared(todo, "edges")'
                 /\ PutBack(todo, "ents", Ents)' /\ PutBack(todo, "rels", Rels)'
        BY <2>2, <2>3, <2>4, <2>7 DEF Cleared, PutBack
    <2> QED BY <2>3, <2>5, <2>6, <2>7
<1> QED BY <1>1, <1>4, <1>5, <1>7, <1>8, <1>9 DEF Plan

LEMMA WriteKeepsInv ==
    ASSUME ReviewInv, Write
    PROVE  ReviewInv'
<1>1. CallsSound'
    <2>1. call' = call
        BY DEF Write
    <2>2. \A k : CallSound(k) => CallSound(k)'
        BY WriteKeepsRun DEF CallSound, SameRun, IsDeepRun, QwenRun, NoCall
    <2> QED BY <2>1, <2>2 DEF ReviewInv, CallsSound
<1>2. CountersOK'
    BY DEF ReviewInv, CountersOK, Write
<1> QED BY <1>1, <1>2, WriteKeepsFiles, WriteKeepsPlan DEF ReviewInv

-----------------------------------------------------------------------------
\* An operation that only plans its writes.
LEMMA PlanStarts ==
    ASSUME ReviewInv, NEW q, Plan(q), todo' = q, disk' = disk, CallsSound', CountersOK'
    PROVE  ReviewInv'
<1>1. FilesSound'
    BY DEF ReviewInv, FilesSound, FilesOK, Holds, QwenRun, IsDeepRun, Node, Edge, EventSet, Decision,
           HumanApprovalsKept, SoundEvents, Covered
<1>2. WritesOK(todo)' /\ Orderly(todo)'
    BY DEF Plan, WritesOK, Orderly, Holds, QwenRun, IsDeepRun, Node, Edge, EventSet, Decision
<1>3. NodesFirst(todo)' /\ EdgesFirst(todo)'
    BY DEF Plan, NodesFirst, EdgesFirst, EntsIn, RelsIn, NodeOf, EdgeOf
<1>4. WritesLawful(todo)' /\ EventsGrow(todo)'
    BY DEF Plan, WritesLawful, Lawful, EventsGrow, SoundEvents
<1>5. CompletionLast(todo)'
    <2>1. \A f : Coming(q, f) = Coming(todo, f)'
        BY DEF Coming
    <2> QED BY <2>1 DEF Plan, CompletionLast, SameRun, Covered, Cleared, PutBack
<1> QED BY <1>1, <1>2, <1>3, <1>4, <1>5 DEF ReviewInv, Plan

LEMMA NoWrites == Plan(<<>>)
<1>1. \A i \in DOMAIN <<>> : FALSE
    OBVIOUS
<1>2. <<>> \in Seq({<<>>[i] : i \in DOMAIN <<>>})
    OBVIOUS
<1> QED BY <1>1, <1>2 DEF Plan, WritesOK, Orderly, NodesFirst, EdgesFirst, WritesLawful,
                          EventsGrow, CompletionLast

\* A step that touches only the manifests, the batch run's or, when there is
\* none yet, the completion run's, leaves the plan.
LEMMA PlanStays ==
    ASSUME ReviewInv, todo' = todo,
           disk'.ents = disk.ents, disk'.rels = disk.rels, disk'.nodes = disk.nodes,
           disk'.edges = disk.edges, disk'.events = disk.events,
           disk'.deep = disk.deep \/ disk.deep = NoRun
    PROVE  Plan(todo)'
<1> DEFINE q == todo
<1>0. Plan(q)
    BY DEF ReviewInv
<1>1. WritesOK(todo)' /\ Orderly(todo)'
    BY <1>0 DEF Plan, WritesOK, Orderly, Holds, QwenRun, IsDeepRun, Node, Edge, EventSet, Decision
<1>2. NodesFirst(todo)' /\ EdgesFirst(todo)'
    BY <1>0 DEF Plan, NodesFirst, EdgesFirst, EntsIn, RelsIn, NodeOf, EdgeOf
<1>3. WritesLawful(todo)'
    BY <1>0 DEF Plan, WritesLawful, Lawful
<1>4. EventsGrow(todo)'
    BY <1>0 DEF Plan, EventsGrow, SoundEvents
<1>5. CompletionLast(todo)'
    <2>1. CASE disk.deep = NoRun
        BY <1>0, <2>1 DEF Plan, CompletionLast, SameRun
    <2>2. CASE disk'.deep = disk.deep
        <3>1. \A f \in {"ents", "rels", "nodes", "edges", "events"} : Coming(todo, f)' = Coming(q, f)
            BY DEF Coming
        <3> QED BY <1>0, <2>2, <3>1 DEF Plan, CompletionLast, SameRun, Covered, Cleared, PutBack
    <2> QED BY <2>1, <2>2
<1> QED BY <1>1, <1>2, <1>3, <1>4, <1>5 DEF Plan

\* The operations leave the calls, or take away the one they carry out.
LEMMA CallsStay ==
    ASSUME ReviewInv, disk' = disk, call' = call \/ \E c \in Callers : Returns(c)
    PROVE  CallsSound'
<1>1. ASSUME NEW d \in Callers
      PROVE  CallSound(call'[d])
    <2>1. CallSound(call[d])
        BY DEF ReviewInv, CallsSound
    <2>2. call'[d] = call[d] \/ call'[d] = NoCall
        BY DEF Returns, ReviewInv, CallsSound
    <2> QED BY <2>1, <2>2 DEF CallSound
<1>2. DOMAIN call' = Callers
    BY DEF Returns, ReviewInv, CallsSound
<1> QED BY <1>1, <1>2 DEF CallsSound, CallSound, SameRun, IsDeepRun, QwenRun

-----------------------------------------------------------------------------
\* A person's decision.
LEMMA OneWritePlanned ==
    ASSUME NEW a
    PROVE  /\ DOMAIN <<a>> = {1} /\ Len(<<a>>) = 1 /\ <<a>>[1] = a
           /\ <<a>> \in Seq({<<a>>[i] : i \in DOMAIN <<a>>})
<1>1. DOMAIN <<a>> = {1} /\ Len(<<a>>) = 1 /\ <<a>>[1] = a
    OBVIOUS
<1> DEFINE T == {<<a>>[i] : i \in DOMAIN <<a>>}
<1>2. a \in T
    BY <1>1
<1> HIDE DEF T
<1>3. <<a>> \in Seq(T)
    BY <1>2
<1> QED BY <1>1, <1>3 DEF T

LEMMA TwoWritesPlanned ==
    ASSUME NEW a, NEW b
    PROVE  LET q == <<a>> \o <<b>> IN
           /\ DOMAIN q = {1, 2} /\ Len(q) = 2 /\ q[1] = a /\ q[2] = b
           /\ q \in Seq({q[i] : i \in DOMAIN q})
<1> DEFINE q == <<a>> \o <<b>>
           T == {q[i] : i \in DOMAIN q}
<1>1. <<a>> \in Seq({a, b}) /\ <<b>> \in Seq({a, b})
      /\ Len(<<a>>) = 1 /\ Len(<<b>>) = 1 /\ <<a>>[1] = a /\ <<b>>[1] = b
    OBVIOUS
<1>2. q \in Seq({a, b}) /\ DOMAIN q = {1, 2} /\ Len(q) = 2 /\ q[1] = a /\ q[2] = b
    BY <1>1
<1>3. \A i \in DOMAIN q : q[i] \in T
    OBVIOUS
<1>4. q \in Seq(T)
    <2> HIDE DEF T, q
    <2> QED BY <1>2, <1>3, SeqOfElements
<1> QED BY <1>2, <1>4

LEMMA StampTyped ==
    ASSUME ReviewInv
    PROVE  stamp \in Nat /\ stamp + 1 \in Nat
<1>1. MaxStamps \in Nat
    BY GraphAssumption
<1>2. stamp \in 0..MaxStamps
    BY DEF ReviewInv, CountersOK
<1> QED BY <1>1, <1>2

LEMMA DecisionTyped ==
    ASSUME ReviewInv, NEW status \in Waiting \union Final, NEW by \in Deciders
    PROVE  [status |-> status, by |-> by, at |-> stamp + 1] \in Decision
BY StampTyped DEF Decision

LEMMA EntityPlan ==
    ASSUME ReviewInv, NEW e \in Ents, NEW status \in Decisions, disk.ents[e].status \in Waiting
    PROVE  Plan(EntityWrites(e, status))
<1> DEFINE E == Decided(disk.ents, {e}, status, "human")
           N == disk.nodes \union {[name |-> e, by |-> "human"]}
<1>1. /\ E \in [Ents -> Decision] /\ E[e].status = status
      /\ \A d \in Ents : d # e => E[d] = disk.ents[d]
    <2>1. disk.ents \in [Ents -> Decision]
        BY Contents DEF ReviewInv, FilesSound
    <2>2. [status |-> status, by |-> "human", at |-> stamp + 1] \in Decision
        BY DecisionTyped DEF Decisions, Final, Deciders
    <2> QED BY <2>1, <2>2 DEF Decided
<1>2. \A d \in Ents : Lawful(d, disk.ents[d], E[d])
    BY <1>1 DEF Lawful, Waiting, Final
<1>3. EntsIn(disk.ents, disk.nodes)
    BY KeptMeans DEF ReviewInv, FilesSound
<1>4. N \subseteq Node /\ disk.nodes \subseteq N /\ NodeOf(e) \in N
    BY Contents DEF ReviewInv, FilesSound, Node, Deciders, NodeOf
<1>5. EntsIn(E, N)
    BY <1>1, <1>3, <1>4 DEF EntsIn
<1>6. status # "approved" => EntsIn(E, disk.nodes)
    BY <1>1, <1>3 DEF EntsIn, ByHuman
<1>7. CASE status = "approved"
    <2> DEFINE q == EntityWrites(e, status)
    <2>1. q = <<[file |-> "nodes", value |-> N]>> \o <<[file |-> "ents", value |-> E]>>
        BY <1>7 DEF EntityWrites
    <2> HIDE DEF q, E, N
    <2>2. /\ DOMAIN q = {1, 2} /\ Len(q) = 2 /\ q \in Seq({q[i] : i \in DOMAIN q})
          /\ q[1] = [file |-> "nodes", value |-> N] /\ q[2] = [file |-> "ents", value |-> E]
        BY <2>1, TwoWritesPlanned
    <2>3. WritesOK(q) /\ Orderly(q)
        BY <1>1, <1>4, <2>2 DEF WritesOK, Orderly, Holds
    <2>4. NodesFirst(q) /\ EdgesFirst(q)
        BY <1>4, <1>5, <2>2 DEF NodesFirst, EdgesFirst
    <2>5. WritesLawful(q) /\ EventsGrow(q) /\ CompletionLast(q)
        BY <1>2, <2>2 DEF WritesLawful, EventsGrow, CompletionLast
    <2>6. Plan(q)
        BY <2>3, <2>4, <2>5 DEF Plan
    <2> QED BY <2>6 DEF q
<1>8. CASE status # "approved"
    <2> DEFINE q == EntityWrites(e, status)
    <2>1. q = <<[file |-> "ents", value |-> E]>>
        BY <1>8 DEF EntityWrites
    <2> HIDE DEF q, E, N
    <2>2. /\ DOMAIN q = {1} /\ Len(q) = 1 /\ q \in Seq({q[i] : i \in DOMAIN q})
          /\ q[1] = [file |-> "ents", value |-> E]
        BY <2>1, OneWritePlanned
    <2>3. WritesOK(q) /\ Orderly(q)
        BY <1>1, <2>2 DEF WritesOK, Orderly, Holds
    <2>4. NodesFirst(q) /\ EdgesFirst(q)
        BY <1>6, <1>8, <2>2 DEF NodesFirst, EdgesFirst
    <2>5. WritesLawful(q) /\ EventsGrow(q) /\ CompletionLast(q)
        BY <1>2, <2>2 DEF WritesLawful, EventsGrow, CompletionLast
    <2>6. Plan(q)
        BY <2>3, <2>4, <2>5 DEF Plan
    <2> QED BY <2>6 DEF q
<1> QED BY <1>7, <1>8

LEMMA RelationPlan ==
    ASSUME ReviewInv, NEW r \in Rels, NEW status \in Decisions, disk.rels[r].status \in Waiting
    PROVE  Plan(RelationWrites(r, status))
<1> DEFINE R == Decided(disk.rels, {r}, status, "human")
           G == {e \in disk.edges : e.rel # r} \union {[rel |-> r, to |-> Target[r], by |-> "human"]}
<1>1. /\ R \in [Rels -> Decision] /\ R[r].status = status
      /\ \A d \in Rels : d # r => R[d] = disk.rels[d]
    <2>1. disk.rels \in [Rels -> Decision]
        BY Contents DEF ReviewInv, FilesSound
    <2>2. [status |-> status, by |-> "human", at |-> stamp + 1] \in Decision
        BY DecisionTyped DEF Decisions, Final, Deciders
    <2> QED BY <2>1, <2>2 DEF Decided
<1>2. \A d \in Rels : Lawful(d, disk.rels[d], R[d])
    BY <1>1 DEF Lawful, Waiting, Final
<1>3. RelsIn(disk.rels, disk.edges)
    BY KeptMeans DEF ReviewInv, FilesSound
<1>4. G \subseteq Edge /\ \A d \in Rels : EdgeOf(d) \in disk.edges \/ d = r => EdgeOf(d) \in G
    <2>1. [rel |-> r, to |-> Target[r], by |-> "human"] \in Edge
        BY GraphAssumption DEF Edge, Deciders
    <2>2. \A d \in Rels : EdgeOf(d).rel = d
        BY DEF EdgeOf
    <2>3. EdgeOf(r) = [rel |-> r, to |-> Target[r], by |-> "human"]
        BY DEF EdgeOf
    <2> QED BY <2>1, <2>2, <2>3, Contents DEF ReviewInv, FilesSound
<1>5. RelsIn(R, G)
    BY <1>1, <1>3, <1>4 DEF RelsIn
<1>6. status # "approved" => RelsIn(R, disk.edges)
    BY <1>1, <1>3 DEF RelsIn, ByHuman
<1>7. CASE status = "approved"
    <2> DEFINE q == RelationWrites(r, status)
    <2>1. q = <<[file |-> "edges", value |-> G]>> \o <<[file |-> "rels", value |-> R]>>
        BY <1>7 DEF RelationWrites
    <2> HIDE DEF q, R, G
    <2>2. /\ DOMAIN q = {1, 2} /\ Len(q) = 2 /\ q \in Seq({q[i] : i \in DOMAIN q})
          /\ q[1] = [file |-> "edges", value |-> G] /\ q[2] = [file |-> "rels", value |-> R]
        BY <2>1, TwoWritesPlanned
    <2>3. WritesOK(q) /\ Orderly(q)
        BY <1>1, <1>4, <2>2 DEF WritesOK, Orderly, Holds
    <2>4. NodesFirst(q) /\ EdgesFirst(q)
        BY <1>4, <1>5, <2>2 DEF NodesFirst, EdgesFirst
    <2>5. WritesLawful(q) /\ EventsGrow(q) /\ CompletionLast(q)
        BY <1>2, <2>2 DEF WritesLawful, EventsGrow, CompletionLast
    <2>6. Plan(q)
        BY <2>3, <2>4, <2>5 DEF Plan
    <2> QED BY <2>6 DEF q
<1>8. CASE status # "approved"
    <2> DEFINE q == RelationWrites(r, status)
    <2>1. q = <<[file |-> "rels", value |-> R]>>
        BY <1>8 DEF RelationWrites
    <2> HIDE DEF q, R, G
    <2>2. /\ DOMAIN q = {1} /\ Len(q) = 1 /\ q \in Seq({q[i] : i \in DOMAIN q})
          /\ q[1] = [file |-> "rels", value |-> R]
        BY <2>1, OneWritePlanned
    <2>3. WritesOK(q) /\ Orderly(q)
        BY <1>1, <2>2 DEF WritesOK, Orderly, Holds
    <2>4. NodesFirst(q) /\ EdgesFirst(q)
        BY <1>6, <1>8, <2>2 DEF NodesFirst, EdgesFirst
    <2>5. WritesLawful(q) /\ EventsGrow(q) /\ CompletionLast(q)
        BY <1>2, <2>2 DEF WritesLawful, EventsGrow, CompletionLast
    <2>6. Plan(q)
        BY <2>3, <2>4, <2>5 DEF Plan
    <2> QED BY <2>6 DEF q
<1> QED BY <1>7, <1>8

-----------------------------------------------------------------------------
\* The admission of a batch run.
LEMMA SixWritesPlanned ==
    ASSUME NEW a1, NEW a2, NEW a3, NEW a4, NEW a5, NEW a6,
           NEW q, q = <<a1, a2, a3, a4, a5, a6>>
    PROVE  /\ DOMAIN q = 1..6 /\ Len(q) = 6 /\ q \in Seq({q[i] : i \in DOMAIN q})
           /\ q[1] = a1 /\ q[2] = a2 /\ q[3] = a3 /\ q[4] = a4 /\ q[5] = a5 /\ q[6] = a6
<1> DEFINE T == {q[i] : i \in DOMAIN q}
<1>1. /\ DOMAIN q = 1..6 /\ Len(q) = 6
      /\ q[1] = a1 /\ q[2] = a2 /\ q[3] = a3 /\ q[4] = a4 /\ q[5] = a5 /\ q[6] = a6
    OBVIOUS
<1>2. \A i \in DOMAIN q : q[i] \in T
    OBVIOUS
<1>3. q \in Seq({a1, a2, a3, a4, a5, a6})
    OBVIOUS
<1>4. q \in Seq(T)
    <2> HIDE DEF T
    <2> QED BY <1>2, <1>3, SeqOfElements
<1> QED BY <1>1, <1>4

LEMMA FiveWritesPlanned ==
    ASSUME NEW a1, NEW a2, NEW a3, NEW a4, NEW a5,
           NEW q, q = <<a1, a2, a3, a4, a5>>
    PROVE  /\ DOMAIN q = 1..5 /\ Len(q) = 5 /\ q \in Seq({q[i] : i \in DOMAIN q})
           /\ q[1] = a1 /\ q[2] = a2 /\ q[3] = a3 /\ q[4] = a4 /\ q[5] = a5
<1> DEFINE T == {q[i] : i \in DOMAIN q}
<1>1. /\ DOMAIN q = 1..5 /\ Len(q) = 5
      /\ q[1] = a1 /\ q[2] = a2 /\ q[3] = a3 /\ q[4] = a4 /\ q[5] = a5
    OBVIOUS
<1>2. \A i \in DOMAIN q : q[i] \in T
    OBVIOUS
<1>3. q \in Seq({a1, a2, a3, a4, a5})
    OBVIOUS
<1>4. q \in Seq(T)
    <2> HIDE DEF T
    <2> QED BY <1>2, <1>3, SeqOfElements
<1> QED BY <1>1, <1>4

\* What a run makes of the candidates: whatever it changes bears its name.
LEMMA OutcomeIs ==
    ASSUME ReviewInv, NEW D, NEW cand \in [D -> Decision],
           NEW A, NEW S, NEW R, NEW rest, NEW by \in Deciders,
           NEW new, new = Outcome(cand, A, S, R, rest, by)
    PROVE  /\ new \in [D -> Decision]
           /\ \A d \in D : /\ d \in A \union S \union R \union rest => new[d].by = by
                           /\ d \notin A \union S \union R \union rest => new[d] = cand[d]
<1>1. ASSUME NEW d \in D
      PROVE  /\ new[d] \in Decision
             /\ d \in A \union S \union R \union rest => new[d].by = by
             /\ d \notin A \union S \union R \union rest => new[d] = cand[d]
    <2>1. CASE d \in A \union S \union R \union rest
        <3>1. PICK status \in Waiting \union Final :
                new[d] = [status |-> status, by |-> by, at |-> stamp + 1]
            BY <2>1 DEF Outcome, Waiting, Final
        <3> QED BY <2>1, <3>1, DecisionTyped
    <2>2. CASE d \notin A \union S \union R \union rest
        BY <2>2 DEF Outcome
    <2> QED BY <2>1, <2>2
<1>2. DOMAIN new = D /\ new = [d \in D |-> new[d]]
    BY DEF Outcome
<1> QED BY <1>1, <1>2

\* The events a run writes about what it changes.
LEMMA EventsTyped ==
    ASSUME ReviewInv, NEW D, D \subseteq Candidates, NEW old \in [D -> Decision],
           NEW new \in [D -> Decision], NEW S, S \subseteq D, NEW run \in Deciders,
           NEW evs, evs = Events(old, new, S, run)
    PROVE  /\ evs \subseteq EventSet
           /\ \A e \in evs : /\ e.candidate \in S /\ e.run = run
                             /\ e.before = old[e.candidate] /\ e.after = new[e.candidate]
           /\ \A c \in S : \E e \in evs : e.candidate = c /\ e.run = run
<1>1. \A c \in S : Event(c, old[c], new[c], run) \in EventSet
    BY StampTyped DEF Event, EventSet
<1>2. \A c \in S : LET e == Event(c, old[c], new[c], run) IN
        e.candidate = c /\ e.run = run /\ e.before = old[c] /\ e.after = new[c]
    BY DEF Event
<1>3. evs = {Event(c, old[c], new[c], run) : c \in S}
    BY DEF Events
<1>4. \A e \in evs : \E c \in S : e = Event(c, old[c], new[c], run)
    BY <1>3
<1>5. \A c \in S : Event(c, old[c], new[c], run) \in evs
    BY <1>3
<1> QED BY <1>1, <1>2, <1>4, <1>5

\* What an operation changes is not final, or it is undone with an event.
LEMMA EntsLawful ==
    ASSUME NEW new, \A e \in Ents : new[e] # disk.ents[e] => disk.ents[e].status \notin Final
    PROVE  \A e \in Ents : Lawful(e, disk.ents[e], new[e])
BY DEF Lawful

LEMMA RelsLawful ==
    ASSUME NEW new, \A r \in Rels : new[r] # disk.rels[r] => disk.rels[r].status \notin Final
    PROVE  \A r \in Rels : Lawful(r, disk.rels[r], new[r])
BY DEF Lawful

\* What a run or a roll-back changes is not an approval of a person.
LEMMA EntsKept ==
    ASSUME ReviewInv, NEW new, \A e \in Ents : new[e] # disk.ents[e] => ~ByHuman(new[e])
    PROVE  EntsIn(new, disk.nodes)
BY KeptMeans DEF ReviewInv, FilesSound, EntsIn

LEMMA RelsKept ==
    ASSUME ReviewInv, NEW new, \A r \in Rels : new[r] # disk.rels[r] => ~ByHuman(new[r])
    PROVE  RelsIn(new, disk.edges)
BY KeptMeans DEF ReviewInv, FilesSound, RelsIn

LEMMA AdmitPlan ==
    ASSUME ReviewInv, NEW c \in Callers, Admit(c)
    PROVE  \E q : todo' = q /\ Plan(q)
<1> DEFINE m == call[c].m
           open == gates \/ m.strict
           ents == Asked(disk.ents)
           newNodes == {e \in ents : open /\ Approved(e, m.strict) /\ e \notin Named(disk.nodes)}
           nodes == disk.nodes \union {[name |-> e, by |-> "qwen"] : e \in newNodes}
           rejected == {x \in Selected : \/ open /\ verdict[x] = "both reject"
                                         \/ x \in Rels /\ verdict[x] = "barred by the documents"}
           newEnts == Outcome(disk.ents, newNodes, {}, ents \intersect rejected, ents, "qwen")
           rels == Asked(disk.rels)
           eligible == {r \in rels : open /\ Approved(r, m.strict) /\ Target[r] \in Named(nodes)}
           primary == Primary(eligible, disk.edges)
           edges == disk.edges \union NewEdges(primary, "qwen")
           newRels == Outcome(disk.rels, primary, eligible \ primary, rels \intersect rejected,
                              rels, "qwen")
           entEvents == Events(disk.ents, newEnts, ents, "qwen")
           relEvents == Events(disk.rels, newRels, rels, "qwen")
           events == disk.events \union entEvents \union relEvents
           manifest == [m EXCEPT !.status = "admitted", !.attempt = stamp + 1,
                    !.nodes = {n \in nodes : n.by = "qwen"},
                    !.edges = {e \in edges : e.by = "qwen"}]
           q == <<[file |-> "ents", value |-> newEnts], [file |-> "nodes", value |-> nodes],
                  [file |-> "rels", value |-> newRels], [file |-> "edges", value |-> edges],
                  [file |-> "events", value |-> events], [file |-> "qwen", value |-> manifest]>>
<1>1. todo' = q
    BY DEF Admit, Run
<1>2. m \in QwenRun
    <2>1. call[c].op = "admit"
        BY DEF Admit
    <2>2. CallSound(call[c])
        BY DEF ReviewInv, CallsSound
    <2> QED BY <2>1, <2>2 DEF CallSound, NoCall
<1>3. /\ disk.ents \in [Ents -> Decision] /\ disk.rels \in [Rels -> Decision]
      /\ disk.nodes \subseteq Node /\ disk.edges \subseteq Edge /\ disk.events \subseteq EventSet
    BY Contents DEF ReviewInv, FilesSound
<1>4. /\ ents \subseteq Ents /\ \A e \in ents : disk.ents[e].status = "pending_review"
      /\ rels \subseteq Rels /\ \A r \in rels : disk.rels[r].status = "pending_review"
    BY <1>3 DEF Asked
<1>5. nodes \subseteq Node /\ disk.nodes \subseteq nodes
    BY <1>3, <1>4 DEF Node, Deciders
<1>6. primary \subseteq rels
    BY DEF Primary
<1>7. edges \subseteq Edge /\ disk.edges \subseteq edges
    <2>1. \A r \in primary : [rel |-> r, to |-> Target[r], by |-> "qwen"] \in Edge
        BY <1>4, <1>6, GraphAssumption DEF Edge, Deciders
    <2> HIDE DEF primary
    <2> QED BY <1>3, <2>1 DEF NewEdges
<1>a. /\ newNodes \union {} \union (ents \intersect rejected) \union ents = ents
      /\ primary \union (eligible \ primary) \union (rels \intersect rejected) \union rels = rels
    BY <1>6
<1> HIDE DEF nodes, edges, ents, rels, primary, newNodes, rejected, eligible
<1>8. /\ newEnts \in [Ents -> Decision]
      /\ \A e \in Ents : newEnts[e] # disk.ents[e] => e \in ents
      /\ \A e \in ents : newEnts[e].by = "qwen"
    <2> DEFINE A == newNodes
               R == ents \intersect rejected
               by == "qwen"
               new == newEnts
    <2>2. by \in Deciders /\ new = Outcome(disk.ents, A, {}, R, ents, by)
        BY DEF Deciders
    <2> HIDE DEF A, R, new, by, newEnts
    <2>3. /\ new \in [Ents -> Decision]
          /\ \A d \in Ents : /\ d \in A \union {} \union R \union ents => new[d].by = by
                             /\ d \notin A \union {} \union R \union ents => new[d] = disk.ents[d]
        BY <1>3, <2>2, OutcomeIs
    <2> QED BY <1>4, <1>a, <2>3 DEF A, R, new, by
<1>9. /\ newRels \in [Rels -> Decision]
      /\ \A r \in Rels : newRels[r] # disk.rels[r] => r \in rels
      /\ \A r \in rels : newRels[r].by = "qwen"
    <2> DEFINE A == primary
               S == eligible \ primary
               R == rels \intersect rejected
               by == "qwen"
               new == newRels
    <2>2. by \in Deciders /\ new = Outcome(disk.rels, A, S, R, rels, by)
        BY DEF Deciders
    <2> HIDE DEF A, S, R, new, by, newRels
    <2>3. /\ new \in [Rels -> Decision]
          /\ \A d \in Rels : /\ d \in A \union S \union R \union rels => new[d].by = by
                             /\ d \notin A \union S \union R \union rels => new[d] = disk.rels[d]
        BY <1>3, <2>2, OutcomeIs
    <2> QED BY <1>4, <1>a, <2>3 DEF A, S, R, new, by
<1> HIDE DEF newEnts, newRels
<1>10. /\ entEvents \subseteq EventSet
       /\ \A e \in entEvents : /\ e.candidate \in ents /\ e.run = "qwen"
                               /\ e.before = disk.ents[e.candidate]
                               /\ e.after = newEnts[e.candidate]
    <2>1. "qwen" \in Deciders /\ Ents \subseteq Candidates
        BY DEF Deciders, Candidates
    <2> HIDE DEF entEvents
    <2>2. entEvents = Events(disk.ents, newEnts, ents, "qwen")
        BY DEF entEvents
    <2> QED BY <1>3, <1>4, <1>8, <2>1, <2>2, EventsTyped
<1>11. /\ relEvents \subseteq EventSet
       /\ \A e \in relEvents : /\ e.candidate \in rels /\ e.run = "qwen"
                               /\ e.before = disk.rels[e.candidate]
                               /\ e.after = newRels[e.candidate]
    <2>1. "qwen" \in Deciders /\ Rels \subseteq Candidates
        BY DEF Deciders, Candidates
    <2> HIDE DEF relEvents
    <2>2. relEvents = Events(disk.rels, newRels, rels, "qwen")
        BY DEF relEvents
    <2> QED BY <1>3, <1>4, <1>9, <2>1, <2>2, EventsTyped
<1> HIDE DEF entEvents, relEvents
<1>12. events \subseteq EventSet /\ disk.events \subseteq events /\ SoundEvents(events)
    <2>1. SoundEvents(disk.events)
        BY DEF ReviewInv, FilesSound
    <2>2. SoundEvents(entEvents) /\ SoundEvents(relEvents)
        BY <1>4, <1>8, <1>9, <1>10, <1>11 DEF SoundEvents, Waiting
    <2>3. SoundEvents(events)
        BY <2>1, <2>2 DEF SoundEvents
    <2> QED BY <1>3, <1>10, <1>11, <2>3
<1>13. manifest \in QwenRun
    <2> DEFINE new == manifest
               N == {n \in nodes : n.by = "qwen"}
               G == {e \in edges : e.by = "qwen"}
    <2>1. N \in SUBSET Node /\ G \in SUBSET Edge
        BY <1>5, <1>7
    <2>2. new = [m EXCEPT !.status = "admitted", !.attempt = stamp + 1, !.nodes = N, !.edges = G]
        OBVIOUS
    <2> HIDE DEF N, G, new, m
    <2>3. new \in QwenRun
        BY <1>2, <2>1, <2>2, StampTyped DEF QwenRun, Progress
    <2> QED BY <2>3 DEF new, N, G, m
<1>14. /\ \A e \in Ents : Lawful(e, disk.ents[e], newEnts[e])
       /\ \A r \in Rels : Lawful(r, disk.rels[r], newRels[r])
    <2>1. \A e \in Ents : newEnts[e] # disk.ents[e] => disk.ents[e].status \notin Final
        BY <1>4, <1>8 DEF Final
    <2>2. \A r \in Rels : newRels[r] # disk.rels[r] => disk.rels[r].status \notin Final
        BY <1>4, <1>9 DEF Final
    <2> QED BY <2>1, <2>2, EntsLawful, RelsLawful
<1>15. EntsIn(newEnts, disk.nodes) /\ RelsIn(newRels, disk.edges)
    <2>1. \A e \in Ents : newEnts[e] # disk.ents[e] => ~ByHuman(newEnts[e])
        BY <1>8 DEF ByHuman
    <2>2. \A r \in Rels : newRels[r] # disk.rels[r] => ~ByHuman(newRels[r])
        BY <1>9 DEF ByHuman
    <2> QED BY <2>1, <2>2, EntsKept, RelsKept
<1> HIDE DEF events, manifest, q, m
<1>16. /\ DOMAIN q = 1..6 /\ Len(q) = 6 /\ q \in Seq({q[i] : i \in DOMAIN q})
       /\ q[1] = [file |-> "ents", value |-> newEnts] /\ q[2] = [file |-> "nodes", value |-> nodes]
       /\ q[3] = [file |-> "rels", value |-> newRels] /\ q[4] = [file |-> "edges", value |-> edges]
       /\ q[5] = [file |-> "events", value |-> events]
       /\ q[6] = [file |-> "qwen", value |-> manifest]
    <2>1. q = <<[file |-> "ents", value |-> newEnts], [file |-> "nodes", value |-> nodes],
                [file |-> "rels", value |-> newRels], [file |-> "edges", value |-> edges],
                [file |-> "events", value |-> events], [file |-> "qwen", value |-> manifest]>>
        BY DEF q
    <2> QED BY <2>1, SixWritesPlanned
<1>17. \A i \in DOMAIN q : i = 1 \/ i = 2 \/ i = 3 \/ i = 4 \/ i = 5 \/ i = 6
    BY <1>16
<1>18. WritesOK(q) /\ Orderly(q)
    <2>1. \A i \in DOMAIN q : Holds(q[i].file, q[i].value)
        BY <1>5, <1>7, <1>8, <1>9, <1>12, <1>13, <1>16, <1>17 DEF Holds
    <2> QED BY <1>16, <1>17, <2>1 DEF WritesOK, Orderly
<1>19. NodesFirst(q) /\ EdgesFirst(q)
    BY <1>5, <1>7, <1>15, <1>16, <1>17 DEF NodesFirst, EdgesFirst
<1>20. WritesLawful(q) /\ EventsGrow(q) /\ CompletionLast(q)
    BY <1>12, <1>14, <1>16, <1>17 DEF WritesLawful, EventsGrow, CompletionLast
<1>21. Plan(q)
    BY <1>18, <1>19, <1>20 DEF Plan
<1> QED BY <1>1, <1>21 DEF q, m, events, manifest, newEnts, newRels, nodes, edges, ents, rels,
                           primary, newNodes, rejected, eligible, entEvents, relEvents

-----------------------------------------------------------------------------
\* What a roll-back makes of the candidates, when none has changed since.
LEMMA RestoredIs ==
    ASSUME ReviewInv, NEW D, NEW cand \in [D -> Decision],
           NEW events, events \subseteq disk.events,
           \A e \in events : e.candidate \in D => cand[e.candidate] = e.after,
           NEW new, new = Restored(cand, events)
    PROVE  /\ new \in [D -> Decision]
           /\ \A d \in D :
                \/ new[d] = cand[d] /\ \A e \in events : e.candidate # d
                \/ \E e \in events : e.candidate = d /\ e.before = new[d] /\ e.after = cand[d]
<1>1. ASSUME NEW d \in D
      PROVE  /\ new[d] \in Decision
             /\ \/ new[d] = cand[d] /\ \A e \in events : e.candidate # d
                \/ \E e \in events : e.candidate = d /\ e.before = new[d] /\ e.after = cand[d]
    <2>1. CASE \E e \in events : e.candidate = d
        <3> DEFINE f == CHOOSE e \in events : e.candidate = d
        <3>1. f \in events /\ f.candidate = d
            BY <2>1
        <3>2. new[d] = f.before
            BY <2>1 DEF Restored
        <3> HIDE DEF f
        <3>3. f \in EventSet
            BY <3>1, Contents DEF ReviewInv, FilesSound
        <3>4. f.before \in Decision
            BY <3>3 DEF EventSet
        <3> QED BY <3>1, <3>2, <3>4
    <2>2. CASE ~ \E e \in events : e.candidate = d
        BY <2>2 DEF Restored
    <2> QED BY <2>1, <2>2
<1>2. DOMAIN new = D /\ new = [d \in D |-> new[d]]
    BY DEF Restored
<1> QED BY <1>1, <1>2

\* ... so it undoes final decisions of runs only, and as their events say.
LEMMA RestoredLawful ==
    ASSUME ReviewInv, NEW D, NEW cand \in [D -> Decision],
           NEW events, events \subseteq disk.events,
           \A e \in events : e.candidate \in D => cand[e.candidate] = e.after,
           NEW new, new = Restored(cand, events)
    PROVE  \A d \in D : Lawful(d, cand[d], new[d]) /\ (new[d] # cand[d] => ~ByHuman(new[d]))
<1>1. \A d \in D :
        \/ new[d] = cand[d]
        \/ \E e \in events : e.candidate = d /\ e.before = new[d] /\ e.after = cand[d]
    BY RestoredIs
<1>2. \A e \in events : e.before.status \in Waiting /\ e.after.by # "human"
    BY DEF ReviewInv, FilesSound, SoundEvents
<1> QED BY <1>1, <1>2 DEF Lawful, ByHuman, Waiting

\* The candidates are as the events left them.
LEMMA UnchangedSince ==
    ASSUME ReviewInv, NEW events, ~Changed(events)
    PROVE  /\ \A e \in events : e.candidate \in Ents => disk.ents[e.candidate] = e.after
           /\ \A e \in events : e.candidate \in Rels => disk.rels[e.candidate] = e.after
<1>1. Ents \intersect Rels = {}
    BY GraphAssumption
<1> QED BY <1>1 DEF Changed, Current

\* What people put into the graph a roll-back leaves there.
LEMMA HumanLeft ==
    ASSUME NEW by, by # "human"
    PROVE  /\ \A e \in Ents : NodeOf(e) \in disk.nodes => NodeOf(e) \in Without(disk.nodes, by)
           /\ \A r \in Rels : EdgeOf(r) \in disk.edges => EdgeOf(r) \in Without(disk.edges, by)
BY DEF NodeOf, EdgeOf, Without

LEMMA RollbackPlan ==
    ASSUME ReviewInv, NEW c \in Callers, Rollback(c)
    PROVE  \E q : todo' = q /\ Plan(q)
<1> DEFINE m == call[c].m
           events == {e \in disk.events : e.run = "qwen" /\ e.attempt = m.attempt}
           newEnts == Restored(disk.ents, events)
           newRels == Restored(disk.rels, events)
           nodes == Without(disk.nodes, "qwen")
           edges == Without(disk.edges, "qwen")
           manifest == [m EXCEPT !.status = "rolled_back"]
           q == <<[file |-> "rels", value |-> newRels], [file |-> "ents", value |-> newEnts],
                  [file |-> "edges", value |-> edges], [file |-> "nodes", value |-> nodes],
                  [file |-> "qwen", value |-> manifest]>>
<1>1. todo' = <<>> \/ (todo' = q /\ ~Changed(events))
    BY DEF Rollback
<1>2. m \in QwenRun
    <2>1. call[c].op = "rollback"
        BY DEF Rollback
    <2>2. CallSound(call[c])
        BY DEF ReviewInv, CallsSound
    <2> QED BY <2>1, <2>2 DEF CallSound, NoCall
<1>3. CASE todo' = <<>>
    BY <1>3, NoWrites
<1>4. CASE todo' = q /\ ~Changed(events)
    <2>1. /\ disk.ents \in [Ents -> Decision] /\ disk.rels \in [Rels -> Decision]
          /\ disk.nodes \subseteq Node /\ disk.edges \subseteq Edge /\ events \subseteq disk.events
        BY Contents DEF ReviewInv, FilesSound
    <2> HIDE DEF events
    <2>2. /\ \A e \in events : e.candidate \in Ents => disk.ents[e.candidate] = e.after
          /\ \A e \in events : e.candidate \in Rels => disk.rels[e.candidate] = e.after
        BY <1>4, UnchangedSince
    <2>3. newEnts = Restored(disk.ents, events) /\ newRels = Restored(disk.rels, events)
        OBVIOUS
    <2> HIDE DEF newEnts, newRels
    <2>4. newEnts \in [Ents -> Decision] /\ newRels \in [Rels -> Decision]
        BY <2>1, <2>2, <2>3, RestoredIs
    <2>5. /\ \A e \in Ents : Lawful(e, disk.ents[e], newEnts[e])
          /\ \A e \in Ents : newEnts[e] # disk.ents[e] => ~ByHuman(newEnts[e])
          /\ \A r \in Rels : Lawful(r, disk.rels[r], newRels[r])
          /\ \A r \in Rels : newRels[r] # disk.rels[r] => ~ByHuman(newRels[r])
        BY <2>1, <2>2, <2>3, RestoredLawful
    <2>6. EntsIn(newEnts, disk.nodes) /\ RelsIn(newRels, disk.edges)
        BY <2>5, EntsKept, RelsKept
    <2>7. /\ nodes \subseteq Node /\ edges \subseteq Edge
          /\ \A e \in Ents : NodeOf(e) \in disk.nodes => NodeOf(e) \in nodes
          /\ \A r \in Rels : EdgeOf(r) \in disk.edges => EdgeOf(r) \in edges
        BY <2>1, HumanLeft DEF Without
    <2>8. manifest \in QwenRun
        <3> HIDE DEF m
        <3> QED BY <1>2 DEF QwenRun, Progress
    <2> HIDE DEF nodes, edges, manifest, q, m
    <2>9. /\ DOMAIN q = 1..5 /\ Len(q) = 5 /\ q \in Seq({q[i] : i \in DOMAIN q})
          /\ q[1] = [file |-> "rels", value |-> newRels] /\ q[2] = [file |-> "ents", value |-> newEnts]
          /\ q[3] = [file |-> "edges", value |-> edges] /\ q[4] = [file |-> "nodes", value |-> nodes]
          /\ q[5] = [file |-> "qwen", value |-> manifest]
        <3>1. q = <<[file |-> "rels", value |-> newRels], [file |-> "ents", value |-> newEnts],
                    [file |-> "edges", value |-> edges], [file |-> "nodes", value |-> nodes],
                    [file |-> "qwen", value |-> manifest]>>
            BY DEF q
        <3> QED BY <3>1, FiveWritesPlanned
    <2>10. \A i \in DOMAIN q : i = 1 \/ i = 2 \/ i = 3 \/ i = 4 \/ i = 5
        BY <2>9
    <2>11. WritesOK(q) /\ Orderly(q)
        <3>1. \A i \in DOMAIN q : Holds(q[i].file, q[i].value)
            BY <2>4, <2>7, <2>8, <2>9, <2>10 DEF Holds
        <3> QED BY <2>9, <2>10, <3>1 DEF WritesOK, Orderly
    <2>12. NodesFirst(q) /\ EdgesFirst(q)
        BY <2>6, <2>7, <2>9, <2>10 DEF NodesFirst, EdgesFirst
    <2>13. WritesLawful(q) /\ EventsGrow(q) /\ CompletionLast(q)
        BY <2>5, <2>9, <2>10 DEF WritesLawful, EventsGrow, CompletionLast
    <2>14. Plan(q)
        BY <2>11, <2>12, <2>13 DEF Plan
    <2> QED BY <1>4, <2>14 DEF q, m, events, manifest, newEnts, newRels, nodes, edges
<1> QED BY <1>1, <1>3, <1>4

-----------------------------------------------------------------------------
\* A call of the completion run: its manifest is of the one run there is.
LEMMA DeepCall ==
    ASSUME ReviewInv, NEW c \in Callers, call[c].op \in {"deep admit", "deep rollback"}
    PROVE  IsDeepRun(call[c].m) /\ SameRun(call[c].m)
<1>1. CallSound(call[c])
    BY DEF ReviewInv, CallsSound
<1>2. call[c] # NoCall
    <2>1. NoCall.op = "none"
        BY DEF NoCall
    <2> QED BY <2>1
<1>3. call[c].op \notin {"admit", "rollback"}
    OBVIOUS
<1> QED BY <1>1, <1>2, <1>3 DEF CallSound

LEMMA DeepAdmitPlan ==
    ASSUME ReviewInv, NEW c \in Callers, DeepAdmit(c)
    PROVE  \E q : todo' = q /\ Plan(q)
<1> DEFINE m == call[c].m
           selected == DOMAIN m.before
           ents == selected \intersect Ents
           rels == selected \intersect Rels
           approved == m.approves \intersect ents
           new(mapped) == (approved \union {Target[r] : r \in mapped}) \ Named(disk.nodes)
           nodesOf(mapped) == disk.nodes \union {[name |-> e, by |-> "deepseek"] : e \in new(mapped)}
           primaryOf(mapped) == Primary(mapped, disk.edges)
           edgesOf(mapped) == disk.edges \union NewEdges(primaryOf(mapped), "deepseek")
           newEnts == Outcome(disk.ents, approved, {}, ents, {}, "deepseek")
           newRelsOf(mapped) == Outcome(disk.rels, primaryOf(mapped), mapped \ primaryOf(mapped), rels,
                                        {}, "deepseek")
           entEvents == Events(disk.ents, newEnts, ents, "deepseek")
           relEventsOf(mapped) == Events(disk.rels, newRelsOf(mapped), rels, "deepseek")
           eventsOf(mapped) == disk.events \union entEvents \union relEventsOf(mapped)
           manifestOf(mapped) == [m EXCEPT !.status = "admitted",
                        !.nodes = nodesOf(mapped) \ disk.nodes, !.edges = edgesOf(mapped) \ disk.edges]
           writesOf(mapped) ==
                <<[file |-> "ents", value |-> newEnts], [file |-> "rels", value |-> newRelsOf(mapped)],
                  [file |-> "nodes", value |-> nodesOf(mapped)],
                  [file |-> "edges", value |-> edgesOf(mapped)],
                  [file |-> "events", value |-> eventsOf(mapped)],
                  [file |-> "deep", value |-> manifestOf(mapped)]>>
<1>1. PICK mapped \in SUBSET (m.approves \intersect Rels) :
            \/ todo' = todo /\ todo = <<>>
            \/ todo' = writesOf(mapped) /\ \A x \in selected : Current(x) = m.before[x]
    BY DEF DeepAdmit, Run, Unlocked
<1>2. IsDeepRun(m) /\ SameRun(m)
    BY DeepCall DEF DeepAdmit
<1>3. CASE todo' = <<>>
    BY <1>3, NoWrites
<1>4. CASE todo' = writesOf(mapped) /\ \A x \in selected : Current(x) = m.before[x]
    <2> DEFINE nodes == nodesOf(mapped)
               primary == primaryOf(mapped)
               edges == edgesOf(mapped)
               newRels == newRelsOf(mapped)
               relEvents == relEventsOf(mapped)
               events == eventsOf(mapped)
               manifest == manifestOf(mapped)
               q == writesOf(mapped)
    <2>1. /\ disk.ents \in [Ents -> Decision] /\ disk.rels \in [Rels -> Decision]
          /\ disk.nodes \subseteq Node /\ disk.edges \subseteq Edge /\ disk.events \subseteq EventSet
        BY Contents DEF ReviewInv, FilesSound
    <2>2. mapped \subseteq rels /\ approved \subseteq ents /\ primary \subseteq mapped
        BY <1>1, <1>2 DEF IsDeepRun, Primary
    <2>3. nodes \subseteq Node /\ disk.nodes \subseteq nodes
        <3>1. approved \subseteq Ents /\ \A r \in mapped : Target[r] \in Ents \union {Base}
            BY <2>2, GraphAssumption
        <3>2. new(mapped) \subseteq Ents \union {Base}
            BY <3>1
        <3> HIDE DEF new
        <3> QED BY <2>1, <3>2 DEF Node, Deciders
    <2>4. edges \subseteq Edge /\ disk.edges \subseteq edges
        <3>1. \A r \in primary : [rel |-> r, to |-> Target[r], by |-> "deepseek"] \in Edge
            BY <2>2, GraphAssumption DEF Edge, Deciders
        <3> HIDE DEF primary
        <3> QED BY <2>1, <3>1 DEF NewEdges, primary
    <2>5. /\ \A e \in ents : disk.ents[e] = m.before[e]
          /\ \A r \in rels : disk.rels[r] = m.before[r]
        <3>1. Ents \intersect Rels = {}
            BY GraphAssumption
        <3> QED BY <1>4, <3>1 DEF Current
    <2>6. /\ disk.deep # NoRun /\ m.before = disk.deep.before
          /\ \A x \in selected : m.before[x].status \in Waiting
        BY <1>2 DEF SameRun, ReviewInv, FilesSound
    <2> HIDE DEF m, ents, rels, approved, selected
    <2>7. /\ newEnts \in [Ents -> Decision]
          /\ \A e \in Ents : newEnts[e] # disk.ents[e] => e \in ents
          /\ \A e \in ents : newEnts[e].by = "deepseek"
        <3> DEFINE by == "deepseek"
                   result == newEnts
        <3>1. by \in Deciders /\ result = Outcome(disk.ents, approved, {}, ents, {}, by)
            BY DEF Deciders
        <3> HIDE DEF by, result, newEnts
        <3>2. /\ result \in [Ents -> Decision]
              /\ \A d \in Ents : /\ d \in approved \union {} \union ents \union {} => result[d].by = by
                                 /\ d \notin approved \union {} \union ents \union {} =>
                                        result[d] = disk.ents[d]
            BY <2>1, <3>1, OutcomeIs
        <3>3. ents \subseteq Ents
            BY DEF ents
        <3> QED BY <2>2, <3>2, <3>3 DEF result, by
    <2>8. /\ newRels \in [Rels -> Decision]
          /\ \A r \in Rels : newRels[r] # disk.rels[r] => r \in rels
          /\ \A r \in rels : newRels[r].by = "deepseek"
        <3> DEFINE by == "deepseek"
                   others == mapped \ primary
                   result == newRels
        <3>1. by \in Deciders /\ result = Outcome(disk.rels, primary, others, rels, {}, by)
            BY DEF Deciders
        <3>2. others \subseteq rels /\ primary \subseteq rels
            BY <2>2
        <3> HIDE DEF by, result, newRels, newRelsOf, primary, primaryOf, others
        <3>3. /\ result \in [Rels -> Decision]
              /\ \A d \in Rels : /\ d \in primary \union others \union rels \union {} =>
                                        result[d].by = by
                                 /\ d \notin primary \union others \union rels \union {} =>
                                        result[d] = disk.rels[d]
            BY <2>1, <3>1, OutcomeIs
        <3>4. rels \subseteq Rels
            BY DEF rels
        <3> QED BY <3>2, <3>3, <3>4 DEF result, by
    <2>9. ents \subseteq Ents /\ rels \subseteq Rels /\ selected \subseteq ents \union rels
        BY <1>2 DEF ents, rels, selected, m, IsDeepRun, Candidates
    <2>10. ents \subseteq selected /\ rels \subseteq selected
        BY DEF ents, rels
    <2> HIDE DEF newEnts, newRels, newRelsOf, primary, primaryOf, nodes, nodesOf, edges, edgesOf
    <2>11. /\ entEvents \subseteq EventSet
           /\ \A e \in entEvents : /\ e.candidate \in ents /\ e.run = "deepseek"
                                   /\ e.before = disk.ents[e.candidate]
                                   /\ e.after = newEnts[e.candidate]
           /\ \A x \in ents : \E e \in entEvents : e.candidate = x /\ e.run = "deepseek"
        <3>1. "deepseek" \in Deciders /\ Ents \subseteq Candidates
            BY DEF Deciders, Candidates
        <3>2. entEvents = Events(disk.ents, newEnts, ents, "deepseek")
            OBVIOUS
        <3> HIDE DEF entEvents
        <3> QED BY <2>1, <2>7, <2>9, <3>1, <3>2, EventsTyped
    <2>12. /\ relEvents \subseteq EventSet
           /\ \A e \in relEvents : /\ e.candidate \in rels /\ e.run = "deepseek"
                                   /\ e.before = disk.rels[e.candidate]
                                   /\ e.after = newRels[e.candidate]
           /\ \A x \in rels : \E e \in relEvents : e.candidate = x /\ e.run = "deepseek"
        <3>1. "deepseek" \in Deciders /\ Rels \subseteq Candidates
            BY DEF Deciders, Candidates
        <3>2. relEvents = Events(disk.rels, newRels, rels, "deepseek")
            BY DEF newRels
        <3> HIDE DEF relEvents, relEventsOf
        <3> QED BY <2>1, <2>8, <2>9, <3>1, <3>2, EventsTyped
    <2> HIDE DEF entEvents, relEvents, relEventsOf
    <2>13. events = disk.events \union entEvents \union relEvents
        BY DEF relEvents
    <2> HIDE DEF events, eventsOf
    <2>14. events \subseteq EventSet /\ disk.events \subseteq events /\ SoundEvents(events)
        <3>1. SoundEvents(disk.events)
            BY DEF ReviewInv, FilesSound
        <3>2. SoundEvents(entEvents)
            BY <2>5, <2>6, <2>7, <2>10, <2>11 DEF SoundEvents, selected
        <3>3. SoundEvents(relEvents)
            BY <2>5, <2>6, <2>8, <2>10, <2>12 DEF SoundEvents, selected
        <3>4. SoundEvents(events)
            BY <2>13, <3>1, <3>2, <3>3 DEF SoundEvents
        <3> QED BY <2>1, <2>11, <2>12, <2>13, <3>4
    <2>15. Covered(events)
        <3>1. \A x \in selected : \E e \in events : e.run = "deepseek" /\ e.candidate = x
            BY <2>9, <2>11, <2>12, <2>13
        <3>2. selected = DOMAIN disk.deep.before
            BY <2>6 DEF selected
        <3> QED BY <3>1, <3>2 DEF Covered
    <2>16. IsDeepRun(manifest) /\ SameRun(manifest) /\ manifest.status = "admitted"
        <3> DEFINE N == nodes \ disk.nodes
                   G == edges \ disk.edges
        <3>1. N \subseteq Node /\ G \subseteq Edge
            BY <2>3, <2>4
        <3>2. manifest = [m EXCEPT !.status = "admitted", !.nodes = N, !.edges = G]
            BY DEF nodes, edges
        <3>3. IsDeepRun(m) /\ SameRun(m)
            BY <1>2 DEF m
        <3> HIDE DEF N, G, manifest, manifestOf
        <3>4. /\ DOMAIN manifest = {"status", "before", "approves", "nodes", "edges"}
              /\ manifest.status = "admitted" /\ manifest.nodes = N /\ manifest.edges = G
              /\ manifest.before = m.before /\ manifest.approves = m.approves
            BY <3>2, <3>3 DEF IsDeepRun
        <3> QED BY <3>1, <3>3, <3>4 DEF IsDeepRun, SameRun, Progress
    <2>17. /\ \A e \in Ents : Lawful(e, disk.ents[e], newEnts[e])
           /\ \A r \in Rels : Lawful(r, disk.rels[r], newRels[r])
        <3>1. \A e \in Ents : newEnts[e] # disk.ents[e] => disk.ents[e].status \notin Final
            BY <2>5, <2>6, <2>7, <2>10 DEF Final, Waiting
        <3>2. \A r \in Rels : newRels[r] # disk.rels[r] => disk.rels[r].status \notin Final
            BY <2>5, <2>6, <2>8, <2>10 DEF Final, Waiting
        <3> QED BY <3>1, <3>2, EntsLawful, RelsLawful
    <2>18. EntsIn(newEnts, disk.nodes) /\ RelsIn(newRels, disk.edges)
        <3>1. \A e \in Ents : newEnts[e] # disk.ents[e] => ~ByHuman(newEnts[e])
            BY <2>7 DEF ByHuman
        <3>2. \A r \in Rels : newRels[r] # disk.rels[r] => ~ByHuman(newRels[r])
            BY <2>8 DEF ByHuman
        <3> QED BY <3>1, <3>2, EntsKept, RelsKept
    <2> HIDE DEF manifest, manifestOf, q
    <2>19. /\ DOMAIN q = 1..6 /\ Len(q) = 6 /\ q \in Seq({q[i] : i \in DOMAIN q})
           /\ q[1] = [file |-> "ents", value |-> newEnts] /\ q[2] = [file |-> "rels", value |-> newRels]
           /\ q[3] = [file |-> "nodes", value |-> nodes] /\ q[4] = [file |-> "edges", value |-> edges]
           /\ q[5] = [file |-> "events", value |-> events]
           /\ q[6] = [file |-> "deep", value |-> manifest]
        <3>1. q = <<[file |-> "ents", value |-> newEnts], [file |-> "rels", value |-> newRels],
                    [file |-> "nodes", value |-> nodes], [file |-> "edges", value |-> edges],
                    [file |-> "events", value |-> events], [file |-> "deep", value |-> manifest]>>
            BY DEF q, newRels, nodes, edges, events, manifest
        <3> QED BY <3>1, SixWritesPlanned
    <2>20. \A i \in DOMAIN q : i = 1 \/ i = 2 \/ i = 3 \/ i = 4 \/ i = 5 \/ i = 6
        BY <2>19
    <2>21. WritesOK(q) /\ Orderly(q)
        <3>1. \A i \in DOMAIN q : Holds(q[i].file, q[i].value)
            BY <2>3, <2>4, <2>7, <2>8, <2>14, <2>16, <2>19, <2>20 DEF Holds
        <3> QED BY <2>19, <2>20, <3>1 DEF WritesOK, Orderly
    <2>22. NodesFirst(q) /\ EdgesFirst(q)
        BY <2>3, <2>4, <2>18, <2>19, <2>20 DEF NodesFirst, EdgesFirst
    <2>23. WritesLawful(q) /\ EventsGrow(q)
        BY <2>14, <2>17, <2>19, <2>20 DEF WritesLawful, EventsGrow
    <2>24. Coming(q, "events") = events
        <3>1. 5 \in DOMAIN q /\ q[5].file = "events" /\ q[5].value = events
            BY <2>19
        <3>2. \A j, k \in DOMAIN q : q[j].file = q[k].file => j = k
            BY <2>21 DEF Orderly
        <3>3. Coming(q, q[5].file) = q[5].value
            BY <3>1, <3>2, ComingWritten
        <3> QED BY <3>1, <3>3
    <2>25. CompletionLast(q)
        BY <2>15, <2>16, <2>19, <2>20, <2>24 DEF CompletionLast
    <2>26. Plan(q)
        BY <2>21, <2>22, <2>23, <2>25 DEF Plan
    <2>27. todo' = q
        BY <1>4 DEF q, m, ents, rels, approved, selected, newEnts, newRels, newRelsOf, primary,
                    primaryOf, nodes, nodesOf, edges, edgesOf, entEvents, relEvents, relEventsOf,
                    events, eventsOf, manifest, manifestOf
    <2> QED BY <2>26, <2>27
<1> QED BY <1>1, <1>3, <1>4

LEMMA DeepRollbackPlan ==
    ASSUME ReviewInv, NEW c \in Callers, DeepRollback(c)
    PROVE  \E q : todo' = q /\ Plan(q)
<1> DEFINE m == call[c].m
           events == {e \in disk.events : e.run = "deepseek"}
           newEnts == Restored(disk.ents, events)
           newRels == Restored(disk.rels, events)
           nodes == Without(disk.nodes, "deepseek")
           edges == Without(disk.edges, "deepseek")
           manifest == [m EXCEPT !.status = "rolled_back"]
           q == <<[file |-> "ents", value |-> newEnts], [file |-> "rels", value |-> newRels],
                  [file |-> "nodes", value |-> nodes], [file |-> "edges", value |-> edges],
                  [file |-> "deep", value |-> manifest]>>
<1>1. todo' = <<>> \/ (todo' = q /\ ~Changed(events))
    BY DEF DeepRollback
<1>2. IsDeepRun(m) /\ SameRun(m)
    BY DeepCall DEF DeepRollback
<1>3. CASE todo' = <<>>
    BY <1>3, NoWrites
<1>4. CASE todo' = q /\ ~Changed(events)
    <2>1. /\ disk.ents \in [Ents -> Decision] /\ disk.rels \in [Rels -> Decision]
          /\ disk.nodes \subseteq Node /\ disk.edges \subseteq Edge /\ events \subseteq disk.events
        BY Contents DEF ReviewInv, FilesSound
    <2>2. \A e \in disk.events : e.run = "deepseek" => e \in events
        OBVIOUS
    <2>3. \A e \in events : e.run = "deepseek"
        OBVIOUS
    <2> HIDE DEF events
    <2>4. /\ \A e \in events : e.candidate \in Ents => disk.ents[e.candidate] = e.after
          /\ \A e \in events : e.candidate \in Rels => disk.rels[e.candidate] = e.after
        BY <1>4, UnchangedSince
    <2>5. newEnts = Restored(disk.ents, events) /\ newRels = Restored(disk.rels, events)
        OBVIOUS
    <2> HIDE DEF newEnts, newRels
    <2>6. /\ newEnts \in [Ents -> Decision]
          /\ \A d \in Ents :
                \/ newEnts[d] = disk.ents[d] /\ \A e \in events : e.candidate # d
                \/ \E e \in events : e.candidate = d /\ e.before = newEnts[d] /\ e.after = disk.ents[d]
        BY <2>1, <2>4, <2>5, RestoredIs
    <2>7. /\ newRels \in [Rels -> Decision]
          /\ \A d \in Rels :
                \/ newRels[d] = disk.rels[d] /\ \A e \in events : e.candidate # d
                \/ \E e \in events : e.candidate = d /\ e.before = newRels[d] /\ e.after = disk.rels[d]
        BY <2>1, <2>4, <2>5, RestoredIs
    <2>8. /\ \A e \in Ents : Lawful(e, disk.ents[e], newEnts[e])
          /\ \A e \in Ents : newEnts[e] # disk.ents[e] => ~ByHuman(newEnts[e])
          /\ \A r \in Rels : Lawful(r, disk.rels[r], newRels[r])
          /\ \A r \in Rels : newRels[r] # disk.rels[r] => ~ByHuman(newRels[r])
        BY <2>1, <2>4, <2>5, RestoredLawful
    <2>9. EntsIn(newEnts, disk.nodes) /\ RelsIn(newRels, disk.edges)
        BY <2>8, EntsKept, RelsKept
    <2>10. /\ nodes \subseteq Node /\ edges \subseteq Edge
           /\ \A e \in Ents : NodeOf(e) \in disk.nodes => NodeOf(e) \in nodes
           /\ \A r \in Rels : EdgeOf(r) \in disk.edges => EdgeOf(r) \in edges
        BY <2>1, HumanLeft DEF Without
    <2>11. /\ \A x \in nodes : x.by # "deepseek"
           /\ \A x \in edges : x.by # "deepseek"
        BY DEF Without
    <2>12. IsDeepRun(manifest) /\ SameRun(manifest) /\ manifest.status = "rolled_back"
        <3> HIDE DEF m
        <3>1. /\ DOMAIN manifest = {"status", "before", "approves", "nodes", "edges"}
              /\ manifest.status = "rolled_back" /\ manifest.nodes = m.nodes
              /\ manifest.edges = m.edges /\ manifest.before = m.before
              /\ manifest.approves = m.approves
            BY <1>2 DEF IsDeepRun
        <3> HIDE DEF manifest
        <3> QED BY <1>2, <3>1 DEF IsDeepRun, SameRun, Progress
    <2> HIDE DEF nodes, edges, manifest, q, m
    <2>13. /\ DOMAIN q = 1..5 /\ Len(q) = 5 /\ q \in Seq({q[i] : i \in DOMAIN q})
           /\ q[1] = [file |-> "ents", value |-> newEnts] /\ q[2] = [file |-> "rels", value |-> newRels]
           /\ q[3] = [file |-> "nodes", value |-> nodes] /\ q[4] = [file |-> "edges", value |-> edges]
           /\ q[5] = [file |-> "deep", value |-> manifest]
        <3>1. q = <<[file |-> "ents", value |-> newEnts], [file |-> "rels", value |-> newRels],
                    [file |-> "nodes", value |-> nodes], [file |-> "edges", value |-> edges],
                    [file |-> "deep", value |-> manifest]>>
            BY DEF q
        <3> QED BY <3>1, FiveWritesPlanned
    <2>14. \A i \in DOMAIN q : i = 1 \/ i = 2 \/ i = 3 \/ i = 4 \/ i = 5
        BY <2>13
    <2>15. WritesOK(q) /\ Orderly(q)
        <3>1. \A i \in DOMAIN q : Holds(q[i].file, q[i].value)
            BY <2>6, <2>7, <2>10, <2>12, <2>13, <2>14 DEF Holds
        <3> QED BY <2>13, <2>14, <3>1 DEF WritesOK, Orderly
    <2>16. NodesFirst(q) /\ EdgesFirst(q)
        BY <2>9, <2>10, <2>13, <2>14 DEF NodesFirst, EdgesFirst
    <2>17. WritesLawful(q) /\ EventsGrow(q)
        BY <2>8, <2>13, <2>14 DEF WritesLawful, EventsGrow
    <2>18. /\ Coming(q, "ents") = newEnts /\ Coming(q, "rels") = newRels
           /\ Coming(q, "nodes") = nodes /\ Coming(q, "edges") = edges
        <3>1. \A j, k \in DOMAIN q : q[j].file = q[k].file => j = k
            BY <2>15 DEF Orderly
        <3>2. 1 \in DOMAIN q /\ 2 \in DOMAIN q /\ 3 \in DOMAIN q /\ 4 \in DOMAIN q
            BY <2>13
        <3>3. /\ Coming(q, q[1].file) = q[1].value /\ Coming(q, q[2].file) = q[2].value
              /\ Coming(q, q[3].file) = q[3].value /\ Coming(q, q[4].file) = q[4].value
            BY <3>1, <3>2, ComingWritten
        <3> QED BY <2>13, <3>3
    <2>19. ASSUME disk.deep.status = "admitted"
           PROVE  PutBack(q, "ents", Ents) /\ PutBack(q, "rels", Rels)
        <3>1. disk.deep # NoRun
            BY <1>2 DEF SameRun
        <3>2. \A x \in DOMAIN disk.deep.before : \E e \in events : e.candidate = x
            BY <2>2, <2>19, <3>1 DEF ReviewInv, FilesSound, Covered
        <3>3. \A e \in events : e.before = disk.deep.before[e.candidate]
            BY <2>1, <2>3 DEF ReviewInv, FilesSound, SoundEvents
        <3>4. \A x \in Ents \intersect DOMAIN disk.deep.before : newEnts[x] = disk.deep.before[x]
            BY <2>6, <3>2, <3>3
        <3>5. \A x \in Rels \intersect DOMAIN disk.deep.before : newRels[x] = disk.deep.before[x]
            BY <2>7, <3>2, <3>3
        <3> QED BY <2>18, <3>4, <3>5 DEF PutBack
    <2>20. CompletionLast(q)
        <3>1. Cleared(q, "nodes") /\ Cleared(q, "edges")
            BY <2>11, <2>18 DEF Cleared
        <3> QED BY <2>12, <2>13, <2>14, <2>19, <3>1 DEF CompletionLast
    <2>21. Plan(q)
        BY <2>15, <2>16, <2>17, <2>20 DEF Plan
    <2> QED BY <1>4, <2>21 DEF q, m, events, manifest, newEnts, newRels, nodes, edges
<1> QED BY <1>1, <1>3, <1>4

-----------------------------------------------------------------------------
\* The steps that write at once.
LEMMA LoadKeepsInv ==
    ASSUME ReviewInv, NEW c \in Callers, NEW does \in RunOps, Load(c, does)
    PROVE  ReviewInv'
<1>1. /\ disk' = disk /\ todo' = todo /\ verdict' = verdict /\ gates' = gates
      /\ stamp' = stamp /\ deaths' = deaths
    BY DEF Load
<1>2. disk.qwen \in QwenRun /\ (disk.deep = NoRun \/ IsDeepRun(disk.deep))
    BY Contents DEF ReviewInv, FilesSound
<1> DEFINE k == [op |-> does, m |-> IF does \in {"admit", "rollback"} THEN disk.qwen ELSE disk.deep]
<1>3. CallSound(k)
    <2>1. CASE does \in {"admit", "rollback"}
        BY <1>2, <2>1 DEF CallSound
    <2>2. CASE does \in {"deep admit", "deep rollback"}
        <3>1. disk.deep.status # "none"
            BY <2>2 DEF Load
        <3>2. disk.deep # NoRun
            BY <3>1 DEF NoRun
        <3> QED BY <1>2, <2>2, <3>2 DEF CallSound, SameRun
    <2> QED BY <2>1, <2>2 DEF RunOps
<1>4. call' = [call EXCEPT ![c] = k]
    BY DEF Load
<1> HIDE DEF k
<1>5. DOMAIN call' = Callers /\ \A d \in Callers : CallSound(call'[d])
    BY <1>3, <1>4 DEF ReviewInv, CallsSound
<1>6. CallsSound'
    BY <1>1, <1>5 DEF CallsSound, CallSound, SameRun, IsDeepRun, QwenRun
<1>7. CountersOK'
    BY <1>1 DEF ReviewInv, CountersOK
<1>8. Plan(todo)
    BY DEF ReviewInv
<1> QED BY <1>1, <1>6, <1>7, <1>8, PlanStarts

LEMMA OverrideKeepsInv ==
    ASSUME ReviewInv, Override
    PROVE  ReviewInv'
<1>1. /\ disk' = [disk EXCEPT !.qwen.strict = TRUE, !.qwen.status = "ready_to_admit"]
      /\ todo' = todo /\ verdict' = verdict /\ gates' = gates
      /\ stamp' = stamp /\ deaths' = deaths /\ call' = call
    BY DEF Override
<1>2. FilesOK /\ disk.qwen \in QwenRun
    BY Contents DEF ReviewInv, FilesSound
<1>3. /\ DOMAIN disk' = Files /\ disk'.qwen = [disk.qwen EXCEPT !.strict = TRUE, !.status = "ready_to_admit"]
      /\ \A f \in Files \ {"qwen"} : disk'[f] = disk[f]
    BY <1>1, <1>2 DEF FilesOK, Files, QwenRun
<1>4. disk'.qwen \in QwenRun
    <2> DEFINE old == disk.qwen
               new == disk'.qwen
    <2>1. old \in QwenRun /\ new = [old EXCEPT !.strict = TRUE, !.status = "ready_to_admit"]
        BY <1>2, <1>3
    <2> HIDE DEF old, new
    <2>2. new \in QwenRun
        BY <2>1 DEF QwenRun, Progress
    <2> QED BY <2>2 DEF new
<1>5. /\ disk'.ents = disk.ents /\ disk'.rels = disk.rels /\ disk'.nodes = disk.nodes
      /\ disk'.edges = disk.edges /\ disk'.events = disk.events /\ disk'.deep = disk.deep
    BY <1>3 DEF Files
<1>6. \A f \in Files : Holds(f, disk'[f])
    <2>1. ASSUME NEW f \in Files, f # "qwen"
          PROVE  Holds(f, disk'[f])
        BY <1>2, <1>3, <2>1 DEF FilesOK
    <2>2. Holds("qwen", disk'.qwen)
        BY <1>4 DEF Holds
    <2> QED BY <2>1, <2>2
<1>7. FilesOK'
    BY <1>3, <1>6 DEF FilesOK, Holds, QwenRun, IsDeepRun, Node, Edge, EventSet, Decision
<1>8. FilesSound'
    <2>1. HumanApprovalsKept'
        BY <1>5 DEF ReviewInv, FilesSound, HumanApprovalsKept
    <2> QED BY <1>5, <1>7, <2>1 DEF ReviewInv, FilesSound, SoundEvents, Covered
<1>9. CallsSound'
    <2>1. CallsSound
        BY DEF ReviewInv
    <2> QED BY <1>1, <1>5, <2>1 DEF CallsSound, CallSound, SameRun, IsDeepRun, QwenRun
<1>10. CountersOK'
    BY <1>1 DEF ReviewInv, CountersOK
<1>11. Plan(todo)'
    BY <1>1, <1>5, PlanStays
<1> QED BY <1>8, <1>9, <1>10, <1>11 DEF ReviewInv

LEMMA DeepSelectKeepsInv ==
    ASSUME ReviewInv, DeepSelect
    PROVE  ReviewInv'
<1> DEFINE S == {c \in Candidates : Current(c).status = "needs_human_review"}
<1>1. PICK approves \in SUBSET S :
            disk' = [disk EXCEPT !.deep =
                [status |-> "ready_to_admit", before |-> [c \in S |-> Current(c)],
                 approves |-> approves, nodes |-> {}, edges |-> {}]]
    BY DEF DeepSelect
<1>2. /\ todo' = todo /\ verdict' = verdict /\ gates' = gates
      /\ stamp' = stamp /\ deaths' = deaths /\ call' = call /\ disk.deep = NoRun
    BY DEF DeepSelect
<1> DEFINE run == [status |-> "ready_to_admit", before |-> [c \in S |-> Current(c)],
                   approves |-> approves, nodes |-> {}, edges |-> {}]
<1>3. FilesOK /\ disk.ents \in [Ents -> Decision] /\ disk.rels \in [Rels -> Decision]
    BY Contents DEF ReviewInv, FilesSound
<1>4. /\ DOMAIN disk' = Files /\ disk'.deep = run
      /\ \A f \in Files \ {"deep"} : disk'[f] = disk[f]
    <2> HIDE DEF run
    <2>1. disk' = [disk EXCEPT !.deep = run]
        BY <1>1 DEF run
    <2> QED BY <1>3, <2>1 DEF FilesOK, Files
<1>5. /\ S \subseteq Candidates /\ \A c \in S : Current(c) \in Decision
      /\ \A c \in S : Current(c).status \in Waiting
    BY <1>3 DEF Candidates, Current, Waiting
<1> HIDE DEF S
<1>6. /\ IsDeepRun(run) /\ run.status = "ready_to_admit"
      /\ \A c \in DOMAIN run.before : run.before[c].status \in Waiting
    <2> DEFINE B == [c \in S |-> Current(c)]
    <2>1. DOMAIN B = S /\ \A c \in S : B[c] = Current(c)
        OBVIOUS
    <2>2. B \in [S -> Decision]
        BY <1>5, <2>1
    <2>3. run = [status |-> "ready_to_admit", before |-> B,
                 approves |-> approves, nodes |-> {}, edges |-> {}]
        OBVIOUS
    <2> HIDE DEF B, run
    <2>4. /\ DOMAIN run = {"status", "before", "approves", "nodes", "edges"}
          /\ run.status = "ready_to_admit" /\ run.before = B /\ run.approves = approves
          /\ run.nodes = {} /\ run.edges = {}
        BY <2>3
    <2> QED BY <1>5, <2>1, <2>2, <2>4 DEF IsDeepRun, Progress
<1> HIDE DEF run
<1>7. run # NoRun
    <2>1. NoRun.status = "none"
        BY DEF NoRun
    <2> QED BY <1>6, <2>1
<1>8. /\ disk'.ents = disk.ents /\ disk'.rels = disk.rels /\ disk'.nodes = disk.nodes
      /\ disk'.edges = disk.edges /\ disk'.events = disk.events
    BY <1>4 DEF Files
<1>9. \A f \in Files : Holds(f, disk'[f])
    <2>1. ASSUME NEW f \in Files, f # "deep"
          PROVE  Holds(f, disk'[f])
        BY <1>3, <1>4, <2>1 DEF FilesOK
    <2>2. Holds("deep", disk'.deep)
        BY <1>4, <1>6 DEF Holds
    <2> QED BY <2>1, <2>2
<1>10. FilesOK'
    BY <1>4, <1>9 DEF FilesOK, Holds, QwenRun, IsDeepRun, Node, Edge, EventSet, Decision
<1>11. FilesSound'
    <2>1. HumanApprovalsKept'
        BY <1>8 DEF ReviewInv, FilesSound, HumanApprovalsKept
    <2>2. SoundEvents(disk.events)'
        BY <1>2, <1>8 DEF ReviewInv, FilesSound, SoundEvents
    <2>3. /\ \A c \in DOMAIN disk'.deep.before : disk'.deep.before[c].status \in Waiting
          /\ disk'.deep.status # "admitted"
        BY <1>4, <1>6
    <2> QED BY <1>10, <2>1, <2>2, <2>3 DEF FilesSound
<1>12. CallsSound'
    <2>1. ASSUME NEW c \in Callers
          PROVE  \/ call[c] = NoCall
                 \/ call[c].op \in {"admit", "rollback"} /\ call[c].m \in QwenRun
        <3>1. CallSound(call[c])
            BY DEF ReviewInv, CallsSound
        <3> QED BY <1>2, <3>1 DEF CallSound, SameRun
    <2>2. DOMAIN call = Callers
        BY DEF ReviewInv, CallsSound
    <2> QED BY <1>2, <2>1, <2>2 DEF CallsSound, CallSound, QwenRun
<1>13. CountersOK'
    BY <1>2 DEF ReviewInv, CountersOK
<1>14. Plan(todo)'
    BY <1>2, <1>8, PlanStays
<1> QED BY <1>11, <1>12, <1>13, <1>14 DEF ReviewInv

-----------------------------------------------------------------------------
LEMMA InitSound ==
    ASSUME RGInit
    PROVE  ReviewInv
<1>1. Fresh \in Decision /\ Fresh.by # "human"
    BY DEF Fresh, Decision, Waiting, Deciders
<1>2. DOMAIN disk = Files /\ \A f \in Files : Holds(f, disk[f])
    <2>1. /\ disk.ents \in [Ents -> Decision] /\ disk.rels \in [Rels -> Decision]
          /\ disk.nodes = {} /\ disk.edges = {} /\ disk.events = {} /\ disk.deep = NoRun
        BY <1>1 DEF RGInit
    <2>2. disk.qwen \in QwenRun
        BY DEF RGInit, QwenRun, Progress
    <2>3. DOMAIN disk = Files
        BY DEF RGInit, Files
    <2> QED BY <2>1, <2>2, <2>3 DEF Holds, Files
<1>3. FilesSound
    <2>1. HumanApprovalsKept
        BY <1>1 DEF HumanApprovalsKept, RGInit
    <2>2. SoundEvents(disk.events) /\ disk.deep = NoRun
        BY DEF RGInit, SoundEvents
    <2> QED BY <1>2, <2>1, <2>2 DEF FilesSound, FilesOK
<1>4. CallsSound
    BY DEF RGInit, CallsSound, CallSound
<1>5. CountersOK
    <2>1. MaxStamps \in Nat /\ MaxDeaths \in Nat
        BY GraphAssumption
    <2> QED BY <2>1 DEF RGInit, CountersOK
<1>6. Plan(todo)
    BY NoWrites DEF RGInit
<1> QED BY <1>3, <1>4, <1>5, <1>6 DEF ReviewInv

\* The operations that plan writes.
LEMMA OperationKeepsInv ==
    ASSUME ReviewInv, disk' = disk, \E q : todo' = q /\ Plan(q), CountersOK',
           call' = call \/ \E c \in Callers : Returns(c)
    PROVE  ReviewInv'
<1>1. PICK q : todo' = q /\ Plan(q)
    OBVIOUS
<1>2. CallsSound'
    BY CallsStay
<1> QED BY <1>1, <1>2, PlanStarts

LEMMA StampMoves ==
    ASSUME ReviewInv, verdict' = verdict, gates' = gates, deaths' = deaths,
           stamp' = stamp \/ (stamp < MaxStamps /\ stamp' = stamp + 1)
    PROVE  CountersOK'
<1>1. MaxStamps \in Nat /\ MaxDeaths \in Nat
    BY GraphAssumption
<1> QED BY <1>1 DEF ReviewInv, CountersOK

LEMMA ReviewStep ==
    ASSUME ReviewInv, RGNext
    PROVE  ReviewInv'
<1>1. ASSUME NEW e \in Ents, NEW status \in Decisions, DecideEntity(e, status)
      PROVE  ReviewInv'
    <2>1. Plan(EntityWrites(e, status)) /\ todo' = EntityWrites(e, status)
        BY <1>1, EntityPlan DEF DecideEntity, Run
    <2>2. disk' = disk /\ call' = call /\ CountersOK'
        BY <1>1, StampMoves DEF DecideEntity, Run, Unlocked
    <2> QED BY <2>1, <2>2, OperationKeepsInv
<1>2. ASSUME NEW r \in Rels, NEW status \in Decisions, DecideRelation(r, status)
      PROVE  ReviewInv'
    <2>1. Plan(RelationWrites(r, status)) /\ todo' = RelationWrites(r, status)
        BY <1>2, RelationPlan DEF DecideRelation, Run
    <2>2. disk' = disk /\ call' = call /\ CountersOK'
        BY <1>2, StampMoves DEF DecideRelation, Run, Unlocked
    <2> QED BY <2>1, <2>2, OperationKeepsInv
<1>3. ASSUME NEW c \in Callers, Admit(c)
      PROVE  ReviewInv'
    <2>1. disk' = disk /\ Returns(c) /\ CountersOK'
        BY <1>3, StampMoves DEF Admit, Run, Unlocked
    <2> QED BY <1>3, <2>1, AdmitPlan, OperationKeepsInv
<1>4. ASSUME NEW c \in Callers, Rollback(c)
      PROVE  ReviewInv'
    <2>1. disk' = disk /\ Returns(c) /\ CountersOK'
        BY <1>4, StampMoves DEF Rollback
    <2> QED BY <1>4, <2>1, RollbackPlan, OperationKeepsInv
<1>5. ASSUME NEW c \in Callers, DeepAdmit(c)
      PROVE  ReviewInv'
    <2>1. disk' = disk /\ Returns(c) /\ CountersOK'
        BY <1>5, StampMoves DEF DeepAdmit, Run, Unlocked
    <2> QED BY <1>5, <2>1, DeepAdmitPlan, OperationKeepsInv
<1>6. ASSUME NEW c \in Callers, DeepRollback(c)
      PROVE  ReviewInv'
    <2>1. disk' = disk /\ Returns(c) /\ CountersOK'
        BY <1>6, StampMoves DEF DeepRollback
    <2> QED BY <1>6, <2>1, DeepRollbackPlan, OperationKeepsInv
<1>7. ASSUME Die
      PROVE  ReviewInv'
    <2>1. disk' = disk /\ call' = call /\ todo' = <<>>
        BY <1>7 DEF Die
    <2>2. CountersOK'
        <3>1. MaxStamps \in Nat /\ MaxDeaths \in Nat
            BY GraphAssumption
        <3> QED BY <1>7, <3>1 DEF Die, ReviewInv, CountersOK
    <2> QED BY <2>1, <2>2, NoWrites, OperationKeepsInv
<1> QED BY <1>1, <1>2, <1>3, <1>4, <1>5, <1>6, <1>7, LoadKeepsInv, OverrideKeepsInv,
           DeepSelectKeepsInv, WriteKeepsInv DEF RGNext

LEMMA ReviewStutter ==
    ASSUME ReviewInv, UNCHANGED rgVars
    PROVE  ReviewInv'
<1>1. disk' = disk /\ call' = call /\ todo' = todo /\ CountersOK'
    BY DEF rgVars, ReviewInv, CountersOK
<1>2. Plan(todo)
    BY DEF ReviewInv
<1> QED BY <1>1, <1>2, OperationKeepsInv

LEMMA GraphIsSound == RGSpec => []ReviewInv
<1>1. RGInit => ReviewInv
    BY InitSound
<1>2. ReviewInv /\ [RGNext]_rgVars => ReviewInv'
    BY ReviewStep, ReviewStutter
<1> QED BY <1>1, <1>2, PTL DEF RGSpec

\* Types: each file holds what it should, each write planned and each manifest
\* read too.
THEOREM ReviewTypes == RGSpec => []RGTypeOK
<1>1. ReviewInv => RGTypeOK
    <2> SUFFICES ASSUME ReviewInv
                 PROVE  RGTypeOK
        OBVIOUS
    <2>1. DOMAIN disk = Files /\ (\A f \in Files : Holds(f, disk[f])) /\ WritesOK(todo)
        BY DEF ReviewInv, FilesSound, FilesOK, Plan
    <2>2. CountersOK
        BY DEF ReviewInv
    <2>3. /\ DOMAIN call = Callers
          /\ \A c \in Callers : \/ call[c] = NoCall
                                \/ call[c].op \in {"admit", "rollback"} /\ call[c].m \in QwenRun
                                \/ call[c].op \in {"deep admit", "deep rollback"} /\ IsDeepRun(call[c].m)
        BY DEF ReviewInv, CallsSound, CallSound
    <2> QED BY <2>1, <2>2, <2>3 DEF RGTypeOK, CountersOK
<1> QED BY <1>1, GraphIsSound, PTL

\* What a person approved stays in the graph, whichever runs are admitted and
\* rolled back and wherever their writes break off (repository.py,
\* review_automation.py, deepseek_review_completion.py).
THEOREM PeopleAreKept == RGSpec => []HumanApprovalsKept
<1>1. ReviewInv => HumanApprovalsKept
    BY DEF ReviewInv, FilesSound
<1> QED BY <1>1, GraphIsSound, PTL

\* The files other than the manifests change in writes alone.
LEMMA OnlyWrites ==
    ASSUME RGNext, ~Write, ReviewInv
    PROVE  disk'.ents = disk.ents /\ disk'.rels = disk.rels
           /\ (disk.deep = NoRun \/ disk'.deep = disk.deep)
<1>1. CASE Override
    <2>1. /\ DOMAIN disk = Files
          /\ disk' = [disk EXCEPT !.qwen.strict = TRUE, !.qwen.status = "ready_to_admit"]
        BY <1>1 DEF Override, ReviewInv, FilesSound, FilesOK
    <2> QED BY <2>1 DEF Files
<1>2. CASE DeepSelect
    <2>1. DOMAIN disk = Files /\ disk.deep = NoRun
        BY <1>2 DEF DeepSelect, ReviewInv, FilesSound, FilesOK
    <2>2. \E v : disk' = [disk EXCEPT !.deep = v]
        BY <1>2 DEF DeepSelect
    <2> QED BY <2>1, <2>2 DEF Files
<1>3. CASE ~Override /\ ~DeepSelect
    <2>1. disk' = disk
        <3>1. \A e, s : DecideEntity(e, s) => disk' = disk
            BY DEF DecideEntity
        <3>2. \A r, s : DecideRelation(r, s) => disk' = disk
            BY DEF DecideRelation
        <3>3. \A c, does : Load(c, does) => disk' = disk
            BY DEF Load
        <3>4. \A c : Admit(c) => disk' = disk
            BY DEF Admit
        <3>5. \A c : Rollback(c) => disk' = disk
            BY DEF Rollback
        <3>6. \A c : DeepAdmit(c) => disk' = disk
            BY DEF DeepAdmit
        <3>7. \A c : DeepRollback(c) => disk' = disk
            BY DEF DeepRollback
        <3>8. Die => disk' = disk
            BY DEF Die
        <3> QED BY <1>3, <3>1, <3>2, <3>3, <3>4, <3>5, <3>6, <3>7, <3>8 DEF RGNext
    <2> QED BY <2>1
<1> QED BY <1>1, <1>2, <1>3

\* A final decision of a person stands, and one of a run is undone by a roll-back
\* alone, to what the run's event says was there before.
THEOREM FinalDecisionsStand == RGSpec => FinalStands
<1> DEFINE NextOf(c) == IF c \in Ents THEN disk.ents'[c] ELSE disk.rels'[c]
           Stands == \A c \in Candidates :
             LET old == Current(c)
                 new == IF c \in Ents THEN disk.ents'[c] ELSE disk.rels'[c] IN
             old.status \in Final /\ new # old =>
                /\ old.by # "human" /\ new.status \in Waiting
                /\ \E e \in disk.events : e.candidate = c /\ e.after = old /\ e.before = new
<1>1. ASSUME ReviewInv, RGNext
      PROVE  Stands
    <2>1. CASE ~Write
        <3>1. \A c \in Candidates : NextOf(c) = Current(c)
            BY <1>1, <2>1, OnlyWrites DEF Current
        <3> QED BY <3>1
    <2>2. CASE Write
        <3>1. /\ 1 \in DOMAIN todo /\ disk'[todo[1].file] = todo[1].value
              /\ \A f \in Files : f # todo[1].file => disk'[f] = disk[f]
            BY <1>1, <2>2, OneWrite DEF ReviewInv, FilesSound, Plan
        <3>2. /\ todo[1].file = "ents" => \A e \in Ents : Lawful(e, disk.ents[e], todo[1].value[e])
              /\ todo[1].file = "rels" => \A r \in Rels : Lawful(r, disk.rels[r], todo[1].value[r])
            BY <1>1, <3>1 DEF ReviewInv, Plan, WritesLawful
        <3>3. \A c \in Ents : Lawful(c, disk.ents[c], disk'.ents[c])
            BY <3>1, <3>2 DEF Lawful, Files
        <3>4. \A c \in Rels : Lawful(c, disk.rels[c], disk'.rels[c])
            BY <3>1, <3>2 DEF Lawful, Files
        <3> QED BY <3>3, <3>4 DEF Lawful, Candidates, Current
    <2> QED BY <2>1, <2>2
<1>2. UNCHANGED rgVars => Stands
    BY DEF rgVars, Current
<1>3. ReviewInv /\ [RGNext]_rgVars => [Stands]_rgVars
    BY <1>1, <1>2
<1> QED BY <1>3, GraphIsSound, PTL DEF RGSpec, FinalStands

\* When a completion run is recorded as rolled back its nodes and edges are gone
\* and its candidates are as it found them.
THEOREM CompletionIsUndone == RGSpec => CompletionUndone
<1> DEFINE Undone == disk.deep.status = "admitted" /\ disk.deep'.status = "rolled_back" =>
                /\ \A x \in disk.nodes' \union disk.edges' : x.by # "deepseek"
                /\ \A c \in DOMAIN disk.deep.before : Current(c)' = disk.deep.before[c]
<1>1. ASSUME ReviewInv, RGNext
      PROVE  Undone
    <2> SUFFICES ASSUME disk.deep.status = "admitted", disk'.deep.status = "rolled_back"
                 PROVE  /\ \A x \in disk'.nodes \union disk'.edges : x.by # "deepseek"
                        /\ \A c \in DOMAIN disk.deep.before : Current(c)' = disk.deep.before[c]
        OBVIOUS
    <2>1. disk.deep # NoRun
        BY DEF NoRun
    <2>2. Write
        BY <1>1, <2>1, OnlyWrites
    <2>3. 1 \in DOMAIN todo /\ disk'[todo[1].file] = todo[1].value
        BY <1>1, <2>2, OneWrite DEF ReviewInv, FilesSound, Plan
    <2>4. todo[1].file = "deep"
        BY <1>1, <2>2, WriteKeepsRun
    <2>5. \A f \in Files \ {"deep"} : Coming(todo, f) = disk[f] /\ disk'[f] = disk[f]
        BY <1>1, <2>2, <2>4, WriteKeepsRun
    <2>6. /\ Cleared(todo, "nodes") /\ Cleared(todo, "edges")
          /\ PutBack(todo, "ents", Ents) /\ PutBack(todo, "rels", Rels)
        BY <1>1, <2>3, <2>4 DEF ReviewInv, Plan, CompletionLast
    <2>7. \A x \in disk'.nodes \union disk'.edges : x.by # "deepseek"
        BY <2>5, <2>6 DEF Cleared, Files
    <2>8. /\ \A c \in Ents \intersect DOMAIN disk.deep.before : disk'.ents[c] = disk.deep.before[c]
          /\ \A c \in Rels \intersect DOMAIN disk.deep.before : disk'.rels[c] = disk.deep.before[c]
        BY <2>5, <2>6 DEF PutBack, Files
    <2>9. DOMAIN disk.deep.before \subseteq Candidates
        BY <1>1, <2>1, Contents DEF ReviewInv, FilesSound, IsDeepRun
    <2> QED BY <2>7, <2>8, <2>9 DEF Candidates, Current
<1>2. UNCHANGED rgVars => Undone
    BY DEF rgVars
<1>3. ReviewInv /\ [RGNext]_rgVars => [Undone]_rgVars
    BY <1>1, <1>2
<1> QED BY <1>3, GraphIsSound, PTL DEF RGSpec, CompletionUndone

=============================================================================
