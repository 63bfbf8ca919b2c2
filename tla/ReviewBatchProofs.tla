------------------------- MODULE ReviewBatchProofs -------------------------
(***************************************************************************)
(* Theorems about a batch review, without a hypothesis: for any number of  *)
(* candidates, kinds of run, prices, ceilings, sizes of chunks and numbers *)
(* of retries, a fault or a restart between any two steps.  In order: the  *)
(* shape of the file and of what the worker has in memory, the usage that  *)
(* is counted, and that no candidate is dropped.                           *)
(***************************************************************************)
EXTENDS ReviewBatch, FiniteSetTheorems, TLAPS

-------------------------------------------------------------------------------
(* Numbers and chunks.  An induction over numbers is an argument about the     *)
(* least of those that refute a claim.                                         *)

\* A set of numbers that is not empty has a least one.
LEMMA LeastExists ==
  ASSUME NEW S, S \subseteq Nat, S # {}
  PROVE  \E x \in S : \A y \in S : x <= y
<1> DEFINE R == OpToRel(<, Nat)
<1>1. IsWellFoundedOn(R, Nat)
  BY NatLessThanWellFounded, Zenon
<1>2. ASSUME NEW x \in Nat, NEW y \in Nat, x < y PROVE <<x, y>> \in R
  <2>1. <<x, y>> \in Nat \X Nat
    OBVIOUS
  <2>2. <<x, y>>[1] < <<x, y>>[2]
    BY <1>2
  <2>3. R = {s \in Nat \X Nat : s[1] < s[2]}
    BY Zenon DEF OpToRel
  <2> HIDE DEF R
  <2> QED BY <2>1, <2>2, <2>3
<1> HIDE DEF R
<1>3. \E x \in S : \A y \in S : ~ (<<y, x>> \in R)
  BY <1>1, WFMin
<1>4. PICK x \in S : \A y \in S : ~ (<<y, x>> \in R)
  BY <1>3
<1>5. ASSUME NEW y \in S PROVE x <= y
  <2>1. x \in Nat /\ y \in Nat /\ ~ (<<y, x>> \in R)
    BY <1>4
  <2>2. ~ (y < x)
    BY <2>1, <1>2
  <2> QED BY <2>1, <2>2
<1> QED BY <1>4, <1>5

LEMMA ActiveOf ==
  ASSUME NEW m \in Manifests
  PROVE  /\ Active(m) \in 0..Len(m.phases)
         /\ Active(m) # 0 => m.phases[Active(m)].name = m.active
         /\ \A k \in 1..Len(m.phases) : m.phases[k].name = m.active => Active(m) # 0 /\ Active(m) <= k
<1> DEFINE I == {i \in 1..Len(m.phases) : m.phases[i].name = m.active}
<1>1. Active(m) = IF I # {} THEN Min(I) ELSE 0
  BY DEF Active, SelectInSeq
<1>2. Len(m.phases) \in Nat
  BY DEF Manifests
<1>3. ASSUME I # {} PROVE Min(I) \in I /\ \A k \in I : Min(I) <= k
  <2>1. \E x \in I : \A y \in I : x <= y
    <3>1. I \subseteq Nat
      BY <1>2
    <3> HIDE DEF I
    <3> QED BY <3>1, <1>3, LeastExists
  <2> QED BY <2>1 DEF Min
<1>4. CASE I = {}
  BY <1>1, <1>2, <1>4
<1>5. CASE I # {}
  <2>1. Active(m) = Min(I) /\ Min(I) \in I /\ \A k \in I : Min(I) <= k
    BY <1>1, <1>3, <1>5
  <2>2. Active(m) \in 1..Len(m.phases) /\ m.phases[Active(m)].name = m.active
    BY <2>1
  <2>3. ASSUME NEW k \in 1..Len(m.phases), m.phases[k].name = m.active PROVE Active(m) <= k
    BY <2>1, <2>3
  <2> QED BY <2>2, <2>3, <1>2
<1> QED BY <1>4, <1>5

LEMMA ItemsNumbered ==
  Items \subseteq Nat \ {0}
BY ReviewAssumption DEF Items

\* The candidates are finitely many.
LEMMA ItemsFinite ==
  ASSUME NEW S \in SUBSET Items
  PROVE  IsFiniteSet(S) /\ Cardinality(S) \in Nat
<1>1. N \in Nat
  BY ReviewAssumption
<1>2. IsFiniteSet(Items)
  BY <1>1, FS_Interval DEF Items
<1> QED BY <1>2, FS_Subset, FS_CardinalityType

\* Of the rows before a row.
LEMMA RowsBefore ==
  ASSUME NEW S \in SUBSET Items, NEW i \in S
  PROVE  Cardinality({j \in S : j < i}) \in 0..(Cardinality(S) - 1)
<1> DEFINE B == {j \in S : j < i}
<1>1. B \in SUBSET (S \ {i}) /\ B \in SUBSET Items /\ S \ {i} \in SUBSET Items
  <2>1. i \notin B
    BY ItemsNumbered
  <2> QED BY <2>1
<1>2. Cardinality(B) <= Cardinality(S \ {i})
  BY <1>1, ItemsFinite, FS_Subset
<1>3. Cardinality(S \ {i}) = Cardinality(S) - 1
  BY ItemsFinite, FS_RemoveElement
<1> QED BY <1>1, <1>2, <1>3, ItemsFinite

LEMMA GreatestExists ==
  ASSUME NEW S, S \subseteq Nat, S # {}, NEW b \in Nat, \A y \in S : y <= b
  PROVE  \E x \in S : \A y \in S : y <= x
<1> DEFINE U == {n \in Nat : \A y \in S : y <= n}
<1>1. b \in U
  OBVIOUS
<1>2. PICK n \in U : \A k \in U : n <= k
  BY <1>1, LeastExists
<1>3. ASSUME n \notin S PROVE FALSE
  <2>1. PICK y \in S : TRUE
    OBVIOUS
  <2>2. y \in Nat /\ y <= n /\ y # n
    BY <2>1, <1>2, <1>3
  <2>3. n - 1 \in U
    BY <2>2, <1>2, <1>3
  <2> QED BY <2>3, <1>2
<1> QED BY <1>2, <1>3

\* One of the rows is the last.
LEMMA LastRow ==
  ASSUME NEW S \in SUBSET Items, S # {}
  PROVE  \E x \in S : \A y \in S : y <= x
<1>1. N \in Nat /\ S \subseteq Nat /\ \A y \in S : y <= N
  BY ReviewAssumption DEF Items
<1> QED BY <1>1, GreatestExists

\* As many rows may come before a row as are left.
LEMMA EveryPlaceIsTaken ==
  ASSUME NEW S \in SUBSET Items, NEW n \in Nat, n < Cardinality(S)
  PROVE  \E i \in S : Cardinality({j \in S : j < i}) = n
<1> DEFINE Before(i) == Cardinality({j \in S : j < i})
           T == {i \in S : Before(i) >= n}
           U == S \ T
<1>1. \A i \in S : i \in Nat /\ Before(i) \in Nat
  BY RowsBefore DEF Items
<1>0. S \subseteq Nat
  BY ItemsNumbered
<1>2. ASSUME NEW i \in S, NEW j \in S, i < j PROVE Before(i) < Before(j)
  <2> DEFINE V == {k \in S : k < j}
  <2>1. {l \in S : l < i} = {l \in V : l < i}
    <3>1. ASSUME NEW l \in S, l < i PROVE l < j
      <4>1. i \in Nat /\ j \in Nat /\ l \in Nat
        BY <1>0
      <4> QED BY <4>1, <3>1, <1>2
    <3> QED BY <3>1
  <2>2. V \in SUBSET Items /\ i \in V
    BY <1>2
  <2>3. Cardinality(V) \in Nat
    BY <2>2, ItemsFinite
  <2>4. Cardinality({l \in V : l < i}) \in 0..(Cardinality(V) - 1)
    <3> HIDE DEF V
    <3> QED BY <2>2, RowsBefore
  <2>5. Before(i) = Cardinality({l \in V : l < i}) /\ Before(j) = Cardinality(V)
    BY <2>1
  <2> HIDE DEF V, Before
  <2> QED BY <2>3, <2>4, <2>5
<1>3. ASSUME NEW u \in SUBSET S, NEW x \in u, \A y \in u : y <= x,
             \A y \in S : y < x => y \in u
      PROVE  Cardinality(u) = Before(x) + 1
  <2>1. {j \in S : j < x} = u \ {x}
    <3>1. ASSUME NEW y \in u, y # x PROVE y < x
      <4>1. x \in Nat /\ y \in Nat /\ y <= x
        BY <1>0, <1>3
      <4> QED BY <3>1, <4>1
    <3>2. x \notin {j \in S : j < x}
      BY <1>0
    <3> QED BY <3>1, <3>2, <1>3
  <2>2. IsFiniteSet(u) /\ Cardinality(u) \in Nat
    <3>1. u \in SUBSET Items
      OBVIOUS
    <3> QED BY <3>1, ItemsFinite
  <2>3. Cardinality(u \ {x}) = Cardinality(u) - 1
    BY <1>3, <2>2, FS_RemoveElement
  <2>4. Before(x) = Cardinality(u) - 1
    BY <2>1, <2>3
  <2> HIDE DEF Before
  <2> QED BY <2>2, <2>4
<1>4. T # {}
  <2>1. SUFFICES ASSUME T = {} PROVE FALSE
    OBVIOUS
  <2>2. S # {}
    BY FS_EmptySet
  <2>3. PICK x \in S : \A y \in S : y <= x
    BY <2>2, LastRow
  <2>4. Cardinality(S) = Before(x) + 1
    BY <2>3, <1>3
  <2>5. ~ (Before(x) >= n)
    <3>1. x \notin T
      BY <2>1
    <3> QED BY <3>1
  <2> QED BY <2>4, <2>5, <2>3, <1>1, ItemsFinite
<1>5. PICK i \in T : \A j \in T : i <= j
  <2>1. T \subseteq Nat
    BY <1>1
  <2> HIDE DEF T
  <2> QED BY <2>1, <1>4, LeastExists
<1>6. {j \in S : j < i} = U
  <2>1. ASSUME NEW j \in S, j < i PROVE j \notin T
    BY <2>1, <1>1, <1>5, SMTT(30)
  <2>2. ASSUME NEW j \in S, j \notin T PROVE j < i
    <3>1. i \in S /\ Before(i) >= n /\ ~ (Before(j) >= n)
      BY <2>2, <1>5
    <3>2. j # i
      BY <3>1
    <3>3. ~ (i < j)
      <4>1. SUFFICES ASSUME i < j PROVE FALSE
        OBVIOUS
      <4>2. Before(i) < Before(j)
        BY <3>1, <4>1, <1>2
      <4> HIDE DEF Before
      <4> QED BY <4>2, <3>1, <1>1
    <3> QED BY <3>1, <3>2, <3>3, <1>1
  <2> QED BY <2>1, <2>2
<1>7. CASE U = {}
  <2>1. Before(i) = 0
    BY <1>6, <1>7, FS_EmptySet
  <2> QED BY <2>1, <1>5
<1>8. CASE U # {}
  <2>1. PICK x \in U : \A y \in U : y <= x
    <3>1. U \in SUBSET Items
      OBVIOUS
    <3> QED BY <3>1, <1>8, LastRow
  <2>2. Cardinality(U) = Before(x) + 1
    <3>1. ASSUME NEW y \in S, y < x PROVE y \in U
      BY <3>1, <2>1, <1>1, <1>2
    <3>2. U \in SUBSET S
      OBVIOUS
    <3> HIDE DEF U
    <3> QED BY <3>1, <3>2, <2>1, <1>3
  <2>3. Before(i) = Before(x) + 1
    BY <2>2, <1>6
  <2>4. x \in S /\ ~ (Before(x) >= n) /\ i \in S /\ Before(i) >= n
    BY <2>1, <1>5
  <2>5. Before(i) = n
    <3> HIDE DEF Before
    <3> QED BY <2>3, <2>4, <1>1
  <2> QED BY <2>4, <2>5
<1> QED BY <1>7, <1>8

LEMMA Division ==
  ASSUME NEW a \in Nat, NEW b \in Nat, b > 0
  PROVE  /\ a \div b \in Nat
         /\ b * (a \div b) <= a /\ a < b * (a \div b) + b
BY Z3

LEMMA Multiples ==
  ASSUME NEW a \in Nat, NEW b \in Nat, NEW c \in Nat
  PROVE  /\ c * a \in Nat /\ c * (a + 1) = c * a + c
         /\ a <= b => c * a <= c * b
BY Z3

\* The chunks are slices of the rows, none empty and together all.
LEMMA ChunksShare ==
  ASSUME NEW S \in SUBSET Items, Cardinality(S) > CHUNK
  PROVE  /\ Chunks(S) \in Seq((SUBSET S) \ {{}})
         /\ Len(Chunks(S)) \in Nat /\ Len(Chunks(S)) > 0
         /\ \A i \in S : \E k \in 1..Len(Chunks(S)) : i \in Chunks(S)[k]
<1> DEFINE Before(i) == Cardinality({j \in S : j < i})
           C == Cardinality(S)
           q == (C + CHUNK - 1) \div CHUNK
<1>1. CHUNK \in Nat /\ CHUNK > 0 /\ C \in Nat
  BY ReviewAssumption, ItemsFinite
<1>2. Chunks(S) = [k \in 1..q |-> {i \in S : Before(i) \div CHUNK = k - 1}]
  BY DEF Chunks
<1>3. q \in Nat /\ CHUNK * q <= C + CHUNK - 1 /\ C + CHUNK - 1 < CHUNK * q + CHUNK
  <2>1. C + CHUNK - 1 \in Nat
    BY <1>1
  <2> HIDE DEF C
  <2> QED BY <2>1, <1>1, Division
<1>4. \A i \in S : Before(i) \in 0..(C - 1)
  BY RowsBefore
<1>5. \A n \in Nat : n < C => \E i \in S : Before(i) = n
  BY EveryPlaceIsTaken
<1> HIDE DEF Before, C, q
<1>6. q > 0
  <2>1. CASE q = 0
    <3>1. CHUNK * q = 0
      BY <1>1, <2>1
    <3> QED BY <3>1, <1>1, <1>3 DEF C
  <2> QED BY <2>1, <1>3
<1>7. ASSUME NEW i \in S PROVE \E k \in 1..q : Before(i) \div CHUNK = k - 1
  <2> DEFINE d == Before(i) \div CHUNK
  <2>1. Before(i) \in Nat /\ Before(i) < C
    BY <1>1, <1>4
  <2>2. d \in Nat /\ CHUNK * d <= Before(i)
    BY <1>1, <2>1, Division
  <2> HIDE DEF d
  <2>3. d < q
    <3>1. SUFFICES ASSUME q <= d PROVE FALSE
      BY <1>3, <2>2
    <3>2. CHUNK * q <= CHUNK * d /\ CHUNK * q \in Nat /\ CHUNK * d \in Nat
      BY <1>1, <1>3, <2>2, <3>1, Multiples
    <3> QED BY <1>1, <1>3, <2>1, <2>2, <3>2
  <2>4. d + 1 \in 1..q /\ d = (d + 1) - 1
    BY <2>2, <2>3, <1>3
  <2> QED BY <2>4 DEF d
<1>8. ASSUME NEW k \in 1..q PROVE \E i \in S : Before(i) \div CHUNK = k - 1
  <2> DEFINE n == CHUNK * (k - 1)
             d == n \div CHUNK
  <2>1. k - 1 \in Nat /\ q - 1 \in Nat /\ k - 1 <= q - 1
    BY <1>3
  <2>2. n \in Nat /\ n <= CHUNK * (q - 1) /\ CHUNK * (q - 1) + CHUNK = CHUNK * q
    <3>1. (q - 1) + 1 = q
      BY <1>3
    <3> QED BY <1>1, <2>1, <3>1, Multiples
  <2>3. n < C
    <3>1. CHUNK * (q - 1) \in Nat /\ CHUNK * q \in Nat
      BY <1>1, <1>3, <2>1, Multiples
    <3> HIDE DEF n
    <3> QED BY <1>1, <1>3, <2>2, <3>1
  <2>4. PICK i \in S : Before(i) = n
    BY <1>5, <2>2, <2>3
  <2>5. d \in Nat /\ CHUNK * d <= n /\ n < CHUNK * d + CHUNK
    <3> HIDE DEF n
    <3> QED BY <1>1, <2>2, Division
  <2> HIDE DEF d
  <2>6. ~ (d < k - 1)
    <3>1. SUFFICES ASSUME d + 1 <= k - 1 PROVE FALSE
      BY <2>1, <2>5
    <3>2. CHUNK * (d + 1) <= n /\ CHUNK * (d + 1) = CHUNK * d + CHUNK /\ CHUNK * d \in Nat
      BY <1>1, <2>1, <2>5, <3>1, Multiples
    <3> HIDE DEF n
    <3> QED BY <3>2, <2>2, <2>5, <1>1
  <2>7. ~ (k - 1 < d)
    <3>1. SUFFICES ASSUME (k - 1) + 1 <= d PROVE FALSE
      BY <2>1, <2>5
    <3>2. CHUNK * ((k - 1) + 1) <= CHUNK * d /\ CHUNK * ((k - 1) + 1) = n + CHUNK /\ CHUNK * d \in Nat
      BY <1>1, <2>1, <2>5, <3>1, Multiples
    <3> HIDE DEF n
    <3> QED BY <3>2, <2>2, <2>5, <1>1
  <2>8. d = k - 1
    BY <2>1, <2>5, <2>6, <2>7
  <2> QED BY <2>4, <2>8 DEF d
<1>9. Chunks(S) \in Seq((SUBSET S) \ {{}}) /\ Len(Chunks(S)) = q
  <2>1. Chunks(S) \in [1..q -> (SUBSET S) \ {{}}]
    BY <1>2, <1>8
  <2> QED BY <2>1, <1>3
<1>10. ASSUME NEW i \in S PROVE \E k \in 1..Len(Chunks(S)) : i \in Chunks(S)[k]
  <2>1. PICK k \in 1..q : Before(i) \div CHUNK = k - 1
    BY <1>7
  <2>2. i \in Chunks(S)[k]
    BY <2>1, <1>2
  <2> QED BY <2>2, <1>9
<1> QED BY <1>3, <1>6, <1>9, <1>10

LEMMA WorkKinds ==
  ASSUME RBTypeOK
  PROVE  /\ work.step = "idle" <=> work = NoWork
         /\ work.step = "submit" => work \in Submissions
         /\ work.step \in {"create", "record"} =>
              /\ work = [step |-> work.step, rows |-> work.rows, w |-> work.w]
              /\ work.rows \in SUBSET Items /\ work.w \in Submissions
         /\ work.step = "save" => work.m \in Manifests
         /\ work.step \in {"import", "mark", "decide"} =>
              /\ work = [step |-> work.step, m |-> work.m, k |-> work.k]
              /\ work.m \in Manifests /\ work.k \in Nat
         /\ work.step \in {"idle", "submit", "create", "record", "save", "import", "mark", "decide"}
<1>1. CASE work = NoWork
  BY <1>1 DEF NoWork
<1>2. CASE work \in Submissions
  BY <1>2 DEF NoWork, Submissions
<1>3. CASE work \in [step : {"create", "record"}, rows : SUBSET Items, w : Submissions]
  BY <1>3 DEF NoWork
<1>4. CASE work \in [step : {"save"}, m : Manifests]
  BY <1>4 DEF NoWork
<1>5. CASE work \in [step : {"import", "mark", "decide"}, m : Manifests, k : Nat]
  BY <1>5 DEF NoWork
<1> QED BY <1>1, <1>2, <1>3, <1>4, <1>5 DEF RBTypeOK

Statuses == Settled \cup {"creating", "submitted", "running"}

\* What the worker changes in a manifest leaves a manifest.
LEMMA ManifestsWith ==
  ASSUME NEW m \in Manifests
  PROVE  /\ \A s \in Statuses : [m EXCEPT !.status = s] \in Manifests
         /\ [m EXCEPT !.active = NoPhase] \in Manifests
         /\ \A s \in Statuses : [m EXCEPT !.status = s, !.active = NoPhase] \in Manifests
         /\ \A s \in Statuses : [m EXCEPT !.active = NoPhase, !.status = s] \in Manifests
         /\ [m EXCEPT !.chunks = NoChunks] \in Manifests
         /\ \A F \in SUBSET Items : [m EXCEPT !.chunks.failed = F] \in Manifests
         /\ \A n \in Nat : [m EXCEPT !.cost = n] \in Manifests
<1>1. NoChunks \in [on : BOOLEAN, remaining : Seq(SUBSET Items), failed : SUBSET Items, next : Nat]
  BY DEF NoChunks
<1>2. /\ \A s \in Statuses : [m EXCEPT !.status = s] \in Manifests
      /\ [m EXCEPT !.active = NoPhase] \in Manifests
      /\ \A n \in Nat : [m EXCEPT !.cost = n] \in Manifests
  BY DEF Manifests, Statuses
<1>3. /\ \A s \in Statuses : [m EXCEPT !.status = s, !.active = NoPhase] \in Manifests
      /\ \A s \in Statuses : [m EXCEPT !.active = NoPhase, !.status = s] \in Manifests
  BY Zenon DEF Manifests, Statuses
<1>4. [m EXCEPT !.chunks = NoChunks] \in Manifests
  BY <1>1 DEF Manifests
<1>5. \A F \in SUBSET Items : [m EXCEPT !.chunks.failed = F] \in Manifests
  BY DEF Manifests
<1> QED BY <1>2, <1>3, <1>4, <1>5, Zenon

LEMMA PhasesWith ==
  ASSUME NEW m \in Manifests, NEW k \in DOMAIN m.phases
  PROVE  /\ m.phases[k] \in Phases
         /\ \A F \in SUBSET Items : [m EXCEPT !.phases[k].failed = F] \in Manifests
         /\ [m EXCEPT !.phases[k].imported = TRUE] \in Manifests
         /\ [m EXCEPT !.phases[k].restart = TRUE] \in Manifests
<1>1. m.phases[k] \in Phases /\ m.phases \in Seq(Phases)
  BY DEF Manifests
<1>2. \A p \in Phases : /\ \A F \in SUBSET Items : [p EXCEPT !.failed = F] \in Phases
                        /\ [p EXCEPT !.imported = TRUE] \in Phases
                        /\ [p EXCEPT !.restart = TRUE] \in Phases
  BY DEF Phases
<1>3. \A p \in Phases : [m.phases EXCEPT ![k] = p] \in Seq(Phases)
  BY <1>1
<1>4. \A s \in Seq(Phases) : [m EXCEPT !.phases = s] \in Manifests
  BY DEF Manifests
<1>5. ASSUME NEW F \in SUBSET Items PROVE [m EXCEPT !.phases[k].failed = F] \in Manifests
  <2>1. [m EXCEPT !.phases[k].failed = F]
        = [m EXCEPT !.phases = [m.phases EXCEPT ![k] = [m.phases[k] EXCEPT !.failed = F]]]
    BY DEF Manifests
  <2> QED BY <2>1, <1>1, <1>2, <1>3, <1>4
<1>6. [m EXCEPT !.phases[k].imported = TRUE]
        = [m EXCEPT !.phases = [m.phases EXCEPT ![k] = [m.phases[k] EXCEPT !.imported = TRUE]]]
  BY DEF Manifests
<1>7. [m EXCEPT !.phases[k].restart = TRUE]
        = [m EXCEPT !.phases = [m.phases EXCEPT ![k] = [m.phases[k] EXCEPT !.restart = TRUE]]]
  BY DEF Manifests
<1> QED BY <1>1, <1>2, <1>3, <1>4, <1>5, <1>6, <1>7

LEMMA RetryIsSubmission ==
  ASSUME NEW m \in Manifests, NEW pass \in 1..2, NEW ids \in (SUBSET Items) \cup {Everything},
         NEW retry \in Nat
  PROVE  Retry(m, pass, ids, retry) \in Submissions
BY DEF Retry, Submissions

LEMMA AdvanceGives ==
  ASSUME NEW m \in Manifests, NEW pass \in 1..2
  PROVE  \/ /\ m.mode # "test" /\ pass = 1
            /\ Advance(m, pass) = Retry(m, 2, Everything, 0)
            /\ Advance(m, pass) \in Submissions
         \/ \E s \in Statuses :
              /\ Advance(m, pass) = [step |-> "save", m |-> [m EXCEPT !.active = NoPhase, !.status = s]]
              /\ [m EXCEPT !.active = NoPhase, !.status = s] \in Manifests
              /\ s # "creating"
              /\ s \in {"awaiting_calibration", "ready_to_admit"} => m.mode # "test" /\ pass = 2
<1> DEFINE Saved(s) == [step |-> "save", m |-> [m EXCEPT !.active = NoPhase, !.status = s]]
<1>1. \A s \in Statuses : [m EXCEPT !.active = NoPhase, !.status = s] \in Manifests
  BY ManifestsWith, Zenon
<1>2. CASE m.mode # "test" /\ pass = 1 /\ ~(m.cost + SECOND > BUDGET)
  <2>1. Advance(m, pass) = Retry(m, 2, Everything, 0)
    BY <1>2 DEF Advance
  <2>2. Retry(m, 2, Everything, 0) \in Submissions
    BY RetryIsSubmission
  <2> QED BY <1>2, <2>1, <2>2, Zenon
<1>3. CASE m.mode # "test" /\ pass = 1 /\ m.cost + SECOND > BUDGET
  <2>1. Advance(m, pass) = Saved("failed") /\ "failed" \in Statuses
    BY <1>3 DEF Advance, Manifests, Statuses, Settled
  <2> QED BY <2>1, <1>1, Zenon
<1>4. CASE ~(m.mode # "test" /\ pass = 1)
  <2>1. CASE m.mode = "test"
    <3>1. Advance(m, pass) = Saved("completed") /\ "completed" \in Statuses
      BY <2>1 DEF Advance, Manifests, Statuses, Settled
    <3> QED BY <3>1, <1>1, Zenon
  <2>2. CASE m.mode # "test" /\ m.mode = "calibration"
    <3>1. Advance(m, pass) = Saved("awaiting_calibration") /\ "awaiting_calibration" \in Statuses /\ pass = 2
      BY <1>4, <2>2 DEF Advance, Manifests, Statuses, Settled
    <3> QED BY <3>1, <1>1, <2>2, Zenon
  <2>3. CASE m.mode # "test" /\ m.mode # "calibration"
    <3>1. Advance(m, pass) = Saved("ready_to_admit") /\ "ready_to_admit" \in Statuses /\ pass = 2
      BY <1>4, <2>3 DEF Advance, Manifests, Statuses, Settled
    <3> QED BY <3>1, <1>1, <2>3, Zenon
  <2> QED BY <2>1, <2>2, <2>3, Zenon
<1> QED BY <1>2, <1>3, <1>4, Zenon

LEMMA PreparedGives ==
  ASSUME NEW w \in Submissions, NEW rows \in SUBSET Items, rows # {}
  PROVE  /\ Prepared(w, rows) \in [step : {"create"}, rows : SUBSET Items, w : Submissions]
         /\ Prepared(w, rows).w.m.phases = w.m.phases
         /\ Prepared(w, rows).w.m.mode = w.m.mode /\ Prepared(w, rows).w.m.cost = w.m.cost
<1>1. w.m \in Manifests
  BY DEF Submissions
<1>2. CASE w.ids # Everything /\ w.chunk = 0 /\ Cardinality(rows) > CHUNK
  <2> DEFINE cs == Chunks(rows)
             c == [on |-> TRUE, remaining |-> Tail(cs), failed |-> {}, next |-> 2]
             n == [w.m EXCEPT !.chunks = c]
  <2>1. cs \in Seq(SUBSET Items) /\ cs # <<>> /\ cs[1] \in SUBSET Items
    <3>1. cs \in Seq((SUBSET rows) \ {{}}) /\ Len(cs) \in Nat /\ Len(cs) > 0
      BY <1>2, ChunksShare
    <3> HIDE DEF cs
    <3>2. cs \in Seq(SUBSET Items)
      BY <3>1
    <3> QED BY <3>1, <3>2
  <2>2. c \in [on : BOOLEAN, remaining : Seq(SUBSET Items), failed : SUBSET Items, next : Nat]
    BY <2>1
  <2>3. n \in Manifests /\ n.phases = w.m.phases /\ n.mode = w.m.mode /\ n.cost = w.m.cost
    <3> HIDE DEF c
    <3> QED BY <1>1, <2>2 DEF Manifests
  <2>4. Prepared(w, rows) = [step |-> "create", rows |-> cs[1], w |-> [w EXCEPT !.chunk = 1, !.m.chunks = c]]
    BY <1>2 DEF Prepared
  <2>5. [w EXCEPT !.chunk = 1, !.m.chunks = c] = [w EXCEPT !.chunk = 1, !.m = n]
    BY DEF Submissions
  <2>6. [w EXCEPT !.chunk = 1, !.m = n] \in Submissions /\ [w EXCEPT !.chunk = 1, !.m = n].m = n
    <3> HIDE DEF n
    <3> QED BY <2>3 DEF Submissions
  <2> DEFINE v == [w EXCEPT !.chunk = 1, !.m = n]
  <2>7. Prepared(w, rows) = [step |-> "create", rows |-> cs[1], w |-> v] /\ v \in Submissions /\ v.m = n
    BY <2>4, <2>5, <2>6
  <2> HIDE DEF c, n, cs, v
  <2> QED BY <2>1, <2>3, <2>7
<1>3. CASE ~(w.ids # Everything /\ w.chunk = 0 /\ Cardinality(rows) > CHUNK)
  <2> DEFINE n == [w.m EXCEPT !.chunks = NoChunks]
  <2>1. n \in Manifests /\ n.phases = w.m.phases /\ n.mode = w.m.mode /\ n.cost = w.m.cost
    BY <1>1, ManifestsWith, Zenon DEF Manifests
  <2>2. Prepared(w, rows) = [step |-> "create", rows |-> rows,
          w |-> IF w.keep \/ w.chunk # 0 THEN w ELSE [w EXCEPT !.m.chunks = NoChunks]]
    BY <1>3 DEF Prepared
  <2>3. [w EXCEPT !.m.chunks = NoChunks] = [w EXCEPT !.m = n]
    BY DEF Submissions
  <2>4. [w EXCEPT !.m = n] \in Submissions /\ [w EXCEPT !.m = n].m = n
    <3> HIDE DEF n
    <3> QED BY <2>1 DEF Submissions
  <2> HIDE DEF n
  <2> QED BY <2>1, <2>2, <2>3, <2>4
<1> QED BY <1>2, <1>3

-------------------------------------------------------------------------------
(* The shape of a run.                                                         *)

\* The manifest the worker has in memory.
Memory == IF work.step \in {"create", "record"} THEN work.w.m ELSE work.m
InMemory(k) == work.m.phases[k]

\* The worker has in memory what the file holds, but for what it is about to write.
MemoryInv ==
  /\ work.step \in {"import", "mark", "decide"} => work.k \in DOMAIN work.m.phases
  /\ work # NoWork =>
       /\ Memory.mode = manifest.mode /\ Memory.cost = manifest.cost
       /\ Memory.phases = IF work.step = "mark"
                          THEN [manifest.phases EXCEPT ![work.k].failed = InMemory(work.k).failed]
                          ELSE manifest.phases

\* Each phase has a batch of its own, and one that was imported is over.
BatchInv ==
  /\ \A k \in DOMAIN manifest.phases :
       /\ manifest.phases[k].batch \in 1..Len(batches)
       /\ work.step = "record" => manifest.phases[k].batch # Len(batches)
       /\ manifest.phases[k].imported => Terminal(batches[manifest.phases[k].batch])
  /\ work.step = "record" => Len(batches) > 0
  /\ \A j, k \in DOMAIN manifest.phases :
       manifest.phases[j].batch = manifest.phases[k].batch => j = k
  /\ work.step \in {"import", "mark"} =>
       /\ ~manifest.phases[work.k].imported
       /\ Terminal(batches[manifest.phases[work.k].batch])

RBShape == RBTypeOK /\ MemoryInv /\ BatchInv

\* The chunks that remain to be asked once the rows in hand are recorded.
NewChunks(w, rows) == IF w.keep THEN ChunksAfter(w.m.chunks, rows, w.chunk) ELSE w.m.chunks

\* What a step of the worker leaves in memory when it begins to submit or to save.
LEMMA NextInMemory ==
  ASSUME work' \in Submissions \cup [step : {"save"}, m : Manifests],
         work'.m.phases = manifest'.phases, work'.m.mode = manifest'.mode,
         work'.m.cost = manifest'.cost
  PROVE  MemoryInv' /\ work'.step \in {"submit", "save"}
BY DEF MemoryInv, Memory, Submissions, NoWork

LEMMA BatchesKept ==
  ASSUME BatchInv, work.step # "record" => work'.step # "record", batches' = batches,
         DOMAIN manifest'.phases = DOMAIN manifest.phases,
         \A k \in DOMAIN manifest.phases :
            /\ manifest'.phases[k].batch = manifest.phases[k].batch
            /\ manifest'.phases[k].imported => \/ manifest.phases[k].imported
                                              \/ Terminal(batches[manifest.phases[k].batch]),
         work'.step \notin {"import", "mark"}
  PROVE  BatchInv'
<1>1. \A b : Terminal(b)' = Terminal(b')
  BY DEF Terminal
<1>2. ASSUME NEW k \in DOMAIN manifest'.phases
      PROVE  /\ manifest'.phases[k].batch \in 1..Len(batches)
             /\ work'.step = "record" => manifest'.phases[k].batch # Len(batches)
             /\ manifest'.phases[k].imported => Terminal(batches[manifest'.phases[k].batch])
  BY DEF BatchInv
<1>3. \A j, k \in DOMAIN manifest'.phases :
         manifest'.phases[j].batch = manifest'.phases[k].batch => j = k
  BY DEF BatchInv
<1>4. work'.step = "record" => Len(batches) > 0
  BY DEF BatchInv
<1> QED BY <1>2, <1>3, <1>4 DEF BatchInv, Terminal

LEMMA SubmitShape ==
  ASSUME RBShape, Submit
  PROVE  RBShape'
<1> DEFINE rows == Rows(work.pass, work.ids)
           m0 == [work.m EXCEPT !.active = NoPhase]
<1>1. work \in Submissions /\ work # NoWork /\ work.m \in Manifests /\ work.pass \in 1..2
  BY WorkKinds DEF RBShape, Submit, Submissions, NoWork
<1>2. /\ work.m.phases = manifest.phases /\ work.m.mode = manifest.mode
      /\ work.m.cost = manifest.cost
  BY <1>1 DEF RBShape, MemoryInv, Memory, Submit
<1>3. rows \in SUBSET Items
  BY DEF Rows, RBShape, RBTypeOK
<1>4. m0 \in Manifests /\ m0.phases = work.m.phases /\ m0.mode = work.m.mode /\ m0.cost = work.m.cost
  BY <1>1, ManifestsWith, Zenon DEF Manifests
<1>5. work' = IF rows = {} THEN Advance(m0, work.pass) ELSE Prepared(work, rows)
  BY DEF Submit
<1>6. UNCHANGED <<manifest, reports, undecided, batches, troubles>> /\ work.step # "record"
  BY DEF Submit
<1> HIDE DEF rows, m0
<1>7. CASE rows = {}
  <2>0. work' = Advance(m0, work.pass)
    BY <1>5, <1>7
  <2>1. ASSUME work' = Retry(m0, 2, Everything, 0), work' \in Submissions
        PROVE  work'.m = m0
    BY <2>1 DEF Retry
  <2>2. ASSUME NEW s \in Statuses, work' = [step |-> "save", m |-> [m0 EXCEPT !.active = NoPhase, !.status = s]],
               [m0 EXCEPT !.active = NoPhase, !.status = s] \in Manifests
        PROVE  /\ work' \in [step : {"save"}, m : Manifests]
               /\ work'.m.phases = m0.phases /\ work'.m.mode = m0.mode /\ work'.m.cost = m0.cost
    BY <2>2, <1>4 DEF Manifests
  <2> DEFINE Fine == /\ work' \in Submissions \cup [step : {"save"}, m : Manifests]
                     /\ work'.m.phases = m0.phases /\ work'.m.mode = m0.mode /\ work'.m.cost = m0.cost
  <2>5. Fine
    <3>1. CASE Advance(m0, work.pass) = Retry(m0, 2, Everything, 0) /\ Advance(m0, work.pass) \in Submissions
      BY <3>1, <2>0, <2>1
    <3>2. CASE \E s \in Statuses :
                 /\ Advance(m0, work.pass) = [step |-> "save", m |-> [m0 EXCEPT !.active = NoPhase, !.status = s]]
                 /\ [m0 EXCEPT !.active = NoPhase, !.status = s] \in Manifests
      BY <3>2, <2>0, <2>2, Zenon
    <3> HIDE DEF Fine
    <3> QED BY <3>1, <3>2, <1>1, <1>4, AdvanceGives, Zenon
  <2>3. MemoryInv' /\ work'.step \in {"submit", "save"}
    BY <2>5, <1>2, <1>4, <1>6, NextInMemory
  <2>4. BatchInv'
    BY <2>3, <1>6, BatchesKept DEF RBShape
  <2>6. RBTypeOK'
    BY <2>5, <1>6 DEF RBShape, RBTypeOK
  <2> QED BY <2>3, <2>4, <2>6 DEF RBShape
<1>8. CASE rows # {}
  <2>1. /\ work' \in [step : {"create"}, rows : SUBSET Items, w : Submissions]
        /\ work'.w.m.phases = work.m.phases
        /\ work'.w.m.mode = work.m.mode /\ work'.w.m.cost = work.m.cost
    BY <1>1, <1>3, <1>5, <1>8, PreparedGives
  <2>2. MemoryInv' /\ work'.step = "create"
    BY <2>1, <1>2, <1>6 DEF MemoryInv, Memory
  <2>3. BatchInv'
    BY <2>2, <1>6, BatchesKept DEF RBShape
  <2>4. RBTypeOK'
    BY <2>1, <1>6 DEF RBShape, RBTypeOK
  <2> QED BY <2>2, <2>3, <2>4 DEF RBShape
<1> QED BY <1>7, <1>8

Batches == [ids : SUBSET Items, pass : 1..2,
            state : {"running", "cancelling", "completed", "failed"},
            output : BOOLEAN, good : SUBSET Items]

LEMMA CreateShape ==
  ASSUME RBShape, Create
  PROVE  RBShape'
<1> DEFINE b == [ids |-> work.rows, pass |-> work.w.pass, state |-> "running",
                 output |-> FALSE, good |-> {}]
<1>1. /\ work = [step |-> "create", rows |-> work.rows, w |-> work.w]
      /\ work.rows \in SUBSET Items /\ work.w \in Submissions /\ work # NoWork
  BY WorkKinds DEF RBShape, Create, NoWork
<1>2. work' = [step |-> "record", rows |-> work.rows, w |-> work.w]
  BY <1>1 DEF Create
<1>3. b \in Batches
  BY <1>1 DEF Batches, Submissions
<1>4. batches \in Seq(Batches) /\ batches' = Append(batches, b)
  BY DEF RBShape, RBTypeOK, Create, Batches
<1>5. UNCHANGED <<manifest, reports, undecided, troubles>>
  BY DEF Create
<1> HIDE DEF b
<1>6. /\ batches' \in Seq(Batches) /\ Len(batches') = Len(batches) + 1 /\ Len(batches) \in Nat
      /\ \A k \in 1..Len(batches) : batches'[k] = batches[k]
  BY <1>3, <1>4
<1>7. RBTypeOK'
  BY <1>1, <1>2, <1>5, <1>6 DEF RBShape, RBTypeOK, Batches
<1>8. MemoryInv'
  BY <1>1, <1>2, <1>5 DEF RBShape, MemoryInv, Memory
<1>9. BatchInv'
  <2>1. ASSUME NEW k \in DOMAIN manifest.phases
        PROVE  /\ manifest.phases[k].batch \in 1..Len(batches')
               /\ manifest.phases[k].batch # Len(batches')
               /\ manifest.phases[k].imported => Terminal(batches'[manifest.phases[k].batch])
    BY <1>6 DEF RBShape, BatchInv, Terminal
  <2>2. \A j, k \in DOMAIN manifest.phases :
           manifest.phases[j].batch = manifest.phases[k].batch => j = k
    BY DEF RBShape, BatchInv
  <2> QED BY <2>1, <2>2, <1>2, <1>5, <1>6 DEF BatchInv
<1> QED BY <1>7, <1>8, <1>9 DEF RBShape

\* A manifest with one more phase.
LEMMA RecordedGives ==
  ASSUME NEW w \in Submissions, NEW rows \in SUBSET Items, NEW b \in Nat
  PROVE  LET p == [name |-> <<w.pass, w.retry, w.chunk>>, pass |-> w.pass, retry |-> w.retry,
                   chunk |-> w.chunk, ids |-> rows, batch |-> b,
                   imported |-> FALSE, failed |-> {}, restart |-> FALSE]
             m == Recorded(w, rows, b) IN
         /\ p \in Phases /\ m \in Manifests
         /\ m.phases = Append(w.m.phases, p) /\ w.m.phases \in Seq(Phases)
         /\ m.active = p.name /\ m.status = "submitted"
         /\ m.chunks = NewChunks(w, rows)
         /\ m.mode = w.m.mode /\ m.cost = w.m.cost
<1> DEFINE p == [name |-> <<w.pass, w.retry, w.chunk>>, pass |-> w.pass, retry |-> w.retry,
                 chunk |-> w.chunk, ids |-> rows, batch |-> b,
                 imported |-> FALSE, failed |-> {}, restart |-> FALSE]
           C == [on : BOOLEAN, remaining : Seq(SUBSET Items), failed : SUBSET Items, next : Nat]
<1>1. w.m \in Manifests /\ w.chunk \in Nat /\ w.retry \in Nat /\ w.pass \in 1..2 /\ w.keep \in BOOLEAN
  BY DEF Submissions
<1>2. p \in Phases
  BY <1>1 DEF Phases
<1>3. p.name \in (1..2) \X Nat \X Nat
  BY <1>1
<1>4. w.m.chunks \in C /\ w.m.phases \in Seq(Phases)
  BY <1>1 DEF Manifests
<1>5. NewChunks(w, rows) \in C
  <2>1. \A d \in C, s \in Seq(SUBSET Items), n \in Nat : [d EXCEPT !.remaining = s, !.next = n] \in C
    OBVIOUS
  <2> DEFINE c == w.m.chunks
             r == IF c.remaining # <<>> /\ Head(c.remaining) = rows THEN Tail(c.remaining) ELSE c.remaining
  <2>2. r \in Seq(SUBSET Items)
    BY <1>4
  <2>3. ChunksAfter(c, rows, w.chunk) = [c EXCEPT !.remaining = r, !.next = w.chunk + 1]
    BY <1>4 DEF ChunksAfter
  <2> HIDE DEF r
  <2>4. c \in C /\ w.chunk + 1 \in Nat
    BY <1>1, <1>4
  <2> HIDE DEF c, C
  <2>5. ChunksAfter(c, rows, w.chunk) \in C
    <3>1. [c EXCEPT !.remaining = r, !.next = w.chunk + 1] \in C
      BY <2>1, <2>2, <2>4, Zenon
    <3> QED BY <2>3, <3>1
  <2> QED BY <2>4, <2>5 DEF NewChunks, c
<1>6. Recorded(w, rows, b)
        = [w.m EXCEPT !.phases = Append(w.m.phases, p), !.active = p.name,
                      !.status = "submitted", !.chunks = NewChunks(w, rows)]
  BY <1>1 DEF Recorded, NewChunks, Manifests
<1> HIDE DEF p
<1>7. Append(w.m.phases, p) \in Seq(Phases)
  BY <1>2, <1>4
<1>8. Recorded(w, rows, b) \in Manifests
  BY <1>1, <1>3, <1>5, <1>6, <1>7 DEF Manifests
<1>9. LET m == Recorded(w, rows, b) IN
      /\ m.phases = Append(w.m.phases, p)
      /\ m.active = p.name /\ m.status = "submitted"
      /\ m.chunks = NewChunks(w, rows)
      /\ m.mode = w.m.mode /\ m.cost = w.m.cost
  BY <1>1, <1>6 DEF Manifests
<1> QED BY <1>2, <1>4, <1>8, <1>9 DEF p

LEMMA RecordShape ==
  ASSUME RBShape, Record
  PROVE  RBShape'
<1> DEFINE w == work.w
           b == Len(batches)
           p == [name |-> <<w.pass, w.retry, w.chunk>>, pass |-> w.pass, retry |-> w.retry,
                 chunk |-> w.chunk, ids |-> work.rows, batch |-> b,
                 imported |-> FALSE, failed |-> {}, restart |-> FALSE]
<1>1. work.rows \in SUBSET Items /\ w \in Submissions /\ work # NoWork /\ b \in Nat
  BY WorkKinds DEF RBShape, RBTypeOK, Record, NoWork
<1>2. manifest' = Recorded(w, work.rows, b) /\ work' = NoWork
  BY DEF Record
<1>3. w.m.phases = manifest.phases
  BY <1>1 DEF RBShape, MemoryInv, Memory, Record
<1>4. manifest' \in Manifests /\ manifest'.phases = Append(manifest.phases, p)
      /\ manifest.phases \in Seq(Phases)
  BY <1>1, <1>2, <1>3, RecordedGives, ZenonT(60)
<1>5. UNCHANGED <<reports, undecided, batches, troubles>>
  BY DEF Record
<1>6. RBTypeOK'
  BY <1>2, <1>4, <1>5 DEF RBShape, RBTypeOK
<1>7. MemoryInv'
  BY <1>2 DEF MemoryInv, NoWork
<1>8. BatchInv'
  <2> DEFINE n == Len(manifest.phases)
  <2>1. /\ n \in Nat /\ DOMAIN manifest.phases = 1..n /\ DOMAIN manifest'.phases = 1..(n + 1)
        /\ manifest'.phases[n + 1] = p
        /\ \A k \in 1..n : manifest'.phases[k] = manifest.phases[k]
    <3> HIDE DEF p
    <3> QED BY <1>4
  <2>2. p.batch = b /\ ~p.imported /\ b > 0
    BY DEF RBShape, BatchInv, Record
  <2>3. \A k \in 1..n : /\ manifest.phases[k].batch \in 1..b /\ manifest.phases[k].batch # b
                        /\ manifest.phases[k].imported => Terminal(batches[manifest.phases[k].batch])
    BY <2>1 DEF RBShape, BatchInv, Record
  <2>4. \A j, k \in 1..n : manifest.phases[j].batch = manifest.phases[k].batch => j = k
    BY <2>1 DEF RBShape, BatchInv
  <2>0. \A k \in 1..(n + 1) : k # n + 1 => k \in 1..n
    BY <2>1
  <2>5. ASSUME NEW k \in 1..(n + 1)
        PROVE  /\ manifest'.phases[k].batch \in 1..b
               /\ manifest'.phases[k].imported => Terminal(batches[manifest'.phases[k].batch])
    <3>1. CASE k = n + 1
      <4> HIDE DEF p
      <4> QED BY <3>1, <2>1, <2>2, <1>1
    <3>2. CASE k # n + 1
      <4>1. k \in 1..n
        BY <2>0, <3>2
      <4> HIDE DEF n, p, b
      <4> QED BY <4>1, <2>1, <2>3
    <3> QED BY <3>1, <3>2
  <2>6. ASSUME NEW j \in 1..(n + 1), NEW k \in 1..(n + 1),
               manifest'.phases[j].batch = manifest'.phases[k].batch
        PROVE  j = k
    <3> HIDE DEF n, p, b
    <3>1. CASE j = n + 1 /\ k = n + 1
      BY <3>1
    <3>2. CASE j = n + 1 /\ k # n + 1
      BY <3>2, <2>0, <2>1, <2>2, <2>3, <2>6
    <3>3. CASE j # n + 1 /\ k = n + 1
      BY <3>3, <2>0, <2>1, <2>2, <2>3, <2>6
    <3>4. CASE j # n + 1 /\ k # n + 1
      BY <3>4, <2>0, <2>1, <2>4, <2>6
    <3> QED BY <3>1, <3>2, <3>3, <3>4
  <2> HIDE DEF n, p, b
  <2> QED BY <2>1, <2>5, <2>6, <1>2, <1>5 DEF BatchInv, NoWork, Terminal, b
<1> QED BY <1>6, <1>7, <1>8 DEF RBShape

LEMMA SaveShape ==
  ASSUME RBShape, Save
  PROVE  RBShape'
<1>1. work.m \in Manifests /\ work # NoWork
  BY WorkKinds DEF RBShape, Save, NoWork
<1>2. work.m.phases = manifest.phases
  BY <1>1 DEF RBShape, MemoryInv, Memory, Save
<1>3. RBTypeOK'
  BY <1>1 DEF RBShape, RBTypeOK, Save
<1>4. MemoryInv'
  BY DEF MemoryInv, NoWork, Save
<1>5. BatchInv'
  BY <1>2, BatchesKept DEF RBShape, Save, NoWork
<1> QED BY <1>3, <1>4, <1>5 DEF RBShape

LEMMA ReopenedGives ==
  ASSUME NEW m \in Manifests
  PROVE  /\ Reopened(m) \in Manifests /\ Reopened(m).phases = m.phases
         /\ Reopened(m).mode = m.mode /\ Reopened(m).cost = m.cost
<1> DEFINE I == {i \in 1..Len(m.phases) : m.phases[i].chunk # 0}
           a == IF m.active # NoPhase \/ LastChunk(m) = 0 THEN m.active ELSE m.phases[LastChunk(m)].name
<1>1. m.phases \in Seq(Phases) /\ Len(m.phases) \in Nat
  BY DEF Manifests
<1>2. LastChunk(m) = IF I # {} THEN Max(I) ELSE 0
  BY DEF LastChunk, SelectLastInSeq
<1>3. ASSUME I # {} PROVE Max(I) \in I
  <2>1. \E x \in I : \A y \in I : y <= x
    <3>1. I \subseteq Nat /\ \A y \in I : y <= Len(m.phases)
      BY <1>1
    <3> HIDE DEF I
    <3> QED BY <1>1, <1>3, <3>1, GreatestExists
  <2>2. \E x \in I : \A y \in I : x >= y
    BY <2>1
  <2> HIDE DEF I
  <2> QED BY <2>2 DEF Max
<1>4. LastChunk(m) # 0 => LastChunk(m) \in 1..Len(m.phases)
  BY <1>2, <1>3
<1>5. a \in ((1..2) \X Nat \X Nat) \cup {NoPhase}
  BY <1>1, <1>4, SMTT(30) DEF Manifests, Phases
<1>6. Reopened(m) = m \/ Reopened(m) = [m EXCEPT !.status = "running", !.active = a]
  BY DEF Reopened, Manifests
<1> HIDE DEF a
<1> QED BY <1>5, <1>6 DEF Manifests

LEMMA SyncedGives ==
  ASSUME NEW m \in Manifests, NEW b \in Batches
  PROVE  /\ Synced(m, b) \in Manifests /\ Synced(m, b).phases = m.phases
         /\ Synced(m, b).mode = m.mode /\ Synced(m, b).cost = m.cost
         /\ Synced(m, b).active = m.active /\ Synced(m, b).chunks = m.chunks
         /\ Synced(m, b).status = IF Terminal(b) THEN b.state ELSE "running"
<1> DEFINE s == IF Terminal(b) THEN b.state ELSE "running"
<1>1. s \in Statuses
  BY DEF Terminal, Statuses, Settled
<1>2. Synced(m, b) = [m EXCEPT !.status = s]
  BY DEF Synced
<1> HIDE DEF s
<1>3. [m EXCEPT !.status = s] \in Manifests
  BY <1>1, ManifestsWith, Zenon
<1> QED BY <1>2, <1>3 DEF Manifests, s

SamePhase(p, q) ==
  /\ p.name = q.name /\ p.pass = q.pass /\ p.retry = q.retry /\ p.chunk = q.chunk
  /\ p.ids = q.ids /\ p.batch = q.batch /\ p.restart = q.restart

WithFailed(s, k, F) == [s EXCEPT ![k].failed = F]
WithImported(s, k) == [s EXCEPT ![k].imported = TRUE]

LEMMA FailedChanged ==
  ASSUME NEW s \in Seq(Phases), NEW k \in DOMAIN s, NEW F \in SUBSET Items,
         NEW t, t = WithFailed(s, k, F)
  PROVE  /\ DOMAIN t = DOMAIN s /\ Len(t) = Len(s)
         /\ t[k].failed = F
         /\ \A j \in DOMAIN s :
              /\ SamePhase(t[j], s[j]) /\ t[j].imported = s[j].imported
              /\ t[j].failed = IF j = k THEN F ELSE s[j].failed
<1> DEFINE q == [s[k] EXCEPT !.failed = F]
<1>1. DOMAIN t = DOMAIN s /\ Len(t) = Len(s)
  BY DEF WithFailed, WithImported
<1>2. \A j \in DOMAIN s : t[j] = IF j = k THEN q ELSE s[j]
  BY DEF WithFailed, WithImported
<1>3. s[k] \in Phases
  OBVIOUS
<1>4. SamePhase(q, s[k]) /\ q.imported = s[k].imported /\ q.failed = F
  BY <1>3 DEF Phases, SamePhase
<1>5. \A j \in DOMAIN s : SamePhase(s[j], s[j])
  BY DEF SamePhase
<1> HIDE DEF q
<1> QED BY <1>1, <1>2, <1>4, <1>5

LEMMA ImportedChanged ==
  ASSUME NEW s \in Seq(Phases), NEW k \in DOMAIN s, NEW t, t = WithImported(s, k)
  PROVE  /\ DOMAIN t = DOMAIN s /\ Len(t) = Len(s)
         /\ t[k].imported
         /\ \A j \in DOMAIN s :
              /\ SamePhase(t[j], s[j]) /\ t[j].failed = s[j].failed
              /\ (t[j].imported <=> (s[j].imported \/ j = k))
<1> DEFINE q == [s[k] EXCEPT !.imported = TRUE]
<1>1. DOMAIN t = DOMAIN s /\ Len(t) = Len(s)
  BY DEF WithFailed, WithImported
<1>2. \A j \in DOMAIN s : t[j] = IF j = k THEN q ELSE s[j]
  BY DEF WithFailed, WithImported
<1>3. s[k] \in Phases
  OBVIOUS
<1>4. SamePhase(q, s[k]) /\ q.failed = s[k].failed /\ q.imported
  BY <1>3 DEF Phases, SamePhase
<1>5. \A j \in DOMAIN s : SamePhase(s[j], s[j])
  BY DEF SamePhase
<1> HIDE DEF q
<1> QED BY <1>1, <1>2, <1>4, <1>5

LEMMA SyncShape ==
  ASSUME RBShape, Sync
  PROVE  RBShape'
<1> DEFINE m == Reopened(manifest)
           k == Active(m)
           phase == m.phases[k]
           batch == batches[phase.batch]
           synced == Synced(m, batch)
<1>1. /\ m \in Manifests /\ m.phases = manifest.phases
      /\ m.mode = manifest.mode /\ m.cost = manifest.cost
  BY ReopenedGives DEF RBShape, RBTypeOK
<1>2. k # 0 /\ work = NoWork /\ UNCHANGED <<reports, undecided, batches, troubles>>
  BY Zenon DEF Sync
<1>3. k \in DOMAIN manifest.phases /\ k \in DOMAIN m.phases /\ k \in Nat /\ phase = manifest.phases[k]
  <2>1. m.phases \in Seq(Phases)
    BY <1>1 DEF Manifests
  <2> HIDE DEF m, k
  <2>2. k \in 1..Len(m.phases)
    BY <1>1, <1>2, ActiveOf DEF k
  <2> QED BY <1>1, <2>1, <2>2
<1>4. phase \in Phases
  BY <1>1, <1>3, PhasesWith
<1>5. batch \in Batches
  <2>1. phase.batch \in 1..Len(batches)
    BY <1>3 DEF RBShape, BatchInv
  <2>2. batches \in Seq(Batches)
    BY DEF RBShape, RBTypeOK, Batches
  <2> HIDE DEF phase
  <2> QED BY <2>1, <2>2
<1>6. /\ synced \in Manifests /\ synced.phases = manifest.phases
      /\ synced.mode = manifest.mode /\ synced.cost = manifest.cost
  BY <1>1, <1>5, SyncedGives
<1> DEFINE Waiting1 == /\ ~Terminal(batch)
                       /\ manifest' = synced
                       /\ UNCHANGED work
           Failed1 == /\ batch.state = "failed" /\ ~batch.output
                      /\ manifest' = IF phase.restart
                                     THEN [synced EXCEPT !.phases[k].failed = phase.ids]
                                     ELSE synced
                      /\ work' = IF phase.restart
                                 THEN Retry(manifest', phase.pass, phase.ids, phase.retry) ELSE NoWork
           Ended1 == /\ batch.state = "completed" \/ (batch.state = "failed" /\ batch.output)
                     /\ work' = [step |-> IF phase.imported THEN "decide" ELSE "import",
                                 m |-> synced, k |-> k]
                     /\ UNCHANGED manifest
<1>7. Waiting1 \/ Failed1 \/ Ended1
  BY Zenon DEF Sync
<1> HIDE DEF m, k, phase, batch, synced
<1>8. CASE manifest' = synced /\ work' = NoWork
  <2>1. RBTypeOK'
    BY <1>2, <1>6, <1>8 DEF RBShape, RBTypeOK
  <2>2. MemoryInv'
    BY <1>8 DEF MemoryInv, NoWork
  <2>3. BatchInv'
    BY <1>2, <1>6, <1>8, BatchesKept DEF RBShape, NoWork
  <2> QED BY <2>1, <2>2, <2>3 DEF RBShape
<1>9. CASE Failed1 /\ phase.restart
  <2> DEFINE n == [synced EXCEPT !.phases[k].failed = phase.ids]
  <2>1. phase.ids \in SUBSET Items /\ phase.pass \in 1..2 /\ phase.retry \in Nat
    BY <1>4 DEF Phases
  <2>2. n \in Manifests
    BY <1>3, <1>6, <2>1, PhasesWith
  <2>3. /\ n.mode = synced.mode /\ n.cost = synced.cost
        /\ DOMAIN n.phases = DOMAIN manifest.phases
        /\ \A j \in DOMAIN manifest.phases : /\ n.phases[j].batch = manifest.phases[j].batch
                                             /\ n.phases[j].imported = manifest.phases[j].imported
    <3>1. n.phases = [manifest.phases EXCEPT ![k].failed = phase.ids]
      BY <1>6 DEF Manifests
    <3>4. n.phases = WithFailed(manifest.phases, k, phase.ids)
      BY <3>1 DEF WithFailed
    <3>2. n.mode = synced.mode /\ n.cost = synced.cost
      BY <1>6 DEF Manifests
    <3>3. manifest.phases \in Seq(Phases)
      BY DEF RBShape, RBTypeOK, Manifests
    <3> HIDE DEF n
    <3> QED BY <1>3, <2>1, <3>2, <3>3, <3>4, FailedChanged DEF SamePhase
  <2>4. manifest' = n /\ work' = Retry(n, phase.pass, phase.ids, phase.retry)
    BY <1>9
  <2> HIDE DEF n
  <2>5. work' \in Submissions /\ work'.m = n
    BY <2>1, <2>2, <2>4, RetryIsSubmission DEF Retry
  <2>6. MemoryInv' /\ work'.step \in {"submit", "save"}
    BY <2>4, <2>5, NextInMemory
  <2>7. BatchInv'
    BY <1>2, <2>3, <2>4, <2>6, BatchesKept DEF RBShape
  <2>8. RBTypeOK'
    BY <1>2, <2>2, <2>4, <2>5 DEF RBShape, RBTypeOK
  <2> QED BY <2>6, <2>7, <2>8 DEF RBShape
<1>10. CASE Ended1
  <2>1. /\ work'.step \in {"import", "decide"} /\ work'.m = synced /\ work'.k = k
        /\ work'.step = "import" => ~phase.imported
        /\ work' \in [step : {"import", "mark", "decide"}, m : Manifests, k : Nat]
    BY <1>3, <1>6, <1>10
  <2>2. RBTypeOK'
    BY <1>2, <1>10, <2>1 DEF RBShape, RBTypeOK
  <2>3. MemoryInv'
    BY <1>3, <1>6, <1>10, <2>1 DEF MemoryInv, Memory
  <2>4. Terminal(batch)
    BY <1>10 DEF Terminal
  <2>5. BatchInv'
    BY <1>2, <1>3, <1>10, <2>1, <2>4 DEF RBShape, BatchInv, Terminal, batch
  <2> QED BY <2>2, <2>3, <2>5 DEF RBShape
<1> QED BY <1>2, <1>7, <1>8, <1>9, <1>10

\* What the worker holds while it brings in the results of a phase.
LEMMA ResultsHeld ==
  ASSUME RBShape, work.step \in {"import", "mark", "decide"}
  PROVE  /\ work = [step |-> work.step, m |-> work.m, k |-> work.k] /\ work # NoWork
         /\ work.m \in Manifests /\ work.k \in DOMAIN work.m.phases /\ work.k \in Nat
         /\ work.k \in DOMAIN manifest.phases
         /\ manifest \in Manifests /\ manifest.phases \in Seq(Phases) /\ work.m.phases \in Seq(Phases)
         /\ work.m.phases[work.k] \in Phases
         /\ work.m.mode = manifest.mode /\ work.m.cost = manifest.cost
         /\ DOMAIN work.m.phases = DOMAIN manifest.phases
         /\ \A j \in DOMAIN manifest.phases :
              /\ SamePhase(work.m.phases[j], manifest.phases[j])
              /\ work.m.phases[j].imported = manifest.phases[j].imported
         /\ work.step # "mark" => work.m.phases = manifest.phases
         /\ work.m.phases[work.k].batch \in 1..Len(batches)
         /\ batches[work.m.phases[work.k].batch] \in Batches
         /\ manifest.phases[work.k].batch = work.m.phases[work.k].batch
<1>1. /\ work = [step |-> work.step, m |-> work.m, k |-> work.k] /\ work # NoWork
      /\ work.m \in Manifests /\ work.k \in DOMAIN work.m.phases /\ work.k \in Nat
  BY WorkKinds DEF RBShape, MemoryInv, NoWork
<1>2. /\ work.m.mode = manifest.mode /\ work.m.cost = manifest.cost
      /\ work.step # "mark" => work.m.phases = manifest.phases
      /\ work.step = "mark" => work.m.phases = [manifest.phases EXCEPT ![work.k].failed = work.m.phases[work.k].failed]
  BY <1>1 DEF RBShape, MemoryInv, Memory, InMemory
<1>3. manifest \in Manifests /\ manifest.phases \in Seq(Phases) /\ work.m.phases \in Seq(Phases)
      /\ work.m.phases[work.k] \in Phases
  BY <1>1 DEF RBShape, RBTypeOK, Manifests
<1>4. work.m.phases[work.k].failed \in SUBSET Items
  BY <1>3 DEF Phases
<1>5. DOMAIN work.m.phases = DOMAIN manifest.phases
  BY <1>2, <1>3
<1>6. \A j \in DOMAIN manifest.phases :
         /\ SamePhase(work.m.phases[j], manifest.phases[j])
         /\ work.m.phases[j].imported = manifest.phases[j].imported
  <2>1. CASE work.step # "mark"
    BY <2>1, <1>2 DEF SamePhase
  <2>2. CASE work.step = "mark"
    <3>1. work.m.phases = [manifest.phases EXCEPT ![work.k].failed = work.m.phases[work.k].failed]
          /\ work.k \in DOMAIN manifest.phases
      BY <2>2, <1>1, <1>2, <1>5
    <3>2. work.m.phases = WithFailed(manifest.phases, work.k, work.m.phases[work.k].failed)
      BY <3>1 DEF WithFailed
    <3> QED BY <3>1, <3>2, <1>3, <1>4, FailedChanged
  <2> QED BY <2>1, <2>2
<1>7. manifest.phases[work.k].batch = work.m.phases[work.k].batch /\ work.k \in DOMAIN manifest.phases
  BY <1>1, <1>5, <1>6 DEF SamePhase
<1>8. work.m.phases[work.k].batch \in 1..Len(batches)
  BY <1>7 DEF RBShape, BatchInv
<1>9. batches[work.m.phases[work.k].batch] \in Batches
  <2>1. batches \in Seq(Batches)
    BY DEF RBShape, RBTypeOK, Batches
  <2> QED BY <1>8, <2>1
<1> QED BY <1>1, <1>2, <1>3, <1>5, <1>6, <1>7, <1>8, <1>9

LEMMA ImportGives ==
  ASSUME RBShape, Import
  PROVE  \E F \in SUBSET work.m.phases[work.k].ids :
           /\ work' = [step |-> "mark", m |-> [work.m EXCEPT !.phases[work.k].failed = F], k |-> work.k]
           /\ [work.m EXCEPT !.phases[work.k].failed = F] \in Manifests
           /\ work'.m.phases = [manifest.phases EXCEPT ![work.k].failed = F]
           /\ work'.m.mode = work.m.mode /\ work'.m.cost = work.m.cost
           /\ work'.m.chunks = work.m.chunks /\ work'.m.status = work.m.status
           /\ work'.m.active = work.m.active
           /\ F = work.m.phases[work.k].ids \ (IF work.m.mode = "test" THEN batches[work.m.phases[work.k].batch].good
                     ELSE batches[work.m.phases[work.k].batch].good \intersect undecided)
<1> DEFINE phase == work.m.phases[work.k]
           good == batches[phase.batch].good
           F == phase.ids \ (IF work.m.mode = "test" THEN good ELSE good \intersect undecided)
           n == [work.m EXCEPT !.phases[work.k].failed = F]
<1>1. work.step = "import" /\ work' = [work EXCEPT !.step = "mark", !.m.phases[work.k].failed = F]
  BY Zenon DEF Import
<1>2. /\ work = [step |-> work.step, m |-> work.m, k |-> work.k]
      /\ work.m \in Manifests /\ work.k \in DOMAIN work.m.phases
      /\ phase \in Phases /\ work.m.phases = manifest.phases
  BY <1>1, ResultsHeld
<1>3. F \in SUBSET phase.ids /\ F \in SUBSET Items
  BY <1>2 DEF Phases
<1>4. work' = [step |-> "mark", m |-> n, k |-> work.k]
  <2> HIDE DEF F
  <2> QED BY <1>1, <1>2
<1>5. n \in Manifests
  <2> HIDE DEF F
  <2> QED BY <1>2, <1>3, PhasesWith
<1>6. /\ n.phases = [work.m.phases EXCEPT ![work.k].failed = F]
      /\ n.mode = work.m.mode /\ n.cost = work.m.cost /\ n.chunks = work.m.chunks
      /\ n.status = work.m.status /\ n.active = work.m.active
  <2> HIDE DEF F
  <2> QED BY <1>2 DEF Manifests
<1>7. work'.m = n
  BY <1>4, Zenon
<1>8. F = work.m.phases[work.k].ids \ (IF work.m.mode = "test" THEN batches[work.m.phases[work.k].batch].good
                     ELSE batches[work.m.phases[work.k].batch].good \intersect undecided)
  OBVIOUS
<1> HIDE DEF F
<1> QED BY <1>2, <1>3, <1>4, <1>5, <1>6, <1>7, <1>8, Zenon

LEMMA ImportShape ==
  ASSUME RBShape, Import
  PROVE  RBShape'
<1>1. PICK F \in SUBSET work.m.phases[work.k].ids :
           /\ work' = [step |-> "mark", m |-> [work.m EXCEPT !.phases[work.k].failed = F], k |-> work.k]
           /\ [work.m EXCEPT !.phases[work.k].failed = F] \in Manifests
           /\ work'.m.phases = [manifest.phases EXCEPT ![work.k].failed = F]
           /\ work'.m.mode = work.m.mode /\ work'.m.cost = work.m.cost
  BY ImportGives, Zenon
<1>2. UNCHANGED <<manifest, undecided, batches, troubles>> /\ work.step = "import"
  BY Zenon DEF Import
<1>3. /\ work.m.mode = manifest.mode /\ work.m.cost = manifest.cost
      /\ work.k \in DOMAIN manifest.phases /\ work.k \in Nat
      /\ manifest.phases \in Seq(Phases) /\ work.m.phases[work.k] \in Phases
  BY <1>2, ResultsHeld
<1>4. F \in SUBSET Items
  BY <1>3 DEF Phases
<1>5. /\ work'.k = work.k /\ work'.step = "mark" /\ work' # NoWork
      /\ work' \in [step : {"import", "mark", "decide"}, m : Manifests, k : Nat]
  BY <1>1, <1>3 DEF NoWork
<1>6. DOMAIN work'.m.phases = DOMAIN manifest.phases /\ work'.m.phases[work.k].failed = F
  <2>1. work'.m.phases = WithFailed(manifest.phases, work.k, F)
    BY <1>1 DEF WithFailed
  <2> QED BY <2>1, <1>3, <1>4, FailedChanged
<1>7. reports' \in [1..2 -> [Items -> {"none", "approve", "other"}]]
  <2>1. reports \in [1..2 -> [Items -> {"none", "approve", "other"}]] /\ work.m.phases[work.k].pass \in 1..2
    BY <1>3, Zenon DEF RBShape, RBTypeOK, Phases
  <2> DEFINE phase == work.m.phases[work.k]
             good == batches[phase.batch].good
  <2>2. PICK yes \in SUBSET (good \intersect undecided \intersect Light) :
            reports' = IF work.m.mode = "test" THEN reports
                ELSE [reports EXCEPT ![phase.pass] = [i \in Items |->
                        IF i \in good \intersect undecided
                        THEN (IF i \in yes THEN "approve" ELSE "other") ELSE reports[phase.pass][i]]]
    BY Zenon DEF Import
  <2> DEFINE column == [i \in Items |->
                        IF i \in good \intersect undecided
                        THEN (IF i \in yes THEN "approve" ELSE "other") ELSE reports[phase.pass][i]]
  <2>3. column \in [Items -> {"none", "approve", "other"}]
    BY <2>1
  <2> HIDE DEF column
  <2> QED BY <2>1, <2>2, <2>3, Zenon DEF column
<1>8. RBTypeOK'
  BY <1>2, <1>5, <1>7 DEF RBShape, RBTypeOK
<1>9. MemoryInv'
  <2>1. work'.step \notin {"create", "record"} /\ work'.k \in DOMAIN work'.m.phases
    BY <1>3, <1>5, <1>6
  <2>2. work'.m.phases = [manifest'.phases EXCEPT ![work'.k].failed = work'.m.phases[work'.k].failed]
    BY <1>1, <1>2, <1>5, <1>6
  <2> QED BY <2>1, <2>2, <1>1, <1>2, <1>3, <1>5 DEF MemoryInv, Memory, InMemory
<1>10. BatchInv'
  BY <1>2, <1>5 DEF RBShape, BatchInv, Terminal
<1> QED BY <1>8, <1>9, <1>10 DEF RBShape

LEMMA MarkGives ==
  ASSUME RBShape, Mark
  PROVE  LET b == batches[work.m.phases[work.k].batch]
             c == IF work.m.mode = "test" THEN work.m.cost ELSE work.m.cost + Usage(b) IN
         /\ manifest' \in Manifests
         /\ manifest'.phases = [work.m.phases EXCEPT ![work.k].imported = TRUE]
         /\ manifest'.mode = work.m.mode /\ manifest'.cost = c /\ Usage(b) \in Nat
         /\ manifest'.chunks = work.m.chunks /\ manifest'.status = work.m.status
         /\ manifest'.active = work.m.active
         /\ work' = [step |-> "decide", m |-> manifest', k |-> work.k]
<1> DEFINE b == batches[work.m.phases[work.k].batch]
           c == IF work.m.mode = "test" THEN work.m.cost ELSE work.m.cost + Usage(b)
           n == [work.m EXCEPT !.phases[work.k].imported = TRUE]
<1>1. work.step = "mark" /\ manifest' = Marked(work.m, work.k)
      /\ work' = [work EXCEPT !.step = "decide", !.m = manifest']
  BY DEF Mark
<1>2. /\ work = [step |-> work.step, m |-> work.m, k |-> work.k]
      /\ work.m \in Manifests /\ work.k \in DOMAIN work.m.phases /\ b \in Batches
  BY <1>1, ResultsHeld
<1>3. Usage(b) \in Nat
  BY <1>2, ReviewAssumption DEF Usage, Batches
<1>4. c \in Nat
  BY <1>2, <1>3 DEF Manifests
<1>5. n \in Manifests
  BY <1>2, PhasesWith
<1>6. manifest' = [n EXCEPT !.cost = c]
  BY <1>1, <1>2 DEF Marked, Manifests
<1>7. /\ n.phases = [work.m.phases EXCEPT ![work.k].imported = TRUE]
      /\ n.mode = work.m.mode /\ n.chunks = work.m.chunks /\ n.status = work.m.status
      /\ n.active = work.m.active
  BY <1>2 DEF Manifests
<1> HIDE DEF n, c
<1>8. /\ manifest' \in Manifests
      /\ manifest'.phases = n.phases /\ manifest'.mode = n.mode /\ manifest'.cost = c
      /\ manifest'.chunks = n.chunks /\ manifest'.status = n.status /\ manifest'.active = n.active
  BY <1>4, <1>5, <1>6 DEF Manifests
<1>9. work' = [step |-> "decide", m |-> manifest', k |-> work.k]
  BY <1>1, <1>2
<1> QED BY <1>3, <1>7, <1>8, <1>9 DEF c

LEMMA MarkShape ==
  ASSUME RBShape, Mark
  PROVE  RBShape'
<1>1. UNCHANGED <<reports, undecided, batches, troubles>> /\ work.step = "mark"
  BY DEF Mark
<1>2. /\ manifest' \in Manifests
      /\ manifest'.phases = [work.m.phases EXCEPT ![work.k].imported = TRUE]
      /\ work' = [step |-> "decide", m |-> manifest', k |-> work.k]
  BY MarkGives
<1>3. /\ work.k \in DOMAIN work.m.phases /\ work.k \in Nat /\ work.m.phases \in Seq(Phases)
      /\ DOMAIN work.m.phases = DOMAIN manifest.phases
      /\ \A j \in DOMAIN manifest.phases :
           /\ SamePhase(work.m.phases[j], manifest.phases[j])
           /\ work.m.phases[j].imported = manifest.phases[j].imported
  BY <1>1, ResultsHeld
<1>4. /\ DOMAIN manifest'.phases = DOMAIN manifest.phases
      /\ \A j \in DOMAIN manifest.phases :
           /\ SamePhase(manifest'.phases[j], work.m.phases[j])
           /\ (manifest'.phases[j].imported <=> (work.m.phases[j].imported \/ j = work.k))
  <2>1. manifest'.phases = WithImported(work.m.phases, work.k)
    BY <1>2 DEF WithImported
  <2> QED BY <2>1, <1>3, ImportedChanged
<1>5. Terminal(batches[manifest.phases[work.k].batch])
  BY <1>1 DEF RBShape, BatchInv
<1>6. work' \in [step : {"import", "mark", "decide"}, m : Manifests, k : Nat] /\ work' # NoWork
      /\ work'.step = "decide" /\ work'.m = manifest' /\ work'.k = work.k
  BY <1>2, <1>3 DEF NoWork
<1>7. BatchInv'
  <2>1. \A j \in DOMAIN manifest.phases :
            /\ manifest'.phases[j].batch = manifest.phases[j].batch
            /\ manifest'.phases[j].imported => \/ manifest.phases[j].imported
                                              \/ Terminal(batches[manifest.phases[j].batch])
    BY <1>3, <1>4, <1>5 DEF SamePhase
  <2> QED BY <2>1, <1>1, <1>4, <1>6, BatchesKept DEF RBShape
<1>8. MemoryInv'
  BY <1>3, <1>4, <1>6 DEF MemoryInv, Memory
<1>9. RBTypeOK'
  BY <1>1, <1>2, <1>6 DEF RBShape, RBTypeOK
<1> QED BY <1>7, <1>8, <1>9 DEF RBShape

LEMMA AdvanceHolds ==
  ASSUME NEW m \in Manifests, NEW pass \in 1..2
  PROVE  /\ Advance(m, pass) \in Submissions \cup [step : {"save"}, m : Manifests]
         /\ Advance(m, pass).m.phases = m.phases /\ Advance(m, pass).m.mode = m.mode
         /\ Advance(m, pass).m.cost = m.cost
<1>1. ASSUME Advance(m, pass) = Retry(m, 2, Everything, 0)
      PROVE  Advance(m, pass).m = m
  BY <1>1 DEF Retry
<1>2. ASSUME NEW s \in Statuses,
             Advance(m, pass) = [step |-> "save", m |-> [m EXCEPT !.active = NoPhase, !.status = s]]
      PROVE  /\ Advance(m, pass).m.phases = m.phases /\ Advance(m, pass).m.mode = m.mode
             /\ Advance(m, pass).m.cost = m.cost
  <2> DEFINE n == [m EXCEPT !.active = NoPhase, !.status = s]
  <2>1. n.phases = m.phases /\ n.mode = m.mode /\ n.cost = m.cost
    BY DEF Manifests
  <2> HIDE DEF n
  <2>2. Advance(m, pass) = [step |-> "save", m |-> n]
    BY <1>2 DEF n
  <2>3. Advance(m, pass).m = n
    BY <2>2
  <2> QED BY <2>1, <2>3
<1>3. CASE Advance(m, pass) = Retry(m, 2, Everything, 0) /\ Advance(m, pass) \in Submissions
  BY <1>1, <1>3
<1>4. ASSUME NEW s \in Statuses,
             Advance(m, pass) = [step |-> "save", m |-> [m EXCEPT !.active = NoPhase, !.status = s]],
             [m EXCEPT !.active = NoPhase, !.status = s] \in Manifests
      PROVE  Advance(m, pass) \in [step : {"save"}, m : Manifests]
  BY <1>4
<1> QED BY <1>2, <1>3, <1>4, AdvanceGives, ZenonT(60)

LEMMA AfterPhaseGives ==
  ASSUME NEW m \in Manifests, NEW phase \in Phases, NEW F \in SUBSET Items
  PROVE  /\ \/ /\ F # {} /\ phase.retry < RETRIES
               /\ AfterPhase(m, phase, F) = Retry(m, phase.pass, F, phase.retry + 1)
            \/ /\ F = {} \/ ~(phase.retry < RETRIES)
               /\ AfterPhase(m, phase, F) = Advance([m EXCEPT !.active = NoPhase], phase.pass)
         /\ AfterPhase(m, phase, F) \in Submissions \cup [step : {"save"}, m : Manifests]
         /\ AfterPhase(m, phase, F).m.phases = m.phases /\ AfterPhase(m, phase, F).m.mode = m.mode
         /\ AfterPhase(m, phase, F).m.cost = m.cost
<1> DEFINE n == [m EXCEPT !.active = NoPhase]
<1>1. phase.pass \in 1..2 /\ phase.retry \in Nat
  BY DEF Phases
<1>2. n \in Manifests /\ n.phases = m.phases /\ n.mode = m.mode /\ n.cost = m.cost
  BY ManifestsWith, Zenon DEF Manifests
<1>3. CASE F # {} /\ phase.retry < RETRIES
  <2>1. AfterPhase(m, phase, F) = Retry(m, phase.pass, F, phase.retry + 1)
    BY <1>3 DEF AfterPhase
  <2>2. Retry(m, phase.pass, F, phase.retry + 1) \in Submissions
    BY <1>1, RetryIsSubmission
  <2>3. Retry(m, phase.pass, F, phase.retry + 1).m = m
    BY DEF Retry
  <2> QED BY <1>3, <2>1, <2>2, <2>3
<1>4. CASE ~(F # {} /\ phase.retry < RETRIES)
  <2>1. AfterPhase(m, phase, F) = Advance(n, phase.pass)
    BY <1>4 DEF AfterPhase
  <2> HIDE DEF n
  <2>2. /\ Advance(n, phase.pass) \in Submissions \cup [step : {"save"}, m : Manifests]
        /\ Advance(n, phase.pass).m.phases = n.phases /\ Advance(n, phase.pass).m.mode = n.mode
        /\ Advance(n, phase.pass).m.cost = n.cost
    BY <1>1, <1>2, AdvanceHolds
  <2> QED BY <1>2, <1>4, <2>1, <2>2 DEF n
<1> QED BY <1>3, <1>4

\* The worker has the verdict on a phase: what it then writes and does.
LEMMA DecideGives ==
  ASSUME RBShape, Decide
  PROVE  LET m == work.m
             phase == m.phases[work.k]
             F == m.chunks.failed \union phase.failed
             collected == [m EXCEPT !.chunks.failed = F] IN
         \/ /\ manifest' = [m EXCEPT !.status = "failed", !.active = NoPhase] /\ work' = NoWork
         \/ /\ phase.chunk # 0 /\ m.chunks.on /\ m.chunks.remaining # <<>>
            /\ manifest' = collected /\ work' = NextChunk(collected, phase)
         \/ /\ phase.chunk # 0 /\ m.chunks.on /\ m.chunks.remaining = <<>>
            /\ manifest' = [m EXCEPT !.chunks = NoChunks]
            /\ work' = AfterPhase([m EXCEPT !.chunks = NoChunks], phase, F)
         \/ /\ ~(phase.chunk # 0 /\ m.chunks.on) /\ phase.restart /\ phase.failed # {}
            /\ manifest' = m /\ work' = Retry(m, phase.pass, phase.failed, phase.retry)
         \/ /\ ~(phase.chunk # 0 /\ m.chunks.on)
            /\ manifest' = m /\ work' = AfterPhase(m, phase, phase.failed)
BY DEF Decide, FailedSoFar

LEMMA DecideShape ==
  ASSUME RBShape, Decide
  PROVE  RBShape'
<1> DEFINE m == work.m
           phase == m.phases[work.k]
           F == m.chunks.failed \union phase.failed
           collected == [m EXCEPT !.chunks.failed = F]
<1>1. /\ m \in Manifests /\ phase \in Phases /\ m.phases = manifest.phases
      /\ m.mode = manifest.mode /\ m.cost = manifest.cost
      /\ UNCHANGED <<reports, undecided, batches, troubles>> /\ work.step = "decide"
  BY ResultsHeld DEF Decide
<1>2. F \in SUBSET Items /\ phase.failed \in SUBSET Items /\ phase.retry \in Nat /\ phase.pass \in 1..2
  BY <1>1 DEF Manifests, Phases
<1> DEFINE Fits(n) == n \in Manifests /\ n.phases = m.phases /\ n.mode = m.mode /\ n.cost = m.cost
           Fine(w) == w \in Submissions \cup [step : {"save"}, m : Manifests] /\ Fits(w.m)
<1>3. Fits(collected) /\ collected.chunks.remaining = m.chunks.remaining
  <2> HIDE DEF m, phase, F
  <2> QED BY <1>1, <1>2, ManifestsWith, Zenon DEF Manifests
<1>4. Fits([m EXCEPT !.chunks = NoChunks])
  <2> HIDE DEF m, phase
  <2> QED BY <1>1, ManifestsWith, Zenon DEF Manifests
<1>5. Fits([m EXCEPT !.status = "failed", !.active = NoPhase])
  <2>1. "failed" \in Statuses
    BY DEF Statuses, Settled
  <2> HIDE DEF m, phase
  <2> QED BY <1>1, <2>1, ManifestsWith, Zenon DEF Manifests
<1>6. ASSUME NEW n, Fits(n), NEW S \in SUBSET Items PROVE Fine(AfterPhase(n, phase, S))
  <2> HIDE DEF m, phase
  <2>1. /\ AfterPhase(n, phase, S) \in Submissions \cup [step : {"save"}, m : Manifests]
        /\ AfterPhase(n, phase, S).m.phases = n.phases /\ AfterPhase(n, phase, S).m.mode = n.mode
        /\ AfterPhase(n, phase, S).m.cost = n.cost
    BY <1>1, <1>6, AfterPhaseGives
  <2>2. AfterPhase(n, phase, S).m \in Manifests
    BY <2>1 DEF Submissions
  <2> QED BY <1>6, <2>1, <2>2
<1>7. m.chunks.remaining # <<>> => Fine(NextChunk(collected, phase))
  <2>1. SUFFICES ASSUME m.chunks.remaining # <<>> PROVE Fine(NextChunk(collected, phase))
    OBVIOUS
  <2>2. collected.chunks.next \in Nat /\ Head(collected.chunks.remaining) \in SUBSET Items
    <3>1. collected.chunks.remaining \in Seq(SUBSET Items) /\ collected.chunks.next \in Nat
      <4> HIDE DEF collected
      <4> QED BY <1>3 DEF Manifests
    <3> HIDE DEF collected, m
    <3> QED BY <1>3, <2>1, <3>1
  <2> HIDE DEF collected, m, phase
  <2>3. NextChunk(collected, phase) \in Submissions /\ NextChunk(collected, phase).m = collected
    BY <1>2, <1>3, <2>2 DEF NextChunk, Submissions
  <2> QED BY <1>3, <2>3
<1>8. phase.failed \in SUBSET Items => Fine(Retry(m, phase.pass, phase.failed, phase.retry))
  <2> HIDE DEF m, phase
  <2>1. /\ Retry(m, phase.pass, phase.failed, phase.retry) \in Submissions
        /\ Retry(m, phase.pass, phase.failed, phase.retry).m = m
    BY <1>1, <1>2, RetryIsSubmission DEF Retry
  <2> QED BY <1>1, <2>1
<1>9. Fits(manifest') /\ (work' = NoWork \/ Fine(work'))
  <2>1. Fits(m)
    BY <1>1
  <2>2. \/ /\ manifest' = [m EXCEPT !.status = "failed", !.active = NoPhase] /\ work' = NoWork
        \/ /\ m.chunks.remaining # <<>>
           /\ manifest' = collected /\ work' = NextChunk(collected, phase)
        \/ /\ manifest' = [m EXCEPT !.chunks = NoChunks]
           /\ work' = AfterPhase([m EXCEPT !.chunks = NoChunks], phase, F)
        \/ /\ manifest' = m /\ work' = Retry(m, phase.pass, phase.failed, phase.retry)
        \/ /\ manifest' = m /\ work' = AfterPhase(m, phase, phase.failed)
    BY DecideGives, Zenon
  <2> HIDE DEF Fits, Fine, m, F, phase, collected
  <2> QED BY <1>2, <1>3, <1>4, <1>5, <1>6, <1>7, <1>8, <2>1, <2>2
<1>10. MemoryInv' /\ work'.step \notin {"record", "import", "mark"}
  <2>1. CASE work' = NoWork
    BY <2>1 DEF MemoryInv, NoWork
  <2>2. CASE Fine(work')
    BY <2>2, <1>9, NextInMemory
  <2> QED BY <2>1, <2>2, <1>9
<1>11. BatchInv'
  BY <1>1, <1>9, <1>10, BatchesKept DEF RBShape
<1>12. RBTypeOK'
  BY <1>1, <1>9 DEF RBShape, RBTypeOK
<1> QED BY <1>10, <1>11, <1>12 DEF RBShape

\* A batch that nobody looked at yet may change its state and its results.
LEMMA BatchChanged ==
  ASSUME RBShape, NEW b \in DOMAIN batches, ~Terminal(batches[b]), NEW x \in Batches,
         batches' = [batches EXCEPT ![b] = x],
         DOMAIN manifest'.phases = DOMAIN manifest.phases,
         \A k \in DOMAIN manifest.phases :
            /\ manifest'.phases[k].batch = manifest.phases[k].batch
            /\ manifest'.phases[k].imported = manifest.phases[k].imported,
         work'.step = work.step, work'.step \in {"import", "mark"} => work'.k = work.k
  PROVE  BatchInv' /\ Len(batches') = Len(batches)
         /\ \A c \in DOMAIN batches : Terminal(batches[c]) => batches'[c] = batches[c]
<1>1. batches \in Seq(Batches) /\ DOMAIN batches = 1..Len(batches)
  BY DEF RBShape, RBTypeOK, Batches
<1>2. Len(batches') = Len(batches) /\ \A c \in DOMAIN batches : c # b => batches'[c] = batches[c]
  BY <1>1
<1>3. \A c \in DOMAIN batches : Terminal(batches[c]) => c # b
  OBVIOUS
<1>4. ASSUME NEW c \in DOMAIN batches, Terminal(batches[c])
      PROVE  batches'[c] = batches[c] /\ Terminal(batches'[c])
  BY <1>2, <1>3, <1>4
<1>5. ASSUME NEW k \in DOMAIN manifest.phases
      PROVE  /\ manifest'.phases[k].batch \in 1..Len(batches')
             /\ work'.step = "record" => manifest'.phases[k].batch # Len(batches')
             /\ manifest'.phases[k].imported => Terminal(batches'[manifest'.phases[k].batch])
  <2>1. /\ manifest.phases[k].batch \in 1..Len(batches)
        /\ work.step = "record" => manifest.phases[k].batch # Len(batches)
        /\ manifest.phases[k].imported => Terminal(batches[manifest.phases[k].batch])
    BY DEF RBShape, BatchInv
  <2> QED BY <2>1, <1>1, <1>2, <1>4
<1>6. \A j, k \in DOMAIN manifest.phases :
         manifest.phases[j].batch = manifest.phases[k].batch => j = k
  BY DEF RBShape, BatchInv
<1>7. work'.step = "record" => Len(batches') > 0
  BY <1>2 DEF RBShape, BatchInv
<1>8. work'.step \in {"import", "mark"} =>
         ~manifest'.phases[work'.k].imported /\ Terminal(batches'[manifest'.phases[work'.k].batch])
  <2>1. SUFFICES ASSUME work.step \in {"import", "mark"}
                 PROVE  ~manifest'.phases[work.k].imported /\ Terminal(batches'[manifest'.phases[work.k].batch])
    OBVIOUS
  <2>2. work.k \in DOMAIN manifest.phases
    BY <2>1, ResultsHeld
  <2>3. /\ ~manifest.phases[work.k].imported /\ Terminal(batches[manifest.phases[work.k].batch])
        /\ manifest.phases[work.k].batch \in 1..Len(batches)
    BY <2>1, <2>2 DEF RBShape, BatchInv
  <2> QED BY <2>2, <2>3, <1>1, <1>4
<1> QED BY <1>2, <1>4, <1>5, <1>6, <1>7, <1>8 DEF BatchInv, Terminal

-------------------------------------------------------------------------------
(* The usage: what a sum is, and that a step adds to it what it imports.       *)

\* The sums of the beginnings of u.
Sums(u, s) ==
  /\ s \in [0..Len(u) -> Nat]
  /\ s[0] = 0 /\ \A k \in 1..Len(u) : s[k] = s[k - 1] + u[k]

\* SumOf is defined: no prefix of the numbers is the first without sums.
LEMMA SumsExist ==
  ASSUME NEW u \in Seq(Nat)
  PROVE  \E s : Sums(u, s)
<1> DEFINE Partial(n, s) == /\ s \in [0..n -> Nat]
                            /\ s[0] = 0 /\ \A k \in 1..n : s[k] = s[k - 1] + u[k]
           T == {n \in 0..Len(u) : ~ \E s : Partial(n, s)}
<1>1. Len(u) \in Nat /\ \A k \in 1..Len(u) : u[k] \in Nat
  OBVIOUS
<1>2. CASE T = {}
  <2>1. Len(u) \notin T
    BY <1>2
  <2>2. PICK s : Partial(Len(u), s)
    BY <2>1, <1>1
  <2> QED BY <2>2 DEF Sums
<1>3. CASE T # {}
  <2>1. PICK n \in T : \A m \in T : n <= m
    <3>1. T \subseteq Nat
      BY <1>1
    <3> HIDE DEF T
    <3> QED BY <3>1, <1>3, LeastExists
  <2>2. n # 0
    <3>1. Partial(0, [k \in {0} |-> 0])
      OBVIOUS
    <3> HIDE DEF Partial
    <3> QED BY <3>1
  <2>3. n \in 1..Len(u) /\ n - 1 \in 0..Len(u) /\ n - 1 \notin T
    <3>1. n \in 0..Len(u) /\ \A m \in T : n <= m
      BY <2>1
    <3> HIDE DEF T
    <3> QED BY <3>1, <2>2, <1>1
  <2>4. PICK s : Partial(n - 1, s)
    <3> HIDE DEF Partial
    <3> QED BY <2>3
  <2> DEFINE t == [k \in 0..n |-> IF k = n THEN s[n - 1] + u[n] ELSE s[k]]
  <2>5. t \in [0..n -> Nat] /\ t[0] = 0
    <3>1. \A k \in 0..n : k # n => k \in 0..(n - 1)
      BY <2>3
    <3>2. s[n - 1] \in Nat /\ u[n] \in Nat
      BY <2>3, <2>4, <1>1
    <3> QED BY <3>1, <3>2, <2>3, <2>4
  <2>6. ASSUME NEW k \in 1..n PROVE t[k] = t[k - 1] + u[k]
    <3>1. k - 1 \in 0..n /\ k - 1 # n /\ k \in 0..n
      BY <2>3
    <3>2. CASE k = n
      BY <3>1, <3>2
    <3>3. CASE k # n
      <4>1. k \in 1..(n - 1)
        BY <3>3, <2>3
      <4> QED BY <4>1, <3>1, <3>3, <2>4
    <3> QED BY <3>2, <3>3
  <2>7. Partial(n, t)
    <3> HIDE DEF t
    <3> QED BY <2>5, <2>6
  <2>8. n \in T
    BY <2>1
  <2> HIDE DEF Partial
  <2> QED BY <2>7, <2>8
<1> QED BY <1>2, <1>3

LEMMA SumsGive ==
  ASSUME NEW u \in Seq(Nat), NEW s, Sums(u, s)
  PROVE  SumOf(u) = s[Len(u)] /\ SumOf(u) \in Nat
<1> DEFINE Step(f) == [k \in 0..Len(u) |-> IF k = 0 THEN 0 ELSE f[k - 1] + u[k]]
           F == CHOOSE f : f = Step(f)
           T == {k \in 0..Len(u) : F[k] # s[k]}
<1>1. SumOf(u) = F[Len(u)]
  BY Zenon DEF SumOf
<1>2. Len(u) \in Nat
  OBVIOUS
<1>3. s = Step(s)
  <2>1. s \in [0..Len(u) -> Nat] /\ s[0] = 0 /\ \A k \in 1..Len(u) : s[k] = s[k - 1] + u[k]
    BY DEF Sums
  <2>2. ASSUME NEW k \in 0..Len(u) PROVE s[k] = Step(s)[k]
    <3>1. CASE k = 0
      BY <3>1, <2>1
    <3>2. CASE k # 0
      <4>1. k \in 1..Len(u)
        BY <3>2
      <4> QED BY <4>1, <3>2, <2>1
    <3> QED BY <3>1, <3>2
  <2>3. s = [k \in 0..Len(u) |-> s[k]]
    BY <2>1
  <2>4. Step(s) = [k \in 0..Len(u) |-> Step(s)[k]]
    OBVIOUS
  <2> HIDE DEF Step
  <2> QED BY <2>2, <2>3, <2>4
<1>4. F = Step(F)
  <2> HIDE DEF Step
  <2> QED BY <1>3
<1>5. ASSUME T # {} PROVE FALSE
  <2>1. PICK k \in T : \A j \in T : k <= j
    <3>1. T \subseteq Nat
      BY <1>2
    <3> HIDE DEF T
    <3> QED BY <3>1, <1>5, LeastExists
  <2>2. k \in 0..Len(u) /\ F[k] # s[k]
    BY <2>1
  <2>3. F[k] = (IF k = 0 THEN 0 ELSE F[k - 1] + u[k]) /\ s[k] = IF k = 0 THEN 0 ELSE s[k - 1] + u[k]
    <3> HIDE DEF F
    <3> QED BY <1>3, <1>4, <2>2
  <2>4. k # 0
    BY <2>2, <2>3
  <2>5. k - 1 \notin T /\ k - 1 \in 0..Len(u)
    <3> HIDE DEF T
    <3> QED BY <2>1, <2>2, <2>4
  <2>6. F[k - 1] = s[k - 1]
    BY <2>5
  <2> QED BY <2>2, <2>3, <2>4, <2>6
<1>6. F[Len(u)] = s[Len(u)]
  <2>1. Len(u) \notin T
    BY <1>5
  <2> QED BY <2>1, <1>2
<1> QED BY <1>1, <1>6 DEF Sums

LEMMA SumOfMore ==
  ASSUME NEW u \in Seq(Nat)
  PROVE  SumOf(Append(u, 0)) = SumOf(u)
<1>1. PICK s : Sums(u, s)
  BY SumsExist
<1> DEFINE v == Append(u, 0)
           t == [k \in 0..Len(v) |-> IF k = Len(v) THEN s[Len(u)] ELSE s[k]]
<1>2. v \in Seq(Nat) /\ Len(v) = Len(u) + 1 /\ Len(u) \in Nat
  OBVIOUS
<1>3. \A k \in 1..Len(u) : v[k] = u[k]
  OBVIOUS
<1>4. v[Len(u) + 1] = 0
  OBVIOUS
<1> HIDE DEF v
<1>5. s \in [0..Len(u) -> Nat] /\ s[0] = 0 /\ \A k \in 1..Len(u) : s[k] = s[k - 1] + u[k]
  BY <1>1 DEF Sums
<1>6. t \in [0..Len(v) -> Nat] /\ t[0] = 0 /\ t[Len(v)] = s[Len(u)]
  BY <1>2, <1>5
<1>7. ASSUME NEW k \in 1..Len(v) PROVE t[k] = t[k - 1] + v[k]
  <2>1. CASE k = Len(v)
    <3>1. k - 1 = Len(u) /\ k - 1 \in 0..Len(v) /\ k - 1 # Len(v)
      BY <2>1, <1>2
    <3>2. t[k] = s[Len(u)] /\ t[k - 1] = s[Len(u)]
      BY <2>1, <3>1
    <3>3. v[k] = 0 /\ s[Len(u)] \in Nat
      BY <2>1, <1>2, <1>4, <1>5
    <3> HIDE DEF t
    <3> QED BY <3>2, <3>3
  <2>2. CASE k # Len(v)
    <3>1. k \in 1..Len(u)
      BY <2>2, <1>2
    <3>2. t[k] = s[k] /\ t[k - 1] = s[k - 1]
      BY <3>1, <2>2, <1>2
    <3> QED BY <3>1, <3>2, <1>3, <1>5
  <2> QED BY <2>1, <2>2
<1>8. Sums(v, t)
  <2> HIDE DEF t
  <2> QED BY <1>6, <1>7 DEF Sums
<1>9. SumOf(v) = t[Len(v)] /\ SumOf(u) = s[Len(u)]
  <2> HIDE DEF t
  <2> QED BY <1>1, <1>2, <1>8, SumsGive
<1> QED BY <1>6, <1>9 DEF v

LEMMA SumOfChanged ==
  ASSUME NEW u \in Seq(Nat), NEW k \in 1..Len(u), u[k] = 0, NEW n \in Nat
  PROVE  SumOf([u EXCEPT ![k] = n]) = SumOf(u) + n
<1>1. PICK s : Sums(u, s)
  BY SumsExist
<1> DEFINE v == [u EXCEPT ![k] = n]
           t == [j \in 0..Len(v) |-> IF j < k THEN s[j] ELSE s[j] + n]
<1>2. v \in Seq(Nat) /\ Len(v) = Len(u) /\ Len(u) \in Nat
  OBVIOUS
<1>3. v[k] = n /\ \A j \in 1..Len(u) : j # k => v[j] = u[j]
  OBVIOUS
<1> HIDE DEF v
<1>5. s \in [0..Len(u) -> Nat] /\ s[0] = 0 /\ \A j \in 1..Len(u) : s[j] = s[j - 1] + u[j]
  BY <1>1 DEF Sums
<1>6. t \in [0..Len(v) -> Nat] /\ t[0] = 0 /\ t[Len(v)] = s[Len(u)] + n
  BY <1>2, <1>5
<1>7. ASSUME NEW j \in 1..Len(v) PROVE t[j] = t[j - 1] + v[j]
  <2>0. s[j] \in Nat /\ s[j - 1] \in Nat /\ s[j] = s[j - 1] + u[j] /\ j \in Nat /\ k \in Nat
    <3>1. j \in 1..Len(u) /\ j \in 0..Len(u) /\ j - 1 \in 0..Len(u)
      BY <1>2
    <3>2. s[j] \in Nat /\ s[j - 1] \in Nat
      BY <3>1, <1>5
    <3>3. s[j] = s[j - 1] + u[j]
      BY <3>1, <1>5
    <3>4. k \in Nat /\ j \in Nat
      BY <3>1
    <3> HIDE DEF t
    <3> QED BY <3>2, <3>3, <3>4
  <2>1. t[j] = (IF j < k THEN s[j] ELSE s[j] + n) /\ t[j - 1] = (IF j - 1 < k THEN s[j - 1] ELSE s[j - 1] + n)
    BY <1>2
  <2> HIDE DEF t
  <2>2. CASE j < k
    BY <2>0, <2>1, <2>2, <1>2, <1>3
  <2>3. CASE j = k
    BY <2>0, <2>1, <2>3, <1>3
  <2>4. CASE k < j
    <3>0. j \in 1..Len(u) /\ j # k
      BY <2>4, <1>2
    <3>1. v[j] = u[j] /\ u[j] \in Nat
      BY <3>0, <1>3
    <3>2. t[j] = s[j] + n /\ t[j - 1] = s[j - 1] + n
      BY <2>0, <2>1, <2>4
    <3> QED BY <2>0, <3>1, <3>2, SMTT(30)
  <2> QED BY <2>0, <2>2, <2>3, <2>4
<1>8. Sums(v, t)
  <2> HIDE DEF t
  <2> QED BY <1>6, <1>7 DEF Sums
<1>9. SumOf(v) = t[Len(v)] /\ SumOf(u) = s[Len(u)]
  <2> HIDE DEF t
  <2> QED BY <1>1, <1>2, <1>8, SumsGive
<1> QED BY <1>6, <1>9 DEF v

\* The phase that a synchronisation or a restart is about.
LEMMA ActivePhase ==
  ASSUME RBShape, Active(manifest) # 0
  PROVE  LET k == Active(manifest) IN
         /\ manifest \in Manifests /\ manifest.phases \in Seq(Phases)
         /\ k \in DOMAIN manifest.phases /\ k \in Nat /\ manifest.phases[k] \in Phases
         /\ manifest.phases[k].name = manifest.active
         /\ manifest.phases[k].batch \in DOMAIN batches
         /\ batches \in Seq(Batches) /\ batches[manifest.phases[k].batch] \in Batches
<1> DEFINE k == Active(manifest)
<1>1. manifest \in Manifests /\ manifest.phases \in Seq(Phases) /\ batches \in Seq(Batches)
  BY DEF RBShape, RBTypeOK, Manifests, Batches
<1>2. k \in 1..Len(manifest.phases) /\ manifest.phases[k].name = manifest.active
  BY <1>1, ActiveOf
<1> HIDE DEF k
<1>3. k \in DOMAIN manifest.phases /\ k \in Nat /\ manifest.phases[k] \in Phases
  BY <1>1, <1>2
<1>4. manifest.phases[k].batch \in 1..Len(batches)
  BY <1>3 DEF RBShape, BatchInv
<1> QED BY <1>1, <1>2, <1>3, <1>4 DEF k

WithRestart(s, k) == [s EXCEPT ![k].restart = TRUE]
SameBatch(p, q) ==
  /\ p.name = q.name /\ p.pass = q.pass /\ p.retry = q.retry /\ p.chunk = q.chunk
  /\ p.ids = q.ids /\ p.batch = q.batch /\ p.imported = q.imported /\ p.failed = q.failed

LEMMA RestartChanged ==
  ASSUME NEW s \in Seq(Phases), NEW k \in DOMAIN s, NEW t, t = WithRestart(s, k)
  PROVE  /\ DOMAIN t = DOMAIN s /\ Len(t) = Len(s)
         /\ t[k].restart
         /\ \A j \in DOMAIN s : SameBatch(t[j], s[j]) /\ (s[j].restart => t[j].restart)
<1> DEFINE q == [s[k] EXCEPT !.restart = TRUE]
<1>1. DOMAIN t = DOMAIN s /\ Len(t) = Len(s)
  BY DEF WithRestart
<1>2. \A j \in DOMAIN s : t[j] = IF j = k THEN q ELSE s[j]
  BY DEF WithRestart
<1>3. s[k] \in Phases
  OBVIOUS
<1>4. SameBatch(q, s[k]) /\ q.restart
  BY <1>3 DEF Phases, SameBatch
<1>5. \A j \in DOMAIN s : SameBatch(s[j], s[j])
  BY DEF SameBatch
<1> HIDE DEF q
<1> QED BY <1>1, <1>2, <1>4, <1>5

LEMMA RestartGives ==
  ASSUME RBShape, RestartInChunks
  PROVE  LET k == Active(manifest) IN
         /\ k # 0 /\ work = NoWork
         /\ manifest' \in Manifests /\ manifest'.phases = WithRestart(manifest.phases, k)
         /\ manifest'.mode = manifest.mode /\ manifest'.cost = manifest.cost
<1> DEFINE k == Active(manifest)
           n == [manifest EXCEPT !.phases[k].restart = TRUE]
<1>1. k # 0 /\ work = NoWork
      /\ manifest' = [manifest EXCEPT !.phases[k].restart = TRUE, !.status = "running"]
  BY DEF RestartInChunks
<1>2. manifest \in Manifests /\ k \in DOMAIN manifest.phases
  BY <1>1, ActivePhase
<1> HIDE DEF k
<1>3. n \in Manifests
  BY <1>2, PhasesWith
<1>4. manifest' = [n EXCEPT !.status = "running"]
  BY <1>1, <1>2 DEF Manifests
<1>5. n.phases = WithRestart(manifest.phases, k) /\ n.mode = manifest.mode /\ n.cost = manifest.cost
  BY <1>2 DEF Manifests, WithRestart
<1>6. "running" \in Statuses
  BY DEF Statuses
<1> HIDE DEF n
<1>7. manifest' \in Manifests /\ manifest'.phases = n.phases
      /\ manifest'.mode = n.mode /\ manifest'.cost = n.cost
  <2>1. [n EXCEPT !.status = "running"] \in Manifests
    BY <1>3, <1>6, ManifestsWith, Zenon
  <2> QED BY <2>1, <1>3, <1>4 DEF Manifests
<1> QED BY <1>1, <1>5, <1>7 DEF k

LEMMA RestartShape ==
  ASSUME RBShape, RestartInChunks
  PROVE  RBShape'
<1> DEFINE k == Active(manifest)
           b == manifest.phases[k].batch
           x == [batches[b] EXCEPT !.state = "cancelling"]
<1>1. /\ k # 0 /\ work = NoWork /\ work' = NoWork /\ UNCHANGED <<reports, undecided>>
      /\ ~Terminal(batches[b])
      /\ batches' = [batches EXCEPT ![b].state = "cancelling"] \/ batches' = batches
      /\ troubles' = troubles + 1 /\ troubles < MaxTroubles
  BY RestartGives DEF RestartInChunks
<1>2. /\ manifest \in Manifests /\ manifest.phases \in Seq(Phases)
      /\ k \in DOMAIN manifest.phases /\ b \in DOMAIN batches
      /\ batches \in Seq(Batches) /\ batches[b] \in Batches
  BY <1>1, ActivePhase
<1>3. manifest' \in Manifests /\ manifest'.phases = WithRestart(manifest.phases, k)
  BY RestartGives
<1> HIDE DEF k, b
<1>4. /\ DOMAIN manifest'.phases = DOMAIN manifest.phases
      /\ \A j \in DOMAIN manifest.phases : SameBatch(manifest'.phases[j], manifest.phases[j])
  BY <1>2, <1>3, RestartChanged
<1>5. \A j \in DOMAIN manifest.phases :
         /\ manifest'.phases[j].batch = manifest.phases[j].batch
         /\ manifest'.phases[j].imported = manifest.phases[j].imported
  BY <1>4 DEF SameBatch
<1>6. x \in Batches
  BY <1>2 DEF Batches
<1>7. MemoryInv'
  BY <1>1 DEF MemoryInv, NoWork
<1>8. troubles' \in 0..MaxTroubles
  BY <1>1, ReviewAssumption DEF RBShape, RBTypeOK
<1>9. CASE batches' = batches
  <2>1. BatchInv'
    BY <1>1, <1>4, <1>5, <1>9, BatchesKept DEF RBShape, NoWork
  <2>2. RBTypeOK'
    BY <1>1, <1>3, <1>8, <1>9 DEF RBShape, RBTypeOK
  <2> QED BY <1>7, <2>1, <2>2 DEF RBShape
<1>10. CASE batches' = [batches EXCEPT ![b].state = "cancelling"]
  <2>1. batches' = [batches EXCEPT ![b] = x]
    BY <1>10
  <2> HIDE DEF x
  <2>2. BatchInv'
    BY <1>1, <1>2, <1>4, <1>5, <1>6, <2>1, BatchChanged DEF NoWork
  <2>3. batches' \in Seq(Batches)
    BY <1>2, <1>6, <2>1
  <2>4. RBTypeOK'
    BY <1>1, <1>3, <1>8, <2>3 DEF RBShape, RBTypeOK, Batches
  <2> QED BY <1>7, <2>2, <2>4 DEF RBShape
<1> QED BY <1>1, <1>9, <1>10

LEMMA ForceShape ==
  ASSUME RBShape, ForceRestart
  PROVE  RBShape'
<1> DEFINE k == Active(manifest)
           p == manifest.phases[k]
           n == [manifest EXCEPT !.active = NoPhase]
<1>1. /\ k # 0 /\ work = NoWork /\ UNCHANGED <<reports, undecided, batches, troubles>>
      /\ manifest' = n /\ work' = Retry(manifest', p.pass, p.ids, p.retry)
  BY DEF ForceRestart
<1>2. manifest \in Manifests /\ p \in Phases
  BY <1>1, ActivePhase
<1> HIDE DEF k, p
<1>3. n \in Manifests /\ n.phases = manifest.phases
  BY <1>2, ManifestsWith, Zenon DEF Manifests
<1> HIDE DEF n
<1>4. p.ids \in SUBSET Items /\ p.pass \in 1..2 /\ p.retry \in Nat
  BY <1>2 DEF Phases
<1>5. work' \in Submissions /\ work'.m = manifest'
  BY <1>1, <1>3, <1>4, RetryIsSubmission DEF Retry
<1>6. MemoryInv' /\ work'.step \in {"submit", "save"}
  BY <1>5, NextInMemory
<1>7. BatchInv'
  BY <1>1, <1>3, <1>6, BatchesKept DEF RBShape
<1>8. RBTypeOK'
  BY <1>1, <1>3, <1>5 DEF RBShape, RBTypeOK
<1> QED BY <1>6, <1>7, <1>8 DEF RBShape

LEMMA FinishShape ==
  ASSUME RBShape, NEW b \in DOMAIN batches, Finish(b)
  PROVE  /\ RBShape'
         /\ Len(batches') = Len(batches)
         /\ \A c \in DOMAIN batches : /\ batches'[c].ids = batches[c].ids /\ batches'[c].pass = batches[c].pass
                                      /\ Terminal(batches[c]) => batches'[c] = batches[c]
<1> DEFINE x(state, output, good) ==
             [batches[b] EXCEPT !.state = state, !.output = output, !.good = good]
<1>1. UNCHANGED <<manifest, reports, undecided, work, troubles>> /\ ~Terminal(batches[b])
  BY Zenon DEF Finish
<1>2. batches \in Seq(Batches) /\ batches[b] \in Batches
  <2>1. batches \in Seq(Batches)
    BY DEF RBShape, RBTypeOK, Batches
  <2> QED BY <2>1
<1>3. PICK state \in {"completed", "failed"}, output \in BOOLEAN, good \in SUBSET batches[b].ids :
         batches' = [batches EXCEPT ![b] = x(state, output, good)]
  <2>1. CASE \E good \in SUBSET batches[b].ids :
               batches' = [batches EXCEPT ![b] =
                  [batches[b] EXCEPT !.state = "completed", !.output = TRUE, !.good = good]]
    BY <2>1, Zenon
  <2>2. CASE \E good \in SUBSET batches[b].ids, output \in BOOLEAN :
               batches' = [batches EXCEPT ![b] =
                  [batches[b] EXCEPT !.state = "failed", !.output = output, !.good = good]]
    BY <2>2, Zenon
  <2> QED BY <2>1, <2>2, Zenon DEF Finish
<1> DEFINE y == x(state, output, good)
<1>4. y \in Batches /\ y.ids = batches[b].ids /\ y.pass = batches[b].pass
  BY <1>2, <1>3 DEF Batches
<1>5. batches' = [batches EXCEPT ![b] = y]
  BY <1>3
<1> HIDE DEF y, x
<1>6. BatchInv' /\ Len(batches') = Len(batches)
      /\ \A c \in DOMAIN batches : Terminal(batches[c]) => batches'[c] = batches[c]
  BY <1>1, <1>4, <1>5, BatchChanged
<1>7. batches' \in Seq(Batches)
      /\ \A c \in DOMAIN batches : batches'[c].ids = batches[c].ids /\ batches'[c].pass = batches[c].pass
  BY <1>2, <1>4, <1>5
<1>8. RBTypeOK'
  BY <1>1, <1>7 DEF RBShape, RBTypeOK, Batches
<1>9. MemoryInv'
  BY <1>1 DEF RBShape, MemoryInv, Memory, InMemory
<1> QED BY <1>6, <1>7, <1>8, <1>9 DEF RBShape

LEMMA FaultShape ==
  ASSUME RBShape, Fault
  PROVE  RBShape' /\ manifest'.phases = manifest.phases /\ manifest'.cost = manifest.cost
         /\ manifest'.mode = manifest.mode
<1>1. /\ UNCHANGED <<reports, undecided, batches>> /\ work' = NoWork
      /\ troubles' = troubles + 1 /\ troubles < MaxTroubles
      /\ manifest' = manifest \/ manifest' = [manifest EXCEPT !.status = "failed"]
  BY DEF Fault
<1>2. manifest \in Manifests /\ "failed" \in Statuses
  BY DEF RBShape, RBTypeOK, Statuses, Settled
<1>3. manifest' \in Manifests
  BY <1>1, <1>2, ManifestsWith, Zenon
<1>4. manifest'.phases = manifest.phases /\ manifest'.cost = manifest.cost
      /\ manifest'.mode = manifest.mode
  BY <1>1, <1>2 DEF Manifests
<1>5. MemoryInv'
  BY <1>1 DEF MemoryInv, NoWork
<1>6. BatchInv'
  BY <1>1, <1>4, BatchesKept DEF RBShape, NoWork
<1>7. troubles' \in 0..MaxTroubles
  BY <1>1, ReviewAssumption DEF RBShape, RBTypeOK
<1>8. RBTypeOK'
  BY <1>1, <1>3, <1>7 DEF RBShape, RBTypeOK
<1> QED BY <1>4, <1>5, <1>6, <1>8 DEF RBShape

LEMMA ByHandShape ==
  ASSUME RBShape, NEW i \in Contested, DecideByHand(i)
  PROVE  RBShape'
<1>1. UNCHANGED <<manifest, reports, batches, work, troubles>> /\ undecided' \subseteq undecided
  BY DEF DecideByHand
<1>2. RBTypeOK'
  BY <1>1 DEF RBShape, RBTypeOK
<1>3. MemoryInv' /\ BatchInv'
  BY <1>1 DEF RBShape, MemoryInv, Memory, InMemory, BatchInv, Terminal
<1> QED BY <1>2, <1>3 DEF RBShape

LEMMA StillShape ==
  ASSUME RBShape, UNCHANGED rbVars
  PROVE  RBShape'
<1>1. RBTypeOK'
  BY DEF RBShape, RBTypeOK, rbVars
<1>2. MemoryInv' /\ BatchInv'
  BY DEF RBShape, MemoryInv, Memory, InMemory, BatchInv, Terminal, rbVars
<1> QED BY <1>1, <1>2 DEF RBShape

LEMMA InitShape ==
  ASSUME RBInit
  PROVE  RBShape
<1>1. PICK mode \in Modes : manifest = NewManifest(mode)
  BY DEF RBInit
<1>2. manifest \in Manifests /\ manifest.phases = <<>>
  BY <1>1 DEF NewManifest, Manifests, NoChunks, NoPhase
<1>3. work \in Submissions /\ work.m = manifest /\ work.step = "submit"
  BY <1>2 DEF RBInit, Submissions
<1>4. RBTypeOK
  BY <1>2, <1>3, ReviewAssumption DEF RBInit, RBTypeOK
<1>5. MemoryInv
  BY <1>3 DEF MemoryInv, Memory
<1>6. BatchInv
  BY <1>2, <1>3 DEF BatchInv
<1> QED BY <1>4, <1>5, <1>6 DEF RBShape

LEMMA ShapeKept ==
  ASSUME RBShape, [RBNext]_rbVars
  PROVE  RBShape'
<1>1. CASE Submit
  BY <1>1, SubmitShape
<1>2. CASE Create
  BY <1>2, CreateShape
<1>3. CASE Record
  BY <1>3, RecordShape
<1>4. CASE Save
  BY <1>4, SaveShape
<1>5. CASE Import
  BY <1>5, ImportShape
<1>6. CASE Mark
  BY <1>6, MarkShape
<1>7. CASE Decide
  BY <1>7, DecideShape
<1>8. CASE Sync
  BY <1>8, SyncShape
<1>9. CASE RestartInChunks
  BY <1>9, RestartShape
<1>10. CASE ForceRestart
  BY <1>10, ForceShape
<1>11. CASE Fault
  BY <1>11, FaultShape
<1>12. ASSUME NEW b \in DOMAIN batches, Finish(b) PROVE RBShape'
  BY <1>12, FinishShape
<1>13. ASSUME NEW i \in Contested, DecideByHand(i) PROVE RBShape'
  BY <1>13, ByHandShape
<1>14. CASE UNCHANGED rbVars
  BY <1>14, StillShape
<1> QED BY <1>1, <1>2, <1>3, <1>4, <1>5, <1>6, <1>7, <1>8, <1>9, <1>10, <1>11, <1>12, <1>13, <1>14
        DEF RBNext, Worker

\* The file, what the worker has in memory and the batches have the shapes the
\* code gives them, and the worker's copy differs from the file only in what it
\* is about to write (review_automation.py).
THEOREM RBShapeHolds == RBSpec => []RBShape
<1> QED BY InitShape, ShapeKept, PTL DEF RBSpec

\* Manifest, reports, batches and worker keep their types (review_automation.py).
THEOREM RBTypes == RBSpec => []RBTypeOK
<1>1. RBShape => RBTypeOK
  BY DEF RBShape
<1> QED BY <1>1, RBShapeHolds, PTL

\* The usage of the phases of a manifest, under given batches.
UsagesOf(s, bs) == [k \in DOMAIN s |-> IF s[k].imported THEN Usage(bs[s[k].batch]) ELSE 0]
CostInv == manifest.mode # "test" => manifest.cost = SumOf(Usages)

LEMMA UsagesTyped ==
  ASSUME RBShape
  PROVE  /\ Usages \in Seq(Nat) /\ DOMAIN Usages = DOMAIN manifest.phases
         /\ Usages = UsagesOf(manifest.phases, batches)
         /\ Len(Usages) = Len(manifest.phases) /\ DOMAIN manifest.phases = 1..Len(manifest.phases)
<1>1. manifest.phases \in Seq(Phases) /\ batches \in Seq(Batches)
  BY DEF RBShape, RBTypeOK, Manifests, Batches
<1>2. ASSUME NEW k \in DOMAIN manifest.phases PROVE Usage(batches[manifest.phases[k].batch]) \in Nat
  <2>1. manifest.phases[k].batch \in 1..Len(batches)
    BY DEF RBShape, BatchInv
  <2>2. batches[manifest.phases[k].batch] \in Batches
    BY <1>1, <2>1
  <2> QED BY <2>2, ReviewAssumption DEF Usage, Batches
<1>3. Usages = UsagesOf(manifest.phases, batches)
  BY DEF Usages, UsagesOf
<1>4. DOMAIN manifest.phases = 1..Len(manifest.phases) /\ Len(manifest.phases) \in Nat
  BY <1>1
<1>5. Usages \in [1..Len(manifest.phases) -> Nat]
  BY <1>2, <1>4 DEF Usages
<1> QED BY <1>3, <1>4, <1>5

\* What a step keeps that changes neither marks nor results that are in use.
LEMMA UsagesKept ==
  ASSUME RBShape, DOMAIN manifest'.phases = DOMAIN manifest.phases,
         \A k \in DOMAIN manifest.phases :
            /\ manifest'.phases[k].batch = manifest.phases[k].batch
            /\ manifest'.phases[k].imported = manifest.phases[k].imported
            /\ manifest.phases[k].imported =>
                 batches'[manifest.phases[k].batch] = batches[manifest.phases[k].batch]
  PROVE  Usages' = Usages
<1>1. Usages' = [k \in DOMAIN manifest'.phases |->
                   IF manifest'.phases[k].imported THEN Usage(batches'[manifest'.phases[k].batch]) ELSE 0]
  BY DEF Usages, Usage
<1>2. ASSUME NEW k \in DOMAIN manifest.phases
      PROVE  (IF manifest'.phases[k].imported THEN Usage(batches'[manifest'.phases[k].batch]) ELSE 0)
             = IF manifest.phases[k].imported THEN Usage(batches[manifest.phases[k].batch]) ELSE 0
  <2>1. CASE manifest.phases[k].imported
    BY <2>1
  <2>2. CASE ~manifest.phases[k].imported
    BY <2>2
  <2> QED BY <2>1, <2>2
<1> QED BY <1>1, <1>2 DEF Usages

LEMMA CostStays ==
  ASSUME RBShape, CostInv, manifest'.phases = manifest.phases, manifest'.mode = manifest.mode,
         manifest'.cost = manifest.cost, batches' = batches
  PROVE  CostInv'
<1>1. Usages' = Usages
  BY UsagesKept
<1> QED BY <1>1 DEF CostInv, SumOf

LEMMA CostKept ==
  ASSUME RBShape, CostInv, [RBNext]_rbVars
  PROVE  CostInv'
<1>1. CASE Submit
  BY <1>1, CostStays DEF Submit
<1>2. CASE Create
  <2> DEFINE b == [ids |-> work.rows, pass |-> work.w.pass, state |-> "running",
                   output |-> FALSE, good |-> {}]
  <2>1. batches' = Append(batches, b) /\ manifest' = manifest /\ batches \in Seq(Batches)
    BY <1>2 DEF Create, RBShape, RBTypeOK, Batches
  <2> HIDE DEF b
  <2>2. \A k \in 1..Len(batches) : batches'[k] = batches[k]
    BY <2>1
  <2>3. Usages' = Usages
    BY <2>1, <2>2, UsagesKept DEF RBShape, BatchInv
  <2> QED BY <2>1, <2>3 DEF CostInv, SumOf
<1>3. CASE Record
  <2> DEFINE w == work.w
             p == [name |-> <<w.pass, w.retry, w.chunk>>, pass |-> w.pass, retry |-> w.retry,
                   chunk |-> w.chunk, ids |-> work.rows, batch |-> Len(batches),
                   imported |-> FALSE, failed |-> {}, restart |-> FALSE]
             n == Len(manifest.phases)
  <2>1. work.rows \in SUBSET Items /\ w \in Submissions /\ Len(batches) \in Nat /\ work # NoWork
    BY <1>3, WorkKinds DEF RBShape, RBTypeOK, Record, NoWork
  <2>2. w.m.phases = manifest.phases /\ w.m.mode = manifest.mode /\ w.m.cost = manifest.cost
    BY <1>3, <2>1 DEF RBShape, MemoryInv, Memory, Record
  <2>3. /\ manifest'.phases = Append(manifest.phases, p) /\ manifest.phases \in Seq(Phases)
        /\ manifest'.mode = manifest.mode /\ manifest'.cost = manifest.cost
    <3>1. manifest' = Recorded(w, work.rows, Len(batches))
      BY <1>3 DEF Record
    <3>2. /\ manifest'.phases = Append(w.m.phases, p) /\ w.m.phases \in Seq(Phases)
          /\ manifest'.mode = w.m.mode /\ manifest'.cost = w.m.cost
      BY <2>1, <3>1, RecordedGives
    <3> HIDE DEF p
    <3> QED BY <2>2, <3>2
  <2>4. ~p.imported /\ batches' = batches
    BY <1>3 DEF Record
  <2> HIDE DEF p
  <2>5. /\ n \in Nat /\ DOMAIN manifest.phases = 1..n /\ DOMAIN manifest'.phases = 1..(n + 1)
        /\ manifest'.phases[n + 1] = p /\ \A k \in 1..n : manifest'.phases[k] = manifest.phases[k]
    BY <2>3
  <2>6. Usages \in Seq(Nat) /\ DOMAIN Usages = 1..n /\ Len(Usages) = n
    BY <2>5, UsagesTyped
  <2>7. Usages' = UsagesOf(manifest'.phases, batches)
    BY <2>4 DEF Usages, UsagesOf, Usage
  <2>8. \A k \in 1..n : Usages[k] = IF manifest.phases[k].imported THEN Usage(batches[manifest.phases[k].batch]) ELSE 0
    BY <2>5 DEF Usages
  <2>9. \A k \in 1..(n + 1) : UsagesOf(manifest'.phases, batches)[k] = IF k = n + 1 THEN 0 ELSE Usages[k]
    <3>1. ASSUME NEW k \in 1..(n + 1)
          PROVE  UsagesOf(manifest'.phases, batches)[k]
                   = IF manifest'.phases[k].imported THEN Usage(batches[manifest'.phases[k].batch]) ELSE 0
      BY <2>5 DEF UsagesOf
    <3>2. \A k \in 1..(n + 1) : k = n + 1 \/ k \in 1..n
      BY <2>5
    <3> HIDE DEF n
    <3> QED BY <3>1, <3>2, <2>4, <2>5, <2>8
  <2>10. DOMAIN UsagesOf(manifest'.phases, batches) = 1..(n + 1)
    BY <2>5 DEF UsagesOf
  <2> HIDE DEF n
  <2>11. UsagesOf(manifest'.phases, batches) = Append(Usages, 0)
    <3> DEFINE u == UsagesOf(manifest'.phases, batches)
               v == Append(Usages, 0)
    <3>1. DOMAIN v = 1..(n + 1) /\ \A k \in 1..(n + 1) : v[k] = IF k = n + 1 THEN 0 ELSE Usages[k]
      BY <2>5, <2>6
    <3>2. u = [k \in 1..(n + 1) |-> u[k]]
      BY <2>10 DEF UsagesOf
    <3>3. v = [k \in 1..(n + 1) |-> v[k]]
      <4>1. v \in Seq(Nat) /\ Len(v) = n + 1
        BY <2>5, <2>6
      <4> HIDE DEF v
      <4>2. v \in [1..(n + 1) -> Nat]
        BY <4>1
      <4> QED BY <4>2
    <3>4. \A k \in 1..(n + 1) : u[k] = v[k]
      BY <3>1, <2>9
    <3> HIDE DEF u, v
    <3>5. u = v
      BY <3>2, <3>3, <3>4
    <3> QED BY <3>5 DEF u, v
  <2>12. SumOf(Append(Usages, 0)) = SumOf(Usages)
    BY <2>6, SumOfMore
  <2>13. Usages' = Append(Usages, 0)
    BY <2>7, <2>11
  <2> QED BY <2>3, <2>12, <2>13 DEF CostInv, SumOf
<1>4. CASE Save
  <2>1. work # NoWork /\ Memory = work.m
    BY <1>4 DEF Save, NoWork, Memory
  <2> QED BY <1>4, <2>1, CostStays DEF Save, RBShape, MemoryInv
<1>5. CASE Import
  BY <1>5, CostStays, Zenon DEF Import
<1>6. CASE Mark
  <2> DEFINE b == batches[work.m.phases[work.k].batch]
             k == work.k
  <2>1. /\ manifest'.phases = [work.m.phases EXCEPT ![k].imported = TRUE]
        /\ manifest'.mode = work.m.mode /\ Usage(b) \in Nat
        /\ manifest'.cost = IF work.m.mode = "test" THEN work.m.cost ELSE work.m.cost + Usage(b)
    BY <1>6, MarkGives
  <2>2. /\ work.m.mode = manifest.mode /\ work.m.cost = manifest.cost
        /\ k \in DOMAIN work.m.phases /\ k \in DOMAIN manifest.phases /\ work.m.phases \in Seq(Phases)
        /\ DOMAIN work.m.phases = DOMAIN manifest.phases
        /\ manifest.phases[k].batch = work.m.phases[k].batch
        /\ \A j \in DOMAIN manifest.phases :
             /\ SamePhase(work.m.phases[j], manifest.phases[j])
             /\ work.m.phases[j].imported = manifest.phases[j].imported
    BY <1>6, ResultsHeld DEF Mark
  <2>3. ~manifest.phases[k].imported /\ batches' = batches
    BY <1>6 DEF RBShape, BatchInv, Mark
  <2>4. /\ DOMAIN manifest'.phases = DOMAIN manifest.phases
        /\ \A j \in DOMAIN manifest.phases :
             /\ manifest'.phases[j].batch = manifest.phases[j].batch
             /\ (manifest'.phases[j].imported <=> (manifest.phases[j].imported \/ j = k))
    <3>1. manifest'.phases = WithImported(work.m.phases, k)
      BY <2>1 DEF WithImported
    <3> HIDE DEF k
    <3>2. /\ DOMAIN manifest'.phases = DOMAIN work.m.phases
          /\ \A j \in DOMAIN work.m.phases :
               /\ SamePhase(manifest'.phases[j], work.m.phases[j])
               /\ (manifest'.phases[j].imported <=> (work.m.phases[j].imported \/ j = k))
      BY <2>2, <3>1, ImportedChanged
    <3> QED BY <2>2, <3>2 DEF SamePhase
  <2>5. Usages \in Seq(Nat) /\ DOMAIN Usages = DOMAIN manifest.phases /\ DOMAIN Usages = 1..Len(Usages)
    BY UsagesTyped
  <2>6. Usages' = UsagesOf(manifest'.phases, batches) /\ Usages = UsagesOf(manifest.phases, batches)
    BY <2>3 DEF Usages, UsagesOf, Usage
  <2> HIDE DEF k, b
  <2>7. Usages' = [Usages EXCEPT ![k] = Usage(b)] /\ Usages[k] = 0
    <3>1. \A j \in DOMAIN manifest.phases :
             /\ UsagesOf(manifest.phases, batches)[j]
                  = IF manifest.phases[j].imported THEN Usage(batches[manifest.phases[j].batch]) ELSE 0
             /\ UsagesOf(manifest'.phases, batches)[j]
                  = IF manifest.phases[j].imported \/ j = k THEN Usage(batches[manifest.phases[j].batch]) ELSE 0
      BY <2>4 DEF UsagesOf
    <3>2. Usages[k] = 0 /\ Usages'[k] = Usage(b)
      BY <2>2, <2>3, <2>6, <3>1 DEF b, k
    <3>3. \A j \in DOMAIN Usages : j # k => Usages'[j] = Usages[j]
      BY <2>5, <2>6, <3>1
    <3>4. Usages' = [j \in DOMAIN Usages |-> Usages'[j]]
      BY <2>4, <2>5, <2>6 DEF UsagesOf
    <3>5. Usages = [j \in DOMAIN Usages |-> Usages[j]]
      BY <2>5
    <3>6. [Usages EXCEPT ![k] = Usage(b)] = [j \in DOMAIN Usages |-> IF j = k THEN Usage(b) ELSE Usages[j]]
      OBVIOUS
    <3>7. \A j \in DOMAIN Usages : Usages'[j] = IF j = k THEN Usage(b) ELSE Usages[j]
      BY <3>2, <3>3
    <3> QED BY <3>2, <3>4, <3>6, <3>7
  <2>8. SumOf([Usages EXCEPT ![k] = Usage(b)]) = SumOf(Usages) + Usage(b)
    BY <2>1, <2>2, <2>5, <2>7, SumOfChanged
  <2>9. SumOf(Usages') = SumOf(Usages) + Usage(b)
    BY <2>7, <2>8
  <2> QED BY <2>1, <2>2, <2>9 DEF CostInv, SumOf
<1>7. CASE Decide
  <2>1. /\ work.m \in Manifests /\ work.m.phases = manifest.phases
        /\ work.m.mode = manifest.mode /\ work.m.cost = manifest.cost /\ batches' = batches
    BY <1>7, ResultsHeld DEF Decide
  <2> DEFINE m == work.m
             F == m.chunks.failed \union m.phases[work.k].failed
  <2>2. \/ manifest' = [m EXCEPT !.status = "failed", !.active = NoPhase]
        \/ manifest' = [m EXCEPT !.chunks.failed = F]
        \/ manifest' = [m EXCEPT !.chunks = NoChunks]
        \/ manifest' = m
    BY <1>7, DecideGives, Zenon
  <2> HIDE DEF F, m
  <2>3. manifest'.phases = m.phases /\ manifest'.mode = m.mode /\ manifest'.cost = m.cost
    <3>1. m \in Manifests
      BY <2>1 DEF m
    <3> QED BY <2>2, <3>1, Zenon DEF Manifests
  <2> QED BY <2>1, <2>3, CostStays DEF m
<1>8. CASE Sync
  <2> DEFINE m == Reopened(manifest)
             k == Active(m)
             phase == m.phases[k]
             batch == batches[phase.batch]
             synced == Synced(m, batch)
  <2>1. /\ m \in Manifests /\ m.phases = manifest.phases
        /\ m.mode = manifest.mode /\ m.cost = manifest.cost
    BY ReopenedGives DEF RBShape, RBTypeOK
  <2>2. k # 0 /\ batches' = batches
    BY <1>8, Zenon DEF Sync
  <2>3. k \in DOMAIN manifest.phases /\ phase = manifest.phases[k]
    <3>1. m.phases \in Seq(Phases)
      BY <2>1 DEF Manifests
    <3> HIDE DEF m, k
    <3>2. k \in 1..Len(m.phases)
      BY <2>1, <2>2, ActiveOf DEF k
    <3> QED BY <2>1, <3>1, <3>2
  <2>4. phase.ids \in SUBSET Items /\ manifest.phases \in Seq(Phases)
    <3>1. manifest.phases \in Seq(Phases)
      BY DEF RBShape, RBTypeOK, Manifests
    <3> HIDE DEF m, k, phase
    <3>2. phase \in Phases
      BY <2>3, <3>1
    <3> QED BY <3>1, <3>2 DEF Phases
  <2>5. batch \in Batches
    <3>1. phase.batch \in 1..Len(batches)
      BY <2>3 DEF RBShape, BatchInv
    <3>2. batches \in Seq(Batches)
      BY DEF RBShape, RBTypeOK, Batches
    <3> HIDE DEF phase
    <3> QED BY <3>1, <3>2
  <2>6. /\ synced \in Manifests /\ synced.phases = manifest.phases
        /\ synced.mode = manifest.mode /\ synced.cost = manifest.cost
    BY <2>1, <2>5, SyncedGives
  <2>7. manifest' = synced \/ manifest' = [synced EXCEPT !.phases[k].failed = phase.ids]
        \/ manifest' = manifest
    BY <1>8, Zenon DEF Sync
  <2> HIDE DEF m, k, phase, batch, synced
  <2>8. CASE manifest' = synced \/ manifest' = manifest
    BY <2>2, <2>6, <2>8, CostStays
  <2>9. CASE manifest' = [synced EXCEPT !.phases[k].failed = phase.ids]
    <3>1. manifest'.phases = WithFailed(manifest.phases, k, phase.ids)
          /\ manifest'.mode = manifest.mode /\ manifest'.cost = manifest.cost
      BY <2>6, <2>9 DEF Manifests, WithFailed
    <3>2. /\ DOMAIN manifest'.phases = DOMAIN manifest.phases
          /\ \A j \in DOMAIN manifest.phases :
               /\ manifest'.phases[j].batch = manifest.phases[j].batch
               /\ manifest'.phases[j].imported = manifest.phases[j].imported
      BY <2>3, <2>4, <3>1, FailedChanged DEF SamePhase
    <3>3. Usages' = Usages
      BY <2>2, <3>2, UsagesKept
    <3> QED BY <3>1, <3>3 DEF CostInv, SumOf
  <2> QED BY <2>7, <2>8, <2>9
<1>9. CASE RestartInChunks
  <2> DEFINE k == Active(manifest)
             b == manifest.phases[k].batch
  <2>1. /\ k # 0 /\ manifest'.phases = WithRestart(manifest.phases, k)
        /\ manifest'.mode = manifest.mode /\ manifest'.cost = manifest.cost
    BY <1>9, RestartGives
  <2>2. k \in DOMAIN manifest.phases /\ manifest.phases \in Seq(Phases)
        /\ batches \in Seq(Batches) /\ b \in DOMAIN batches
    BY <2>1, ActivePhase
  <2>3. ~Terminal(batches[b]) /\ (batches' = [batches EXCEPT ![b].state = "cancelling"] \/ batches' = batches)
    BY <1>9 DEF RestartInChunks
  <2> HIDE DEF k, b
  <2>4. /\ DOMAIN manifest'.phases = DOMAIN manifest.phases
        /\ \A j \in DOMAIN manifest.phases : /\ manifest'.phases[j].batch = manifest.phases[j].batch
                                             /\ manifest'.phases[j].imported = manifest.phases[j].imported
    BY <2>1, <2>2, RestartChanged DEF SameBatch
  <2>5. \A c \in DOMAIN batches : c # b => batches'[c] = batches[c]
    BY <2>2, <2>3
  <2>6. \A j \in DOMAIN manifest.phases : manifest.phases[j].imported =>
           batches'[manifest.phases[j].batch] = batches[manifest.phases[j].batch]
    <3>1. \A j \in DOMAIN manifest.phases :
            /\ manifest.phases[j].batch \in DOMAIN batches
            /\ manifest.phases[j].imported => Terminal(batches[manifest.phases[j].batch])
      BY <2>2 DEF RBShape, BatchInv
    <3> QED BY <2>3, <2>5, <3>1
  <2>7. Usages' = Usages
    BY <2>4, <2>6, UsagesKept
  <2> QED BY <2>1, <2>7 DEF CostInv, SumOf
<1>10. CASE ForceRestart
  <2>1. manifest \in Manifests /\ manifest' = [manifest EXCEPT !.active = NoPhase] /\ batches' = batches
    BY <1>10 DEF ForceRestart, RBShape, RBTypeOK
  <2>2. manifest'.phases = manifest.phases /\ manifest'.mode = manifest.mode /\ manifest'.cost = manifest.cost
    BY <2>1 DEF Manifests
  <2> QED BY <2>1, <2>2, CostStays
<1>11. CASE Fault
  BY <1>11, FaultShape, CostStays DEF Fault
<1>12. ASSUME NEW b \in DOMAIN batches, Finish(b) PROVE CostInv'
  <2>1. manifest' = manifest /\ \A c \in DOMAIN batches : Terminal(batches[c]) => batches'[c] = batches[c]
    BY <1>12, FinishShape, Zenon DEF Finish
  <2>2. \A j \in DOMAIN manifest.phases : manifest.phases[j].imported =>
           batches'[manifest.phases[j].batch] = batches[manifest.phases[j].batch]
    <3>1. \A j \in DOMAIN manifest.phases :
            /\ manifest.phases[j].batch \in DOMAIN batches
            /\ manifest.phases[j].imported => Terminal(batches[manifest.phases[j].batch])
      <4>1. DOMAIN batches = 1..Len(batches)
        BY DEF RBShape, RBTypeOK
      <4> QED BY <4>1 DEF RBShape, BatchInv
    <3> QED BY <2>1, <3>1
  <2>3. Usages' = Usages
    BY <2>1, <2>2, UsagesKept
  <2> QED BY <2>1, <2>3 DEF CostInv, SumOf
<1>13. ASSUME NEW i \in Contested, DecideByHand(i) PROVE CostInv'
  BY <1>13, CostStays DEF DecideByHand
<1>14. CASE UNCHANGED rbVars
  BY <1>14, CostStays DEF rbVars
<1> QED BY <1>1, <1>2, <1>3, <1>4, <1>5, <1>6, <1>7, <1>8, <1>9, <1>10, <1>11, <1>12, <1>13, <1>14
        DEF RBNext, Worker

\* The usage in the manifest is that of the imported batches, each counted once,
\* whatever fails between an import and its mark (review_automation.py).
THEOREM UsageIsCountedOnce == RBSpec => []UsageCountedOnce
<1>1. ASSUME RBInit PROVE CostInv
  <2>1. PICK mode \in Modes : manifest = NewManifest(mode)
    BY <1>1 DEF RBInit
  <2>2. manifest.phases = <<>> /\ manifest.cost = 0
    BY <2>1 DEF NewManifest
  <2>3. Usages = <<>>
    BY <2>2 DEF Usages
  <2>4. SumOf(<<>>) = 0
    <3>0. <<>> \in Seq(Nat) /\ Len(<<>>) = 0
      OBVIOUS
    <3>1. PICK s : Sums(<<>>, s)
      BY <3>0, SumsExist
    <3>2. SumOf(<<>>) = s[Len(<<>>)] /\ s[0] = 0
      <4>1. s[0] = 0
        BY <3>1 DEF Sums
      <4> QED BY <3>0, <3>1, <4>1, SumsGive
    <3> QED BY <3>0, <3>2
  <2> QED BY <2>2, <2>3, <2>4 DEF CostInv
<1>2. RBShape /\ CostInv => UsageCountedOnce
  BY DEF RBShape, BatchInv, CostInv, UsageCountedOnce
<1>3. RBShape /\ CostInv /\ [RBNext]_rbVars => CostInv'
  BY CostKept
<1> QED BY <1>1, <1>2, <1>3, RBShapeHolds, PTL DEF RBSpec

-------------------------------------------------------------------------------
(* NothingDropped.  The invariant speaks of given reports and batches, so that *)
(* a step's effect on them can be stated once for all of its parts.            *)

Offered == {"awaiting_calibration", "ready_to_admit"}

\* A test run is never offered for admission.
TestInv ==
  manifest.mode = "test" =>
    /\ manifest.status \notin Offered
    /\ work.step \in {"save", "import", "mark", "decide"} => work.m.status \notin Offered

Asks(bs, i, pass) == Cardinality({b \in DOMAIN bs : i \in bs[b].ids /\ bs[b].pass = pass})
Needs(rep, i, pass) ==
  pass = 1 \/ (rep[1][i] # "none" /\ ~(i \in Light /\ rep[1][i] = "approve"))
Answered(rep, bs, i, pass) == rep[pass][i] # "none" \/ Asks(bs, i, pass) > RETRIES
AskedOften(bs, S, pass, n) == \A i \in S : Asks(bs, i, pass) >= n

\* Up to a pass nobody is owed an answer, but for those in S.
Owed(rep, bs, pass, S) ==
  \A i \in Items, q \in 1..pass :
     Needs(rep, i, q) => Answered(rep, bs, i, q) \/ (q = pass /\ i \in S)

\* Phases follow each other by pass, retry and chunk; no name recurs.
Precedes(p, q) ==
  \/ p.pass < q.pass
  \/ p.pass = q.pass /\ p.retry < q.retry
  \/ p.pass = q.pass /\ p.retry = q.retry /\ p.chunk < q.chunk
Ordered(s) == \A j, k \in DOMAIN s : j < k => Precedes(s[j], s[k])
Follows(w) == \A k \in DOMAIN w.m.phases : Precedes(w.m.phases[k], w)
Newest(m) == m.phases[Len(m.phases)]

Waits(c) == {i \in Items : \E k \in DOMAIN c.remaining : i \in c.remaining[k]}
Rest(c) == Waits(c) \cup c.failed

\* The chunks that are remembered are those of the newest phase's retry.
ChunksInv(bs, c, p) ==
  IF c.on THEN /\ p.chunk # 0 /\ c.next > p.chunk
               /\ \A k \in DOMAIN c.remaining : c.remaining[k] # {}
               /\ AskedOften(bs, Waits(c), p.pass, p.retry)
               /\ AskedOften(bs, c.failed, p.pass, p.retry + 1)
  ELSE c = NoChunks

\* A run whose newest phase p is not over: S are the candidates it still owes.
Open(rep, bs, m, p, S) ==
  /\ m.active = p.name /\ m.status \notin Offered \cup {"creating"}
  /\ AskedOften(bs, p.ids, p.pass, p.retry + 1)
  /\ p.failed \subseteq p.ids
  /\ ChunksInv(bs, m.chunks, p)
  /\ Owed(rep, bs, p.pass, S \cup Rest(m.chunks))

Unsettled(p) == IF p.imported THEN p.failed ELSE p.ids

FileInv(m, rep, bs) ==
  /\ Ordered(m.phases)
  /\ m.active # NoPhase =>
       /\ m.status # "creating"
       /\ m.phases # <<>> /\ m.active = Newest(m).name
       /\ m.status \notin Settled \/ PendingChunks(m)
            => Open(rep, bs, m, Newest(m), Unsettled(Newest(m)))
  /\ m.status \in Offered => Owed(rep, bs, 2, {}) /\ m.chunks = NoChunks

\* What is submitted next: a pass, what failed of a phase, or the next chunk.
FullPass(w, rep, bs) ==
  /\ w.ids = Everything /\ w.retry = 0 /\ w.chunk = 0 /\ ~w.keep
  /\ w.m.chunks = NoChunks
  /\ Owed(rep, bs, w.pass - 1, {})
FailedOnes(w, rep, bs) ==
  /\ w.ids # {} /\ w.ids \subseteq Items
  /\ w.chunk = 0 /\ ~w.keep
  /\ w.m.chunks = NoChunks
  /\ AskedOften(bs, w.ids, w.pass, w.retry)
  /\ Owed(rep, bs, w.pass, w.ids)
FurtherChunk(w, rep, bs) ==
  /\ w.chunk # 0 /\ w.keep
  /\ w.m.chunks.on /\ w.m.chunks.remaining # <<>>
  /\ w.ids = Head(w.m.chunks.remaining) /\ w.chunk = w.m.chunks.next
  /\ \A k \in DOMAIN w.m.chunks.remaining : w.m.chunks.remaining[k] # {}
  /\ AskedOften(bs, Waits(w.m.chunks), w.pass, w.retry)
  /\ AskedOften(bs, w.m.chunks.failed, w.pass, w.retry + 1)
  /\ Owed(rep, bs, w.pass, Rest(w.m.chunks))
SubmitInv(w, rep, bs) ==
  Follows(w) /\ (FullPass(w, rep, bs) \/ FailedOnes(w, rep, bs) \/ FurtherChunk(w, rep, bs))

CreateInv(w, rows, n, rep, bs) ==
  /\ Follows(w)
  /\ AskedOften(bs, rows, w.pass, n)
  /\ ChunksInv(bs, NewChunks(w, rows), w)
  /\ Owed(rep, bs, w.pass, rows \cup Rest(NewChunks(w, rows)))

SaveInv(m, rep, bs) ==
  /\ m.active = NoPhase
  /\ m.status \in Offered => Owed(rep, bs, 2, {}) /\ m.chunks = NoChunks

ResultInv(m, k, S, rep, bs) ==
  /\ k = Len(m.phases) /\ m.status \in {"completed", "failed"}
  /\ Open(rep, bs, m, m.phases[k], S)

WorkInv(w, m, rep, bs) ==
  /\ w # NoWork => m.status \notin Offered
  /\ w.step = "submit" => SubmitInv(w, rep, bs)
  /\ w.step = "create" => CreateInv(w.w, w.rows, w.w.retry, rep, bs)
  /\ w.step = "record" => CreateInv(w.w, w.rows, w.w.retry + 1, rep, bs)
  /\ w.step = "save" => SaveInv(w.m, rep, bs)
  /\ w.step = "import" => ResultInv(w.m, w.k, w.m.phases[w.k].ids, rep, bs)
  /\ w.step = "mark" => ResultInv(w.m, w.k, w.m.phases[w.k].failed, rep, bs)
  /\ w.step = "decide" => ResultInv(w.m, w.k, w.m.phases[w.k].failed, rep, bs)

Untouched == undecided = Items /\ ~Restarted /\ manifest.mode # "test"
DropInv == Untouched => /\ FileInv(manifest, reports, batches)
                        /\ WorkInv(work, manifest, reports, batches)

Remembered == [on : BOOLEAN, remaining : Seq(SUBSET Items), failed : SUBSET Items, next : Nat]
Counted(bs) == \A i \in Items, p \in 1..2 : Asks(bs, i, p) \in Nat
Grown(bs, cs) ==
  /\ Counted(bs) /\ Counted(cs)
  /\ \A i \in Items, p \in 1..2 : Asks(cs, i, p) >= Asks(bs, i, p)

LEMMA AsksCounted ==
  ASSUME NEW bs \in Seq(Batches)
  PROVE  Counted(bs)
<1>1. ASSUME NEW i \in Items, NEW p \in 1..2 PROVE Asks(bs, i, p) \in Nat
  <2> DEFINE A == {b \in DOMAIN bs : i \in bs[b].ids /\ bs[b].pass = p}
  <2>1. A \subseteq 1..Len(bs) /\ Len(bs) \in Nat
    OBVIOUS
  <2> HIDE DEF A
  <2>2. IsFiniteSet(1..Len(bs))
    BY <2>1, FS_Interval
  <2>3. IsFiniteSet(A)
    BY <2>1, <2>2, FS_Subset
  <2>4. Cardinality(A) \in Nat
    BY <2>3, FS_CardinalityType
  <2> QED BY <2>4 DEF Asks, A
<1> QED BY <1>1 DEF Counted

LEMMA BatchesTyped ==
  ASSUME RBShape
  PROVE  batches \in Seq(Batches) /\ Counted(batches)
<1>1. batches \in Seq(Batches)
  BY DEF RBShape, RBTypeOK, Batches
<1> QED BY <1>1, AsksCounted

\* The state of a batch says nothing about who was asked.
LEMMA AsksSame ==
  ASSUME NEW bs, NEW cs, DOMAIN cs = DOMAIN bs,
         \A b \in DOMAIN bs : cs[b].ids = bs[b].ids /\ cs[b].pass = bs[b].pass
  PROVE  \A i \in Items, p \in 1..2 : Asks(cs, i, p) = Asks(bs, i, p)
<1>1. ASSUME NEW i \in Items, NEW p \in 1..2 PROVE Asks(cs, i, p) = Asks(bs, i, p)
  <2>1. {b \in DOMAIN cs : i \in cs[b].ids /\ cs[b].pass = p}
          = {b \in DOMAIN bs : i \in bs[b].ids /\ bs[b].pass = p}
    OBVIOUS
  <2> QED BY <2>1 DEF Asks
<1> QED BY <1>1

\* A new batch asks its candidates once more.
LEMMA AsksMore ==
  ASSUME NEW bs \in Seq(Batches), NEW x \in Batches
  PROVE  /\ Grown(bs, Append(bs, x))
         /\ \A i \in x.ids : Asks(Append(bs, x), i, x.pass) = Asks(bs, i, x.pass) + 1
<1> DEFINE cs == Append(bs, x)
           n == Len(bs)
<1>1. cs \in Seq(Batches) /\ DOMAIN cs = 1..(n + 1) /\ DOMAIN bs = 1..n /\ n \in Nat
      /\ cs[n + 1] = x /\ \A b \in 1..n : cs[b] = bs[b]
  OBVIOUS
<1> HIDE DEF cs, n
<1>2. Counted(bs) /\ Counted(cs)
  BY <1>1, AsksCounted
<1>3. ASSUME NEW i \in Items, NEW p \in 1..2
      PROVE  /\ Asks(cs, i, p) >= Asks(bs, i, p)
             /\ i \in x.ids /\ p = x.pass => Asks(cs, i, p) = Asks(bs, i, p) + 1
  <2> DEFINE A == {b \in DOMAIN bs : i \in bs[b].ids /\ bs[b].pass = p}
             B == {b \in DOMAIN cs : i \in cs[b].ids /\ cs[b].pass = p}
  <2>1. \A b \in DOMAIN cs : b = n + 1 \/ b \in DOMAIN bs
    BY <1>1
  <2>2. n + 1 \notin A
    BY <1>1
  <2>3. CASE i \in x.ids /\ p = x.pass
    <3>1. B = A \cup {n + 1}
      BY <1>1, <2>1, <2>3
    <3>2. IsFiniteSet(A)
      <4>1. A \subseteq 1..n /\ IsFiniteSet(1..n)
        BY <1>1, FS_Interval
      <4> HIDE DEF A
      <4> QED BY <4>1, FS_Subset
    <3>3. Cardinality(B) = Cardinality(A) + 1
      <4> HIDE DEF A, B
      <4> QED BY <2>2, <3>1, <3>2, FS_AddElement
    <3>4. Asks(cs, i, p) = Asks(bs, i, p) + 1
      BY <3>3 DEF Asks
    <3> QED BY <3>4, <1>2 DEF Counted
  <2>4. CASE ~(i \in x.ids /\ p = x.pass)
    <3>1. B = A
      BY <1>1, <2>1, <2>4
    <3>2. Asks(cs, i, p) = Asks(bs, i, p)
      BY <3>1 DEF Asks
    <3> QED BY <3>2, <2>4, <1>2 DEF Counted
  <2> QED BY <2>3, <2>4
<1>4. x.ids \in SUBSET Items /\ x.pass \in 1..2
  BY DEF Batches
<1>5. \A i \in x.ids : Asks(cs, i, x.pass) = Asks(bs, i, x.pass) + 1
  BY <1>3, <1>4
<1>6. Grown(bs, cs)
  BY <1>2, <1>3 DEF Grown
<1> QED BY <1>5, <1>6 DEF cs

LEMMA OwedKept ==
  ASSUME NEW rep, NEW bs, NEW cs, Grown(bs, cs), NEW pass \in 0..2, NEW S, NEW T,
         Owed(rep, bs, pass, S),
         \A i \in Items : i \in S => i \in T
  PROVE  Owed(rep, cs, pass, T)
<1>1. RETRIES \in Nat
  BY ReviewAssumption
<1>2. ASSUME NEW i \in Items, NEW q \in 1..pass, Needs(rep, i, q)
      PROVE  Answered(rep, cs, i, q) \/ (q = pass /\ i \in T)
  <2>1. Answered(rep, bs, i, q) \/ (q = pass /\ i \in S)
    BY <1>2 DEF Owed
  <2>2. q \in 1..2
    OBVIOUS
  <2>3. Asks(cs, i, q) >= Asks(bs, i, q) /\ Asks(bs, i, q) \in Nat /\ Asks(cs, i, q) \in Nat
    BY <2>2 DEF Grown, Counted
  <2> QED BY <1>1, <2>1, <2>3 DEF Answered
<1> QED BY <1>2 DEF Owed

\* Whoever is owed an answer and was asked often enough is owed none.
LEMMA OwedNoMore ==
  ASSUME NEW rep, NEW bs, NEW pass \in 1..2, NEW S, Counted(bs),
         NEW n \in Nat, ~(n < RETRIES), AskedOften(bs, S, pass, n + 1),
         Owed(rep, bs, pass, S)
  PROVE  Owed(rep, bs, pass, {})
<1>1. RETRIES \in Nat
  BY ReviewAssumption
<1>2. ASSUME NEW i \in Items, NEW q \in 1..pass, Needs(rep, i, q)
      PROVE  Answered(rep, bs, i, q)
  <2>1. Answered(rep, bs, i, q) \/ (q = pass /\ i \in S)
    BY <1>2 DEF Owed
  <2>2. ASSUME i \in S PROVE Asks(bs, i, pass) > RETRIES
    <3>1. Asks(bs, i, pass) >= n + 1 /\ Asks(bs, i, pass) \in Nat
      BY <2>2 DEF AskedOften, Counted
    <3> QED BY <1>1, <3>1
  <2> QED BY <2>1, <2>2 DEF Answered
<1> QED BY <1>2 DEF Owed

LEMMA AskedKept ==
  ASSUME NEW bs, NEW cs, Grown(bs, cs), NEW pass \in 1..2, NEW n \in Nat,
         NEW S, NEW T \in SUBSET Items, T \subseteq S, AskedOften(bs, S, pass, n)
  PROVE  AskedOften(cs, T, pass, n)
<1>1. ASSUME NEW i \in T PROVE Asks(cs, i, pass) >= n
  <2>1. Asks(bs, i, pass) >= n
    BY DEF AskedOften
  <2>2. Asks(cs, i, pass) >= Asks(bs, i, pass) /\ Asks(bs, i, pass) \in Nat /\ Asks(cs, i, pass) \in Nat
    BY DEF Grown, Counted
  <2> QED BY <2>1, <2>2
<1> QED BY <1>1 DEF AskedOften

LEMMA ChunksKept ==
  ASSUME NEW bs, NEW cs, Grown(bs, cs), NEW c \in Remembered, NEW p, p.pass \in 1..2, p.retry \in Nat,
         ChunksInv(bs, c, p)
  PROVE  ChunksInv(cs, c, p)
<1>1. CASE c.on
  <2>1. c.failed \in SUBSET Items /\ Waits(c) \in SUBSET Items /\ p.retry + 1 \in Nat
    BY DEF Remembered, Waits
  <2>2. AskedOften(bs, Waits(c), p.pass, p.retry) /\ AskedOften(bs, c.failed, p.pass, p.retry + 1)
    BY <1>1 DEF ChunksInv
  <2>3. AskedOften(cs, Waits(c), p.pass, p.retry)
    BY <2>1, <2>2, AskedKept
  <2>4. AskedOften(cs, c.failed, p.pass, p.retry + 1)
    BY <2>1, <2>2, AskedKept
  <2> QED BY <1>1, <2>3, <2>4 DEF ChunksInv
<1>2. CASE ~c.on
  BY <1>2 DEF ChunksInv
<1> QED BY <1>1, <1>2

\* Who waits for a chunk or failed in one is a candidate.
LEMMA RestTyped ==
  ASSUME NEW c \in Remembered
  PROVE  Waits(c) \in SUBSET Items /\ Rest(c) \in SUBSET Items /\ Rest(NoChunks) = {}
<1>1. Waits(NoChunks) = {}
  BY DEF Waits, NoChunks
<1> QED BY <1>1 DEF Waits, Rest, Remembered, NoChunks

LEMMA OpenKept ==
  ASSUME NEW rep, NEW bs, NEW cs, Grown(bs, cs), NEW m \in Manifests, NEW p \in Phases,
         NEW S, Open(rep, bs, m, p, S)
  PROVE  Open(rep, cs, m, p, S)
<1>1. p.pass \in 1..2 /\ p.retry \in Nat /\ p.ids \in SUBSET Items /\ p.retry + 1 \in Nat
  BY DEF Phases
<1>2. m.chunks \in Remembered
  BY DEF Manifests, Remembered
<1>3. ChunksInv(cs, m.chunks, p)
  BY <1>1, <1>2, ChunksKept DEF Open
<1>4. AskedOften(cs, p.ids, p.pass, p.retry + 1)
  BY <1>1, AskedKept DEF Open
<1>5. Owed(rep, cs, p.pass, S \cup Rest(m.chunks))
  <2>1. p.pass \in 0..2 /\ Owed(rep, bs, p.pass, S \cup Rest(m.chunks))
    BY <1>1 DEF Open
  <2> QED BY <2>1, OwedKept
<1> QED BY <1>3, <1>4, <1>5 DEF Open

LEMMA NewestTyped ==
  ASSUME NEW m \in Manifests, m.phases # <<>>
  PROVE  /\ Newest(m) \in Phases /\ Len(m.phases) \in DOMAIN m.phases
         /\ Newest(m) = m.phases[Len(m.phases)]
<1>1. m.phases \in Seq(Phases)
  BY DEF Manifests
<1> QED BY <1>1 DEF Newest

LEMMA FileKept ==
  ASSUME NEW rep, NEW bs, NEW cs, Grown(bs, cs), NEW m \in Manifests, FileInv(m, rep, bs)
  PROVE  FileInv(m, rep, cs)
<1>1. ASSUME m.status \in Offered PROVE Owed(rep, cs, 2, {})
  <2>1. 2 \in 0..2 /\ Owed(rep, bs, 2, {})
    BY <1>1 DEF FileInv
  <2> QED BY <2>1, OwedKept
<1>2. ASSUME m.active # NoPhase, m.status \notin Settled \/ PendingChunks(m)
      PROVE  Open(rep, cs, m, Newest(m), Unsettled(Newest(m)))
  <2>1. m.phases # <<>> /\ Open(rep, bs, m, Newest(m), Unsettled(Newest(m)))
    BY <1>2 DEF FileInv
  <2>2. Newest(m) \in Phases
    BY <2>1, NewestTyped
  <2> QED BY <2>1, <2>2, OpenKept
<1> QED BY <1>1, <1>2 DEF FileInv

LEMMA NewChunksTyped ==
  ASSUME NEW w \in Submissions, NEW rows \in SUBSET Items
  PROVE  NewChunks(w, rows) \in Remembered
<1>1. 0 \in Nat
  OBVIOUS
<1>2. Recorded(w, rows, 0) \in Manifests /\ Recorded(w, rows, 0).chunks = NewChunks(w, rows)
  BY <1>1, RecordedGives
<1> QED BY <1>2 DEF Manifests, Remembered

LEMMA SubmitKept ==
  ASSUME NEW rep, NEW bs, NEW cs, Grown(bs, cs), NEW w \in Submissions, SubmitInv(w, rep, bs)
  PROVE  SubmitInv(w, rep, cs)
<1>1. w.pass \in 1..2 /\ w.pass \in 0..2 /\ w.pass - 1 \in 0..2 /\ w.retry \in Nat
      /\ w.retry + 1 \in Nat /\ w.m.chunks \in Remembered
  BY DEF Submissions, Manifests, Remembered
<1>2. ASSUME FullPass(w, rep, bs) PROVE FullPass(w, rep, cs)
  <2>1. Owed(rep, cs, w.pass - 1, {})
    BY <1>1, <1>2, OwedKept DEF FullPass
  <2> QED BY <1>2, <2>1 DEF FullPass
<1>3. ASSUME FailedOnes(w, rep, bs) PROVE FailedOnes(w, rep, cs)
  <2>1. w.ids \in SUBSET Items /\ AskedOften(bs, w.ids, w.pass, w.retry) /\ Owed(rep, bs, w.pass, w.ids)
    BY <1>3 DEF FailedOnes
  <2>2. AskedOften(cs, w.ids, w.pass, w.retry)
    BY <1>1, <2>1, AskedKept
  <2>3. Owed(rep, cs, w.pass, w.ids)
    BY <1>1, <2>1, OwedKept
  <2> QED BY <1>3, <2>2, <2>3 DEF FailedOnes
<1>4. ASSUME FurtherChunk(w, rep, bs) PROVE FurtherChunk(w, rep, cs)
  <2> DEFINE c == w.m.chunks
  <2>1. Waits(c) \in SUBSET Items /\ c.failed \in SUBSET Items
    BY <1>1, RestTyped DEF Remembered
  <2>2. /\ AskedOften(bs, Waits(c), w.pass, w.retry) /\ AskedOften(bs, c.failed, w.pass, w.retry + 1)
        /\ Owed(rep, bs, w.pass, Rest(c))
    BY <1>4 DEF FurtherChunk
  <2> HIDE DEF c
  <2>3. AskedOften(cs, Waits(c), w.pass, w.retry)
    BY <1>1, <2>1, <2>2, AskedKept
  <2>4. AskedOften(cs, c.failed, w.pass, w.retry + 1)
    BY <1>1, <2>1, <2>2, AskedKept
  <2>5. Owed(rep, cs, w.pass, Rest(c))
    BY <1>1, <2>2, OwedKept
  <2> QED BY <1>4, <2>3, <2>4, <2>5 DEF FurtherChunk, c
<1> QED BY <1>2, <1>3, <1>4 DEF SubmitInv

LEMMA CreateKept ==
  ASSUME NEW rep, NEW bs, NEW cs, Grown(bs, cs), NEW w \in Submissions, NEW rows \in SUBSET Items,
         NEW n \in Nat, NEW l \in Nat, CreateInv(w, rows, n, rep, bs), AskedOften(cs, rows, w.pass, l)
  PROVE  CreateInv(w, rows, l, rep, cs)
<1> DEFINE c == NewChunks(w, rows)
<1>1. w.pass \in 1..2 /\ w.pass \in 0..2 /\ w.retry \in Nat /\ c \in Remembered
  BY NewChunksTyped DEF Submissions
<1>2. Follows(w) /\ ChunksInv(bs, c, w) /\ Owed(rep, bs, w.pass, rows \cup Rest(c))
  BY DEF CreateInv
<1> HIDE DEF c
<1>3. ChunksInv(cs, c, w)
  BY <1>1, <1>2, ChunksKept
<1>4. Owed(rep, cs, w.pass, rows \cup Rest(c))
  BY <1>1, <1>2, OwedKept
<1> QED BY <1>2, <1>3, <1>4 DEF CreateInv, c

LEMMA SaveKept ==
  ASSUME NEW rep, NEW bs, NEW cs, Grown(bs, cs), NEW m, SaveInv(m, rep, bs)
  PROVE  SaveInv(m, rep, cs)
<1>1. ASSUME m.status \in Offered PROVE Owed(rep, cs, 2, {})
  <2>1. 2 \in 0..2 /\ Owed(rep, bs, 2, {})
    BY <1>1 DEF SaveInv
  <2> QED BY <2>1, OwedKept
<1> QED BY <1>1 DEF SaveInv

LEMMA ResultKept ==
  ASSUME NEW rep, NEW bs, NEW cs, Grown(bs, cs), NEW m \in Manifests, NEW k \in DOMAIN m.phases,
         NEW S, ResultInv(m, k, S, rep, bs)
  PROVE  ResultInv(m, k, S, rep, cs)
<1>1. m.phases[k] \in Phases
  BY PhasesWith
<1>2. Open(rep, bs, m, m.phases[k], S)
  BY DEF ResultInv
<1>3. Open(rep, cs, m, m.phases[k], S)
  BY <1>1, <1>2, OpenKept
<1> QED BY <1>3 DEF ResultInv

LEMMA WorkKept ==
  ASSUME RBShape, NEW rep, NEW bs, NEW cs, Grown(bs, cs), WorkInv(work, manifest, rep, bs)
  PROVE  WorkInv(work, manifest, rep, cs)
<1>1. CASE work.step = "submit"
  <2>1. work \in Submissions /\ SubmitInv(work, rep, bs)
    BY <1>1, WorkKinds DEF RBShape, WorkInv
  <2>2. SubmitInv(work, rep, cs)
    BY <2>1, SubmitKept
  <2> QED BY <1>1, <2>2 DEF WorkInv
<1>2. CASE work.step \in {"create", "record"}
  <2>1. work.rows \in SUBSET Items /\ work.w \in Submissions /\ work.w.pass \in 1..2
        /\ work.w.retry \in Nat /\ work.w.retry + 1 \in Nat
    BY <1>2, WorkKinds DEF RBShape, Submissions
  <2>2. ASSUME NEW n \in Nat, CreateInv(work.w, work.rows, n, rep, bs)
        PROVE  CreateInv(work.w, work.rows, n, rep, cs)
    <3>1. AskedOften(bs, work.rows, work.w.pass, n)
      BY <2>2 DEF CreateInv
    <3>2. AskedOften(cs, work.rows, work.w.pass, n)
      BY <2>1, <3>1, AskedKept
    <3> QED BY <2>1, <2>2, <3>2, CreateKept
  <2> QED BY <1>2, <2>1, <2>2 DEF WorkInv
<1>3. CASE work.step = "save"
  <2>1. SaveInv(work.m, rep, cs)
    BY <1>3, SaveKept DEF WorkInv
  <2> QED BY <1>3, <2>1 DEF WorkInv
<1>4. CASE work.step \in {"import", "mark", "decide"}
  <2>1. work.m \in Manifests /\ work.k \in DOMAIN work.m.phases
    BY <1>4, ResultsHeld
  <2>2. \A S : ResultInv(work.m, work.k, S, rep, bs) => ResultInv(work.m, work.k, S, rep, cs)
    BY <2>1, ResultKept
  <2> QED BY <1>4, <2>2 DEF WorkInv
<1>5. CASE work.step = "idle"
  BY <1>5 DEF WorkInv
<1>6. work.step \in {"idle", "submit", "create", "record", "save", "import", "mark", "decide"}
  BY WorkKinds DEF RBShape
<1> QED BY <1>1, <1>2, <1>3, <1>4, <1>5, <1>6

-------------------------------------------------------------------------------
\* What the worker has before it when a phase or a pass is over.
NextInv(w, rep, bs) ==
  \/ w \in Submissions /\ SubmitInv(w, rep, bs)
  \/ w.step = "save" /\ SaveInv(w.m, rep, bs)

LEMMA NextGives ==
  ASSUME NEW w, NEW m, NEW rep, NEW bs, NextInv(w, rep, bs), m.status \notin Offered
  PROVE  WorkInv(w, m, rep, bs)
<1>1. CASE w \in Submissions /\ SubmitInv(w, rep, bs)
  <2>1. w.step = "submit"
    BY <1>1 DEF Submissions
  <2> QED BY <1>1, <2>1 DEF WorkInv
<1>2. CASE w.step = "save" /\ SaveInv(w.m, rep, bs)
  BY <1>2 DEF WorkInv
<1> QED BY <1>1, <1>2 DEF NextInv

LEMMA AdvanceDrops ==
  ASSUME NEW rep, NEW bs, NEW m \in Manifests, NEW pass \in 1..2, m.mode # "test",
         m.chunks = NoChunks, Owed(rep, bs, pass, {}),
         \A k \in DOMAIN m.phases : m.phases[k].pass <= pass
  PROVE  NextInv(Advance([m EXCEPT !.active = NoPhase], pass), rep, bs)
<1> DEFINE n == [m EXCEPT !.active = NoPhase]
           w == Advance(n, pass)
<1>1. n \in Manifests /\ n.phases = m.phases /\ n.chunks = NoChunks
  BY ManifestsWith, Zenon DEF Manifests
<1> HIDE DEF n
<1>2. CASE pass = 1 /\ Advance(n, pass) = Retry(n, 2, Everything, 0) /\ Advance(n, pass) \in Submissions
  <2>1. /\ w.m = n /\ w.pass = 2 /\ w.ids = Everything /\ w.retry = 0 /\ w.chunk = 0 /\ w.keep = FALSE
    BY <1>2 DEF Retry
  <2>2. w \in Submissions
    BY <1>2
  <2> HIDE DEF w
  <2>3. Follows(w)
    <3>1. ASSUME NEW k \in DOMAIN w.m.phases PROVE w.m.phases[k].pass < w.pass
      <4>1. m.phases[k].pass <= 1 /\ m.phases[k] \in Phases
        BY <1>1, <1>2, <2>1, PhasesWith
      <4> QED BY <1>1, <2>1, <4>1 DEF Phases
    <3> QED BY <3>1 DEF Follows, Precedes
  <2>4. FullPass(w, rep, bs)
    <3>1. w.pass - 1 = pass
      BY <1>2, <2>1
    <3> QED BY <1>1, <2>1, <3>1 DEF FullPass
  <2> QED BY <2>2, <2>3, <2>4 DEF NextInv, SubmitInv, w, n
<1>3. ASSUME NEW s \in Statuses,
             Advance(n, pass) = [step |-> "save", m |-> [n EXCEPT !.active = NoPhase, !.status = s]],
             s \in {"awaiting_calibration", "ready_to_admit"} => pass = 2
      PROVE  NextInv(w, rep, bs)
  <2> DEFINE l == [n EXCEPT !.active = NoPhase, !.status = s]
  <2>1. l.active = NoPhase /\ l.status = s /\ l.chunks = NoChunks
    BY <1>1 DEF Manifests
  <2> HIDE DEF l
  <2>2. w = [step |-> "save", m |-> l]
    BY <1>3 DEF l
  <2>3. w.step = "save" /\ w.m = l
    BY <2>2
  <2>4. SaveInv(l, rep, bs)
    BY <1>3, <2>1 DEF SaveInv, Offered
  <2> QED BY <2>3, <2>4 DEF NextInv
<1> QED BY <1>1, <1>2, <1>3, AdvanceGives, Zenon DEF n

LEMMA AfterDrops ==
  ASSUME NEW rep, NEW bs, Counted(bs), NEW m \in Manifests, NEW phase \in Phases,
         NEW F \in SUBSET Items, m.mode # "test", m.chunks = NoChunks,
         AskedOften(bs, F, phase.pass, phase.retry + 1), Owed(rep, bs, phase.pass, F),
         \A k \in DOMAIN m.phases : m.phases[k] = phase \/ Precedes(m.phases[k], phase)
  PROVE  NextInv(AfterPhase(m, phase, F), rep, bs)
<1> DEFINE w == AfterPhase(m, phase, F)
<1>1. phase.pass \in 1..2 /\ phase.retry \in Nat /\ phase.retry + 1 \in Nat /\ phase.chunk \in Nat
  BY DEF Phases
<1>2. \A k \in DOMAIN m.phases : /\ m.phases[k].pass \in 1..2 /\ m.phases[k].retry \in Nat
                                 /\ m.phases[k].chunk \in Nat
  BY PhasesWith DEF Phases
<1>3. CASE F # {} /\ phase.retry < RETRIES
  <2>1. w = Retry(m, phase.pass, F, phase.retry + 1)
    BY <1>3 DEF AfterPhase
  <2>2. w \in Submissions
    BY <1>1, <2>1, RetryIsSubmission
  <2>3. w.m = m /\ w.pass = phase.pass /\ w.ids = F /\ w.retry = phase.retry + 1 /\ w.chunk = 0 /\ w.keep = FALSE
    BY <2>1 DEF Retry
  <2> HIDE DEF w
  <2>4. Follows(w)
    <3>1. ASSUME NEW k \in DOMAIN m.phases PROVE Precedes(m.phases[k], w)
      <4>1. CASE m.phases[k] = phase
        BY <1>1, <2>3, <4>1 DEF Precedes
      <4>2. CASE Precedes(m.phases[k], phase)
        BY <1>1, <1>2, <2>3, <4>2 DEF Precedes
      <4> QED BY <4>1, <4>2
    <3> QED BY <2>3, <3>1 DEF Follows
  <2>5. FailedOnes(w, rep, bs)
    BY <1>3, <2>3 DEF FailedOnes
  <2> QED BY <2>2, <2>4, <2>5 DEF NextInv, SubmitInv, w
<1>4. CASE ~(F # {} /\ phase.retry < RETRIES)
  <2>1. w = Advance([m EXCEPT !.active = NoPhase], phase.pass)
    BY <1>4 DEF AfterPhase
  <2>2. Owed(rep, bs, phase.pass, {})
    <3>1. CASE F = {}
      BY <3>1
    <3>2. CASE ~(phase.retry < RETRIES)
      BY <1>1, <3>2, OwedNoMore
    <3> QED BY <1>4, <3>1, <3>2
  <2>3. \A k \in DOMAIN m.phases : m.phases[k].pass <= phase.pass
    BY <1>1, <1>2 DEF Precedes
  <2> QED BY <1>1, <2>1, <2>2, <2>3, AdvanceDrops
<1> QED BY <1>3, <1>4

LEMMA SameGrown ==
  ASSUME NEW bs, Counted(bs)
  PROVE  Grown(bs, bs)
<1>1. ASSUME NEW i \in Items, NEW p \in 1..2 PROVE Asks(bs, i, p) >= Asks(bs, i, p)
  <2>1. Asks(bs, i, p) \in Nat
    BY DEF Counted
  <2> QED BY <2>1
<1> QED BY <1>1 DEF Grown

\* While nobody decides by hand, a retry asks all it names and a pass all that need it.
LEMMA RowsAll ==
  ASSUME undecided = Items, NEW pass \in 1..2
  PROVE  /\ Rows(pass, Everything) = {i \in Items : Needs(reports, i, pass) /\ reports[pass][i] = "none"}
         /\ \A ids \in SUBSET Items : Rows(pass, ids) = ids /\ ids # Everything
<1>1. \A ids \in SUBSET Items : ids # Everything
  <2>1. 0 \in Everything /\ 0 \notin Items
    BY DEF Everything, Items
  <2> QED BY <2>1
<1>2. \A ids \in SUBSET Items : Rows(pass, ids) = ids
  BY <1>1 DEF Rows
<1>3. Items \cap Everything = Items
  BY DEF Everything
<1>4. Rows(pass, Everything) =
        {i \in Items : /\ reports[pass][i] = "none"
                       /\ pass = 2 => reports[1][i] # "none" /\ ~(i \in Light /\ reports[1][i] = "approve")}
  BY <1>3 DEF Rows
<1>5. \A i \in Items : Needs(reports, i, pass) <=>
         (pass = 2 => reports[1][i] # "none" /\ ~(i \in Light /\ reports[1][i] = "approve"))
  BY DEF Needs
<1>6. Rows(pass, Everything) = {i \in Items : Needs(reports, i, pass) /\ reports[pass][i] = "none"}
  BY <1>4, <1>5
<1> QED BY <1>1, <1>2, <1>6

LEMMA PreparedIs ==
  ASSUME NEW w \in Submissions, NEW rows \in SUBSET Items
  PROVE  LET v == Prepared(w, rows)
             cs == Chunks(rows) IN
         /\ v.step = "create" /\ v.w.m.phases = w.m.phases
         /\ v.w.pass = w.pass /\ v.w.retry = w.retry /\ v.w.keep = w.keep
         /\ \/ /\ v.rows = rows /\ v.w.chunk = w.chunk
               /\ v.w.m.chunks = IF w.keep \/ w.chunk # 0 THEN w.m.chunks ELSE NoChunks
            \/ /\ w.ids # Everything /\ w.chunk = 0 /\ Cardinality(rows) > CHUNK
               /\ v.rows = cs[1] /\ v.w.chunk = 1
               /\ v.w.m.chunks = [on |-> TRUE, remaining |-> Tail(cs), failed |-> {}, next |-> 2]
<1> DEFINE v == Prepared(w, rows)
           cs == Chunks(rows)
           c == [on |-> TRUE, remaining |-> Tail(cs), failed |-> {}, next |-> 2]
<1>1. w.m \in Manifests
  BY DEF Submissions
<1>2. CASE w.ids # Everything /\ w.chunk = 0 /\ Cardinality(rows) > CHUNK
  <2> DEFINE n == [w.m EXCEPT !.chunks = c]
             u == [w EXCEPT !.chunk = 1, !.m = n]
  <2>1. v = [step |-> "create", rows |-> cs[1], w |-> [w EXCEPT !.chunk = 1, !.m.chunks = c]]
    BY <1>2 DEF Prepared
  <2> HIDE DEF c, cs
  <2>2. [w EXCEPT !.chunk = 1, !.m.chunks = c] = u
    BY DEF Submissions
  <2>3. n.phases = w.m.phases /\ n.chunks = c
    BY <1>1 DEF Manifests
  <2> HIDE DEF n
  <2>4. u.m = n /\ u.chunk = 1 /\ u.pass = w.pass /\ u.retry = w.retry /\ u.keep = w.keep
    BY DEF Submissions
  <2> HIDE DEF u, v
  <2>5. v.step = "create" /\ v.rows = cs[1] /\ v.w = u
    BY <2>1, <2>2
  <2> QED BY <1>2, <2>3, <2>4, <2>5 DEF c, cs, v
<1>3. CASE ~(w.ids # Everything /\ w.chunk = 0 /\ Cardinality(rows) > CHUNK)
  <2> DEFINE n == [w.m EXCEPT !.chunks = NoChunks]
             u == [w EXCEPT !.m = n]
  <2>1. v = [step |-> "create", rows |-> rows,
             w |-> IF w.keep \/ w.chunk # 0 THEN w ELSE [w EXCEPT !.m.chunks = NoChunks]]
    BY <1>3 DEF Prepared
  <2>2. [w EXCEPT !.m.chunks = NoChunks] = u
    BY DEF Submissions
  <2>3. n.phases = w.m.phases /\ n.chunks = NoChunks
    BY <1>1 DEF Manifests
  <2> HIDE DEF n
  <2>4. u.m = n /\ u.chunk = w.chunk /\ u.pass = w.pass /\ u.retry = w.retry /\ u.keep = w.keep
    BY DEF Submissions
  <2> HIDE DEF u, v, c, cs
  <2>5. v.step = "create" /\ v.rows = rows /\ v.w = IF w.keep \/ w.chunk # 0 THEN w ELSE u
    BY <2>1, <2>2
  <2> QED BY <2>3, <2>4, <2>5 DEF v
<1> QED BY <1>2, <1>3

LEMMA PreparedDrops ==
  ASSUME NEW rep, NEW bs, Counted(bs), NEW w \in Submissions, SubmitInv(w, rep, bs),
         NEW rows \in SUBSET Items,
         FullPass(w, rep, bs) => Owed(rep, bs, w.pass, rows),
         w.ids # Everything => rows = w.ids
  PROVE  LET v == Prepared(w, rows) IN
         v.step = "create" /\ CreateInv(v.w, v.rows, v.w.retry, rep, bs)
<1> DEFINE v == Prepared(w, rows)
           cs == Chunks(rows)
           c == [on |-> TRUE, remaining |-> Tail(cs), failed |-> {}, next |-> 2]
           Small == /\ v.rows = rows /\ v.w.chunk = w.chunk
                    /\ v.w.m.chunks = IF w.keep \/ w.chunk # 0 THEN w.m.chunks ELSE NoChunks
           Large == /\ w.ids # Everything /\ w.chunk = 0 /\ Cardinality(rows) > CHUNK
                    /\ v.rows = cs[1] /\ v.w.chunk = 1
                    /\ v.w.m.chunks = c
<1>1. /\ v.step = "create" /\ v.w.m.phases = w.m.phases
      /\ v.w.pass = w.pass /\ v.w.retry = w.retry /\ v.w.keep = w.keep
      /\ Small \/ Large
  BY PreparedIs
<1>2. w.pass \in 1..2 /\ w.pass \in 0..2 /\ w.retry \in Nat /\ w.retry + 1 \in Nat /\ w.chunk \in Nat
      /\ w.m \in Manifests /\ w.m.chunks \in Remembered
  BY DEF Submissions, Manifests, Remembered
<1>3. \A k \in DOMAIN w.m.phases : w.m.phases[k].chunk \in Nat
  BY <1>2, PhasesWith DEF Phases
<1>4. Grown(bs, bs)
  BY SameGrown
<1>5. Follows(w)
  BY DEF SubmitInv
<1> SUFFICES v.step = "create" /\ CreateInv(v.w, v.rows, v.w.retry, rep, bs)
  OBVIOUS
<1> HIDE DEF v, cs
<1>6. Follows(v.w)
  <2>1. v.w.chunk >= w.chunk /\ v.w.chunk \in Nat
    BY <1>1, <1>2
  <2>2. ASSUME NEW k \in DOMAIN w.m.phases PROVE Precedes(w.m.phases[k], v.w)
    BY <1>1, <1>2, <1>3, <1>5, <2>1 DEF Follows, Precedes
  <2> QED BY <1>1, <2>2 DEF Follows
<1>7. CASE FullPass(w, rep, bs)
  <2>1. w.ids = Everything /\ w.keep = FALSE /\ w.retry = 0 /\ w.chunk = 0
    BY <1>2, <1>7 DEF FullPass, Submissions
  <2>2. v.rows = rows /\ v.w.m.chunks = NoChunks
    BY <1>1, <2>1
  <2>3. NewChunks(v.w, v.rows) = NoChunks
    BY <1>1, <2>1, <2>2 DEF NewChunks
  <2>4. AskedOften(bs, rows, w.pass, 0)
    BY <1>2 DEF AskedOften, Counted
  <2>5. Owed(rep, bs, w.pass, rows \cup Rest(NoChunks))
    BY <1>2, <1>4, <1>7, OwedKept
  <2>6. ChunksInv(bs, NoChunks, v.w)
    BY DEF ChunksInv, NoChunks
  <2> QED BY <1>1, <1>6, <2>1, <2>2, <2>3, <2>4, <2>5, <2>6 DEF CreateInv
<1>8. CASE FailedOnes(w, rep, bs) /\ Small
  <2>1. rows = w.ids /\ w.keep = FALSE /\ w.chunk = 0
        /\ AskedOften(bs, rows, w.pass, w.retry) /\ Owed(rep, bs, w.pass, rows)
    <3>1. w.ids # Everything
      <4>1. 0 \in Everything /\ 0 \notin Items
        BY DEF Everything, Items
      <4> QED BY <1>8, <4>1 DEF FailedOnes
    <3> QED BY <1>8, <3>1 DEF FailedOnes, Submissions
  <2>2. v.rows = rows /\ v.w.m.chunks = NoChunks
    BY <1>8, <2>1
  <2>3. NewChunks(v.w, v.rows) = NoChunks
    BY <1>1, <2>1, <2>2 DEF NewChunks
  <2>4. Owed(rep, bs, w.pass, rows \cup Rest(NoChunks))
    BY <1>2, <1>4, <2>1, OwedKept
  <2>5. ChunksInv(bs, NoChunks, v.w)
    BY DEF ChunksInv, NoChunks
  <2> QED BY <1>1, <1>6, <2>1, <2>2, <2>3, <2>4, <2>5 DEF CreateInv
<1>9. CASE FailedOnes(w, rep, bs) /\ Large
  <2>1. rows = w.ids /\ w.keep = FALSE
        /\ AskedOften(bs, rows, w.pass, w.retry) /\ Owed(rep, bs, w.pass, rows)
    BY <1>9 DEF FailedOnes, Submissions
  <2>2. /\ cs \in Seq((SUBSET rows) \ {{}}) /\ Len(cs) \in Nat /\ Len(cs) > 0
        /\ \A i \in rows : \E k \in 1..Len(cs) : i \in cs[k]
    BY <1>9, ChunksShare DEF cs
  <2>3. /\ v.rows = cs[1] /\ v.w.m.chunks = c /\ v.w.chunk = 1
    BY <1>9
  <2>4. /\ DOMAIN Tail(cs) = 1..(Len(cs) - 1) /\ Tail(cs) \in Seq((SUBSET rows) \ {{}})
        /\ \A k \in 1..(Len(cs) - 1) : Tail(cs)[k] = cs[k + 1]
    BY <2>2
  <2>5. cs[1] \in SUBSET rows
    BY <2>2
  <2>6. c.on = TRUE /\ c.remaining = Tail(cs) /\ c.failed = {} /\ c.next = 2
    OBVIOUS
  <2> HIDE DEF c
  <2>7. Waits(c) \in SUBSET rows
    BY <2>4, <2>6 DEF Waits
  <2>8. \A i \in rows : i \in cs[1] \/ i \in Waits(c)
    <3>1. ASSUME NEW i \in rows, i \notin cs[1] PROVE i \in Waits(c)
      <4>1. PICK k \in 1..Len(cs) : i \in cs[k]
        BY <2>2
      <4>2. k # 1
        BY <3>1, <4>1
      <4>3. k - 1 \in 1..(Len(cs) - 1) /\ (k - 1) + 1 = k
        BY <2>2, <4>2
      <4>4. i \in Tail(cs)[k - 1]
        BY <2>4, <4>1, <4>3
      <4> QED BY <2>4, <2>6, <4>3, <4>4 DEF Waits
    <3> QED BY <3>1
  <2>9. NewChunks(v.w, v.rows) = c
    BY <1>1, <2>1, <2>3 DEF NewChunks
  <2>10. AskedOften(bs, cs[1], w.pass, w.retry) /\ AskedOften(bs, Waits(c), w.pass, w.retry)
    BY <2>1, <2>5, <2>7 DEF AskedOften
  <2>11. Owed(rep, bs, w.pass, cs[1] \cup Rest(c))
    <3>1. \A i \in Items : i \in rows => i \in cs[1] \cup Rest(c)
      BY <2>8 DEF Rest
    <3> QED BY <1>2, <1>4, <2>1, <3>1, OwedKept
  <2>12. ChunksInv(bs, c, v.w)
    <3>1. \A k \in DOMAIN c.remaining : c.remaining[k] # {}
      BY <2>4, <2>6
    <3>2. AskedOften(bs, c.failed, w.pass, w.retry + 1)
      BY <2>6 DEF AskedOften
    <3> QED BY <1>1, <2>3, <2>6, <2>10, <3>1, <3>2 DEF ChunksInv
  <2> QED BY <1>1, <1>6, <2>3, <2>9, <2>10, <2>11, <2>12 DEF CreateInv
<1>10. CASE FurtherChunk(w, rep, bs)
  <2> DEFINE d == w.m.chunks
             e == ChunksAfter(d, rows, w.chunk)
  <2>1. /\ w.chunk # 0 /\ w.keep = TRUE /\ d.on /\ d.remaining # <<>> /\ w.ids = Head(d.remaining)
        /\ \A k \in DOMAIN d.remaining : d.remaining[k] # {}
        /\ AskedOften(bs, Waits(d), w.pass, w.retry) /\ AskedOften(bs, d.failed, w.pass, w.retry + 1)
        /\ Owed(rep, bs, w.pass, Rest(d))
    BY <1>10 DEF FurtherChunk, Submissions
  <2>2. d.remaining \in Seq(SUBSET Items) /\ d \in Remembered
    BY <1>2 DEF Remembered
  <2>3. Head(d.remaining) \in SUBSET Items /\ Tail(d.remaining) \in Seq(SUBSET Items)
        /\ Head(d.remaining) = d.remaining[1] /\ 1 \in DOMAIN d.remaining
        /\ DOMAIN Tail(d.remaining) = 1..(Len(d.remaining) - 1) /\ Len(d.remaining) \in Nat
        /\ DOMAIN d.remaining = 1..Len(d.remaining)
        /\ \A k \in 1..(Len(d.remaining) - 1) : Tail(d.remaining)[k] = d.remaining[k + 1]
    BY <2>1, <2>2
  <2>4. rows = Head(d.remaining)
    <3>1. w.ids # Everything
      <4>1. 0 \in Everything /\ 0 \notin Items
        BY DEF Everything, Items
      <4> QED BY <2>1, <2>3, <4>1
    <3> QED BY <2>1, <3>1
  <2>5. v.rows = rows /\ v.w.m.chunks = d /\ v.w.chunk = w.chunk
    BY <1>1, <2>1
  <2>6. /\ e.on = TRUE /\ e.remaining = Tail(d.remaining) /\ e.failed = d.failed /\ e.next = w.chunk + 1
    BY <2>1, <2>2, <2>4 DEF ChunksAfter, Remembered
  <2>7. NewChunks(v.w, v.rows) = e
    BY <1>1, <2>1, <2>5 DEF NewChunks
  <2> HIDE DEF e, d
  <2>8. rows \subseteq Waits(d) /\ Waits(e) \subseteq Waits(d)
    <3>1. ASSUME NEW i \in Items, NEW k \in DOMAIN Tail(d.remaining), i \in Tail(d.remaining)[k]
          PROVE  i \in Waits(d)
      <4>1. k + 1 \in DOMAIN d.remaining /\ i \in d.remaining[k + 1]
        BY <2>3, <3>1
      <4> QED BY <4>1 DEF Waits
    <3>2. rows \subseteq Waits(d)
      BY <2>3, <2>4 DEF Waits
    <3> QED BY <2>6, <3>1, <3>2 DEF Waits
  <2>9. \A i \in Waits(d) : i \in rows \/ i \in Waits(e)
    <3>1. ASSUME NEW i \in Items, NEW k \in DOMAIN d.remaining, i \in d.remaining[k], k # 1
          PROVE  i \in Waits(e)
      <4>1. k - 1 \in DOMAIN Tail(d.remaining) /\ (k - 1) + 1 = k
        BY <2>3, <3>1
      <4>2. i \in Tail(d.remaining)[k - 1]
        BY <2>3, <3>1, <4>1
      <4> QED BY <2>6, <4>1, <4>2 DEF Waits
    <3> QED BY <2>3, <2>4, <3>1 DEF Waits
  <2>10. AskedOften(bs, rows, w.pass, w.retry) /\ AskedOften(bs, Waits(e), w.pass, w.retry)
    BY <2>1, <2>8 DEF AskedOften
  <2>11. Owed(rep, bs, w.pass, rows \cup Rest(e))
    <3>1. \A i \in Items : i \in Rest(d) => i \in rows \cup Rest(e)
      BY <2>6, <2>9 DEF Rest
    <3> QED BY <1>2, <1>4, <2>1, <3>1, OwedKept
  <2>12. ChunksInv(bs, e, v.w)
    <3>1. \A k \in DOMAIN e.remaining : e.remaining[k] # {}
      <4>1. \A k \in 1..(Len(d.remaining) - 1) : k + 1 \in DOMAIN d.remaining
        BY <2>3
      <4> QED BY <2>1, <2>3, <2>6, <4>1
    <3>2. e.next > v.w.chunk /\ v.w.chunk # 0
      BY <1>2, <2>1, <2>5, <2>6
    <3>3. AskedOften(bs, e.failed, w.pass, w.retry + 1)
      BY <2>1, <2>6
    <3> QED BY <1>1, <2>6, <2>10, <3>1, <3>2, <3>3 DEF ChunksInv
  <2> QED BY <1>1, <1>6, <2>5, <2>7, <2>10, <2>11, <2>12 DEF CreateInv
<1>11. FullPass(w, rep, bs) \/ FailedOnes(w, rep, bs) \/ FurtherChunk(w, rep, bs)
  BY DEF SubmitInv
<1> QED BY <1>1, <1>7, <1>8, <1>9, <1>10, <1>11

-------------------------------------------------------------------------------
(* What each step does to who is owed an answer.                               *)

Dropless == FileInv(manifest, reports, batches) /\ WorkInv(work, manifest, reports, batches)

LEMMA FirstOfSubmit ==
  ASSUME NEW rep, NEW bs, NEW w \in Submissions, SubmitInv(w, rep, bs), w.m.mode # "test",
         FullPass(w, rep, bs) /\ Owed(rep, bs, w.pass, {})
  PROVE  NextInv(Advance([w.m EXCEPT !.active = NoPhase], w.pass), rep, bs)
<1>1. w.m \in Manifests /\ w.pass \in 1..2
  BY DEF Submissions
<1>2. \A k \in DOMAIN w.m.phases : w.m.phases[k].pass <= w.pass
  <2>1. ASSUME NEW k \in DOMAIN w.m.phases PROVE w.m.phases[k].pass <= w.pass
    <3>1. w.m.phases[k].pass \in 1..2
      BY <1>1, PhasesWith DEF Phases
    <3>2. Precedes(w.m.phases[k], w)
      BY DEF SubmitInv, Follows
    <3> QED BY <1>1, <3>1, <3>2 DEF Precedes
  <2> QED BY <2>1
<1>3. w.m.chunks = NoChunks
  BY DEF FullPass
<1> QED BY <1>1, <1>2, <1>3, AdvanceDrops

LEMMA SubmitDrops ==
  ASSUME RBShape, Submit, undecided = Items, manifest.mode # "test", Dropless
  PROVE  Dropless'
<1> DEFINE rows == Rows(work.pass, work.ids)
<1>1. work \in Submissions /\ work # NoWork /\ work.step = "submit"
  BY WorkKinds DEF RBShape, Submit, NoWork
<1>2. work.m.mode # "test" /\ work.pass \in 1..2 /\ work.pass \in 0..2
      /\ (work.ids \in SUBSET Items \/ work.ids = Everything)
  BY <1>1 DEF RBShape, MemoryInv, Memory, Submissions
<1>3. SubmitInv(work, reports, batches) /\ manifest.status \notin Offered
  BY <1>1 DEF Dropless, WorkInv
<1>4. rows \in SUBSET Items
  BY DEF Rows, RBShape, RBTypeOK
<1>5. work' = IF rows = {} THEN Advance([work.m EXCEPT !.active = NoPhase], work.pass)
              ELSE Prepared(work, rows)
  BY DEF Submit
<1>6. UNCHANGED <<manifest, reports, batches>>
  BY DEF Submit
<1>7. Counted(batches)
  BY BatchesTyped
<1>8. work.ids # Everything => rows = work.ids
  BY <1>2, RowsAll
<1>9. ASSUME FullPass(work, reports, batches) PROVE Owed(reports, batches, work.pass, rows)
  <2>1. work.ids = Everything /\ Owed(reports, batches, work.pass - 1, {})
    BY <1>9 DEF FullPass
  <2>2. rows = {i \in Items : Needs(reports, i, work.pass) /\ reports[work.pass][i] = "none"}
    BY <1>2, <2>1, RowsAll
  <2> HIDE DEF rows
  <2>3. ASSUME NEW i \in Items, NEW q \in 1..work.pass, Needs(reports, i, q)
        PROVE  Answered(reports, batches, i, q) \/ (q = work.pass /\ i \in rows)
    <3>1. CASE q = work.pass
      BY <2>2, <2>3, <3>1 DEF Answered
    <3>2. CASE q # work.pass
      <4>1. q \in 1..(work.pass - 1)
        BY <1>2, <3>2
      <4> QED BY <2>1, <2>3, <4>1 DEF Owed
    <3> QED BY <3>1, <3>2
  <2> QED BY <2>3 DEF Owed
<1>10. ASSUME rows = {} PROVE FullPass(work, reports, batches)
  <2>1. ASSUME FailedOnes(work, reports, batches) PROVE FALSE
    <3>1. work.ids # {} /\ work.ids \in SUBSET Items
      BY <2>1 DEF FailedOnes
    <3>2. rows = work.ids
      BY <1>2, <3>1, RowsAll
    <3> QED BY <1>10, <3>1, <3>2
  <2>2. ASSUME FurtherChunk(work, reports, batches) PROVE FALSE
    <3>1. /\ work.m.chunks.remaining # <<>> /\ work.ids = Head(work.m.chunks.remaining)
          /\ \A k \in DOMAIN work.m.chunks.remaining : work.m.chunks.remaining[k] # {}
      BY <2>2 DEF FurtherChunk
    <3>2. work.m.chunks.remaining \in Seq(SUBSET Items)
      BY <1>1 DEF Submissions, Manifests
    <3>3. work.ids \in SUBSET Items /\ work.ids # {}
      BY <3>1, <3>2
    <3>4. rows = work.ids
      BY <1>2, <3>3, RowsAll
    <3> QED BY <1>10, <3>3, <3>4
  <2> QED BY <1>3, <2>1, <2>2 DEF SubmitInv
<1>11. FileInv(manifest', reports', batches')
  BY <1>6 DEF Dropless
<1> HIDE DEF rows
<1>12. CASE rows = {}
  <2>1. NextInv(work', reports, batches)
    BY <1>1, <1>2, <1>3, <1>5, <1>9, <1>10, <1>12, FirstOfSubmit
  <2>2. WorkInv(work', manifest, reports, batches)
    BY <1>3, <2>1, NextGives
  <2> QED BY <1>6, <1>11, <2>2 DEF Dropless
<1>13. CASE rows # {}
  <2>1. work' = Prepared(work, rows)
    BY <1>5, <1>13
  <2>2. work'.step = "create" /\ CreateInv(work'.w, work'.rows, work'.w.retry, reports, batches)
    BY <1>1, <1>3, <1>4, <1>7, <1>8, <1>9, <2>1, PreparedDrops
  <2>3. WorkInv(work', manifest, reports, batches)
    BY <1>3, <2>2 DEF WorkInv
  <2> QED BY <1>6, <1>11, <2>3 DEF Dropless
<1> QED BY <1>12, <1>13

LEMMA CreateDrops ==
  ASSUME RBShape, Create, Dropless
  PROVE  Dropless'
<1> DEFINE b == [ids |-> work.rows, pass |-> work.w.pass, state |-> "running",
                 output |-> FALSE, good |-> {}]
<1>1. /\ work = [step |-> "create", rows |-> work.rows, w |-> work.w]
      /\ work.rows \in SUBSET Items /\ work.w \in Submissions /\ work # NoWork
  BY WorkKinds DEF RBShape, Create, NoWork
<1>2. work' = [step |-> "record", rows |-> work.rows, w |-> work.w]
  BY <1>1 DEF Create
<1>3. b \in Batches /\ work.w.pass \in 1..2 /\ work.w.retry \in Nat /\ work.w.retry + 1 \in Nat
  BY <1>1 DEF Batches, Submissions
<1>4. batches \in Seq(Batches) /\ batches' = Append(batches, b)
  BY BatchesTyped DEF Create
<1>5. manifest' = manifest /\ reports' = reports /\ manifest \in Manifests
  BY DEF Create, RBShape, RBTypeOK
<1>6. b.ids = work.rows /\ b.pass = work.w.pass
  OBVIOUS
<1> HIDE DEF b
<1>7. /\ Grown(batches, batches')
      /\ \A i \in work.rows : Asks(batches', i, work.w.pass) = Asks(batches, i, work.w.pass) + 1
  BY <1>3, <1>4, <1>6, AsksMore
<1>8. FileInv(manifest', reports', batches')
  BY <1>5, <1>7, FileKept DEF Dropless
<1>9. CreateInv(work.w, work.rows, work.w.retry, reports, batches) /\ manifest.status \notin Offered
  BY <1>1 DEF Dropless, WorkInv
<1>10. AskedOften(batches', work.rows, work.w.pass, work.w.retry + 1)
  <2>1. ASSUME NEW i \in work.rows PROVE Asks(batches', i, work.w.pass) >= work.w.retry + 1
    <3>1. Asks(batches, i, work.w.pass) >= work.w.retry
      BY <1>9 DEF CreateInv, AskedOften
    <3>2. Asks(batches, i, work.w.pass) \in Nat
      BY <1>1, <1>3, <1>7 DEF Grown, Counted
    <3> QED BY <1>3, <1>7, <3>1, <3>2
  <2> QED BY <2>1 DEF AskedOften
<1>11. CreateInv(work.w, work.rows, work.w.retry + 1, reports, batches')
  BY <1>1, <1>3, <1>7, <1>9, <1>10, CreateKept
<1>12. WorkInv(work', manifest', reports', batches')
  BY <1>2, <1>5, <1>9, <1>11 DEF WorkInv
<1> QED BY <1>8, <1>12 DEF Dropless

LEMMA RecordDrops ==
  ASSUME RBShape, Record, Dropless
  PROVE  Dropless'
<1> DEFINE w == work.w
           p == [name |-> <<w.pass, w.retry, w.chunk>>, pass |-> w.pass, retry |-> w.retry,
                 chunk |-> w.chunk, ids |-> work.rows, batch |-> Len(batches),
                 imported |-> FALSE, failed |-> {}, restart |-> FALSE]
<1>1. /\ work.rows \in SUBSET Items /\ w \in Submissions /\ Len(batches) \in Nat /\ work # NoWork
      /\ work.step = "record"
  BY WorkKinds DEF RBShape, RBTypeOK, Record, NoWork
<1>2. w.m.phases = manifest.phases
  BY <1>1 DEF RBShape, MemoryInv, Memory
<1>3. manifest' = Recorded(w, work.rows, Len(batches)) /\ work' = NoWork
      /\ reports' = reports /\ batches' = batches
  BY DEF Record
<1>4. /\ p \in Phases /\ manifest' \in Manifests
      /\ manifest'.phases = Append(w.m.phases, p) /\ w.m.phases \in Seq(Phases)
      /\ manifest'.active = p.name /\ manifest'.status = "submitted"
      /\ manifest'.chunks = NewChunks(w, work.rows)
  BY <1>1, <1>3, RecordedGives
<1>5. /\ p.pass = w.pass /\ p.retry = w.retry /\ p.chunk = w.chunk /\ p.ids = work.rows
      /\ p.failed = {} /\ p.imported = FALSE
  OBVIOUS
<1>6. CreateInv(w, work.rows, w.retry + 1, reports, batches)
  BY <1>1 DEF Dropless, WorkInv
<1> HIDE DEF p
<1>7. Newest(manifest') = p /\ manifest'.phases # <<>>
  BY <1>4, SMTT(30) DEF Newest
<1>8. Ordered(manifest'.phases)
  <2> DEFINE n == Len(manifest.phases)
  <2>1. /\ n \in Nat /\ DOMAIN manifest.phases = 1..n /\ DOMAIN manifest'.phases = 1..(n + 1)
        /\ manifest'.phases[n + 1] = p /\ \A k \in 1..n : manifest'.phases[k] = manifest.phases[k]
    BY <1>2, <1>4
  <2> HIDE DEF n
  <2>2. \A k \in 1..n : Precedes(manifest.phases[k], p)
    BY <1>2, <1>5, <1>6, <2>1 DEF CreateInv, Follows, Precedes
  <2>3. ASSUME NEW j \in 1..(n + 1), NEW k \in 1..(n + 1), j < k
        PROVE  Precedes(manifest'.phases[j], manifest'.phases[k])
    <3>1. j \in 1..n
      BY <2>1, <2>3
    <3>2. CASE k = n + 1
      BY <2>1, <2>2, <3>1, <3>2
    <3>3. CASE k # n + 1
      <4>1. k \in 1..n
        BY <2>1, <3>3
      <4> QED BY <2>1, <2>3, <3>1, <4>1 DEF Dropless, FileInv, Ordered
    <3> QED BY <3>2, <3>3
  <2> QED BY <2>1, <2>3 DEF Ordered
<1>9. Open(reports, batches, manifest', p, Unsettled(p))
  <2>1. Unsettled(p) = work.rows
    BY <1>5 DEF Unsettled
  <2>2. ChunksInv(batches, manifest'.chunks, p)
    BY <1>4, <1>5, <1>6 DEF CreateInv, ChunksInv
  <2>3. /\ AskedOften(batches, p.ids, p.pass, p.retry + 1)
        /\ Owed(reports, batches, p.pass, Unsettled(p) \cup Rest(manifest'.chunks))
    BY <1>4, <1>5, <1>6, <2>1 DEF CreateInv
  <2> QED BY <1>4, <1>5, <2>2, <2>3 DEF Open, Offered
<1>10. FileInv(manifest', reports', batches')
  BY <1>3, <1>4, <1>7, <1>8, <1>9 DEF FileInv, Offered
<1>11. WorkInv(work', manifest', reports', batches')
  BY <1>3 DEF WorkInv, NoWork
<1> QED BY <1>10, <1>11 DEF Dropless

LEMMA SaveDrops ==
  ASSUME RBShape, Save, Dropless
  PROVE  Dropless'
<1>1. work.m \in Manifests /\ work # NoWork /\ work.step = "save"
  BY WorkKinds DEF RBShape, Save, NoWork
<1>2. work.m.phases = manifest.phases
  BY <1>1 DEF RBShape, MemoryInv, Memory
<1>3. manifest' = work.m /\ work' = NoWork /\ reports' = reports /\ batches' = batches
  BY DEF Save
<1>4. SaveInv(work.m, reports, batches) /\ Ordered(manifest.phases)
  BY <1>1 DEF Dropless, WorkInv, FileInv
<1>5. FileInv(manifest', reports', batches')
  BY <1>2, <1>3, <1>4 DEF FileInv, SaveInv
<1>6. WorkInv(work', manifest', reports', batches')
  BY <1>3 DEF WorkInv, NoWork
<1> QED BY <1>5, <1>6 DEF Dropless

LEMMA FinishDrops ==
  ASSUME RBShape, NEW b \in DOMAIN batches, Finish(b), Dropless
  PROVE  Dropless'
<1>1. manifest' = manifest /\ reports' = reports /\ work' = work /\ manifest \in Manifests
  BY Zenon DEF Finish, RBShape, RBTypeOK
<1>2. /\ RBShape' /\ Len(batches') = Len(batches)
      /\ \A c \in DOMAIN batches : batches'[c].ids = batches[c].ids /\ batches'[c].pass = batches[c].pass
  BY FinishShape
<1>3. batches \in Seq(Batches) /\ batches' \in Seq(Batches) /\ Counted(batches) /\ Counted(batches')
  <2>1. batches' \in Seq(Batches)
    BY <1>2 DEF RBShape, RBTypeOK, Batches
  <2> QED BY <2>1, BatchesTyped, AsksCounted
<1>4. DOMAIN batches' = DOMAIN batches
  BY <1>2, <1>3
<1>5. \A i \in Items, p \in 1..2 : Asks(batches', i, p) = Asks(batches, i, p)
  BY <1>2, <1>4, AsksSame
<1>6. Grown(batches, batches')
  <2>1. ASSUME NEW i \in Items, NEW p \in 1..2 PROVE Asks(batches', i, p) >= Asks(batches, i, p)
    <3>1. Asks(batches', i, p) = Asks(batches, i, p) /\ Asks(batches, i, p) \in Nat
      BY <1>3, <1>5 DEF Counted
    <3> QED BY <3>1
  <2> QED BY <1>3, <2>1 DEF Grown
<1>7. FileInv(manifest, reports, batches') /\ WorkInv(work, manifest, reports, batches')
  BY <1>1, <1>6, FileKept, WorkKept DEF Dropless
<1> QED BY <1>1, <1>7 DEF Dropless

LEMMA FaultDrops ==
  ASSUME RBShape, Fault, Dropless
  PROVE  Dropless'
<1>1. reports' = reports /\ batches' = batches /\ work' = NoWork
  BY DEF Fault
<1>2. manifest' = manifest \/ (manifest.status = "creating" /\ manifest' = [manifest EXCEPT !.status = "failed"])
  BY DEF Fault
<1>3. manifest \in Manifests
  BY DEF RBShape, RBTypeOK
<1>4. WorkInv(work', manifest', reports', batches')
  BY <1>1 DEF WorkInv, NoWork
<1>5. CASE manifest' = manifest
  BY <1>1, <1>4, <1>5 DEF Dropless
<1>6. CASE manifest.status = "creating" /\ manifest' = [manifest EXCEPT !.status = "failed"]
  <2>1. manifest'.phases = manifest.phases /\ manifest'.active = manifest.active /\ manifest'.status = "failed"
    BY <1>3, <1>6 DEF Manifests
  <2>2. manifest.active = NoPhase /\ Ordered(manifest.phases)
    BY <1>6 DEF Dropless, FileInv
  <2>3. FileInv(manifest', reports', batches')
    BY <2>1, <2>2 DEF FileInv, Offered
  <2> QED BY <1>4, <2>3 DEF Dropless
<1> QED BY <1>2, <1>5, <1>6

\* Reports of the pass that is being imported: who got one is owed none.
LEMMA OwedReports ==
  ASSUME NEW rep, NEW rep2, NEW bs, NEW p \in 1..2, NEW S, NEW T,
         \A q \in 1..2 : q # p => rep2[q] = rep[q],
         \A i \in Items : rep[p][i] # "none" => rep2[p][i] # "none",
         Owed(rep, bs, p, S),
         \A i \in Items : i \in S => i \in T \/ rep2[p][i] # "none"
  PROVE  Owed(rep2, bs, p, T)
<1>1. ASSUME NEW i \in Items, NEW q \in 1..p, Needs(rep2, i, q)
      PROVE  Answered(rep2, bs, i, q) \/ (q = p /\ i \in T)
  <2>1. q \in 1..2 /\ (q = 1 \/ (q = 2 /\ p = 2))
    OBVIOUS
  <2>2. Needs(rep, i, q)
    <3>1. CASE q = 1
      BY <3>1 DEF Needs
    <3>2. CASE p = 2
      <4>1. rep2[1] = rep[1]
        BY <3>2
      <4> QED BY <1>1, <4>1 DEF Needs
    <3> QED BY <2>1, <3>1, <3>2
  <2>3. Answered(rep, bs, i, q) \/ (q = p /\ i \in S)
    BY <2>2 DEF Owed
  <2>4. CASE q = p
    BY <2>3, <2>4 DEF Answered
  <2>5. CASE q # p
    <3>1. rep2[q] = rep[q]
      BY <2>1, <2>5
    <3> QED BY <2>3, <2>5, <3>1 DEF Answered
  <2> QED BY <2>4, <2>5
<1> QED BY <1>1 DEF Owed

\* Open depends on the manifest and its phase through these fields alone.
LEMMA OpenAs ==
  ASSUME NEW rep, NEW rep2, NEW bs, NEW m, NEW n, NEW p, NEW q, NEW S, NEW T,
         Open(rep, bs, m, p, S),
         n.active = m.active, n.status = m.status, n.chunks = m.chunks, SamePhase(q, p),
         q.failed \subseteq q.ids, Owed(rep2, bs, p.pass, T \cup Rest(m.chunks))
  PROVE  Open(rep2, bs, n, q, T)
<1>1. /\ q.name = p.name /\ q.pass = p.pass /\ q.retry = p.retry /\ q.chunk = p.chunk /\ q.ids = p.ids
  BY DEF SamePhase
<1>2. ChunksInv(bs, n.chunks, q)
  BY <1>1 DEF Open, ChunksInv
<1> QED BY <1>1, <1>2 DEF Open

LEMMA ImportDrops ==
  ASSUME RBShape, Import, undecided = Items, manifest.mode # "test", Dropless
  PROVE  Dropless'
<1> DEFINE k == work.k
           phase == work.m.phases[k]
           good == batches[phase.batch].good
<1>1. work.step = "import" /\ manifest' = manifest /\ batches' = batches
  BY Zenon DEF Import
<1>2. /\ work.m \in Manifests /\ k \in DOMAIN work.m.phases /\ k \in DOMAIN manifest.phases /\ k \in Nat
      /\ phase \in Phases /\ work.m.phases = manifest.phases /\ manifest \in Manifests
      /\ manifest.phases \in Seq(Phases) /\ work.m.mode # "test" /\ work # NoWork
  BY <1>1, ResultsHeld
<1>3. PICK F \in SUBSET phase.ids :
         /\ work' = [step |-> "mark", m |-> [work.m EXCEPT !.phases[k].failed = F], k |-> k]
         /\ work'.m.phases = [manifest.phases EXCEPT ![k].failed = F]
         /\ work'.m.chunks = work.m.chunks /\ work'.m.status = work.m.status
         /\ work'.m.active = work.m.active
         /\ F = phase.ids \ (IF work.m.mode = "test" THEN good ELSE good \intersect undecided)
  BY ImportGives
<1>4. /\ ResultInv(work.m, k, phase.ids, reports, batches) /\ manifest.status \notin Offered
      /\ FileInv(manifest, reports, batches)
  BY <1>1, <1>2 DEF Dropless, WorkInv
<1>5. phase.pass \in 1..2 /\ phase.ids \in SUBSET Items /\ F \in SUBSET Items
  BY <1>2 DEF Phases
<1>6. reports \in [1..2 -> [Items -> {"none", "approve", "other"}]]
  BY DEF RBShape, RBTypeOK
<1>7. /\ \A q \in 1..2 : q # phase.pass => reports'[q] = reports[q]
      /\ \A i \in Items : reports[phase.pass][i] # "none" => reports'[phase.pass][i] # "none"
      /\ \A i \in phase.ids : i \notin F => reports'[phase.pass][i] # "none"
  <2>1. PICK yes \in SUBSET (good \intersect undecided \intersect Light) :
            reports' = IF work.m.mode = "test" THEN reports
                ELSE [reports EXCEPT ![phase.pass] = [i \in Items |->
                        IF i \in good \intersect undecided
                        THEN (IF i \in yes THEN "approve" ELSE "other") ELSE reports[phase.pass][i]]]
    BY Zenon DEF Import
  <2> DEFINE column == [i \in Items |->
                        IF i \in good \intersect undecided
                        THEN (IF i \in yes THEN "approve" ELSE "other") ELSE reports[phase.pass][i]]
  <2>2. reports' = [reports EXCEPT ![phase.pass] = column]
    BY <1>2, <2>1
  <2>3. \A i \in Items : /\ reports[phase.pass][i] # "none" => column[i] # "none"
                         /\ i \in good \intersect undecided => column[i] # "none"
    OBVIOUS
  <2> HIDE DEF column
  <2>4. reports'[phase.pass] = column /\ \A q \in 1..2 : q # phase.pass => reports'[q] = reports[q]
    <3> HIDE DEF phase
    <3> QED BY <1>5, <1>6, <2>2
  <2>5. \A i \in phase.ids : i \notin F => i \in good \intersect undecided
    BY <1>2, <1>3, Zenon
  <2> QED BY <1>5, <2>3, <2>4, <2>5
<1> HIDE DEF good, k, phase
<1>8. /\ Len(work'.m.phases) = Len(manifest.phases) /\ work'.m.phases[k].failed = F
      /\ SamePhase(work'.m.phases[k], phase)
  <2>1. work'.m.phases = WithFailed(manifest.phases, k, F)
    BY <1>3 DEF WithFailed
  <2> QED BY <1>2, <1>5, <2>1, FailedChanged DEF phase
<1>9. ASSUME NEW S, NEW T, Owed(reports, batches, phase.pass, S),
             \A i \in Items : i \in S => i \in T \/ (i \in phase.ids /\ i \notin F)
      PROVE  Owed(reports', batches, phase.pass, T)
  <2>1. \A i \in Items : i \in S => i \in T \/ reports'[phase.pass][i] # "none"
    BY <1>7, <1>9
  <2> QED BY <1>5, <1>7, <1>9, <2>1, OwedReports
<1>10. k = Len(work.m.phases) /\ Open(reports, batches, work.m, phase, phase.ids)
       /\ work.m.status \in {"completed", "failed"}
  BY <1>4 DEF ResultInv, phase
<1>11. Open(reports', batches, work'.m, work'.m.phases[k], F)
  <2>1. Owed(reports, batches, phase.pass, phase.ids \cup Rest(work.m.chunks))
    BY <1>10 DEF Open
  <2>2. \A i \in Items : i \in phase.ids \cup Rest(work.m.chunks) =>
            i \in F \cup Rest(work.m.chunks) \/ (i \in phase.ids /\ i \notin F)
    OBVIOUS
  <2>3. Owed(reports', batches, phase.pass, F \cup Rest(work.m.chunks))
    BY <1>9, <2>1, <2>2
  <2>4. work'.m.phases[k].failed \subseteq work'.m.phases[k].ids
    BY <1>3, <1>8, Zenon DEF SamePhase
  <2> DEFINE n == work'.m
             q == work'.m.phases[k]
  <2>5. /\ n.active = work.m.active /\ n.status = work.m.status /\ n.chunks = work.m.chunks
        /\ SamePhase(q, phase) /\ q.failed \subseteq q.ids
    BY <1>3, <1>8, <2>4, Zenon
  <2> HIDE DEF n, q
  <2>6. Open(reports', batches, n, q, F)
    BY <1>10, <2>3, <2>5, OpenAs
  <2> QED BY <2>6 DEF n, q
<1>12. WorkInv(work', manifest', reports', batches')
  <2>1. /\ work'.step = "mark" /\ work'.k = k
    BY <1>3
  <2>2. ResultInv(work'.m, k, F, reports', batches)
    BY <1>2, <1>3, <1>8, <1>10, <1>11 DEF ResultInv
  <2> QED BY <1>1, <1>4, <1>8, <2>1, <2>2 DEF WorkInv
<1>13. FileInv(manifest, reports', batches)
  <2>1. ASSUME manifest.active # NoPhase, manifest.status \notin Settled \/ PendingChunks(manifest)
        PROVE  Open(reports', batches, manifest, Newest(manifest), Unsettled(Newest(manifest)))
    <3> DEFINE p == Newest(manifest)
    <3>1. p = phase
      BY <1>2, <1>10 DEF Newest, phase
    <3>2. Open(reports, batches, manifest, p, Unsettled(p))
      BY <1>4, <2>1 DEF FileInv
    <3> HIDE DEF p
    <3>3. Owed(reports, batches, phase.pass, Unsettled(p) \cup Rest(manifest.chunks))
      BY <3>1, <3>2 DEF Open
    <3>4. Owed(reports', batches, phase.pass, Unsettled(p) \cup Rest(manifest.chunks))
      BY <1>9, <3>3
    <3> QED BY <3>1, <3>2, <3>4 DEF Open, p
  <2> QED BY <1>4, <2>1 DEF FileInv
<1> QED BY <1>1, <1>12, <1>13 DEF Dropless

LEMMA MarkDrops ==
  ASSUME RBShape, Mark, Dropless
  PROVE  Dropless'
<1> DEFINE k == work.k
           phase == work.m.phases[k]
           p == manifest'.phases[k]
<1>1. work.step = "mark" /\ reports' = reports /\ batches' = batches
  BY DEF Mark
<1>2. /\ manifest' \in Manifests
      /\ manifest'.phases = [work.m.phases EXCEPT ![k].imported = TRUE]
      /\ manifest'.chunks = work.m.chunks /\ manifest'.status = work.m.status
      /\ manifest'.active = work.m.active
      /\ work' = [step |-> "decide", m |-> manifest', k |-> k]
  BY MarkGives
<1>3. /\ k \in DOMAIN work.m.phases /\ k \in Nat /\ work.m.phases \in Seq(Phases)
      /\ DOMAIN work.m.phases = DOMAIN manifest.phases
      /\ manifest.phases \in Seq(Phases)
      /\ \A j \in DOMAIN manifest.phases : SamePhase(work.m.phases[j], manifest.phases[j])
  BY <1>1, ResultsHeld
<1> HIDE DEF k
<1>4. /\ DOMAIN manifest'.phases = DOMAIN work.m.phases /\ Len(manifest'.phases) = Len(work.m.phases)
      /\ p.imported /\ p.failed = phase.failed
      /\ \A j \in DOMAIN work.m.phases : SamePhase(manifest'.phases[j], work.m.phases[j])
  <2>1. manifest'.phases = WithImported(work.m.phases, k)
    BY <1>2 DEF WithImported
  <2> QED BY <1>3, <2>1, ImportedChanged
<1>5. ResultInv(work.m, k, phase.failed, reports, batches) /\ FileInv(manifest, reports, batches)
  BY <1>1 DEF Dropless, WorkInv, k
<1>6. /\ k = Len(work.m.phases) /\ work.m.status \in {"completed", "failed"}
      /\ Open(reports, batches, work.m, phase, phase.failed)
  BY <1>5 DEF ResultInv
<1>7. Newest(manifest') = p /\ manifest'.phases # <<>>
  <2>1. Newest(manifest') = p
    BY <1>4, <1>6 DEF Newest
  <2>2. k \in DOMAIN manifest'.phases
    BY <1>3, <1>4
  <2> QED BY <2>1, <2>2
<1>8. SamePhase(p, phase)
  BY <1>3, <1>4
<1> HIDE DEF p, phase
<1>9. Open(reports, batches, manifest', p, p.failed)
  <2>1. p.failed \subseteq p.ids /\ Owed(reports, batches, phase.pass, p.failed \cup Rest(work.m.chunks))
    BY <1>4, <1>6, <1>8 DEF Open, SamePhase
  <2> QED BY <1>2, <1>6, <1>8, <2>1, OpenAs
<1>10. Ordered(manifest'.phases)
  <2>1. \A j \in DOMAIN manifest.phases :
           /\ manifest'.phases[j].pass = manifest.phases[j].pass
           /\ manifest'.phases[j].retry = manifest.phases[j].retry
           /\ manifest'.phases[j].chunk = manifest.phases[j].chunk
    BY <1>3, <1>4 DEF SamePhase
  <2>2. DOMAIN manifest'.phases = DOMAIN manifest.phases
    BY <1>3, <1>4
  <2>3. \A i, j \in DOMAIN manifest.phases : i < j => Precedes(manifest.phases[i], manifest.phases[j])
    BY <1>5 DEF FileInv, Ordered
  <2> QED BY <2>1, <2>2, <2>3 DEF Ordered, Precedes
<1>11. FileInv(manifest', reports', batches')
  <2>1. Unsettled(p) = p.failed /\ manifest'.active = p.name
    BY <1>4, <1>9 DEF Unsettled, Open
  <2>2. manifest'.status \in {"completed", "failed"}
    BY <1>2, <1>6
  <2> QED BY <1>1, <1>7, <1>9, <1>10, <2>1, <2>2 DEF FileInv, Offered
<1>12. WorkInv(work', manifest', reports', batches')
  <2>1. work'.step = "decide" /\ work'.m = manifest' /\ work'.k = k
    BY <1>2
  <2>2. ResultInv(manifest', k, p.failed, reports, batches)
    BY <1>2, <1>4, <1>6, <1>9 DEF ResultInv, p
  <2> QED BY <1>1, <1>2, <1>6, <2>1, <2>2 DEF WorkInv, Offered, p
<1> QED BY <1>11, <1>12 DEF Dropless

\* Where a synchronisation leaves the run.
LEMMA SyncGives ==
  ASSUME RBShape, Sync
  PROVE  LET m == Reopened(manifest)
             k == Active(m)
             phase == manifest.phases[k]
             batch == batches[phase.batch]
             synced == Synced(m, batch) IN
         /\ m \in Manifests /\ m.phases = manifest.phases
         /\ k \in DOMAIN manifest.phases /\ phase.name = m.active /\ phase \in Phases
         /\ synced \in Manifests /\ synced.phases = manifest.phases
         /\ synced.active = m.active /\ synced.chunks = m.chunks
         /\ synced.status = IF Terminal(batch) THEN batch.state ELSE "running"
         /\ phase.imported => Terminal(batch)
         /\ work = NoWork /\ UNCHANGED <<reports, batches>>
         /\ \/ /\ ~Terminal(batch) /\ manifest' = synced /\ work' = NoWork
            \/ phase.restart
            \/ /\ Terminal(batch) /\ manifest' = synced /\ work' = NoWork
            \/ /\ Terminal(batch) /\ manifest' = manifest
               /\ work' = [step |-> IF phase.imported THEN "decide" ELSE "import", m |-> synced, k |-> k]
<1> DEFINE m == Reopened(manifest)
           k == Active(m)
           phase == manifest.phases[k]
           batch == batches[phase.batch]
           synced == Synced(m, batch)
<1>1. /\ m \in Manifests /\ m.phases = manifest.phases
      /\ m.mode = manifest.mode /\ m.cost = manifest.cost
  BY ReopenedGives DEF RBShape, RBTypeOK
<1>2. k # 0 /\ work = NoWork /\ UNCHANGED <<reports, batches>>
  BY Zenon DEF Sync
<1>3. k \in DOMAIN manifest.phases /\ phase.name = m.active /\ phase \in Phases
  <2>1. m.phases \in Seq(Phases)
    BY <1>1 DEF Manifests
  <2> HIDE DEF m, k
  <2>2. k \in 1..Len(m.phases) /\ m.phases[k].name = m.active
    BY <1>1, <1>2, ActiveOf DEF k
  <2> QED BY <1>1, <2>1, <2>2
<1>4. batch \in Batches /\ (phase.imported => Terminal(batch))
  <2>1. phase.batch \in 1..Len(batches) /\ (phase.imported => Terminal(batch))
    BY <1>3 DEF RBShape, BatchInv
  <2>2. batches \in Seq(Batches)
    BY BatchesTyped
  <2> HIDE DEF phase
  <2> QED BY <2>1, <2>2
<1>5. /\ synced \in Manifests /\ synced.phases = m.phases
      /\ synced.active = m.active /\ synced.chunks = m.chunks
      /\ synced.status = IF Terminal(batch) THEN batch.state ELSE "running"
  BY <1>1, <1>4, SyncedGives
<1>6. \/ /\ ~Terminal(batch) /\ manifest' = synced /\ work' = NoWork
      \/ phase.restart
      \/ /\ batch.state = "failed" /\ manifest' = synced /\ work' = NoWork
      \/ /\ batch.state \in {"completed", "failed"} /\ manifest' = manifest
         /\ work' = [step |-> IF phase.imported THEN "decide" ELSE "import", m |-> synced, k |-> k]
  BY <1>1, Zenon DEF Sync
<1>7. batch.state \in {"completed", "failed"} => Terminal(batch)
  BY DEF Terminal
<1> HIDE DEF m, k, phase, batch, synced
<1>8. \/ /\ ~Terminal(batch) /\ manifest' = synced /\ work' = NoWork
      \/ phase.restart
      \/ /\ Terminal(batch) /\ manifest' = synced /\ work' = NoWork
      \/ /\ Terminal(batch) /\ manifest' = manifest
         /\ work' = [step |-> IF phase.imported THEN "decide" ELSE "import", m |-> synced, k |-> k]
  BY <1>6, <1>7
<1> QED BY <1>1, <1>2, <1>3, <1>4, <1>5, <1>8 DEF m, k, phase, batch, synced

LEMMA SyncDrops ==
  ASSUME RBShape, Sync, ~Restarted, Dropless
  PROVE  Dropless'
<1> DEFINE m == Reopened(manifest)
           k == Active(m)
           phase == manifest.phases[k]
           batch == batches[phase.batch]
           synced == Synced(m, batch)
<1>1. /\ m \in Manifests /\ m.phases = manifest.phases
      /\ k \in DOMAIN manifest.phases /\ phase.name = m.active /\ phase \in Phases
      /\ synced \in Manifests /\ synced.phases = manifest.phases
      /\ synced.active = m.active /\ synced.chunks = m.chunks
      /\ synced.status = (IF Terminal(batch) THEN batch.state ELSE "running")
      /\ phase.imported => Terminal(batch)
      /\ work = NoWork /\ UNCHANGED <<reports, batches>>
      /\ \/ /\ ~Terminal(batch) /\ manifest' = synced /\ work' = NoWork
         \/ phase.restart
         \/ /\ Terminal(batch) /\ manifest' = synced /\ work' = NoWork
         \/ /\ Terminal(batch) /\ manifest' = manifest
            /\ work' = [step |-> IF phase.imported THEN "decide" ELSE "import", m |-> synced, k |-> k]
  BY SyncGives
<1>2. ~phase.restart
  BY <1>1 DEF Restarted
<1>3. FileInv(manifest, reports, batches)
  BY DEF Dropless
<1>4. m = manifest
  BY <1>3 DEF Reopened, FileInv, Offered, PendingChunks, NoChunks
<1>5. manifest.status \notin Settled \/ PendingChunks(manifest)
  BY Zenon DEF Sync
<1>6. synced.status = "running" \/ (Terminal(batch) /\ synced.status \in {"completed", "failed"})
  BY <1>1 DEF Terminal
<1> HIDE DEF m, k, batch, synced
<1>7. manifest.active # NoPhase
  <2>1. phase.name \in (1..2) \X Nat \X Nat
    BY <1>1 DEF Phases
  <2>2. phase.name # NoPhase
    BY <2>1, SMTT(30) DEF NoPhase
  <2> QED BY <1>1, <1>4, <2>2
<1>8. /\ manifest.phases # <<>> /\ manifest.active = Newest(manifest).name
      /\ Open(reports, batches, manifest, Newest(manifest), Unsettled(Newest(manifest)))
      /\ Ordered(manifest.phases)
  BY <1>3, <1>5, <1>7 DEF FileInv
<1>9. k = Len(manifest.phases) /\ phase = Newest(manifest)
  <2>1. manifest.phases \in Seq(Phases)
    BY DEF RBShape, RBTypeOK, Manifests
  <2>2. Len(manifest.phases) \in DOMAIN manifest.phases /\ Newest(manifest) \in Phases
    BY <1>8, NewestTyped DEF RBShape, RBTypeOK
  <2>3. ASSUME k # Len(manifest.phases) PROVE FALSE
    <3>1. k < Len(manifest.phases)
      BY <1>1, <2>1, <2>3
    <3>2. Precedes(phase, Newest(manifest))
      BY <1>1, <1>8, <2>2, <3>1 DEF Ordered, Newest
    <3>3. phase.name = Newest(manifest).name
      BY <1>1, <1>4, <1>8
    <3> HIDE DEF phase
    <3>4. /\ phase.pass = Newest(manifest).pass /\ phase.retry = Newest(manifest).retry
          /\ phase.chunk = Newest(manifest).chunk
      BY <1>1, <2>2, <3>3 DEF Phases
    <3>5. phase.pass \in Nat /\ phase.retry \in Nat /\ phase.chunk \in Nat
      BY <1>1 DEF Phases
    <3> QED BY <3>2, <3>4, <3>5 DEF Precedes
  <2> QED BY <2>3 DEF Newest
<1> HIDE DEF phase
<1>10. manifest.status \notin Offered
  BY <1>8 DEF Open
<1>11. ASSUME NEW S, Open(reports, batches, manifest, phase, S)
       PROVE  Open(reports, batches, synced, phase, S)
  <2>1. synced.status \notin Offered \cup {"creating"}
    BY <1>6 DEF Offered
  <2> QED BY <1>1, <1>4, <1>11, <2>1 DEF Open
<1>12. Open(reports, batches, synced, phase, Unsettled(phase))
  BY <1>8, <1>9, <1>11
<1>13. CASE manifest' = synced /\ work' = NoWork
  <2>1. Newest(synced) = phase
    BY <1>1, <1>9 DEF Newest
  <2>2. FileInv(synced, reports, batches)
    BY <1>1, <1>6, <1>8, <1>12, <2>1 DEF FileInv, Open, Offered
  <2>3. WorkInv(work', manifest', reports', batches')
    BY <1>13 DEF WorkInv, NoWork
  <2> QED BY <1>1, <1>13, <2>2, <2>3 DEF Dropless
<1>14. CASE /\ Terminal(batch) /\ manifest' = manifest
            /\ work' = [step |-> IF phase.imported THEN "decide" ELSE "import", m |-> synced, k |-> k]
  <2>1. synced.status \in {"completed", "failed"}
    BY <1>1, <1>14 DEF Terminal
  <2>2. synced.phases[k] = phase
    BY <1>1, <1>9 DEF Newest
  <2>3. \A S : Open(reports, batches, synced, phase, S) => ResultInv(synced, k, S, reports, batches)
    BY <1>1, <1>9, <2>1, <2>2 DEF ResultInv
  <2>4. work'.step = (IF phase.imported THEN "decide" ELSE "import") /\ work'.m = synced /\ work'.k = k
    BY <1>14
  <2>5. ResultInv(synced, k, IF phase.imported THEN phase.failed ELSE phase.ids, reports, batches)
    BY <1>12, <2>3 DEF Unsettled
  <2>6. WorkInv(work', manifest, reports, batches)
    <3>1. CASE phase.imported
      BY <1>10, <2>2, <2>4, <2>5, <3>1 DEF WorkInv
    <3>2. CASE ~phase.imported
      BY <1>10, <2>2, <2>4, <2>5, <3>2 DEF WorkInv
    <3> QED BY <3>1, <3>2
  <2> QED BY <1>1, <1>3, <1>14, <2>6 DEF Dropless
<1> QED BY <1>1, <1>2, <1>13, <1>14

LEMMA DecideDrops ==
  ASSUME RBShape, Decide, ~Restarted, manifest.mode # "test", Dropless
  PROVE  Dropless'
<1> DEFINE m == work.m
           k == work.k
           phase == m.phases[k]
           c == m.chunks
           F == c.failed \union phase.failed
           collected == [m EXCEPT !.chunks.failed = F]
           cleared == [m EXCEPT !.chunks = NoChunks]
           ended == [m EXCEPT !.status = "failed", !.active = NoPhase]
<1>1. /\ m \in Manifests /\ k \in DOMAIN m.phases /\ phase \in Phases /\ m.phases = manifest.phases
      /\ m.mode = manifest.mode /\ work # NoWork /\ work.step = "decide"
      /\ reports' = reports /\ batches' = batches
  BY ResultsHeld DEF Decide
<1>2. /\ \/ /\ manifest' = ended /\ work' = NoWork
         \/ /\ phase.chunk # 0 /\ c.on /\ c.remaining # <<>>
            /\ manifest' = collected /\ work' = NextChunk(collected, phase)
         \/ /\ phase.chunk # 0 /\ c.on /\ c.remaining = <<>>
            /\ manifest' = cleared /\ work' = AfterPhase(cleared, phase, F)
         \/ phase.restart
         \/ /\ ~(phase.chunk # 0 /\ c.on)
            /\ manifest' = m /\ work' = AfterPhase(m, phase, phase.failed)
  BY DecideGives, Zenon
<1>3. /\ ResultInv(m, k, phase.failed, reports, batches)
      /\ Ordered(m.phases) /\ manifest.status \notin Offered
  BY <1>1 DEF Dropless, WorkInv, FileInv
<1>4. ~phase.restart
  BY <1>1 DEF Restarted
<1>5. /\ c \in Remembered /\ c.failed \in SUBSET Items /\ phase.failed \in SUBSET Items /\ F \in SUBSET Items
      /\ phase.ids \in SUBSET Items /\ phase.pass \in 1..2 /\ phase.pass \in 0..2
      /\ phase.retry \in Nat /\ phase.retry + 1 \in Nat /\ phase.chunk \in Nat
  <2> HIDE DEF k, phase, m
  <2>1. c \in Remembered
    BY <1>1 DEF Manifests, Remembered
  <2>2. c.failed \in SUBSET Items
    BY <2>1 DEF Remembered
  <2>3. /\ phase.failed \in SUBSET Items /\ phase.ids \in SUBSET Items
        /\ phase.pass \in 1..2 /\ phase.retry \in Nat /\ phase.chunk \in Nat
    BY <1>1 DEF Phases
  <2>4. phase.retry + 1 \in Nat /\ phase.pass \in 0..2
    BY <2>3
  <2>5. F \in SUBSET Items
    BY <2>2, <2>3
  <2> QED BY <2>1, <2>2, <2>3, <2>4, <2>5
<1>6. Counted(batches) /\ Grown(batches, batches)
  BY BatchesTyped, SameGrown
<1> HIDE DEF k
<1>7. /\ k = Len(m.phases) /\ m.status \in {"completed", "failed"}
      /\ m.active = phase.name /\ phase.failed \subseteq phase.ids
      /\ AskedOften(batches, phase.ids, phase.pass, phase.retry + 1)
      /\ ChunksInv(batches, c, phase)
      /\ Owed(reports, batches, phase.pass, phase.failed \cup Rest(c))
  BY <1>3 DEF ResultInv, Open
<1>8. AskedOften(batches, phase.failed, phase.pass, phase.retry + 1)
  BY <1>7 DEF AskedOften
<1>9. \A j \in DOMAIN m.phases : m.phases[j] = phase \/ Precedes(m.phases[j], phase)
  <2>1. m.phases \in Seq(Phases)
    BY <1>1 DEF Manifests
  <2>2. \A j \in DOMAIN m.phases : j = k \/ j < k
    <3> HIDE DEF m
    <3> QED BY <1>7, <2>1
  <2>3. \A j \in DOMAIN m.phases : j < k => Precedes(m.phases[j], m.phases[k])
    BY <1>1, <1>3 DEF Ordered
  <2> QED BY <2>2, <2>3
<1>10. \A n : n.phases = m.phases /\ m.phases # <<>> => Newest(n) = phase
  BY <1>7 DEF Newest
<1>11. m.phases # <<>>
  BY <1>1
<1>12. /\ ended.phases = m.phases /\ ended.active = NoPhase /\ ended.status = "failed"
       /\ cleared.phases = m.phases /\ cleared.active = m.active /\ cleared.status = m.status
       /\ cleared.chunks = NoChunks /\ cleared.mode = m.mode /\ cleared \in Manifests
       /\ collected.phases = m.phases /\ collected.active = m.active /\ collected.status = m.status
       /\ collected.chunks = [c EXCEPT !.failed = F]
  <2>1. /\ ended.phases = m.phases /\ ended.active = NoPhase /\ ended.status = "failed"
    BY <1>1 DEF Manifests
  <2>2. /\ cleared.phases = m.phases /\ cleared.active = m.active /\ cleared.status = m.status
        /\ cleared.chunks = NoChunks /\ cleared.mode = m.mode
    BY <1>1 DEF Manifests
  <2>3. cleared \in Manifests
    BY <1>1, ManifestsWith, Zenon
  <2>4. /\ collected.phases = m.phases /\ collected.active = m.active /\ collected.status = m.status
        /\ collected.chunks = [c EXCEPT !.failed = F]
    <3> HIDE DEF F, phase
    <3> QED BY <1>1 DEF Manifests
  <2> QED BY <2>1, <2>2, <2>3, <2>4
<1> HIDE DEF ended, cleared, collected, F, c
<1>13. CASE manifest' = ended /\ work' = NoWork
  <2>1. FileInv(ended, reports, batches)
    BY <1>3, <1>12 DEF FileInv, Offered
  <2>2. WorkInv(work', manifest', reports', batches')
    BY <1>13 DEF WorkInv, NoWork
  <2> QED BY <1>1, <1>13, <2>1, <2>2 DEF Dropless
<1>14. ASSUME NEW n, n \in Manifests, n.phases = m.phases, n.active = m.active, n.status = m.status,
              n.chunks = NoChunks, n.mode = m.mode,
              NEW S \in SUBSET Items, AskedOften(batches, S, phase.pass, phase.retry + 1),
              Owed(reports, batches, phase.pass, S),
              manifest' = n, work' = AfterPhase(n, phase, S)
       PROVE  Dropless'
  <2>1. NextInv(work', reports, batches)
    BY <1>1, <1>5, <1>6, <1>9, <1>14, AfterDrops
  <2>2. n.status \in Settled /\ n.status \notin Offered /\ n.status # "creating"
    BY <1>7, <1>14 DEF Settled, Offered
  <2>3. WorkInv(work', manifest', reports', batches')
    BY <1>1, <1>14, <2>1, <2>2, NextGives
  <2>4. ~PendingChunks(n)
    BY <1>14 DEF PendingChunks, NoChunks
  <2>5. n.active = Newest(n).name
    BY <1>7, <1>10, <1>11, <1>14
  <2>6. FileInv(n, reports, batches)
    BY <1>3, <1>11, <1>14, <2>2, <2>4, <2>5 DEF FileInv
  <2> QED BY <1>1, <1>14, <2>3, <2>6 DEF Dropless
<1>15. CASE /\ phase.chunk # 0 /\ c.on /\ c.remaining = <<>>
            /\ manifest' = cleared /\ work' = AfterPhase(cleared, phase, F)
  <2>1. AskedOften(batches, F, phase.pass, phase.retry + 1)
    BY <1>7, <1>8, <1>15 DEF ChunksInv, AskedOften, F
  <2>2. Waits(c) = {}
    BY <1>15 DEF Waits
  <2>3. Owed(reports, batches, phase.pass, F)
    <3>1. \A i \in Items : i \in phase.failed \cup Rest(c) => i \in F
      BY <2>2 DEF Rest, F
    <3> DEFINE S == phase.failed \cup Rest(c)
    <3>2. phase.pass \in 0..2 /\ Owed(reports, batches, phase.pass, S)
      BY <1>5, <1>7
    <3>3. \A i \in Items : i \in S => i \in F
      BY <3>1
    <3> HIDE DEF S, phase
    <3> QED BY <1>6, <3>2, <3>3, OwedKept
  <2> QED BY <1>5, <1>12, <1>14, <1>15, <2>1, <2>3
<1>16. CASE /\ ~(phase.chunk # 0 /\ c.on)
            /\ manifest' = m /\ work' = AfterPhase(m, phase, phase.failed)
  <2>1. c = NoChunks
    BY <1>7, <1>16 DEF ChunksInv
  <2>2. Owed(reports, batches, phase.pass, phase.failed)
    <3>1. Rest(NoChunks) = {}
      BY <1>5, RestTyped
    <3> QED BY <1>7, <2>1, <3>1
  <2> QED BY <1>1, <1>5, <1>8, <1>14, <1>16, <2>1, <2>2 DEF c
<1>17. CASE /\ phase.chunk # 0 /\ c.on /\ c.remaining # <<>>
            /\ manifest' = collected /\ work' = NextChunk(collected, phase)
  <2> DEFINE d == collected.chunks
             w == NextChunk(collected, phase)
  <2>1. /\ d.on = c.on /\ d.remaining = c.remaining /\ d.failed = F /\ d.next = c.next
    BY <1>5, <1>12 DEF Remembered
  <2>2. /\ w.m = collected /\ w.pass = phase.pass /\ w.ids = Head(d.remaining)
        /\ w.retry = phase.retry /\ w.chunk = d.next /\ w.keep = TRUE /\ w.step = "submit"
    BY DEF NextChunk
  <2> HIDE DEF w
  <2>3. /\ phase.chunk # 0 /\ c.next > phase.chunk /\ c.next \in Nat
        /\ \A j \in DOMAIN c.remaining : c.remaining[j] # {}
        /\ AskedOften(batches, Waits(c), phase.pass, phase.retry)
        /\ AskedOften(batches, c.failed, phase.pass, phase.retry + 1)
    BY <1>5, <1>7, <1>17, Zenon DEF ChunksInv, Remembered
  <2>4. Waits(d) = Waits(c) /\ AskedOften(batches, F, phase.pass, phase.retry + 1)
    BY <1>8, <2>1, <2>3 DEF Waits, AskedOften, F
  <2>5. Owed(reports, batches, phase.pass, Rest(d)) /\ Owed(reports, batches, phase.pass, phase.failed \cup Rest(d))
    <3>1. \A i \in Items : i \in phase.failed \cup Rest(c) => i \in Rest(d) /\ i \in phase.failed \cup Rest(d)
      BY <2>1, <2>4 DEF Rest, F
    <3> DEFINE S == phase.failed \cup Rest(c)
               T == phase.failed \cup Rest(d)
               R == Rest(d)
    <3>2. phase.pass \in 0..2 /\ Owed(reports, batches, phase.pass, S)
      BY <1>5, <1>7
    <3>3. \A i \in Items : i \in S => i \in R
      BY <3>1
    <3>4. \A i \in Items : i \in S => i \in T
      BY <3>1
    <3> HIDE DEF S, T, R, phase
    <3>5. Owed(reports, batches, phase.pass, R)
      BY <1>6, <3>2, <3>3, OwedKept
    <3>6. Owed(reports, batches, phase.pass, T)
      BY <1>6, <3>2, <3>4, OwedKept
    <3> QED BY <3>5, <3>6 DEF R, T
  <2>6. ChunksInv(batches, d, phase)
    BY <1>17, <2>1, <2>3, <2>4 DEF ChunksInv
  <2>7. Open(reports, batches, collected, phase, phase.failed)
    BY <1>7, <1>12, <2>5, <2>6 DEF Open, Offered
  <2>8. FileInv(collected, reports, batches)
    <3> DEFINE p == Newest(collected)
    <3>1. p = phase
      BY <1>10, <1>11, <1>12
    <3>2. collected.status \in {"completed", "failed"}
      BY <1>7, <1>12
    <3>3. Open(reports, batches, collected, p, Unsettled(p))
      <4>1. \A i \in Items : i \in phase.failed \cup Rest(d) => i \in Unsettled(phase) \cup Rest(d)
        BY <1>7 DEF Unsettled
      <4>2. Owed(reports, batches, phase.pass, Unsettled(phase) \cup Rest(d))
        BY <1>5, <1>6, <2>5, <4>1, OwedKept
      <4> QED BY <2>7, <3>1, <4>2 DEF Open
    <3> HIDE DEF p
    <3>4. collected.active = p.name
      BY <1>7, <1>12, <3>1
    <3> QED BY <1>3, <1>11, <1>12, <3>2, <3>3, <3>4 DEF FileInv, Offered, p
  <2>9. Follows(w)
    <3>1. ASSUME NEW j \in DOMAIN m.phases PROVE Precedes(m.phases[j], w)
      <4>1. m.phases[j] \in Phases
        BY <1>1, PhasesWith
      <4>2. m.phases[j].pass \in Nat /\ m.phases[j].retry \in Nat /\ m.phases[j].chunk \in Nat
        BY <4>1 DEF Phases
      <4>3. phase.chunk < w.chunk /\ w.chunk \in Nat
        BY <1>5, <2>1, <2>2, <2>3
      <4>4. CASE m.phases[j] = phase
        BY <2>2, <4>3, <4>4 DEF Precedes
      <4>5. CASE Precedes(m.phases[j], phase)
        BY <1>5, <2>2, <4>2, <4>3, <4>5 DEF Precedes
      <4> QED BY <1>9, <4>4, <4>5
    <3> QED BY <1>12, <2>2, <3>1 DEF Follows
  <2>10. FurtherChunk(w, reports, batches)
    <3>1. w.chunk # 0
      BY <1>5, <2>1, <2>2, <2>3
    <3> QED BY <1>17, <2>1, <2>2, <2>3, <2>4, <2>5, <3>1 DEF FurtherChunk
  <2>11. WorkInv(work', collected, reports, batches)
    <3>1. work' = w /\ collected.status \notin Offered
      BY <1>7, <1>12, <1>17 DEF Offered, w
    <3> QED BY <2>2, <2>9, <2>10, <3>1 DEF WorkInv, SubmitInv
  <2> QED BY <1>1, <1>17, <2>8, <2>11 DEF Dropless
<1> QED BY <1>2, <1>4, <1>13, <1>15, <1>16, <1>17

-------------------------------------------------------------------------------
\* Marks of a restart stay, and nobody is given back to be decided.
LEMMA UntouchedBefore ==
  ASSUME RBShape, [RBNext]_rbVars, Untouched'
  PROVE  Untouched /\ ~RestartInChunks /\ ~ForceRestart /\ ~(\E i \in Contested : DecideByHand(i))
<1> DEFINE Marks == /\ manifest'.mode = manifest.mode
                    /\ \A k \in DOMAIN manifest.phases :
                         k \in DOMAIN manifest'.phases /\ (manifest.phases[k].restart => manifest'.phases[k].restart)
<1>1. undecided \subseteq Items /\ manifest \in Manifests /\ manifest.phases \in Seq(Phases)
  BY DEF RBShape, RBTypeOK, Manifests
<1>2. ASSUME UNCHANGED manifest PROVE Marks
  BY <1>2
<1>3. ASSUME Record PROVE Marks
  <2>1. work.rows \in SUBSET Items /\ work.w \in Submissions /\ Len(batches) \in Nat /\ work # NoWork
    BY <1>3, WorkKinds DEF RBShape, RBTypeOK, Record, NoWork
  <2>2. work.w.m.phases = manifest.phases /\ work.w.m.mode = manifest.mode
    BY <1>3, <2>1 DEF RBShape, MemoryInv, Memory, Record
  <2>3. \E p : /\ manifest'.phases = Append(work.w.m.phases, p)
               /\ manifest'.mode = work.w.m.mode
    <3>1. manifest' = Recorded(work.w, work.rows, Len(batches))
      BY <1>3 DEF Record
    <3> QED BY <2>1, <3>1, RecordedGives
  <2>4. PICK p : manifest'.phases = Append(manifest.phases, p) /\ manifest'.mode = manifest.mode
    BY <2>2, <2>3
  <2>5. \A k \in DOMAIN manifest.phases : k \in DOMAIN manifest'.phases /\ manifest'.phases[k] = manifest.phases[k]
    BY <1>1, <2>4
  <2> QED BY <2>4, <2>5
<1>4. ASSUME Save PROVE Marks
  <2>1. work # NoWork /\ Memory = work.m
    BY <1>4 DEF Save, NoWork, Memory
  <2> QED BY <1>4, <2>1 DEF Save, RBShape, MemoryInv
<1>5. ASSUME Mark PROVE Marks
  <2>1. /\ manifest'.phases = WithImported(work.m.phases, work.k)
        /\ manifest'.mode = work.m.mode
    BY <1>5, MarkGives DEF WithImported
  <2>2. /\ work.m.mode = manifest.mode
        /\ work.k \in DOMAIN work.m.phases /\ work.m.phases \in Seq(Phases)
        /\ DOMAIN work.m.phases = DOMAIN manifest.phases
        /\ \A j \in DOMAIN manifest.phases : SamePhase(work.m.phases[j], manifest.phases[j])
    BY <1>5, ResultsHeld DEF Mark
  <2>3. /\ DOMAIN manifest'.phases = DOMAIN work.m.phases
        /\ \A j \in DOMAIN work.m.phases : SamePhase(manifest'.phases[j], work.m.phases[j])
    BY <2>1, <2>2, ImportedChanged
  <2> QED BY <2>1, <2>2, <2>3 DEF SamePhase
<1>6. ASSUME Decide PROVE Marks
  <2> DEFINE m == work.m
             F == m.chunks.failed \union m.phases[work.k].failed
  <2>1. m \in Manifests /\ m.phases = manifest.phases /\ m.mode = manifest.mode
    BY <1>6, ResultsHeld DEF Decide
  <2>2. \/ manifest' = [m EXCEPT !.status = "failed", !.active = NoPhase]
        \/ manifest' = [m EXCEPT !.chunks.failed = F]
        \/ manifest' = [m EXCEPT !.chunks = NoChunks]
        \/ manifest' = m
    BY <1>6, DecideGives, Zenon
  <2> HIDE DEF F, m
  <2>3. manifest'.phases = m.phases /\ manifest'.mode = m.mode
    BY <2>1, <2>2 DEF Manifests
  <2> QED BY <2>1, <2>3
<1>7. ASSUME Sync PROVE Marks
  <2> DEFINE m == Reopened(manifest)
             k == Active(m)
             phase == manifest.phases[k]
             synced == Synced(m, batches[phase.batch])
  <2>1. /\ m \in Manifests /\ m.phases = manifest.phases /\ k \in DOMAIN manifest.phases /\ phase \in Phases
        /\ synced \in Manifests /\ synced.phases = manifest.phases
    BY <1>7, SyncGives
  <2>2. m.mode = manifest.mode /\ synced.mode = m.mode
    BY <1>1, <2>1, ReopenedGives DEF Synced, Manifests
  <2>3. manifest' = synced \/ manifest' = [synced EXCEPT !.phases[k].failed = phase.ids] \/ manifest' = manifest
    BY <1>7, <2>1, Zenon DEF Sync
  <2>4. phase.ids \in SUBSET Items
    BY <2>1 DEF Phases
  <2> HIDE DEF m, k, phase, synced
  <2>5. CASE manifest' = [synced EXCEPT !.phases[k].failed = phase.ids]
    <3>1. manifest'.phases = WithFailed(manifest.phases, k, phase.ids) /\ manifest'.mode = synced.mode
      BY <2>1, <2>5 DEF Manifests, WithFailed
    <3>2. /\ DOMAIN manifest'.phases = DOMAIN manifest.phases
          /\ \A j \in DOMAIN manifest.phases : SamePhase(manifest'.phases[j], manifest.phases[j])
      BY <1>1, <2>1, <2>4, <3>1, FailedChanged
    <3> QED BY <2>2, <3>1, <3>2 DEF SamePhase
  <2> QED BY <2>1, <2>2, <2>3, <2>5
<1>8. CASE RestartInChunks
  <2>1. /\ Active(manifest) # 0 /\ manifest'.phases = WithRestart(manifest.phases, Active(manifest))
    BY <1>8, RestartGives
  <2>2. Active(manifest) \in DOMAIN manifest.phases
    BY <2>1, ActivePhase
  <2>3. /\ manifest'.phases[Active(manifest)].restart /\ Active(manifest) \in DOMAIN manifest'.phases
    BY <1>1, <2>1, <2>2, RestartChanged
  <2> QED BY <2>3 DEF Untouched, Restarted
<1>9. CASE ForceRestart
  <2>1. Active(manifest) # 0 /\ manifest.phases[Active(manifest)].restart
        /\ manifest' = [manifest EXCEPT !.active = NoPhase]
    BY <1>9 DEF ForceRestart
  <2>2. Active(manifest) \in DOMAIN manifest.phases
    BY <2>1, ActivePhase
  <2>3. manifest'.phases = manifest.phases
    BY <1>1, <2>1 DEF Manifests
  <2> QED BY <2>1, <2>2, <2>3 DEF Untouched, Restarted
<1>10. ASSUME Fault PROVE Marks
  BY <1>10, FaultShape
<1>11. ASSUME NEW i \in Contested, DecideByHand(i) PROVE FALSE
  <2>1. i \in Items /\ undecided' = undecided \ {i}
    BY <1>11, ReviewAssumption DEF DecideByHand
  <2> QED BY <2>1 DEF Untouched
<1>12. ~RestartInChunks /\ ~ForceRestart /\ ~(\E i \in Contested : DecideByHand(i))
  BY <1>8, <1>9, <1>11
<1>13. ASSUME NEW b \in DOMAIN batches, Finish(b) PROVE UNCHANGED <<manifest, undecided>>
  BY <1>13, Zenon DEF Finish
<1>14. Marks
  <2>1. Submit \/ Create \/ Import => UNCHANGED manifest
    BY Zenon DEF Submit, Create, Import
  <2>2. UNCHANGED rbVars => UNCHANGED manifest
    BY DEF rbVars
  <2> HIDE DEF Marks
  <2> QED BY <1>2, <1>3, <1>4, <1>5, <1>6, <1>7, <1>10, <1>12, <1>13, <2>1, <2>2 DEF RBNext, Worker
<1>15. undecided' = undecided
  <2>1. Submit \/ Create \/ Record \/ Save \/ Import \/ Mark \/ Decide => UNCHANGED undecided
    BY Zenon DEF Submit, Create, Record, Save, Import, Mark, Decide
  <2>2. Sync \/ Fault \/ UNCHANGED rbVars => UNCHANGED undecided
    BY Zenon DEF Sync, Fault, rbVars
  <2> QED BY <1>12, <1>13, <2>1, <2>2 DEF RBNext, Worker
<1>16. Untouched
  BY <1>14, <1>15 DEF Untouched, Restarted
<1> QED BY <1>12, <1>16

LEMMA DropKept ==
  ASSUME RBShape, DropInv, [RBNext]_rbVars
  PROVE  DropInv'
<1> SUFFICES ASSUME Untouched' PROVE Dropless'
  BY DEF DropInv, Dropless
<1>1. /\ Untouched /\ ~RestartInChunks /\ ~ForceRestart
      /\ ~(\E i \in Contested : DecideByHand(i))
  BY UntouchedBefore
<1>2. Dropless /\ undecided = Items /\ ~Restarted /\ manifest.mode # "test"
  BY <1>1 DEF DropInv, Dropless, Untouched
<1>3. CASE Submit
  BY <1>2, <1>3, SubmitDrops
<1>4. CASE Create
  BY <1>2, <1>4, CreateDrops
<1>5. CASE Record
  BY <1>2, <1>5, RecordDrops
<1>6. CASE Save
  BY <1>2, <1>6, SaveDrops
<1>7. CASE Import
  BY <1>2, <1>7, ImportDrops
<1>8. CASE Mark
  BY <1>2, <1>8, MarkDrops
<1>9. CASE Decide
  BY <1>2, <1>9, DecideDrops
<1>10. CASE Sync
  BY <1>2, <1>10, SyncDrops
<1>11. CASE Fault
  BY <1>2, <1>11, FaultDrops
<1>12. ASSUME NEW b \in DOMAIN batches, Finish(b) PROVE Dropless'
  BY <1>2, <1>12, FinishDrops
<1>13. CASE UNCHANGED rbVars
  <2>1. manifest' = manifest /\ reports' = reports /\ batches' = batches /\ work' = work
    BY <1>13 DEF rbVars
  <2> QED BY <1>2, <2>1 DEF Dropless
<1> QED BY <1>1, <1>3, <1>4, <1>5, <1>6, <1>7, <1>8, <1>9, <1>10, <1>11, <1>12, <1>13 DEF RBNext, Worker

LEMMA TestKept ==
  ASSUME RBShape, TestInv, [RBNext]_rbVars
  PROVE  TestInv'
<1>1. CASE Submit
  <2> DEFINE n == [work.m EXCEPT !.active = NoPhase]
  <2>1. work \in Submissions /\ work # NoWork /\ work.step = "submit"
    BY <1>1, WorkKinds DEF RBShape, Submit, NoWork
  <2>2. work.m \in Manifests /\ work.pass \in 1..2 /\ work.m.mode = manifest.mode /\ manifest' = manifest
    BY <1>1, <2>1 DEF RBShape, MemoryInv, Memory, Submissions, Submit
  <2>3. n \in Manifests /\ n.mode = work.m.mode
    BY <2>2, ManifestsWith, Zenon DEF Manifests
  <2>4. Rows(work.pass, work.ids) \in SUBSET Items
    BY DEF Rows, RBShape, RBTypeOK
  <2> HIDE DEF n
  <2>5. CASE work' = Advance(n, work.pass)
    <3>1. CASE work' \in Submissions
      BY <2>2, <3>1 DEF TestInv, Submissions
    <3>2. ASSUME NEW s \in Statuses,
                 work' = [step |-> "save", m |-> [n EXCEPT !.active = NoPhase, !.status = s]],
                 s \in {"awaiting_calibration", "ready_to_admit"} => n.mode # "test"
          PROVE  TestInv'
      <4> DEFINE l == [n EXCEPT !.active = NoPhase, !.status = s]
      <4>1. l.status = s
        BY <2>3 DEF Manifests
      <4> HIDE DEF l
      <4>2. work' = [step |-> "save", m |-> l]
        BY <3>2 DEF l
      <4>3. work'.m = l
        BY <4>2
      <4> QED BY <2>2, <2>3, <3>2, <4>1, <4>3 DEF TestInv, Offered
    <3> DEFINE a == Advance(n, work.pass)
               Saved(s) == [step |-> "save", m |-> [n EXCEPT !.active = NoPhase, !.status = s]]
    <3>3. \/ a \in Submissions
          \/ \E s \in Statuses :
               a = Saved(s) /\ (s \in {"awaiting_calibration", "ready_to_admit"} => n.mode # "test")
      <4>1. work.pass \in 1..2
        BY <2>2
      <4>2. \/ /\ n.mode # "test" /\ work.pass = 1
               /\ a = Retry(n, 2, Everything, 0)
               /\ a \in Submissions
            \/ \E s \in Statuses :
                 /\ a = Saved(s)
                 /\ [n EXCEPT !.active = NoPhase, !.status = s] \in Manifests
                 /\ s # "creating"
                 /\ s \in {"awaiting_calibration", "ready_to_admit"} => n.mode # "test" /\ work.pass = 2
        BY <2>3, <4>1, AdvanceGives, Zenon
      <4> HIDE DEF a, Saved
      <4> QED BY <4>2, Zenon
    <3>4. work' = a
      BY <2>5
    <3> HIDE DEF a, Saved
    <3>5. CASE a \in Submissions
      BY <3>1, <3>4, <3>5
    <3>6. ASSUME NEW s \in Statuses, a = Saved(s),
                 s \in {"awaiting_calibration", "ready_to_admit"} => n.mode # "test"
          PROVE  TestInv'
      BY <3>2, <3>4, <3>6, Zenon DEF Saved
    <3> QED BY <3>3, <3>5, <3>6
  <2>6. CASE Rows(work.pass, work.ids) # {} /\ work' = Prepared(work, Rows(work.pass, work.ids))
    <3>1. work'.step = "create"
      BY <2>1, <2>4, <2>6, PreparedIs
    <3> QED BY <2>2, <3>1 DEF TestInv
  <2> QED BY <1>1, <2>5, <2>6 DEF Submit, n
<1>2. CASE Create
  <2>1. manifest' = manifest /\ work'.step = "record"
    BY <1>2, CreateShape, WorkKinds DEF Create, RBShape
  <2> QED BY <2>1 DEF TestInv
<1>3. CASE Record
  <2>1. work.rows \in SUBSET Items /\ work.w \in Submissions /\ Len(batches) \in Nat
    BY <1>3, WorkKinds DEF RBShape, RBTypeOK, Record
  <2>2. manifest' = Recorded(work.w, work.rows, Len(batches)) /\ work' = NoWork
    BY <1>3 DEF Record
  <2>3. manifest'.status = "submitted"
    BY <2>1, <2>2, RecordedGives
  <2> QED BY <2>2, <2>3 DEF TestInv, Offered, NoWork
<1>4. CASE Save
  <2>1. work # NoWork /\ Memory = work.m /\ manifest' = work.m /\ work' = NoWork /\ work.step = "save"
    BY <1>4 DEF Save, NoWork, Memory
  <2> QED BY <2>1 DEF TestInv, RBShape, MemoryInv, NoWork
<1>5. CASE Import
  <2>1. /\ work'.m.status = work.m.status /\ manifest' = manifest /\ work.step = "import"
    BY <1>5, ImportGives, Zenon DEF Import
  <2> QED BY <2>1 DEF TestInv
<1>6. CASE Mark
  <2>1. /\ manifest'.mode = work.m.mode /\ manifest'.status = work.m.status
        /\ work' = [step |-> "decide", m |-> manifest', k |-> work.k]
    BY <1>6, MarkGives
  <2>2. work.m.mode = manifest.mode /\ work.step = "mark"
    BY <1>6, ResultsHeld DEF Mark
  <2>3. work'.m = manifest'
    BY <2>1
  <2> QED BY <2>1, <2>2, <2>3 DEF TestInv
<1>7. CASE Decide
  <2> DEFINE m == work.m
             F == m.chunks.failed \union m.phases[work.k].failed
             phase == m.phases[work.k]
             l == [m EXCEPT !.chunks = NoChunks]
  <2>1. /\ m \in Manifests /\ m.mode = manifest.mode /\ work.step = "decide" /\ phase \in Phases
    BY <1>7, ResultsHeld DEF Decide
  <2>2. F \in SUBSET Items /\ phase.failed \in SUBSET Items
    BY <2>1 DEF Manifests, Phases
  <2>3. l \in Manifests /\ l.mode = m.mode
    BY <2>1, ManifestsWith, Zenon DEF Manifests
  <2>4. \/ manifest' = [m EXCEPT !.status = "failed", !.active = NoPhase]
        \/ manifest' = [m EXCEPT !.chunks.failed = F]
        \/ manifest' = [m EXCEPT !.chunks = NoChunks]
        \/ manifest' = m
    BY <1>7, DecideGives
  <2>5. \/ work' = NoWork \/ work'.step = "submit"
        \/ \E x \in {m, l}, S \in SUBSET Items : work' = AfterPhase(x, phase, S)
    <3> DEFINE After(x, S) == work' = AfterPhase(x, phase, S)
    <3>1. \/ work' = NoWork
          \/ work' = NextChunk([m EXCEPT !.chunks.failed = F], phase)
          \/ work' = Retry(m, phase.pass, phase.failed, phase.retry)
          \/ After(l, F) \/ After(m, phase.failed)
      BY <1>7, DecideGives
    <3>2. \A x : NextChunk(x, phase).step = "submit"
      BY DEF NextChunk
    <3>3. Retry(m, phase.pass, phase.failed, phase.retry).step = "submit"
      BY DEF Retry
    <3> HIDE DEF F, l, m, phase
    <3> QED BY <2>2, <3>1, <3>2, <3>3
  <2> HIDE DEF F, m, phase, l
  <2>6. /\ manifest'.mode = m.mode
        /\ manifest'.status = "failed" \/ manifest'.status = m.status
    BY <2>1, <2>4 DEF Manifests
  <2>7. ASSUME NEW x \in {m, l}, NEW S \in SUBSET Items, work' = AfterPhase(x, phase, S),
               manifest.mode = "test", work'.step = "save"
        PROVE  work'.m.status \notin Offered
    <3> DEFINE n == [x EXCEPT !.active = NoPhase]
    <3>1. x \in Manifests /\ x.mode = "test" /\ phase.pass \in 1..2
      BY <2>1, <2>3, <2>7 DEF Phases
    <3>2. n \in Manifests /\ n.mode = "test"
      BY <3>1, ManifestsWith, Zenon DEF Manifests
    <3> HIDE DEF n
    <3>3. work' = Advance(n, phase.pass)
      <4>1. \A r : Retry(x, phase.pass, S, r).step = "submit"
        BY DEF Retry
      <4> QED BY <2>7, <4>1 DEF AfterPhase, n
    <3>4. PICK s \in Statuses :
             /\ Advance(n, phase.pass) = [step |-> "save", m |-> [n EXCEPT !.active = NoPhase, !.status = s]]
             /\ s \in {"awaiting_calibration", "ready_to_admit"} => n.mode # "test"
      BY <3>1, <3>2, AdvanceGives, Zenon
    <3> DEFINE y == [n EXCEPT !.active = NoPhase, !.status = s]
    <3>5. y.status = s
      BY <3>2 DEF Manifests
    <3> HIDE DEF y
    <3>6. work' = [step |-> "save", m |-> y]
      BY <3>3, <3>4 DEF y
    <3>7. work'.m = y
      BY <3>6
    <3> QED BY <3>2, <3>4, <3>5, <3>7 DEF Offered
  <2>8. work'.step \in {"idle", "submit", "save"}
    <3>1. \A x \in Manifests : \A S \in SUBSET Items : AfterPhase(x, phase, S).step \in {"submit", "save"}
      BY <2>1, AfterPhaseGives DEF Submissions
    <3> QED BY <2>1, <2>3, <2>5, <3>1 DEF NoWork
  <2>9. ASSUME manifest.mode = "test", work'.step = "save" PROVE work'.m.status \notin Offered
    BY <2>5, <2>7, <2>9 DEF NoWork
  <2>10. manifest.mode = "test" => manifest'.status \notin Offered
    BY <2>1, <2>6 DEF TestInv, Offered, m
  <2> QED BY <2>1, <2>6, <2>8, <2>9, <2>10 DEF TestInv
<1>8. CASE Sync
  <2> DEFINE m == Reopened(manifest)
             k == Active(m)
             phase == manifest.phases[k]
             batch == batches[phase.batch]
             synced == Synced(m, batch)
  <2>1. /\ m \in Manifests /\ m.phases = manifest.phases /\ synced \in Manifests
        /\ synced.status = (IF Terminal(batch) THEN batch.state ELSE "running")
    BY <1>8, SyncGives
  <2>2. m.mode = manifest.mode /\ synced.mode = m.mode
    BY <2>1, ReopenedGives DEF Synced, Manifests, RBShape, RBTypeOK
  <2>3. synced.status \notin Offered
    BY <2>1 DEF Terminal, Offered
  <2> DEFINE gone == [synced EXCEPT !.phases[k].failed = phase.ids]
             Running == manifest' = synced /\ work' = work
             Ended == manifest' = gone /\ work' = Retry(manifest', phase.pass, phase.ids, phase.retry)
             Over == manifest' = synced /\ work' = NoWork
             Ready == /\ manifest' = manifest
                      /\ work' = [step |-> IF phase.imported THEN "decide" ELSE "import", m |-> synced, k |-> k]
  <2>4. work = NoWork /\ (Running \/ Ended \/ Over \/ Ready)
    <3>1. m.phases[k] = phase
      BY <2>1
    <3> QED BY <1>8, <3>1, Zenon DEF Sync
  <2>5. \A x, p, i, r : Retry(x, p, i, r).step = "submit"
    BY DEF Retry
  <2> HIDE DEF m, k, phase, batch, synced, gone
  <2>6. \/ manifest' = manifest /\ work'.m = synced
        \/ /\ manifest'.mode = synced.mode /\ manifest'.status = synced.status
           /\ work'.step \in {"idle", "submit"}
    <3>1. gone.mode = synced.mode /\ gone.status = synced.status
      BY <2>1 DEF Manifests, gone
    <3>2. CASE Running
      BY <2>4, <3>2 DEF NoWork
    <3>3. CASE Ended
      <4>1. manifest' = gone /\ work'.step = "submit"
        BY <2>5, <3>3
      <4> QED BY <3>1, <4>1
    <3>4. CASE Over
      BY <3>4 DEF NoWork
    <3>5. CASE Ready
      BY <3>5
    <3> QED BY <2>4, <3>2, <3>3, <3>4, <3>5
  <2> QED BY <2>2, <2>3, <2>6 DEF TestInv
<1>9. CASE RestartInChunks
  <2>1. /\ manifest \in Manifests /\ work' = NoWork
        /\ manifest' = [manifest EXCEPT !.phases[Active(manifest)].restart = TRUE, !.status = "running"]
    BY <1>9 DEF RestartInChunks, RBShape, RBTypeOK
  <2>2. manifest'.status = "running"
    BY <2>1 DEF Manifests
  <2> QED BY <2>1, <2>2 DEF TestInv, Offered, NoWork
<1>10. CASE ForceRestart
  <2>1. /\ manifest \in Manifests /\ work'.step = "submit"
        /\ manifest' = [manifest EXCEPT !.active = NoPhase]
    BY <1>10 DEF ForceRestart, Retry, RBShape, RBTypeOK
  <2>2. manifest'.status = manifest.status /\ manifest'.mode = manifest.mode
    BY <2>1 DEF Manifests
  <2> QED BY <2>1, <2>2 DEF TestInv
<1>11. CASE Fault
  <2>1. manifest \in Manifests /\ work' = NoWork
        /\ (manifest' = manifest \/ manifest' = [manifest EXCEPT !.status = "failed"])
    BY <1>11 DEF Fault, RBShape, RBTypeOK
  <2>2. manifest' = manifest \/ manifest'.status = "failed"
    BY <2>1 DEF Manifests
  <2> QED BY <2>1, <2>2 DEF TestInv, Offered, NoWork
<1>12. ASSUME NEW b \in DOMAIN batches, Finish(b) PROVE TestInv'
  BY <1>12, Zenon DEF Finish, TestInv
<1>13. ASSUME NEW i \in Contested, DecideByHand(i) PROVE TestInv'
  BY <1>13 DEF DecideByHand, TestInv
<1>14. CASE UNCHANGED rbVars
  BY <1>14 DEF TestInv, rbVars
<1> QED BY <1>1, <1>2, <1>3, <1>4, <1>5, <1>6, <1>7, <1>8, <1>9, <1>10, <1>11, <1>12, <1>13, <1>14
        DEF RBNext, Worker

LEMMA DropsNothingAtFirst ==
  ASSUME RBInit
  PROVE  DropInv /\ TestInv
<1>1. PICK mode \in Modes : manifest = NewManifest(mode)
  BY DEF RBInit
<1>2. /\ manifest.phases = <<>> /\ manifest.active = NoPhase /\ manifest.status = "creating"
      /\ manifest.chunks = NoChunks
  BY <1>1 DEF NewManifest
<1>3. /\ work.step = "submit" /\ work.m = manifest /\ work.pass = 1 /\ work.ids = Everything
      /\ work.retry = 0 /\ work.chunk = 0 /\ work.keep = FALSE
  BY DEF RBInit
<1>4. FileInv(manifest, reports, batches)
  BY <1>2 DEF FileInv, Ordered, Offered
<1>5. Owed(reports, batches, 0, {})
  BY DEF Owed
<1>6. SubmitInv(work, reports, batches)
  <2>1. Follows(work)
    BY <1>2, <1>3 DEF Follows
  <2>2. FullPass(work, reports, batches)
    <3>1. work.pass - 1 = 0
      BY <1>3
    <3> QED BY <1>2, <1>3, <1>5, <3>1 DEF FullPass
  <2> QED BY <2>1, <2>2 DEF SubmitInv
<1>7. WorkInv(work, manifest, reports, batches)
  BY <1>2, <1>3, <1>6 DEF WorkInv, Offered
<1>8. TestInv
  BY <1>2, <1>3 DEF TestInv, Offered
<1> QED BY <1>4, <1>7, <1>8 DEF DropInv

\* A run that nobody restarted or decided by hand is offered for admission only
\* when every candidate has the reports it needs or was asked as often as
\* failures are asked again: retries, chunks and deaths of the worker lose none
\* (review_automation.py).
THEOREM NothingIsDropped == RBSpec => []NothingDropped
<1>1. ASSUME RBShape, DropInv, TestInv PROVE NothingDropped
  <2>1. SUFFICES ASSUME manifest.status \in Offered, undecided = Items, ~Restarted,
                        NEW i \in Items, NEW pass \in 1..2, Required(i, pass)
                 PROVE  reports[pass][i] # "none" \/ TimesAsked(i, pass) > RETRIES
    BY DEF NothingDropped, Offered
  <2>2. Untouched
    BY <1>1, <2>1 DEF Untouched, TestInv
  <2>3. Owed(reports, batches, 2, {})
    BY <1>1, <2>1, <2>2 DEF DropInv, FileInv
  <2>4. Needs(reports, i, pass)
    BY <2>1 DEF Needs, Required
  <2>5. Answered(reports, batches, i, pass)
    BY <2>3, <2>4 DEF Owed
  <2> QED BY <2>5 DEF Answered, Asks, TimesAsked
<1> QED BY <1>1, DropsNothingAtFirst, DropKept, TestKept, RBShapeHolds, PTL DEF RBSpec

=============================================================================
