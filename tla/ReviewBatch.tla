----------------------------- MODULE ReviewBatch -----------------------------
(* A run of the batch review (review_automation.py): every selected candidate  *)
(* is asked once, doubtful and important ones a second time; the requests go   *)
(* to the provider in paid batches, failed ones are asked again, large retries *)
(* in chunks.  The manifest is one file that is replaced as a whole; a step of *)
(* the worker ends where it writes the manifest or pays for a batch, and the   *)
(* worker may fail or die between two steps.  One worker holds the in-process  *)
(* lock at a time.                                                             *)
EXTENDS Naturals, FiniteSets, Sequences, SequencesExt

CONSTANTS N,             \* number of candidates
          Light,         \* relations without a high-impact type, whose verdict decides
                         \* whether they are asked again
          Contested,     \* candidates that a reviewer may decide meanwhile
          Modes,         \* kinds of run that are started
          CHUNK, RETRIES,    \* RETRY_CHUNK_SIZE, and how often a failure is asked again
          Price,             \* usage of the answers on a set of candidates
          BUDGET, SECOND,    \* ceiling, and the estimate of the second pass
          MaxTroubles, MaxBatches  \* bounds of the instance

Items == 1..N

ASSUME ReviewAssumption ==
    /\ {N, CHUNK, RETRIES, BUDGET, SECOND, MaxTroubles, MaxBatches} \subseteq Nat
    /\ CHUNK > 0 /\ Light \subseteq Items /\ Contested \subseteq Items
    /\ Price \in [SUBSET Items -> Nat]
    /\ Modes \subseteq {"test", "calibration", "production"}

VARIABLES manifest,  \* the file
          reports,   \* pass -> candidate -> verdict in reports.jsonl
          undecided,   \* candidates nobody has decided by hand
          batches,   \* the provider's batches, in the order of their creation
          work,      \* the worker: its step and the manifest it has in memory
          troubles   \* how many faults and restarts there were

rbVars == <<manifest, reports, undecided, batches, work, troubles>>

NoChunks == [on |-> FALSE, remaining |-> <<>>, failed |-> {}, next |-> 0]
NoPhase == <<>>        \* active_phase None; else the name of a phase
NewManifest(mode) == [mode |-> mode, status |-> "creating", phases |-> <<>>,
                      active |-> NoPhase, chunks |-> NoChunks, cost |-> 0]
Everything == Items \union {0}      \* retry_custom_ids None
NoWork == [step |-> "idle"]

Settled == {"failed", "completed", "awaiting_calibration", "ready_to_admit"}

Phases == {p \in [name : (1..2) \X Nat \X Nat, pass : 1..2, retry : Nat, chunk : Nat,
                  ids : SUBSET Items, batch : Nat, imported : BOOLEAN,
                  failed : SUBSET Items, restart : BOOLEAN] :
              p.name = <<p.pass, p.retry, p.chunk>>}
Manifests == [mode : Modes, status : Settled \union {"creating", "submitted", "running"},
              phases : Seq(Phases), active : ((1..2) \X Nat \X Nat) \union {NoPhase},
              chunks : [on : BOOLEAN, remaining : Seq(SUBSET Items), failed : SUBSET Items,
                        next : Nat],
              cost : Nat]
Submissions == [step : {"submit"}, m : Manifests, pass : 1..2,
                ids : (SUBSET Items) \union {Everything},
                retry : Nat, chunk : Nat, keep : BOOLEAN]

RBTypeOK ==
    /\ manifest \in Manifests
    /\ reports \in [1..2 -> [Items -> {"none", "approve", "other"}]]
    /\ undecided \subseteq Items
    /\ batches \in Seq([ids : SUBSET Items, pass : 1..2,
                        state : {"running", "cancelling", "completed", "failed"},
                        output : BOOLEAN, good : SUBSET Items])
    /\ work \in {NoWork} \union Submissions
            \union [step : {"create", "record"}, rows : SUBSET Items, w : Submissions]
            \union [step : {"save"}, m : Manifests]
            \union [step : {"import", "mark", "decide"}, m : Manifests, k : Nat]
    /\ troubles \in 0..MaxTroubles

RBInit ==
    /\ manifest \in {NewManifest(mode) : mode \in Modes}
    /\ reports = [pass \in 1..2 |-> [i \in Items |-> "none"]]
    /\ undecided = Items
    /\ batches = <<>>
    /\ work = [step |-> "submit", m |-> manifest, pass |-> 1, ids |-> Everything,
               retry |-> 0, chunk |-> 0, keep |-> FALSE]
    /\ troubles = 0

-------------------------------------------------------------------------------
(* Submitting a phase *)

Rows(pass, ids) ==
    {i \in undecided \intersect ids :
        /\ ids = Everything => reports[pass][i] = "none"
        /\ ids = Everything /\ pass = 2 =>
               reports[1][i] # "none" /\ ~(i \in Light /\ reports[1][i] = "approve")}

Retry(m, pass, ids, retry) ==
    [step |-> "submit", m |-> m, pass |-> pass, ids |-> ids,
     retry |-> retry, chunk |-> 0, keep |-> FALSE]
NextChunk(m, phase) ==
    [step |-> "submit", m |-> m, pass |-> phase.pass, ids |-> Head(m.chunks.remaining),
     retry |-> phase.retry, chunk |-> m.chunks.next, keep |-> TRUE]

(* Slices of CHUNK rows, in the order of the candidates.                       *)
Chunks(rows) ==
    LET Before(i) == Cardinality({j \in rows : j < i}) IN
    [k \in 1..((Cardinality(rows) + CHUNK - 1) \div CHUNK) |->
        {i \in rows : Before(i) \div CHUNK = k - 1}]

(* The end of a pass.                                                          *)
Advance(m, pass) ==
    IF m.mode # "test" /\ pass = 1
    THEN IF m.cost + SECOND > BUDGET
         THEN [step |-> "save", m |-> [m EXCEPT !.status = "failed", !.active = NoPhase]]
         ELSE Retry(m, 2, Everything, 0)
    ELSE [step |-> "save", m |-> [m EXCEPT !.active = NoPhase, !.status =
            IF m.mode = "test" THEN "completed"
            ELSE IF m.mode = "calibration" THEN "awaiting_calibration" ELSE "ready_to_admit"]]

(* Rows in hand: the first chunk of a large retry, with the rest remembered,   *)
(* or all of them.                                                             *)
Prepared(w, rows) ==
    IF w.ids # Everything /\ w.chunk = 0 /\ Cardinality(rows) > CHUNK
    THEN LET cs == Chunks(rows) IN
         [step |-> "create", rows |-> cs[1], w |-> [w EXCEPT !.chunk = 1,
            !.m.chunks = [on |-> TRUE, remaining |-> Tail(cs), failed |-> {}, next |-> 2]]]
    ELSE [step |-> "create", rows |-> rows,
          w |-> IF w.keep \/ w.chunk # 0 THEN w ELSE [w EXCEPT !.m.chunks = NoChunks]]

Submit ==
    /\ work.step = "submit"
    /\ LET rows == Rows(work.pass, work.ids) IN
       work' = IF rows = {} THEN Advance([work.m EXCEPT !.active = NoPhase], work.pass)
               ELSE Prepared(work, rows)
    /\ UNCHANGED <<manifest, reports, undecided, batches, troubles>>

Create ==
    /\ work.step = "create"
    /\ Len(batches) < MaxBatches
    /\ batches' = Append(batches, [ids |-> work.rows, pass |-> work.w.pass, state |-> "running",
                                   output |-> FALSE, good |-> {}])
    /\ work' = [work EXCEPT !.step = "record"]
    /\ UNCHANGED <<manifest, reports, undecided, troubles>>

ChunksAfter(c, rows, chunk) ==
    [c EXCEPT !.remaining = IF @ # <<>> /\ Head(@) = rows THEN Tail(@) ELSE @,
              !.next = chunk + 1]

Recorded(w, rows, batch) ==
    LET name == <<w.pass, w.retry, w.chunk>> IN
    [w.m EXCEPT !.phases = Append(@, [name |-> name, pass |-> w.pass, retry |-> w.retry,
                                      chunk |-> w.chunk, ids |-> rows, batch |-> batch,
                                      imported |-> FALSE, failed |-> {}, restart |-> FALSE]),
                !.active = name, !.status = "submitted",
                !.chunks = IF w.keep THEN ChunksAfter(@, rows, w.chunk) ELSE @]

Record ==
    /\ work.step = "record"
    /\ manifest' = Recorded(work.w, work.rows, Len(batches))
    /\ work' = NoWork
    /\ UNCHANGED <<reports, undecided, batches, troubles>>

Save ==
    /\ work.step = "save"
    /\ manifest' = work.m
    /\ work' = NoWork
    /\ UNCHANGED <<reports, undecided, batches, troubles>>

-------------------------------------------------------------------------------
(* Synchronising a run *)

PendingChunks(m) == m.chunks.on /\ (m.chunks.remaining # <<>> \/ m.chunks.failed # {})

(* The phase with the name of the active one: the first, if a name recurs.     *)
Active(m) == SelectInSeq(m.phases, LAMBDA p : p.name = m.active)
LastChunk(m) == SelectLastInSeq(m.phases, LAMBDA p : p.chunk # 0)

Reopened(m) ==
    IF m.status = "ready_to_admit" /\ PendingChunks(m)
    THEN [m EXCEPT !.status = "running",
                   !.active = IF @ # NoPhase \/ LastChunk(m) = 0 THEN @
                              ELSE m.phases[LastChunk(m)].name]
    ELSE m

Terminal(batch) == batch.state \in {"completed", "failed"}
Synced(m, batch) == [m EXCEPT !.status = IF Terminal(batch) THEN batch.state ELSE "running"]

(* One synchronisation up to the point where results are to be imported.       *)
Sync ==
    /\ work = NoWork
    /\ manifest.status \notin Settled \/ PendingChunks(manifest)
    /\ LET m == Reopened(manifest)
           k == Active(m) IN
       /\ k # 0
       /\ LET phase == m.phases[k]
              batch == batches[phase.batch]
              synced == Synced(m, batch) IN
          \/ /\ ~Terminal(batch)
             /\ manifest' = synced
             /\ UNCHANGED work
          \/ /\ batch.state = "failed" /\ ~batch.output
             /\ manifest' = IF phase.restart
                            THEN [synced EXCEPT !.phases[k].failed = phase.ids]
                            ELSE synced
             /\ work' = IF phase.restart
                        THEN Retry(manifest', phase.pass, phase.ids, phase.retry) ELSE NoWork
          \/ /\ batch.state = "completed" \/ (batch.state = "failed" /\ batch.output)
             /\ work' = [step |-> IF phase.imported THEN "decide" ELSE "import",
                         m |-> synced, k |-> k]
             /\ UNCHANGED manifest
    /\ UNCHANGED <<reports, undecided, batches, troubles>>

(* The reports are appended under their keys, then the manifest is marked.     *)
Import ==
    /\ work.step = "import"
    /\ LET phase == work.m.phases[work.k]
           good == batches[phase.batch].good IN
       /\ \E yes \in SUBSET (good \intersect undecided \intersect Light) :
            reports' = IF work.m.mode = "test" THEN reports
                ELSE [reports EXCEPT ![phase.pass] = [i \in Items |->
                        IF i \in good \intersect undecided
                        THEN (IF i \in yes THEN "approve" ELSE "other") ELSE @[i]]]
       /\ work' = [work EXCEPT !.step = "mark",
                   !.m.phases[work.k].failed =
                       phase.ids \ (IF work.m.mode = "test" THEN good ELSE good \intersect undecided)]
    /\ UNCHANGED <<manifest, undecided, batches, troubles>>

Usage(batch) == Price[batch.good]
MarkedWithoutMarker(m, k) ==
    [m EXCEPT !.cost = IF m.mode = "test" THEN @ ELSE @ + Usage(batches[m.phases[k].batch])]
Marked(m, k) ==
    [m EXCEPT !.phases[k].imported = TRUE,
              !.cost = IF m.mode = "test" THEN @ ELSE @ + Usage(batches[m.phases[k].batch])]

Mark ==
    /\ work.step = "mark"
    /\ manifest' = Marked(work.m, work.k)
    /\ work' = [work EXCEPT !.step = "decide", !.m = manifest']
    /\ UNCHANGED <<reports, undecided, batches, troubles>>

(* What follows when every failure of a phase is known.                        *)
AfterPhase(m, phase, failed) ==
    IF failed # {} /\ phase.retry < RETRIES
    THEN Retry(m, phase.pass, failed, phase.retry + 1)
    ELSE Advance([m EXCEPT !.active = NoPhase], phase.pass)

FailedOfLast(m, k) == m.phases[k].failed
FailedSoFar(m, k) == m.chunks.failed \union m.phases[k].failed

Decide ==
    /\ work.step = "decide"
    /\ LET m == work.m
           k == work.k
           phase == m.phases[k]
           collected == [m EXCEPT !.chunks.failed = FailedSoFar(m, k)] IN
       IF m.cost > BUDGET
       THEN /\ manifest' = [m EXCEPT !.status = "failed", !.active = NoPhase]
            /\ work' = NoWork
       ELSE IF phase.chunk # 0 /\ m.chunks.on
       THEN IF m.chunks.remaining # <<>>
            THEN /\ manifest' = collected
                 /\ work' = NextChunk(collected, phase)
            ELSE /\ manifest' = [m EXCEPT !.chunks = NoChunks]
                 /\ work' = AfterPhase(manifest', phase, FailedSoFar(m, k))
       ELSE /\ manifest' = m
            /\ work' = IF phase.restart /\ phase.failed # {}
                       THEN Retry(m, phase.pass, phase.failed, phase.retry)
                       ELSE AfterPhase(m, phase, phase.failed)
    /\ UNCHANGED <<reports, undecided, batches, troubles>>

-------------------------------------------------------------------------------
(* The operator restarts a phase that hangs *)

InProgress == {"submitted", "running"}

RestartInChunks ==
    /\ work = NoWork /\ troubles < MaxTroubles
    /\ manifest.status \in InProgress
    /\ LET k == Active(manifest) IN
       /\ k # 0
       /\ LET b == manifest.phases[k].batch IN
          /\ ~Terminal(batches[b])
          /\ \/ batches' = [batches EXCEPT ![b].state = "cancelling"]
             \/ UNCHANGED batches
       /\ manifest' = [manifest EXCEPT !.phases[k].restart = TRUE, !.status = "running"]
    /\ troubles' = troubles + 1
    /\ UNCHANGED <<reports, undecided, work>>

ForceRestart ==
    /\ work = NoWork
    /\ manifest.status \in InProgress
    /\ LET k == Active(manifest) IN
       /\ k # 0
       /\ LET phase == manifest.phases[k] IN
          /\ phase.restart /\ ~Terminal(batches[phase.batch])
          /\ manifest' = [manifest EXCEPT !.active = NoPhase]
          /\ work' = Retry(manifest', phase.pass, phase.ids, phase.retry)
    /\ UNCHANGED <<reports, undecided, batches, troubles>>

-------------------------------------------------------------------------------
(* The provider, the reviewers and the faults *)

(* How a batch ends that no phase in use refers to is never looked at.         *)
Finish(b) ==
    /\ Active(manifest) # 0 /\ manifest.phases[Active(manifest)].batch = b
    /\ ~Terminal(batches[b])
    /\ \/ \E good \in SUBSET batches[b].ids :
            batches' = [batches EXCEPT ![b] =
                [@ EXCEPT !.state = "completed", !.output = TRUE, !.good = good]]
       \/ \E good \in SUBSET batches[b].ids, output \in BOOLEAN :
            /\ output \/ good = {}
            /\ batches' = [batches EXCEPT ![b] =
                [@ EXCEPT !.state = "failed", !.output = output, !.good = good]]
    /\ UNCHANGED <<manifest, reports, undecided, work, troubles>>

DecideByHand(i) ==
    /\ i \in undecided
    /\ undecided' = undecided \ {i}
    /\ UNCHANGED <<manifest, reports, batches, work, troubles>>

(* A call of the provider fails or the process dies: what was in memory goes.  *)
(* A failure of the first submission is recorded, a death is not.              *)
Fault ==
    /\ work # NoWork /\ troubles < MaxTroubles
    /\ work' = NoWork
    /\ manifest' \in {manifest} \union
            (IF manifest.status = "creating" THEN {[manifest EXCEPT !.status = "failed"]} ELSE {})
    /\ troubles' = troubles + 1
    /\ UNCHANGED <<reports, undecided, batches>>

Worker == Submit \/ Create \/ Record \/ Save \/ Import \/ Mark \/ Decide

RBNext ==
    \/ Worker \/ Sync \/ RestartInChunks \/ ForceRestart \/ Fault
    \/ \E b \in DOMAIN batches : Finish(b)
    \/ \E i \in Contested : DecideByHand(i)

RBSpec == RBInit /\ [][RBNext]_rbVars

-------------------------------------------------------------------------------
Required(i, pass) ==
    pass = 1 \/ (reports[1][i] # "none" /\ ~(i \in Light /\ reports[1][i] = "approve"))
TimesAsked(i, pass) == Cardinality({b \in DOMAIN batches : i \in batches[b].ids /\ batches[b].pass = pass})
Restarted == \E k \in DOMAIN manifest.phases : manifest.phases[k].restart

(* Before a run is offered for admission every candidate has the reports it    *)
(* needs or was asked as often as failures are asked again, through retries,   *)
(* chunks and crashes (of runs nobody restarted or decided by hand meanwhile). *)
NothingDropped ==
    manifest.status \in {"awaiting_calibration", "ready_to_admit"}
        /\ undecided = Items /\ ~Restarted
    => \A i \in Items, pass \in 1..2 :
          Required(i, pass) => reports[pass][i] # "none" \/ TimesAsked(i, pass) > RETRIES

(* The usage in the manifest is that of the imported batches, each counted     *)
(* once, however often an import is repeated after a failure.                  *)
SumOf(counts) ==
    LET sum[k \in 0..Len(counts)] == IF k = 0 THEN 0 ELSE sum[k - 1] + counts[k]
    IN sum[Len(counts)]
Usages == [k \in DOMAIN manifest.phases |->
              IF manifest.phases[k].imported THEN Usage(batches[manifest.phases[k].batch]) ELSE 0]
UsageCountedOnce ==
    manifest.mode # "test" =>
        /\ manifest.cost = SumOf(Usages)
        /\ \A j, k \in DOMAIN manifest.phases :
              manifest.phases[j].batch = manifest.phases[k].batch => j = k

=============================================================================
