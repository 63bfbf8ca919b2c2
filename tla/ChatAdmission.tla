--------------------------- MODULE ChatAdmission ---------------------------
(***************************************************************************)
(* Admission, generation and shutdown of model requests in one process of  *)
(* the public API (public_main.create_public_app).  Everything here runs   *)
(* on one event loop: a step is what a task does between two awaits.  A    *)
(* handler task admits an attempt at a request: it takes the subject,      *)
(* claims the UUID in the store, consumes the rate limits, waits for a     *)
(* generation slot and starts a job.  The job generates, records the       *)
(* result and outlives its HTTP connection.                                *)
(*                                                                         *)
(* A store call is three steps: the task submits it and waits, the         *)
(* transaction commits (or fails, or commits and loses its answer) in a    *)
(* thread, and the task resumes.  A cancelled task leaves its transaction  *)
(* running.  The store itself is RequestLedger reduced to its states; the  *)
(* mapping at the end shows that no step asks of it what it does not       *)
(* offer.  The model covers one life of an entry: 10 minutes and more.     *)
(***************************************************************************)
EXTENDS Naturals, FiniteSets

CONSTANTS
    Request,       \* request UUIDs
    Subject,       \* anonymous subjects
    Attempt,       \* HTTP requests made, a reconnect being a new attempt
    RequestOf,     \* the UUID each attempt carries
    SubjectOf,     \* the subject each UUID belongs to
    Modes,         \* the ways each attempt may be answered: "v1", "v2" or
                   \* "unsafe" (without the model)
    Slots,         \* generation slots: 4 in the code
    Nothing        \* absence of a task or a request

ASSUME AdmissionAssumption ==
    /\ IsFiniteSet(Attempt)
    /\ Nothing \notin Request \cup ({"handler", "job"} \X Attempt)
    /\ RequestOf \in [Attempt -> Request]
    /\ SubjectOf \in [Request -> Subject]
    /\ Modes \in [Attempt -> SUBSET {"v1", "v2", "unsafe"}]
    /\ Slots \in Nat \ {0}

VARIABLES
    pc,          \* where each attempt is: in its handler, in its job, over
    call,        \* the store call of each attempt
    row,         \* the ledger's state for each request
    holder,      \* active_subject_requests
    holderTask,  \* active_subject_tasks
    leases,      \* active_request_leases
    jobs,        \* chat_jobs
    free,        \* value of the gate's semaphore
    phase,       \* life of the process
    awaited,     \* jobs that the shutdown waits for
    paid,        \* history: provider calls made for each request
    mode         \* how each attempt is to be answered; never changes

vars == <<pc, call, row, holder, holderTask, leases, jobs, free, phase, awaited, paid>>

subjects == <<holder, holderTask>>

-----------------------------------------------------------------------------

HandlerPc == {"claiming", "limits", "gate", "releasing", "attached", "ending"}
JobPc     == {"created", "queued", "generating", "completing", "dropping", "finished"}

Handler(a) == <<"handler", a>>
Job(a)     == <<"job", a>>
Task       == {"handler", "job"} \X Attempt

TaskOf(a)  == IF pc[a] \in JobPc THEN Job(a) ELSE Handler(a)
Subj(a)    == SubjectOf[RequestOf[a]]

\* A store call: not made, in a thread, or answered.
Call == {"none", "claim", "release", "complete",
         "claimed", "processing", "refused", "done", "failed"}

TypeOK ==
    /\ pc \in [Attempt -> {"new", "over"} \cup HandlerPc \cup JobPc]
    /\ call \in [Attempt -> Call]
    /\ row \in [Request -> {"free", "pending", "answered", "interrupted"}]
    /\ holder \in [Subject -> Request \cup {Nothing}]
    /\ holderTask \in [Subject -> Task \cup {Nothing}]
    /\ leases \in [Request -> Task \cup {Nothing}]
    /\ jobs \in [Request -> Task \cup {Nothing}]
    /\ free \in 0..Slots
    /\ phase \in {"serving", "draining", "interrupting", "closed"}
    /\ awaited \subseteq Attempt
    /\ paid \in [Request -> Nat]
    /\ \A a \in Attempt : mode[a] \in Modes[a]

Init ==
    /\ pc = [a \in Attempt |-> "new"]
    /\ call = [a \in Attempt |-> "none"]
    /\ row = [r \in Request |-> "free"]
    /\ holder = [s \in Subject |-> Nothing]
    /\ holderTask = [s \in Subject |-> Nothing]
    /\ leases = [r \in Request |-> Nothing]
    /\ jobs = [r \in Request |-> Nothing]
    /\ free = Slots
    /\ phase = "serving"
    /\ awaited = {}
    /\ paid = [r \in Request |-> 0]
    /\ mode \in {m \in [Attempt -> {"v1", "v2", "unsafe"}] : \A a \in Attempt : m[a] \in Modes[a]}

-----------------------------------------------------------------------------
(* Pieces of the steps.                                                    *)

Goes(a, from, to) ==
    /\ phase # "closed"
    /\ pc[a] = from
    /\ pc' = [pc EXCEPT ![a] = to]

Submits(a, op) == call' = [call EXCEPT ![a] = op]

\* release_subject_generation and the forget_* callbacks: the subject is freed
\* by the task that holds it for the same request, and by no other.
FreesSubject(a, task) ==
    IF holder[Subj(a)] = RequestOf[a] /\ holderTask[Subj(a)] = task
    THEN /\ holder' = [holder EXCEPT ![Subj(a)] = Nothing]
         /\ holderTask' = [holderTask EXCEPT ![Subj(a)] = Nothing]
    ELSE UNCHANGED subjects

\* Mutations of StopsRenewal: any task's entry goes; no entry ever goes.
StopsAnyRenewal(a, task) == leases' = [leases EXCEPT ![RequestOf[a]] = Nothing]
StopsNoRenewal(a, task)  == UNCHANGED leases

StopsRenewal(a, task) ==
    leases' = IF leases[RequestOf[a]] = task
              THEN [leases EXCEPT ![RequestOf[a]] = Nothing] ELSE leases

\* The attempt holds a generation slot (generation_reserved).
Reserved(a) == mode[a] # "unsafe" /\ pc[a] \in {"created", "generating", "completing"}

-----------------------------------------------------------------------------
(* The handler.                                                            *)

\* acquire_subject_generation, up to the claim.  A reconnect to the request
\* that holds the subject passes without holding it.
Arrive(a) ==
    /\ phase = "serving"
    /\ Goes(a, "new", "claiming")
    /\ Submits(a, "claim")
    /\ \/ /\ holder[Subj(a)] = Nothing
          /\ holder' = [holder EXCEPT ![Subj(a)] = RequestOf[a]]
          /\ holderTask' = [holderTask EXCEPT ![Subj(a)] = Handler(a)]
       \/ holder[Subj(a)] = RequestOf[a] /\ UNCHANGED subjects
    /\ UNCHANGED <<row, leases, jobs, free, phase, awaited, paid>>

\* subject_generation_busy
ArriveBusy(a) ==
    /\ phase = "serving"
    /\ holder[Subj(a)] \notin {Nothing, RequestOf[a]}
    /\ Goes(a, "new", "over")
    /\ UNCHANGED <<call, row, subjects, leases, jobs, free, phase, awaited, paid>>

\* claim_owned_request returned "claimed".
Claimed(a) ==
    /\ call[a] = "claimed"
    /\ Goes(a, "claiming", "limits")
    /\ leases' = [leases EXCEPT ![RequestOf[a]] = Handler(a)]
    /\ holderTask' = IF holder[Subj(a)] = RequestOf[a]
                     THEN [holderTask EXCEPT ![Subj(a)] = Handler(a)] ELSE holderTask
    /\ Submits(a, "none")
    /\ UNCHANGED <<row, holder, jobs, free, phase, awaited, paid>>

\* It returned "conflict", "completed" or "processing", or raised.  The subject
\* is given back, except by a handler that streams a job of this process.
NotClaimed(a) ==
    /\ call[a] \in {"processing", "refused", "failed"}
    /\ IF call[a] = "processing" /\ jobs[RequestOf[a]] # Nothing
       THEN Goes(a, "claiming", "attached") /\ UNCHANGED subjects
       ELSE Goes(a, "claiming", "ending") /\ FreesSubject(a, Handler(a))
    /\ Submits(a, "none")
    /\ UNCHANGED <<row, leases, jobs, free, phase, awaited, paid>>

StreamEnds(a) ==
    /\ Goes(a, "attached", "ending")
    /\ UNCHANGED <<call, row, subjects, leases, jobs, free, phase, awaited, paid>>

\* The job is created and takes over the lease and the subject.
StartsJob(a, to) ==
    /\ pc' = [pc EXCEPT ![a] = to]
    /\ jobs' = [jobs EXCEPT ![RequestOf[a]] = Job(a)]
    /\ leases' = [leases EXCEPT ![RequestOf[a]] = Job(a)]
    /\ holderTask' = [holderTask EXCEPT ![Subj(a)] = Job(a)]

\* preflight and consume_limits passed: v1 waits for a slot in the handler.
Admitted(a) ==
    /\ phase # "closed"
    /\ pc[a] = "limits"
    /\ \/ /\ mode[a] = "v1"
          /\ pc' = [pc EXCEPT ![a] = "gate"]
          /\ UNCHANGED <<jobs, leases, holderTask>>
       \/ mode[a] = "v2" /\ StartsJob(a, "queued")
       \/ mode[a] = "unsafe" /\ StartsJob(a, "created")
    /\ UNCHANGED <<call, row, holder, free, phase, awaited, paid>>

\* GenerationGate.acquire in the handler.
SlotForHandler(a) ==
    /\ phase # "closed"
    /\ pc[a] = "gate"
    /\ free > 0
    /\ free' = free - 1
    /\ StartsJob(a, "created")
    /\ UNCHANGED <<call, row, holder, phase, awaited, paid>>

\* A pre-generation failure: rate limit, preflight, store, full or slow queue.
Refused(a) ==
    /\ \/ Goes(a, "limits", "releasing")
       \/ free = 0 /\ Goes(a, "gate", "releasing")
    /\ Submits(a, "release")
    /\ UNCHANGED <<row, subjects, leases, jobs, free, phase, awaited, paid>>

\* The rest of release_owned_request and of its caller.
HandlerReleased(a) ==
    /\ call[a] \in {"done", "failed"}
    /\ Goes(a, "releasing", "ending")
    /\ StopsRenewal(a, Handler(a))
    /\ IF call[a] = "done" THEN FreesSubject(a, Handler(a)) ELSE UNCHANGED subjects
    /\ Submits(a, "none")
    /\ UNCHANGED <<row, jobs, free, phase, awaited, paid>>

\* The client disconnects and the handler is cancelled at its await.  Only the
\* wait for a slot releases the claim; elsewhere the lease is left to expire.
CancelHandler(a) ==
    /\ \/ /\ Goes(a, "claiming", "ending") \/ Goes(a, "limits", "ending")
          /\ UNCHANGED <<call, leases>>
       \/ Goes(a, "gate", "releasing") /\ Submits(a, "release") /\ UNCHANGED leases
       \/ Goes(a, "releasing", "ending") /\ StopsRenewal(a, Handler(a)) /\ UNCHANGED call
    /\ UNCHANGED <<row, subjects, jobs, free, phase, awaited, paid>>

\* The done callbacks forget_lease and forget_subject.
HandlerForgotten(a) ==
    /\ Goes(a, "ending", "over")
    /\ StopsRenewal(a, Handler(a))
    /\ FreesSubject(a, Handler(a))
    /\ UNCHANGED <<call, row, jobs, free, phase, awaited, paid>>

-----------------------------------------------------------------------------
(* The job.                                                                *)

Generates(a) ==
    paid' = IF mode[a] = "unsafe" THEN paid
            ELSE [paid EXCEPT ![RequestOf[a]] = @ + 1]

JobStarts(a) ==
    /\ Goes(a, "created", "generating")
    /\ Generates(a)
    /\ UNCHANGED <<call, row, subjects, leases, jobs, free, phase, awaited>>

\* GenerationGate.acquire in the job.
SlotForJob(a) ==
    /\ Goes(a, "queued", "generating")
    /\ free > 0
    /\ free' = free - 1
    /\ Generates(a)
    /\ UNCHANGED <<call, row, subjects, leases, jobs, phase, awaited>>

\* GenerationBusy: the claim is released so that the UUID can enter later.
JobBusy(a) ==
    /\ Goes(a, "queued", "dropping")
    /\ free = 0
    /\ Submits(a, "release")
    /\ UNCHANGED <<row, subjects, leases, jobs, free, phase, awaited, paid>>

JobReleased(a) ==
    /\ call[a] \in {"done", "failed"}
    /\ Goes(a, "dropping", "finished")
    /\ StopsRenewal(a, Job(a))
    /\ Submits(a, "none")
    /\ UNCHANGED <<row, subjects, jobs, free, phase, awaited, paid>>

\* Mutation of GenerationEnds: a failed generation releases its claim.
GenerationReleases(a) ==
    /\ \/ Goes(a, "generating", "completing") /\ Submits(a, "complete")
       \/ Goes(a, "generating", "dropping") /\ Submits(a, "release")
    /\ UNCHANGED <<row, subjects, leases, jobs, free, phase, awaited, paid>>

\* Mutation of GenerationEnds: the subject is freed before the result is recorded.
GenerationFreesSubject(a) ==
    /\ Goes(a, "generating", "completing")
    /\ Submits(a, "complete")
    /\ FreesSubject(a, Job(a))
    /\ UNCHANGED <<row, leases, jobs, free, phase, awaited, paid>>

\* The model answered, failed or timed out: complete_owned_request is called.
GenerationEnds(a) ==
    /\ Goes(a, "generating", "completing")
    /\ Submits(a, "complete")
    /\ UNCHANGED <<row, subjects, leases, jobs, free, phase, awaited, paid>>

\* Mutation of GivesSlotBack: it is not done when the result was not recorded.
GivesSlotBackIfDone(a) == free' = IF Reserved(a) /\ call[a] = "done" THEN free + 1 ELSE free

GivesSlotBack(a) == free' = IF Reserved(a) THEN free + 1 ELSE free

JobCompleted(a) ==
    /\ call[a] \in {"done", "failed"}
    /\ Goes(a, "completing", "finished")
    /\ StopsRenewal(a, Job(a))
    /\ GivesSlotBack(a)
    /\ Submits(a, "none")
    /\ UNCHANGED <<row, subjects, jobs, phase, awaited, paid>>

\* Mutation of ForgetJob: the subject is not given back.
ForgetJobWithSubject(a) ==
    /\ Goes(a, "finished", "over")
    /\ jobs' = [jobs EXCEPT ![RequestOf[a]] = Nothing]
    /\ StopsRenewal(a, Job(a))
    /\ UNCHANGED <<call, row, subjects, free, phase, awaited, paid>>

\* The done callback forget_job: the request's entry of chat_jobs goes,
\* whichever job it names.
ForgetJob(a) ==
    /\ Goes(a, "finished", "over")
    /\ jobs' = [jobs EXCEPT ![RequestOf[a]] = Nothing]
    /\ StopsRenewal(a, Job(a))
    /\ FreesSubject(a, Job(a))
    /\ UNCHANGED <<call, row, free, phase, awaited, paid>>

-----------------------------------------------------------------------------
(* The store.                                                              *)

\* The answer of a call reaches the loop after the callbacks already scheduled,
\* so no transaction ends between the end of a task and its done callbacks.
CallbacksRun == phase # "closed" => \A a \in Attempt : pc[a] \notin {"ending", "finished"}

\* The call fails before its transaction commits: no capacity, no connection,
\* a timeout.
CallFails(a) ==
    /\ call[a] \in {"claim", "release", "complete"}
    /\ Submits(a, "failed")
    /\ UNCHANGED <<pc, row, subjects, leases, jobs, free, phase, awaited, paid>>

\* A transaction commits; its answer may be lost on the way.
Commits(a, op, from, to) ==
    /\ call[a] = op
    /\ row[RequestOf[a]] = from
    /\ row' = [row EXCEPT ![RequestOf[a]] = to]
    /\ UNCHANGED <<pc, subjects, leases, jobs, free, phase, awaited, paid>>

ClaimCommits(a) ==
    \/ Commits(a, "claim", "free", "pending") /\ \E c \in {"claimed", "failed"} : Submits(a, c)
    \/ Commits(a, "claim", "pending", "pending") /\ Submits(a, "processing")
    \/ \E e \in {"answered", "interrupted"} :
          Commits(a, "claim", e, e) /\ Submits(a, "refused")

\* A release that finds no unfinished row of this process does nothing.
ReleaseCommits(a) ==
    /\ \/ Commits(a, "release", "pending", "free")
       \/ \E e \in {"free", "answered", "interrupted"} : Commits(a, "release", e, e)
    /\ \E c \in {"done", "failed"} : Submits(a, c)

\* Mutation of CompleteCommits: the status of the row is not compared.
CompleteOverwrites(a) ==
    /\ \E e \in {"pending", "interrupted"} : Commits(a, "complete", e, "answered")
    /\ \E c \in {"done", "failed"} : Submits(a, c)

CompleteCommits(a) ==
    /\ Commits(a, "complete", "pending", "answered")
    /\ \E c \in {"done", "failed"} : Submits(a, c)

\* request ownership was lost before completion
CompleteRejected(a) ==
    /\ call[a] = "complete"
    /\ row[RequestOf[a]] # "pending"
    /\ Submits(a, "failed")
    /\ UNCHANGED <<pc, row, subjects, leases, jobs, free, phase, awaited, paid>>

\* A lease expires and is reconciled: because nothing renews it, or because
\* the renewals failed for 45 seconds.
Interrupt(r) ==
    /\ row[r] = "pending"
    /\ row' = [row EXCEPT ![r] = "interrupted"]
    /\ UNCHANGED <<pc, call, subjects, leases, jobs, free, phase, awaited, paid>>

-----------------------------------------------------------------------------
(* The process.                                                            *)

Working(a) == pc[a] \in JobPc \ {"finished"}

\* lifespan's shutdown, which the server enters when its handlers have ended:
\* the jobs found in chat_jobs are waited for.
Drain ==
    /\ phase = "serving"
    /\ \A a \in Attempt : pc[a] \notin HandlerPc
    /\ phase' = "draining"
    /\ awaited' = {a \in Attempt : Working(a) /\ jobs[RequestOf[a]] = Job(a)}
    /\ UNCHANGED <<pc, call, row, subjects, leases, jobs, free, paid>>

\* 300 s later: interrupt_owned_requests, unless the store is unavailable.
DrainTimesOut ==
    /\ phase = "draining"
    /\ \E a \in awaited : Working(a)
    /\ \A a \in awaited : pc[a] # "created"
    /\ phase' = "interrupting"
    /\ row' \in {row, [r \in Request |-> IF row[r] = "pending" THEN "interrupted" ELSE row[r]]}
    /\ UNCHANGED <<pc, call, subjects, leases, jobs, free, awaited, paid>>

\* The unfinished jobs are cancelled; a transaction under way goes on.
DrainCancels ==
    /\ phase = "interrupting"
    /\ phase' = "closed"
    /\ pc' = [a \in Attempt |-> IF a \in awaited /\ Working(a) THEN "finished" ELSE pc[a]]
    /\ free' = free + Cardinality({a \in awaited : Reserved(a)})
    /\ UNCHANGED <<call, row, subjects, leases, jobs, awaited, paid>>

DrainEnds ==
    /\ phase = "draining"
    /\ \A a \in awaited : ~Working(a)
    /\ phase' = "closed"
    /\ UNCHANGED <<pc, call, row, subjects, leases, jobs, free, awaited, paid>>

\* The process ends, by a crash or after closing, and a new one starts.
Restart ==
    /\ pc' = [a \in Attempt |-> IF pc[a] = "new" THEN "new" ELSE "over"]
    /\ holder' = [s \in Subject |-> Nothing]
    /\ holderTask' = [s \in Subject |-> Nothing]
    /\ leases' = [r \in Request |-> Nothing]
    /\ jobs' = [r \in Request |-> Nothing]
    /\ free' = Slots
    /\ phase' = "serving"
    /\ awaited' = {}
    /\ UNCHANGED <<call, row, paid>>

-----------------------------------------------------------------------------

HandlerStep(a) ==
    \/ Claimed(a) \/ NotClaimed(a) \/ StreamEnds(a) \/ Admitted(a)
    \/ SlotForHandler(a) \/ Refused(a) \/ HandlerReleased(a) \/ HandlerForgotten(a)

JobStep(a) ==
    \/ JobStarts(a) \/ SlotForJob(a) \/ JobBusy(a) \/ JobReleased(a)
    \/ GenerationEnds(a) \/ JobCompleted(a) \/ ForgetJob(a)

StoreStep(a) ==
    /\ CallbacksRun
    /\ \/ CallFails(a) \/ ClaimCommits(a) \/ ReleaseCommits(a)
       \/ CompleteCommits(a) \/ CompleteRejected(a)

Step ==
    \/ \E a \in Attempt :
          \/ Arrive(a) \/ ArriveBusy(a) \/ CancelHandler(a)
          \/ HandlerStep(a) \/ JobStep(a) \/ StoreStep(a)
    \/ \E r \in Request : Interrupt(r)
    \/ Drain \/ DrainTimesOut \/ DrainCancels \/ DrainEnds \/ Restart

Next == Step /\ UNCHANGED mode

Spec == Init /\ [][Next]_<<vars, mode>>

(***************************************************************************)
(* The event loop runs every task that can run; a transaction ends within  *)
(* its statement and lock timeouts, a wait for a slot within 30 s, a model *)
(* call within its HTTP timeouts, a response stream with its job; a lease  *)
(* that nothing renews is reconciled by the renewal loop of some process.  *)
(* Nothing obliges a client to arrive or to disconnect, or a process to    *)
(* stop.                                                                   *)
(***************************************************************************)
Fairness ==
    /\ \A a \in Attempt : /\ WF_vars(HandlerStep(a))
                          /\ WF_vars(JobStep(a))
                          /\ WF_vars(StoreStep(a))
    /\ \A r \in Request : WF_vars(Interrupt(r) /\ leases[r] = Nothing)

FairSpec == Spec /\ Fairness

-----------------------------------------------------------------------------
(* Properties.                                                             *)

\* No interleaving of attempts, reconnects, cancellations, lost answers and
\* restarts pays for the same UUID twice, and a UUID that was paid for is never
\* released for another attempt.
PaidOnce ==
    \A r \in Request :
        /\ paid[r] <= 1
        /\ paid[r] = 1 => row[r] # "free"

\* No path loses or doubles a generation slot.
SlotsConserved ==
    free + Cardinality({a \in Attempt : Reserved(a)}) = Slots

\* The task that works for a claim is the one whose life renews its lease, so
\* that a stale coroutine or callback of the same UUID cannot let it expire.
RenewedWhileWorking ==
    \A a \in Attempt :
        pc[a] \in {"limits", "gate", "created", "queued", "generating"}
            => leases[RequestOf[a]] = TaskOf(a)

\* One subject has at most one model request at work.
Admission(a) == pc[a] \in {"limits", "gate", "created", "queued", "generating", "completing"}

SubjectExclusive ==
    \A a, b \in Attempt :
        Admission(a) /\ Admission(b) /\ Subj(a) = Subj(b) => a = b

\* A held subject is freed and a claimed request is settled or released,
\* whatever clients do and whatever fails, and without a restart.
SubjectFreed ==
    \A s \in Subject : holder[s] # Nothing ~> holder[s] = Nothing \/ phase = "closed"

ClaimEnds ==
    \A r \in Request : row[r] = "pending" ~> row[r] # "pending" \/ phase = "closed"

\* Every step asks of the request store a move that RequestLedger allows: in
\* particular an interrupted or answered entry is never written again.
Store == INSTANCE RequestLedger
    WITH Block <- {}, MaxBlocks <- 1,
         ledger <- [r \in Request |->
             [state    |-> CASE row[r] = "free" -> "free"
                             [] row[r] = "pending" -> "pending"
                             [] OTHER -> "settled",
              shown    |-> <<>>,
              response |-> CASE row[r] = "answered" -> [kind |-> "answer", blocks |-> <<>>]
                             [] row[r] = "interrupted" -> [kind |-> "interrupted", blocks |-> <<>>]
                             [] OTHER -> [kind |-> "none", blocks |-> <<>>]]]

RespectsStore == Store!Spec

=============================================================================
