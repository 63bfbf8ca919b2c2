---------------------------- MODULE FeedbackOutbox ----------------------------
(* Feedback of visitors and the mail that tells the operator about it: the     *)
(* route of public_main, the tables of public_store, the worker that claims    *)
(* due mails for LEASE, sends them and marks them, and the operator who may    *)
(* queue a mail again.  Every action is one transaction, except that an        *)
(* insertion holds its advisory lock between its look-up and its commit.       *)
(* A worker may die at any step; its rows then wait for their lease to run out.*)
EXTENDS Naturals, FiniteSets, Sequences

CONSTANTS Reports,      \* requests to leave feedback
          Subject, Ip, Content,   \* functions over Reports: who sent it, from where, what
          Mailers,      \* worker processes
          FREE,         \* attempts, and identities of an address, before a check
          Limits,       \* set of [period, limit]: reports of one subject in a calendar period
          LEASE, BASE, DAY,       \* lease of a claim, first delay, longest delay
          WINDOW, LIFE, \* how long a report is a duplicate, how long it is kept
          BATCH,        \* rows of one claim
          MaxClock, MaxAttempts, MaxForce   \* bounds of the instance

ASSUME FeedbackAssumption ==
    /\ {FREE, LEASE, BASE, DAY, WINDOW, LIFE, BATCH} \subseteq Nat
    /\ {MaxClock, MaxAttempts, MaxForce} \subseteq Nat
    /\ Limits \subseteq [period : Nat \ {0}, limit : Nat]
    /\ LEASE > 0 /\ BASE > 0 /\ BASE <= DAY

VARIABLES clock,
          pc,        \* step of each request
          since,     \* clock reading with which its insertion works
          tried,     \* requests recorded as attempts
          verified,  \* subjects with a browser verification on record
          used,      \* reports counted against the limits of their subject
          kept,      \* report -> when it expires; only stored reports
          dedupe,    \* set of [of, until]: content that is refused again
          outbox,    \* stored report -> its mail row
          job,       \* worker -> [rows, step]: what it claimed and still has to do
          mailed,    \* reports whose mail left since it was last queued
          forced     \* how often the operator queued a sent mail again

fbVars == <<clock, pc, since, tried, verified, used, kept, dedupe, outbox, job, mailed, forced>>
requestVars == <<pc, since, tried, verified, used>>
storeVars == <<kept, dedupe, outbox>>

Never == MaxClock + DAY + LEASE + 1     \* the NULL of a time: later than any clock
Smaller(a, b) == IF a < b THEN a ELSE b
RetryDelay(attempts) == Smaller(DAY, BASE * 2^Smaller(attempts - 1, 8))

Statuses == {"pending", "sending", "retry", "sent"}
MailRow == [status : Statuses, attempts : 0..MaxAttempts, next : 0..Never, locked : 0..Never]
Steps == {"new", "attempted", "passed", "counted", "inserting", "stored", "duplicate", "refused"}
NoJob == [rows |-> <<>>, step |-> "idle"]

FBTypeOK ==
    /\ clock \in 0..MaxClock
    /\ pc \in [Reports -> Steps] /\ since \in [Reports -> 0..MaxClock]
    /\ tried \subseteq Reports /\ used \subseteq Reports /\ mailed \subseteq Reports
    /\ DOMAIN kept \subseteq Reports /\ kept \in [DOMAIN kept -> Nat]
    /\ outbox \in [DOMAIN kept -> MailRow]
    /\ dedupe \subseteq [of : Reports, until : Nat] /\ forced \in 0..MaxForce
    /\ job \in [Mailers -> [rows : Seq([report : Reports, attempts : 1..MaxAttempts]),
                            step : {"idle", "send", "sent", "failed"}]]

FBInit ==
    /\ clock = 0
    /\ pc = [r \in Reports |-> "new"] /\ since = [r \in Reports |-> 0]
    /\ tried = {} /\ verified = {} /\ used = {} /\ mailed = {} /\ dedupe = {} /\ forced = 0
    /\ kept = <<>> /\ outbox = <<>>
    /\ job = [m \in Mailers |-> NoJob]

-------------------------------------------------------------------------------
(* A visitor leaves feedback *)

Attempt(r) ==
    /\ pc[r] = "new"
    /\ tried' = tried \union {r}
    /\ pc' = [pc EXCEPT ![r] = "attempted"]
    /\ UNCHANGED <<clock, since, verified, used, storeVars, job, mailed, forced>>

Suspect(r) ==
    \/ Subject[r] \notin verified
    \/ Cardinality({t \in tried : Subject[t] = Subject[r]}) > FREE
    \/ Cardinality({Subject[t] : t \in {u \in tried : Ip[u] = Ip[r]}}) > FREE

Verify(r) ==
    /\ pc[r] = "attempted"
    /\ \/ Suspect(r) /\ pc' = [pc EXCEPT ![r] = "refused"] /\ UNCHANGED verified
       \/ /\ pc' = [pc EXCEPT ![r] = "passed"]
          /\ verified' = IF Suspect(r) THEN verified \union {Subject[r]} ELSE verified
    /\ UNCHANGED <<clock, since, tried, used, storeVars, job, mailed, forced>>

(* What counts against r now: the reports of its subject in the same period.   *)
(* A refused report is rolled back and counts nowhere.                         *)
Counted(r, period) ==
    {q \in used : Subject[q] = Subject[r] /\ since[q] \div period = clock \div period}

ConsumeLimits(r) ==
    /\ pc[r] = "passed"
    /\ IF \A l \in Limits : Cardinality(Counted(r, l.period)) < l.limit
       THEN /\ used' = used \union {r}
            /\ pc' = [pc EXCEPT ![r] = "counted"]
            /\ since' = [since EXCEPT ![r] = clock]
       ELSE /\ pc' = [pc EXCEPT ![r] = "refused"]
            /\ UNCHANGED <<used, since>>
    /\ UNCHANGED <<clock, tried, verified, storeVars, job, mailed, forced>>

SameTriple(r, q) == Subject[r] = Subject[q] /\ Ip[r] = Ip[q] /\ Content[r] = Content[q]
Equivalent(r, q) == Content[r] = Content[q] /\ (Subject[r] = Subject[q] \/ Ip[r] = Ip[q])
LockFreeAlways(r) == TRUE

LockFree(r) == \A q \in Reports : pc[q] = "inserting" => ~SameTriple(r, q)
Duplicate(r) == \E d \in dedupe : d.until > since[r] /\ Equivalent(r, d.of)

InsertLookUp(r) ==
    /\ pc[r] = "counted"
    /\ LockFree(r)
    /\ pc' = [pc EXCEPT ![r] = IF Duplicate(r) THEN "duplicate" ELSE "inserting"]
    /\ UNCHANGED <<clock, since, tried, verified, used, storeVars, job, mailed, forced>>

FirstMail(r) == [status |-> "pending", attempts |-> 0, next |-> since[r], locked |-> Never]

InsertCommit(r) ==
    /\ pc[r] = "inserting"
    /\ pc' = [pc EXCEPT ![r] = "stored"]
    /\ kept' = [q \in DOMAIN kept \union {r} |-> IF q = r THEN since[r] + LIFE ELSE kept[q]]
    /\ outbox' = [q \in DOMAIN outbox \union {r} |-> IF q = r THEN FirstMail(r) ELSE outbox[q]]
    /\ dedupe' = dedupe \union {[of |-> r, until |-> since[r] + WINDOW]}
    /\ UNCHANGED <<clock, since, tried, verified, used, job, mailed, forced>>

-------------------------------------------------------------------------------
(* The worker *)

Due(row) ==
    \/ row.status \in {"pending", "retry"} /\ row.next <= clock
    \/ row.status = "sending" /\ row.locked <= clock
Claimable(r) == kept[r] > clock /\ Due(outbox[r]) /\ outbox[r].attempts < MaxAttempts

Claimed(row) ==
    [row EXCEPT !.status = "sending", !.attempts = @ + 1, !.locked = clock + LEASE]

(* The rows that are due, the longest waiting first, at most BATCH of them. *)
Batches ==
    LET due == {r \in DOMAIN outbox : Claimable(r)} IN
    {batch \in [1..Smaller(BATCH, Cardinality(due)) -> due] :
        /\ \A i, j \in DOMAIN batch : i < j =>
               batch[i] # batch[j] /\ outbox[batch[i]].next <= outbox[batch[j]].next
        /\ \A r \in due, i \in DOMAIN batch :
               (\A j \in DOMAIN batch : batch[j] # r) => outbox[batch[i]].next <= outbox[r].next}

ClaimMails(m) ==
    /\ job[m] = NoJob
    /\ \E batch \in Batches :
         /\ batch # <<>>
         /\ outbox' = [r \in DOMAIN outbox |->
                IF \E i \in DOMAIN batch : batch[i] = r THEN Claimed(outbox[r]) ELSE outbox[r]]
         /\ job' = [job EXCEPT ![m] =
                [rows |-> [i \in DOMAIN batch |->
                             [report |-> batch[i], attempts |-> outbox[batch[i]].attempts + 1]],
                 step |-> "send"]]
    /\ UNCHANGED <<clock, requestVars, kept, dedupe, mailed, forced>>

Send(m) ==
    /\ job[m].step = "send"
    /\ \/ /\ mailed' = mailed \union {Head(job[m].rows).report}
          /\ job' = [job EXCEPT ![m].step = "sent"]
       \/ /\ job' = [job EXCEPT ![m].step = "failed"]
          /\ UNCHANGED mailed
    /\ UNCHANGED <<clock, requestVars, storeVars, forced>>

NextRow(m) ==
    [job EXCEPT ![m] = IF Len(@.rows) = 1 THEN NoJob
                       ELSE [rows |-> Tail(@.rows), step |-> "send"]]

MarkSent(m) ==
    /\ job[m].step = "sent"
    /\ LET r == Head(job[m].rows).report IN
       outbox' = [q \in DOMAIN outbox |->
            IF q = r THEN [outbox[q] EXCEPT !.status = "sent", !.locked = Never] ELSE outbox[q]]
    /\ job' = NextRow(m)
    /\ UNCHANGED <<clock, requestVars, kept, dedupe, mailed, forced>>

MarkRetryUnlocks(m) ==
    /\ job[m].step = "failed"
    /\ LET r == Head(job[m].rows).report IN
       outbox' = [q \in DOMAIN outbox |->
            IF q = r THEN [outbox[q] EXCEPT !.locked = Never] ELSE outbox[q]]
    /\ job' = NextRow(m)
    /\ UNCHANGED <<clock, requestVars, kept, dedupe, mailed, forced>>

MarkRetry(m) ==
    /\ job[m].step = "failed"
    /\ LET row == Head(job[m].rows) IN
       outbox' = [q \in DOMAIN outbox |->
            IF q = row.report
            THEN [outbox[q] EXCEPT !.status = "retry", !.locked = Never,
                                   !.next = clock + RetryDelay(row.attempts)]
            ELSE outbox[q]]
    /\ job' = NextRow(m)
    /\ UNCHANGED <<clock, requestVars, kept, dedupe, mailed, forced>>

(* The process dies, or the store fails while a row is marked and the rest of  *)
(* the batch is abandoned.                                                     *)
Abandon(m) ==
    /\ job[m] # NoJob
    /\ job' = [job EXCEPT ![m] = NoJob]
    /\ UNCHANGED <<clock, requestVars, storeVars, mailed, forced>>

-------------------------------------------------------------------------------
(* The operator, the clean-up and the clock *)

QueueAgain(r, force) ==
    /\ r \in DOMAIN outbox
    /\ forced < MaxForce
    /\ IF outbox[r].status = "sent" /\ force
       THEN /\ outbox' = [outbox EXCEPT ![r] =
                    [@ EXCEPT !.status = "pending", !.next = clock, !.locked = Never]]
            /\ mailed' = mailed \ {r}
            /\ forced' = forced + 1
       ELSE UNCHANGED <<outbox, mailed, forced>>
    /\ UNCHANGED <<clock, requestVars, kept, dedupe, job>>

Cleanup ==
    /\ kept' = [r \in {q \in DOMAIN kept : kept[q] > clock} |-> kept[r]]
    /\ outbox' = [r \in DOMAIN kept' |-> outbox[r]]
    /\ dedupe' = {d \in dedupe : d.until > clock}
    /\ UNCHANGED <<clock, requestVars, job, mailed, forced>>

Tick ==
    /\ clock < MaxClock
    /\ clock' = clock + 1
    /\ UNCHANGED <<requestVars, storeVars, job, mailed, forced>>

FBNext ==
    \/ \E r \in Reports :
         \/ Attempt(r) \/ Verify(r) \/ ConsumeLimits(r)
         \/ InsertLookUp(r) \/ InsertCommit(r)
         \/ \E force \in BOOLEAN : QueueAgain(r, force)
    \/ \E m \in Mailers : ClaimMails(m) \/ Send(m) \/ MarkSent(m) \/ MarkRetry(m) \/ Abandon(m)
    \/ Cleanup \/ Tick

FBSpec == FBInit /\ [][FBNext]_fbVars

-------------------------------------------------------------------------------
(* Two identical reports of one visitor are never both kept while the first    *)
(* still counts as a duplicate: the advisory lock joins look-up and insertion. *)
TwinsSuppressed ==
    \A d, e \in dedupe :
        d # e /\ SameTriple(d.of, e.of) => d.until + WINDOW <= e.until \/ e.until + WINDOW <= d.until

(* A mail marked as sent has left since it was last queued, whatever crashes,  *)
(* lost marks and repeated claims came between.                                *)
SentMeansMailed == \A r \in DOMAIN outbox : outbox[r].status = "sent" => r \in mailed

(* A mail that is not sent becomes due again within the longest delay or the   *)
(* lease of its claim: no crash and no lost mark strands it.                   *)
NeverStranded ==
    \A r \in DOMAIN outbox :
        /\ outbox[r].status \in {"pending", "retry"} => outbox[r].next <= clock + DAY
        /\ outbox[r].status = "sending" => outbox[r].locked <= clock + LEASE

(* No mail gets lost: what is marked has left, and the rest is tried again.    *)
MailIsKept == SentMeansMailed /\ NeverStranded

=============================================================================
