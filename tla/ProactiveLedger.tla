--------------------------- MODULE ProactiveLedger ---------------------------
(***************************************************************************)
(* Paid reminders (proactive_message.py) and the ledger that bounds them   *)
(* (proactive_store.py), for one anonymous subject and one day: the        *)
(* rendezvous the server knows of (public_rendezvous_authority), the       *)
(* attempts (public_proactive_attempt), their number                       *)
(* (public_proactive_day), and the attempts' rows in the request cache     *)
(* and in its leases.                                                      *)
(*                                                                         *)
(* Any number of calls run at once, each in any worker.  A store operation *)
(* is one transaction: those that write take the row of the subject's day  *)
(* first.  Time is abstracted to what it does: a lease lapses, a result    *)
(* expires.  The rows themselves outlive the day by 48 hours.              *)
(***************************************************************************)
EXTENDS Naturals, FiniteSets

CONSTANTS
    Character,
    Rendezvous,    \* ids of promises, derived from the requests that make them
    With,          \* the character of each
    Request,       \* request ids of paid reminders
    Call,          \* handlers at work at once
    DayLimit,      \* attempts of a subject in a day (3)
    NoAttempt, Idle

ASSUME LedgerAssumption ==
    /\ With \in [Rendezvous -> Character]
    /\ DayLimit \in Nat
    /\ NoAttempt \notin Rendezvous

VARIABLES
    authority,   \* what the server recorded of each rendezvous
    reserved,    \* attempts counted against the day
    attempt,     \* the rendezvous of each request's attempt
    cache,       \* its row in the request cache
    lease,       \* its lease
    call,        \* the handlers
    paid,        \* provider calls made for each request
    answered     \* results ever answered to each request

vars == <<authority, reserved, attempt, cache, lease, call, paid, answered>>

-----------------------------------------------------------------------------

\* Result bodies: what the provider returned, whether the guard accepts it or not;
\* a failure before the provider was called; a failure after it may have been.
Result == {"called", "unpaid", "uncertain"}

\* Answers without a result say that nothing is known.
Reply == Result \cup {"unknown"}

Handler == [pc : {"queued", "claimed", "published", "completing", "asking"},
            request : Request, rendezvous : Rendezvous, result : Reply]

ASSUME IdleAssumption == Idle \notin Handler

TypeOK ==
    /\ authority \in [Rendezvous -> {"none", "open", "closed"}]
    /\ reserved \in Nat
    /\ attempt \in [Request -> Rendezvous \cup {NoAttempt}]
    /\ cache \in [Request -> Reply \cup {"none", "processing"}]
    /\ lease \in [Request -> {"none", "live", "lapsed"}]
    /\ call \in [Call -> Handler \cup {Idle}]
    /\ paid \in [Request -> Nat]
    /\ answered \in [Request -> SUBSET Result]

\* Rendezvous that signed browser packages name, of today or from earlier on.
Issued == {v \in Rendezvous : authority[v] # "none"}

Attempted == {q \in Request : attempt[q] # NoAttempt}

Init ==
    /\ authority = [v \in Rendezvous |-> "none"]
    /\ reserved = 0
    /\ attempt = [q \in Request |-> NoAttempt]
    /\ cache = [q \in Request |-> "none"]
    /\ lease = [q \in Request |-> "none"]
    /\ call = [c \in Call |-> Idle]
    /\ paid = [q \in Request |-> 0]
    /\ answered = [q \in Request |-> {}]

-----------------------------------------------------------------------------
(* Promises.  _record_rendezvous runs in the transaction that commits the  *)
(* result of a chat, a scene action or a presence transition.              *)

\* Mutation of Promise: only the promise the browser's package names is closed,
\* and a package that is older than the last promise names none.
PromiseOfOldPackage(v) ==
    /\ authority' = [authority EXCEPT ![v] = IF @ = "none" THEN "open" ELSE @]
    /\ UNCHANGED <<reserved, attempt, cache, lease, call, paid, answered>>

\* A character begins to wait.  The id is that of the request, which the browser
\* may repeat when its result has expired; whatever older package it sends,
\* other promises with the character are closed.
Promise(v) ==
    /\ authority' = [w \in Rendezvous |->
                       CASE w = v /\ authority[w] = "none" -> "open"
                         [] w # v /\ With[w] = With[v] /\ authority[w] = "open" -> "closed"
                         [] OTHER -> authority[w]]
    /\ UNCHANGED <<reserved, attempt, cache, lease, call, paid, answered>>

\* A promise the browser's package names is kept or called off.
Close(v) ==
    /\ v \in Issued
    /\ authority' = [authority EXCEPT ![v] = "closed"]
    /\ UNCHANGED <<reserved, attempt, cache, lease, call, paid, answered>>

-----------------------------------------------------------------------------
(* Reading an attempt.                                                     *)

\* lookup_proactive, and the answer the route makes of it.
Seen(q, v) ==
    CASE attempt[q] = NoAttempt -> "missing"
      [] attempt[q] \notin {v, NoAttempt} -> "conflict"
      [] attempt[q] = v /\ cache[q] \in Reply -> cache[q]
      [] attempt[q] = v /\ cache[q] \notin Reply /\ lease[q] = "live" -> "processing"
      [] OTHER -> "unknown"

Answer(q, reply) == answered' = [answered EXCEPT ![q] = @ \cup ({reply} \cap Result)]

\* A request that has an attempt is answered from it, whether it is a recovery, a
\* repetition or one that found the attempt when it came to claim.
Recovers(q, v) ==
    /\ Seen(q, v) \in Reply
    /\ Answer(q, Seen(q, v))
    /\ UNCHANGED <<authority, reserved, attempt, cache, lease, call, paid>>

-----------------------------------------------------------------------------
(* The paid handler.                                                       *)

At(c, stage) == call[c] # Idle /\ call[c].pc = stage

Goes(c, stage, result) ==
    call' = [call EXCEPT ![c] = [@ EXCEPT !.pc = stage, !.result = result]]

Ended(c) == call' = [call EXCEPT ![c] = Idle]

\* The request has no attempt and its signed packages, session and consent are in
\* order, which is checked again after the wait for a slot.
Begin(c, q, v) ==
    /\ call[c] = Idle
    /\ v \in Issued
    /\ Seen(q, v) = "missing"
    /\ call' = [call EXCEPT ![c] = [pc |-> "queued", request |-> q, rendezvous |-> v,
                                   result |-> "unknown"]]
    /\ UNCHANGED <<authority, reserved, attempt, cache, lease, paid, answered>>

\* claim_proactive admits an attempt: neither the request nor the rendezvous has
\* one, the promise stands and the day's allowance is not used up.
Admits(q, v) ==
    /\ attempt[q] = NoAttempt
    /\ \A p \in Request : attempt[p] # v
    /\ authority[v] = "open"
    /\ reserved < DayLimit

\* The claim commits; its acknowledgement may be lost, which ends the handler.
Claim(c) ==
    LET q == call[c].request
        v == call[c].rendezvous
    IN  /\ At(c, "queued")
        /\ Admits(q, v)
        /\ reserved' = reserved + 1
        /\ attempt' = [attempt EXCEPT ![q] = v]
        /\ cache' = [cache EXCEPT ![q] = "processing"]
        /\ lease' = [lease EXCEPT ![q] = "live"]
        /\ Goes(c, "claimed", "unknown") \/ Ended(c)
        /\ UNCHANGED <<authority, paid, answered>>

\* The request is handed to the provider, once.
Publish(c) ==
    /\ At(c, "claimed")
    /\ Goes(c, "published", "unknown")
    /\ paid' = [paid EXCEPT ![call[c].request] = @ + 1]
    /\ UNCHANGED <<authority, reserved, attempt, cache, lease, answered>>

Results(c, results) ==
    /\ \E result \in results : Goes(c, "completing", result)
    /\ UNCHANGED <<authority, reserved, attempt, cache, lease, paid, answered>>

\* The preparation fails, the visitor's relay refuses the job, or the connection
\* breaks after the publication was noted and before anything was sent.
Unsent(c) == At(c, "claimed") /\ Results(c, {"unpaid", "uncertain"})

\* Mutation of Returns: a failed provider call is a failure like any other.
ReturnsFailure(c) == At(c, "published") /\ Results(c, {"called", "unpaid"})

Returns(c) == At(c, "published") /\ Results(c, {"called", "uncertain"})

\* Mutation of Records: what was not paid for does not count.
RecordsRefund(q, result) ==
    /\ cache[q] = "processing" /\ lease[q] = "live"
    /\ cache' = [cache EXCEPT ![q] = result]
    /\ lease' = [lease EXCEPT ![q] = "none"]
    /\ reserved' = IF result = "unpaid" THEN reserved - 1 ELSE reserved

\* complete_proactive: the owner's result, while the lease runs.
Records(q, result) ==
    /\ cache[q] = "processing" /\ lease[q] = "live"
    /\ cache' = [cache EXCEPT ![q] = result]
    /\ lease' = [lease EXCEPT ![q] = "none"]
    /\ UNCHANGED reserved

\* The result is recorded and answered, or its acknowledgement is lost.
Complete(c) ==
    /\ At(c, "completing")
    /\ Records(call[c].request, call[c].result)
    /\ \/ Ended(c) /\ Answer(call[c].request, call[c].result)
       \/ Goes(c, "asking", "unknown") /\ UNCHANGED answered
    /\ UNCHANGED <<authority, attempt, paid>>

\* The transaction fails, or finds that the lease has run out.
NotCompleted(c) ==
    /\ At(c, "completing")
    /\ Goes(c, "asking", "unknown")
    /\ UNCHANGED <<authority, reserved, attempt, cache, lease, paid, answered>>

\* After a doubtful completion the saved result is read, never written; without
\* one, or when that fails too, the answer is that nothing is known.
AskSaved(c) ==
    /\ At(c, "asking")
    /\ Ended(c)
    /\ LET q == call[c].request
           saved == Seen(q, call[c].rendezvous)
       IN  \E reply \in {"unknown"} \cup ({saved} \cap Reply) : Answer(q, reply)
    /\ UNCHANGED <<authority, reserved, attempt, cache, lease, paid>>

\* The handler ends without an answer: its claim is refused or fails, it is
\* cancelled, or its worker dies.  It gives nothing back.
Ends(c) ==
    /\ call[c] # Idle
    /\ Ended(c)
    /\ UNCHANGED <<authority, reserved, attempt, cache, lease, paid, answered>>

-----------------------------------------------------------------------------
(* Time and maintenance.                                                   *)

Lapses(q) ==
    /\ lease[q] = "live"
    /\ lease' = [lease EXCEPT ![q] = "lapsed"]
    /\ UNCHANGED <<authority, reserved, attempt, cache, call, paid, answered>>

\* A heartbeat that read the clock before the lease ran out renews it; a
\* completion that did finds it running.
RenewedLate(q) ==
    /\ lease[q] = "lapsed"
    /\ \E c \in Call : /\ call[c] # Idle /\ call[c].request = q
                      /\ call[c].pc \in {"claimed", "published", "completing"}
    /\ lease' = [lease EXCEPT ![q] = "live"]
    /\ UNCHANGED <<authority, reserved, attempt, cache, call, paid, answered>>

\* Mutation of Recover: an interrupted attempt may be made again.
RecoverForgets(q) ==
    /\ lease[q] = "lapsed"
    /\ lease' = [lease EXCEPT ![q] = "none"]
    /\ cache' = [cache EXCEPT ![q] = "none"]
    /\ attempt' = [attempt EXCEPT ![q] = NoAttempt]
    /\ reserved' = reserved - 1
    /\ UNCHANGED <<authority, call, paid, answered>>

\* _recover_expired knows only the request tables: the attempt stays.
Recover(q) ==
    /\ lease[q] = "lapsed"
    /\ lease' = [lease EXCEPT ![q] = "none"]
    /\ cache' = [cache EXCEPT ![q] = IF @ = "processing" THEN "unknown" ELSE @]
    /\ UNCHANGED <<authority, reserved, attempt, call, paid, answered>>

\* A terminal row expires after ten minutes and is deleted.
Expires(q) ==
    /\ cache[q] \in Reply
    /\ cache' = [cache EXCEPT ![q] = "none"]
    /\ UNCHANGED <<authority, reserved, attempt, lease, call, paid, answered>>

-----------------------------------------------------------------------------

Next ==
    \/ \E v \in Rendezvous : Promise(v) \/ Close(v)
    \/ \E q \in Request : Lapses(q) \/ RenewedLate(q) \/ Recover(q) \/ Expires(q)
    \/ \E q \in Request, v \in Rendezvous :
          Recovers(q, v) \/ \E c \in Call : Begin(c, q, v)
    \/ \E c \in Call :
          \/ Claim(c) \/ Publish(c) \/ Unsent(c) \/ Returns(c)
          \/ Complete(c) \/ NotCompleted(c) \/ AskSaved(c) \/ Ends(c)

Spec == Init /\ [][Next]_vars

-----------------------------------------------------------------------------
(* Properties.                                                             *)

\* "One paid attempt": whatever is repeated, lost or interrupted, and under
\* whichever request ids, a rendezvous is paid for at most once and the day's
\* provider calls stay within the limit.
PaidOnce ==
    /\ \A p, q \in Request : paid[p] > 0 /\ paid[q] > 0 /\ attempt[p] = attempt[q] => p = q
    /\ \A q \in Request : paid[q] <= 1
    /\ Cardinality({q \in Request : paid[q] > 0}) <= DayLimit

\* The day's counter is the number of attempts: an allowance is never lost and
\* never given back, whatever became of the attempt.
AllowanceAccounted == reserved = Cardinality(Attempted) /\ reserved <= DayLimit

\* Two promises with one character are never both active, though browsers may
\* send packages from before either was made.
OneActivePromise ==
    \A v, w \in Rendezvous :
        authority[v] = "open" /\ authority[w] = "open" /\ With[v] = With[w] => v = w

\* Answers agree with the bill and with each other: "nothing was sent" is said
\* only of requests the provider never saw, its result only of one it did, and
\* two results of one request are the same.
AnswersAreHonest ==
    \A q \in Request :
        /\ "unpaid" \in answered[q] => paid[q] = 0
        /\ "called" \in answered[q] => paid[q] = 1
        /\ Cardinality(answered[q]) <= 1

\* A promise that is closed stays closed, and no attempt is begun for it.
ClosedForGood ==
    [][\A v \in Rendezvous :
          authority[v] = "closed" =>
              /\ authority'[v] = "closed"
              /\ \A q \in Request : attempt'[q] = v => attempt[q] = v]_vars

\* "A late worker cannot replace an already terminal response": a terminal row
\* stands until it is deleted.
ResultStands ==
    [][\A q \in Request : cache[q] \in Reply => cache'[q] \in {cache[q], "none"}]_vars

=============================================================================
