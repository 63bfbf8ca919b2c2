---------------------------- MODULE OutboxProofs ----------------------------
(***************************************************************************)
(* Proofs about the two tables that promise a message: ProactiveLedger,    *)
(* for every set of rendezvous, requests and handlers, finite or not, and  *)
(* every limit; and FeedbackOutbox, for every set of reports and every     *)
(* limit, lease and period.  That a mail is kept until it was sent needs   *)
(* that one mailer is deployed, which is the hypothesis OneMailer.         *)
(***************************************************************************)
EXTENDS ProactiveLedger, FeedbackOutbox, FiniteSetTheorems, TLAPS

(***************************************************************************)
(* What a handler holds once its claim has been committed: the attempt of  *)
(* its request, alone; and until its result is recorded, an attempt nobody *)
(* has been answered about, and that has been paid for only if the handler *)
(* knows.                                                                  *)
(***************************************************************************)
Owning(c) == call[c] # Idle /\ call[c].pc # "queued"

Unrecorded(c) == call[c] # Idle /\ call[c].pc \in {"claimed", "published", "completing"}

HandlersOwn ==
    \A c \in Call : Owning(c) => attempt[call[c].request] = call[c].rendezvous

HandlersApart ==
    \A c, d \in Call :
        Owning(c) /\ Owning(d) /\ call[c].request = call[d].request => c = d

HandlersUnanswered ==
    \A c \in Call : Unrecorded(c) => /\ answered[call[c].request] = {}
                                     /\ cache[call[c].request] \notin Result

HandlersKnowTheBill ==
    \A c \in Call :
        /\ At(c, "claimed") => paid[call[c].request] = 0
        /\ At(c, "published") => paid[call[c].request] = 1
        /\ At(c, "completing") =>
              /\ call[c].result = "unpaid" => paid[call[c].request] = 0
              /\ call[c].result = "called" => paid[call[c].request] = 1

\* What is recorded or answered of a request agrees with the bill.
RequestIsSound(q) ==
    /\ attempt[q] = NoAttempt => paid[q] = 0 /\ cache[q] = "none" /\ answered[q] = {}
    /\ paid[q] <= 1
    /\ \A r \in answered[q] \cup {cache[q]} : /\ r = "unpaid" => paid[q] = 0
                                              /\ r = "called" => paid[q] = 1
    /\ \A r, s \in answered[q] : r = s
    /\ cache[q] \in Result => answered[q] \subseteq {cache[q]}
    /\ cache[q] = "processing" => answered[q] = {}

RequestsAreSound == \A q \in Request : RequestIsSound(q)

OneAttemptEach ==
    \A p, q \in Request : attempt[p] = attempt[q] /\ attempt[p] # NoAttempt => p = q

Allowance == IsFiniteSet(Attempted) /\ AllowanceAccounted

IInv == /\ TypeOK /\ OneActivePromise /\ Allowance /\ OneAttemptEach /\ RequestsAreSound
        /\ HandlersOwn /\ HandlersApart /\ HandlersUnanswered /\ HandlersKnowTheBill

-----------------------------------------------------------------------------
(* Lemmas about a change of one handler.                                   *)

\* A handler that moves on keeps its request and rendezvous; no other changes.
LEMMA HandlerMoves ==
    ASSUME TypeOK, NEW c \in Call, call[c] # Idle,
           NEW stage \in {"queued", "claimed", "published", "completing", "asking"},
           NEW result \in Reply, Goes(c, stage, result)
    PROVE  /\ call' \in [Call -> Handler \cup {Idle}]
           /\ \A d \in Call : d # c => call'[d] = call[d]
           /\ call'[c] # Idle
           /\ call'[c].pc = stage
           /\ call'[c].result = result
           /\ call'[c].request = call[c].request
           /\ call'[c].rendezvous = call[c].rendezvous
<1> DEFINE moved == [call[c] EXCEPT !.pc = stage, !.result = result]
<1>1. call[c] \in Handler
    BY DEF TypeOK
<1>2. /\ moved \in Handler /\ moved.pc = stage /\ moved.result = result
      /\ moved.request = call[c].request /\ moved.rendezvous = call[c].rendezvous
    BY <1>1 DEF Handler
<1>3. moved # Idle
    BY <1>2, IdleAssumption
<1>4. call' = [call EXCEPT ![c] = moved]
    BY DEF Goes
<1>5. call'[c] = moved /\ \A d \in Call : d # c => call'[d] = call[d]
    BY <1>4 DEF TypeOK
<1>6. call' \in [Call -> Handler \cup {Idle}]
    BY <1>2, <1>4 DEF TypeOK
<1> QED BY <1>2, <1>3, <1>5, <1>6

\* A handler that ends leaves the others alone.
LEMMA HandlerEnds ==
    ASSUME TypeOK, NEW c \in Call, Ended(c)
    PROVE  /\ call' \in [Call -> Handler \cup {Idle}]
           /\ \A d \in Call : d # c => call'[d] = call[d]
           /\ call'[c] = Idle
BY DEF TypeOK, Ended

\* The results are not the other contents of the cache.
LEMMA ResultsApart ==
    /\ "none" \notin Reply /\ "processing" \notin Reply
    /\ "unknown" \notin Result /\ Result \subseteq Reply
BY DEF Reply, Result

\* An answer adds at most the result it gives.
LEMMA AnswerAdds ==
    ASSUME TypeOK, NEW q \in Request, NEW reply \in Reply, Answer(q, reply)
    PROVE  /\ answered' \in [Request -> SUBSET Result]
           /\ \A p \in Request : p # q => answered'[p] = answered[p]
           /\ answered'[q] \subseteq answered[q] \cup {reply}
           /\ reply \notin Result => answered'[q] = answered[q]
BY DEF TypeOK, Answer

\* What a request with an attempt is answered is in its row, or nothing.
LEMMA SeenIsRecorded ==
    ASSUME NEW q \in Request, NEW v \in Rendezvous, Seen(q, v) \in Result
    PROVE  attempt[q] # NoAttempt /\ Seen(q, v) = cache[q]
BY LedgerAssumption DEF Seen, Result, Reply

-----------------------------------------------------------------------------
(* Every action keeps the invariant.                                       *)

\* A step that leaves the ledger and the handlers alone.
LEMMA PromisesKeep ==
    ASSUME IInv, NEW v \in Rendezvous, Promise(v) \/ Close(v)
    PROVE  IInv'
<1> USE DEF IInv
<1> SUFFICES ASSUME UNCHANGED <<reserved, attempt, cache, lease, call, paid, answered>>,
                    TypeOK', OneActivePromise'
             PROVE  IInv'
    <2>1. TypeOK'
        BY DEF TypeOK, Promise, Close
    <2>2. OneActivePromise'
        BY DEF TypeOK, OneActivePromise, Promise, Close
    <2> QED BY <2>1, <2>2 DEF Promise, Close
<1>1. Allowance' /\ OneAttemptEach' /\ RequestsAreSound'
    BY DEF Allowance, AllowanceAccounted, Attempted, OneAttemptEach, RequestsAreSound, RequestIsSound
<1>2. HandlersOwn' /\ HandlersApart' /\ HandlersUnanswered' /\ HandlersKnowTheBill'
    BY DEF HandlersOwn, HandlersApart, HandlersUnanswered, HandlersKnowTheBill,
           Owning, Unrecorded, At
<1> QED BY <1>1, <1>2

\* Time and maintenance: the row of a request loses its lease or its result, or
\* becomes an interruption.
LEMMA MaintenanceKeeps ==
    ASSUME IInv, NEW q \in Request, Lapses(q) \/ RenewedLate(q) \/ Recover(q) \/ Expires(q)
    PROVE  IInv'
<1> USE DEF IInv
<1>1. /\ UNCHANGED <<authority, reserved, attempt, call, paid, answered>>
      /\ \A p \in Request : cache'[p] \in {cache[p], "none", "unknown"}
      /\ \A p \in Request : cache[p] = "none" => cache'[p] = "none"
    BY ResultsApart DEF TypeOK, Lapses, RenewedLate, Recover, Expires
<1>2. TypeOK'
    BY DEF TypeOK, Lapses, RenewedLate, Recover, Expires, Reply
<1>3. OneActivePromise' /\ Allowance' /\ OneAttemptEach'
    BY <1>1 DEF OneActivePromise, Allowance, AllowanceAccounted, Attempted, OneAttemptEach
<1>4. RequestsAreSound'
    BY <1>1, ResultsApart DEF RequestsAreSound, RequestIsSound, Reply
<1>5. HandlersOwn' /\ HandlersApart' /\ HandlersKnowTheBill'
    BY <1>1 DEF HandlersOwn, HandlersApart, HandlersKnowTheBill, Owning, At
<1>6. HandlersUnanswered'
    BY <1>1, ResultsApart DEF HandlersUnanswered, Unrecorded, TypeOK, Handler, Reply
<1> QED BY <1>2, <1>3, <1>4, <1>5, <1>6

\* A recovery answers what is recorded.
LEMMA RecoversKeeps ==
    ASSUME IInv, NEW q \in Request, NEW v \in Rendezvous, Recovers(q, v)
    PROVE  IInv'
<1> USE DEF IInv
<1> DEFINE reply == Seen(q, v)
<1>1. /\ UNCHANGED <<authority, reserved, attempt, cache, lease, call, paid>>
      /\ reply \in Reply /\ Answer(q, reply)
    BY DEF Recovers
<1>2. /\ answered' \in [Request -> SUBSET Result]
      /\ \A p \in Request : p # q => answered'[p] = answered[p]
      /\ answered'[q] \subseteq answered[q] \cup {reply}
      /\ reply \notin Result => answered'[q] = answered[q]
    BY <1>1, AnswerAdds
<1>3. reply \in Result => attempt[q] # NoAttempt /\ reply = cache[q]
    BY SeenIsRecorded
<1> HIDE DEF reply
<1>4. TypeOK'
    BY <1>1, <1>2 DEF TypeOK
<1>5. OneActivePromise' /\ Allowance' /\ OneAttemptEach'
    BY <1>1 DEF OneActivePromise, Allowance, AllowanceAccounted, Attempted, OneAttemptEach
<1>6. RequestsAreSound'
    BY <1>1, <1>2, <1>3, ResultsApart DEF RequestsAreSound, RequestIsSound
<1>7. HandlersOwn' /\ HandlersApart' /\ HandlersKnowTheBill'
    BY <1>1 DEF HandlersOwn, HandlersApart, HandlersKnowTheBill, Owning, At
<1>8. HandlersUnanswered'
    BY <1>1, <1>2, <1>3 DEF HandlersUnanswered, Unrecorded, TypeOK, Handler
<1> QED BY <1>4, <1>5, <1>6, <1>7, <1>8

\* A handler that does not touch the store moves on, as far as its claim and the
\* bill allow.
LEMMA MovingKeeps ==
    ASSUME IInv, NEW c \in Call,
           UNCHANGED <<authority, reserved, attempt, cache, lease, paid, answered>>,
           call' \in [Call -> Handler \cup {Idle}],
           \A d \in Call : d # c => call'[d] = call[d],
           Owning(c)' => /\ Owning(c)
                         /\ call'[c].request = call[c].request
                         /\ call'[c].rendezvous = call[c].rendezvous,
           Unrecorded(c)' => Unrecorded(c),
           At(c, "claimed")' => At(c, "claimed"),
           At(c, "published")' => At(c, "published"),
           At(c, "completing")' =>
              /\ call'[c].result = "unpaid" => paid[call[c].request] = 0
              /\ call'[c].result = "called" => paid[call[c].request] = 1
    PROVE  IInv'
<1> USE DEF IInv
<1>1. TypeOK'
    BY DEF TypeOK
<1>2. OneActivePromise' /\ Allowance' /\ OneAttemptEach' /\ RequestsAreSound'
    BY DEF OneActivePromise, Allowance, AllowanceAccounted, Attempted, OneAttemptEach,
           RequestsAreSound, RequestIsSound
<1>3. HandlersOwn' /\ HandlersApart'
    BY DEF HandlersOwn, HandlersApart, Owning
<1>4. HandlersUnanswered'
    <2>1. Unrecorded(c)' => Owning(c)'
        BY DEF Unrecorded, Owning
    <2> QED BY <2>1 DEF HandlersUnanswered, Unrecorded
<1>5. HandlersKnowTheBill'
    <2>1. /\ At(c, "claimed")' => Owning(c)'
          /\ At(c, "published")' => Owning(c)'
          /\ At(c, "completing")' => Owning(c)'
        BY DEF At, Owning
    <2> QED BY <2>1 DEF HandlersKnowTheBill, At
<1> QED BY <1>1, <1>2, <1>3, <1>4, <1>5

\* A handler that has not claimed holds nothing.
LEMMA BeginKeeps ==
    ASSUME IInv, NEW c \in Call, NEW q \in Request, NEW v \in Rendezvous, Begin(c, q, v)
    PROVE  IInv'
<1> DEFINE new == [pc |-> "queued", request |-> q, rendezvous |-> v, result |-> "unknown"]
<1>1. new \in Handler /\ new.pc = "queued"
    BY DEF Handler, Reply
<1>2. call' = [call EXCEPT ![c] = new]
    BY DEF Begin
<1> HIDE DEF new
<1>3. /\ call' \in [Call -> Handler \cup {Idle}]
      /\ \A d \in Call : d # c => call'[d] = call[d]
      /\ call'[c] = new
    BY <1>1, <1>2 DEF IInv, TypeOK
<1>4. /\ ~Owning(c)' /\ ~Unrecorded(c)' /\ ~At(c, "claimed")'
      /\ ~At(c, "published")' /\ ~At(c, "completing")'
    BY <1>1, <1>3 DEF Owning, Unrecorded, At
<1>5. UNCHANGED <<authority, reserved, attempt, cache, lease, paid, answered>>
    BY DEF Begin
<1> QED BY <1>3, <1>4, <1>5, MovingKeeps

\* The outcome a handler takes to the store agrees with what it sent.
LEMMA OutcomeKeeps ==
    ASSUME IInv, NEW c \in Call, Unsent(c) \/ Returns(c)
    PROVE  IInv'
<1>1. PICK result \in Reply :
         /\ Goes(c, "completing", result)
         /\ At(c, "claimed") => result # "called"
         /\ At(c, "published") => result # "unpaid"
         /\ At(c, "claimed") \/ At(c, "published")
         /\ UNCHANGED <<authority, reserved, attempt, cache, lease, paid, answered>>
    BY DEF Unsent, Returns, Results, Reply, Result, At
<1>2. call[c] # Idle
    BY <1>1 DEF At
<1>3. /\ call' \in [Call -> Handler \cup {Idle}]
      /\ \A d \in Call : d # c => call'[d] = call[d]
      /\ call'[c] # Idle /\ call'[c].pc = "completing" /\ call'[c].result = result
      /\ call'[c].request = call[c].request /\ call'[c].rendezvous = call[c].rendezvous
    BY <1>1, <1>2, HandlerMoves DEF IInv
<1>4. /\ Owning(c) /\ Unrecorded(c)
      /\ ~At(c, "claimed")' /\ ~At(c, "published")'
    BY <1>1, <1>3 DEF Owning, Unrecorded, At
<1>5. /\ result = "unpaid" => paid[call[c].request] = 0
      /\ result = "called" => paid[call[c].request] = 1
    BY <1>1 DEF IInv, HandlersKnowTheBill
<1> QED BY <1>1, <1>3, <1>4, <1>5, MovingKeeps

LEMMA NotCompletedKeeps ==
    ASSUME IInv, NEW c \in Call, NotCompleted(c)
    PROVE  IInv'
<1>1. /\ call[c] # Idle /\ Owning(c) /\ Goes(c, "asking", "unknown") /\ "unknown" \in Reply
      /\ UNCHANGED <<authority, reserved, attempt, cache, lease, paid, answered>>
    BY DEF NotCompleted, At, Owning, Reply
<1>2. /\ call' \in [Call -> Handler \cup {Idle}]
      /\ \A d \in Call : d # c => call'[d] = call[d]
      /\ call'[c].pc = "asking"
      /\ call'[c].request = call[c].request /\ call'[c].rendezvous = call[c].rendezvous
    BY <1>1, HandlerMoves DEF IInv
<1>3. /\ ~Unrecorded(c)' /\ ~At(c, "claimed")' /\ ~At(c, "published")' /\ ~At(c, "completing")'
    BY <1>2 DEF Unrecorded, At
<1> QED BY <1>1, <1>2, <1>3, MovingKeeps

LEMMA EndsKeeps ==
    ASSUME IInv, NEW c \in Call, Ends(c)
    PROVE  IInv'
<1>1. /\ UNCHANGED <<authority, reserved, attempt, cache, lease, paid, answered>>
      /\ call' \in [Call -> Handler \cup {Idle}]
      /\ \A d \in Call : d # c => call'[d] = call[d]
      /\ call'[c] = Idle
    BY HandlerEnds DEF Ends, IInv
<1>2. /\ ~Owning(c)' /\ ~Unrecorded(c)' /\ ~At(c, "claimed")'
      /\ ~At(c, "published")' /\ ~At(c, "completing")'
    BY <1>1 DEF Owning, Unrecorded, At
<1> QED BY <1>1, <1>2, MovingKeeps

\* A claim takes an allowance for a request and a rendezvous that have none.
LEMMA ClaimKeeps ==
    ASSUME IInv, NEW c \in Call, Claim(c)
    PROVE  IInv'
<1>1. PICK q \in Request, v \in Rendezvous :
         /\ q = call[c].request /\ v = call[c].rendezvous /\ v # NoAttempt
         /\ call[c] # Idle /\ call[c].pc = "queued" /\ call[c] \in Handler
    BY LedgerAssumption DEF Claim, At, IInv, TypeOK, Handler
<1>2. /\ attempt[q] = NoAttempt /\ reserved < DayLimit
      /\ \A p \in Request : attempt[p] # v
      /\ reserved' = reserved + 1
      /\ attempt' = [attempt EXCEPT ![q] = v]
      /\ cache' = [cache EXCEPT ![q] = "processing"]
      /\ lease' = [lease EXCEPT ![q] = "live"]
      /\ UNCHANGED <<authority, paid, answered>>
    BY <1>1 DEF Claim, Admits
<1>3. \/ /\ call'[c] # Idle /\ call'[c].pc = "claimed"
         /\ call'[c].request = q /\ call'[c].rendezvous = v
      \/ call'[c] = Idle
    BY <1>1, HandlerMoves, HandlerEnds DEF Claim, IInv, Reply
<1>4. /\ call' \in [Call -> Handler \cup {Idle}]
      /\ \A d \in Call : d # c => call'[d] = call[d]
    BY <1>1, HandlerMoves, HandlerEnds DEF Claim, IInv, Reply
<1> USE DEF IInv
<1>5. /\ paid[q] = 0 /\ cache[q] = "none" /\ answered[q] = {}
    BY <1>1, <1>2 DEF RequestsAreSound, RequestIsSound
<1>6. \A d \in Call : Owning(d) => call[d].request # q
    BY <1>1, <1>2, LedgerAssumption DEF HandlersOwn, TypeOK, Handler, Owning
<1>7. TypeOK'
    BY <1>1, <1>2, <1>4 DEF TypeOK
<1>8. Allowance'
    <2>1. Attempted' = Attempted \cup {q} /\ q \notin Attempted
        BY <1>1, <1>2 DEF Attempted, TypeOK
    <2>2. IsFiniteSet(Attempted') /\ Cardinality(Attempted') = Cardinality(Attempted) + 1
        BY <2>1, FS_AddElement DEF Allowance
    <2>3. reserved' <= DayLimit
        BY <1>2, LedgerAssumption DEF TypeOK
    <2> QED BY <1>2, <2>2, <2>3 DEF Allowance, AllowanceAccounted
<1>9. OneActivePromise' /\ OneAttemptEach'
    BY <1>1, <1>2 DEF OneActivePromise, OneAttemptEach, TypeOK
<1>10. RequestsAreSound'
    <2>1. /\ cache'[q] = "processing" /\ attempt'[q] = v
          /\ \A p \in Request : p # q => cache'[p] = cache[p] /\ attempt'[p] = attempt[p]
        BY <1>1, <1>2 DEF TypeOK
    <2>2. RequestIsSound(q)'
        BY <1>1, <1>2, <1>5, <2>1 DEF RequestIsSound, Result
    <2> QED BY <1>2, <2>1, <2>2 DEF RequestsAreSound, RequestIsSound
<1>11. \A d \in Call : d # c /\ Owning(d)' =>
          Owning(d) /\ call'[d] = call[d] /\ call'[d].request # q /\ call'[d].request \in Request
    BY <1>4, <1>6 DEF Owning, TypeOK, Handler
<1>12. Owning(c)' => call'[c].request = q /\ call'[c].rendezvous = v /\ call'[c].pc = "claimed"
    BY <1>3 DEF Owning
<1>13. HandlersOwn' /\ HandlersApart'
    <2>1. /\ attempt'[q] = v
          /\ \A p \in Request : p # q => attempt'[p] = attempt[p]
        BY <1>1, <1>2 DEF TypeOK
    <2> QED BY <1>11, <1>12, <2>1 DEF HandlersOwn, HandlersApart
<1>14. HandlersUnanswered'
    <2>1. \A d \in Call : Unrecorded(d)' => Owning(d)'
        BY DEF Unrecorded, Owning
    <2>2. /\ cache'[q] \notin Result
          /\ \A p \in Request : p # q => cache'[p] = cache[p]
        BY <1>1, <1>2 DEF TypeOK, Result
    <2> QED BY <1>2, <1>5, <1>11, <1>12, <2>1, <2>2 DEF HandlersUnanswered, Unrecorded
<1>15. HandlersKnowTheBill'
    BY <1>2, <1>3, <1>4, <1>5 DEF HandlersKnowTheBill, At
<1> QED BY <1>7, <1>8, <1>9, <1>10, <1>13, <1>14, <1>15

\* The one provider call of an attempt.
LEMMA PublishKeeps ==
    ASSUME IInv, NEW c \in Call, Publish(c)
    PROVE  IInv'
<1>1. PICK q \in Request :
         /\ q = call[c].request
         /\ call[c] # Idle /\ call[c] \in Handler /\ At(c, "claimed")
         /\ Owning(c) /\ Unrecorded(c)
         /\ Goes(c, "published", "unknown") /\ "unknown" \in Reply
    BY DEF Publish, At, Owning, Unrecorded, IInv, TypeOK, Handler, Reply
<1>2. /\ call' \in [Call -> Handler \cup {Idle}]
      /\ \A d \in Call : d # c => call'[d] = call[d]
      /\ call'[c] # Idle /\ call'[c].pc = "published"
      /\ call'[c].request = q /\ call'[c].rendezvous = call[c].rendezvous
    BY <1>1, HandlerMoves DEF IInv
<1>3. /\ UNCHANGED <<authority, reserved, attempt, cache, lease, answered>>
      /\ paid' = [paid EXCEPT ![q] = @ + 1]
    BY <1>1 DEF Publish
<1> USE DEF IInv
<1>4. /\ paid[q] = 0 /\ answered[q] = {} /\ cache[q] \notin Result
      /\ attempt[q] = call[c].rendezvous /\ attempt[q] # NoAttempt
    BY <1>1, LedgerAssumption
       DEF HandlersKnowTheBill, HandlersUnanswered, HandlersOwn, Handler
<1>5. paid'[q] = 1 /\ \A p \in Request : p # q => paid'[p] = paid[p]
    BY <1>1, <1>3, <1>4 DEF TypeOK
<1>6. TypeOK'
    BY <1>1, <1>2, <1>3, <1>4 DEF TypeOK
<1>7. OneActivePromise' /\ Allowance' /\ OneAttemptEach'
    BY <1>3 DEF OneActivePromise, Allowance, AllowanceAccounted, Attempted, OneAttemptEach
<1>8. RequestsAreSound'
    <2>1. RequestIsSound(q)'
        BY <1>1, <1>3, <1>4, <1>5 DEF RequestsAreSound, RequestIsSound, Result
    <2> QED BY <1>3, <1>5, <2>1 DEF RequestsAreSound, RequestIsSound
<1>9. Owning(c)' /\ \A d \in Call : Owning(d)' => Owning(d) /\ call'[d].request = call[d].request
                                               /\ call'[d].rendezvous = call[d].rendezvous
    BY <1>1, <1>2 DEF Owning
<1>10. HandlersOwn' /\ HandlersApart'
    BY <1>3, <1>9 DEF HandlersOwn, HandlersApart
<1>11. HandlersUnanswered'
    <2>1. \A d \in Call : Unrecorded(d)' => Unrecorded(d)
        BY <1>1, <1>2 DEF Unrecorded
    <2> QED BY <1>1, <1>2, <1>3, <2>1 DEF HandlersUnanswered, Unrecorded
<1>12. \A d \in Call : d # c /\ Owning(d) => call[d].request # q /\ call[d].request \in Request
    BY <1>1 DEF HandlersApart, TypeOK, Handler, Owning
<1>13. HandlersKnowTheBill'
    BY <1>2, <1>5, <1>12 DEF HandlersKnowTheBill, At, Owning
<1> QED BY <1>6, <1>7, <1>8, <1>10, <1>11, <1>13

\* The result is recorded while the lease runs, hence where nothing was answered.
LEMMA CompleteKeeps ==
    ASSUME IInv, NEW c \in Call, Complete(c)
    PROVE  IInv'
<1>1. PICK q \in Request, result \in Reply :
         /\ q = call[c].request /\ result = call[c].result
         /\ call[c] # Idle /\ call[c] \in Handler
         /\ Owning(c) /\ Unrecorded(c) /\ At(c, "completing") /\ "unknown" \in Reply
    BY DEF Complete, At, Owning, Unrecorded, IInv, TypeOK, Handler, Reply
<1>2. /\ cache[q] = "processing"
      /\ cache' = [cache EXCEPT ![q] = result]
      /\ lease' = [lease EXCEPT ![q] = "none"]
      /\ UNCHANGED <<authority, reserved, attempt, paid>>
      /\ Answer(q, result) \/ UNCHANGED answered
      /\ Ended(c) \/ Goes(c, "asking", "unknown")
    BY <1>1 DEF Complete, Records
<1>3. /\ call' \in [Call -> Handler \cup {Idle}]
      /\ \A d \in Call : d # c => call'[d] = call[d]
      /\ \/ call'[c] = Idle
         \/ /\ call'[c].pc = "asking" /\ call'[c].request = q
            /\ call'[c].rendezvous = call[c].rendezvous
    <2>1. CASE Ended(c)
        BY <2>1, HandlerEnds DEF IInv
    <2>2. CASE Goes(c, "asking", "unknown")
        BY <1>1, <2>2, HandlerMoves DEF IInv
    <2> QED BY <1>2, <2>1, <2>2
<1> USE DEF IInv
<1>4. /\ answered' \in [Request -> SUBSET Result]
      /\ \A p \in Request : p # q => answered'[p] = answered[p]
      /\ answered'[q] \subseteq answered[q] \cup {result}
    BY <1>2, AnswerAdds DEF TypeOK
<1>5. /\ answered[q] = {} /\ attempt[q] # NoAttempt
      /\ result = "unpaid" => paid[q] = 0
      /\ result = "called" => paid[q] = 1
    BY <1>1, <1>2, LedgerAssumption
       DEF HandlersUnanswered, HandlersOwn, HandlersKnowTheBill, Handler
<1>6. cache'[q] = result /\ \A p \in Request : p # q => cache'[p] = cache[p]
    BY <1>2 DEF TypeOK
<1>7. TypeOK'
    BY <1>2, <1>3, <1>4 DEF TypeOK
<1>8. OneActivePromise' /\ Allowance' /\ OneAttemptEach'
    BY <1>2 DEF OneActivePromise, Allowance, AllowanceAccounted, Attempted, OneAttemptEach
<1>9. RequestsAreSound'
    <2>1. RequestIsSound(q)'
        BY <1>2, <1>4, <1>5, <1>6, ResultsApart DEF RequestsAreSound, RequestIsSound
    <2> QED BY <1>2, <1>4, <1>6, <2>1 DEF RequestsAreSound, RequestIsSound
<1>10. \A d \in Call : Owning(d)' => Owning(d) /\ call'[d].request = call[d].request
                                   /\ call'[d].rendezvous = call[d].rendezvous
    BY <1>1, <1>3 DEF Owning
<1>11. HandlersOwn' /\ HandlersApart'
    BY <1>2, <1>10 DEF HandlersOwn, HandlersApart
<1>12. \A d \in Call : d # c /\ Owning(d) => call[d].request # q /\ call[d].request \in Request
    BY <1>1 DEF HandlersApart, TypeOK, Handler, Owning
<1>13. HandlersUnanswered'
    <2>1. \A d \in Call : Unrecorded(d)' => d # c /\ Unrecorded(d) /\ Owning(d)
        BY <1>3 DEF Unrecorded, Owning
    <2>2. ASSUME NEW d \in Call, d # c, Unrecorded(d), Owning(d)
          PROVE  /\ answered'[call'[d].request] = {}
                 /\ cache'[call'[d].request] \notin Result
        <3>1. /\ call'[d] = call[d] /\ call[d].request # q /\ call[d].request \in Request
              /\ answered[call[d].request] = {} /\ cache[call[d].request] \notin Result
            BY <1>3, <1>12, <2>2 DEF HandlersUnanswered
        <3> QED BY <1>4, <1>6, <3>1
    <2> QED BY <2>1, <2>2 DEF HandlersUnanswered, Unrecorded
<1>14. HandlersKnowTheBill'
    <2>1. ~At(c, "claimed")' /\ ~At(c, "published")' /\ ~At(c, "completing")'
        BY <1>3 DEF At
    <2> QED BY <1>2, <1>3, <2>1 DEF HandlersKnowTheBill, At
<1> QED BY <1>7, <1>8, <1>9, <1>11, <1>13, <1>14

\* After a doubtful completion the answer is what is recorded.
LEMMA AskSavedKeeps ==
    ASSUME IInv, NEW c \in Call, AskSaved(c)
    PROVE  IInv'
<1>1. PICK q \in Request, reply \in Reply :
         /\ q = call[c].request /\ Owning(c) /\ call[c] # Idle /\ call[c].pc = "asking"
         /\ Answer(q, reply) /\ Ended(c)
         /\ reply \in Result => attempt[q] # NoAttempt /\ reply = cache[q]
         /\ UNCHANGED <<authority, reserved, attempt, cache, lease, paid>>
    <2>1. /\ call[c] \in Handler /\ Owning(c) /\ call[c] # Idle /\ call[c].pc = "asking" /\ Ended(c)
          /\ UNCHANGED <<authority, reserved, attempt, cache, lease, paid>>
        BY DEF AskSaved, At, Owning, IInv, TypeOK
    <2>2. PICK q \in Request, v \in Rendezvous : q = call[c].request /\ v = call[c].rendezvous
        BY <2>1 DEF Handler
    <2>3. PICK reply \in {"unknown"} \cup ({Seen(q, v)} \cap Reply) : Answer(q, reply)
        BY <2>2 DEF AskSaved
    <2>4. reply \in Reply /\ (reply \in Result => reply = Seen(q, v))
        BY <2>3, ResultsApart DEF Reply
    <2> QED BY <2>1, <2>2, <2>3, <2>4, SeenIsRecorded
<1>2. /\ call' \in [Call -> Handler \cup {Idle}]
      /\ \A d \in Call : d # c => call'[d] = call[d]
      /\ call'[c] = Idle
    BY <1>1, HandlerEnds DEF IInv
<1>3. /\ answered' \in [Request -> SUBSET Result]
      /\ \A p \in Request : p # q => answered'[p] = answered[p]
      /\ answered'[q] \subseteq answered[q] \cup {reply}
      /\ reply \notin Result => answered'[q] = answered[q]
    BY <1>1, AnswerAdds DEF IInv
<1> USE DEF IInv
<1>4. TypeOK'
    BY <1>1, <1>2, <1>3 DEF TypeOK
<1>5. OneActivePromise' /\ Allowance' /\ OneAttemptEach'
    BY <1>1 DEF OneActivePromise, Allowance, AllowanceAccounted, Attempted, OneAttemptEach
<1>6. RequestsAreSound'
    BY <1>1, <1>3, ResultsApart DEF RequestsAreSound, RequestIsSound
<1>7. \A d \in Call : Owning(d)' => d # c /\ Owning(d) /\ call'[d] = call[d]
    BY <1>2 DEF Owning
<1>8. HandlersOwn' /\ HandlersApart'
    BY <1>1, <1>7 DEF HandlersOwn, HandlersApart
<1>9. \A d \in Call : Unrecorded(d)' => d # c /\ Unrecorded(d) /\ call[d].request # q
                                       /\ call[d].request \in Request
    BY <1>1, <1>2 DEF HandlersApart, Unrecorded, Owning, TypeOK, Handler
<1>10. HandlersUnanswered'
    BY <1>1, <1>2, <1>3, <1>9 DEF HandlersUnanswered, Unrecorded
<1>11. HandlersKnowTheBill'
    BY <1>1, <1>2 DEF HandlersKnowTheBill, At
<1> QED BY <1>4, <1>5, <1>6, <1>8, <1>10, <1>11

-----------------------------------------------------------------------------
(* The theorems.                                                           *)

LEMMA InitInvariant == Init => IInv
<1> SUFFICES ASSUME Init PROVE IInv
    OBVIOUS
<1>1. Attempted = {}
    BY DEF Init, Attempted
<1>2. Allowance
    BY <1>1, FS_EmptySet, LedgerAssumption DEF Allowance, AllowanceAccounted, Init
<1>3. TypeOK /\ OneActivePromise /\ OneAttemptEach
    BY DEF Init, TypeOK, OneActivePromise, OneAttemptEach
<1>4. RequestsAreSound
    BY DEF Init, RequestsAreSound, RequestIsSound, Result
<1>5. HandlersOwn /\ HandlersApart /\ HandlersUnanswered /\ HandlersKnowTheBill
    BY DEF Init, HandlersOwn, HandlersApart, HandlersUnanswered, HandlersKnowTheBill,
           Owning, Unrecorded, At
<1> QED BY <1>2, <1>3, <1>4, <1>5 DEF IInv

\* The invariant is inductive: each action keeps it.
THEOREM Invariance == Spec => []IInv
<1>1. IInv /\ [Next]_vars => IInv'
    <2> SUFFICES ASSUME IInv, [Next]_vars PROVE IInv'
        OBVIOUS
    <2>1. ASSUME NEW v \in Rendezvous, Promise(v) \/ Close(v) PROVE IInv'
        BY <2>1, PromisesKeep
    <2>2. ASSUME NEW q \in Request, Lapses(q) \/ RenewedLate(q) \/ Recover(q) \/ Expires(q)
          PROVE  IInv'
        BY <2>2, MaintenanceKeeps
    <2>3. ASSUME NEW q \in Request, NEW v \in Rendezvous,
                 Recovers(q, v) \/ \E c \in Call : Begin(c, q, v)
          PROVE  IInv'
        BY <2>3, RecoversKeeps, BeginKeeps
    <2>4. ASSUME NEW c \in Call,
                 \/ Claim(c) \/ Publish(c) \/ Unsent(c) \/ Returns(c)
                 \/ Complete(c) \/ NotCompleted(c) \/ AskSaved(c) \/ Ends(c)
          PROVE  IInv'
        BY <2>4, ClaimKeeps, PublishKeeps, OutcomeKeeps, CompleteKeeps, NotCompletedKeeps,
           AskSavedKeeps, EndsKeeps
    <2>5. CASE UNCHANGED vars
        BY <2>5 DEF vars, IInv, TypeOK, OneActivePromise, Allowance, AllowanceAccounted,
           Attempted, OneAttemptEach, RequestsAreSound, RequestIsSound, HandlersOwn,
           HandlersApart, HandlersUnanswered, HandlersKnowTheBill, Owning, Unrecorded, At
    <2> QED BY <2>1, <2>2, <2>3, <2>4, <2>5 DEF Next
<1> QED BY <1>1, InitInvariant, PTL DEF Spec

\* The variables keep their types.
THEOREM LedgerTypes == Spec => []TypeOK
<1>1. IInv => TypeOK
    BY DEF IInv
<1> QED BY <1>1, Invariance, PTL

\* proactive_store.py 118-158: one paid attempt for a rendezvous, DayLimit for a
\* day, under every interleaving of claims, lost answers, crashes and recoveries.
THEOREM OnePayment == Spec => []PaidOnce
<1>1. IInv => PaidOnce
    <2> SUFFICES ASSUME IInv PROVE PaidOnce
        OBVIOUS
    <2> USE DEF IInv
    <2> DEFINE payers == {q \in Request : paid[q] > 0}
    <2>1. \A q \in Request : paid[q] <= 1 /\ (paid[q] > 0 => attempt[q] # NoAttempt)
        BY DEF RequestsAreSound, RequestIsSound, TypeOK
    <2>2. \A p, q \in Request : paid[p] > 0 /\ paid[q] > 0 /\ attempt[p] = attempt[q] => p = q
        BY <2>1 DEF OneAttemptEach
    <2>3. payers \subseteq Attempted
        BY <2>1 DEF Attempted
    <2>4. /\ IsFiniteSet(payers) /\ Cardinality(payers) <= Cardinality(Attempted)
          /\ Cardinality(payers) \in Nat /\ Cardinality(Attempted) \in Nat
        BY <2>3, FS_Subset, FS_CardinalityType DEF Allowance
    <2>5. Cardinality(payers) <= DayLimit
        BY <2>4, LedgerAssumption DEF Allowance, AllowanceAccounted
    <2> QED BY <2>1, <2>2, <2>5 DEF PaidOnce
<1> QED BY <1>1, Invariance, PTL

\* proactive_store.py 149-152: the counter of the day is the number of attempts.
THEOREM AllowanceIsKept == Spec => []AllowanceAccounted
<1>1. IInv => AllowanceAccounted
    BY DEF IInv, Allowance
<1> QED BY <1>1, Invariance, PTL

\* proactive_store.py 86-95: a character waits for one promise.
THEOREM PromisesAreApart == Spec => []OneActivePromise
<1>1. IInv => OneActivePromise
    BY DEF IInv
<1> QED BY <1>1, Invariance, PTL

\* proactive_message.py 207-218, 290-324: what is answered agrees with the bill.
THEOREM AnswersMatchTheBill == Spec => []AnswersAreHonest
<1>1. IInv => AnswersAreHonest
    <2> SUFFICES ASSUME IInv, NEW q \in Request
                 PROVE  /\ "unpaid" \in answered[q] => paid[q] = 0
                        /\ "called" \in answered[q] => paid[q] = 1
                        /\ Cardinality(answered[q]) <= 1
        BY DEF AnswersAreHonest
    <2> USE DEF IInv
    <2>1. RequestIsSound(q)
        BY DEF RequestsAreSound
    <2>2. answered[q] = {} \/ \E r \in answered[q] : answered[q] = {r}
        BY <2>1 DEF RequestIsSound
    <2>3. Cardinality(answered[q]) \in {0, 1}
        BY <2>2, FS_EmptySet, FS_Singleton, Zenon
    <2>4. Cardinality(answered[q]) <= 1
        BY <2>3
    <2> QED BY <2>1, <2>4 DEF RequestIsSound
<1> QED BY <1>1, Invariance, PTL

\* proactive_store.py 63-95, 138-145: a closed promise stays closed and no attempt
\* is begun for it, whatever older package the browser sends.
THEOREM PromisesRetire == Spec => ClosedForGood
<1>1. IInv /\ [Next]_vars =>
        [\A v \in Rendezvous :
            authority[v] = "closed" =>
                /\ authority'[v] = "closed"
                /\ \A q \in Request : attempt'[q] = v => attempt[q] = v]_vars
    <2> SUFFICES ASSUME IInv, Next, NEW v \in Rendezvous, authority[v] = "closed"
                 PROVE  /\ authority'[v] = "closed"
                        /\ \A q \in Request : attempt'[q] = v => attempt[q] = v
        OBVIOUS
    <2> USE DEF IInv, TypeOK
    <2>1. ASSUME NEW w \in Rendezvous, Promise(w) \/ Close(w)
          PROVE  authority'[v] = "closed" /\ UNCHANGED attempt
        BY <2>1 DEF Promise, Close
    <2>2. ASSUME NEW c \in Call, Claim(c)
          PROVE  UNCHANGED authority /\ \A q \in Request : attempt'[q] = v => attempt[q] = v
        <3>1. call[c].request \in Request /\ call[c].rendezvous # v
            BY <2>2 DEF Claim, Admits, At, Handler
        <3> QED BY <2>2, <3>1 DEF Claim
    <2>3. ASSUME ~\E w \in Rendezvous : Promise(w) \/ Close(w), ~\E c \in Call : Claim(c)
          PROVE  UNCHANGED <<authority, attempt>>
        BY <2>3 DEF Next, Lapses, RenewedLate, Recover, Expires, Recovers, Begin, Publish,
           Unsent, Returns, Results, Complete, NotCompleted, AskSaved, Ends
    <2> QED BY <2>1, <2>2, <2>3
<1> QED BY <1>1, Invariance, PTL DEF Spec, ClosedForGood

\* proactive_store.py 160-178: a terminal row is not replaced by a late worker.
THEOREM RowsStand == Spec => ResultStands
<1>1. IInv /\ [Next]_vars =>
        [\A q \in Request : cache[q] \in Reply => cache'[q] \in {cache[q], "none"}]_vars
    <2> SUFFICES ASSUME IInv, Next, NEW q \in Request, cache[q] \in Reply
                 PROVE  cache'[q] \in {cache[q], "none"}
        OBVIOUS
    <2> USE ResultsApart DEF IInv, TypeOK
    <2>1. ASSUME NEW c \in Call, Claim(c)
          PROVE  cache'[q] = cache[q]
        <3>1. attempt[call[c].request] = NoAttempt /\ call[c].request \in Request
            BY <2>1 DEF Claim, Admits, At, Handler
        <3>2. cache[call[c].request] = "none"
            BY <3>1 DEF RequestsAreSound, RequestIsSound
        <3> QED BY <2>1, <3>2 DEF Claim
    <2>2. ASSUME NEW c \in Call, Complete(c)
          PROVE  cache'[q] = cache[q]
        BY <2>2 DEF Complete, Records
    <2>3. ASSUME NEW p \in Request, Lapses(p) \/ RenewedLate(p) \/ Recover(p) \/ Expires(p)
          PROVE  cache'[q] \in {cache[q], "none"}
        BY <2>3 DEF Lapses, RenewedLate, Recover, Expires
    <2>4. ASSUME ~\E c \in Call : Claim(c) \/ Complete(c),
                 ~\E p \in Request : Lapses(p) \/ RenewedLate(p) \/ Recover(p) \/ Expires(p)
          PROVE  UNCHANGED cache
        BY <2>4 DEF Next, Promise, Close, Recovers, Begin, Publish, Unsent, Returns, Results,
           NotCompleted, AskSaved, Ends
    <2> QED BY <2>1, <2>2, <2>3, <2>4
<1> QED BY <1>1, Invariance, PTL DEF Spec, ResultStands

-----------------------------------------------------------------------------
(* The feedback outbox.                                                    *)

\* What is kept, refused again or has a mail was stored once, with the time its
\* insertion worked with.
Accounted ==
    /\ \A r \in DOMAIN kept : pc[r] = "stored"
    /\ \A d \in dedupe : pc[d.of] = "stored" /\ d.until = since[d.of] + WINDOW
    /\ \A r \in Reports : since[r] <= clock
    /\ IsFiniteSet(DOMAIN kept)

\* The advisory lock: of twins at most one is between its look-up and its commit.
TwinsTakeTurns ==
    \A q, r \in Reports :
        pc[q] = "inserting" /\ pc[r] = "inserting" /\ SameTriple(q, r) => q = r

\* Whoever is to commit has seen every twin on record, as one that has expired.
LookedUp ==
    \A q \in Reports, d \in dedupe :
        pc[q] = "inserting" /\ SameTriple(q, d.of) => d.until <= since[q]

\* A mailer has rows to do unless it is idle.
MailersHaveRows == \A m \in Mailers : job[m].step = "idle" <=> job[m].rows = <<>>

OutboxInv ==
    /\ FBTypeOK /\ Accounted /\ MailersHaveRows
    /\ TwinsTakeTurns /\ LookedUp /\ TwinsSuppressed
    /\ NeverStranded

\* A delay is never longer than DAY.
LEMMA DelayIsBounded ==
    ASSUME NEW n \in Nat, n >= 1
    PROVE  RetryDelay(n) \in Nat /\ RetryDelay(n) <= DAY
<1> DEFINE k == Smaller(n - 1, 8)
<1>1. k \in 0..8
    BY DEF Smaller
<1>2. \A i \in 0..8 : 2^i \in Nat
    <2> DEFINE P(i) == 2^i \in Nat
    <2>1. P(0) /\ P(1) /\ P(2) /\ P(3) /\ P(4)
        <3>1. 2^0 = 1 /\ 2^1 = 2 /\ 2^2 = 4 /\ 2^3 = 8 /\ 2^4 = 16
            OBVIOUS
        <3> QED BY <3>1
    <2>2. P(5)
        <3>1. 2^5 = 32  OBVIOUS
        <3> QED BY <3>1
    <2>3. P(6)
        <3>1. 2^6 = 64  OBVIOUS
        <3> QED BY <3>1
    <2>4. P(7)
        <3>1. 2^7 = 128  OBVIOUS
        <3> QED BY <3>1
    <2>5. P(8)
        <3>1. 2^8 = 256  OBVIOUS
        <3> QED BY <3>1
    <2> HIDE DEF P
    <2>6. \A i \in 0..8 : P(i)
        BY <2>1, <2>2, <2>3, <2>4, <2>5
    <2> QED BY <2>6 DEF P
<1>3. 2^k \in Nat
    BY <1>1, <1>2
<1> DEFINE delay == BASE * 2^k
<1>4. delay \in Nat
    BY <1>3, FeedbackAssumption
<1>5. RetryDelay(n) = Smaller(DAY, delay)
    BY DEF RetryDelay
<1> HIDE DEF delay
<1> QED BY <1>4, <1>5, FeedbackAssumption DEF Smaller

\* A claim takes a non-empty batch of different rows that are due.
LEMMA BatchIsDue ==
    ASSUME FBTypeOK, IsFiniteSet(DOMAIN kept), NEW batch \in Batches
    PROVE  /\ batch \in Seq(DOMAIN kept)
           /\ \A i \in DOMAIN batch : Claimable(batch[i])
           /\ \A i, j \in DOMAIN batch : i # j => batch[i] # batch[j]
<1> DEFINE due == {r \in DOMAIN outbox : Claimable(r)}
           n == Smaller(BATCH, Cardinality(due))
<1>1. DOMAIN outbox = DOMAIN kept
    BY DEF FBTypeOK
<1>2. due \subseteq DOMAIN kept
    BY <1>1
<1>3. Cardinality(due) \in Nat
    BY <1>2, FS_Subset, FS_CardinalityType
<1> HIDE DEF due
<1>4. n \in Nat
    BY <1>3, FeedbackAssumption DEF Smaller
<1> HIDE DEF n
<1>5. batch \in [1..n -> due]
    BY DEF Batches, n, due
<1>6. \A i, j \in DOMAIN batch : i < j => batch[i] # batch[j]
    BY DEF Batches
<1>7. batch \in Seq(DOMAIN kept)
    BY <1>2, <1>4, <1>5
<1>8. \A i \in DOMAIN batch : Claimable(batch[i])
    BY <1>5 DEF due
<1>9. \A i, j \in DOMAIN batch : i # j => i < j \/ j < i
    BY <1>4, <1>5
<1> QED BY <1>6, <1>7, <1>8, <1>9

Job == [rows : Seq([report : Reports, attempts : 1..MaxAttempts]),
        step : {"idle", "send", "sent", "failed"}]

\* What a mailer still has to do after a row, and before it.
LEMMA NextRowTypes ==
    ASSUME FBTypeOK, NEW m \in Mailers, job[m].rows # <<>>
    PROVE  /\ NextRow(m) \in [Mailers -> Job]
           /\ \A w \in Mailers : w # m => NextRow(m)[w] = job[w]
           /\ NextRow(m)[m].step = "idle" <=> NextRow(m)[m].rows = <<>>
           /\ NextRow(m)[m].step \in {"idle", "send"}
           /\ NextRow(m)[m].rows = Tail(job[m].rows)
           /\ Head(job[m].rows) \in [report : Reports, attempts : 1..MaxAttempts]
<1> DEFINE R == [report : Reports, attempts : 1..MaxAttempts]
<1>1. job[m].rows \in Seq(R)
    BY DEF FBTypeOK
<1> HIDE DEF R
<1>2. Head(job[m].rows) \in R /\ Tail(job[m].rows) \in Seq(R)
    BY <1>1
<1>3. job \in [Mailers -> Job] /\ Job = [rows : Seq(R), step : {"idle", "send", "sent", "failed"}]
    BY DEF FBTypeOK, Job, R
<1> DEFINE rest == IF Len(job[m].rows) = 1 THEN NoJob
                   ELSE [rows |-> Tail(job[m].rows), step |-> "send"]
<1>4. rest \in Job
    <2>1. [rows |-> Tail(job[m].rows), step |-> "send"] \in Job
        BY <1>2, <1>3
    <2>2. NoJob \in Job
        BY <1>3 DEF NoJob
    <2> QED BY <2>1, <2>2
<1>9. Len(Tail(job[m].rows)) = Len(job[m].rows) - 1 /\ Len(job[m].rows) \in Nat
    BY <1>1
<1>10. \A t \in Seq(R) : Len(t) = 0 <=> t = <<>>
    OBVIOUS
<1>11. Len(job[m].rows) = 1 <=> Tail(job[m].rows) = <<>>
    <2> DEFINE t == Tail(job[m].rows)
               l == Len(job[m].rows)
    <2>1. t \in Seq(R) /\ Len(t) = l - 1 /\ l \in Nat
        BY <1>2, <1>9
    <2> HIDE DEF t, l
    <2>2. l = 1 <=> t = <<>>
        BY <2>1, <1>10
    <2> QED BY <2>2 DEF t, l
<1>5. /\ rest.step \in {"idle", "send"} /\ (rest.step = "idle" <=> rest.rows = <<>>)
      /\ rest.rows = Tail(job[m].rows)
    BY <1>11 DEF NoJob
<1>6. NextRow(m) = [job EXCEPT ![m] = rest]
    BY <1>3 DEF NextRow
<1> HIDE DEF rest
<1>7. /\ NextRow(m) \in [Mailers -> Job] /\ NextRow(m)[m] = rest
      /\ \A w \in Mailers : w # m => NextRow(m)[w] = job[w]
    BY <1>3, <1>4, <1>6
<1> QED BY <1>2, <1>5, <1>7 DEF R

-----------------------------------------------------------------------------
(* The visitors' requests keep the invariant.                              *)

\* A step of a request that leaves the store and the mailers alone.
LEMMA RequestsKeep ==
    ASSUME OutboxInv, NEW r \in Reports,
           Attempt(r) \/ Verify(r) \/ ConsumeLimits(r) \/ InsertLookUp(r)
    PROVE  OutboxInv'
<1> USE DEF OutboxInv
<1>1. /\ UNCHANGED <<clock, kept, dedupe, outbox, job, mailed, forced>>
      /\ \E step \in Steps \ {"stored"} : pc' = [pc EXCEPT ![r] = step]
      /\ pc[r] \notin {"stored", "inserting"}
      /\ since' = since \/ since' = [since EXCEPT ![r] = clock]
      /\ tried' \subseteq Reports /\ used' \subseteq Reports
    BY DEF Attempt, Verify, ConsumeLimits, InsertLookUp, storeVars, Steps, FBTypeOK
<1>2. FBTypeOK'
    <2>1. pc' \in [Reports -> Steps]
        BY <1>1 DEF FBTypeOK
    <2>2. since' \in [Reports -> 0..MaxClock]
        BY <1>1 DEF FBTypeOK
    <2> QED BY <1>1, <2>1, <2>2 DEF FBTypeOK
<1>3. \A q \in Reports : q # r => pc'[q] = pc[q] /\ since'[q] = since[q]
    BY <1>1 DEF FBTypeOK
<1>4. pc'[r] = "inserting" => LockFree(r) /\ ~Duplicate(r) /\ since' = since
    BY DEF Attempt, Verify, ConsumeLimits, InsertLookUp, FBTypeOK
<1>5. pc'[r] # "stored" /\ since'[r] <= clock /\ clock \in Nat
    BY <1>1 DEF FBTypeOK, Accounted
<1>6. Accounted' /\ MailersHaveRows' /\ TwinsSuppressed' /\ NeverStranded'
    <2>1. \A q \in Reports : pc[q] = "stored" => pc'[q] = "stored" /\ since'[q] = since[q]
        BY <1>1, <1>3
    <2>2. \A q \in Reports : since'[q] <= clock'
        BY <1>1, <1>3, <1>5 DEF Accounted
    <2>3. \A d \in dedupe : d.of \in Reports
        BY DEF FBTypeOK
    <2>4. Accounted'
        BY <1>1, <2>1, <2>2, <2>3 DEF Accounted, FBTypeOK
    <2> QED BY <1>1, <2>4 DEF MailersHaveRows, TwinsSuppressed, NeverStranded, SameTriple
<1>7. TwinsTakeTurns'
    <2> SUFFICES ASSUME NEW p \in Reports, NEW q \in Reports,
                        pc'[p] = "inserting", pc'[q] = "inserting", SameTriple(p, q), p # q
                 PROVE  FALSE
        BY DEF TwinsTakeTurns, SameTriple
    <2>1. SameTriple(q, p)
        BY DEF SameTriple
    <2>2. CASE p = r
        BY <1>3, <1>4, <2>2 DEF LockFree
    <2>3. CASE q = r
        BY <1>3, <1>4, <2>1, <2>3 DEF LockFree
    <2>4. CASE p # r /\ q # r
        BY <1>3, <2>4 DEF TwinsTakeTurns
    <2> QED BY <2>2, <2>3, <2>4
<1>8. LookedUp'
    <2> SUFFICES ASSUME NEW q \in Reports, NEW d \in dedupe,
                        pc'[q] = "inserting", SameTriple(q, d.of)
                 PROVE  d.until <= since'[q]
        BY <1>1 DEF LookedUp, SameTriple
    <2>1. CASE q = r
        <3>1. Equivalent(r, d.of)
            BY <2>1 DEF SameTriple, Equivalent
        <3>2. ~(d.until > since[r])
            BY <1>4, <2>1, <3>1 DEF Duplicate
        <3>3. d.until \in Nat /\ since[r] \in Nat
            BY DEF FBTypeOK
        <3> QED BY <1>4, <2>1, <3>2, <3>3
    <2>2. CASE q # r
        BY <1>3, <2>2 DEF LookedUp
    <2> QED BY <2>1, <2>2
<1> QED BY <1>2, <1>6, <1>7, <1>8

\* The commit of an insertion adds a report, its mail and what is refused again.
LEMMA CommitKeeps ==
    ASSUME OutboxInv, NEW r \in Reports, InsertCommit(r)
    PROVE  OutboxInv'
<1> USE DEF OutboxInv
<1>1. /\ pc[r] = "inserting" /\ pc' = [pc EXCEPT ![r] = "stored"]
      /\ UNCHANGED <<clock, since, tried, used, job, mailed, forced>>
      /\ dedupe' = dedupe \union {[of |-> r, until |-> since[r] + WINDOW]}
    BY DEF InsertCommit
<1>2. /\ pc'[r] = "stored" /\ \A q \in Reports : q # r => pc'[q] = pc[q]
      /\ pc' \in [Reports -> Steps]
    BY <1>1 DEF FBTypeOK, Steps
<1>3. clock \in Nat /\ since[r] \in Nat /\ since[r] <= clock /\ since[r] \in 0..MaxClock
    BY DEF FBTypeOK, Accounted
<1>4. /\ DOMAIN kept' = DOMAIN kept \union {r} /\ DOMAIN outbox' = DOMAIN kept \union {r}
      /\ kept' \in [DOMAIN kept \union {r} -> Nat]
      /\ outbox'[r] = FirstMail(r)
      /\ \A q \in DOMAIN kept : q # r => outbox'[q] = outbox[q]
    BY <1>3, FeedbackAssumption DEF InsertCommit, FBTypeOK
<1>5. FirstMail(r) \in MailRow
    BY <1>3, FeedbackAssumption DEF FirstMail, MailRow, Statuses, Never
<1>6. r \notin DOMAIN kept
    BY <1>1 DEF Accounted
<1>7. FBTypeOK'
    <2>1. outbox' \in [DOMAIN kept' -> MailRow]
        <3>1. DOMAIN outbox' = DOMAIN kept' /\ \A q \in DOMAIN kept' : outbox'[q] \in MailRow
            BY <1>4, <1>5 DEF FBTypeOK
        <3>2. outbox' = [q \in DOMAIN outbox' |-> outbox'[q]]
            BY DEF InsertCommit
        <3> QED BY <3>1, <3>2
    <2>2. dedupe' \subseteq [of : Reports, until : Nat]
        BY <1>1, <1>3, FeedbackAssumption DEF FBTypeOK
    <2> QED BY <1>1, <1>2, <1>4, <2>1, <2>2 DEF FBTypeOK
<1>8. Accounted'
    <2>1. IsFiniteSet(DOMAIN kept')
        BY <1>4, FS_AddElement DEF Accounted
    <2>2. \A d \in dedupe' : pc'[d.of] = "stored" /\ d.until = since'[d.of] + WINDOW
        BY <1>1, <1>2 DEF Accounted, FBTypeOK
    <2>3. \A q \in DOMAIN kept' : pc'[q] = "stored"
        BY <1>2, <1>4 DEF Accounted, FBTypeOK
    <2> QED BY <1>1, <2>1, <2>2, <2>3 DEF Accounted
<1>9. TwinsSuppressed'
    <2>1. ASSUME NEW d \in dedupe, SameTriple(d.of, r)
          PROVE  d.until + WINDOW <= since[r] + WINDOW
        <3>1. SameTriple(r, d.of)
            BY <2>1 DEF SameTriple
        <3>2. d.until <= since[r] /\ d.until \in Nat
            BY <1>1, <3>1 DEF LookedUp, FBTypeOK
        <3> QED BY <1>3, <3>2, FeedbackAssumption
    <2>2. \A d \in dedupe : SameTriple(r, d.of) => SameTriple(d.of, r)
        BY DEF SameTriple
    <2> QED BY <1>1, <2>1, <2>2 DEF TwinsSuppressed, SameTriple
<1>10. TwinsTakeTurns'
    BY <1>2 DEF TwinsTakeTurns, SameTriple
<1>11. LookedUp'
    <2> SUFFICES ASSUME NEW q \in Reports, NEW d \in dedupe',
                        pc'[q] = "inserting", SameTriple(q, d.of)
                 PROVE  d.until <= since[q]
        BY <1>1 DEF LookedUp, SameTriple
    <2>1. q # r /\ pc[q] = "inserting"
        BY <1>2
    <2>2. d.of # r
        BY <1>1, <2>1 DEF TwinsTakeTurns
    <2>3. d \in dedupe
        BY <1>1, <2>2
    <2> QED BY <2>1, <2>3 DEF LookedUp
<1>12. NeverStranded'
    <2>1. since[r] <= clock + DAY
        BY <1>3, FeedbackAssumption
    <2> QED BY <1>1, <1>4, <2>1 DEF NeverStranded, FirstMail, FBTypeOK
<1>13. MailersHaveRows'
    BY <1>1 DEF MailersHaveRows
<1> QED BY <1>7, <1>8, <1>9, <1>10, <1>11, <1>12, <1>13

-----------------------------------------------------------------------------
(* The mailers, the operator and the clock keep the invariant.             *)

\* Every mail row keeps its place; the rest of the store is not touched.
MailsMove == /\ outbox' \in [DOMAIN kept -> MailRow]
             /\ job' \in [Mailers -> Job] /\ mailed' \subseteq Reports /\ forced' \in 0..MaxForce
             /\ UNCHANGED <<clock, requestVars, kept, dedupe>>

\* Such a step keeps the invariant when no row is stranded.
LEMMA MailsKeep ==
    ASSUME OutboxInv, MailsMove, MailersHaveRows', NeverStranded'
    PROVE  OutboxInv'
<1> USE DEF OutboxInv
<1>1. FBTypeOK'
    BY DEF MailsMove, FBTypeOK, requestVars, Job
<1>2. Accounted' /\ TwinsTakeTurns' /\ LookedUp' /\ TwinsSuppressed'
    BY DEF MailsMove, requestVars, Accounted, TwinsTakeTurns, LookedUp, TwinsSuppressed, SameTriple
<1> QED BY <1>1, <1>2

\* The fields of a row that is changed keep it a row.
LEMMA RowTypes ==
    ASSUME FBTypeOK, NEW r \in DOMAIN kept
    PROVE  /\ outbox[r] \in MailRow /\ outbox[r].attempts \in 0..MaxAttempts
           /\ outbox[r].attempts < MaxAttempts => Claimed(outbox[r]) \in MailRow
           /\ [outbox[r] EXCEPT !.status = "sent", !.locked = Never] \in MailRow
           /\ \A n \in 1..MaxAttempts :
                [outbox[r] EXCEPT !.status = "retry", !.locked = Never,
                                  !.next = clock + RetryDelay(n)] \in MailRow
           /\ [outbox[r] EXCEPT !.status = "pending", !.next = clock, !.locked = Never] \in MailRow
<1>1. /\ outbox[r] \in MailRow /\ clock \in 0..MaxClock /\ Never \in 0..Never
      /\ clock + LEASE \in 0..Never /\ clock \in 0..Never
      /\ {"sent", "retry", "pending", "sending"} \subseteq Statuses
    <2>1. outbox[r] \in MailRow /\ clock \in 0..MaxClock
        BY DEF FBTypeOK
    <2>2. MaxClock \in Nat /\ DAY \in Nat /\ LEASE \in Nat
        BY FeedbackAssumption
    <2>3. Never \in 0..Never /\ clock + LEASE \in 0..Never /\ clock \in 0..Never
        BY <2>1, <2>2 DEF Never
    <2> QED BY <2>1, <2>3 DEF Statuses
<1>2. \A n \in 1..MaxAttempts : clock + RetryDelay(n) \in 0..Never
    <2> TAKE n \in 1..MaxAttempts
    <2>1. n \in Nat /\ n >= 1
        BY FeedbackAssumption
    <2>2. RetryDelay(n) \in Nat /\ RetryDelay(n) <= DAY
        BY <2>1, DelayIsBounded
    <2> QED BY <1>1, <2>2, FeedbackAssumption DEF Never
<1>3. outbox[r].attempts < MaxAttempts => outbox[r].attempts + 1 \in 0..MaxAttempts
    BY <1>1, FeedbackAssumption DEF MailRow
<1> HIDE DEF Never
<1> QED BY <1>1, <1>2, <1>3 DEF MailRow, Claimed

\* A claim locks the rows it takes for one lease.
LEMMA ClaimMailsKeeps ==
    ASSUME OutboxInv, NEW m \in Mailers, ClaimMails(m)
    PROVE  OutboxInv'
<1> USE DEF OutboxInv
<1>1. PICK batch \in Batches :
        /\ batch # <<>>
        /\ outbox' = [r \in DOMAIN outbox |->
              IF \E i \in DOMAIN batch : batch[i] = r THEN Claimed(outbox[r]) ELSE outbox[r]]
        /\ job' = [job EXCEPT ![m] =
              [rows |-> [i \in DOMAIN batch |->
                           [report |-> batch[i], attempts |-> outbox[batch[i]].attempts + 1]],
               step |-> "send"]]
    BY DEF ClaimMails
<1>2. /\ batch \in Seq(DOMAIN kept)
      /\ \A i \in DOMAIN batch : batch[i] \in DOMAIN kept /\ outbox[batch[i]].attempts < MaxAttempts
    <2>1. batch \in Seq(DOMAIN kept) /\ \A i \in DOMAIN batch : Claimable(batch[i])
        BY BatchIsDue DEF Accounted
    <2>2. \A i \in DOMAIN batch : batch[i] \in DOMAIN kept
        BY <2>1
    <2> QED BY <2>1, <2>2 DEF Claimable
<1> DEFINE rows == [i \in DOMAIN batch |->
                       [report |-> batch[i], attempts |-> outbox[batch[i]].attempts + 1]]
<1>3. rows \in Seq([report : Reports, attempts : 1..MaxAttempts]) /\ rows # <<>>
    <2>1. \A i \in DOMAIN batch : /\ batch[i] \in Reports
                                  /\ outbox[batch[i]].attempts + 1 \in 1..MaxAttempts
        <3> TAKE i \in DOMAIN batch
        <3>1. batch[i] \in Reports
            BY <1>2 DEF FBTypeOK
        <3>2. outbox[batch[i]].attempts \in 0..MaxAttempts /\ outbox[batch[i]].attempts < MaxAttempts
            BY <1>2, RowTypes
        <3>3. MaxAttempts \in Nat
            BY FeedbackAssumption
        <3> QED BY <3>1, <3>2, <3>3
    <2>2. DOMAIN batch = 1..Len(batch) /\ Len(batch) \in Nat /\ Len(batch) # 0
        <3>1. batch \in Seq(DOMAIN kept)
            BY <1>2
        <3> QED BY <1>1, <3>1
    <2> DEFINE R == [report : Reports, attempts : 1..MaxAttempts]
    <2>3. \A i \in DOMAIN batch : rows[i] \in R
        BY <2>1
    <2>4. DOMAIN rows = 1..Len(batch) /\ rows = [i \in 1..Len(batch) |-> rows[i]]
        BY <2>2
    <2> HIDE DEF R, rows
    <2>5. rows \in Seq(R)
        BY <2>2, <2>3, <2>4
    <2>6. rows # <<>>
        <3>1. 1 \in DOMAIN rows
            BY <2>2, <2>4
        <3>2. DOMAIN <<>> = {}
            OBVIOUS
        <3> QED BY <3>1, <3>2
    <2> QED BY <2>5, <2>6 DEF R
<1>4. [rows |-> rows, step |-> "send"] \in Job
    BY <1>3 DEF Job
<1> HIDE DEF rows
<1>5. /\ job' \in [Mailers -> Job] /\ job'[m] = [rows |-> rows, step |-> "send"]
      /\ \A w \in Mailers : w # m => job'[w] = job[w]
    BY <1>1, <1>4 DEF FBTypeOK, Job, rows
<1>6. outbox' \in [DOMAIN kept -> MailRow]
    <2>1. \A r \in DOMAIN kept : /\ outbox[r] \in MailRow
                                 /\ (\E i \in DOMAIN batch : batch[i] = r) => Claimed(outbox[r]) \in MailRow
        BY <1>2, RowTypes
    <2>2. DOMAIN outbox = DOMAIN kept
        BY DEF FBTypeOK
    <2> QED BY <1>1, <2>1, <2>2
<1>7. MailsMove
    BY <1>5, <1>6 DEF ClaimMails, MailsMove, FBTypeOK
<1>8. MailersHaveRows'
    BY <1>3, <1>5 DEF MailersHaveRows
<1>9. NeverStranded'
    <2> SUFFICES ASSUME NEW r \in DOMAIN kept
                 PROVE  /\ outbox'[r].status \in {"pending", "retry"} => outbox'[r].next <= clock + DAY
                        /\ outbox'[r].status = "sending" => outbox'[r].locked <= clock + LEASE
        BY <1>6, <1>7 DEF NeverStranded, MailsMove
    <2>1. outbox[r] \in MailRow /\ r \in DOMAIN outbox /\ clock + LEASE \in Nat
        BY FeedbackAssumption DEF FBTypeOK
    <2>2. Claimed(outbox[r]).status = "sending" /\ Claimed(outbox[r]).locked = clock + LEASE
        BY <2>1 DEF Claimed, MailRow
    <2>3. outbox'[r] = Claimed(outbox[r]) \/ outbox'[r] = outbox[r]
        BY <1>1, <2>1
    <2> QED BY <2>1, <2>2, <2>3 DEF NeverStranded
<1> QED BY <1>7, <1>8, <1>9, MailsKeep

\* Sending touches no row.
LEMMA SendKeeps ==
    ASSUME OutboxInv, NEW m \in Mailers, Send(m)
    PROVE  OutboxInv'
<1> USE DEF OutboxInv
<1>1. job[m] \in Job /\ job \in [Mailers -> Job] /\ job[m].step = "send" /\ job[m].rows # <<>>
    BY DEF FBTypeOK, Job, Send, MailersHaveRows
<1>2. \E step \in {"sent", "failed"} : job' = [job EXCEPT ![m].step = step]
    BY DEF Send
<1>3. /\ job' \in [Mailers -> Job] /\ job'[m].rows = job[m].rows /\ job'[m].step \in {"sent", "failed"}
      /\ \A w \in Mailers : w # m => job'[w] = job[w]
    <2>1. PICK step \in {"sent", "failed"} : job' = [job EXCEPT ![m].step = step]
        BY <1>2
    <2> DEFINE done == [job[m] EXCEPT !.step = step]
    <2>2. done \in Job /\ done.rows = job[m].rows /\ done.step = step
        BY <1>1 DEF Job
    <2>3. job' = [job EXCEPT ![m] = done]
        BY <1>1, <2>1
    <2> HIDE DEF done
    <2> QED BY <1>1, <2>2, <2>3
<1>4. Head(job[m].rows).report \in Reports
    BY <1>1, NextRowTypes
<1>5. mailed' \subseteq Reports
    BY <1>4 DEF Send, FBTypeOK
<1>6. MailsMove
    BY <1>3, <1>5 DEF MailsMove, Send, storeVars, FBTypeOK
<1>7. MailersHaveRows' /\ NeverStranded'
    BY <1>1, <1>3 DEF MailersHaveRows, NeverStranded, Send, storeVars
<1> QED BY <1>6, <1>7, MailsKeep

\* Marking takes the row to its end, or to its next attempt within DAY.
LEMMA MarksKeep ==
    ASSUME OutboxInv, NEW m \in Mailers, MarkSent(m) \/ MarkRetry(m)
    PROVE  OutboxInv'
<1> USE DEF OutboxInv
<1>1. job[m].rows # <<>> /\ job' = NextRow(m)
    BY DEF FBTypeOK, MarkSent, MarkRetry, MailersHaveRows
<1>2. /\ job' \in [Mailers -> Job] /\ \A w \in Mailers : w # m => job'[w] = job[w]
      /\ job'[m].step = "idle" <=> job'[m].rows = <<>>
      /\ Head(job[m].rows).report \in Reports /\ Head(job[m].rows).attempts \in 1..MaxAttempts
    BY <1>1, NextRowTypes
<1> DEFINE q == Head(job[m].rows).report
           n == Head(job[m].rows).attempts
<1>3. \A r \in DOMAIN kept :
        \/ outbox'[r] = outbox[r]
        \/ r = q /\ outbox'[r] = [outbox[r] EXCEPT !.status = "sent", !.locked = Never]
        \/ r = q /\ outbox'[r] = [outbox[r] EXCEPT !.status = "retry", !.locked = Never,
                                                   !.next = clock + RetryDelay(n)]
    BY DEF MarkSent, MarkRetry, FBTypeOK
<1>9. n \in 1..MaxAttempts
    BY <1>2
<1> HIDE DEF q, n
<1>4. DOMAIN outbox' = DOMAIN kept /\ outbox' = [r \in DOMAIN outbox' |-> outbox'[r]]
    BY DEF MarkSent, MarkRetry, FBTypeOK
<1>5. outbox' \in [DOMAIN kept -> MailRow]
    <2>1. ASSUME NEW r \in DOMAIN kept PROVE outbox'[r] \in MailRow
        <3>1. outbox[r] \in MailRow
            BY RowTypes
        <3>2. [outbox[r] EXCEPT !.status = "sent", !.locked = Never] \in MailRow
            BY RowTypes
        <3>3. [outbox[r] EXCEPT !.status = "retry", !.locked = Never,
                                !.next = clock + RetryDelay(n)] \in MailRow
            BY <1>9, RowTypes
        <3> QED BY <1>3, <3>1, <3>2, <3>3
    <2> QED BY <1>4, <2>1
<1>6. MailsMove
    BY <1>2, <1>5 DEF MailsMove, MarkSent, MarkRetry, FBTypeOK
<1>7. MailersHaveRows'
    BY <1>2 DEF MailersHaveRows
<1>8. NeverStranded'
    <2> SUFFICES ASSUME NEW r \in DOMAIN kept
                 PROVE  /\ outbox'[r].status \in {"pending", "retry"} => outbox'[r].next <= clock + DAY
                        /\ outbox'[r].status = "sending" => outbox'[r].locked <= clock + LEASE
        BY <1>4, <1>6 DEF NeverStranded, MailsMove
    <2>1. outbox[r] \in MailRow /\ r \in DOMAIN outbox /\ clock \in Nat
        BY FeedbackAssumption DEF FBTypeOK
    <2>2. RetryDelay(n) \in Nat /\ RetryDelay(n) <= DAY
        <3>1. n \in Nat /\ n >= 1
            BY <1>9, FeedbackAssumption
        <3> QED BY <3>1, DelayIsBounded
    <2>3. clock + RetryDelay(n) <= clock + DAY
        BY <2>1, <2>2, FeedbackAssumption
    <2> QED BY <1>3, <2>1, <2>3 DEF NeverStranded, MailRow
<1> QED BY <1>6, <1>7, <1>8, MailsKeep

\* A death leaves the rows to their lease.
LEMMA AbandonKeeps ==
    ASSUME OutboxInv, NEW m \in Mailers, Abandon(m)
    PROVE  OutboxInv'
<1> USE DEF OutboxInv
<1>1. NoJob \in Job /\ NoJob.step = "idle" /\ NoJob.rows = <<>>
    BY DEF NoJob, Job
<1>2. job' \in [Mailers -> Job] /\ job'[m] = NoJob /\ \A w \in Mailers : w # m => job'[w] = job[w]
    BY <1>1 DEF Abandon, FBTypeOK, Job
<1>3. MailsMove
    BY <1>2 DEF MailsMove, Abandon, storeVars, FBTypeOK
<1>4. MailersHaveRows' /\ NeverStranded'
    BY <1>1, <1>2 DEF MailersHaveRows, NeverStranded, Abandon, storeVars
<1> QED BY <1>3, <1>4, MailsKeep

\* The operator makes a sent mail due at once.
LEMMA QueueAgainKeeps ==
    ASSUME OutboxInv, NEW r \in Reports, NEW force \in BOOLEAN, QueueAgain(r, force)
    PROVE  OutboxInv'
<1> USE DEF OutboxInv
<1>1. r \in DOMAIN kept /\ DOMAIN outbox = DOMAIN kept /\ clock \in Nat
    BY FeedbackAssumption DEF QueueAgain, FBTypeOK
<1> DEFINE again == [outbox[r] EXCEPT !.status = "pending", !.next = clock, !.locked = Never]
<1>2. again \in MailRow /\ again.status = "pending" /\ again.next = clock
    BY <1>1, RowTypes DEF MailRow
<1> HIDE DEF again
<1>3. outbox' = outbox \/ outbox' = [outbox EXCEPT ![r] = again]
    BY DEF QueueAgain, again
<1>4. /\ outbox' \in [DOMAIN kept -> MailRow]
      /\ \A q \in DOMAIN kept : outbox'[q] = outbox[q] \/ outbox'[q] = again
    BY <1>1, <1>2, <1>3 DEF FBTypeOK
<1>5. MailsMove
    <2>1. forced' \in 0..MaxForce
        BY FeedbackAssumption DEF QueueAgain, FBTypeOK
    <2>2. mailed' \subseteq Reports
        BY DEF QueueAgain, FBTypeOK
    <2>3. job' \in [Mailers -> Job]
        BY DEF QueueAgain, FBTypeOK, Job
    <2> QED BY <1>4, <2>1, <2>2, <2>3 DEF MailsMove, QueueAgain
<1>6. clock <= clock + DAY
    BY <1>1, FeedbackAssumption
<1>7. MailersHaveRows' /\ NeverStranded'
    BY <1>2, <1>4, <1>5, <1>6 DEF MailersHaveRows, NeverStranded, QueueAgain, MailsMove, FBTypeOK
<1> QED BY <1>5, <1>7, MailsKeep

\* What has expired goes, from every table.
LEMMA CleanupKeeps ==
    ASSUME OutboxInv, Cleanup
    PROVE  OutboxInv'
<1> USE DEF OutboxInv
<1> DEFINE live == {q \in DOMAIN kept : kept[q] > clock}
<1>1. /\ DOMAIN kept' = live /\ live \subseteq DOMAIN kept /\ kept' \in [live -> Nat]
      /\ outbox' \in [live -> MailRow] /\ \A r \in live : outbox'[r] = outbox[r]
      /\ dedupe' \subseteq dedupe
      /\ UNCHANGED <<clock, requestVars, job, mailed, forced>>
    BY DEF Cleanup, FBTypeOK
<1> HIDE DEF live
<1>2. FBTypeOK' /\ MailersHaveRows'
    BY <1>1 DEF FBTypeOK, requestVars, MailersHaveRows
<1>3. Accounted'
    <2>1. IsFiniteSet(DOMAIN kept')
        BY <1>1, FS_Subset DEF Accounted
    <2> QED BY <1>1, <2>1 DEF Accounted, requestVars
<1>4. TwinsTakeTurns' /\ LookedUp' /\ TwinsSuppressed'
    BY <1>1 DEF TwinsTakeTurns, LookedUp, TwinsSuppressed, requestVars, SameTriple
<1>5. NeverStranded'
    BY <1>1 DEF NeverStranded, FBTypeOK
<1> QED BY <1>2, <1>3, <1>4, <1>5

\* Time only brings what is due closer.
LEMMA TickKeeps ==
    ASSUME OutboxInv, Tick
    PROVE  OutboxInv'
<1> USE DEF OutboxInv
<1>1. /\ clock' = clock + 1 /\ clock' \in 0..MaxClock /\ clock \in Nat
      /\ UNCHANGED <<requestVars, storeVars, job, mailed, forced>>
    BY FeedbackAssumption DEF Tick, FBTypeOK
<1>2. FBTypeOK' /\ MailersHaveRows'
    BY <1>1 DEF FBTypeOK, requestVars, storeVars, MailersHaveRows
<1>3. \A r \in Reports : since[r] <= clock'
    BY <1>1, FeedbackAssumption DEF Accounted, FBTypeOK
<1>4. Accounted' /\ TwinsTakeTurns' /\ LookedUp' /\ TwinsSuppressed'
    BY <1>1, <1>3 DEF Accounted, TwinsTakeTurns, LookedUp, TwinsSuppressed, requestVars, storeVars,
       SameTriple
<1>5. NeverStranded'
    <2> SUFFICES ASSUME NEW r \in DOMAIN kept
                 PROVE  /\ outbox[r].status \in {"pending", "retry"} => outbox[r].next <= clock' + DAY
                        /\ outbox[r].status = "sending" => outbox[r].locked <= clock' + LEASE
        BY <1>1 DEF NeverStranded, storeVars, FBTypeOK
    <2>1. outbox[r].next \in Nat /\ outbox[r].locked \in Nat /\ r \in DOMAIN outbox
        BY DEF FBTypeOK, MailRow
    <2> QED BY <1>1, <2>1, FeedbackAssumption DEF NeverStranded
<1> QED BY <1>2, <1>4, <1>5

-----------------------------------------------------------------------------
(* The theorems.                                                           *)

\* public_store.py 840-1295: the invariant, for any number of reports and mailers.
THEOREM FeedbackIsAccounted == FBSpec => []OutboxInv
<1>1. FBInit => OutboxInv
    <2> SUFFICES ASSUME FBInit
                 PROVE  OutboxInv
        OBVIOUS
    <2>1. DOMAIN kept = {} /\ kept = <<>> /\ outbox = <<>> /\ IsFiniteSet({})
        BY FS_EmptySet DEF FBInit
    <2>2. NoJob \in Job /\ NoJob.step = "idle" /\ NoJob.rows = <<>>
        BY DEF NoJob, Job
    <2>3. FBTypeOK
        BY <2>1, <2>2, FeedbackAssumption DEF FBInit, FBTypeOK, Job, Steps
    <2>4. Accounted /\ MailersHaveRows /\ TwinsTakeTurns /\ LookedUp /\ TwinsSuppressed /\ NeverStranded
        BY <2>1, <2>2 DEF FBInit, Accounted, MailersHaveRows, TwinsTakeTurns, LookedUp,
           TwinsSuppressed, NeverStranded
    <2> QED BY <2>3, <2>4 DEF OutboxInv
<1>2. OutboxInv /\ [FBNext]_fbVars => OutboxInv'
    <2>1. OutboxInv /\ UNCHANGED fbVars => OutboxInv'
        BY DEF fbVars, OutboxInv, FBTypeOK, Accounted, MailersHaveRows, TwinsTakeTurns, LookedUp,
           TwinsSuppressed, NeverStranded, SameTriple
    <2>2. OutboxInv /\ FBNext => OutboxInv'
        BY RequestsKeep, CommitKeeps, ClaimMailsKeeps, SendKeeps, MarksKeep, AbandonKeeps,
           QueueAgainKeeps, CleanupKeeps, TickKeeps DEF FBNext
    <2> QED BY <2>1, <2>2
<1> QED BY <1>1, <1>2, PTL DEF FBSpec

\* public_store.py 853-888: the lock joins the look-up and the insertion, so of
\* twins the second is refused while the first counts.
THEOREM TwinsAreSuppressed == FBSpec => []TwinsSuppressed
<1>1. OutboxInv => TwinsSuppressed
    BY DEF OutboxInv
<1> QED BY <1>1, FeedbackIsAccounted, PTL

\* compose.prod.yml 111-145: one mailer is at work at a time.
OneMailer == \A m, w \in Mailers : m = w

\* What the mailer has in hand was stored, each row once, and nobody else marks
\* it: its row is as the claim left it, or gone.  What it is to mark as sent has
\* left.
InHand ==
    \A m \in Mailers :
        /\ \A i \in DOMAIN job[m].rows :
             LET r == job[m].rows[i].report
             IN  pc[r] = "stored" /\ (r \in DOMAIN outbox => outbox[r].status = "sending")
        /\ \A i, j \in DOMAIN job[m].rows :
             job[m].rows[i].report = job[m].rows[j].report => i = j
        /\ job[m].step = "sent" => job[m].rows[1].report \in mailed

MailInv == InHand /\ SentMeansMailed

\* A step that leaves the jobs alone, and the rows they are about.
LEMMA HandsKeep ==
    ASSUME OutboxInv, MailInv, UNCHANGED job, 
           \A r \in Reports : pc[r] = "stored" => pc'[r] = "stored",
           \A r \in DOMAIN outbox' : \/ r \in DOMAIN outbox /\ outbox'[r] = outbox[r]
                                     \/ outbox'[r].status # "sent" /\ pc[r] # "stored"
                                     \/ /\ r \in DOMAIN outbox /\ outbox[r].status = "sent"
                                        /\ outbox'[r].status # "sent",
           \A r \in mailed \ mailed' : r \in DOMAIN outbox /\ outbox[r].status = "sent"
                                         /\ (r \in DOMAIN outbox' => outbox'[r].status # "sent")
    PROVE  MailInv'
<1>1. job \in [Mailers -> Job]
    BY DEF OutboxInv, FBTypeOK, Job
<1>2. ASSUME NEW m \in Mailers, NEW i \in DOMAIN job[m].rows
      PROVE  LET r == job[m].rows[i].report
             IN  /\ r \in Reports /\ pc'[r] = "stored"
                 /\ r \in DOMAIN outbox' => outbox'[r].status = "sending"
    <2> DEFINE r == job[m].rows[i].report
    <2>1. job[m].rows \in Seq([report : Reports, attempts : 1..MaxAttempts])
        BY <1>1 DEF Job
    <2>2. r \in Reports
        <3> DEFINE R == [report : Reports, attempts : 1..MaxAttempts]
        <3> HIDE DEF R
        <3>1. job[m].rows \in Seq(R)
            BY <2>1 DEF R
        <3>2. job[m].rows[i] \in R
            BY <3>1
        <3> QED BY <3>2 DEF R
    <2>3. pc[r] = "stored" /\ (r \in DOMAIN outbox => outbox[r].status = "sending")
        BY DEF MailInv, InHand
    <2> HIDE DEF r
    <2>4. pc'[r] = "stored" /\ (r \in DOMAIN outbox' => outbox'[r].status = "sending")
        BY <2>2, <2>3
    <2> QED BY <2>2, <2>4 DEF r
<1>3. ASSUME NEW m \in Mailers, job[m].step = "sent"
      PROVE  job[m].rows[1].report \in mailed'
    <2>1. job[m].rows \in Seq([report : Reports, attempts : 1..MaxAttempts]) /\ job[m].rows # <<>>
        BY <1>1, <1>3 DEF Job, OutboxInv, MailersHaveRows
    <2>2. 1 \in DOMAIN job[m].rows
        BY <2>1
    <2>3. job[m].rows[1].report \in mailed
        BY <1>3 DEF MailInv, InHand
    <2>4. job[m].rows[1].report \in DOMAIN outbox => outbox[job[m].rows[1].report].status = "sending"
        BY <2>2 DEF MailInv, InHand
    <2> QED BY <2>3, <2>4
<1>4. InHand'
    BY <1>2, <1>3 DEF MailInv, InHand
<1>5. SentMeansMailed'
    BY DEF MailInv, SentMeansMailed
<1> QED BY <1>4, <1>5 DEF MailInv

\* A claim takes its rows to "sending"; they are the only ones in hand.
LEMMA ClaimHolds ==
    ASSUME OutboxInv, MailInv, OneMailer, NEW m \in Mailers, ClaimMails(m)
    PROVE  MailInv'
<1>1. PICK batch \in Batches :
        /\ outbox' = [r \in DOMAIN outbox |->
              IF \E i \in DOMAIN batch : batch[i] = r THEN Claimed(outbox[r]) ELSE outbox[r]]
        /\ job' = [job EXCEPT ![m] =
              [rows |-> [i \in DOMAIN batch |->
                           [report |-> batch[i], attempts |-> outbox[batch[i]].attempts + 1]],
               step |-> "send"]]
    BY DEF ClaimMails
<1>2. /\ batch \in Seq(DOMAIN kept) /\ \A i, j \in DOMAIN batch : i # j => batch[i] # batch[j]
      /\ FBTypeOK /\ Accounted
    BY BatchIsDue DEF OutboxInv, Accounted
<1>3. \A i \in DOMAIN batch : batch[i] \in DOMAIN outbox /\ pc[batch[i]] = "stored"
    BY <1>2 DEF FBTypeOK, Accounted
<1>4. \A r \in DOMAIN outbox : Claimed(outbox[r]).status = "sending"
    BY <1>2 DEF FBTypeOK, MailRow, Claimed
<1>5. /\ DOMAIN job'[m].rows = DOMAIN batch /\ job'[m].step = "send"
      /\ \A i \in DOMAIN batch : job'[m].rows[i].report = batch[i]
    BY <1>1, <1>2 DEF FBTypeOK
<1>6. \A i \in DOMAIN batch : outbox'[batch[i]].status = "sending"
    BY <1>1, <1>3, <1>4
<1>7. pc' = pc /\ mailed' = mailed /\ DOMAIN outbox' = DOMAIN outbox
    BY <1>1 DEF ClaimMails, requestVars
<1>8. InHand'
    <2> SUFFICES ASSUME NEW w \in Mailers
                 PROVE  /\ \A i \in DOMAIN job'[w].rows :
                             LET r == job'[w].rows[i].report
                             IN  pc'[r] = "stored" /\ (r \in DOMAIN outbox' => outbox'[r].status = "sending")
                        /\ \A i, j \in DOMAIN job'[w].rows :
                             job'[w].rows[i].report = job'[w].rows[j].report => i = j
                        /\ job'[w].step = "sent" => job'[w].rows[1].report \in mailed'
        BY DEF InHand
    <2>1. w = m
        BY DEF OneMailer
    <2> QED BY <1>2, <1>3, <1>5, <1>6, <1>7, <2>1
<1>9. SentMeansMailed'
    BY <1>1, <1>4, <1>7 DEF MailInv, SentMeansMailed
<1> QED BY <1>8, <1>9 DEF MailInv

\* A mail that has left is recorded as such before its row is marked.
LEMMA SendHolds ==
    ASSUME OutboxInv, MailInv, NEW m \in Mailers, Send(m)
    PROVE  MailInv'
<1>1. job \in [Mailers -> Job] /\ job[m].step = "send" /\ job[m].rows # <<>>
    BY DEF OutboxInv, FBTypeOK, Job, Send, MailersHaveRows
<1>2. Head(job[m].rows) = job[m].rows[1]
    <2>1. job[m].rows \in Seq([report : Reports, attempts : 1..MaxAttempts])
        BY <1>1 DEF Job
    <2> QED BY <1>1, <2>1
<1>3. /\ \A w \in Mailers : job'[w].rows = job[w].rows /\ (w # m => job'[w].step = job[w].step)
      /\ job'[m].step = "sent" => mailed' = mailed \union {job[m].rows[1].report}
      /\ mailed \subseteq mailed' /\ UNCHANGED <<pc, outbox>>
    BY <1>1, <1>2 DEF Send, Job, requestVars, storeVars
<1> QED BY <1>3 DEF MailInv, InHand, SentMeansMailed

\* A mark ends the row at the head, and no other row in hand is that row.
LEMMA MarkHolds ==
    ASSUME OutboxInv, MailInv, OneMailer, NEW m \in Mailers, MarkSent(m) \/ MarkRetry(m)
    PROVE  MailInv'
<1>1. job \in [Mailers -> Job] /\ job[m].rows # <<>> /\ job' = NextRow(m)
    BY DEF OutboxInv, FBTypeOK, Job, MarkSent, MarkRetry, MailersHaveRows
<1>2. job'[m].rows = Tail(job[m].rows) /\ job'[m].step \in {"idle", "send"}
    BY <1>1, NextRowTypes DEF OutboxInv
<1> DEFINE rows == job[m].rows
           R == [report : Reports, attempts : 1..MaxAttempts]
<1>3. rows \in Seq(R) /\ rows # <<>>
    BY <1>1 DEF Job
<1> HIDE DEF R
<1>4. Head(rows) = rows[1] /\ 1 \in DOMAIN rows
    BY <1>3
<1>5. \A i \in DOMAIN Tail(rows) : i + 1 \in DOMAIN rows /\ i + 1 # 1 /\ Tail(rows)[i] = rows[i + 1]
    BY <1>3
<1>6. \A i, j \in DOMAIN Tail(rows) : i + 1 = j + 1 => i = j
    BY <1>3
<1>7. UNCHANGED <<pc, mailed>> /\ DOMAIN outbox' = DOMAIN outbox
    BY DEF MarkSent, MarkRetry, requestVars
<1> DEFINE q == rows[1].report
<1>8. \A r \in DOMAIN outbox : r # q => outbox'[r] = outbox[r]
    BY <1>4 DEF MarkSent, MarkRetry
<1>9. q \in DOMAIN outbox => outbox'[q].status # "sent" \/ q \in mailed
    <2>1. CASE MarkSent(m)
        BY <2>1 DEF MarkSent, MailInv, InHand
    <2>2. CASE MarkRetry(m) /\ q \in DOMAIN outbox
        <3>1. outbox[q] \in MailRow
            BY <2>2 DEF OutboxInv, FBTypeOK
        <3> QED BY <1>4, <2>2, <3>1 DEF MarkRetry, MailRow
    <2> QED BY <2>1, <2>2
<1>10. \A i \in DOMAIN rows :
          /\ pc[rows[i].report] = "stored"
          /\ rows[i].report \in DOMAIN outbox => outbox[rows[i].report].status = "sending"
          /\ \A j \in DOMAIN rows : rows[i].report = rows[j].report => i = j
    BY DEF MailInv, InHand
<1>11. InHand'
    <2>1. \A w \in Mailers : w = m
        BY DEF OneMailer
    <2> HIDE DEF rows
    <2>2. \A i \in DOMAIN Tail(rows) :
            LET r == Tail(rows)[i].report
            IN  pc'[r] = "stored" /\ (r \in DOMAIN outbox' => outbox'[r].status = "sending")
        BY <1>4, <1>5, <1>7, <1>8, <1>10
    <2>3. \A i, j \in DOMAIN Tail(rows) : Tail(rows)[i].report = Tail(rows)[j].report => i = j
        BY <1>5, <1>6, <1>10
    <2> QED BY <1>2, <2>1, <2>2, <2>3 DEF InHand, rows
<1>12. SentMeansMailed'
    BY <1>7, <1>8, <1>9 DEF MailInv, SentMeansMailed
<1> QED BY <1>11, <1>12 DEF MailInv

LEMMA AbandonHolds ==
    ASSUME OutboxInv, MailInv, NEW m \in Mailers, Abandon(m)
    PROVE  MailInv'
<1>1. /\ job'[m].rows = <<>> /\ job'[m].step = "idle"
      /\ \A w \in Mailers : w # m => job'[w] = job[w]
      /\ UNCHANGED <<pc, outbox, mailed>>
    BY DEF Abandon, OutboxInv, FBTypeOK, NoJob, requestVars, storeVars
<1>2. DOMAIN <<>> = {}
    OBVIOUS
<1> QED BY <1>1, <1>2 DEF MailInv, InHand, SentMeansMailed

\* The steps that leave the mailers alone.
LEMMA OthersHold ==
    ASSUME OutboxInv, MailInv,
           \/ \E r \in Reports :
                 \/ Attempt(r) \/ Verify(r) \/ ConsumeLimits(r) \/ InsertLookUp(r) \/ InsertCommit(r)
                 \/ \E force \in BOOLEAN : QueueAgain(r, force)
           \/ Cleanup \/ Tick
    PROVE  MailInv'
<1> USE DEF OutboxInv
<1>1. ASSUME NEW r \in Reports,
             Attempt(r) \/ Verify(r) \/ ConsumeLimits(r) \/ InsertLookUp(r)
      PROVE  MailInv'
    BY <1>1, HandsKeep DEF Attempt, Verify, ConsumeLimits, InsertLookUp, storeVars, FBTypeOK
<1>2. ASSUME NEW r \in Reports, InsertCommit(r)
      PROVE  MailInv'
    <2>1. /\ UNCHANGED <<job, mailed>> /\ pc[r] = "inserting"
          /\ \A q \in Reports : pc[q] = "stored" => pc'[q] = "stored"
          /\ DOMAIN outbox' = DOMAIN outbox \union {r}
          /\ \A q \in DOMAIN outbox : q # r => outbox'[q] = outbox[q]
          /\ outbox'[r].status = "pending"
        BY <1>2 DEF InsertCommit, FBTypeOK, FirstMail
    <2> QED BY <2>1, HandsKeep
<1>3. ASSUME NEW r \in Reports, NEW force \in BOOLEAN, QueueAgain(r, force)
      PROVE  MailInv'
    <2>1. CASE outbox[r].status = "sent" /\ force
        <3>1. r \in DOMAIN outbox /\ outbox[r] \in MailRow
            BY <1>3 DEF QueueAgain, FBTypeOK
        <3>2. /\ UNCHANGED <<job, pc>> /\ mailed' = mailed \ {r} /\ DOMAIN outbox' = DOMAIN outbox
              /\ \A q \in DOMAIN outbox : q # r => outbox'[q] = outbox[q]
              /\ outbox'[r].status = "pending"
            BY <1>3, <2>1, <3>1 DEF QueueAgain, requestVars, MailRow
        <3> QED BY <2>1, <3>1, <3>2, HandsKeep
    <2>2. CASE ~(outbox[r].status = "sent" /\ force)
        BY <1>3, <2>2, HandsKeep DEF QueueAgain, requestVars
    <2> QED BY <2>1, <2>2
<1>4. ASSUME Cleanup
      PROVE  MailInv'
    <2>1. /\ UNCHANGED <<job, mailed, pc>> /\ DOMAIN outbox' \subseteq DOMAIN outbox
          /\ \A r \in DOMAIN outbox' : outbox'[r] = outbox[r]
        BY <1>4 DEF Cleanup, requestVars, FBTypeOK
    <2> QED BY <2>1, HandsKeep
<1>5. ASSUME Tick
      PROVE  MailInv'
    BY <1>5, HandsKeep DEF Tick, requestVars, storeVars
<1> QED BY <1>1, <1>2, <1>3, <1>4, <1>5

\* public_store.py 955-1142, feedback_mailer.py 88-105: with one mailer, a mail
\* marked as sent has left since it was queued, and any other comes due again.
THEOREM NoMailIsLost == ASSUME OneMailer PROVE FBSpec => []MailIsKept
<1>1. FBInit => MailInv
    BY DEF FBInit, MailInv, InHand, SentMeansMailed, NoJob
<1>2. OutboxInv /\ MailInv /\ [FBNext]_fbVars => MailInv'
    <2>1. OutboxInv /\ MailInv /\ UNCHANGED fbVars => MailInv'
        BY DEF fbVars, MailInv, InHand, SentMeansMailed
    <2>2. OutboxInv /\ MailInv /\ FBNext => MailInv'
        BY ClaimHolds, SendHolds, MarkHolds, AbandonHolds, OthersHold DEF FBNext
    <2> QED BY <2>1, <2>2
<1>3. OutboxInv /\ MailInv => MailIsKept
    BY DEF OutboxInv, MailInv, MailIsKept
<1> QED BY <1>1, <1>2, <1>3, FeedbackIsAccounted, PTL DEF FBSpec

=============================================================================
