---------------------------- MODULE RequestStore ----------------------------
(***************************************************************************)
(* The idempotency table of the public API (public_request_cache), the     *)
(* leases of the processes that own its unfinished rows                    *)
(* (public_request_leases) and the confirmed content of unfinished rows    *)
(* (public_request_blocks).  Any number of worker processes call it; each  *)
(* operation is one database transaction and is one action here.  An       *)
(* operation that raises rolls its transaction back, so it is no step.     *)
(*                                                                         *)
(* The application's clock is compared and written, never the database's.  *)
(* Some operations read it before they wait for a pooled connection, so    *)
(* they run with a reading up to MaxLag old; the others read it inside     *)
(* the transaction.                                                        *)
(***************************************************************************)
EXTENDS RequestData

CONSTANTS
    Request,       \* request UUIDs
    Subject,       \* subject hashes: who asks
    Hash,          \* request hashes: what is asked
    Worker,        \* owner tokens, one per process
    LeaseTime,     \* life of a lease after a claim or renewal (45 s)
    ResultTime,    \* life of a completed row (10 minutes)
    ClaimTime,     \* life of an unfinished row (1 day)
    MaxLag,        \* age of a clock reading at its use (2 s connection wait)
    MaxClock,      \* bound of the model's clock
    NoRow, NoLease

ASSUME TimeAssumption ==
    /\ {LeaseTime, ResultTime, ClaimTime, MaxLag, MaxClock} \subseteq Nat
    /\ MaxLag < LeaseTime
    /\ LeaseTime < ResultTime
    /\ ResultTime < ClaimTime

VARIABLES
    clock,    \* the workers' common clock
    cache,    \* public_request_cache, NoRow where there is no row
    lease,    \* public_request_leases
    blocks    \* public_request_blocks of each request, by sequence number

vars == <<clock, cache, lease, blocks>>

-----------------------------------------------------------------------------

Row == [subject : Subject, hash : Hash, status : {"processing", "completed"},
        response : Response, expires : Nat]

Lease == [owner : Worker, until : Nat]

ASSUME AbsenceAssumption == NoRow \notin Row /\ NoLease \notin Lease

TypeOK ==
    /\ clock \in Nat
    /\ cache \in [Request -> Row \cup {NoRow}]
    /\ lease \in [Request -> Lease \cup {NoLease}]
    /\ blocks \in [Request -> BlockSeq]

Init ==
    /\ clock = 0
    /\ cache = [r \in Request |-> NoRow]
    /\ lease = [r \in Request |-> NoLease]
    /\ blocks = [r \in Request |-> <<>>]

-----------------------------------------------------------------------------

Processing(r) == cache[r] # NoRow /\ cache[r].status = "processing"
Completed(r)  == cache[r] # NoRow /\ cache[r].status = "completed"

LeaseExpired(r, now) == lease[r] # NoLease /\ lease[r].until <= now
RowExpired(r, now)   == cache[r] # NoRow /\ cache[r].expires <= now

\* Mutation of Owns: the owner is compared, the expiry of its lease is not.
OwnsForEver(w, r, now) == lease[r] # NoLease /\ lease[r].owner = w

\* The worker holds an unexpired lease of the request.
Owns(w, r, now) ==
    lease[r] # NoLease /\ lease[r].owner = w /\ lease[r].until > now

\* A clock reading taken at most MaxLag ago.
Reading == {now \in 0..clock : clock <= now + MaxLag}

\* The row with its terminal response, kept until expires.
Ended(row, response, expires) ==
    [row EXCEPT !.status = "completed", !.response = response, !.expires = expires]

\* Mutation of RecoveredCache: the expired leases go, their rows stay.
RecoveredCacheSkipped(now) == cache

\* _recover_expired: every unfinished row whose lease has expired becomes a
\* terminal interruption, and expired leases go.  The row keeps its expiry.
RecoveredCache(now) ==
    [r \in Request |->
        IF Processing(r) /\ LeaseExpired(r, now)
        THEN Ended(cache[r], Interrupted, cache[r].expires)
        ELSE cache[r]]

RecoveredLease(now) ==
    [r \in Request |-> IF LeaseExpired(r, now) THEN NoLease ELSE lease[r]]

\* claim_request: reconcile, delete what has expired, then insert if absent.
Claimable(r, now) == cache[r] = NoRow \/ RowExpired(r, now)

NewRow(s, h, now) ==
    [subject |-> s, hash |-> h, status |-> "processing",
     response |-> NoResponse, expires |-> now + ClaimTime]

ClaimRequest(w, r, s, h, now) ==
    /\ cache' = [q \in Request |->
                    IF q = r /\ Claimable(r, now) THEN NewRow(s, h, now)
                    ELSE IF RowExpired(q, now) THEN NoRow
                    ELSE RecoveredCache(now)[q]]
    /\ lease' = [q \in Request |->
                    IF q = r /\ Claimable(r, now)
                    THEN [owner |-> w, until |-> now + LeaseTime]
                    ELSE IF RowExpired(q, now) THEN NoLease
                    ELSE RecoveredLease(now)[q]]
    /\ blocks' = [q \in Request |-> IF RowExpired(q, now) THEN <<>> ELSE blocks[q]]
    /\ UNCHANGED clock

\* recover_expired_requests: the reconciliation alone, before a rollback.
RecoverExpiredRequests ==
    /\ cache' = RecoveredCache(clock)
    /\ lease' = RecoveredLease(clock)
    /\ UNCHANGED <<clock, blocks>>

\* renew_leases: reconcile first, so a lease that has expired is not revived.
RenewLeases(w, live, now) ==
    /\ cache' = RecoveredCache(now)
    /\ lease' = [r \in Request |->
                    IF r \in live /\ lease[r] # NoLease /\ lease[r].owner = w
                       /\ ~LeaseExpired(r, now)
                    THEN [owner |-> w, until |-> now + LeaseTime]
                    ELSE RecoveredLease(now)[r]]
    /\ UNCHANGED <<clock, blocks>>

\* interrupt_owned_requests: end every lease of the worker and reconcile.
InterruptOwnedRequests(w) ==
    LET ended(r) == lease[r] # NoLease /\ lease[r].owner = w
    IN  /\ cache' = [r \in Request |->
                        IF ended(r) /\ Processing(r)
                        THEN Ended(cache[r], Interrupted, cache[r].expires)
                        ELSE RecoveredCache(clock)[r]]
        /\ lease' = [r \in Request |->
                        IF ended(r) THEN NoLease ELSE RecoveredLease(clock)[r]]
        /\ UNCHANGED <<clock, blocks>>

\* Mutation of CommitRequestBlocks: neither status nor owner is checked.
CommitUnowned(w, r, s, bs) ==
    /\ cache[r] # NoRow /\ cache[r].subject = s
    /\ ~RowExpired(r, clock) /\ Extends(bs, blocks[r])
    /\ blocks' = [blocks EXCEPT ![r] = bs]
    /\ UNCHANGED <<clock, cache, lease>>

\* commit_request_blocks: the cumulative prefix bs replaces nothing that has
\* been confirmed.
CommitRequestBlocks(w, r, s, bs) ==
    /\ Processing(r)
    /\ cache[r].subject = s
    /\ ~RowExpired(r, clock)
    /\ Owns(w, r, clock)
    /\ Extends(bs, blocks[r])
    /\ blocks' = [blocks EXCEPT ![r] = bs]
    /\ UNCHANGED <<clock, cache, lease>>

\* Mutation of CompleteRequest: the confirmed prefix is not compared.
CompleteDiverging(w, r, response) ==
    /\ Processing(r) /\ ~RowExpired(r, clock) /\ Owns(w, r, clock)
    /\ cache' = [RecoveredCache(clock) EXCEPT
                    ![r] = Ended(cache[r], response, clock + ResultTime)]
    /\ lease' = [RecoveredLease(clock) EXCEPT ![r] = NoLease]
    /\ UNCHANGED <<clock, blocks>>

\* complete_request: reconcile, check the confirmed prefix, settle the row and
\* drop its lease.
CompleteRequest(w, r, response) ==
    /\ Keeps(response, blocks[r])
    /\ Processing(r)
    /\ ~RowExpired(r, clock)
    /\ Owns(w, r, clock)
    /\ cache' = [RecoveredCache(clock) EXCEPT
                    ![r] = Ended(cache[r], response, clock + ResultTime)]
    /\ lease' = [RecoveredLease(clock) EXCEPT ![r] = NoLease]
    /\ UNCHANGED <<clock, blocks>>

\* release_request: the row of a claim that never generated disappears.  The
\* owner is checked, the expiry of its lease is not.
ReleaseRequest(w, r) ==
    /\ Processing(r)
    /\ lease[r] # NoLease /\ lease[r].owner = w
    /\ cache' = [cache EXCEPT ![r] = NoRow]
    /\ lease' = [lease EXCEPT ![r] = NoLease]
    /\ blocks' = [blocks EXCEPT ![r] = <<>>]
    /\ UNCHANGED clock

\* cleanup: expired rows with their leases and blocks.
Cleanup(now) ==
    /\ cache' = [r \in Request |-> IF RowExpired(r, now) THEN NoRow ELSE cache[r]]
    /\ lease' = [r \in Request |-> IF RowExpired(r, now) THEN NoLease ELSE lease[r]]
    /\ blocks' = [r \in Request |-> IF RowExpired(r, now) THEN <<>> ELSE blocks[r]]
    /\ UNCHANGED clock

Tick == /\ clock < MaxClock
        /\ clock' = clock + 1
        /\ UNCHANGED <<cache, lease, blocks>>

-----------------------------------------------------------------------------

Next ==
    \/ \E w \in Worker, r \in Request, s \in Subject, h \in Hash, now \in Reading :
          ClaimRequest(w, r, s, h, now)
    \/ RecoverExpiredRequests
    \/ \E w \in Worker, live \in SUBSET Request, now \in Reading :
          RenewLeases(w, live, now)
    \/ \E w \in Worker : InterruptOwnedRequests(w)
    \/ \E w \in Worker, r \in Request, s \in Subject, bs \in BlockSeq :
          CommitRequestBlocks(w, r, s, bs)
    \/ \E w \in Worker, r \in Request, response \in OwnerResponse :
          CompleteRequest(w, r, response)
    \/ \E w \in Worker, r \in Request : ReleaseRequest(w, r)
    \/ \E now \in Reading : Cleanup(now)
    \/ Tick

Spec == Init /\ [][Next]_vars

-----------------------------------------------------------------------------

\* What lookup_request answers the subject s about the body h: a read that
\* already reports as interrupted what no operation has reconciled yet.
Missing  == [kind |-> "missing", blocks |-> <<>>]
Conflict == [kind |-> "conflict", blocks |-> <<>>]
Waiting  == [kind |-> "processing", blocks |-> <<>>]

Lookup(r, s, h) ==
    IF cache[r] = NoRow THEN Missing
    ELSE IF cache[r].subject # s \/ cache[r].hash # h THEN Conflict
    ELSE IF RowExpired(r, clock) THEN Missing
    ELSE IF Completed(r) THEN cache[r].response
    ELSE IF LeaseExpired(r, clock) THEN Interrupted
    ELSE Waiting

-----------------------------------------------------------------------------
(* Properties.                                                             *)

\* Every unfinished row has a lease, so the loss of its owner is always
\* noticed; a settled or absent row has none, so no owner can write to it;
\* and confirmed blocks never outlive their row.
LeaseCoversProcessing ==
    \A r \in Request :
        /\ Processing(r) <=> lease[r] # NoLease
        /\ cache[r] = NoRow => blocks[r] = <<>>

\* However often it was renewed, an unfinished claim is at most LeaseTime
\* (45 s) away from becoming a terminal interruption once renewals stop.
RecoveryHorizon ==
    \A r \in Request :
        Processing(r) => lease[r].until <= clock + LeaseTime

\* What a browser has been shown as confirmed is the beginning of the answer
\* the table finally stores.
AnswerKeepsConfirmed ==
    \A r \in Request : Completed(r) => Keeps(cache[r].response, blocks[r])

\* A new row for r, with nothing confirmed.
Reclaimed(r) ==
    /\ Claimable(r, clock)
    /\ Processing(r)' /\ blocks'[r] = <<>>

\* A terminal result is written once: until the row expires nothing replaces
\* or removes it, whoever calls whatever.
TerminalIsFinal ==
    [][\A r \in Request :
          Completed(r) /\ ~RowExpired(r, clock) => cache'[r] = cache[r]]_vars

\* Confirmed blocks are never changed or withdrawn while their row lives;
\* only releasing the whole claim or its expiry removes them.
ConfirmedPrefixStands ==
    [][\A r \in Request :
          \/ Extends(blocks'[r], blocks[r])
          \/ cache'[r] = NoRow
          \/ Reclaimed(r)]_vars

\* An unfinished row is never taken over: while it lives no claim by another
\* process, however late, gives its lease a second owner.
OneOwnerPerClaim ==
    [][\A r \in Request :
          lease[r] # NoLease /\ lease'[r] # NoLease /\ ~RowExpired(r, clock)
             => lease'[r].owner = lease[r].owner]_vars

\* A lookup that reported a terminal result more than MaxLag after the fact
\* is never contradicted: the result stays, or the row is gone.  (Within
\* MaxLag a renewal whose clock was read before the expiry may still revive
\* the lease, see RenewLeases.)
Final(r, answer) ==
    /\ answer \in Response
    /\ lease[r] # NoLease => lease[r].until + MaxLag <= clock

ObservationStands ==
    [][\A r \in Request, s \in Subject, h \in Hash :
          LET answer == Lookup(r, s, h)
          IN  Final(r, answer) => Lookup(r, s, h)' \in {answer, Missing}]_vars

\* RequestLedger is what remains of this module without time and owners.
Entry(r) ==
    IF cache[r] = NoRow THEN [state |-> "free", shown |-> <<>>, response |-> NoResponse]
    ELSE [state |-> IF Completed(r) THEN "settled" ELSE "pending",
          shown |-> blocks[r], response |-> cache[r].response]

Ledger == INSTANCE RequestLedger WITH ledger <- [r \in Request |-> Entry(r)]

ImplementsLedger == Ledger!Spec

=============================================================================
