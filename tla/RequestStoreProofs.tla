------------------------- MODULE RequestStoreProofs -------------------------
(***************************************************************************)
(* Proofs about RequestStore for every set of requests, workers, subjects, *)
(* bodies and blocks and every choice of the times.                        *)
(***************************************************************************)
EXTENDS RequestStore, TLAPS

(***************************************************************************)
(* Two facts the safety invariants lean on: an unfinished row holds no     *)
(* response, and a finished one holds one an owner or the reconciliation   *)
(* wrote.                                                                  *)
(***************************************************************************)
ResponseMatchesStatus ==
    \A r \in Request :
        /\ Processing(r) => cache[r].response = NoResponse
        /\ Completed(r) => cache[r].response \in OwnerResponse \cup {Interrupted}

IInv == /\ TypeOK
        /\ LeaseCoversProcessing
        /\ RecoveryHorizon
        /\ AnswerKeepsConfirmed
        /\ ResponseMatchesStatus

-----------------------------------------------------------------------------
(* Lemmas about the stored values.                                         *)

\* Every clock value and every reading of the clock is a natural number.
LEMMA TimesAreNat ==
    /\ LeaseTime \in Nat /\ ResultTime \in Nat /\ ClaimTime \in Nat
    /\ MaxLag \in Nat /\ MaxClock \in Nat
BY TimeAssumption

\* Nothing confirmed yet is a legal content.
LEMMA EmptyIsBlockSeq == <<>> \in BlockSeq
<1>1. <<>> \in [1..0 -> Block]
    OBVIOUS
<1>2. 0 \in 0..MaxBlocks
    BY MaxBlocksAssumption
<1> QED BY <1>1, <1>2 DEF BlockSeq

\* An error or an interruption never contradicts confirmed content.
LEMMA InterruptionKeeps == ASSUME NEW bs PROVE Keeps(Interrupted, bs)
BY DEF Keeps, Interrupted

\* A reading of the clock is a natural number no later than the clock.
LEMMA ReadingIsPast ==
    ASSUME TypeOK, NEW now \in Reading
    PROVE  now \in Nat /\ now <= clock
BY DEF Reading, TypeOK

\* A row that was settled is a row, with the status and response it was given.
LEMMA EndedRow ==
    ASSUME NEW row \in Row, NEW response \in Response, NEW n \in Nat
    PROVE  /\ Ended(row, response, n) \in Row
           /\ Ended(row, response, n) # NoRow
           /\ Ended(row, response, n).status = "completed"
           /\ Ended(row, response, n).response = response
<1>1. Ended(row, response, n) \in Row
    BY DEF Ended, Row
<1>2. /\ Ended(row, response, n).status = "completed"
      /\ Ended(row, response, n).response = response
    BY DEF Ended, Row
<1>3. Ended(row, response, n) # NoRow
    BY <1>1, AbsenceAssumption, Zenon
<1> QED BY <1>1, <1>2, <1>3

\* A lease is not the absence of one.
LEMMA LeaseIsPresent ==
    ASSUME NEW w \in Worker, NEW n \in Nat
    PROVE  /\ [owner |-> w, until |-> n] \in Lease
           /\ [owner |-> w, until |-> n] # NoLease
<1>1. [owner |-> w, until |-> n] \in Lease
    BY DEF Lease
<1> QED BY <1>1, AbsenceAssumption, Zenon

-----------------------------------------------------------------------------
(* Type correctness.                                                       *)

\* The reconciliation keeps the tables well typed.
LEMMA RecoveredTypes ==
    ASSUME TypeOK, NEW now \in Nat
    PROVE  /\ RecoveredCache(now) \in [Request -> Row \cup {NoRow}]
           /\ RecoveredLease(now) \in [Request -> Lease \cup {NoLease}]
<1>1. ASSUME NEW r \in Request
      PROVE  RecoveredCache(now)[r] \in Row \cup {NoRow}
    <2>1. CASE Processing(r) /\ LeaseExpired(r, now)
        <3>1. cache[r] \in Row /\ cache[r].expires \in Nat /\ Interrupted \in Response
            BY <2>1 DEF Processing, TypeOK, Row, Response
        <3> QED BY <2>1, <3>1, EndedRow DEF RecoveredCache
    <2>2. CASE ~(Processing(r) /\ LeaseExpired(r, now))
        BY <2>2 DEF RecoveredCache, TypeOK
    <2> QED BY <2>1, <2>2
<1>2. RecoveredLease(now) \in [Request -> Lease \cup {NoLease}]
    BY DEF RecoveredLease, TypeOK
<1> QED BY <1>1, <1>2 DEF RecoveredCache

LEMMA ClaimTypes ==
    ASSUME TypeOK, NEW w \in Worker, NEW r \in Request, NEW s \in Subject,
           NEW h \in Hash, NEW now \in Reading, ClaimRequest(w, r, s, h, now)
    PROVE  TypeOK'
<1>0. now \in Nat
    BY ReadingIsPast
<1>1. NewRow(s, h, now) \in Row
    BY <1>0, TimesAreNat DEF NewRow, Row, Response
<1>2. [owner |-> w, until |-> now + LeaseTime] \in Lease
    BY <1>0, TimesAreNat DEF Lease
<1>3. cache' \in [Request -> Row \cup {NoRow}]
    BY <1>0, <1>1, RecoveredTypes DEF ClaimRequest
<1>4. lease' \in [Request -> Lease \cup {NoLease}]
    BY <1>0, <1>2, RecoveredTypes DEF ClaimRequest
<1>5. blocks' \in [Request -> BlockSeq] /\ clock' \in Nat
    BY EmptyIsBlockSeq DEF ClaimRequest, TypeOK
<1> QED BY <1>3, <1>4, <1>5 DEF TypeOK

LEMMA RenewTypes ==
    ASSUME TypeOK, NEW w \in Worker, NEW live \in SUBSET Request,
           NEW now \in Reading, RenewLeases(w, live, now)
    PROVE  TypeOK'
<1>0. now \in Nat
    BY ReadingIsPast
<1>1. [owner |-> w, until |-> now + LeaseTime] \in Lease
    BY <1>0, TimesAreNat DEF Lease
<1>2. lease' \in [Request -> Lease \cup {NoLease}]
    BY <1>0, <1>1, RecoveredTypes DEF RenewLeases
<1> QED BY <1>0, <1>2, RecoveredTypes DEF RenewLeases, TypeOK

LEMMA InterruptTypes ==
    ASSUME TypeOK, NEW w \in Worker, InterruptOwnedRequests(w)
    PROVE  TypeOK'
<1> DEFINE ended(r) == lease[r] # NoLease /\ lease[r].owner = w
<1>0. clock \in Nat
    BY DEF TypeOK
<1>1. ASSUME NEW r \in Request, ended(r), Processing(r)
      PROVE  Ended(cache[r], Interrupted, cache[r].expires) \in Row
    <2>1. cache[r] \in Row /\ cache[r].expires \in Nat /\ Interrupted \in Response
        BY <1>1 DEF Processing, TypeOK, Row, Response
    <2> QED BY <2>1, EndedRow
<1>2. cache' \in [Request -> Row \cup {NoRow}]
    BY <1>0, <1>1, RecoveredTypes DEF InterruptOwnedRequests
<1>3. lease' \in [Request -> Lease \cup {NoLease}]
    BY <1>0, RecoveredTypes DEF InterruptOwnedRequests
<1> QED BY <1>2, <1>3 DEF InterruptOwnedRequests, TypeOK

LEMMA CompleteTypes ==
    ASSUME TypeOK, NEW w \in Worker, NEW r \in Request,
           NEW response \in OwnerResponse, CompleteRequest(w, r, response)
    PROVE  TypeOK'
<1>0. clock \in Nat
    BY DEF TypeOK
<1>1. Ended(cache[r], response, clock + ResultTime) \in Row
    <2>1. cache[r] \in Row /\ response \in Response
        BY DEF CompleteRequest, Processing, TypeOK, Response
    <2>2. clock + ResultTime \in Nat
        BY <1>0, TimesAreNat
    <2> QED BY <2>1, <2>2, EndedRow
<1>2. cache' \in [Request -> Row \cup {NoRow}]
    BY <1>0, <1>1, RecoveredTypes DEF CompleteRequest
<1>3. lease' \in [Request -> Lease \cup {NoLease}]
    BY <1>0, RecoveredTypes DEF CompleteRequest
<1> QED BY <1>2, <1>3 DEF CompleteRequest, TypeOK

\* The tables always hold rows, leases and block sequences of their types.
THEOREM TypeCorrect == Spec => []TypeOK
<1>1. Init => TypeOK
    BY EmptyIsBlockSeq DEF Init, TypeOK
<1>2. TypeOK /\ [Next]_vars => TypeOK'
    <2> SUFFICES ASSUME TypeOK, [Next]_vars PROVE TypeOK'
        OBVIOUS
    <2>1. CASE \E w \in Worker, r \in Request, s \in Subject, h \in Hash,
                  now \in Reading : ClaimRequest(w, r, s, h, now)
        BY <2>1, ClaimTypes
    <2>2. CASE RecoverExpiredRequests
        BY <2>2, RecoveredTypes DEF RecoverExpiredRequests, TypeOK
    <2>3. CASE \E w \in Worker, live \in SUBSET Request, now \in Reading :
                  RenewLeases(w, live, now)
        BY <2>3, RenewTypes
    <2>4. CASE \E w \in Worker : InterruptOwnedRequests(w)
        BY <2>4, InterruptTypes
    <2>5. CASE \E w \in Worker, r \in Request, s \in Subject, bs \in BlockSeq :
                  CommitRequestBlocks(w, r, s, bs)
        BY <2>5 DEF CommitRequestBlocks, TypeOK
    <2>6. CASE \E w \in Worker, r \in Request, response \in OwnerResponse :
                  CompleteRequest(w, r, response)
        BY <2>6, CompleteTypes
    <2>7. CASE \E w \in Worker, r \in Request : ReleaseRequest(w, r)
        BY <2>7, EmptyIsBlockSeq DEF ReleaseRequest, TypeOK
    <2>8. CASE \E now \in Reading : Cleanup(now)
        BY <2>8, EmptyIsBlockSeq DEF Cleanup, TypeOK
    <2>9. CASE Tick
        BY <2>9 DEF Tick, TypeOK
    <2>10. CASE UNCHANGED vars
        BY <2>10 DEF vars, TypeOK
    <2> QED BY <2>1, <2>2, <2>3, <2>4, <2>5, <2>6, <2>7, <2>8, <2>9, <2>10 DEF Next
<1> QED BY <1>1, <1>2, PTL DEF Spec

-----------------------------------------------------------------------------
(***************************************************************************)
(* The argument for everything else.  Whatever an operation does to the    *)
(* whole table, it moves each request q in one of seven ways; each move    *)
(* preserves the invariant at q, and the action properties and the         *)
(* refinement are read off the moves.                                      *)
(***************************************************************************)
Kept(q) == /\ cache'[q] = cache[q]
           /\ lease'[q] = lease[q]
           /\ blocks'[q] = blocks[q]

Lost(q) == /\ Processing(q)
           /\ cache'[q] = Ended(cache[q], Interrupted, cache[q].expires)
           /\ lease'[q] = NoLease
           /\ blocks'[q] = blocks[q]

Opened(q) == \E w \in Worker, s \in Subject, h \in Hash, now \in Reading :
                /\ Claimable(q, now)
                /\ cache'[q] = NewRow(s, h, now)
                /\ lease'[q] = [owner |-> w, until |-> now + LeaseTime]
                /\ blocks'[q] = <<>>

Gone(q) == /\ Processing(q) \/ RowExpired(q, clock)
           /\ cache'[q] = NoRow
           /\ lease'[q] = NoLease
           /\ blocks'[q] = <<>>

Renewed(q) == /\ lease[q] # NoLease
              /\ cache'[q] = cache[q]
              /\ \E now \in Reading :
                    /\ ~LeaseExpired(q, now)
                    /\ lease'[q] = [owner |-> lease[q].owner, until |-> now + LeaseTime]
              /\ blocks'[q] = blocks[q]

Shown(q) == /\ Processing(q)
            /\ cache'[q] = cache[q]
            /\ lease'[q] = lease[q]
            /\ blocks'[q] \in BlockSeq
            /\ Extends(blocks'[q], blocks[q])

Answered(q) == /\ Processing(q) /\ ~LeaseExpired(q, clock)
               /\ \E response \in OwnerResponse :
                     /\ Keeps(response, blocks[q])
                     /\ cache'[q] = Ended(cache[q], response, clock + ResultTime)
               /\ lease'[q] = NoLease
               /\ blocks'[q] = blocks[q]

Moved(q) == \/ Kept(q)    \/ Lost(q)  \/ Opened(q) \/ Gone(q)
            \/ Renewed(q) \/ Shown(q) \/ Answered(q)

\* The reconciliation at any time now loses a request or leaves it alone.
LEMMA RecoveryMoves ==
    ASSUME IInv, NEW now, NEW q \in Request,
           cache'[q] = RecoveredCache(now)[q],
           lease'[q] = RecoveredLease(now)[q],
           blocks'[q] = blocks[q]
    PROVE  Kept(q) \/ Lost(q)
<1>1. CASE LeaseExpired(q, now)
    <2>1. Processing(q)
        BY <1>1 DEF IInv, LeaseCoversProcessing, LeaseExpired
    <2> QED BY <1>1, <2>1 DEF RecoveredCache, RecoveredLease, Lost
<1>2. CASE ~LeaseExpired(q, now)
    BY <1>2 DEF RecoveredCache, RecoveredLease, Kept
<1> QED BY <1>1, <1>2

\* What has expired at a past reading has expired now.
LEMMA ExpiryLasts ==
    ASSUME TypeOK, NEW now \in Reading, NEW q \in Request, RowExpired(q, now)
    PROVE  RowExpired(q, clock)
<1>1. cache[q] \in Row
    BY DEF RowExpired, TypeOK
<1>2. cache[q].expires \in Nat
    BY <1>1 DEF Row
<1>3. now \in Nat /\ now <= clock /\ clock \in Nat
    BY ReadingIsPast DEF TypeOK
<1> QED BY <1>2, <1>3 DEF RowExpired

LEMMA ClaimMoves ==
    ASSUME IInv, NEW w \in Worker, NEW r \in Request, NEW s \in Subject,
           NEW h \in Hash, NEW now \in Reading, ClaimRequest(w, r, s, h, now),
           NEW q \in Request
    PROVE  Moved(q)
<1>1. CASE q = r /\ Claimable(r, now)
    <2>1. blocks'[q] = <<>>
        BY <1>1 DEF ClaimRequest, Claimable, IInv, LeaseCoversProcessing
    <2> QED BY <1>1, <2>1 DEF ClaimRequest, Opened, Moved
<1>2. CASE ~(q = r /\ Claimable(r, now)) /\ RowExpired(q, now)
    <2>1. RowExpired(q, clock)
        BY <1>2, ExpiryLasts DEF IInv
    <2> QED BY <1>2, <2>1 DEF ClaimRequest, Gone, Moved
<1>3. CASE ~(q = r /\ Claimable(r, now)) /\ ~RowExpired(q, now)
    <2>1. /\ cache'[q] = RecoveredCache(now)[q]
          /\ lease'[q] = RecoveredLease(now)[q]
          /\ blocks'[q] = blocks[q]
        BY <1>3 DEF ClaimRequest
    <2> QED BY <2>1, RecoveryMoves DEF Moved
<1> QED BY <1>1, <1>2, <1>3

LEMMA RenewMoves ==
    ASSUME IInv, NEW w \in Worker, NEW live \in SUBSET Request,
           NEW now \in Reading, RenewLeases(w, live, now), NEW q \in Request
    PROVE  Moved(q)
<1>1. CASE q \in live /\ lease[q] # NoLease /\ lease[q].owner = w /\ ~LeaseExpired(q, now)
    <2>1. cache'[q] = cache[q] /\ blocks'[q] = blocks[q]
        BY <1>1 DEF RenewLeases, RecoveredCache
    <2>2. lease'[q] = [owner |-> lease[q].owner, until |-> now + LeaseTime]
        BY <1>1 DEF RenewLeases
    <2> QED BY <1>1, <2>1, <2>2 DEF Renewed, Moved
<1>2. CASE ~(q \in live /\ lease[q] # NoLease /\ lease[q].owner = w /\ ~LeaseExpired(q, now))
    <2>1. /\ cache'[q] = RecoveredCache(now)[q]
          /\ lease'[q] = RecoveredLease(now)[q]
          /\ blocks'[q] = blocks[q]
        BY <1>2 DEF RenewLeases
    <2> QED BY <2>1, RecoveryMoves DEF Moved
<1> QED BY <1>1, <1>2

LEMMA InterruptMoves ==
    ASSUME IInv, NEW w \in Worker, InterruptOwnedRequests(w), NEW q \in Request
    PROVE  Moved(q)
<1>1. CASE lease[q] # NoLease /\ lease[q].owner = w
    <2>1. Processing(q)
        BY <1>1 DEF IInv, LeaseCoversProcessing
    <2> QED BY <1>1, <2>1 DEF InterruptOwnedRequests, Lost, Moved
<1>2. CASE ~(lease[q] # NoLease /\ lease[q].owner = w)
    <2>1. /\ cache'[q] = RecoveredCache(clock)[q]
          /\ lease'[q] = RecoveredLease(clock)[q]
          /\ blocks'[q] = blocks[q]
        BY <1>2 DEF InterruptOwnedRequests
    <2> QED BY <2>1, RecoveryMoves DEF Moved
<1> QED BY <1>1, <1>2

LEMMA CompleteMoves ==
    ASSUME IInv, NEW w \in Worker, NEW r \in Request,
           NEW response \in OwnerResponse, CompleteRequest(w, r, response),
           NEW q \in Request
    PROVE  Moved(q)
<1>0. /\ RecoveredCache(clock) \in [Request -> Row \cup {NoRow}]
      /\ RecoveredLease(clock) \in [Request -> Lease \cup {NoLease}]
    BY RecoveredTypes DEF IInv, TypeOK
<1>1. CASE q = r
    <2>1. Processing(r) /\ Keeps(response, blocks[r]) /\ ~LeaseExpired(r, clock)
        <3>1. lease[r] \in Lease /\ lease[r].until > clock
            BY DEF CompleteRequest, Owns, IInv, TypeOK
        <3>2. lease[r].until \in Nat /\ clock \in Nat
            BY <3>1 DEF Lease, IInv, TypeOK
        <3> QED BY <3>1, <3>2 DEF CompleteRequest, LeaseExpired
    <2>2. /\ cache'[r] = Ended(cache[r], response, clock + ResultTime)
          /\ lease'[r] = NoLease
          /\ blocks'[r] = blocks[r]
        BY <1>0 DEF CompleteRequest
    <2> QED BY <1>1, <2>1, <2>2 DEF Answered, Moved
<1>2. CASE q # r
    <2>1. /\ cache'[q] = RecoveredCache(clock)[q]
          /\ lease'[q] = RecoveredLease(clock)[q]
          /\ blocks'[q] = blocks[q]
        BY <1>0, <1>2 DEF CompleteRequest
    <2> QED BY <2>1, RecoveryMoves DEF Moved
<1> QED BY <1>1, <1>2

LEMMA ReleaseMoves ==
    ASSUME IInv, NEW w \in Worker, NEW r \in Request, ReleaseRequest(w, r),
           NEW q \in Request
    PROVE  Moved(q)
<1>1. CASE q = r
    BY <1>1 DEF IInv, TypeOK, ReleaseRequest, Gone, Moved
<1>2. CASE q # r
    BY <1>2 DEF IInv, TypeOK, ReleaseRequest, Kept, Moved
<1> QED BY <1>1, <1>2

LEMMA CommitMoves ==
    ASSUME IInv, NEW w \in Worker, NEW r \in Request, NEW s \in Subject,
           NEW bs \in BlockSeq, CommitRequestBlocks(w, r, s, bs), NEW q \in Request
    PROVE  Moved(q)
<1>1. CASE q = r
    BY <1>1 DEF IInv, TypeOK, CommitRequestBlocks, Shown, Moved
<1>2. CASE q # r
    BY <1>2 DEF IInv, TypeOK, CommitRequestBlocks, Kept, Moved
<1> QED BY <1>1, <1>2

LEMMA CleanupMoves ==
    ASSUME IInv, NEW now \in Reading, Cleanup(now), NEW q \in Request
    PROVE  Moved(q)
<1>1. CASE RowExpired(q, now)
    <2>1. RowExpired(q, clock)
        BY <1>1, ExpiryLasts DEF IInv
    <2> QED BY <1>1, <2>1 DEF Cleanup, Gone, Moved
<1>2. CASE ~RowExpired(q, now)
    BY <1>2 DEF Cleanup, Kept, Moved
<1> QED BY <1>1, <1>2

\* Every step of the store moves every request in one of the seven ways.
LEMMA StepMoves ==
    ASSUME IInv, [Next]_vars, NEW q \in Request
    PROVE  Moved(q)
<1>1. CASE \E w \in Worker, r \in Request, s \in Subject, h \in Hash,
              now \in Reading : ClaimRequest(w, r, s, h, now)
    BY <1>1, ClaimMoves
<1>2. CASE RecoverExpiredRequests
    <2>1. /\ cache'[q] = RecoveredCache(clock)[q]
          /\ lease'[q] = RecoveredLease(clock)[q]
          /\ blocks'[q] = blocks[q]
        BY <1>2 DEF RecoverExpiredRequests
    <2> QED BY <2>1, RecoveryMoves DEF Moved
<1>3. CASE \E w \in Worker, live \in SUBSET Request, now \in Reading :
              RenewLeases(w, live, now)
    BY <1>3, RenewMoves
<1>4. CASE \E w \in Worker : InterruptOwnedRequests(w)
    BY <1>4, InterruptMoves
<1>5. CASE \E w \in Worker, r \in Request, s \in Subject, bs \in BlockSeq :
              CommitRequestBlocks(w, r, s, bs)
    BY <1>5, CommitMoves
<1>6. CASE \E w \in Worker, r \in Request, response \in OwnerResponse :
              CompleteRequest(w, r, response)
    BY <1>6, CompleteMoves
<1>7. CASE \E w \in Worker, r \in Request : ReleaseRequest(w, r)
    BY <1>7, ReleaseMoves
<1>8. CASE \E now \in Reading : Cleanup(now)
    BY <1>8, CleanupMoves
<1>9. CASE Tick
    BY <1>9 DEF Tick, Kept, Moved
<1>10. CASE UNCHANGED vars
    BY <1>10 DEF vars, Kept, Moved
<1> QED BY <1>1, <1>2, <1>3, <1>4, <1>5, <1>6, <1>7, <1>8, <1>9, <1>10 DEF Next

\* Time never runs backwards.
LEMMA ClockAdvances ==
    ASSUME TypeOK, [Next]_vars
    PROVE  clock' \in Nat /\ clock <= clock'
<1>1. UNCHANGED clock \/ Tick
    BY Zenon DEF Next, vars, ClaimRequest, RecoverExpiredRequests, RenewLeases,
           InterruptOwnedRequests, CommitRequestBlocks, CompleteRequest,
           ReleaseRequest, Cleanup
<1>2. CASE UNCHANGED clock
    BY <1>2 DEF TypeOK
<1>3. CASE Tick
    BY <1>3 DEF Tick, TypeOK
<1> QED BY <1>1, <1>2, <1>3

-----------------------------------------------------------------------------
(* The safety invariants.                                                  *)

\* The invariant at one request, of which IInv is the conjunction.
InvAt(q) ==
    /\ Processing(q) <=> lease[q] # NoLease
    /\ cache[q] = NoRow => blocks[q] = <<>>
    /\ Processing(q) => lease[q].until <= clock + LeaseTime
    /\ Completed(q) => Keeps(cache[q].response, blocks[q])
    /\ Processing(q) => cache[q].response = NoResponse
    /\ Completed(q) => cache[q].response \in OwnerResponse \cup {Interrupted}

LEMMA IInvPointwise == IInv <=> TypeOK /\ \A q \in Request : InvAt(q)
BY DEF IInv, InvAt, LeaseCoversProcessing, RecoveryHorizon, AnswerKeepsConfirmed,
       ResponseMatchesStatus

\* A horizon that is near at an earlier time is near at a later one.
LEMMA HorizonLasts ==
    ASSUME NEW now \in Nat, NEW later \in Nat, now <= later
    PROVE  now + LeaseTime <= later + LeaseTime
BY TimesAreNat

\* Each of the seven moves preserves the invariant of the request it moves.
LEMMA MovePreserves ==
    ASSUME TypeOK, TypeOK', NEW q \in Request, InvAt(q), Moved(q),
           clock' \in Nat, clock <= clock'
    PROVE  InvAt(q)'
<1>0. /\ cache[q] \in Row \cup {NoRow}   /\ cache'[q] \in Row \cup {NoRow}
      /\ lease[q] \in Lease \cup {NoLease} /\ lease'[q] \in Lease \cup {NoLease}
      /\ clock \in Nat /\ LeaseTime \in Nat
    BY TimesAreNat DEF TypeOK
<1>1. CASE Kept(q)
    <2>1. lease[q] # NoLease => lease[q].until \in Nat
        BY <1>0 DEF Lease
    <2> QED BY <1>0, <1>1, <2>1 DEF InvAt, Kept, Processing, Completed
<1>2. CASE Lost(q)
    <2>1. cache[q] \in Row /\ cache[q].expires \in Nat /\ Interrupted \in Response
        BY <1>0, <1>2 DEF Lost, Processing, Row, Response
    <2>2. cache'[q] # NoRow /\ cache'[q].status = "completed" /\ cache'[q].response = Interrupted
        BY <2>1, <1>2, EndedRow DEF Lost
    <2> QED BY <1>2, <2>2, InterruptionKeeps DEF InvAt, Lost, Processing, Completed
<1>3. CASE Opened(q)
    <2>1. PICK w \in Worker, s \in Subject, h \in Hash, now \in Reading :
              /\ cache'[q] = NewRow(s, h, now)
              /\ lease'[q] = [owner |-> w, until |-> now + LeaseTime]
              /\ blocks'[q] = <<>>
        BY <1>3 DEF Opened
    <2>2. now \in Nat /\ now <= clock
        BY ReadingIsPast
    <2>3. NewRow(s, h, now) \in Row /\ [owner |-> w, until |-> now + LeaseTime] \in Lease
        BY <2>2, TimesAreNat DEF NewRow, Row, Response, Lease
    <2>4. cache'[q] # NoRow /\ lease'[q] # NoLease
        BY <2>1, <2>3, AbsenceAssumption
    <2>5. cache'[q].status = "processing" /\ cache'[q].response = NoResponse
        BY <2>1 DEF NewRow
    <2>6. lease'[q].until <= clock' + LeaseTime
        BY <2>1, <2>2, <1>0
    <2> QED BY <2>1, <2>4, <2>5, <2>6 DEF InvAt, Processing, Completed
<1>4. CASE Gone(q)
    BY <1>4 DEF InvAt, Gone, Processing, Completed
<1>5. CASE Renewed(q)
    <2>1. PICK now \in Reading :
              lease'[q] = [owner |-> lease[q].owner, until |-> now + LeaseTime]
        BY <1>5 DEF Renewed
    <2>2. now \in Nat /\ now <= clock
        BY ReadingIsPast
    <2>3. lease[q].owner \in Worker /\ now + LeaseTime \in Nat
        BY <1>0, <1>5, <2>2 DEF Renewed, Lease
    <2>4. lease'[q] # NoLease
        BY <2>1, <2>3, LeaseIsPresent, Zenon
    <2>5. lease'[q].until = now + LeaseTime
        BY <2>1
    <2>6. now + LeaseTime <= clock' + LeaseTime
        <3>1. clock \in Nat
            BY DEF TypeOK
        <3>2. now <= clock'
            BY <2>2, <3>1
        <3> QED BY <2>2, <3>2, HorizonLasts
    <2>7. lease'[q].until <= clock' + LeaseTime
        BY <2>5, <2>6, Zenon
    <2> QED BY <1>5, <2>4, <2>7 DEF InvAt, Renewed, Processing, Completed
<1>6. CASE Shown(q)
    <2>1. lease[q].until \in Nat
        BY <1>0, <1>6 DEF Shown, InvAt, Lease
    <2> QED BY <1>0, <1>6, <2>1 DEF InvAt, Shown, Processing, Completed
<1>7. CASE Answered(q)
    <2>1. PICK response \in OwnerResponse :
              /\ Keeps(response, blocks[q])
              /\ cache'[q] = Ended(cache[q], response, clock + ResultTime)
        BY <1>7 DEF Answered
    <2>2. cache[q] \in Row /\ response \in Response
        BY <1>0, <1>7 DEF Answered, Processing, Response
    <2>3. clock + ResultTime \in Nat
        BY <1>0, TimesAreNat
    <2>4. cache'[q] # NoRow /\ cache'[q].status = "completed" /\ cache'[q].response = response
        BY <2>1, <2>2, <2>3, EndedRow
    <2> QED BY <1>7, <2>1, <2>4 DEF InvAt, Answered, Processing, Completed
<1> QED BY <1>1, <1>2, <1>3, <1>4, <1>5, <1>6, <1>7 DEF Moved

\* The inductive invariant holds of every reachable state.
LEMMA Invariance == Spec => []IInv
<1>1. Init => IInv
    BY EmptyIsBlockSeq DEF Init, IInv, TypeOK, LeaseCoversProcessing, RecoveryHorizon,
       AnswerKeepsConfirmed, ResponseMatchesStatus, Processing, Completed
<1>2. IInv /\ TypeOK' /\ [Next]_vars => IInv'
    <2> SUFFICES ASSUME IInv, TypeOK', [Next]_vars PROVE IInv'
        OBVIOUS
    <2>1. TypeOK /\ clock' \in Nat /\ clock <= clock'
        BY ClockAdvances DEF IInv
    <2>2. ASSUME NEW q \in Request PROVE InvAt(q)'
        <3>1. InvAt(q) /\ Moved(q)
            BY IInvPointwise, StepMoves
        <3> QED BY <2>1, <3>1, MovePreserves
    <2> QED BY <2>2 DEF IInv, InvAt, LeaseCoversProcessing, RecoveryHorizon,
                        AnswerKeepsConfirmed, ResponseMatchesStatus
<1> QED BY <1>1, <1>2, TypeCorrect, PTL DEF Spec

\* Every unfinished row has a lease and no other row has one, for any number
\* of processes and requests: no claim can be orphaned by losing its owner.
THEOREM NoOrphanedClaim == Spec => []LeaseCoversProcessing
BY Invariance, PTL DEF IInv

\* An unfinished claim is always within one lease of its reconciliation.
THEOREM RecoveryIsNear == Spec => []RecoveryHorizon
BY Invariance, PTL DEF IInv

\* A stored answer begins with every block that was confirmed to a browser.
THEOREM ConfirmedContentIsKept == Spec => []AnswerKeepsConfirmed
BY Invariance, PTL DEF IInv

-----------------------------------------------------------------------------
(* The action properties.                                                  *)

\* Until its row expires, a terminal result is never replaced or removed.
THEOREM ResultsAreFinal == Spec => TerminalIsFinal
<1>1. IInv /\ [Next]_vars =>
         [\A r \in Request :
             Completed(r) /\ ~RowExpired(r, clock) => cache'[r] = cache[r]]_vars
    <2> SUFFICES ASSUME IInv, [Next]_vars, NEW r \in Request,
                        Completed(r), ~RowExpired(r, clock)
                 PROVE  cache'[r] = cache[r]
        OBVIOUS
    <2>1. ~Processing(r)
        BY DEF Completed, Processing
    <2>2. ~Opened(r)
        <3>1. ASSUME NEW now \in Reading PROVE ~RowExpired(r, now)
            BY ExpiryLasts DEF IInv
        <3> QED BY <3>1 DEF Opened, Claimable, Completed
    <2>3. Kept(r) \/ Renewed(r)
        BY <2>1, <2>2, StepMoves DEF Moved, Lost, Gone, Shown, Answered
    <2> QED BY <2>3 DEF Kept, Renewed
<1> QED BY <1>1, Invariance, PTL DEF Spec, TerminalIsFinal

\* While a row lives, its lease never passes to another process.
THEOREM ClaimsAreNotTakenOver == Spec => OneOwnerPerClaim
<1>1. IInv /\ [Next]_vars =>
         [\A r \in Request :
             lease[r] # NoLease /\ lease'[r] # NoLease /\ ~RowExpired(r, clock)
                => lease'[r].owner = lease[r].owner]_vars
    <2> SUFFICES ASSUME IInv, [Next]_vars, NEW r \in Request, lease[r] # NoLease,
                        lease'[r] # NoLease, ~RowExpired(r, clock)
                 PROVE  lease'[r].owner = lease[r].owner
        OBVIOUS
    <2>1. Processing(r)
        BY DEF IInv, LeaseCoversProcessing
    <2>2. ~Opened(r)
        <3>1. ASSUME NEW now \in Reading PROVE ~RowExpired(r, now)
            BY ExpiryLasts DEF IInv
        <3> QED BY <2>1, <3>1 DEF Opened, Claimable, Processing
    <2>3. Kept(r) \/ Renewed(r) \/ Shown(r)
        BY <2>2, StepMoves DEF Moved, Lost, Gone, Answered
    <2>4. CASE Kept(r) \/ Shown(r)
        BY <2>4, Zenon DEF Kept, Shown
    <2>5. CASE Renewed(r)
        <3>1. PICK now \in Reading :
                  lease'[r] = [owner |-> lease[r].owner, until |-> now + LeaseTime]
            BY <2>5 DEF Renewed
        <3> QED BY <3>1
    <2> QED BY <2>3, <2>4, <2>5
<1> QED BY <1>1, Invariance, PTL DEF Spec, OneOwnerPerClaim

\* A lookup that reads only the row and its lease answers the same while
\* both stay, or that the row is gone.
LEMMA LookupLasts ==
    ASSUME TypeOK, TypeOK', NEW q \in Request, NEW s \in Subject, NEW h \in Hash,
           cache'[q] = cache[q], lease'[q] = lease[q], clock <= clock',
           Lookup(q, s, h) \in Response
    PROVE  Lookup(q, s, h)' \in {Lookup(q, s, h), Missing}
<1>1. /\ cache[q] # NoRow /\ cache[q].subject = s /\ cache[q].hash = h
      /\ Completed(q) \/ LeaseExpired(q, clock)
    BY DEF Lookup, Missing, Conflict, Waiting, Response, OwnerResponse, Answer, Failed,
           Interrupted, NoResponse
<1>2. LeaseExpired(q, clock) => LeaseExpired(q, clock)'
    <2>1. clock \in Nat /\ clock' \in Nat /\ (lease[q] # NoLease => lease[q].until \in Nat)
        BY DEF TypeOK, Lease
    <2> QED BY <2>1 DEF LeaseExpired
<1>3. Completed(q)' = Completed(q)
    BY DEF Completed
<1>4. ~RowExpired(q, clock)
    BY <1>1 DEF Lookup, Missing, Response, OwnerResponse, Answer, Failed, Interrupted, NoResponse
<1> QED BY <1>1, <1>2, <1>3, <1>4 DEF Lookup

\* What a lookup reported as final, more than MaxLag after the lease had run
\* out, no late renewal and no late answer of its owner contradicts.
THEOREM ReportsAreFinal == Spec => ObservationStands
<1>1. IInv /\ IInv' /\ [Next]_vars =>
         [\A r \in Request, s \in Subject, h \in Hash :
             LET answer == Lookup(r, s, h)
             IN  Final(r, answer) => Lookup(r, s, h)' \in {answer, Missing}]_vars
    <2> SUFFICES ASSUME IInv, IInv', [Next]_vars,
                        NEW q \in Request, NEW s \in Subject, NEW h \in Hash,
                        Final(q, Lookup(q, s, h))
                 PROVE  Lookup(q, s, h)' \in {Lookup(q, s, h), Missing}
        OBVIOUS
    <2>1. /\ TypeOK /\ TypeOK' /\ InvAt(q) /\ Moved(q)
          /\ clock \in Nat /\ clock' \in Nat /\ clock <= clock'
          /\ MaxLag \in Nat
        BY IInvPointwise, StepMoves, ClockAdvances, TimesAreNat DEF IInv, TypeOK
    <2>2. /\ Lookup(q, s, h) \in Response
          /\ lease[q] # NoLease => lease[q].until + MaxLag <= clock
        BY DEF Final
    <2>3. /\ cache[q] # NoRow /\ cache[q].subject = s /\ cache[q].hash = h
          /\ ~RowExpired(q, clock)
        BY <2>2 DEF Lookup, Missing, Conflict, Response, OwnerResponse, Answer, Failed,
                    Interrupted, NoResponse
    <2>4. lease[q] # NoLease => lease[q].until \in Nat
        BY <2>1 DEF TypeOK, Lease
    <2>5. CASE Kept(q) \/ Shown(q)
        <3>1. cache'[q] = cache[q] /\ lease'[q] = lease[q]
            BY <2>5 DEF Kept, Shown
        <3> QED BY <2>1, <2>2, <3>1, LookupLasts
    <2>6. CASE Lost(q)
        <3>1. cache[q] \in Row /\ cache[q].expires \in Nat /\ Interrupted \in Response
            BY <2>1, <2>3 DEF TypeOK, Row, Response
        <3>2. /\ cache'[q] # NoRow /\ cache'[q].status = "completed"
              /\ cache'[q].response = Interrupted
              /\ cache'[q].subject = s /\ cache'[q].hash = h
            <4>1. /\ cache'[q] # NoRow /\ cache'[q].status = "completed"
                  /\ cache'[q].response = Interrupted
                BY <2>6, <3>1, EndedRow DEF Lost
            <4>2. cache'[q].subject = s /\ cache'[q].hash = h
                BY <2>3, <2>6, <3>1 DEF Lost, Ended, Row
            <4> QED BY <4>1, <4>2
        <3>3. Lookup(q, s, h)' \in {Interrupted, Missing}
            BY <3>2 DEF Lookup, Completed
        <3>4. Lookup(q, s, h) = Interrupted
            BY <2>2, <2>3, <2>6 DEF Lost, Processing, Lookup, Completed, Waiting, Response,
                                     OwnerResponse, Answer, Failed, Interrupted, NoResponse
        <3> QED BY <3>3, <3>4
    <2>7. CASE Opened(q)
        <3>1. ASSUME NEW now \in Reading PROVE ~RowExpired(q, now)
            BY <2>1, <2>3, ExpiryLasts
        <3> QED BY <2>3, <2>7, <3>1 DEF Opened, Claimable
    <2>8. CASE Gone(q)
        BY <2>8 DEF Gone, Lookup
    <2>9. CASE Renewed(q)
        <3>1. PICK now \in Reading : ~LeaseExpired(q, now)
            BY <2>9 DEF Renewed
        <3>2. now \in Nat /\ clock <= now + MaxLag
            BY <2>1, ReadingIsPast DEF Reading
        <3> QED BY <2>1, <2>2, <2>4, <2>9, <3>1, <3>2 DEF Renewed, LeaseExpired
    <2>10. CASE Answered(q)
        <3>1. ~LeaseExpired(q, clock) /\ lease[q] # NoLease
            BY <2>1, <2>10 DEF Answered, InvAt
        <3> QED BY <2>1, <2>2, <2>4, <3>1 DEF LeaseExpired
    <2> QED BY <2>1, <2>5, <2>6, <2>7, <2>8, <2>9, <2>10 DEF Moved
<1> QED BY <1>1, Invariance, PTL DEF Spec, ObservationStands

-----------------------------------------------------------------------------
(* RequestStore implements RequestLedger.                                  *)

\* The instance's copies of the shared definitions are the definitions.
LEMMA SameData ==
    /\ Ledger!NoResponse = NoResponse
    /\ Ledger!Interrupted = Interrupted
    /\ Ledger!BlockSeq = BlockSeq
    /\ Ledger!OwnerResponse = OwnerResponse
    /\ \A x, bs : Ledger!Extends(x, bs) <=> Extends(x, bs)
    /\ \A x, bs : Ledger!Keeps(x, bs) <=> Keeps(x, bs)
<1>1. Ledger!BlockSeq = BlockSeq
    BY DEF Ledger!BlockSeq, BlockSeq
<1>2. \A bs : Ledger!Answer(bs) = Answer(bs)
    BY DEF Ledger!Answer, Answer
<1>3. Ledger!Failed = Failed
    BY DEF Ledger!Failed, Failed
<1>4. Ledger!OwnerResponse = OwnerResponse
    BY <1>1, <1>2, <1>3 DEF Ledger!OwnerResponse, OwnerResponse
<1>5. \A x, bs : Ledger!Extends(x, bs) <=> Extends(x, bs)
    BY DEF Ledger!Extends, Extends
<1>6. \A x, bs : Ledger!Keeps(x, bs) <=> Keeps(x, bs)
    BY <1>5 DEF Ledger!Keeps, Keeps
<1> QED
    BY <1>1, <1>4, <1>5, <1>6
       DEF Ledger!NoResponse, NoResponse, Ledger!Interrupted, Interrupted

\* Each of the seven moves of a request is a move of its ledger entry.
LEMMA MoveImplements ==
    ASSUME IInv, IInv', NEW q \in Request, Moved(q)
    PROVE  Ledger!Move(Entry(q), Entry(q)')
<1>0. InvAt(q) /\ InvAt(q)' /\ cache[q] \in Row \cup {NoRow} /\ clock \in Nat
    BY IInvPointwise DEF IInv, TypeOK, InvAt, LeaseCoversProcessing, RecoveryHorizon,
       AnswerKeepsConfirmed, ResponseMatchesStatus
<1>1. CASE Kept(q) \/ Renewed(q)
    BY <1>1 DEF Kept, Renewed, Entry, Completed, Ledger!Move
<1>2. CASE Lost(q)
    <2>1. cache[q] \in Row /\ cache[q].expires \in Nat /\ Interrupted \in Response
        BY <1>0, <1>2 DEF Lost, Processing, Row, Response
    <2>2. cache'[q] # NoRow /\ cache'[q].status = "completed" /\ cache'[q].response = Interrupted
        BY <2>1, <1>2, EndedRow DEF Lost
    <2>3. Entry(q).state = "pending" /\ Entry(q).shown = blocks[q]
        BY <1>2 DEF Lost, Processing, Entry, Completed
    <2>4. Entry(q)' = Ledger!Settled(blocks[q], Ledger!Interrupted)
        BY SameData, <1>2, <2>2 DEF Lost, Entry, Completed, Ledger!Settled
    <2>5. Ledger!Keeps(Ledger!Interrupted, blocks[q])
        BY SameData, InterruptionKeeps
    <2> QED BY <2>3, <2>4, <2>5 DEF Ledger!Move, Ledger!Settles
<1>3. CASE Opened(q)
    <2>1. PICK w \in Worker, s \in Subject, h \in Hash, now \in Reading :
              cache'[q] = NewRow(s, h, now) /\ blocks'[q] = <<>>
        BY <1>3 DEF Opened
    <2>2. now \in Nat
        BY ReadingIsPast DEF IInv
    <2>3. NewRow(s, h, now) \in Row
        BY <2>2, TimesAreNat DEF NewRow, Row, Response
    <2>4. NewRow(s, h, now) # NoRow
        BY <2>3, AbsenceAssumption, Zenon
    <2>5. cache'[q] # NoRow /\ cache'[q].status = "processing" /\ cache'[q].response = NoResponse
        BY <2>1, <2>4 DEF NewRow
    <2>6. Entry(q)' = Ledger!Pending(<<>>)
        BY SameData, <2>1, <2>5 DEF Entry, Completed, Ledger!Pending
    <2> QED BY <2>6 DEF Ledger!Move, Ledger!Opens
<1>4. CASE Gone(q)
    BY SameData, <1>4 DEF Gone, Entry, Ledger!Move, Ledger!Forgets, Ledger!Free
<1>5. CASE Shown(q)
    <2>1. Entry(q).state = "pending" /\ Entry(q).shown = blocks[q]
        BY <1>5 DEF Shown, Processing, Entry, Completed
    <2>2. Entry(q)' = Ledger!Pending(blocks'[q])
        BY SameData, <1>0, <1>5 DEF Shown, Processing, Entry, Completed, InvAt, Ledger!Pending
    <2> QED BY SameData, <1>5, <2>1, <2>2 DEF Shown, Ledger!Move, Ledger!Shows
<1>6. CASE Answered(q)
    <2>1. PICK response \in OwnerResponse :
              /\ Keeps(response, blocks[q])
              /\ cache'[q] = Ended(cache[q], response, clock + ResultTime)
        BY <1>6 DEF Answered
    <2>2. cache[q] \in Row /\ response \in Response /\ clock + ResultTime \in Nat
        BY <1>0, <1>6, TimesAreNat DEF Answered, Processing, Response
    <2>3. cache'[q] # NoRow /\ cache'[q].status = "completed" /\ cache'[q].response = response
        BY <2>1, <2>2, EndedRow
    <2>4. Entry(q).state = "pending" /\ Entry(q).shown = blocks[q]
        BY <1>6 DEF Answered, Processing, Entry, Completed
    <2>5. Entry(q)' = Ledger!Settled(blocks[q], response)
        BY <1>6, <2>3 DEF Answered, Entry, Completed, Ledger!Settled
    <2> QED BY SameData, <2>1, <2>4, <2>5 DEF Ledger!Move, Ledger!Settles
<1> QED BY <1>1, <1>2, <1>3, <1>4, <1>5, <1>6 DEF Moved

\* Without time, leases and owners the store is the ledger: every entry is
\* opened, shown, settled once with what was shown, and forgotten.
THEOREM Implementation == Spec => ImplementsLedger
<1>1. Init => Ledger!Init
    BY SameData DEF Init, Ledger!Init, Entry, Ledger!Free
<1>2. IInv /\ IInv' /\ [Next]_vars => [Ledger!Next]_([r \in Request |-> Entry(r)])
    <2> SUFFICES ASSUME IInv, IInv', [Next]_vars PROVE Ledger!Next
        OBVIOUS
    <2>1. ASSUME NEW r \in Request PROVE Ledger!Move(Entry(r), Entry(r)')
        BY StepMoves, MoveImplements
    <2> QED BY <2>1 DEF Ledger!Next
<1> QED BY <1>1, <1>2, Invariance, PTL DEF Spec, ImplementsLedger, Ledger!Spec

=============================================================================
