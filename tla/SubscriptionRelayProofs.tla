---------------------- MODULE SubscriptionRelayProofs ----------------------
(***************************************************************************)
(* Proofs about SubscriptionRelay for any number of callers and pairings   *)
(* and every bound on lost polls and repeated reports.                     *)
(***************************************************************************)
EXTENDS SubscriptionRelay, TLAPS

(***************************************************************************)
(* The connector spends a turn only on a job it has no result for, and     *)
(* keeps the result.                                                       *)
(***************************************************************************)
TurnsInv ==
    \A k \in Link, c \in Caller :
        /\ conr[k].turns[c] <= 1
        /\ conr[k].results[c] = Unfinished => conr[k].turns[c] = 0

\* What it works on or reports is a job.
WorkInv == \A k \in Link : conr[k].pc \in {"working", "reporting"} => conr[k].job \in Caller

(***************************************************************************)
(* A caller that has left "idle" holds a connection; its future is set     *)
(* when its job ends and never again, to the result of its own connection  *)
(* or to "unknown", and what it was answered is what the future holds.     *)
(***************************************************************************)
CallerInv ==
    \A c \in Caller :
        /\ caller[c] # "idle" => job[c].on \in Link
        /\ caller[c] \in {"idle", "creating"} => job[c].future = Unfinished
        /\ job[c].open => job[c].future = Unfinished
        /\ job[c].future \in {"answer", "error"} => conr[job[c].on].results[c] = job[c].future
        /\ told[c] \in {"answer", "error"} => told[c] = job[c].future

IInv == TypeOK /\ TurnsInv /\ WorkInv /\ CallerInv /\ OpenJobIsCurrent /\ GivenUpIsFenced

-----------------------------------------------------------------------------
(* The parts of the records.                                               *)

LinkRecord ==
    [connector : BOOLEAN, seen : BOOLEAN, blocked : BOOLEAN, job : Caller \cup {NoJob},
     waiter : BOOLEAN, receipts : SUBSET Caller]

JobRecord == [on : {0} \cup Link, open : BOOLEAN, future : Outcome \cup {Unfinished}]

ConnectorRecord ==
    [pc : {"off", "ready", "polling", "working", "reporting", "stopped", "turned_away"},
     failures : 0..MaxFailures, job : Caller \cup {NoJob},
     results : [Caller -> Outcome \cup {Unfinished}],
     turns : [Caller -> 0..2], reports : 0..MaxReports]

CallerState == {"idle", "creating", "waiting", "expired", "releasing", "returned"}
Told == Outcome \cup {Unfinished, "refused"}

LEMMA Parts ==
    TypeOK <=> /\ paired \in 0..MaxPairs /\ registered \in 0..paired
               /\ link \in [Link -> LinkRecord] /\ job \in [Caller -> JobRecord]
               /\ caller \in [Caller -> CallerState] /\ told \in [Caller -> Told]
               /\ conr \in [Link -> ConnectorRecord]
BY DEF TypeOK, LinkRecord, JobRecord, ConnectorRecord, CallerState, Told

\* What is registered is a connection.
LEMMA RegisteredIsLink == ASSUME TypeOK, registered # 0 PROVE registered \in Link
<1>1. paired \in 0..MaxPairs /\ registered \in 0..paired
    BY Parts
<1> QED BY <1>1, BoundsAssumption DEF Link

(***************************************************************************)
(* A step that leaves the callers, their jobs and the registration alone,  *)
(* which connections the jobs are on, what is blocked, and the results.    *)
(***************************************************************************)
Quiet ==
    /\ UNCHANGED <<paired, registered, job, caller, told>>
    /\ link' \in [Link -> LinkRecord] /\ conr' \in [Link -> ConnectorRecord]
    /\ \A k \in Link : /\ link'[k].job = link[k].job
                       /\ link'[k].blocked = link[k].blocked
                       /\ conr'[k].results = conr[k].results
                       /\ conr'[k].turns = conr[k].turns
                       /\ conr'[k].pc \in {"working", "reporting"} => conr'[k].job \in Caller

LEMMA QuietKeeps == ASSUME IInv, Quiet PROVE IInv'
<1>1. TypeOK'
    BY DEF IInv, Quiet, TypeOK, LinkRecord, ConnectorRecord
<1>2. TurnsInv' /\ WorkInv'
    BY DEF IInv, Quiet, TurnsInv, WorkInv
<1>3. CallerInv'
    <2>1. \A c \in Caller : job[c].future \in {"answer", "error"} => job[c].on \in Link
        BY DEF IInv, CallerInv, Unfinished
    <2> QED BY <2>1 DEF IInv, Quiet, CallerInv
<1>4. OpenJobIsCurrent' /\ GivenUpIsFenced'
    <2>1. \A c \in Caller : job[c].open \/ job[c].future = "unknown" => job[c].on \in Link
        BY DEF IInv, CallerInv, OpenJobIsCurrent, Unfinished
    <2> QED BY <2>1 DEF IInv, Quiet, OpenJobIsCurrent, GivenUpIsFenced
<1> QED BY <1>1, <1>2, <1>3, <1>4 DEF IInv

\* One connection's record, or one connector, is replaced.
LinkBecomes(k, r) == link' = [d \in Link |-> IF d = k THEN r ELSE link[d]]
ConnectorBecomes(k, q) == conr' = [d \in Link |-> IF d = k THEN q ELSE conr[d]]

LEMMA QuietStep ==
    ASSUME IInv, NEW k \in Link, NEW r \in LinkRecord, NEW q \in ConnectorRecord,
           LinkBecomes(k, r), r.job = link[k].job, r.blocked = link[k].blocked,
           ConnectorBecomes(k, q), q.results = conr[k].results, q.turns = conr[k].turns,
           q.pc \in {"working", "reporting"} => q.job \in Caller,
           UNCHANGED <<paired, registered, job, caller, told>>
    PROVE  Quiet
<1>1. link \in [Link -> LinkRecord] /\ conr \in [Link -> ConnectorRecord] /\ WorkInv
    BY Parts DEF IInv
<1>2. link' \in [Link -> LinkRecord] /\ conr' \in [Link -> ConnectorRecord]
    BY <1>1 DEF LinkBecomes, ConnectorBecomes
<1> QED BY <1>1, <1>2 DEF Quiet, WorkInv, LinkBecomes, ConnectorBecomes

LEMMA ConnectQuiet == ASSUME IInv, NEW k \in Link, Connect(k) PROVE Quiet
<1>1. link \in [Link -> LinkRecord] /\ conr \in [Link -> ConnectorRecord]
    BY Parts DEF IInv
<1>2. PICK pc \in {"ready", "stopped"} : conr' = [conr EXCEPT ![k].pc = pc]
    BY DEF Connect
<1> DEFINE r == [link[k] EXCEPT !.connector = TRUE, !.seen = TRUE]
           q == [conr[k] EXCEPT !.pc = pc]
<1>3. LinkBecomes(k, r) /\ ConnectorBecomes(k, q)
    BY <1>1, <1>2 DEF Connect, LinkBecomes, ConnectorBecomes
<1>4. r \in LinkRecord /\ r.job = link[k].job /\ r.blocked = link[k].blocked
    BY <1>1 DEF LinkRecord
<1>5. q \in ConnectorRecord /\ q.results = conr[k].results /\ q.turns = conr[k].turns
      /\ q.pc \notin {"working", "reporting"}
    BY <1>1 DEF ConnectorRecord
<1> HIDE DEF r, q
<1> QED BY <1>3, <1>4, <1>5, QuietStep DEF Connect

LEMMA SilenceQuiet == ASSUME IInv, NEW k \in Link, Silence(k) PROVE Quiet
<1>1. link \in [Link -> LinkRecord] /\ conr \in [Link -> ConnectorRecord] /\ WorkInv
    BY Parts DEF IInv
<1> DEFINE r == [link[k] EXCEPT !.seen = FALSE]
<1>2. LinkBecomes(k, r) /\ ConnectorBecomes(k, conr[k])
    BY <1>1 DEF Silence, LinkBecomes, ConnectorBecomes
<1>3. r \in LinkRecord /\ r.job = link[k].job /\ r.blocked = link[k].blocked
    BY <1>1 DEF LinkRecord
<1> HIDE DEF r
<1> QED BY <1>1, <1>2, <1>3, QuietStep DEF Silence, WorkInv

\* The connector's process goes to another place.
LEMMA ConnectorQuiet ==
    ASSUME IInv, NEW k \in Link, NEW pc \in {"ready", "polling", "stopped", "turned_away"}
    PROVE  /\ [conr[k] EXCEPT !.pc = pc] \in ConnectorRecord
           /\ [conr[k] EXCEPT !.pc = pc].results = conr[k].results
           /\ [conr[k] EXCEPT !.pc = pc].turns = conr[k].turns
           /\ [conr[k] EXCEPT !.pc = pc].pc \notin {"working", "reporting"}
<1>1. conr[k] \in ConnectorRecord
    BY Parts DEF IInv
<1> QED BY <1>1 DEF ConnectorRecord

LEMMA PollQuiet == ASSUME IInv, NEW k \in Link, Poll(k) PROVE Quiet
<1>1. link \in [Link -> LinkRecord] /\ conr \in [Link -> ConnectorRecord] /\ 0 \in 0..MaxFailures
    BY Parts, BoundsAssumption DEF IInv
<1> DEFINE r == [link[k] EXCEPT !.waiter = TRUE, !.seen = TRUE]
           q(pc) == [conr[k] EXCEPT !.pc = pc]
<1>2. r \in LinkRecord /\ r.job = link[k].job /\ r.blocked = link[k].blocked
    BY <1>1 DEF LinkRecord
<1>3. \A pc \in {"stopped", "turned_away", "polling"} :
        /\ q(pc) \in ConnectorRecord /\ q(pc).results = conr[k].results /\ q(pc).turns = conr[k].turns
        /\ q(pc).pc \notin {"working", "reporting"}
    BY <1>1, ConnectorQuiet
<1>4. \/ LinkBecomes(k, link[k]) /\ \E pc \in {"stopped", "turned_away"} : ConnectorBecomes(k, q(pc))
      \/ LinkBecomes(k, r) /\ ConnectorBecomes(k, q("polling"))
    BY <1>1 DEF Poll, Stopped, LinkBecomes, ConnectorBecomes
<1>5. link[k] \in LinkRecord
    BY <1>1
<1> HIDE DEF r, q
<1> QED BY <1>2, <1>3, <1>4, <1>5, QuietStep DEF Poll

LEMMA PollEndsQuiet == ASSUME IInv, NEW k \in Link, PollEnds(k) PROVE Quiet
<1>1. link \in [Link -> LinkRecord] /\ conr \in [Link -> ConnectorRecord] /\ 0 \in 0..MaxFailures /\ WorkInv
    BY Parts, BoundsAssumption DEF IInv
<1> DEFINE r == [link[k] EXCEPT !.waiter = FALSE, !.seen = IF registered = k THEN TRUE ELSE @]
           handed == [conr[k] EXCEPT !.pc = "working", !.failures = 0, !.job = link[k].job]
           woken == [conr[k] EXCEPT !.pc = "ready", !.failures = 0]
           stopped == [conr[k] EXCEPT !.pc = "stopped"]
<1>2. r \in LinkRecord /\ r.job = link[k].job /\ r.blocked = link[k].blocked
    BY <1>1 DEF LinkRecord
<1>3. /\ handed \in ConnectorRecord /\ handed.results = conr[k].results
      /\ handed.turns = conr[k].turns /\ handed.job = link[k].job
    BY <1>1 DEF LinkRecord, ConnectorRecord
<1>4. /\ woken \in ConnectorRecord /\ woken.results = conr[k].results
      /\ woken.turns = conr[k].turns /\ woken.pc \notin {"working", "reporting"}
    BY <1>1 DEF ConnectorRecord
<1>5. /\ stopped \in ConnectorRecord /\ stopped.results = conr[k].results
      /\ stopped.turns = conr[k].turns /\ stopped.pc \notin {"working", "reporting"}
    BY <1>1, ConnectorQuiet
<1>6. LinkBecomes(k, r)
    BY <1>1 DEF PollEnds, LinkBecomes
<1>7. \/ ConnectorBecomes(k, conr[k])
      \/ ConnectorBecomes(k, woken)
      \/ ConnectorBecomes(k, stopped)
      \/ ConnectorBecomes(k, handed) /\ link[k].job \in Caller
    <2>1. Busy(k) => link[k].job \in Caller
        BY <1>1 DEF Busy, LinkRecord
    <2> QED BY <1>1, <2>1 DEF PollEnds, Stopped, ConnectorBecomes
<1>8. conr[k] \in ConnectorRecord
    BY <1>1
<1> HIDE DEF r, handed, woken, stopped
<1> QED BY <1>1, <1>2, <1>3, <1>4, <1>6, <1>7, <1>8, <1>5, QuietStep DEF PollEnds, WorkInv

LEMMA PollLostQuiet ==
    ASSUME IInv, NEW k \in Link, PollLost(k) \/ DeliveryLost(k)
    PROVE  Quiet
<1>1. link \in [Link -> LinkRecord] /\ conr \in [Link -> ConnectorRecord]
    BY Parts DEF IInv
<1> DEFINE r == [link[k] EXCEPT !.waiter = FALSE]
           q(pc, n) == [conr[k] EXCEPT !.pc = pc, !.failures = n]
           pc0 == IF conr[k].failures = MaxFailures THEN "stopped" ELSE "ready"
           n0 == IF conr[k].failures = MaxFailures THEN conr[k].failures ELSE conr[k].failures + 1
<1>2. r \in LinkRecord /\ r.job = link[k].job /\ r.blocked = link[k].blocked
      /\ link[k] \in LinkRecord
    BY <1>1 DEF LinkRecord
<1>3. pc0 \in {"ready", "stopped"} /\ n0 \in 0..MaxFailures
    BY <1>1, BoundsAssumption DEF ConnectorRecord
<1>4. LinkBecomes(k, r) \/ LinkBecomes(k, link[k])
    BY <1>1 DEF PollLost, DeliveryLost, LinkBecomes
<1>5. ConnectorBecomes(k, q(pc0, n0))
    BY <1>1 DEF PollLost, DeliveryLost, ConnectorBecomes
<1>6. \A pc \in {"ready", "stopped"}, n \in 0..MaxFailures :
         /\ q(pc, n) \in ConnectorRecord /\ q(pc, n).results = conr[k].results
         /\ q(pc, n).turns = conr[k].turns /\ q(pc, n).pc \notin {"working", "reporting"}
    BY <1>1 DEF ConnectorRecord
<1>7. PICK pc \in {"ready", "stopped"}, n \in 0..MaxFailures : ConnectorBecomes(k, q(pc, n))
    BY <1>3, <1>5
<1> HIDE DEF r, q
<1> QED BY <1>2, <1>4, <1>6, <1>7, QuietStep DEF PollLost, DeliveryLost

LEMMA KilledQuiet == ASSUME IInv, NEW k \in Link, Killed(k) PROVE Quiet
<1>1. link \in [Link -> LinkRecord] /\ conr \in [Link -> ConnectorRecord] /\ 0 \in 0..MaxFailures
    BY Parts, BoundsAssumption DEF IInv
<1> DEFINE q == [conr[k] EXCEPT !.pc = "stopped"]
<1>2. LinkBecomes(k, link[k]) /\ ConnectorBecomes(k, q) /\ link[k] \in LinkRecord
    BY <1>1 DEF Killed, Stopped, LinkBecomes, ConnectorBecomes
<1>3. /\ q \in ConnectorRecord /\ q.results = conr[k].results /\ q.turns = conr[k].turns
      /\ q.pc \notin {"working", "reporting"}
    BY <1>1, ConnectorQuiet
<1> HIDE DEF q
<1> QED BY <1>2, <1>3, QuietStep DEF Killed

-----------------------------------------------------------------------------
(* One turn of the connector.                                              *)

LEMMA GenerateKeeps == ASSUME IInv, NEW k \in Link, Generate(k) PROVE IInv'
<1>1. /\ link \in [Link -> LinkRecord] /\ conr \in [Link -> ConnectorRecord]
      /\ conr[k].job \in Caller
    BY Parts DEF IInv, WorkInv, Generate
<1>2. 0 \in 0..MaxReports
    BY BoundsAssumption
<1> DEFINE j == conr[k].job
<1>3. CASE conr[k].results[j] # Unfinished
    <2> DEFINE q == [conr[k] EXCEPT !.pc = "reporting", !.reports = 0]
    <2>1. ConnectorBecomes(k, q) /\ LinkBecomes(k, link[k]) /\ link[k] \in LinkRecord
        BY <1>1, <1>3 DEF Generate, ConnectorBecomes, LinkBecomes
    <2>2. /\ q \in ConnectorRecord /\ q.results = conr[k].results /\ q.turns = conr[k].turns
          /\ q.job \in Caller
        BY <1>1, <1>2 DEF ConnectorRecord
    <2> HIDE DEF q
    <2> QED BY <2>1, <2>2, QuietStep, QuietKeeps DEF Generate
<1>4. CASE conr[k].results[j] = Unfinished
    <2>1. PICK out \in Outcome :
             conr' = [conr EXCEPT ![k].pc = "reporting", ![k].reports = 0,
                                  ![k].results[j] = out, ![k].turns[j] = @ + 1]
        BY <1>4 DEF Generate
    <2> DEFINE res == [conr[k].results EXCEPT ![j] = out]
               trn == [conr[k].turns EXCEPT ![j] = @ + 1]
               q == [conr[k] EXCEPT !.pc = "reporting", !.reports = 0, !.results = res, !.turns = trn]
    <2>2. ConnectorBecomes(k, q)
        BY <1>1, <2>1 DEF ConnectorBecomes, ConnectorRecord
    <2>3. conr[k].turns[j] = 0
        BY <1>1, <1>4 DEF IInv, TurnsInv
    <2>4. /\ res \in [Caller -> Outcome \cup {Unfinished}] /\ trn \in [Caller -> 0..2]
          /\ \A c \in Caller : /\ trn[c] <= 1
                               /\ res[c] = Unfinished => trn[c] = 0
                               /\ conr[k].results[c] # Unfinished => res[c] = conr[k].results[c]
        BY <1>1, <1>4, <2>3 DEF IInv, TurnsInv, ConnectorRecord, Outcome, Unfinished
    <2> HIDE DEF res, trn
    <2>5. /\ q \in ConnectorRecord /\ q.results = res /\ q.turns = trn /\ q.job \in Caller
        BY <1>1, <1>2, <2>4 DEF ConnectorRecord
    <2> HIDE DEF q
    <2>6. TypeOK'
        BY <1>1, <2>2, <2>5 DEF Generate, IInv, TypeOK, ConnectorBecomes, ConnectorRecord
    <2>7. TurnsInv' /\ WorkInv'
        BY <1>1, <2>2, <2>4, <2>5 DEF IInv, TurnsInv, WorkInv, ConnectorBecomes
    <2>8. CallerInv'
        <3>1. ASSUME NEW c \in Caller, job[c].future \in {"answer", "error"}
              PROVE  conr'[job[c].on].results[c] = job[c].future
            <4>1. job[c].on \in Link /\ conr[job[c].on].results[c] = job[c].future
                BY <3>1 DEF IInv, CallerInv, Unfinished
            <4> QED BY <3>1, <4>1, <2>2, <2>4, <2>5 DEF ConnectorBecomes, Unfinished
        <3> QED BY <3>1 DEF Generate, IInv, CallerInv
    <2>9. OpenJobIsCurrent' /\ GivenUpIsFenced'
        BY DEF Generate, IInv, OpenJobIsCurrent, GivenUpIsFenced
    <2> QED BY <2>6, <2>7, <2>8, <2>9 DEF IInv
<1> QED BY <1>3, <1>4

-----------------------------------------------------------------------------
(* The callers.                                                            *)

LEMMA ValidateKeeps == ASSUME IInv, NEW c \in Caller, Validate(c) PROVE IInv'
<1>1. registered \in Link /\ job \in [Caller -> JobRecord] /\ caller \in [Caller -> CallerState]
    BY Parts, RegisteredIsLink DEF IInv, Validate, Ready
<1>2. caller' \in [Caller -> CallerState] /\ job' \in [Caller -> JobRecord]
    BY <1>1 DEF Validate, JobRecord, CallerState
<1>3. TypeOK'
    BY <1>2, Parts DEF IInv, TypeOK, Validate, JobRecord, CallerState
<1>4. TurnsInv' /\ WorkInv'
    BY DEF IInv, TurnsInv, WorkInv, Validate
<1>5. /\ job'[c].on = registered /\ job'[c].future = Unfinished /\ ~job'[c].open
      /\ \A d \in Caller : d # c => job'[d] = job[d] /\ caller'[d] = caller[d]
    BY <1>1 DEF IInv, CallerInv, OpenJobIsCurrent, Validate, JobRecord
<1>6. CallerInv' /\ OpenJobIsCurrent' /\ GivenUpIsFenced'
    BY <1>1, <1>5 DEF IInv, CallerInv, OpenJobIsCurrent, GivenUpIsFenced, Validate, Unfinished
<1> QED BY <1>3, <1>4, <1>6 DEF IInv

LEMMA NewJobKeeps == ASSUME IInv, NEW c \in Caller, NewJob(c) PROVE IInv'
<1>1. /\ registered \in Link /\ job \in [Caller -> JobRecord] /\ caller \in [Caller -> CallerState]
      /\ link \in [Link -> LinkRecord]
    BY Parts, RegisteredIsLink DEF IInv, NewJob, Ready
<1>2. /\ link' \in [Link -> LinkRecord] /\ link'[registered].job = c
      /\ \A k \in Link : link'[k].blocked = link[k].blocked
    BY <1>1 DEF NewJob, LinkRecord
<1>3. /\ caller' \in [Caller -> CallerState] /\ job' \in [Caller -> JobRecord]
      /\ caller'[c] = "waiting" /\ job'[c].on = job[c].on /\ job'[c].future = job[c].future
      /\ \A d \in Caller : d # c => job'[d] = job[d] /\ caller'[d] = caller[d]
    BY <1>1 DEF NewJob, JobRecord, CallerState
<1>4. TypeOK'
    BY <1>2, <1>3, Parts DEF IInv, TypeOK, NewJob, JobRecord, LinkRecord, CallerState
<1>5. TurnsInv' /\ WorkInv'
    BY DEF IInv, TurnsInv, WorkInv, NewJob
<1>6. CallerInv'
    BY <1>3 DEF IInv, CallerInv, NewJob, Unfinished
<1>7. \A d \in Caller : ~job[d].open
    BY <1>1, BoundsAssumption DEF IInv, OpenJobIsCurrent, NewJob, Ready, Busy, Caller
<1>8. OpenJobIsCurrent'
    BY <1>1, <1>2, <1>3, <1>7 DEF OpenJobIsCurrent, NewJob, Ready, Connected
<1>9. GivenUpIsFenced'
    <2>1. \A d \in Caller : job[d].future = "unknown" => job[d].on \in Link
        BY DEF IInv, CallerInv, Unfinished
    <2> QED BY <1>2, <1>3, <2>1 DEF IInv, GivenUpIsFenced
<1> QED BY <1>4, <1>5, <1>6, <1>8, <1>9 DEF IInv

\* A step of a caller that touches neither its job nor the connections.
LEMMA CallerQuiet ==
    ASSUME IInv, NEW c \in Caller, Refused(c) \/ Answered(c) \/ TimesOut(c)
    PROVE  IInv'
<1>1. /\ caller \in [Caller -> CallerState] /\ told \in [Caller -> Told]
      /\ job \in [Caller -> JobRecord]
    BY Parts DEF IInv
<1>2. /\ UNCHANGED <<paired, registered, link, job, conr>> /\ caller[c] \in {"creating", "waiting"}
      /\ \/ told' = [told EXCEPT ![c] = "refused"] /\ caller' = [caller EXCEPT ![c] = "returned"]
            /\ caller[c] = "creating"
         \/ told' = [told EXCEPT ![c] = job[c].future] /\ job[c].future # Unfinished
            /\ caller' = [caller EXCEPT ![c] = "releasing"]
         \/ told' = told /\ caller' = [caller EXCEPT ![c] = "expired"] /\ caller[c] = "waiting"
    BY DEF Refused, Answered, TimesOut
<1>3. caller' \in [Caller -> CallerState] /\ told' \in [Caller -> Told]
    BY <1>1, <1>2 DEF CallerState, Told, JobRecord
<1>4. TypeOK'
    BY <1>2, <1>3 DEF IInv, TypeOK, CallerState, Told
<1>5. TurnsInv' /\ WorkInv' /\ GivenUpIsFenced'
    BY <1>2 DEF IInv, TurnsInv, WorkInv, GivenUpIsFenced
<1>6. job[c].open => caller[c] = "waiting" /\ job[c].future = Unfinished
    BY <1>2 DEF IInv, CallerInv, OpenJobIsCurrent
<1>7. /\ caller'[c] \in {"returned", "releasing", "expired"}
      /\ job[c].open => caller'[c] = "expired"
      /\ told'[c] \in {"answer", "error"} => told'[c] = job[c].future
      /\ \A d \in Caller : d # c => caller'[d] = caller[d] /\ told'[d] = told[d]
    BY <1>1, <1>2, <1>6 DEF IInv, CallerInv
<1>8. CallerInv' /\ OpenJobIsCurrent'
    BY <1>2, <1>7 DEF IInv, CallerInv, OpenJobIsCurrent
<1> QED BY <1>4, <1>5, <1>8 DEF IInv

LEMMA ReleaseKeeps == ASSUME IInv, NEW c \in Caller, Release(c) PROVE IInv'
<1>1. /\ link \in [Link -> LinkRecord] /\ caller \in [Caller -> CallerState]
      /\ job[c].on \in Link /\ ~job[c].open
    BY Parts DEF IInv, Release, CallerInv, OpenJobIsCurrent
<1>2. /\ caller' \in [Caller -> CallerState] /\ caller'[c] = "returned"
      /\ \A d \in Caller : d # c => caller'[d] = caller[d]
    BY <1>1 DEF Release, CallerState
<1>3. /\ link' \in [Link -> LinkRecord]
      /\ \A k \in Link : /\ link'[k].blocked = link[k].blocked
                         /\ link[k].job # c => link'[k].job = link[k].job
    BY <1>1 DEF Release, LinkRecord
<1>4. TypeOK'
    BY <1>2, <1>3 DEF IInv, TypeOK, Release, LinkRecord, CallerState
<1>5. TurnsInv' /\ WorkInv' /\ CallerInv'
    BY <1>2 DEF IInv, TurnsInv, WorkInv, CallerInv, Release
<1>6. \A d \in Caller : job[d].open \/ job[d].future = "unknown" => job[d].on \in Link
    BY DEF IInv, CallerInv, OpenJobIsCurrent, Unfinished
<1>7. OpenJobIsCurrent' /\ GivenUpIsFenced'
    BY <1>1, <1>2, <1>3, <1>6 DEF IInv, OpenJobIsCurrent, GivenUpIsFenced, Release
<1> QED BY <1>4, <1>5, <1>7 DEF IInv

-----------------------------------------------------------------------------
(* The end of a job, and of a registration.                                *)

\* There is one open job, the registered connection's.
LEMMA OneOpenJob ==
    ASSUME IInv, NEW c \in Caller, job[c].open
    PROVE  /\ registered \in Link /\ job[c].on = registered /\ link[registered].job = c
           /\ Busy(registered) /\ \A d \in Caller : job[d].open => d = c
BY BoundsAssumption DEF IInv, OpenJobIsCurrent, CallerInv, Busy, Caller

LEMMA EndKeeps ==
    ASSUME IInv, NEW c \in Caller, NEW out \in Outcome \cup {Unfinished}, job[c].open,
           job' = [job EXCEPT ![c].open = FALSE, ![c].future = out],
           link' \in [Link -> LinkRecord], conr' \in [Link -> ConnectorRecord],
           \A k \in Link : /\ link[k].blocked => link'[k].blocked
                          /\ conr'[k].results = conr[k].results /\ conr'[k].turns = conr[k].turns,
           WorkInv',
           out = "unknown" => link'[registered].blocked,
           out # "unknown" => conr[registered].results[c] = out,
           paired' \in 0..MaxPairs, registered' \in 0..paired',
           caller' \in [Caller -> CallerState], told' \in [Caller -> Told],
           \A d \in Caller : \/ caller'[d] = caller[d] /\ told'[d] = told[d]
                             \/ d = c /\ caller'[d] = "releasing" /\ told'[d] = "unknown"
    PROVE  IInv'
<1>1. /\ registered \in Link /\ job[c].on = registered
      /\ \A d \in Caller : job[d].open => d = c
    BY OneOpenJob
<1>2. job \in [Caller -> JobRecord] /\ caller[c] \in {"waiting", "expired"}
    BY Parts DEF IInv, OpenJobIsCurrent
<1>3. /\ job' \in [Caller -> JobRecord] /\ job'[c].on = registered /\ job'[c].future = out
      /\ ~job'[c].open /\ \A d \in Caller : d # c => job'[d] = job[d]
    BY <1>1, <1>2 DEF JobRecord
<1>4. TypeOK'
    BY <1>3 DEF TypeOK, LinkRecord, JobRecord, ConnectorRecord, CallerState, Told
<1>5. TurnsInv'
    BY DEF IInv, TurnsInv
<1>6. \A d \in Caller : job[d].future # Unfinished => job[d].on \in Link
    BY DEF IInv, CallerInv
<1>7. told[c] \notin {"answer", "error"}
    BY DEF IInv, CallerInv, Unfinished
<1>8. CallerInv'
    <2>1. ASSUME NEW d \in Caller, d # c
          PROVE  /\ caller'[d] # "idle" => job'[d].on \in Link
                 /\ caller'[d] \in {"idle", "creating"} => job'[d].future = Unfinished
                 /\ job'[d].open => job'[d].future = Unfinished
                 /\ job'[d].future \in {"answer", "error"}
                        => conr'[job'[d].on].results[d] = job'[d].future
                 /\ told'[d] \in {"answer", "error"} => told'[d] = job'[d].future
        BY <1>3, <1>6, <2>1 DEF IInv, CallerInv, Unfinished
    <2>2. /\ caller'[c] # "idle" => job'[c].on \in Link
          /\ caller'[c] \notin {"idle", "creating"} /\ ~job'[c].open
          /\ job'[c].future \in {"answer", "error"}
                 => conr'[job'[c].on].results[c] = job'[c].future
          /\ told'[c] \notin {"answer", "error"}
        BY <1>1, <1>2, <1>3, <1>7
    <2> QED BY <2>1, <2>2 DEF CallerInv
<1>9. OpenJobIsCurrent'
    BY <1>1, <1>3 DEF OpenJobIsCurrent
<1>10. GivenUpIsFenced'
    BY <1>1, <1>3, <1>6 DEF IInv, GivenUpIsFenced, Unfinished
<1> QED BY <1>4, <1>5, <1>8, <1>9, <1>10 DEF IInv

\* A connection that is blocked is blocked for good.
LEMMA BlockedStays ==
    ASSUME link \in [Link -> LinkRecord], NEW k \in Link,
           link' = [link EXCEPT ![k].blocked = TRUE]
    PROVE  /\ link' \in [Link -> LinkRecord] /\ link'[k].blocked
           /\ \A d \in Link : link[d].blocked => link'[d].blocked
<1> DEFINE r == [link[k] EXCEPT !.blocked = TRUE]
<1>1. LinkBecomes(k, r)
    BY DEF LinkBecomes
<1>2. r \in LinkRecord /\ r.blocked = TRUE
    BY DEF LinkRecord
<1> HIDE DEF r
<1>3. link' \in [Link -> LinkRecord] /\ link'[k] = r
      /\ \A d \in Link : d # k => link'[d] = link[d]
    BY <1>1, <1>2 DEF LinkBecomes
<1>4. link'[k].blocked = TRUE
    BY <1>2, <1>3
<1>5. \A d \in Link : link[d].blocked => link'[d].blocked
    BY <1>3, <1>4
<1> QED BY <1>3, <1>4, <1>5

LEMMA BusyIsOpen ==
    ASSUME IInv, registered # 0, Busy(registered)
    PROVE  link[registered].job \in Caller /\ job[link[registered].job].open
BY Parts, RegisteredIsLink DEF IInv, Busy, LinkRecord

\* The registered connection leaves, for another one or for none.
LEMMA RemovedKeeps == ASSUME IInv, Pair \/ Remove PROVE IInv'
<1>1. /\ Removed(registered) /\ UNCHANGED <<caller, told, conr>>
      /\ paired' \in 0..MaxPairs /\ registered' \in 0..paired'
    <2>1. paired \in 0..MaxPairs /\ registered \in 0..paired
        BY Parts DEF IInv
    <2> QED BY <2>1, BoundsAssumption DEF Pair, Remove
<1>2. /\ link \in [Link -> LinkRecord] /\ job \in [Caller -> JobRecord]
      /\ caller \in [Caller -> CallerState] /\ told \in [Caller -> Told]
      /\ conr \in [Link -> ConnectorRecord]
    BY Parts DEF IInv
<1>3. WorkInv' /\ TurnsInv'
    BY <1>1 DEF IInv, WorkInv, TurnsInv
<1>4. CASE registered # 0 /\ Busy(registered)
    <2> DEFINE c == link[registered].job
    <2>1. registered \in Link /\ c \in Caller /\ job[c].open
        BY <1>4, BusyIsOpen, RegisteredIsLink DEF IInv
    <2>2. /\ link' = [link EXCEPT ![registered].blocked = TRUE]
          /\ job' = [job EXCEPT ![c].open = FALSE, ![c].future = "unknown"]
        BY <1>1, <1>4 DEF Removed
    <2>3. /\ link' \in [Link -> LinkRecord] /\ link'[registered].blocked
          /\ \A k \in Link : link[k].blocked => link'[k].blocked
        BY <1>2, <2>1, <2>2, BlockedStays
    <2>4. /\ conr' \in [Link -> ConnectorRecord]
          /\ \A k \in Link : conr'[k].results = conr[k].results /\ conr'[k].turns = conr[k].turns
          /\ caller' \in [Caller -> CallerState] /\ told' \in [Caller -> Told]
          /\ \A d \in Caller : caller'[d] = caller[d] /\ told'[d] = told[d]
          /\ "unknown" \in Outcome \cup {Unfinished}
        BY <1>1, <1>2 DEF Outcome
    <2> HIDE DEF c
    <2> QED BY <1>1, <1>3, <2>1, <2>2, <2>3, <2>4, EndKeeps
<1>5. CASE ~(registered # 0 /\ Busy(registered))
    <2>1. \A c \in Caller : ~job[c].open
        BY <1>5, OneOpenJob, BoundsAssumption DEF Link
    <2>2. /\ job' = job /\ link' \in [Link -> LinkRecord]
          /\ \A k \in Link : link[k].blocked => link'[k].blocked
        <3>1. CASE registered = 0
            BY <1>1, <1>2, <3>1 DEF Removed
        <3>2. CASE registered # 0
            <4>1. registered \in Link /\ link' = [link EXCEPT ![registered].blocked = TRUE] /\ job' = job
                BY <1>1, <1>5, <3>2, RegisteredIsLink DEF Removed, IInv
            <4> QED BY <1>2, <4>1, BlockedStays
        <3> QED BY <3>1, <3>2
    <2>3. TypeOK'
        BY <1>1, <1>2, <2>2 DEF TypeOK, LinkRecord, JobRecord, ConnectorRecord, CallerState, Told
    <2>4. CallerInv' /\ OpenJobIsCurrent'
        BY <1>1, <2>1, <2>2 DEF IInv, CallerInv, OpenJobIsCurrent
    <2>5. \A c \in Caller : job[c].future = "unknown" => job[c].on \in Link
        BY DEF IInv, CallerInv, Unfinished
    <2> QED BY <1>3, <2>2, <2>3, <2>4, <2>5 DEF IInv, GivenUpIsFenced
<1> QED BY <1>4, <1>5

LEMMA UnknownKeeps == ASSUME IInv, NEW c \in Caller, Unknown(c) PROVE IInv'
<1>1. /\ link \in [Link -> LinkRecord] /\ job \in [Caller -> JobRecord]
      /\ caller \in [Caller -> CallerState] /\ told \in [Caller -> Told]
      /\ conr \in [Link -> ConnectorRecord]
      /\ paired \in 0..MaxPairs /\ registered \in 0..paired
    BY Parts DEF IInv
<1>2. /\ caller' \in [Caller -> CallerState] /\ told' \in [Caller -> Told]
      /\ caller'[c] = "releasing" /\ told'[c] = "unknown" /\ caller[c] \in {"expired", "waiting"}
      /\ \A d \in Caller : d # c => caller'[d] = caller[d] /\ told'[d] = told[d]
    BY <1>1 DEF Unknown, CallerState, Told, Outcome
<1>3. WorkInv' /\ TurnsInv'
    BY DEF IInv, WorkInv, TurnsInv, Unknown
<1>4. CASE job[c].open
    <2>1. registered \in Link /\ job[c].on = registered
        BY <1>4, OneOpenJob
    <2>2. /\ link' = [link EXCEPT ![registered].blocked = TRUE]
          /\ job' = [job EXCEPT ![c].open = FALSE, ![c].future = "unknown"]
        BY <1>4, <2>1 DEF Unknown
    <2>3. /\ link' \in [Link -> LinkRecord] /\ link'[registered].blocked
          /\ \A k \in Link : link[k].blocked => link'[k].blocked
        BY <1>1, <2>1, <2>2, BlockedStays
    <2>4. /\ conr' \in [Link -> ConnectorRecord] /\ paired' \in 0..MaxPairs /\ registered' \in 0..paired'
          /\ \A k \in Link : conr'[k].results = conr[k].results /\ conr'[k].turns = conr[k].turns
          /\ "unknown" \in Outcome \cup {Unfinished}
        BY <1>1 DEF Unknown, Outcome
    <2>5. \A d \in Caller : \/ caller'[d] = caller[d] /\ told'[d] = told[d]
                            \/ d = c /\ caller'[d] = "releasing" /\ told'[d] = "unknown"
        BY <1>2
    <2>6. /\ \A k \in Link : /\ link[k].blocked => link'[k].blocked
                             /\ conr'[k].results = conr[k].results /\ conr'[k].turns = conr[k].turns
          /\ caller' \in [Caller -> CallerState] /\ told' \in [Caller -> Told]
          /\ link' \in [Link -> LinkRecord] /\ link'[registered].blocked
        BY <1>2, <2>3, <2>4
    <2> QED BY <1>3, <1>4, <2>2, <2>4, <2>5, <2>6, EndKeeps
<1>5. CASE ~job[c].open
    <2>1. UNCHANGED <<paired, registered, link, job, conr>>
        BY <1>5 DEF Unknown
    <2>2. TypeOK'
        BY <1>2, <2>1 DEF IInv, TypeOK, CallerState, Told
    <2>3. CallerInv' /\ OpenJobIsCurrent' /\ GivenUpIsFenced'
        BY <1>2, <1>5, <2>1 DEF IInv, CallerInv, OpenJobIsCurrent, GivenUpIsFenced
    <2> QED BY <1>3, <2>2, <2>3 DEF IInv
<1> QED BY <1>4, <1>5

-----------------------------------------------------------------------------
(* The reports of the connector.                                           *)

\* A report that is handled ends the open job it is about, or nothing changes.
LEMMA ReportKeeps == ASSUME IInv, NEW k \in Link, Report(k) \/ ReportLost(k) PROVE IInv'
<1>1. /\ link \in [Link -> LinkRecord] /\ job \in [Caller -> JobRecord]
      /\ caller \in [Caller -> CallerState] /\ told \in [Caller -> Told]
      /\ conr \in [Link -> ConnectorRecord]
      /\ paired \in 0..MaxPairs /\ registered \in 0..paired
      /\ UNCHANGED <<paired, registered, caller, told>>
    BY Parts DEF IInv, Report, ReportLost
<1> DEFINE j == conr[k].job
           out == conr[k].results[j]
<1>2. j \in Caller /\ out \in Outcome \cup {Unfinished} /\ WorkInv
    BY <1>1 DEF IInv, WorkInv, Report, ReportLost, ConnectorRecord
<1>3. PICK q \in ConnectorRecord :
        /\ ConnectorBecomes(k, q) /\ q.results = conr[k].results /\ q.turns = conr[k].turns
        /\ q.job = j
    <2> DEFINE q1(pc) == [conr[k] EXCEPT !.pc = pc]
               n == IF conr[k].reports = MaxReports THEN conr[k].reports ELSE conr[k].reports + 1
               q2(pc) == [conr[k] EXCEPT !.reports = n, !.pc = pc]
    <2>1. n \in 0..MaxReports
        <3>1. conr[k].reports \in 0..MaxReports
            BY <1>1 DEF ConnectorRecord
        <3> QED BY <3>1, BoundsAssumption
    <2> HIDE DEF n
    <2>2. \A pc \in {"ready", "stopped", conr[k].pc} :
            /\ q1(pc) \in ConnectorRecord /\ q2(pc) \in ConnectorRecord
            /\ q1(pc).results = conr[k].results /\ q2(pc).results = conr[k].results
            /\ q1(pc).turns = conr[k].turns /\ q2(pc).turns = conr[k].turns
            /\ q1(pc).job = j /\ q2(pc).job = j
        BY <1>1, <2>1 DEF ConnectorRecord
    <2>3. \/ \E pc \in {"ready", "stopped"} : ConnectorBecomes(k, q1(pc))
          \/ \E pc \in {"stopped", conr[k].pc} : ConnectorBecomes(k, q2(pc))
        BY <1>1 DEF Report, ReportLost, Stopped, ConnectorBecomes, n
    <2> HIDE DEF q1, q2
    <2> QED BY <2>2, <2>3
<1>4. /\ conr' \in [Link -> ConnectorRecord] /\ WorkInv'
      /\ \A d \in Link : conr'[d].results = conr[d].results /\ conr'[d].turns = conr[d].turns
    BY <1>1, <1>2, <1>3 DEF ConnectorBecomes, WorkInv
<1>5. UNCHANGED <<link, job>> \/ (Accepts(k, j) /\ Result(k, j, out))
    BY DEF Report, ReportLost
<1> HIDE DEF j, out
<1>6. CASE UNCHANGED <<link, job>>
    BY <1>1, <1>2, <1>3, <1>6, QuietStep, QuietKeeps DEF LinkBecomes, j
<1>7. CASE Accepts(k, j) /\ Result(k, j, out)
    <2> DEFINE ends == j \notin link[k].receipts /\ job[link[k].job].open
               halts == link[k].blocked \/ (ends /\ out = "unknown")
               r == [link[k] EXCEPT !.seen = TRUE, !.receipts = @ \cup {j}, !.blocked = halts]
    <2>1. /\ registered = k
          /\ job' = IF ends THEN [job EXCEPT ![link[k].job].open = FALSE,
                                            ![link[k].job].future = out]
                    ELSE job
        BY <1>7 DEF Accepts, Result
    <2>2. link' = [link EXCEPT ![k].seen = TRUE, ![k].receipts = @ \cup {j},
                               ![k].blocked = @ \/ (ends /\ out = "unknown")]
        BY <1>7 DEF Result
    <2> HIDE DEF ends
    <2>3. LinkBecomes(k, r)
        <3> DEFINE r1 == [link[k] EXCEPT !.seen = TRUE]
                   r2 == [r1 EXCEPT !.receipts = @ \cup {j}]
                   r3 == [r2 EXCEPT !.blocked = @ \/ (ends /\ out = "unknown")]
        <3>1. r2.blocked = link[k].blocked
            BY <1>1 DEF LinkRecord
        <3>2. r3 = r
            BY <3>1
        <3> HIDE DEF r
        <3> QED BY <1>1, <2>2, <3>2 DEF LinkBecomes
    <2>4. halts \in BOOLEAN
        OBVIOUS
    <2>5. r \in LinkRecord /\ r.job = link[k].job /\ r.blocked = halts
        <3> HIDE DEF halts
        <3> QED BY <1>1, <1>2, <2>4 DEF LinkRecord
    <2>6. (link[k].blocked => halts) /\ (~ends => halts = link[k].blocked)
          /\ (ends /\ out = "unknown" => halts)
        BY <1>1 DEF LinkRecord
    <2> HIDE DEF r, halts
    <2>7. CASE ends
        <3>1. link[k].job = j /\ job[j].open
            BY <1>7, <2>7 DEF Accepts, ends
        <3>2. job[j].on = k
            BY <2>1, <3>1, <1>2, OneOpenJob
        <3>3. /\ link' \in [Link -> LinkRecord] /\ link'[k] = r
              /\ \A d \in Link : d # k => link'[d] = link[d]
            BY <1>1, <2>3, <2>5 DEF LinkBecomes
        <3>4. \A d \in Link : /\ link[d].blocked => link'[d].blocked
                             /\ conr'[d].results = conr[d].results /\ conr'[d].turns = conr[d].turns
            BY <1>4, <2>5, <2>6, <3>3
        <3>5. job' = [job EXCEPT ![j].open = FALSE, ![j].future = out]
            BY <2>1, <2>7, <3>1
        <3>6. /\ out = "unknown" => link'[registered].blocked
              /\ out # "unknown" => conr[registered].results[j] = out
            BY <2>1, <2>5, <2>6, <2>7, <3>3 DEF out
        <3>7. /\ paired' \in 0..MaxPairs /\ registered' \in 0..paired'
              /\ caller' \in [Caller -> CallerState] /\ told' \in [Caller -> Told]
              /\ \A d \in Caller : caller'[d] = caller[d] /\ told'[d] = told[d]
            BY <1>1
        <3> QED BY <1>2, <1>4, <3>1, <3>3, <3>4, <3>5, <3>6, <3>7, EndKeeps
    <2>8. CASE ~ends
        <3>1. job' = job
            BY <2>1, <2>8
        <3>2. r.blocked = link[k].blocked
            BY <2>5, <2>6, <2>8
        <3> QED BY <1>1, <1>2, <1>3, <2>3, <2>5, <3>1, <3>2, QuietStep, QuietKeeps
    <2> QED BY <2>7, <2>8
<1> QED BY <1>5, <1>6, <1>7

-----------------------------------------------------------------------------
(* The invariant and the theorems.                                         *)

LEMMA InitialInv == Init => IInv
<1> SUFFICES ASSUME Init PROVE IInv
    OBVIOUS
<1>1. 0 \in 0..MaxFailures /\ 0 \in 0..MaxReports /\ 0 \in 0..MaxPairs /\ 0 \in 0..2
    BY BoundsAssumption
<1>2. TypeOK
    BY <1>1 DEF Init, TypeOK, Unfinished
<1>3. TurnsInv /\ WorkInv
    BY DEF Init, TurnsInv, WorkInv
<1>4. CallerInv /\ OpenJobIsCurrent /\ GivenUpIsFenced
    BY DEF Init, CallerInv, OpenJobIsCurrent, GivenUpIsFenced, Unfinished
<1> QED BY <1>2, <1>3, <1>4 DEF IInv

LEMMA StepKeeps == ASSUME IInv, [Next]_vars PROVE IInv'
<1>1. CASE Pair \/ Remove
    BY <1>1, RemovedKeeps
<1>2. ASSUME NEW c \in Caller,
             \/ Validate(c) \/ NewJob(c) \/ Refused(c) \/ Answered(c)
             \/ TimesOut(c) \/ Unknown(c) \/ Release(c)
      PROVE  IInv'
    BY <1>2, ValidateKeeps, NewJobKeeps, CallerQuiet, UnknownKeeps, ReleaseKeeps
<1>3. ASSUME NEW k \in Link,
             \/ Connect(k) \/ Silence(k)
             \/ Poll(k) \/ PollEnds(k) \/ PollLost(k) \/ DeliveryLost(k)
             \/ Generate(k) \/ Report(k) \/ ReportLost(k) \/ Killed(k)
      PROVE  IInv'
    BY <1>3, ConnectQuiet, SilenceQuiet, PollQuiet, PollEndsQuiet, PollLostQuiet, KilledQuiet,
       QuietKeeps, GenerateKeeps, ReportKeeps
<1>4. CASE UNCHANGED vars
    BY <1>4 DEF vars, IInv, TypeOK, TurnsInv, WorkInv, CallerInv, OpenJobIsCurrent, GivenUpIsFenced
<1> QED BY <1>1, <1>2, <1>3, <1>4 DEF Next

LEMMA Invariance == Spec => []IInv
BY InitialInv, StepKeeps, PTL DEF Spec

\* The variables stay within their types.
THEOREM TypeCorrect == Spec => []TypeOK
<1>1. IInv => TypeOK
    BY DEF IInv
<1> QED BY <1>1, Invariance, PTL

(***************************************************************************)
(* The visitor's quota is used at most once for a job, however often its   *)
(* delivery or the report of its result is lost and repeated               *)
(* (JobRunner.run keeps what it generated).                                *)
(***************************************************************************)
THEOREM QuotaUsedOnce == Spec => []OneTurnPerJob
<1>1. IInv => OneTurnPerJob
    BY DEF IInv, TurnsInv, OneTurnPerJob
<1> QED BY <1>1, Invariance, PTL

(***************************************************************************)
(* A caller that is answered has what its own connection generated for its *)
(* own job: late, repeated and crossing reports (result()) never reach     *)
(* another caller.                                                         *)
(***************************************************************************)
THEOREM AnswersAreForTheirJobs == Spec => []AnswerIsForJob
<1>1. IInv => AnswerIsForJob
    BY DEF IInv, CallerInv, AnswerIsForJob
<1> QED BY <1>1, Invariance, PTL

(***************************************************************************)
(* An open job is the one of the registered, unblocked connection and has  *)
(* a caller that waits, and a job given up fences its connection           *)
(* (_unknown, _remove).                                                    *)
(***************************************************************************)
THEOREM GivenUpJobsAreFenced == Spec => []JobsAreFenced
<1>1. IInv => JobsAreFenced
    BY DEF IInv, JobsAreFenced
<1> QED BY <1>1, Invariance, PTL
=============================================================================
