-------------------------- MODULE SubscriptionRelay --------------------------
(***************************************************************************)
(* SubscriptionBroker of public_subscription.py and the visitor's local    *)
(* connector (snow-codex-connector.mjs), for one subject.  Callers are     *)
(* generations of the site that use the subject's relay: each creates one  *)
(* job and waits for its future, on a worker thread (complete) or on the   *)
(* event loop (complete_async).  The connector polls for a job, generates  *)
(* once and reports; requests and answers of both may be lost.             *)
(*                                                                         *)
(* Every broker operation holds the lock, so it is one action; what a      *)
(* caller does between two operations is not.  Clocks are abstracted: a    *)
(* connection may expire, a wait may time out, at any moment.              *)
(***************************************************************************)
EXTENDS Naturals, FiniteSets

CONSTANTS
    SyncCaller,     \* generations on a worker thread
    AsyncCaller,    \* generations on the event loop
    NoJob,
    MaxPairs,       \* bound: connections ever paired
    MaxFailures,    \* bound: failed polls in a row the connector survives (3)
    MaxReports      \* bound: attempts at reporting one result (3)

ASSUME BoundsAssumption ==
    /\ NoJob \notin SyncCaller \cup AsyncCaller
    /\ MaxPairs \in Nat /\ MaxFailures \in Nat /\ MaxReports \in Nat

Caller == SyncCaller \cup AsyncCaller
Link == 1..MaxPairs

VARIABLES
    paired,       \* connections paired so far
    registered,   \* the one the broker's four indices hold, or 0
    link,         \* the _Connection records
    job,          \* the _Job of each caller
    caller,       \* where each caller is
    told,         \* what each caller was answered
    conr          \* the connector processes, one for each pairing code

vars == <<paired, registered, link, job, caller, told, conr>>

-----------------------------------------------------------------------------

\* Outcome of a job's future, of a generation or of a call.
Outcome == {"answer", "error", "unknown"}
Unfinished == "none"

TypeOK ==
    /\ paired \in 0..MaxPairs
    /\ registered \in 0..paired
    /\ link \in [Link -> [connector : BOOLEAN, seen : BOOLEAN, blocked : BOOLEAN,
                          job : Caller \cup {NoJob}, waiter : BOOLEAN,
                          receipts : SUBSET Caller]]
    /\ job \in [Caller -> [on : {0} \cup Link, open : BOOLEAN,
                           future : Outcome \cup {Unfinished}]]
    /\ caller \in [Caller -> {"idle", "creating", "waiting", "expired", "releasing", "returned"}]
    /\ told \in [Caller -> Outcome \cup {Unfinished, "refused"}]
    /\ conr \in [Link -> [pc : {"off", "ready", "polling", "working", "reporting",
                                "stopped", "turned_away"},
                          failures : 0..MaxFailures, job : Caller \cup {NoJob},
                          results : [Caller -> Outcome \cup {Unfinished}],
                          turns : [Caller -> 0..2], reports : 0..MaxReports]]

Init ==
    /\ paired = 0 /\ registered = 0
    /\ link = [k \in Link |-> [connector |-> FALSE, seen |-> FALSE, blocked |-> FALSE,
                               job |-> NoJob, waiter |-> FALSE, receipts |-> {}]]
    /\ job = [c \in Caller |-> [on |-> 0, open |-> FALSE, future |-> Unfinished]]
    /\ caller = [c \in Caller |-> "idle"]
    /\ told = [c \in Caller |-> Unfinished]
    /\ conr = [k \in Link |-> [pc |-> "off", failures |-> 0, job |-> NoJob,
                               results |-> [c \in Caller |-> Unfinished],
                               turns |-> [c \in Caller |-> 0], reports |-> 0]]

-----------------------------------------------------------------------------
(* Pairing.                                                                *)

Busy(k) == link[k].job # NoJob /\ job[link[k].job].open

\* _connected
Connected(k) ==
    link[k].connector /\ ~link[k].blocked /\ (Busy(k) \/ link[k].seen)

\* _remove: the connection leaves every index and its open job ends as unknown.
Removed(k) ==
    IF k = 0 THEN UNCHANGED <<link, job>>
    ELSE /\ link' = [link EXCEPT ![k].blocked = TRUE]
         /\ job' = IF Busy(k)
                   THEN [job EXCEPT ![link[k].job].open = FALSE,
                                    ![link[k].job].future = "unknown"]
                   ELSE job

Pair ==
    /\ paired < MaxPairs
    /\ paired' = paired + 1
    /\ registered' = paired + 1
    /\ Removed(registered)
    /\ UNCHANGED <<caller, told, conr>>

\* The visitor disconnects, the connection expires (_prune) or the site closes.
Remove ==
    /\ registered # 0
    /\ registered' = 0
    /\ Removed(registered)
    /\ UNCHANGED <<paired, caller, told, conr>>

\* The connector redeems the pairing code, once; the answer may be lost.
Connect(k) ==
    /\ registered = k
    /\ ~link[k].connector
    /\ link' = [link EXCEPT ![k].connector = TRUE, ![k].seen = TRUE]
    /\ \E pc \in {"ready", "stopped"} : conr' = [conr EXCEPT ![k].pc = pc]
    /\ UNCHANGED <<paired, registered, job, caller, told>>

\* 45 s pass without a request of the connector.
Silence(k) ==
    /\ link[k].seen /\ ~link[k].waiter
    /\ link' = [link EXCEPT ![k].seen = FALSE]
    /\ UNCHANGED <<paired, registered, job, caller, told, conr>>

-----------------------------------------------------------------------------
(* Callers.                                                                *)

\* preflight, and again within _new_job.
Ready(k) == k # 0 /\ Connected(k) /\ ~Busy(k)

Validate(c) ==
    /\ caller[c] = "idle"
    /\ Ready(registered)
    /\ caller' = [caller EXCEPT ![c] = "creating"]
    /\ job' = [job EXCEPT ![c].on = registered]
    /\ UNCHANGED <<paired, registered, link, told, conr>>

\* The locked part of _new_job: the relay the caller holds is still registered,
\* connected and free.  A job that has ended is replaced.
NewJob(c) ==
    /\ caller[c] = "creating"
    /\ registered = job[c].on /\ Ready(registered)
    /\ caller' = [caller EXCEPT ![c] = "waiting"]
    /\ job' = [job EXCEPT ![c].open = TRUE]
    /\ link' = [link EXCEPT ![registered].job = c]
    /\ UNCHANGED <<paired, registered, told, conr>>

Refused(c) ==
    /\ caller[c] = "creating"
    /\ ~(registered = job[c].on /\ Ready(registered))
    /\ caller' = [caller EXCEPT ![c] = "returned"]
    /\ told' = [told EXCEPT ![c] = "refused"]
    /\ UNCHANGED <<paired, registered, link, job, conr>>

Answered(c) ==
    /\ caller[c] = "waiting"
    /\ job[c].future # Unfinished
    /\ told' = [told EXCEPT ![c] = job[c].future]
    /\ caller' = [caller EXCEPT ![c] = "releasing"]
    /\ UNCHANGED <<paired, registered, link, job, conr>>

\* complete: the wait times out and the future is not done.
TimesOut(c) ==
    /\ c \in SyncCaller
    /\ caller[c] = "waiting"
    /\ job[c].future = Unfinished
    /\ caller' = [caller EXCEPT ![c] = "expired"]
    /\ UNCHANGED <<paired, registered, link, job, told, conr>>

\* Mutation of Unknown: the job ends without blocking its connection.
UnknownUnfenced(c) ==
    /\ \/ caller[c] = "expired"
       \/ c \in AsyncCaller /\ caller[c] = "waiting"
    /\ job' = [job EXCEPT ![c].open = FALSE, ![c].future = IF job[c].open THEN "unknown" ELSE @]
    /\ told' = [told EXCEPT ![c] = "unknown"]
    /\ caller' = [caller EXCEPT ![c] = "releasing"]
    /\ UNCHANGED <<paired, registered, link, conr>>

\* _unknown, and the caller is told so.  complete_async is cancelled or times out
\* while it waits, which includes the moment after the future is set and before
\* the event loop has carried it over to the waiting task.
Unknown(c) ==
    /\ \/ caller[c] = "expired"
       \/ c \in AsyncCaller /\ caller[c] = "waiting"
    /\ IF job[c].open
       THEN /\ link' = [link EXCEPT ![job[c].on].blocked = TRUE]
            /\ job' = [job EXCEPT ![c].open = FALSE, ![c].future = "unknown"]
       ELSE UNCHANGED <<link, job>>
    /\ told' = [told EXCEPT ![c] = "unknown"]
    /\ caller' = [caller EXCEPT ![c] = "releasing"]
    /\ UNCHANGED <<paired, registered, conr>>

\* _release_completed
Release(c) ==
    /\ caller[c] = "releasing"
    /\ caller' = [caller EXCEPT ![c] = "returned"]
    /\ link' = IF ~link[job[c].on].blocked /\ link[job[c].on].job = c
               THEN [link EXCEPT ![job[c].on].job = NoJob] ELSE link
    /\ UNCHANGED <<paired, registered, job, told, conr>>

-----------------------------------------------------------------------------
(* The connector of connection k.                                          *)

Stopped(k) == conr' = [conr EXCEPT ![k].pc = "stopped"]

\* A poll reaches the broker, which refuses it or registers its waiter.
Poll(k) ==
    /\ conr[k].pc = "ready"
    /\ CASE registered # k \/ (link[k].blocked /\ ~link[k].waiter) ->
              Stopped(k) /\ UNCHANGED link
         [] registered = k /\ link[k].waiter ->
              conr' = [conr EXCEPT ![k].pc = "turned_away"] /\ UNCHANGED link
         [] OTHER ->
              /\ conr' = [conr EXCEPT ![k].pc = "polling"]
              /\ link' = [link EXCEPT ![k].waiter = TRUE, ![k].seen = TRUE]
    /\ UNCHANGED <<paired, registered, job, caller, told>>

\* The wait ends after 20 s or is woken.  The handler goes on when its client has
\* gone; a client that is still there is handed the open job.
PollEnds(k) ==
    /\ link[k].waiter
    /\ link' = [link EXCEPT ![k].waiter = FALSE,
                            ![k].seen = IF registered = k THEN TRUE ELSE @]
    /\ IF conr[k].pc # "polling" THEN UNCHANGED conr
       ELSE IF registered # k \/ link[k].blocked THEN Stopped(k)
       ELSE IF Busy(k)
       THEN conr' = [conr EXCEPT ![k].pc = "working", ![k].failures = 0, ![k].job = link[k].job]
       ELSE conr' = [conr EXCEPT ![k].pc = "ready", ![k].failures = 0]
    /\ UNCHANGED <<paired, registered, job, caller, told>>

\* The poll or its answer is lost; the connector polls again, three times at most.
PollLost(k) ==
    /\ conr[k].pc \in {"ready", "polling"}
    /\ conr' = [conr EXCEPT ![k].pc = IF conr[k].failures = MaxFailures THEN "stopped" ELSE "ready",
                            ![k].failures = IF @ = MaxFailures THEN @ ELSE @ + 1]
    /\ UNCHANGED <<paired, registered, link, job, caller, told>>

\* The broker answers with the job and the answer is lost.
DeliveryLost(k) ==
    /\ link[k].waiter /\ conr[k].pc = "polling"
    /\ link' = [link EXCEPT ![k].waiter = FALSE]
    /\ conr' = [conr EXCEPT ![k].pc = IF conr[k].failures = MaxFailures THEN "stopped" ELSE "ready",
                            ![k].failures = IF @ = MaxFailures THEN @ ELSE @ + 1]
    /\ UNCHANGED <<paired, registered, job, caller, told>>

\* JobRunner.run: one turn for a job it has not met, else the kept result.
Generate(k) ==
    /\ conr[k].pc = "working"
    /\ LET j == conr[k].job
       IN  IF conr[k].results[j] # Unfinished
           THEN conr' = [conr EXCEPT ![k].pc = "reporting", ![k].reports = 0]
           ELSE \E out \in Outcome :
                   conr' = [conr EXCEPT ![k].pc = "reporting", ![k].reports = 0,
                                        ![k].results[j] = out, ![k].turns[j] = @ + 1]
    /\ UNCHANGED <<paired, registered, link, job, caller, told>>

\* The report of a job that has been handled, or of the current one.
Accepts(k, j) == registered = k /\ (j \in link[k].receipts \/ link[k].job = j)

\* Mutation of Result: a receipt vouches for the report, which is applied again.
ResultRepeated(k, j, out) ==
    LET settled == link[k].job
        ends == settled # NoJob /\ job[settled].open
    IN  /\ link' = [link EXCEPT ![k].seen = TRUE, ![k].receipts = @ \cup {j},
                                ![k].blocked = @ \/ (ends /\ out = "unknown")]
        /\ job' = IF ends
                  THEN [job EXCEPT ![settled].open = FALSE, ![settled].future = out]
                  ELSE job

\* result(): an open job ends with the outcome, and a repeated report is accepted
\* without effect.  Receipts outlive the connector's attempts.
Result(k, j, out) ==
    LET settled == link[k].job
        ends == j \notin link[k].receipts /\ job[settled].open
    IN  /\ link' = [link EXCEPT ![k].seen = TRUE, ![k].receipts = @ \cup {j},
                                ![k].blocked = @ \/ (ends /\ out = "unknown")]
        /\ job' = IF ends
                  THEN [job EXCEPT ![settled].open = FALSE, ![settled].future = out]
                  ELSE job

\* An attempt at reporting reaches the broker and its answer the connector, which
\* stops after reporting anything but an answer, or when it is refused.
Report(k) ==
    /\ conr[k].pc = "reporting"
    /\ LET j == conr[k].job
       IN  IF Accepts(k, j)
           THEN /\ Result(k, j, conr[k].results[j])
                /\ conr' = [conr EXCEPT ![k].pc = IF conr[k].results[j] = "answer"
                                                  THEN "ready" ELSE "stopped"]
           ELSE Stopped(k) /\ UNCHANGED <<link, job>>
    /\ UNCHANGED <<paired, registered, caller, told>>

\* Mutation of ReportLost: the retry begins with the generation.
ReportLostRegenerates(k) ==
    /\ conr[k].pc = "reporting"
    /\ conr' = [conr EXCEPT ![k].pc = "working",
                            ![k].results[conr[k].job] = Unfinished]
    /\ UNCHANGED <<paired, registered, link, job, caller, told>>

\* An attempt at reporting is lost, before or after the broker has handled it.
ReportLost(k) ==
    /\ conr[k].pc = "reporting"
    /\ conr' = [conr EXCEPT ![k].reports = IF @ = MaxReports THEN @ ELSE @ + 1,
                            ![k].pc = IF conr[k].reports + 1 = MaxReports THEN "stopped" ELSE @]
    /\ \/ UNCHANGED <<link, job>>
       \/ Accepts(k, conr[k].job) /\ Result(k, conr[k].job, conr[k].results[conr[k].job])
    /\ UNCHANGED <<paired, registered, caller, told>>

\* The connector's process is ended.
Killed(k) ==
    /\ conr[k].pc \notin {"off", "stopped", "turned_away"}
    /\ Stopped(k)
    /\ UNCHANGED <<paired, registered, link, job, caller, told>>

-----------------------------------------------------------------------------

Next ==
    \/ Pair \/ Remove
    \/ \E c \in Caller :
          \/ Validate(c) \/ NewJob(c) \/ Refused(c) \/ Answered(c)
          \/ TimesOut(c) \/ Unknown(c) \/ Release(c)
    \/ \E k \in Link :
          \/ Connect(k) \/ Silence(k)
          \/ Poll(k) \/ PollEnds(k) \/ PollLost(k) \/ DeliveryLost(k)
          \/ Generate(k) \/ Report(k) \/ ReportLost(k) \/ Killed(k)

Spec == Init /\ [][Next]_vars

-----------------------------------------------------------------------------
(* Properties.                                                             *)

\* The visitor's quota is used at most once for a job, however often its delivery
\* or the report of its result is lost and repeated.
OneTurnPerJob ==
    \A k \in Link, c \in Caller : conr[k].turns[c] <= 1

\* A connection has one open job, the one its record names and whose caller still
\* waits, and a blocked or removed one has none: nobody is left with a job that
\* nothing will end, and no job runs that nobody waits for.
OpenJobIsCurrent ==
    \A c \in Caller :
        job[c].open => /\ caller[c] \in {"waiting", "expired"}
                       /\ registered = job[c].on
                       /\ link[registered].job = c /\ ~link[registered].blocked

\* A caller is answered with what the connector of its own connection generated
\* for its own job.
AnswerIsForJob ==
    \A c \in Caller :
        told[c] \in {"answer", "error"} => conr[job[c].on].results[c] = told[c]

\* A job whose caller gave up is not followed by another on its connection, as long
\* as no answer had been accepted: its late result meets a blocked connection.
GivenUpIsFenced ==
    \A c \in Caller :
        job[c].future = "unknown" => link[job[c].on].blocked

\* Nothing is generated that nobody waits for, and a given-up job is the last of
\* its connection.
JobsAreFenced == OpenJobIsCurrent /\ GivenUpIsFenced

=============================================================================
