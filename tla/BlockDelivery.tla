--------------------------- MODULE BlockDelivery ---------------------------
(***************************************************************************)
(* Publication and delivery of one request's content over the second       *)
(* stream version.  The generator, on a worker thread, publishes growing   *)
(* prefixes of its answer: each is committed in the store, acknowledged to *)
(* the event loop, appended to the request's in-memory DeliveryJournal and *)
(* sent by every connection that follows the job.  A connection that finds *)
(* no job in its process polls the store.  The journal is an acceleration: *)
(* the store is read when a connection opens and again before it ends.     *)
(*                                                                         *)
(* One claim and one job are modelled, without the release of a claim.     *)
(***************************************************************************)
EXTENDS RequestData, FiniteSets

CONSTANT Conn    \* connections of one subject that carry the request's UUID

VARIABLES
    state,      \* the store's row: "free", "pending" or "settled"
    stored,     \* confirmed blocks
    response,   \* terminal response of a settled row
    gen,        \* what the job does
    published,  \* GenerationObserver.published_blocks
    pub,        \* the publication whose transaction is not acknowledged yet
    result,     \* what the job saves, then what its task returns
    journal,    \* committed blocks in the journal's events
    conn        \* the connections

vars == <<state, stored, response, gen, published, pub, result, journal, conn>>
store == <<state, stored, response>>
job   == <<gen, published, pub, result, journal>>

-----------------------------------------------------------------------------

NoPub == [tx |-> "none", blocks |-> <<>>]

Packet == (1..MaxBlocks) \X Block

Connection ==
    [pc : {"off", "opening", "following", "polling", "asking", "ending", "rendering", "over"},
     read : {<<>>} \cup {<<bs>> : bs \in BlockSeq},
     cursor : 0..MaxBlocks,
     hasJob : BOOLEAN,
     resolved : Response,
     sent : Seq(Packet),
     end : {"none", "done", "error"}]

TypeOK ==
    /\ state \in {"free", "pending", "settled"}
    /\ stored \in BlockSeq
    /\ response \in Response
    /\ gen \in {"none", "generating", "publishing", "saving", "done", "lost"}
    /\ published \in BlockSeq
    /\ pub \in [tx : {"none", "queued", "committed", "failed"}, blocks : BlockSeq]
    /\ result \in Response
    /\ journal \in BlockSeq
    /\ conn \in [Conn -> Connection]

Closed == [pc |-> "off", read |-> <<>>, cursor |-> 0, hasJob |-> FALSE,
           resolved |-> NoResponse, sent |-> <<>>, end |-> "none"]

Init ==
    /\ state = "free" /\ stored = <<>> /\ response = NoResponse
    /\ gen = "none" /\ published = <<>> /\ pub = NoPub
    /\ result = NoResponse /\ journal = <<>>
    /\ conn = [c \in Conn |-> Closed]

-----------------------------------------------------------------------------
(* The job.                                                                *)

\* The claim commits and the job is created with its journal.
Claim ==
    /\ state = "free"
    /\ state' = "pending"
    /\ gen' = "generating"
    /\ UNCHANGED <<stored, response, published, pub, result, journal, conn>>

\* Mutation of Publish: the journal is filled before the transaction commits.
PublishEarly(bs) ==
    /\ gen = "generating"
    /\ Extends(bs, published) /\ Len(bs) > Len(published)
    /\ pub.tx = "none"
    /\ gen' = "publishing"
    /\ pub' = [tx |-> "queued", blocks |-> bs]
    /\ journal' = bs
    /\ UNCHANGED <<store, published, result, conn>>

\* GenerationObserver.publish, up to the transaction.
Publish(bs) ==
    /\ gen = "generating"
    /\ Extends(bs, published) /\ Len(bs) > Len(published)
    /\ pub.tx = "none"
    /\ gen' = "publishing"
    /\ pub' = [tx |-> "queued", blocks |-> bs]
    /\ UNCHANGED <<store, published, result, journal, conn>>

\* commit_request_blocks commits; its answer may be lost.
PublicationCommits ==
    /\ pub.tx = "queued"
    /\ state = "pending"
    /\ Extends(pub.blocks, stored)
    /\ stored' = pub.blocks
    /\ \E tx \in {"committed", "failed"} : pub' = [pub EXCEPT !.tx = tx]
    /\ UNCHANGED <<state, response, gen, published, result, journal, conn>>

PublicationFails ==
    /\ pub.tx = "queued"
    /\ pub' = [pub EXCEPT !.tx = "failed"]
    /\ UNCHANGED <<store, gen, published, result, journal, conn>>

\* The acknowledgement reaches the loop (journal.committed) and, if it still
\* waits, the generator.
PublicationAcknowledged ==
    /\ pub.tx = "committed"
    /\ gen # "lost"
    /\ pub' = NoPub
    /\ journal' = pub.blocks
    /\ IF gen = "publishing"
       THEN gen' = "generating" /\ published' = pub.blocks
       ELSE UNCHANGED <<gen, published>>
    /\ UNCHANGED <<store, result, conn>>

\* The publication failed or its answer is 30 s late: the generation ends with
\* a terminal error, and a transaction under way goes on.
PublicationAbandoned ==
    /\ gen = "publishing"
    /\ gen' = "saving"
    /\ result' = Failed
    /\ pub' = IF pub.tx = "failed" THEN NoPub ELSE pub
    /\ UNCHANGED <<store, published, journal, conn>>

\* The generation ends: with an answer that begins with what was published, or
\* with a terminal error.
GenerationEnds(end) ==
    /\ gen = "generating"
    /\ Keeps(end, published)
    /\ gen' = "saving"
    /\ result' = end
    /\ UNCHANGED <<store, published, pub, journal, conn>>

\* complete_request commits; if its answer is lost the task returns an error.
SaveCommits ==
    /\ gen = "saving"
    /\ state = "pending"
    /\ Keeps(result, stored)
    /\ state' = "settled" /\ response' = result
    /\ gen' = "done"
    /\ result' \in {result, Failed}
    /\ UNCHANGED <<stored, published, pub, journal, conn>>

\* The result is not recorded: the task answers public_database_unavailable.
SaveFails ==
    /\ gen = "saving"
    /\ gen' = "done"
    /\ result' = Failed
    /\ UNCHANGED <<store, published, pub, journal, conn>>

\* Mutation of LeaseLost: the confirmed blocks go with the lease.
LeaseLostWithBlocks ==
    /\ state = "pending"
    /\ state' = "settled" /\ response' = Interrupted /\ stored' = <<>>
    /\ UNCHANGED <<job, conn>>

\* The lease expires: the row is reconciled to an interruption.
LeaseLost ==
    /\ state = "pending"
    /\ state' = "settled" /\ response' = Interrupted
    /\ UNCHANGED <<stored, job, conn>>

\* The process dies with its job, journal and connections; a transaction that
\* was under way may still commit.
Crash ==
    /\ state # "free"
    /\ gen' = "lost" /\ published' = <<>> /\ result' = NoResponse /\ journal' = <<>>
    /\ conn' = [c \in Conn |-> IF conn[c].pc = "off" THEN conn[c]
                               ELSE [conn[c] EXCEPT !.pc = "over"]]
    /\ UNCHANGED <<store, pub>>

-----------------------------------------------------------------------------
(* A connection.                                                           *)

\* The blocks of bs that c was not sent.
Unsent(c, bs) == DOMAIN bs \ {conn[c].sent[i][1] : i \in DOMAIN conn[c].sent}

Set(c, new) == conn' = [conn EXCEPT ![c] = new]

\* One packet: the first unsent block of bs.
SendNext(c, bs) ==
    \E i \in Unsent(c, bs) :
        /\ \A k \in Unsent(c, bs) : i <= k
        /\ Set(c, [conn[c] EXCEPT !.sent = Append(@, <<i, bs[i]>>)])

\* claim_request answered "completed", or "processing" and the job is found or
\* not: it is created after its claim and removed when it is done, and the
\* connection resumes after its own claim committed.
Open(c) ==
    /\ conn[c].pc = "off"
    /\ state # "free"
    /\ \E found \in {FALSE, state = "pending" /\ gen # "lost"} :
          Set(c, [conn[c] EXCEPT !.pc = "opening", !.resolved = response, !.hasJob = found])
    /\ UNCHANGED <<store, job>>

\* A read of request_blocks commits, and the connection resumes later.
ReadStored(c) ==
    /\ conn[c].pc \in {"opening", "polling", "ending"}
    /\ conn[c].read = <<>>
    /\ Set(c, [conn[c] EXCEPT !.read = <<stored>>])
    /\ UNCHANGED <<store, job>>

\* guarded_events: the store cannot be read.
ReadFails(c) ==
    /\ conn[c].pc \in {"opening", "polling", "asking", "ending"}
    /\ conn[c].read = <<>>
    /\ Set(c, [conn[c] EXCEPT !.pc = "over", !.end = "error"])
    /\ UNCHANGED <<store, job>>

\* One of the records that were read is sent.
SendStored(c) ==
    /\ conn[c].pc # "over" /\ conn[c].read # <<>>
    /\ SendNext(c, conn[c].read[1])
    /\ UNCHANGED <<store, job>>

\* Mutation of StoredSent: the last read of the store is not sent.
StoredDropped(c) ==
    /\ conn[c].pc # "over" /\ conn[c].read # <<>>
    /\ conn[c].pc # "ending" => Unsent(c, conn[c].read[1]) = {}
    /\ Set(c, [conn[c] EXCEPT
                 !.read = <<>>,
                 !.pc = CASE @ = "polling" -> "asking"
                          [] @ = "ending" -> "rendering"
                          [] conn[c].resolved # NoResponse -> "ending"
                          [] conn[c].hasJob -> "following"
                          [] OTHER -> "polling"])
    /\ UNCHANGED <<store, job>>

\* All of them are sent, and the connection goes on.
StoredSent(c) ==
    /\ conn[c].pc # "over" /\ conn[c].read # <<>>
    /\ Unsent(c, conn[c].read[1]) = {}
    /\ Set(c, [conn[c] EXCEPT
                 !.read = <<>>,
                 !.pc = CASE @ = "polling" -> "asking"
                          [] @ = "ending" -> "rendering"
                          [] conn[c].resolved # NoResponse -> "ending"
                          [] conn[c].hasJob -> "following"
                          [] OTHER -> "polling"])
    /\ UNCHANGED <<store, job>>

\* One event of the journal.
SendJournal(c) ==
    /\ conn[c].pc = "following"
    /\ conn[c].cursor < Len(journal)
    /\ LET i == conn[c].cursor + 1
       IN  Set(c, [conn[c] EXCEPT !.cursor = i,
                     !.sent = IF \E k \in DOMAIN @ : @[k][1] = i THEN @
                              ELSE Append(@, <<i, journal[i]>>)])
    /\ UNCHANGED <<store, job>>

\* Mutation of JobResolved: only a job that answers resolves its connections.
JobAnswered(c) ==
    /\ conn[c].pc = "following"
    /\ conn[c].cursor = Len(journal)
    /\ gen = "done" /\ result.kind = "answer"
    /\ Set(c, [conn[c] EXCEPT !.pc = "ending", !.resolved = result])
    /\ UNCHANGED <<store, job>>

\* The journal is consumed and the job's task has returned.
JobResolved(c) ==
    /\ conn[c].pc = "following"
    /\ conn[c].cursor = Len(journal)
    /\ gen = "done"
    /\ Set(c, [conn[c] EXCEPT !.pc = "ending", !.resolved = result])
    /\ UNCHANGED <<store, job>>

\* request_result
AskResult(c) ==
    /\ conn[c].pc = "asking"
    /\ Set(c, [conn[c] EXCEPT !.pc = IF state = "settled" THEN "ending" ELSE "polling",
                              !.resolved = response])
    /\ UNCHANGED <<store, job>>

\* Polling for 300 s ends with request_in_progress.
PollingEnds(c) ==
    /\ conn[c].pc = "asking"
    /\ Set(c, [conn[c] EXCEPT !.pc = "over", !.end = "error"])
    /\ UNCHANGED <<store, job>>

\* One block of the recorded answer that the store's records did not cover.
RenderBlock(c) ==
    /\ conn[c].pc = "rendering"
    /\ conn[c].resolved.kind = "answer"
    /\ SendNext(c, conn[c].resolved.blocks)
    /\ UNCHANGED <<store, job>>

\* The terminal error, or "done" after the whole answer.
Render(c) ==
    /\ conn[c].pc = "rendering"
    /\ IF conn[c].resolved.kind = "answer"
       THEN /\ Unsent(c, conn[c].resolved.blocks) = {}
            /\ Set(c, [conn[c] EXCEPT !.pc = "over", !.end = "done"])
       ELSE Set(c, [conn[c] EXCEPT !.pc = "over", !.end = "error"])
    /\ UNCHANGED <<store, job>>

\* The client goes away.
Disconnect(c) ==
    /\ conn[c].pc \notin {"off", "over"}
    /\ Set(c, [conn[c] EXCEPT !.pc = "over"])
    /\ UNCHANGED <<store, job>>

-----------------------------------------------------------------------------

JobStep ==
    \/ \E bs \in BlockSeq : Publish(bs)
    \/ PublicationCommits \/ PublicationFails
    \/ PublicationAcknowledged \/ PublicationAbandoned
    \/ \E end \in OwnerResponse : GenerationEnds(end)
    \/ SaveCommits \/ SaveFails

ConnStep(c) ==
    \/ ReadStored(c) \/ ReadFails(c) \/ SendStored(c) \/ StoredSent(c)
    \/ SendJournal(c) \/ JobResolved(c) \/ AskResult(c) \/ PollingEnds(c)
    \/ RenderBlock(c) \/ Render(c)

Next ==
    \/ Claim \/ JobStep \/ LeaseLost \/ Crash
    \/ \E c \in Conn : Open(c) \/ ConnStep(c) \/ Disconnect(c)

Spec == Init /\ [][Next]_vars

(***************************************************************************)
(* The generation ends within the provider's timeouts, a transaction and a *)
(* publication within theirs, the event loop resumes every connection, and *)
(* a connection that polls gives up after 300 s.                           *)
(***************************************************************************)
FairSpec ==
    /\ Spec
    /\ WF_vars(JobStep)
    /\ WF_vars(\E end \in OwnerResponse : GenerationEnds(end)) /\ WF_vars(SaveFails)
    /\ \A c \in Conn : WF_vars(ConnStep(c)) /\ SF_vars(PollingEnds(c))

-----------------------------------------------------------------------------
(* Properties.                                                             *)

Shown(c) == [i \in DOMAIN conn[c].sent |-> conn[c].sent[i][2]]

\* Every connection shows a gapless beginning of what the store holds: the
\* confirmed blocks, or the recorded answer.  So nothing shown is lost by a
\* crash, differs between connections or is withdrawn by a reconnect.
ShownIsDurable ==
    \A c \in Conn :
        /\ \A i \in DOMAIN conn[c].sent : conn[c].sent[i][1] = i
        /\ \/ Extends(stored, Shown(c))
           \/ response.kind = "answer" /\ Extends(response.blocks, Shown(c))

\* "done" is sent only for an answer the store has recorded, after all of it.
DoneIsRecorded ==
    \A c \in Conn :
        conn[c].end = "done" => response.kind = "answer" /\ Shown(c) = response.blocks

\* A connection that reports the recorded result has first sent everything that
\* was confirmed, also if the acknowledgement of a publication was lost.
EndsAfterConfirmed ==
    \A c \in Conn :
        conn[c].pc = "rendering" /\ conn[c].resolved = response
            => Extends(Shown(c), stored)

\* How a connection ends is true: of the record, and of what was confirmed.
EndsTruthfully == DoneIsRecorded /\ EndsAfterConfirmed

\* An open connection ends.
ConnectionEnds ==
    \A c \in Conn : conn[c].pc # "off" ~> conn[c].pc = "over"

\* The store is asked for nothing but the moves RequestLedger allows.
Store == INSTANCE RequestLedger
    WITH Request <- {"r"},
         ledger <- [r \in {"r"} |-> [state |-> state, shown |-> stored, response |-> response]]

RespectsStore == Store!Spec

=============================================================================
