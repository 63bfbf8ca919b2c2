--------------------------- MODULE CompletionRun ---------------------------
(***************************************************************************)
(* A run of the DeepSeek completion (deepseek_review_completion.py): what  *)
(* one review is asked and what of its answer counts, the run that asks    *)
(* for every selected candidate in two phases and can be resumed, and the  *)
(* mapping of its answers to nodes and edges when it is admitted.          *)
(*                                                                         *)
(* ReviewGraph has the admission and the rollback beside the other writers *)
(* of the files; here are the steps before them.  A name is a sequence of  *)
(* words, a run a record, and each step of the run an operator from a run  *)
(* to the set of runs it can leave.                                        *)
(***************************************************************************)
EXTENDS Integers, Sequences, FiniteSets, SequencesExt

None == "none"
Actors == {"character", "enemy"}
Things == {"item"}

ObjectTypes(rtype) ==
  CASE rtype \in {"ALLY_OF", "KNOWS"} -> Actors
    [] rtype = "PARTICIPATES_IN_EVENT" -> {"event"}
    [] rtype = "VISITS_LOCATION" -> {"location"}
    [] rtype = "OWNS_ITEM" -> Things
    [] OTHER -> {}

(***************************************************************************)
(* The evidence of an entity: from each document that has the name a part  *)
(* that begins before it, as long as the budget lasts.  Lengths are in     *)
(* hundreds of characters; at is where the name stands, -1 where it does   *)
(* not.                                                                    *)
(***************************************************************************)
Budget == 80
Window == 28
Before == 12

Excerpts(docs) ==
  LET take[i \in 0..Len(docs)] ==
        IF i = 0 THEN [left |-> Budget, out |-> << >>]
        ELSE LET was == take[i - 1]
                 doc == docs[i]
                 start == IF doc.at > Before THEN doc.at - Before ELSE 0
                 ends == CHOOSE e \in {doc.length, start + Window, start + was.left} :
                           \A f \in {doc.length, start + Window, start + was.left} : e <= f
             IN IF was.left <= 0 \/ doc.at < 0 THEN was
                ELSE [left |-> was.left - (ends - start),
                      out |-> Append(was.out, [doc |-> i, start |-> start, ends |-> ends])]
  IN take[Len(docs)].out

(***************************************************************************)
(* One review.  answers are what the provider says to at most five         *)
(* requests: an answer with the candidate it is about (none, if it failed  *)
(* or cannot be read), its decision, quotation, name and type.  An         *)
(* approval must quote the evidence, or the candidate's own quotation must *)
(* be in it; an entity keeps its type and gets a name that is one.         *)
(***************************************************************************)
MaxAttempts == 5

Usable(cand, a) == a.about = cand.id
Thinking(cand, attempt) == cand.kind = "entity" \/ (attempt = 1 /\ cand.rtype = "ALLY_OF")

ValidName(name) == name # << >> /\ name # <<"they">>
ValidActorName(name) == ValidName(name) /\ "company" \notin ToSet(name)

Quoted(cand, a) ==
  IF a.decision = "approve" /\ a.quote \notin cand.evidence /\ cand.quote \in cand.evidence
  THEN cand.quote ELSE a.quote

Judged(cand, a) ==
  IF /\ a.decision = "approve"
     /\ Quoted(cand, a) \in cand.evidence
     /\ cand.kind = "entity" => a.ntype = cand.ntype /\ ValidName(a.name)
  THEN "approve" ELSE "reject"

Review(cand, answers) ==
  LET good == {i \in DOMAIN answers : i <= MaxAttempts /\ Usable(cand, answers[i])}
      first == CHOOSE i \in good : \A j \in good : i <= j
  IN IF good = {}
     THEN [decision |-> "reject", quote |-> None, attempts |-> MaxAttempts, failed |-> TRUE]
     ELSE [decision |-> Judged(cand, answers[first]), quote |-> Quoted(cand, answers[first]),
           attempts |-> first, failed |-> FALSE]

(***************************************************************************)
(* Nodes and how a name finds one: the only node of that name, or the only *)
(* longest one whose name it begins or ends with.                          *)
(***************************************************************************)
ReviewId(ntype, name) == <<ntype, name>>
NoId == << >>
NodeIds(nodes) == {n.id : n \in nodes}

Alias(name, nodes, types) ==
  LET fit == {n \in nodes : n.ntype \in types}
      exact == {n \in fit : n.name = name}
      within == {n \in fit : /\ n.name # << >> /\ Len(name) - Len(n.name) <= 1
                             /\ IsPrefix(n.name, name) \/ IsSuffix(n.name, name)}
      longest == {n \in within : \A m \in within : Len(m.name) <= Len(n.name)}
  IN CASE Cardinality(exact) = 1 -> (CHOOSE n \in exact : TRUE).id
       [] Cardinality(exact) # 1 /\ Cardinality(longest) = 1 -> (CHOOSE n \in longest : TRUE).id
       [] OTHER -> NoId

\* The nodes a relation's request offers for one of its ends.
NodeOptions(name, nodes, types) ==
  {n \in nodes : n.ntype \in types /\ name # << >> /\ ToSet(n.name) \cap ToSet(name) # {}}

\* The payload of a relation: the nodes of the graph and, before them, the
\* one its object would become, if the run approved an entity of that name.
RelationOptions(cand, nodes, prospects) ==
  [subject |-> {n.id : n \in NodeOptions(cand.subject, nodes, Actors)},
   object |-> {n.id : n \in NodeOptions(cand.object, nodes, ObjectTypes(cand.rtype))}
     \cup {p.id : p \in {q \in prospects : q.ntype \in ObjectTypes(cand.rtype)}}]

(* _resolve_endpoint: the node the answer chose among the offered ones, or *)
(* one its name finds, or a new one.                                       *)
ResolveEndpoint(end, fallback, types, nodes, offered) ==
  LET named == IF end.name = << >> THEN fallback ELSE end.name
      found == Alias(named, nodes, types)
      other == Alias(fallback, nodes, types)
      new == [id |-> ReviewId(end.ntype, named), ntype |-> end.ntype, name |-> named]
      Keep(id) == [id |-> id, nodes |-> nodes]
  IN IF /\ end.action = "use_existing" /\ end.id \in offered
        /\ \E n \in nodes : n.id = end.id /\ n.ntype \in types
     THEN Keep(end.id)
     ELSE IF found # NoId THEN Keep(found)
     ELSE IF other # NoId THEN Keep(other)
     ELSE IF \/ end.action # "create" \/ end.ntype \notin types \/ ~ValidName(named)
             \/ end.ntype \in Actors /\ ~ValidActorName(named)
     THEN Keep(NoId)
     ELSE IF new.id \in NodeIds(nodes) THEN Keep(new.id)
     ELSE [id |-> new.id, nodes |-> nodes \cup {new}]

(***************************************************************************)
(* The mapping of an admission, over the selection in its order: entities  *)
(* first, then relations, and at last one edge for the relations that say  *)
(* the same.                                                               *)
(***************************************************************************)
AdmitEntity(g, cand, report) ==
  LET name == IF report.name = << >> THEN cand.name ELSE report.name
      found == Alias(name, g.nodes, {cand.ntype})
      node == [id |-> ReviewId(cand.ntype, name), ntype |-> cand.ntype, name |-> name]
      Approved(nodes, id) == [g EXCEPT !.nodes = nodes, !.status[cand.id] = "approved", !.node[cand.id] = id]
  IN IF report.decision # "approve" THEN [g EXCEPT !.status[cand.id] = "rejected"]
     ELSE IF found # NoId THEN Approved(g.nodes, found)
     ELSE IF cand.ntype \in {"event", "location"} /\ ValidName(name)
     THEN Approved(g.nodes \cup {node}, node.id)
     ELSE [g EXCEPT !.status[cand.id] = "rejected"]

AdmitRelation(g, cand, report, options) ==
  LET from == ResolveEndpoint(report.subject, cand.subject, Actors, g.nodes, options.subject)
      to == ResolveEndpoint(report.object, cand.object, ObjectTypes(cand.rtype), from.nodes,
                            options.object)
      fact == <<from.id, cand.rtype, to.id, cand.scope>>
  IN IF \/ report.decision # "approve" \/ NoId \in {from.id, to.id} \/ ~cand.paged
        \/ cand.rtype = "KNOWS"
     THEN [g EXCEPT !.status[cand.id] = "rejected"]
     ELSE IF fact \in g.edges \cup g.made
     THEN [g EXCEPT !.nodes = to.nodes, !.status[cand.id] = "superseded", !.node[cand.id] = fact]
     ELSE [g EXCEPT !.nodes = to.nodes, !.status[cand.id] = "approved", !.node[cand.id] = fact,
                    !.made = @ \cup {fact}]

Missing == [decision |-> "reject"]
Unoffered == [subject |-> {}, object |-> {}]

Admission(selection, reports, requests, nodes, edges) ==
  LET ids == {selection[i].id : i \in DOMAIN selection}
      start == [nodes |-> nodes, edges |-> edges, made |-> {},
                status |-> [id \in ids |-> "needs_human_review"], node |-> [id \in ids |-> NoId]]
      Decide(g, cand) ==
        LET report == IF cand.id \in DOMAIN reports THEN reports[cand.id] ELSE Missing
            options == IF cand.id \in DOMAIN requests THEN requests[cand.id] ELSE Unoffered
        IN IF cand.kind = "entity" THEN AdmitEntity(g, cand, report)
           ELSE AdmitRelation(g, cand, report, options)
  IN FoldLeft(Decide, start, selection)

(***************************************************************************)
(* The life of a run: its files (the manifest's status, reports and        *)
(* requests) and those of the candidates, the one worker thread and one    *)
(* admission, which reads the files before it takes the review lock.       *)
(* asked counts reviews, lost those whose answers were not saved and given *)
(* those that were given up; gaps are the reports whose request was not    *)
(* saved; resumed says that the run was started while an admission held a  *)
(* copy of its files.                                                      *)
(***************************************************************************)
Idle == [pc |-> "idle"]

Selected(run, kind) == {id \in DOMAIN run.kinds : run.kinds[id] = kind}
Answered(run) == {id \in DOMAIN run.reports : ~run.reports[id].failed}

\* create_run, over the candidates that wait for a person.
CreateRun(kinds) ==
  [kinds |-> kinds, status |-> "created", reports |-> << >>, requests |-> << >>,
   worker |-> Idle, admission |-> Idle, changed |-> {}, applied |-> FALSE,
   asked |-> [id \in DOMAIN kinds |-> 0], lost |-> [id \in DOMAIN kinds |-> 0],
   given |-> [id \in DOMAIN kinds |-> 0], gaps |-> {}, resumed |-> FALSE, starts |-> 0, faults |-> 0]

Phase(run, kind) ==
  [run EXCEPT !.status = "running",
              !.worker = [pc |-> "ask", kind |-> kind, todo |-> Selected(run, kind) \ Answered(run)]]

\* start and the beginning of run.
Start(run) ==
  IF run.worker # Idle \/ run.status \in {"admitted", "rolled_back"} THEN {}
  ELSE {[Phase(run, "entity") EXCEPT !.resumed = @ \/ run.admission # Idle, !.starts = @ + 1]}

\* One chunk, here of one candidate: it is asked for and answered or given up.
\* A relation is asked with the decision on its entity that is known by then.
Ask(run) ==
  IF run.worker.pc # "ask" THEN {}
  ELSE {[run EXCEPT !.asked[id] = @ + 1,
                    !.worker = [pc |-> "reports", kind |-> @.kind, todo |-> @.todo \ {id}, id |-> id,
                                report |-> [decision |-> d, failed |-> f]]] :
          id \in run.worker.todo, <<d, f>> \in {<<"approve", FALSE>>, <<"reject", FALSE>>, <<"reject", TRUE>>}}

Known(run) ==
  [id \in Selected(run, "entity") \cap DOMAIN run.reports |-> run.reports[id].decision]

\* The two files are merged one after the other, each under the lock.
MergeReports(run) ==
  IF run.worker.pc # "reports" THEN {}
  ELSE {[run EXCEPT !.reports = (run.worker.id :> run.worker.report) @@ @,
                    !.given[run.worker.id] = @ + (IF run.worker.report.failed THEN 1 ELSE 0),
                    !.worker.pc = "requests"]}

MergeRequests(run) ==
  IF run.worker.pc # "requests" THEN {}
  ELSE {[run EXCEPT !.requests = (run.worker.id :> Known(run)) @@ @, !.status = "running",
                    !.gaps = @ \ {run.worker.id},
                    !.worker = [pc |-> "ask", kind |-> @.kind, todo |-> @.todo]]}

PhaseEnds(run) ==
  IF run.worker.pc # "ask" \/ run.worker.todo # {} THEN {}
  ELSE IF run.worker.kind = "entity" THEN {Phase(run, "relation")}
  ELSE {[run EXCEPT !.worker = Idle,
                    !.status = IF DOMAIN run.reports = DOMAIN run.kinds THEN "ready_to_admit"
                               ELSE "failed"]}

\* What is lost when the worker stops now.
Unsaved(run) ==
  CASE run.worker.pc = "reports" -> [run EXCEPT !.lost[run.worker.id] = @ + 1]
    [] run.worker.pc = "requests" -> [run EXCEPT !.gaps = @ \cup {run.worker.id}]
    [] OTHER -> run

Raises(run) ==
  IF run.worker = Idle THEN {}
  ELSE {[Unsaved(run) EXCEPT !.status = "failed", !.worker = Idle, !.faults = @ + 1]}

Dies(run) == {[Unsaved(run) EXCEPT !.worker = Idle, !.admission = Idle, !.faults = @ + 1]}

\* admit: the manifest, the reports and the requests, then the lock, then all.
LoadAdmission(run) ==
  IF run.admission # Idle \/ run.status # "ready_to_admit" THEN {}
  ELSE {[run EXCEPT !.admission = [pc |-> "loaded", requests |-> run.requests]]}

Admit(run) ==
  IF run.admission = Idle THEN {}
  ELSE IF run.changed # {} \/ run.applied THEN {[run EXCEPT !.admission = Idle]}
  ELSE {[run EXCEPT !.admission = Idle, !.status = "admitted", !.applied = TRUE]}

RollBack(run) ==
  IF run.status # "admitted" THEN {}
  ELSE {[run EXCEPT !.status = "rolled_back", !.applied = FALSE]}

\* A person decides a candidate of the selection that still waits.
Decides(run) ==
  IF run.applied THEN {}
  ELSE {[run EXCEPT !.changed = @ \cup {id}] : id \in DOMAIN run.kinds \ run.changed}
=============================================================================
