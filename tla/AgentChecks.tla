---------------------------- MODULE AgentChecks ----------------------------
(***************************************************************************)
(* AgentRun over every history of a short plan with few requests, one      *)
(* cancellation and one restart, and its tables over every call.           *)
(***************************************************************************)
EXTENDS Integers, Sequences, FiniteSets
LOCAL INSTANCE AgentRun

LOCAL Call(tool) == [tool |-> tool, traits |-> {}]
LOCAL Reads == Call("read_file")
LOCAL Sends == Call("git_push")
LOCAL Deletes == Call("delete_file")

LOCAL Calls ==
  {Call(t) : t \in Schemas \ {"browser_action", "powershell"}}
  \cup {[tool |-> "browser_action", traits |-> s] :
          s \in SUBSET {"submit", "delete", "download", "click"}}
  \cup {[tool |-> "powershell", traits |-> s] :
          s \in SUBSET {"reader", "dangerous", "sensitive", "composed", "removes", "sends"}
               \cup {{"empty"}}}

(* Every call the executor refuses to an unapproved step is one the run    *)
(* asks approval for, so no plan of the model fails at a gate it was never *)
(* shown, and a call with approval is refused only as an empty or a        *)
(* sensitive command.                                                      *)
RiskCoversGuards ==
  \A call \in Calls :
    /\ ~NeedsApproval(call) => Permitted(call, FALSE) /\ Permitted(call, TRUE)
    /\ ~Permitted(call, TRUE) => call.tool = "powershell" /\ call.traits \cap {"sensitive", "empty"} # {}

(* The histories: requests are posted one at a time when turns is TRUE.    *)
LOCAL Moves(w, posts, cancels, crashes, turns) ==
  UNION {WorkerStep(w, k) : k \in DOMAIN w.workers}
  \cup (IF w.posts # << >> THEN Approve(w) ELSE {})
  \cup (IF w.sent < posts /\ (turns => w.posts = << >>)
        THEN UNION {Post(w, id, d) : id \in DOMAIN w.approvals, d \in {"approved", "rejected"}}
        ELSE {})
  \cup (IF w.cancels < cancels THEN Cancel(w) ELSE {})
  \cup (IF w.crashes < crashes THEN Crash(w) \cup Shutdown(w) ELSE {})
  \cup (IF w.workers = << >> THEN Recover(w) ELSE {})

LOCAL Histories(answer, posts, cancels, crashes, turns) ==
  LET grow[n \in 0..60] ==
        IF n = 0 THEN << {Create(answer)}, {Create(answer)} >>
        ELSE LET old == grow[n - 1]
                 new == UNION {Moves(w, posts, cancels, crashes, turns) : w \in old[2]} \ old[1]
             IN IF old[2] = {} THEN old ELSE << old[1] \cup new, new >>
  IN grow[60]

LOCAL Times(w, P(_)) == Cardinality({i \in DOMAIN w.done : P(w.done[i])})
LOCAL RiskyDone(w) == LET P(d) == NeedsApproval(d.call) IN Times(w, P)

(* What needs approval is done at most once for each approval that let it  *)
(* go on, however requests, a cancellation and a restart interleave; what  *)
(* deletes is done only after a second confirmation when nothing else of   *)
(* the plan asks for one.                                                  *)
NoMoreThanGranted ==
  \A answer \in {<<Sends, Reads>>, <<Deletes>>} :
    LET all == Histories(answer, 2, IF answer = <<Deletes>> THEN 1 ELSE 0, 1, FALSE) IN
    /\ all[2] = {}
    /\ \A w \in all[1] :
         /\ RiskyDone(w) <= w.granted
         /\ answer = <<Deletes>> /\ RiskyDone(w) > 0 => w.doubled

(* A run that says it succeeded, and was neither cancelled nor shut down,  *)
(* has carried out every step of its plan.  A step is carried out a second *)
(* time only when the process ended before it was recorded, and never for  *)
(* a decision that is posted again.                                        *)
DoneWhenSucceeded ==
  LET all == Histories(<<Sends, Reads>>, 2, 0, 1, TRUE) IN
  /\ all[2] = {}
  /\ \A w \in all[1] :
       /\ w.status = "succeeded" /\ ~(\E i \in DOMAIN w.steps : w.steps[i].status = "cancelled")
            => Succeeded(w) = DOMAIN w.state.plan
       /\ \A i \in DOMAIN w.state.plan :
            LET P(d) == d.index = i
                Lost == {s \in DOMAIN w.steps : w.steps[s].index = i /\ w.steps[s].status = "running"}
            IN Times(w, P) <= 1 + Cardinality(Lost)

(* A run that is over in no sense is one a restart takes up: whatever      *)
(* happened, a row without a worker is final, waits for a decision, or is  *)
(* planned again by the next process.                                      *)
NeverAbandoned ==
  LET all == Histories(<<Reads, Sends>>, 1, 1, 1, FALSE) IN
  /\ all[2] = {}
  /\ \A w \in all[1] :
       w.workers = << >> /\ w.status \notin {"succeeded", "failed", "cancelled", "awaiting_approval"}
         => Recover(w) # {}

(***************************************************************************)
(* The completion: reviews, the mapping of an admission, and the histories *)
(* of a run with one entity, one relation, two starts and one fault.       *)
(***************************************************************************)
LOCAL Completion == INSTANCE CompletionRun

LOCAL Documents == {[length |-> n, at |-> p] : n \in {20, 27, 60}, p \in {-1, 0, 14, 19}}

(* The evidence of an entity fits its budget, and every part but the last  *)
(* shows the name: the last one may be what is left of the budget and end  *)
(* before it.                                                              *)
EvidenceShowsTheName ==
  \A docs \in UNION {[1..n -> Documents] : n \in 1..4} :
    LET out == Completion!Excerpts(docs)
        Size(i) == out[i].ends - out[i].start
        total[i \in 0..Len(out)] == IF i = 0 THEN 0 ELSE total[i - 1] + Size(i)
    IN /\ total[Len(out)] <= Completion!Budget
       /\ \A i \in 1..(Len(out) - 1) :
            docs[out[i].doc].at \in out[i].start..(out[i].ends - 1)

LOCAL Entity == [kind |-> "entity", id |-> "e", ntype |-> "event", name |-> <<"feast">>,
                 quote |-> "own", evidence |-> {"own", "other"}]
LOCAL EntityAnswers ==
  [about : {"e", "x"}, decision : {"approve", "reject"}, quote : {"other", "invented"},
   ntype : {"event", "location"}, name : {<<"feast">>, <<"they">>}] \cup {[about |-> Completion!None]}

(* An approval quotes the evidence, is about its candidate, keeps its type *)
(* and gives it a name; and the first answer that can be read decides.     *)
ApprovalsQuote ==
  \A evidence \in {{"own", "other"}, {"other"}, {}} :
    LET cand == [Entity EXCEPT !.evidence = evidence] IN
    \A a, b \in EntityAnswers :
      LET report == Completion!Review(cand, <<a, b>>) IN
      /\ report.decision = "approve" =>
           /\ report.quote \in evidence
           /\ \E x \in {a, b} : x.about = "e" /\ x.ntype = "event"
                                /\ x.decision = "approve"
      /\ report.failed <=> ~Completion!Usable(cand, a) /\ ~Completion!Usable(cand, b)
      /\ Completion!Usable(cand, a) => report.attempts = 1

LOCAL Node(id, ntype, name) == [id |-> id, ntype |-> ntype, name |-> name]
LOCAL Hero == Node(<<"n1">>, "character", <<"hero">>)
LOCAL Graphs ==
  {{Hero} \cup s : s \in SUBSET {Node(<<"n2">>, "event", <<"a">>), Node(<<"n3">>, "event", <<"a">>),
                                  Node(<<"n4">>, "event", <<"a", "b">>)}}
LOCAL Names == {<<"a">>, <<"b">>, <<"a", "b">>, << >>}
LOCAL Event(id, name) == [kind |-> "entity", id |-> id, ntype |-> "event", name |-> name]
LOCAL Relation(id, subject, object) ==
  [kind |-> "relation", id |-> id, rtype |-> "PARTICIPATES_IN_EVENT", subject |-> subject,
   object |-> object, scope |-> "situational", paged |-> TRUE]
LOCAL End(action, id, ntype, name) == [action |-> action, id |-> id, ntype |-> ntype, name |-> name]
LOCAL Approves(subject, object) == [decision |-> "approve", subject |-> subject, object |-> object]
LOCAL Prospect == Completion!ReviewId("event", <<"a", "b">>)

LOCAL SubjectEnds == {End("use_existing", <<"n1">>, "character", <<"hero">>), End("none", << >>, "character", << >>),
                      End("create", << >>, "character", <<"foe">>), End("create", << >>, "character", <<"company">>)}
LOCAL ObjectEnds ==
  {End("use_existing", id, "event", name) : id \in {<<"n2">>, <<"n4">>, Prospect}, name \in Names}
  \cup {End("create", << >>, t, name) : t \in {"event", "item"}, name \in Names}
  \cup {End("none", << >>, "event", name) : name \in Names}

LOCAL Offers(nodes, report) ==
  Completion!RelationOptions(Relation("r1", <<"guest">>, <<"a", "b">>), nodes,
    IF report.decision = "approve" THEN {[id |-> Prospect, ntype |-> "event"]} ELSE {})

(* Whatever the model answers, an admission leaves no node that is neither *)
(* an approved entity nor the end of an edge it made; one edge for each    *)
(* fact, with one approved candidate, and none the graph has already; ends *)
(* of the types the relation allows; the node that was chosen from the     *)
(* offered ones; and for the event that the same run approved, its node,   *)
(* whatever it became under the name the answer gives it, unless the graph *)
(* has several nodes of that name.                                         *)
MappingStands ==
  \A nodes \in Graphs, name \in Names, decision \in {"approve", "reject"},
     subject \in SubjectEnds, object \in ObjectEnds, known \in BOOLEAN :
  \A second \in {End("create", << >>, "event", <<"b">>), object} :
    LET first == [decision |-> decision, name |-> name]
        reports == [e |-> first, r1 |-> Approves(subject, object),
                    r2 |-> Approves(End("none", << >>, "character", << >>), second)]
        options == Offers(nodes, first)
        edges == IF known THEN {<<<<"n1">>, "PARTICIPATES_IN_EVENT", <<"n2">>, "situational">>} ELSE {}
        g == Completion!Admission(
               <<Event("e", <<"a", "b">>), Relation("r1", <<"guest">>, <<"a", "b">>),
                 Relation("r2", <<"hero">>, <<"b">>)>>,
               reports, [r1 |-> [options EXCEPT !.subject = {<<"n1">>}], r2 |-> options], nodes, edges)
        Of(id, type) == \E n \in g.nodes : n.id = id /\ n.ntype = type
    IN /\ \A n \in g.nodes \ nodes :
            \/ g.status.e = "approved" /\ n.id = g.node.e
            \/ \E fact \in g.made : n.id \in {fact[1], fact[3]}
       /\ g.made \cap edges = {}
       /\ \A fact \in g.made :
            /\ Cardinality({r \in {"r1", "r2"} : g.status[r] = "approved" /\ g.node[r] = fact}) = 1
            /\ Of(fact[1], "character") /\ Of(fact[3], "event")
       /\ \A r \in {"r1", "r2"} :
            /\ g.status[r] = "approved" => g.node[r] \in g.made
            /\ g.status[r] = "superseded" => g.node[r] \in edges \cup g.made
       /\ g.status.r1 # "rejected" /\ object.action = "use_existing" =>
            /\ object.id \in Completion!NodeIds(nodes) \cap options.object => g.node.r1[3] = object.id
            /\ /\ g.status.e = "approved" /\ object.id = Prospect
               /\ object.name = IF name = << >> THEN <<"a", "b">> ELSE name
               /\ Cardinality({n \in nodes : n.name = object.name}) <= 1
               => g.node.r1[3] = g.node.e

LOCAL CompletionMoves(run) ==
  (IF run.starts < 2 THEN Completion!Start(run) ELSE {})
  \cup Completion!Ask(run) \cup Completion!MergeReports(run) \cup Completion!MergeRequests(run)
  \cup Completion!PhaseEnds(run) \cup Completion!LoadAdmission(run) \cup Completion!Admit(run)
  \cup Completion!RollBack(run)
  \cup (IF run.changed = {} THEN Completion!Decides(run) ELSE {})
  \cup (IF run.faults < 1 THEN Completion!Raises(run) \cup Completion!Dies(run) ELSE {})

LOCAL CompletionHistories ==
  LET grow[n \in 0..60] ==
        IF n = 0 THEN LET start == Completion!CreateRun([e |-> "entity", r |-> "relation"])
                      IN << {start}, {start} >>
        ELSE LET old == grow[n - 1]
                 new == UNION {CompletionMoves(run) : run \in old[2]} \ old[1]
             IN IF old[2] = {} THEN old ELSE << old[1] \cup new, new >>
  IN grow[60]

(* Whatever is resumed, raised or dies: a candidate is paid for again only *)
(* when its answer was lost or given up; a run that may be admitted has a  *)
(* report for everything it selected, with the request it answered unless  *)
(* the worker stopped between the two files; a relation was asked with the *)
(* decision its entity still has unless that one was given up first;       *)
(* nothing is admitted over a person's decision; and what was admitted     *)
(* stays recorded as admitted, so that it can be rolled back, unless the   *)
(* run was started again while the admission had its copy.                 *)
CompletionIsWhole ==
  LET all == CompletionHistories IN
  /\ all[2] = {}
  /\ \A run \in all[1] :
       /\ \A id \in DOMAIN run.kinds : run.asked[id] <= 1 + run.lost[id] + run.given[id]
       /\ run.status = "ready_to_admit" =>
            /\ DOMAIN run.reports = DOMAIN run.kinds
            /\ DOMAIN run.kinds \ DOMAIN run.requests \subseteq run.gaps
            /\ \A r \in DOMAIN run.requests : \A e \in DOMAIN run.requests[r] :
                 run.given[e] = 0 => run.requests[r][e] = run.reports[e].decision
       /\ run.status = "admitted" => run.applied
       /\ run.applied => run.changed = {}
       /\ run.applied /\ ~run.resumed => run.status = "admitted" /\ run.worker = Completion!Idle

ASSUME RiskCoversGuards
ASSUME NoMoreThanGranted
ASSUME DoneWhenSucceeded
ASSUME NeverAbandoned
ASSUME EvidenceShowsTheName
ASSUME ApprovalsQuote
ASSUME MappingStands
ASSUME CompletionIsWhole
=============================================================================
