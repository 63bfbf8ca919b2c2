----------------------------- MODULE ReviewGraph -----------------------------
(* Who decides the review candidates and what that puts into the graph: people *)
(* one candidate at a time (repository.py), an admitted run of the batch       *)
(* review (review_automation.py) and a run of the DeepSeek completion          *)
(* (deepseek_review_completion.py), each of which can be rolled back.  They    *)
(* share the review lock, but a run's manifest is read before the lock is      *)
(* taken, and every operation ends in a series of writes of whole files, any   *)
(* of which may be the last before the process dies.                           *)
EXTENDS Naturals, FiniteSets, Sequences

CONSTANTS Ents, Rels,        \* candidates: entities, and relations named by numbers
          Target,            \* relation -> the entity it points to, or Base
          Base,              \* a node of the graph that was always there
          Selected,          \* candidates of the batch run
          Tables,            \* reports of both passes on them that are considered
          Callers,           \* calls of run operations at work together
          MaxStamps, MaxDeaths    \* bounds of the instance

Candidates == Ents \union Rels

ASSUME GraphAssumption ==
    /\ Rels \subseteq Nat /\ Ents \intersect Rels = {}
    /\ Target \in [Rels -> Ents \union {Base}] /\ Base \notin Candidates
    /\ Selected \subseteq Candidates
    /\ Tables \subseteq [Selected -> {"both approve", "one approves", "both reject", "unclear",
                                    "barred by the documents"}]
    /\ MaxStamps \in Nat /\ MaxDeaths \in Nat

VARIABLES disk,      \* the files
          verdict,   \* the reports of both passes, per selected candidate
          gates,     \* whether the calibration opens automatic decisions
          stamp,     \* time of the last decision
          call,      \* caller -> what it is about to do, with the manifest it read
          todo,      \* writes of the operation that holds the lock
          deaths

rgVars == <<disk, verdict, gates, stamp, call, todo, deaths>>

Waiting == {"pending_review", "needs_human_review"}
Final == {"approved", "rejected", "superseded"}
Fresh == [status |-> "pending_review", by |-> "none", at |-> 0]
NoRun == [status |-> "none"]
NoCall == [op |-> "none"]

Deciders == {"none", "human", "qwen", "deepseek"}
Decision == [status : Waiting \union Final, by : Deciders, at : Nat]
Node == [name : Ents \union {Base}, by : Deciders]
Edge == [rel : Rels, to : Ents \union {Base}, by : Deciders]
EventSet == [run : Deciders, attempt : Nat, candidate : Candidates,
             before : Decision, after : Decision]
Progress == {"ready_to_admit", "admitted", "rolled_back"}
QwenRun == [status : Progress, strict : BOOLEAN, attempt : Nat,
            nodes : SUBSET Node, edges : SUBSET Edge]
IsDeepRun(m) ==
    /\ DOMAIN m = {"status", "before", "approves", "nodes", "edges"}
    /\ m.status \in Progress /\ m.nodes \subseteq Node /\ m.edges \subseteq Edge
    /\ DOMAIN m.before \subseteq Candidates /\ m.before \in [DOMAIN m.before -> Decision]
    /\ m.approves \subseteq DOMAIN m.before

\* What a file may hold.
Holds(file, value) ==
    \/ file = "ents" /\ value \in [Ents -> Decision]
    \/ file = "rels" /\ value \in [Rels -> Decision]
    \/ file = "nodes" /\ value \in SUBSET Node
    \/ file = "edges" /\ value \in SUBSET Edge
    \/ file = "events" /\ value \in SUBSET EventSet
    \/ file = "qwen" /\ value \in QwenRun
    \/ file = "deep" /\ (value = NoRun \/ IsDeepRun(value))
Files == {"ents", "rels", "nodes", "edges", "events", "qwen", "deep"}
WritesOK(writes) ==
    /\ writes \in Seq({writes[i] : i \in DOMAIN writes})
    /\ \A i \in DOMAIN writes : Holds(writes[i].file, writes[i].value)

RGTypeOK ==
    /\ DOMAIN disk = Files /\ \A f \in Files : Holds(f, disk[f])
    /\ WritesOK(todo)
    /\ verdict \in Tables /\ gates \in BOOLEAN
    /\ stamp \in 0..MaxStamps /\ deaths \in 0..MaxDeaths
    /\ DOMAIN call = Callers
    /\ \A c \in Callers : \/ call[c] = NoCall
                          \/ call[c].op \in {"admit", "rollback"} /\ call[c].m \in QwenRun
                          \/ call[c].op \in {"deep admit", "deep rollback"} /\ IsDeepRun(call[c].m)

RGInit ==
    /\ disk = [ents |-> [e \in Ents |-> Fresh], rels |-> [r \in Rels |-> Fresh],
               nodes |-> {}, edges |-> {}, events |-> {},
               qwen |-> [status |-> "ready_to_admit", strict |-> FALSE, attempt |-> 0,
                         nodes |-> {}, edges |-> {}],
               deep |-> NoRun]
    /\ verdict \in Tables
    /\ gates \in BOOLEAN
    /\ stamp = 0 /\ deaths = 0 /\ todo = <<>>
    /\ call = [c \in Callers |-> NoCall]

Current(c) == IF c \in Ents THEN disk.ents[c] ELSE disk.rels[c]
Named(nodes) == {Base} \union {n.name : n \in nodes}
Decided(cand, S, status, by) ==
    [c \in DOMAIN cand |-> IF c \in S THEN [status |-> status, by |-> by, at |-> stamp + 1]
                           ELSE cand[c]]
Unlocked == todo = <<>> /\ stamp < MaxStamps
Run(writes) == todo' = writes /\ stamp' = stamp + 1

-------------------------------------------------------------------------------
(* A person decides one candidate: the artefact first, then the candidate.     *)

EntityWrites(e, status) ==
    LET decided == <<[file |-> "ents", value |-> Decided(disk.ents, {e}, status, "human")]>> IN
    IF status = "approved"
    THEN <<[file |-> "nodes", value |-> disk.nodes \union {[name |-> e, by |-> "human"]}]>> \o decided
    ELSE decided

DecideEntity(e, status) ==
    /\ Unlocked
    /\ disk.ents[e].status \in Waiting
    /\ status = "approved" => e \notin Named(disk.nodes)
    /\ Run(EntityWrites(e, status))
    /\ UNCHANGED <<disk, verdict, gates, call, deaths>>

RelationWritesLate(r, status) ==
    LET decided == <<[file |-> "rels", value |-> Decided(disk.rels, {r}, status, "human")]>> IN
    IF status = "approved"
    THEN decided \o <<[file |-> "edges", value |-> {e \in disk.edges : e.rel # r}
            \union {[rel |-> r, to |-> Target[r], by |-> "human"]}]>>
    ELSE decided

RelationWrites(r, status) ==
    LET decided == <<[file |-> "rels", value |-> Decided(disk.rels, {r}, status, "human")]>> IN
    IF status = "approved"
    THEN <<[file |-> "edges", value |-> {e \in disk.edges : e.rel # r}
            \union {[rel |-> r, to |-> Target[r], by |-> "human"]}]>> \o decided
    ELSE decided

DecideRelation(r, status) ==
    /\ Unlocked
    /\ disk.rels[r].status \in Waiting
    /\ status = "approved" => Target[r] \in Named(disk.nodes)
    /\ Run(RelationWrites(r, status))
    /\ UNCHANGED <<disk, verdict, gates, call, deaths>>

-------------------------------------------------------------------------------
(* Runs: the manifest is checked first, without the lock.                      *)

Load(c, op) ==
    /\ call[c] = NoCall
    /\ \/ op = "admit" /\ disk.qwen.status = "ready_to_admit"
       \/ op = "rollback" /\ disk.qwen.status = "admitted"
       \/ op = "deep admit" /\ disk.deep.status = "ready_to_admit"
       \/ op = "deep rollback" /\ disk.deep.status = "admitted"
    /\ call' = [call EXCEPT ![c] =
            [op |-> op, m |-> IF op \in {"admit", "rollback"} THEN disk.qwen ELSE disk.deep]]
    /\ UNCHANGED <<disk, verdict, gates, stamp, todo, deaths>>

Returns(c) == call' = [call EXCEPT ![c] = NoCall]

(* _entity_prediction, _relation_prediction and the strict consensus.          *)
Approved(c, strict) ==
    \/ verdict[c] = "both approve"
    \/ verdict[c] = "one approves" /\ c \in Rels /\ ~strict
Asked(cand) == {c \in DOMAIN cand \intersect Selected : cand[c].status = "pending_review"}

(* The outcome of relations S that may become edges: one per target, none for  *)
(* a target that has an edge.                                                  *)
Primary(S, edges) ==
    {r \in S : /\ \A q \in S : Target[q] = Target[r] => r <= q
               /\ \A e \in edges : e.to # Target[r]}
NewEdges(S, by) == {[rel |-> r, to |-> Target[r], by |-> by] : r \in S}

Outcome(cand, approved, superseded, rejected, rest, by) ==
    [c \in DOMAIN cand |->
        IF c \in approved \union superseded \union rejected \union rest
        THEN [status |-> IF c \in approved THEN "approved"
                         ELSE IF c \in superseded THEN "superseded"
                         ELSE IF c \in rejected THEN "rejected" ELSE "needs_human_review",
              by |-> by, at |-> stamp + 1]
        ELSE cand[c]]

Event(c, before, after, run) ==
    [run |-> run, attempt |-> stamp + 1, candidate |-> c, before |-> before,
     after |-> after]
Events(old, new, S, run) == {Event(c, old[c], new[c], run) : c \in S}

Admit(c) ==
    /\ call[c].op = "admit"
    /\ Unlocked
    /\ LET m == call[c].m
           open == gates \/ m.strict
           ents == Asked(disk.ents)
           newNodes == {e \in ents : open /\ Approved(e, m.strict) /\ e \notin Named(disk.nodes)}
           nodes == disk.nodes \union {[name |-> e, by |-> "qwen"] : e \in newNodes}
           rejected == {x \in Selected : \/ open /\ verdict[x] = "both reject"
                                         \/ x \in Rels /\ verdict[x] = "barred by the documents"}
           newEnts == Outcome(disk.ents, newNodes, {}, ents \intersect rejected, ents, "qwen")
           rels == Asked(disk.rels)
           eligible == {r \in rels : open /\ Approved(r, m.strict) /\ Target[r] \in Named(nodes)}
           primary == Primary(eligible, disk.edges)
           edges == disk.edges \union NewEdges(primary, "qwen")
           newRels == Outcome(disk.rels, primary, eligible \ primary, rels \intersect rejected,
                              rels, "qwen")
       IN Run(<<[file |-> "ents", value |-> newEnts],
                [file |-> "nodes", value |-> nodes],
                [file |-> "rels", value |-> newRels],
                [file |-> "edges", value |-> edges],
                [file |-> "events", value |-> disk.events
                    \union Events(disk.ents, newEnts, ents, "qwen")
                    \union Events(disk.rels, newRels, rels, "qwen")],
                [file |-> "qwen", value |-> [m EXCEPT !.status = "admitted", !.attempt = stamp + 1,
                    !.nodes = {n \in nodes : n.by = "qwen"},
                    !.edges = {e \in edges : e.by = "qwen"}]]>>)
    /\ Returns(c)
    /\ UNCHANGED <<disk, verdict, gates, deaths>>

(* What a roll-back finds changed since the events it wants to undo.           *)
ChangedStatus(events) == \E e \in events : Current(e.candidate).status # e.after.status
Changed(events) == \E e \in events : Current(e.candidate) # e.after
Restored(cand, events) ==
    [c \in DOMAIN cand |-> IF \E e \in events : e.candidate = c
                           THEN (CHOOSE e \in events : e.candidate = c).before ELSE cand[c]]
WithoutBatch(S, by) == {x \in S : x.by # "qwen"}
Without(S, by) == {x \in S : x.by # by}

Rollback(c) ==
    /\ call[c].op = "rollback"
    /\ todo = <<>>
    /\ LET m == call[c].m
           events == {e \in disk.events : e.run = "qwen" /\ e.attempt = m.attempt} IN
       todo' = IF \/ Changed(events)
                  \/ m.nodes # {n \in disk.nodes : n.by = "qwen"}
                  \/ m.edges # {e \in disk.edges : e.by = "qwen"}
               THEN <<>>
               ELSE <<[file |-> "rels", value |-> Restored(disk.rels, events)],
                      [file |-> "ents", value |-> Restored(disk.ents, events)],
                      [file |-> "edges", value |-> Without(disk.edges, "qwen")],
                      [file |-> "nodes", value |-> Without(disk.nodes, "qwen")],
                      [file |-> "qwen", value |-> [m EXCEPT !.status = "rolled_back"]]>>
    /\ Returns(c)
    /\ UNCHANGED <<disk, verdict, gates, stamp, deaths>>

(* The operator waives the calibration: consensus of both passes is required.  *)
Override ==
    /\ disk.qwen.status \in {"ready_to_admit", "rolled_back"} /\ ~disk.qwen.strict
    /\ disk' = [disk EXCEPT !.qwen.strict = TRUE, !.qwen.status = "ready_to_admit"]
    /\ UNCHANGED <<verdict, gates, stamp, call, todo, deaths>>

-------------------------------------------------------------------------------
(* The completion run takes what still needs a human.                          *)

DeepSelect ==
    /\ disk.deep = NoRun
    /\ LET S == {c \in Candidates : Current(c).status = "needs_human_review"} IN
       /\ S # {}
       /\ \E approves \in SUBSET S :
            disk' = [disk EXCEPT !.deep =
                [status |-> "ready_to_admit", before |-> [c \in S |-> Current(c)],
                 approves |-> approves, nodes |-> {}, edges |-> {}]]
    /\ UNCHANGED <<verdict, gates, stamp, call, todo, deaths>>

DeepAdmit(c) ==
    /\ call[c].op = "deep admit"
    /\ Unlocked
    /\ \E mapped \in SUBSET (call[c].m.approves \intersect Rels) :
       LET m == call[c].m
           selected == DOMAIN m.before
           ents == selected \intersect Ents
           rels == selected \intersect Rels
           approved == m.approves \intersect ents
           \* an approved entity, or the end of an approved relation, gets its node
           new == (approved \union {Target[r] : r \in mapped}) \ Named(disk.nodes)
           nodes == disk.nodes \union {[name |-> e, by |-> "deepseek"] : e \in new}
           primary == Primary(mapped, disk.edges)
           edges == disk.edges \union NewEdges(primary, "deepseek")
           newEnts == Outcome(disk.ents, approved, {}, ents, {}, "deepseek")
           newRels == Outcome(disk.rels, primary, mapped \ primary, rels, {}, "deepseek")
       IN IF \E x \in selected : Current(x) # m.before[x]
          THEN UNCHANGED <<todo, stamp>>
          ELSE Run(<<[file |-> "ents", value |-> newEnts],
                     [file |-> "rels", value |-> newRels],
                     [file |-> "nodes", value |-> nodes],
                     [file |-> "edges", value |-> edges],
                     [file |-> "events", value |-> disk.events
                        \union Events(disk.ents, newEnts, ents, "deepseek")
                        \union Events(disk.rels, newRels, rels, "deepseek")],
                     [file |-> "deep", value |-> [m EXCEPT !.status = "admitted",
                        !.nodes = nodes \ disk.nodes, !.edges = edges \ disk.edges]]>>)
    /\ Returns(c)
    /\ UNCHANGED <<disk, verdict, gates, deaths>>

DeepRollback(c) ==
    /\ call[c].op = "deep rollback"
    /\ todo = <<>>
    /\ LET m == call[c].m
           events == {e \in disk.events : e.run = "deepseek"} IN
       todo' = IF \/ Changed(events)
                  \/ ~(m.nodes \subseteq disk.nodes) \/ ~(m.edges \subseteq disk.edges)
               THEN <<>>
               ELSE <<[file |-> "ents", value |-> Restored(disk.ents, events)],
                      [file |-> "rels", value |-> Restored(disk.rels, events)],
                      [file |-> "nodes", value |-> Without(disk.nodes, "deepseek")],
                      [file |-> "edges", value |-> Without(disk.edges, "deepseek")],
                      [file |-> "deep", value |-> [m EXCEPT !.status = "rolled_back"]]>>
    /\ Returns(c)
    /\ UNCHANGED <<disk, verdict, gates, stamp, deaths>>

-------------------------------------------------------------------------------
Write ==
    /\ todo # <<>>
    /\ disk' = [disk EXCEPT ![Head(todo).file] = Head(todo).value]
    /\ todo' = Tail(todo)
    /\ UNCHANGED <<verdict, gates, stamp, call, deaths>>

Die ==
    /\ todo # <<>> /\ deaths < MaxDeaths
    /\ todo' = <<>>
    /\ deaths' = deaths + 1
    /\ UNCHANGED <<disk, verdict, gates, stamp, call>>

Decisions == {"approved", "rejected"}
RunOps == {"admit", "rollback", "deep admit", "deep rollback"}

RGNext ==
    \/ \E e \in Ents, status \in Decisions : DecideEntity(e, status)
    \/ \E r \in Rels, status \in Decisions : DecideRelation(r, status)
    \/ \E c \in Callers :
         \/ \E op \in RunOps : Load(c, op)
         \/ Admit(c) \/ Rollback(c) \/ DeepAdmit(c) \/ DeepRollback(c)
    \/ Override \/ DeepSelect \/ Write \/ Die

RGSpec == RGInit /\ [][RGNext]_rgVars

-------------------------------------------------------------------------------
(* A final decision of a person stands.  One of a run is changed only by a     *)
(* roll-back, which puts back what that run had found, recorded in its event:  *)
(* no admission, no second call with an old manifest and no roll-back of       *)
(* another run touches it.                                                     *)
FinalStands ==
    [][\A c \in Candidates :
         LET old == Current(c)
             new == IF c \in Ents THEN disk.ents'[c] ELSE disk.rels'[c] IN
         old.status \in Final /\ new # old =>
            /\ old.by # "human" /\ new.status \in Waiting
            /\ \E e \in disk.events : e.candidate = c /\ e.after = old /\ e.before = new]_rgVars

(* What a person approved is in the graph, whatever crashed and was rolled     *)
(* back since.                                                                 *)
HumanApprovalsKept ==
    /\ \A e \in Ents : disk.ents[e].status = "approved" /\ disk.ents[e].by = "human" =>
            [name |-> e, by |-> "human"] \in disk.nodes
    /\ \A r \in Rels : disk.rels[r].status = "approved" /\ disk.rels[r].by = "human" =>
            [rel |-> r, to |-> Target[r], by |-> "human"] \in disk.edges

(* When a completion run becomes rolled back, nothing of it is in the graph    *)
(* and every candidate is as the run found it or as a person has left it, also *)
(* when an admission was called twice or broken off.                           *)
CompletionUndone ==
    [][disk.deep.status = "admitted" /\ disk.deep'.status = "rolled_back" =>
         /\ \A x \in disk.nodes' \union disk.edges' : x.by # "deepseek"
         /\ \A c \in DOMAIN disk.deep.before : Current(c)' = disk.deep.before[c]]_rgVars
=============================================================================
