-------------------------- MODULE WorkspaceChecks --------------------------
(***************************************************************************)
(* LocalWorkspace over every short history of messages, switches,          *)
(* arrivals, agent tasks, deletions and restarts.                          *)
(***************************************************************************)
EXTENDS Integers, Sequences, FiniteSets, Functions
LOCAL INSTANCE LocalWorkspace

LOCAL Req(id, channel, join, anchor, asks) ==
  [id |-> id, channel |-> channel, join |-> join, anchor |-> anchor, asks |-> asks, mode |-> "immersive"]
LOCAL Message(id) == Req(id, "text", FALSE, "none", "none")
LOCAL Meetings(id) ==
  {Req(id, "in_person", TRUE, "none", "none"), Req(id, "in_person", FALSE, "none", "none"),
   Req(id, "in_person", FALSE, "room", "none"), Req(id, "text", FALSE, "none", "to_person")}

LOCAL Steps(w) ==
  UNION {IF w.jobs[k].pc = "meet" THEN Meet(w, k, "none") \cup Meet(w, k, "room") ELSE JobStep(w, k) :
           k \in DOMAIN w.jobs}
LOCAL Idle(w) == \A k \in DOMAIN w.jobs : w.jobs[k].pc = "ended"

\* Worlds with the number of requests and disturbances they have had.
LOCAL Explore(Asks(_), Disturbs(_), asks, disturbs, turns) ==
  LET Succ(x) ==
        {<< v, x[2], x[3] >> : v \in Steps(x[1])}
        \cup (IF x[2] < asks /\ (turns => Idle(x[1]))
              THEN {<< v, x[2] + 1, x[3] >> : v \in Asks(x[1])} ELSE {})
        \cup (IF x[3] < disturbs THEN {<< v, x[2], x[3] + 1 >> : v \in Disturbs(x[1])} ELSE {})
      grow[n \in 0..50] ==
        IF n = 0 THEN << {<< Workspace, 0, 0 >>}, {<< Workspace, 0, 0 >>} >>
        ELSE LET old == grow[n - 1]
                 new == UNION {Succ(x) : x \in old[2]} \ old[1]
             IN IF old[2] = {} THEN old ELSE << old[1] \cup new, new >>
  IN {x[1] : x \in grow[50][1]}

LOCAL Stored(w, id) == Cardinality({i \in DOMAIN w.messages : w.messages[i].id = id})
LOCAL Paid(w, id) == Cardinality({i \in DOMAIN w.calls : w.calls[i] = id})

(* A message sent again after its last attempt has ended is answered from  *)
(* the store: one exchange, whatever failed and whenever the process or    *)
(* the five minutes of its claim ended.                                    *)
ResentOnce ==
  LET Asks(w) == Enter(w, Message("m"))
      Disturbs(w) == Restart(w) \cup Age(w)
  IN \A w \in Explore(Asks, Disturbs, 3, 1, TRUE) : Stored(w, "m") <= 1

(* Of attempts at one message made at once only one is at work on it, from *)
(* its claim to the stored exchange, and a replay repeats what is stored.  *)
AloneAtWork ==
  LET Asks(w) == Enter(w, Message("m"))
      Disturbs(w) == Restart(w)
      Busy(w) == {k \in DOMAIN w.jobs : w.jobs[k].pc \in {"model", "remember", "store"}}
  IN \A w \in Explore(Asks, Disturbs, 2, 1, FALSE) :
       /\ Cardinality(Busy(w)) <= 1
       /\ << "m", "replay" >> \in w.replies => Stored(w, "m") >= 1

(* Whoever is answered face to face was in the place she is at when the    *)
(* model was asked, wherever a confirmed place moved her.                  *)
MetInPerson ==
  LET Asks(w) == UNION {Enter(w, r) : r \in Meetings("none")}
                 \cup SwitchTo(w, "in_person") \cup SwitchTo(w, "text")
      Disturbs(w) == Restart(w)
  IN \A w \in Explore(Asks, Disturbs, 2, 1, TRUE) :
       \A i \in DOMAIN w.messages : w.messages[i].channel = "in_person" => w.messages[i].met

(* After every exchange, switch and deletion the store holds what the      *)
(* process remembers of the session, so that a restart forgets nothing.    *)
NothingForgotten ==
  LET Asks(w) == Enter(w, Message("m")) \cup Enter(w, Req("n", "in_person", TRUE, "none", "none"))
                 \cup SwitchTo(w, "text") \cup Clear(w, "immersive")
      Disturbs(w) == Restart(w)
  IN \A w \in Explore(Asks, Disturbs, 3, 0, TRUE) \cup Explore(Asks, Disturbs, 2, 1, TRUE) :
       Idle(w) /\ Has(w.memory.session) => w.session = w.memory.session

(* An arrival is decided once and spoken at most once, however often it is *)
(* asked for and whatever ends under it; one she did not notice says       *)
(* nothing.                                                                *)
ArrivalOnce ==
  LET Asks(w) == PrepareArrival(w, "a")
      Disturbs(w) == Restart(w)
  IN \A w \in Explore(Asks, Disturbs, 3, 1, FALSE) :
       /\ Cardinality(w.arrivals) <= 1 /\ Paid(w, "a") <= 1
       /\ \A a \in w.arrivals :
            /\ a.decision = "unnoticed" => Stored(w, "a") = 0
            /\ a.status = "completed" /\ a.decision = "noticed" => Stored(w, "a") = 1

ASSUME ResentOnce
ASSUME AloneAtWork
ASSUME MetInPerson
ASSUME NothingForgotten
ASSUME ArrivalOnce
-----------------------------------------------------------------------------
(* The feedback inbox, over files of up to three reports whose clocks may  *)
(* have gone back.                                                         *)
LOCAL Inbox == INSTANCE FeedbackIssues

LOCAL Blank == [free |-> {}, message |-> {}, answer |-> {}, category |-> "", stored |-> << >>, created |-> 1,
                scope |-> "conversation", session |-> "s1", ref |-> "m1", options |-> {"tone"}]

LOCAL Says(words, at) == [Blank EXCEPT !.free = words, !.answer = {"markdown"}, !.created = at]
LOCAL Complaints == {Says({}, 1), Says({"unheard"}, 1), Says({"place", "repeated"}, 1), Says({"place", "repeated"}, 2),
                     [Says({"plot", "stiff"}, 1) EXCEPT !.stored = << << "narrative_continuity", {} >> >>]}

LOCAL Files == UNION {[1..n -> Complaints] : n \in 0..3}
LOCAL Decision(key, status, at) == [key |-> key, status |-> status, at |-> at, source |-> "manual"]

(* What a person decided of a family stands against the defaults a reading *)
(* of the list writes at the same moment, unless the family had never been *)
(* listed before: then the default read earlier is written over it         *)
(* (sync_feedback_issue_status, mvp_service.py 11892).                     *)
DecisionsStand ==
  \A rows \in {f \in Files : Len(f) < 3} : \A first \in {{}} \cup {{k} : k \in {Inbox!IssueKey(c) : c \in Complaints}} :
    LET before == [i \in 1..Cardinality(first) |-> Decision(CHOOSE k \in first : TRUE, "planned", 1)]
        added  == Inbox!SyncRead(rows, before, 2)
    IN \A key \in {Inbox!EffectiveKey(r) : r \in Range(rows)} :
         LET after == Inbox!SyncWrite(Inbox!SetStatus(before, key, "open", 3), added)
         IN (after[Inbox!Latest(after, key)].status = "open") <=> (key \in first)

(* However the clock ran, a family has one first report, every other one   *)
(* is told as a duplicate of it and counted once, and what an older report *)
(* is told does not depend on the family being verified or complained of   *)
(* again (_annotate_feedback_rows, 11844).                                 *)
OneFirstPerFamily ==
  \A rows \in Files :
    LET events == Inbox!SyncRead(rows, << >>, 1)
        told   == Inbox!Annotated(rows, events)
    IN \A i \in DOMAIN rows :
         LET family == {j \in DOMAIN rows : told[j].key = told[i].key}
         IN /\ {told[j].recurrence : j \in family} = 0..(Cardinality(family) - 1)
            /\ Cardinality({j \in family : told[j].occurrence = "first"}) = 1
            /\ told[told[i].of].occurrence = "first" /\ told[i].of \in family
            /\ Cardinality({told[j].status : j \in family}) = 1
            /\ told[i].status = Inbox!Annotated(<< rows[i] >>, events)[1].status

(* What the analyst wrote names the problem; the words of the answer that  *)
(* was complained of never do (_feedback_issue_key, 11704).                *)
AnalystNamesTheProblem ==
  \A c \in Complaints : \A words \in {{}, {"squad"}, {"model", "place"}} :
    LET stored == Inbox!AppendFeedback(<< >>, [c EXCEPT !.answer = words])
    IN (c.free # {} => Inbox!EffectiveKey(stored[1]) = Inbox!IssueKey(c))

(* The totals are of every report that fits, though only the newest are    *)
(* listed, each once and newest first (feedback, 12059).                   *)
TotalsCoverAll ==
  \A rows \in Files : \A limit \in {0, 1, 2} : \A status \in {"", "planned"} :
    LET page == Inbox!Feedback(rows, Inbox!Triage(<< >>, rows, 1, "planned"), Inbox!SyncRead(rows, << >>, 2),
                               [session |-> "s1", status |-> status, resolution |-> ""], limit)
        sum[keys \in SUBSET DOMAIN page.issues] ==
          IF keys = {} THEN 0 ELSE LET k == CHOOSE k \in keys : TRUE IN page.issues[k] + sum[keys \ {k}]
    IN /\ sum[DOMAIN page.issues] = page.total
       /\ page.total > 0 => page.rows # << >>
       /\ status = "" /\ rows # << >> => page.total = Len(rows) /\ page.rows[1].id = Len(rows)
       /\ \A i, j \in DOMAIN page.rows : i < j => page.rows[i].id > page.rows[j].id

ASSUME DecisionsStand
ASSUME OneFirstPerFamily
ASSUME AnalystNamesTheProblem
ASSUME TotalsCoverAll
=============================================================================
