------------------------------ MODULE AgentRun ------------------------------
(***************************************************************************)
(* One run of the local agent (agent_runtime.py over agent_store.py): the  *)
(* plan, the gate a risky step waits at, the approvals posted to it, the   *)
(* cancellation flag of the process and a restart.                         *)
(*                                                                         *)
(* A run is a record and each handler or step of a worker an operator from *)
(* a run to the set of runs it can leave: the executor's two workers, the  *)
(* requests of the server's thread pool and a crash interleave at the      *)
(* points where the code goes to its database or to a model.  The row's    *)
(* state is one blob that every writer reads, changes and writes back.     *)
(***************************************************************************)
EXTENDS Integers, Sequences, FiniteSets

(***************************************************************************)
(* Calls.  A call is [tool, traits]: the kinds of the actions of a browser *)
(* call, what the patterns find in a PowerShell command.                   *)
(***************************************************************************)
ReadTools == {"list_files", "read_file", "search_files", "inspect_attachment", "web_search",
  "fetch_web_page", "git_status", "git_diff", "connector_search", "connector_calendar_list",
  "connector_cloud_list", "task_note"}
ScopedTools == {"write_file", "move_file", "create_artifact", "connector_draft", "git_commit"}
ExternalTools == {"git_push", "send_email", "connector_send_email", "connector_calendar_write",
  "connector_cloud_upload", "publish"}
DestructiveTools == {"delete_file", "reset_repository", "connector_cloud_delete"}

PublicActs == {"submit", "login", "purchase", "publish", "upload", "share", "delete"}

BrowserRisk(acts) ==
  IF "delete" \in acts THEN "destructive"
  ELSE IF acts \cap PublicActs # {} THEN "external_write"
  ELSE IF "download" \in acts THEN "scoped_write" ELSE "read"

\* Patterns of a command: nothing, a listed reader, a dangerous verb, a sensitive
\* name, a composition, and the verbs that name its risk.
OnlyReads(cmd) ==
  "reader" \in cmd /\ cmd \cap {"dangerous", "sensitive", "composed"} = {}

ShellRisk(cmd) ==
  IF OnlyReads(cmd) THEN "read"
  ELSE IF "removes" \in cmd THEN "destructive"
  ELSE IF "sends" \in cmd THEN "external_write" ELSE "system_change"

Risk(call) ==
  IF call.tool \in ReadTools THEN "read"
  ELSE IF call.tool \in ScopedTools THEN "scoped_write"
  ELSE IF call.tool = "browser_action" THEN BrowserRisk(call.traits)
  ELSE IF call.tool = "powershell" THEN ShellRisk(call.traits)
  ELSE IF call.tool \in ExternalTools THEN "external_write"
  ELSE IF call.tool \in DestructiveTools THEN "destructive" ELSE "system_change"

NeedsApproval(call) == Risk(call) \in {"external_write", "destructive", "system_change"}

\* Whether the executor carries out a call at all, approved or not.
Permitted(call, approved) ==
  CASE call.tool \in {"delete_file", "connector_send_email", "connector_calendar_write",
                      "connector_cloud_upload", "connector_cloud_delete", "git_push"} -> approved
    [] call.tool = "browser_action" -> approved \/ call.traits \cap PublicActs = {}
    [] call.tool = "powershell" -> /\ call.traits \cap {"sensitive", "empty"} = {}
                                   /\ approved \/ OnlyReads(call.traits)
    [] OTHER -> call.tool \in ReadTools \cup ScopedTools

(* _plan: the first steps of the model's answer that name a tool of the    *)
(* schemas; without a usable answer a step that only reads.                *)
Schemas == (ReadTools \cup ScopedTools \cup ExternalTools \cup DestructiveTools
            \cup {"browser_action", "powershell"}) \ {"send_email", "publish", "reset_repository"}

Plan(answer, maxSteps, fallback) ==
  LET head == SubSeq(answer, 1, IF Len(answer) < maxSteps THEN Len(answer) ELSE maxSteps)
      Listed(call) == call.tool \in Schemas
      plan == SelectSeq(head, Listed)
  IN IF plan = << >> THEN << [tool |-> fallback, traits |-> {}] >> ELSE plan

(***************************************************************************)
(* The run's row and its steps and approvals, the workers, the stop event  *)
(* of the process, the approvals being handled, and for the properties     *)
(* what was done and how often each thing was asked for.                   *)
(***************************************************************************)
Blob == [plan |-> << >>, pending |-> {}, answered |-> FALSE, rejected |-> FALSE]

\* create: the row is queued and its first worker submitted.
Create(answer) ==
  [status |-> "queued", state |-> Blob, answer |-> answer,
   steps |-> << >>, approvals |-> << >>,
   workers |-> << [pc |-> "start", at |-> 1, skip |-> {}, call |-> << >>, seen |-> Blob,
                   approved |-> FALSE, deadline |-> TRUE] >>,
   stop |-> "clear", posts |-> << >>,
   done |-> << >>, granted |-> 0, doubled |-> FALSE,
   cancels |-> 0, crashes |-> 0, sent |-> 0]

Worker(pc, deadline) ==
  [pc |-> pc, at |-> 1, skip |-> {}, call |-> << >>, seen |-> Blob,
   approved |-> FALSE, deadline |-> deadline]

Goes(w, k, pc) == [w EXCEPT !.workers[k].pc = pc]
Ends(w, k) == Goes(w, k, "ended")

(***************************************************************************)
(* A worker.                                                               *)
(***************************************************************************)

\* The row says planning; what the plan will be written over is read now.
StartPlanning(w, k) ==
  {[w EXCEPT !.status = "planning", !.workers[k].pc = "planning", !.workers[k].seen = w.state]}

Succeeded(w) == {w.steps[i].index : i \in {i \in DOMAIN w.steps : w.steps[i].status = "succeeded"}}

\* The model has answered, or a plan was stored before a restart: the state
\* as it was read is written back with the plan, and the row is running.
WritePlan(w, k) ==
  LET seen == w.workers[k].seen
      plan == IF seen.plan # << >> THEN seen.plan ELSE Plan(w.answer, 20, "task_note")
  IN {[w EXCEPT !.status = "running", !.state = [seen EXCEPT !.plan = plan],
                !.workers[k] = [@ EXCEPT !.pc = "next", !.skip = Succeeded(w)]]}

Fail(w, k) == [Ends(w, k) EXCEPT !.status = "failed"]

\* The next step of the plan: behind a gate when its risk asks for one.
NextStep(w, k) ==
  LET me == w.workers[k]
      plan == w.state.plan
      call == plan[me.at]
      step == [index |-> me.at, call |-> call, status |-> "running"]
      made == [w EXCEPT !.steps = Append(@, step)]
      gate == [id |-> Len(made.steps), second |-> FALSE, risk |-> Risk(call), status |-> "pending"]
  IN IF me.at > Len(plan) THEN {Goes(w, k, "finalize")}
     ELSE IF me.at \in me.skip THEN {[w EXCEPT !.workers[k].at = me.at + 1]}
     ELSE IF w.stop = "set" THEN {Ends(w, k)}
     ELSE IF NeedsApproval(call)
       THEN {[Ends(made, k) EXCEPT !.status = "awaiting_approval", !.approvals = Append(@, gate),
                !.state.pending = {[step |-> Len(made.steps), call |-> call, next |-> me.at + 1]}]}
     ELSE {[made EXCEPT !.workers[k] =
              [@ EXCEPT !.pc = "execute", !.call = << call, Len(made.steps) >>,
                        !.approved = FALSE, !.at = me.at + 1]]}
          \cup (IF me.deadline THEN {Fail(w, k)} ELSE {})

\* The call is carried out, or refused, or fails; when the run was stopped
\* meanwhile the step is only marked, and the worker goes on.
Execute(w, k) ==
  LET me == w.workers[k]
      call == me.call[1]
      step == me.call[2]
      failed == [Fail(w, k) EXCEPT !.steps[step].status = "failed"]
  IN IF w.stop = "set" THEN {[Goes(w, k, "next") EXCEPT !.steps[step].status = "cancelled"]}
     ELSE {failed} \cup
       (IF Permitted(call, me.approved)
        THEN {[Goes(w, k, "record") EXCEPT
                 !.done = Append(@, [index |-> w.steps[step].index, call |-> call])]}
        ELSE {})

\* What was done is recorded on its step.
Record(w, k) ==
  {[Goes(w, k, "next") EXCEPT !.steps[w.workers[k].call[2]].status = "succeeded"]}

\* The model words the result (or its facts stand as they are).
Finalize(w, k) == {[Goes(w, k, "succeed") EXCEPT !.state.answered = TRUE]}
Succeed(w, k) == {[Ends(w, k) EXCEPT !.status = "succeeded"]}

WorkerStep(w, k) ==
  CASE w.workers[k].pc = "start" -> StartPlanning(w, k)
    [] w.workers[k].pc = "planning" -> WritePlan(w, k)
    [] w.workers[k].pc = "next" -> NextStep(w, k)
    [] w.workers[k].pc = "execute" -> Execute(w, k)
    [] w.workers[k].pc = "record" -> Record(w, k)
    [] w.workers[k].pc = "finalize" -> Finalize(w, k)
    [] w.workers[k].pc = "succeed" -> Succeed(w, k)
    [] OTHER -> {}

(***************************************************************************)
(* Requests.                                                               *)
(***************************************************************************)

\* The decision is stored on the approval, whatever it says already and
\* whichever step the run waits for now, and the row is read.
Post(w, id, decision) ==
  {[w EXCEPT !.approvals[id].status = decision, !.sent = @ + 1,
             !.posts = Append(@, [id |-> id, decision |-> decision, seen |-> w.state])]}

Approve(w) ==
  LET post == w.posts[1]
      approval == w.approvals[post.id]
      rest == [w EXCEPT !.posts = Tail(@)]
      again == [approval EXCEPT !.second = TRUE, !.status = "pending"]
      resumed == {[Worker("execute", FALSE) EXCEPT
                     !.at = p.next, !.call = << p.call, p.step >>, !.approved = TRUE] :
                     p \in post.seen.pending}
  IN IF post.decision = "rejected"
       THEN {[rest EXCEPT !.status = "cancelled", !.state = [post.seen EXCEPT !.rejected = TRUE]]}
     ELSE IF approval.risk = "destructive" /\ ~approval.second
       THEN {[rest EXCEPT !.approvals = Append(@, again), !.status = "awaiting_approval",
                          !.state = post.seen]}
     ELSE IF post.seen.pending = {} THEN {rest}
     ELSE {[rest EXCEPT !.status = "running", !.state = [post.seen EXCEPT !.pending = {}],
                        !.stop = IF @ = "none" THEN "clear" ELSE @,
                        !.workers = Append(@, worker), !.granted = @ + 1,
                        !.doubled = @ \/ approval.second] : worker \in resumed}

Cancel(w) ==
  {[w EXCEPT !.stop = IF @ = "none" THEN @ ELSE "set", !.status = "cancelled", !.cancels = @ + 1]}

\* shutdown: every worker is told to stop and waited for.
Shutdown(w) == {[w EXCEPT !.stop = IF @ = "none" THEN @ ELSE "set"]}

\* The process ends; its workers, requests and stop events are gone.
Crash(w) == {[w EXCEPT !.workers = << >>, !.posts = << >>, !.stop = "none", !.crashes = @ + 1]}

\* recover: a run that was under way is planned again, unless this process
\* knows it already; one that waits for a decision goes on waiting.
Recover(w) ==
  IF w.stop = "none" /\ w.status \in {"queued", "planning", "running"}
  THEN {[w EXCEPT !.status = "queued", !.stop = "clear",
                  !.workers = Append(@, Worker("start", TRUE))]}
  ELSE {}

\* retry: only what failed or was cancelled, as a new run.
Retry(w) == IF w.status \in {"failed", "cancelled"} THEN {Create(w.answer)} ELSE {}

=============================================================================
