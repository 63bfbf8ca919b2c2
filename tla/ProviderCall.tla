--------------------------- MODULE ProviderCall ----------------------------
(***************************************************************************)
(* Which model answers, and the requests one answer costs: the registry of *)
(* provider_registry.py with its discovery, probes and routing, and        *)
(* _call_model of mvp_service.py with its retries.                         *)
(*                                                                         *)
(* A registry is a record: what is stored of every provider and model and  *)
(* the discoveries and probes that wait for an answer.  A step of one is   *)
(* an operator from a registry to the registries it can leave.             *)
(***************************************************************************)
EXTENDS Integers, Sequences, FiniteSets

Abilities == {"text", "json", "tools", "vision"}     \* CAPABILITY_KEYS, fewer

(* A model: what it is said to do and by whom, its probe_status, probe.text *)
(* and quality, and the address that answered the last probe it passed.     *)
Undiscovered ==
  [can |-> {}, by |-> [a \in Abilities |-> "none"], verified |-> FALSE, text |-> "none",
   quality |-> 0, passedAt |-> "none"]

Registry(providers, models, defaults) ==
  [provider |-> providers, model |-> models, defaults |-> defaults, jobs |-> {}]

Of(r, p) == {k \in DOMAIN r.model : k[1] = p}
Known(r, p) == {k \in Of(r, p) : r.model[k] # Undiscovered}

(***************************************************************************)
(* What a record says of a model.                                          *)
(***************************************************************************)
TextReady(m) == "text" \in m.can /\ (m.verified \/ m.text = "passed")
Selectable(r, k) == r.provider[k[1]].enabled /\ "text" \in r.model[k].can
Eligible(r, k) == r.provider[k[1]].enabled /\ TextReady(r.model[k])

CapabilityStatus(m, a) ==
  CASE m.by[a] = "probe" -> IF a \in m.can THEN "verified" ELSE "failed"
    [] m.by[a] = "declared" -> IF a \in m.can THEN "declared" ELSE "unsupported"
    [] OTHER -> "unverified"

(***************************************************************************)
(* Settings.  A new address takes the text probe back, of every model.     *)
(***************************************************************************)
Stale(m) == IF m = Undiscovered THEN m ELSE [m EXCEPT !.verified = FALSE, !.text = "unverified"]

SaveProvider(r, p, settings) ==
  LET moved == r.provider[p].url \notin {"none", settings.url}
  IN [r EXCEPT !.provider[p] = settings,
               !.model = [k \in DOMAIN @ |-> IF moved /\ k[1] = p THEN Stale(@[k]) ELSE @[k]]]

(* Discovery and probes read the provider, wait for its answer and write    *)
(* what they make of the records they read; a discovery writes the whole    *)
(* provider back.                                                           *)
Ready(r, p) == r.provider[p].key /\ r.provider[p].url # "none"

StartDiscovery(r, p) ==
  IF ~Ready(r, p) THEN {}
  ELSE {[r EXCEPT !.jobs = @ \cup {[op |-> "discover", p |-> p, provider |-> r.provider[p],
                                    cached |-> [k \in Of(r, p) |-> r.model[k]]]}]}

Listed(m) ==
  IF m = Undiscovered THEN [m EXCEPT !.can = {"text"}, !.by["text"] = "declared"]
  ELSE [m EXCEPT !.by["text"] = IF @ = "none" THEN "declared" ELSE @]

EndDiscovery(r, job) ==
  LET Back(s) == [s EXCEPT !.provider[job.p] = job.provider, !.jobs = @ \ {job}]
  IN {Back(r)}
     \cup {Back([r EXCEPT !.model = [k \in DOMAIN @ |-> IF k \in names THEN Listed(job.cached[k]) ELSE @[k]]]) :
           names \in SUBSET DOMAIN job.cached \ {{}}}

StartProbe(r, k, asked, quality) ==
  IF ~Ready(r, k[1]) THEN {}
  ELSE {[r EXCEPT !.jobs = @ \cup {[op |-> "probe", k |-> k, provider |-> r.provider[k[1]],
                                    asked |-> asked, quality |-> quality]}]}

\* The text request of a probe fails, or the record is read for the rest.
ProbeText(r, job) ==
  LET m == r.model[job.k] IN
  {[r EXCEPT !.model[job.k] = [m EXCEPT !.can = @ \cup {"text"}, !.verified = FALSE, !.text = "failed"],
             !.jobs = @ \ {job}],
   [r EXCEPT !.jobs = (@ \ {job}) \cup {[op |-> "abilities", k |-> job.k, provider |-> job.provider,
                                        asked |-> job.asked, quality |-> job.quality, previous |-> m]}]}

\* What the provider's settings declare is noted, abilities a request can
\* show are probed, the rest believed.
Believed == {"vision"}
EndProbe(r, job) ==
  LET m == job.previous
      declared == job.provider.declares \ {"text"}
      tested == job.asked \ (Believed \cup {"text"})
      told == (declared \ tested) \cup (job.asked \cap Believed)
  IN {[r EXCEPT !.model[job.k] =
         [m EXCEPT !.can = (@ \ tested) \cup shown \cup told \cup {"text"},
                   !.verified = TRUE, !.text = "passed", !.quality = job.quality,
                   !.passedAt = job.provider.url,
                   !.by = [a \in Abilities |-> IF a \in tested \cup {"text"} THEN "probe"
                                               ELSE IF a \in told THEN "declared" ELSE @[a]]],
                !.jobs = @ \ {job}] : shown \in SUBSET tested}

(***************************************************************************)
(* Routing.  A choice of the user or a stored default holds if it can do   *)
(* the task; only a user's choice that cannot is refused, but an untrusted *)
(* or disabled provider is refused to both.  An empty set is a refusal.    *)
(***************************************************************************)
Trusts(r, p, types) == types \subseteq r.provider[p].trusted
Env == << "env", "env" >>

Better(r, a, b) ==
  LET x == r.model[a]
      y == r.model[b]
  IN x.quality > y.quality \/ (x.quality = y.quality /\ "tools" \in x.can /\ "tools" \notin y.can)

Candidates(r, required, types, excluded) ==
  {k \in DOMAIN r.model \ excluded :
     /\ Eligible(r, k) /\ required \subseteq r.model[k].can
     /\ Trusts(r, k[1], types) /\ r.provider[k[1]].key}

EnvSelection(required, types, env) == env /\ required \subseteq {"text", "json"} /\ types \subseteq {"text"}

Automatic(r, required, types, excluded, env) ==
  LET found == Candidates(r, required, types, excluded)
      best == {k \in found : ~ \E other \in found : Better(r, other, k)}
  IN IF found # {} THEN {<< k, "automatic" >> : k \in best}
     ELSE IF EnvSelection(required, types, env) THEN {<< Env, "environment" >>} ELSE {}

Route(r, required, override, types, excluded, env) ==
  LET named == (IF override # {} THEN override ELSE r.defaults) \ excluded
      auto == Automatic(r, required, types, excluded, env)
  IN IF named = {} THEN auto
     ELSE UNION {IF ~r.provider[k[1]].enabled \/ ~Trusts(r, k[1], types) \/ r.model[k] = Undiscovered THEN {}
                 ELSE IF required \subseteq r.model[k].can /\ Selectable(r, k)
                   THEN {<< k, IF override # {} THEN "override" ELSE "default" >>}
                 ELSE IF override # {} THEN {} ELSE auto : k \in named}

Credentialed(r, k) == k = Env \/ r.provider[k[1]].key

\* A failed answer is asked of another model, unless the user chose this one.
SecondChoice(r, first, required, override, types, env) ==
  IF override # {} \/ first = Env THEN {} ELSE Route(r, required, {}, types, {first}, env)

(***************************************************************************)
(* The thinking a request asks for: "on", "off" or nothing said.           *)
(***************************************************************************)
Kinds == {"deepseek", "dashscope", "openai", "openai-compatible"}

ThinkingRequestFields(kind, effective) ==
  IF kind \in {"deepseek", "dashscope"} THEN effective
  ELSE IF kind = "openai" /\ effective = "on" THEN "on" ELSE "unsaid"

ResolveThinking(kind, reasons, mode, requested, complex) ==
  LET wanted == mode # "immersive" /\ (requested = "on" \/ (requested = "auto" /\ complex))
      supported == kind \in {"deepseek", "dashscope"} \/ (kind = "openai" /\ reasons)
  IN IF wanted /\ supported THEN "on" ELSE "off"

\* A call is the request as it stands, what was sent and what it returned.
\* Limits are in units of 1024 tokens; a caller's own limit is kept.
MaxTokens(mode, configured, own) ==
  LET ceiling == IF mode = "assistant" THEN 16 ELSE 8
  IN IF own # 0 THEN own ELSE IF configured > ceiling THEN ceiling ELSE configured

Call(kind, effective, mode, configured, own, strict, attempts, budget) ==
  [kind |-> kind, strict |-> strict, own |-> own, budget |-> budget,
   attempts |-> IF strict THEN 1 ELSE attempts, attempt |-> 1, pc |-> "post",
   body |-> [json |-> TRUE, thinking |-> ThinkingRequestFields(kind, effective),
             tokens |-> MaxTokens(mode, configured, own)],
   cut |-> FALSE, empty |-> FALSE, usage |-> 0, sent |-> << >>, replies |-> << >>, result |-> "none"]

Ended(c, result) == [c EXCEPT !.pc = "ended", !.result = result]
Again(c) == [c EXCEPT !.attempt = @ + 1, !.pc = "post"]

\* force_thinking_off, after an answer that was cut off or had no content.
ThinkingOff(kind) == IF kind \in {"deepseek", "dashscope"} THEN "off" ELSE "unsaid"
Twice(tokens) == IF 2 * tokens > 8 THEN 8 ELSE 2 * tokens

(* One request and what follows from its answer.  A refusal is first taken  *)
(* for one of the JSON mode, then for one of the thinking fields.           *)
Retryable == {"busy", "timeout", "network"}

Failed(c, reply) ==
  IF c.attempt = c.attempts \/ reply \notin Retryable THEN Ended(c, "provider_error") ELSE Again(c)

Refusal(c, reply) ==
  IF ~c.strict /\ c.pc = "post" /\ c.body.json THEN [c EXCEPT !.body.json = FALSE, !.pc = "bare"]
  ELSE IF ~c.strict /\ c.pc # "plain" /\ c.body.thinking # "unsaid"
    THEN [c EXCEPT !.body.thinking = "unsaid", !.pc = "plain"]
  ELSE Failed(c, reply)

Cut(c) ==
  Again([c EXCEPT !.cut = TRUE, !.body = [json |-> FALSE, thinking |-> ThinkingOff(c.kind), tokens |-> Twice(@.tokens)]])
Empty(c) ==
  Again([c EXCEPT !.empty = TRUE, !.body.json = FALSE, !.body.thinking = ThinkingOff(c.kind)])

Replied(c, reply) ==
  LET paid == [c EXCEPT !.usage = @ + 1] IN
  CASE reply \in {"refused", "busy"} -> Refusal(c, reply)
    [] reply \in {"timeout", "network"} -> Failed(c, reply)
    [] reply = "garbled" -> Ended(c, "raised")
    [] reply = "cut" /\ ~c.cut /\ c.attempt < c.attempts /\ c.own = 0 -> Cut(paid)
    [] reply \in {"text", "cut"} -> Ended(paid, "text")
    [] ~c.empty /\ c.attempt < c.attempts -> Empty(paid)
    [] OTHER -> Ended(paid, "empty")

Replies == {"text", "cut", "empty", "garbled", "refused", "busy", "timeout", "network"}

\* _reserve_model_call refuses a request beyond the operation's budget.
CallStep(c) ==
  IF c.pc = "ended" THEN {}
  ELSE IF c.budget = 0 THEN {Ended(c, "provider_error")}
  ELSE {Replied([c EXCEPT !.budget = @ - 1, !.sent = Append(@, c.body), !.replies = Append(@, reply)], reply) :
        reply \in Replies}

=============================================================================
