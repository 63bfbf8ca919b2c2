---------------------------- MODULE CallChecks -----------------------------
(***************************************************************************)
(* ProviderCall over every history of a small registry and over every      *)
(* sequence of answers to a call.                                          *)
(***************************************************************************)
EXTENDS Integers, Sequences, FiniteSets
LOCAL INSTANCE ProviderCall

LOCAL A1 == << "a", "1" >>
LOCAL A2 == << "a", "2" >>
LOCAL B1 == << "b", "1" >>
LOCAL Settings(url, enabled, trusted) ==
  [url |-> url, enabled |-> enabled, trusted |-> trusted, key |-> TRUE, declares |-> {"tools"}]
LOCAL Here == Settings("u", TRUE, {"text", "image"})

LOCAL Grow(init, next(_), depth) ==
  LET grow[n \in 0..depth] ==
        IF n = 0 THEN << init, init >>
        ELSE LET old == grow[n - 1]
                 new == UNION {next(x) : x \in old[2]} \ old[1]
             IN IF old[2] = {} THEN old ELSE << old[1] \cup new, new >>
  IN grow[depth]

(* The registry of one provider with two models and one with a single one, *)
(* settings changed once while at most two requests are out.      *)
LOCAL Start ==
  [Registry([p \in {"a", "b"} |-> IF p = "a" THEN Here ELSE Settings("w", TRUE, {"text"})],
            [k \in {A1, A2, B1} |-> IF k = B1 THEN [Undiscovered EXCEPT !.can = {"text"}, !.verified = TRUE,
                                                    !.text = "passed", !.passedAt = "w",
                                                    !.by["text"] = "probe"]
                                    ELSE Undiscovered], {})
   EXCEPT !.jobs = {}]

LOCAL Histories(ops) ==
  LET Moves(x) ==
        LET r == x.r
            End(new) == {[x EXCEPT !.r = v] : v \in new}
            Begin(new) == IF x.began = ops \/ Cardinality(r.jobs) = 2 THEN {}
                          ELSE {[x EXCEPT !.r = v, !.began = @ + 1] : v \in new}
        IN Begin(StartDiscovery(r, "a")) \cup Begin(StartProbe(r, A1, {"json"}, 1))
           \cup Begin(StartProbe(r, A2, {"vision"}, 0))
           \cup UNION {End(CASE j.op = "discover" -> EndDiscovery(r, j)
                             [] j.op = "probe" -> ProbeText(r, j)
                             [] OTHER -> EndProbe(r, j)) : j \in r.jobs}
           \cup (IF x.saves = 1 THEN {}
                 ELSE {[x EXCEPT !.r = SaveProvider(r, "a", s), !.saves = @ + 1,
                                 !.during = @ \/ (s.url # r.provider["a"].url /\ r.jobs # {})] :
                       s \in {Settings("v", TRUE, {"text", "image"}), Settings("u", TRUE, {"text"}),
                              Settings("u", FALSE, {"text", "image"})}})
  IN Grow({[r |-> Start, began |-> 0, saves |-> 0, during |-> FALSE]}, Moves, 14)

LOCAL Registries == Histories(2)

(* The model an answer is routed to has answered a probe at the address    *)
(* its provider has now, unless the user or a default names it or the      *)
(* address was changed while a probe or a discovery was out; the abilities *)
(* the task needs were shown or declared, and the provider is on and       *)
(* trusted with every kind of data of the task.                            *)
RoutedIsReady ==
  /\ Registries[2] = {}
  /\ \A x \in Registries[1], required \in {{"text"}, {"text", "json"}, {"text", "vision"}},
        types \in {{"text"}, {"text", "image"}}, override \in {{}, {A1}}, env \in BOOLEAN :
       \A sel \in Route(x.r, required, override, types, {}, env) :
         LET m == x.r.model[sel[1]] IN
         IF sel[1] = Env THEN env /\ "image" \notin types
         ELSE /\ x.r.provider[sel[1][1]].enabled
              /\ types \subseteq x.r.provider[sel[1][1]].trusted
              /\ required \subseteq m.can
              /\ sel[2] = "automatic" => \A a \in required : CapabilityStatus(m, a) \in {"verified", "declared"}
              /\ (sel[2] = "automatic" /\ ~x.during) => m.passedAt = x.r.provider[sel[1][1]].url

(* A failed answer is never asked of the model that failed, nor of any     *)
(* other when the user chose it, nor where the task's data may not go.     *)
AskedElsewhere ==
  \A x \in Registries[1], types \in {{"text"}, {"text", "image"}}, override \in {{}, {A1}}, default \in {{}, {A1}} :
    LET r == [x.r EXCEPT !.defaults = default] IN
    \A first \in Route(r, {"text"}, override, types, {}, TRUE) :
      \A second \in SecondChoice(r, first[1], {"text"}, override, types, TRUE) :
        /\ override = {} /\ second[1] # first[1]
        /\ second[1] = Env \/ Trusts(r, second[1][1], types)

LOCAL Calls(mode, kind, effective, configured, own, strict, attempts, budget) ==
  Grow({Call(kind, effective, mode, configured, own, strict, attempts, budget)}, CallStep, 10)

LOCAL Configured == {<< "immersive", 4 >>, << "assistant", 8 >>}

(* One answer costs at most one request more than twice its attempts, one  *)
(* request where retries are off, and never more than the operation's      *)
(* budget; a refused request is never sent again as it was unless the      *)
(* refusal was a momentary one; every answered request is counted in the   *)
(* usage of the text.                                                      *)
RequestsBounded ==
  \A m \in Configured, kind \in Kinds, effective \in {"on", "off"}, strict \in BOOLEAN, budget \in {2, 9},
     attempts \in 1..2, own \in {0, 2} :
    LET all == Calls(m[1], kind, effective, m[2], own, strict, attempts, budget) IN
    /\ all[2] = {}
    /\ \A c \in all[1] :
         /\ Len(c.sent) <= IF strict THEN 1 ELSE 2 * attempts + 1
         /\ Len(c.sent) <= budget
         /\ \A i, j \in DOMAIN c.sent :
              (i < j /\ c.replies[i] = "refused" /\ kind \notin {"deepseek", "dashscope"}) => c.sent[i] # c.sent[j]
         /\ (c.result = "text") =>
              c.usage = Cardinality({i \in DOMAIN c.replies : c.replies[i] \in {"text", "cut", "empty"}})

(* Thinking asked for is given up with the first refusal or empty answer   *)
(* and never comes back; an immersive answer never asks for it, whatever   *)
(* was requested.                                                          *)
ThinkingGivenUp ==
  \A kind \in Kinds, reasons, complex \in BOOLEAN, requested \in {"auto", "on", "off"}, mode \in {"immersive", "assistant"} :
    LET effective == ResolveThinking(kind, reasons, mode, requested, complex)
        all == Calls(mode, kind, effective, 8, 0, FALSE, 2, 9)
    IN \A c \in all[1] : \A i \in DOMAIN c.sent :
         c.sent[i].thinking = "on" =>
           /\ mode # "immersive" /\ requested # "off"
           /\ \A j \in 1..i : c.sent[j].thinking = "on"

ASSUME RoutedIsReady
ASSUME AskedElsewhere
ASSUME RequestsBounded
ASSUME ThinkingGivenUp
=============================================================================
