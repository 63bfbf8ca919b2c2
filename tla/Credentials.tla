---------------------------- MODULE Credentials ----------------------------
(***************************************************************************)
(* Sealed model credentials: what is issued and opened                     *)
(* (public_security.py), the cut-off per subject that revokes them         *)
(* (public_store.py), the keys that sign the state packages, and the       *)
(* browser's side of a revocation (credential-retention.js, app.js), which *)
(* is to be over before a new credential is kept.  Times are hours of the  *)
(* server's clock, in the browser's histories steps.                       *)
(***************************************************************************)
EXTENDS Integers, Sequences, FiniteSets

RetentionHours == [tab |-> 12, short |-> 2, long |-> 168]

Version(provider, retention) ==
  IF provider = "relay" THEN 3 ELSE IF retention = "tab" THEN 1 ELSE 2

(* issue_byok_credential: at is sealed into it unless it is of version 1.  *)
Issued(settings, subject, provider, retention, now) ==
  [version |-> Version(provider, retention), subject |-> subject, provider |-> provider,
   retention |-> retention, at |-> now,
   exp |-> now + (IF retention = "tab" THEN settings.tabHours ELSE RetentionHours[retention])]

\* A subject without a row, or with one that has run out, has no cut-off.
NoRevocation == [cutoff |-> -1, until |-> -1]

Revoked(row, now) ==
  [cutoff |-> IF row.cutoff < now THEN now ELSE row.cutoff,
   until |-> IF row.until < now + 8 * 24 THEN now + 8 * 24 ELSE row.until]

RevokedBefore(row, now) == IF row.until > now THEN row.cutoff ELSE NoRevocation.cutoff

\* cleanup deletes what has run out.
Cleaned(row, now) == IF row.until <= now THEN NoRevocation ELSE row

(* open_byok_credential with the cut-off read at the start of the request. *)
Opens(settings, cred, subject, provider, now, row) ==
  /\ cred.subject = subject
  /\ cred.version # 1 =>
       /\ cred.exp - cred.at = IF cred.version = 3 /\ cred.retention = "tab"
                               THEN settings.tabHours ELSE RetentionHours[cred.retention]
       /\ cred.at <= now
       /\ cred.at > RevokedBefore(row, now)
  /\ cred.exp > now
  /\ cred.version = 3 <=> cred.provider = "relay"
  /\ cred.provider = provider

(***************************************************************************)
(* sign_state and verify_state.  A configuration has a key and the one     *)
(* before it, each with a name that may be empty; a package carries the    *)
(* name of its key if it has one.                                          *)
(***************************************************************************)
Signed(conf) == [key |-> conf.key, id |-> conf.id]

Verifies(conf, package) ==
  package.key \in
    (IF package.id \in {"", conf.id} THEN {conf.key} ELSE {})
    \cup (IF conf.previous # "" /\ package.id \in {"", conf.previousId} THEN {conf.previous} ELSE {})

(***************************************************************************)
(* The browser.  creds are the credentials it was ever issued, held the    *)
(* one it has (0 for none), pending the mark in its storage that a         *)
(* revocation is not confirmed, calls the revocations (a late one is one   *)
(* the browser no longer waits for), and issue the set-up of a new         *)
(* credential.  For the properties: which were cleared, which of them were *)
(* given up as not revocable, which were issued while a revocation was     *)
(* still on its way, and whether two revocations ever were.                *)
(***************************************************************************)
Browser ==
  [clock |-> 1, row |-> NoRevocation, creds |-> << >>, cleared |-> {}, given |-> {}, held |-> 0,
   pending |-> FALSE, calls |-> << >>, issue |-> [pc |-> "idle"],
   crossed |-> {}, overlaps |-> FALSE]

Kept(b) == b.held # 0 /\ b.creds[b.held].retention # "tab"
OnTheWay(b) == {i \in DOMAIN b.calls : b.calls[i].pc \in {"sent", "done", "late"}}

\* revoke marks first and asks then.
Revokes(b, why) ==
  [b EXCEPT !.pending = TRUE, !.calls = Append(@, [pc |-> "sent", why |-> why]),
            !.overlaps = @ \/ OnTheWay(b) # {}]

Forgets(b) == [b EXCEPT !.held = 0, !.cleared = @ \cup {b.held}]

\* The visitor clears the credential; a kept one is also revoked.
Clear(b) ==
  IF b.held = 0 THEN {} ELSE IF Kept(b) THEN {Revokes(Forgets(b), "clear")} ELSE {Forgets(b)}

\* The page is opened again: what it waited for is lost, what it marked is retried.
Boot(b) ==
  LET late(c) == [c EXCEPT !.pc = CASE @ = "sent" -> "late" [] @ = "done" -> "over" [] OTHER -> @]
      fresh == [b EXCEPT !.issue = [pc |-> "idle"], !.calls = [i \in DOMAIN @ |-> late(@[i])]]
  IN {IF b.pending THEN Revokes(fresh, "boot") ELSE fresh}

\* issueCredential up to the verification: a kept credential is replaced, and
\* with it, or with a mark, the revocation comes first.
BeginIssue(b, provider, retention) ==
  LET freed == IF Kept(b) THEN Forgets(b) ELSE b
      asks == [provider |-> provider, retention |-> retention]
  IN IF b.issue.pc # "idle" THEN {}
     ELSE IF Kept(b) \/ b.pending
     THEN {[Revokes(freed, "issue") EXCEPT !.issue = [pc |-> "revoking", asks |-> asks]]}
     ELSE {[freed EXCEPT !.issue = [pc |-> "issuing", asks |-> asks]]}

\* The visitor leaves the set-up; its revocation goes on.
Abort(b) ==
  LET alone(c) == IF c.why = "issue" THEN [c EXCEPT !.why = "clear"] ELSE c
  IN IF b.issue.pc = "idle" THEN {}
     ELSE {[b EXCEPT !.issue = [pc |-> "idle"], !.calls = [i \in DOMAIN @ |-> alone(@[i])]]}

\* POST /byok/revoke at the server.
Execute(b, i) ==
  IF b.calls[i].pc \notin {"sent", "late"} THEN {}
  ELSE {[b EXCEPT !.row = Revoked(@, b.clock), !.clock = @ + 1,
                  !.calls[i].pc = IF @ = "sent" THEN "done" ELSE "over"]}

Goes(b, i) == IF b.calls[i].why = "issue" /\ b.issue.pc = "revoking"
              THEN [b EXCEPT !.issue.pc = "issuing"] ELSE b

Confirmed(b, i) ==
  IF b.calls[i].pc # "done" THEN {}
  ELSE {[Goes(b, i) EXCEPT !.calls[i].pc = "over", !.pending = FALSE]}

\* Refused for good: the mark goes too, the credential ends by itself.
GivenUp(b, i) ==
  IF b.calls[i].pc # "sent" THEN {}
  ELSE {[Goes(b, i) EXCEPT !.calls[i].pc = "over", !.pending = FALSE, !.given = b.cleared]}

\* No answer: the mark stays, and nothing is kept until it is gone.
Unanswered(b, i) ==
  LET next == IF b.calls[i].why # "issue" \/ b.issue.pc # "revoking" THEN b
              ELSE IF b.issue.asks.retention # "tab" THEN [b EXCEPT !.issue = [pc |-> "idle"]]
              ELSE [b EXCEPT !.issue.pc = "issuing"]
  IN IF b.calls[i].pc \notin {"sent", "done"} THEN {}
     ELSE {[next EXCEPT !.calls[i].pc = IF @ = "sent" THEN "late" ELSE "over"]}

\* POST /byok/session, and the credential stored.
Issue(b, settings) ==
  IF b.issue.pc # "issuing" THEN {}
  ELSE LET n == Len(b.creds) + 1 IN
       {[b EXCEPT !.creds = Append(@, Issued(settings, "me", b.issue.asks.provider,
                                              b.issue.asks.retention, b.clock)),
                  !.cleared = @ \cup ({b.held} \ {0}), !.held = n, !.clock = @ + 1,
                  !.issue = [pc |-> "idle"],
                  !.crossed = @ \cup (IF \E i \in DOMAIN b.calls : b.calls[i].pc \in {"sent", "late"}
                                      THEN {n} ELSE {})]}
=============================================================================
