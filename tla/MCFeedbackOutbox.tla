--------------------------- MODULE MCFeedbackOutbox ---------------------------
(* One visitor sends the same words twice from one address and once from      *)
(* another; one worker, which may die.                                         *)
EXTENDS FeedbackOutbox, TurnChecks, WorkspaceChecks, TLC

CONSTANTS r1, r2, r3, visitor, home, away, words

MCSubject == [r \in Reports |-> visitor]
MCIp == (r1 :> home) @@ (r2 :> home) @@ (r3 :> away)
MCLimits == {[period |-> 1, limit |-> 1], [period |-> 4, limit |-> 2]}
MCContent == [r \in Reports |-> words]
=============================================================================
