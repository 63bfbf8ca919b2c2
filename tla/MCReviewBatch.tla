---------------------------- MODULE MCReviewBatch ----------------------------
(* Two candidates, one of them a light relation, in chunks of one.         *)
EXTENDS ReviewBatch, AgentChecks, GuardChecks

MCLight == {1}
MCContested == {2}
MCPrice == [answered \in SUBSET Items |-> SumSet(answered)]
MCModes == {"test", "production"}
=============================================================================
