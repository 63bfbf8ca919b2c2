---------------------------- MODULE MCReviewGraph ----------------------------
(* An entity, two relations that point to it; the batch run has selected the   *)
(* entity and the first relation.                                              *)
EXTENDS ReviewGraph, CallChecks, TLC

CONSTANTS place, base
MCTarget == [r \in Rels |-> place]
MCSelected == {place, 1}
Table(p, r) == [c \in MCSelected |-> IF c = place THEN p ELSE r]
MCTables == {Table("both approve", "one approves"), Table("unclear", "barred by the documents")}
Sym == Permutations(Callers)
=============================================================================
