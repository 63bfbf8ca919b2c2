---------------------------- MODULE RequestData ----------------------------
(***************************************************************************)
(* The values the public request table stores: sequences of confirmed      *)
(* content blocks and terminal responses.                                  *)
(***************************************************************************)
EXTENDS Naturals, Sequences

CONSTANTS
    Block,      \* validated content blocks, compared only for equality
    MaxBlocks   \* blocks one request may publish: 8 in the code

ASSUME MaxBlocksAssumption == MaxBlocks \in Nat \ {0}

BlockSeq == UNION {[1..n -> Block] : n \in 0..MaxBlocks}

(***************************************************************************)
(* A response is an answer with its blocks, the terminal error of an owner *)
(* that knows how its generation failed, or the terminal error written for *)
(* an owner that was lost ("generation_interrupted").                      *)
(***************************************************************************)
Answer(bs)  == [kind |-> "answer", blocks |-> bs]
Failed      == [kind |-> "error", blocks |-> <<>>]
Interrupted == [kind |-> "interrupted", blocks |-> <<>>]
NoResponse  == [kind |-> "none", blocks |-> <<>>]

OwnerResponse == {Answer(bs) : bs \in BlockSeq} \cup {Failed}
Response      == OwnerResponse \cup {Interrupted, NoResponse}

\* The sequence of blocks bs is a prefix of longer.
Extends(longer, bs) ==
    /\ Len(bs) <= Len(longer)
    /\ \A i \in 1..Len(bs) : longer[i] = bs[i]

\* A response may follow the confirmed blocks bs: an error leaves them as they
\* are, an answer begins with them.
Keeps(response, bs) ==
    response.kind = "answer" => Extends(response.blocks, bs)

=============================================================================
