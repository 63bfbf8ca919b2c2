--------------------------- MODULE RequestLedger ---------------------------
(***************************************************************************)
(* What the durable request table of the public API promises to the        *)
(* routes and, through them, to the browser, with the clock, the leases    *)
(* and the owners abstracted away.  Every model request carries a UUID; an *)
(* entry for it is opened once, shows confirmed content blocks, is settled *)
(* once with a response that keeps what was shown, and is later forgotten. *)
(* RequestStore implements this module (RequestStoreProofs).              *)
(* and ChatAdmission is built on it.                                       *)
(***************************************************************************)
EXTENDS RequestData

CONSTANT Request    \* request UUIDs

VARIABLE ledger    \* what the table holds for each request

-----------------------------------------------------------------------------

Free    == [state |-> "free", shown |-> <<>>, response |-> NoResponse]
Pending(bs) == [state |-> "pending", shown |-> bs, response |-> NoResponse]
Settled(bs, response) ==
    [state |-> "settled", shown |-> bs, response |-> response]

-----------------------------------------------------------------------------

\* The moves of one entry, from value e to value f.
Opens(e, f)   == f = Pending(<<>>)
Shows(e, f)   == /\ e.state = "pending"
                 /\ \E bs \in BlockSeq : Extends(bs, e.shown) /\ f = Pending(bs)
Settles(e, f) == /\ e.state = "pending"
                 /\ \E response \in OwnerResponse \cup {Interrupted} :
                       Keeps(response, e.shown) /\ f = Settled(e.shown, response)
Forgets(e, f) == f = Free

(***************************************************************************)
(* One transaction may move several entries: a claim, a renewal and a      *)
(* completion all reconcile the entries of owners that were lost.          *)
(***************************************************************************)
Move(e, f) == f = e \/ Opens(e, f) \/ Shows(e, f) \/ Settles(e, f) \/ Forgets(e, f)

Init == ledger = [r \in Request |-> Free]

Next == /\ DOMAIN ledger' = Request
        /\ \A r \in Request : Move(ledger[r], ledger'[r])

Spec == Init /\ [][Next]_ledger

=============================================================================
