------------------------- MODULE MCProactiveLedger -------------------------
(* Two characters, one of them promised twice; requests and handlers are   *)
(* interchangeable.                                                        *)
EXTENDS ProactiveLedger, TLC

CONSTANTS a, b, a1, a2, b1

MCWith == (a1 :> a) @@ (a2 :> a) @@ (b1 :> b)

MCSymmetry == Permutations(Request) \cup Permutations(Call)
=============================================================================
