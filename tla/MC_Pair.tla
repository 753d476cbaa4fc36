------------------------------- MODULE MC_Pair -------------------------------
(* One peer fetching two chunks, one after the other, from the only peer *)
(* that has them.                                                         *)
EXTENDS P2P, TLC

CONSTANTS n1, n2, cA, cB

MCNodes == {n1, n2}
MCChunks == {cA, cB}
MCHasChunks == (n1 :> {}) @@ (n2 :> {cA, cB})
MCGetChunks == (n1 :> <<cA, cB>>) @@ (n2 :> <<>>)

(* Bound on the datagrams in flight at once.                              *)
MaxInFlight == 3
InFlightBound == Cardinality(msgs) <= MaxInFlight
=============================================================================
