------------------------------- MODULE MC_Swap -------------------------------
(* Two peers that each fetch from the other: n1 holds cA and wants cB and *)
(* cC, n2 holds cB and cC and wants cA, so each peer is at once client   *)
(* and server of the other.                                               *)
EXTENDS P2P, TLC

CONSTANTS n1, n2, cA, cB, cC

MCNodes == {n1, n2}
MCChunks == {cA, cB, cC}
MCHasChunks == (n1 :> {cA}) @@ (n2 :> {cB, cC})
MCGetChunks == (n1 :> <<cB, cC>>) @@ (n2 :> <<cA>>)

(* Bound on the datagrams in flight at once.                              *)
MaxInFlight == 3
InFlightBound == Cardinality(msgs) <= MaxInFlight
=============================================================================
