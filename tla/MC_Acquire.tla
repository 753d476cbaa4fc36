----------------------------- MODULE MC_Acquire -----------------------------
(* One peer that already holds one of the two chunks its GET names,       *)
(* fetching the other from the only peer that has it, over a network     *)
(* that loses, duplicates and reorders datagrams.                         *)
EXTENDS P2P, TLC

CONSTANTS n1, n2, cA, cB

MCNodes == {n1, n2}
MCChunks == {cA, cB}
MCHasChunks == (n1 :> {cA}) @@ (n2 :> {cB})
MCGetChunks == (n1 :> <<cA, cB>>) @@ (n2 :> <<>>)

(* Bound on the datagrams in flight at once.                              *)
MaxInFlight == 3
InFlightBound == Cardinality(msgs) <= MaxInFlight
=============================================================================
