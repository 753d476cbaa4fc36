------------------------------- MODULE MC_Live -------------------------------
(* The scenario of MC_Swap on the timely network of P2PTimely, for the  *)
(* liveness run.                                                          *)
EXTENDS P2PTimely, TLC

CONSTANTS n1, n2, cA, cB, cC

(* Two peers fetching from each other (as MC_Swap).                       *)
SwapNodes == {n1, n2}
SwapChunks == {cA, cB, cC}
SwapHas == (n1 :> {cA}) @@ (n2 :> {cB, cC})
SwapGet == (n1 :> <<cB, cC>>) @@ (n2 :> <<cA>>)
=============================================================================
