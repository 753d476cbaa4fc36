----------------------------- MODULE MC_Records -----------------------------
(* One client and one peer owning every chunk.  records: a peer holding  *)
(* nothing, and two GET commands naming hash h1 at ids 0 and 1, typed in  *)
(* either order and at any time.  setup: a peer whose has-chunk file      *)
(* lists h1 at id 256 of a master file that holds h2 at id 0, and one GET *)
(* for h1 (held) and h2 (fetched).                                        *)
EXTENDS ChunkRecords, TLC

CONSTANTS h1, h2, p1, NoName, ZeroData

MCPeers == {p1}

MCHashes == {h1}
MCGets == {<<[id |-> 0, hash |-> h1]>>, <<[id |-> 1, hash |-> h1]>>}
MCNoChunks == <<>>
MCNoMaster == <<>>

MCSetupHashes == {h1, h2}
MCSetupGets == {<<[id |-> 0, hash |-> h1], [id |-> 1, hash |-> h2]>>}
MCHasChunks == <<[id |-> 256, hash |-> h1]>>
MCMaster == (0 :> h2) @@ (256 :> h1)
=============================================================================
