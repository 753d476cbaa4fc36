-------------------------------- MODULE P2P --------------------------------
(***************************************************************************)
(* Peer processes of peer.c, each a client (BtClient) and a server         *)
(* (BtServer) on one socket, exchanging datagrams over a network that     *)
(* loses, duplicates and reorders them.  One step of a peer is one turn of *)
(* the select() loop of peer_run(): the user's GET, one inbound datagram   *)
(* (process_inbound_udp), or a timeout sweep (handle_timeout).             *)
(***************************************************************************)
EXTENDS BtServer, BtClient

CONSTANT Duplicates  \* the transport may deliver a datagram more than once

(* create_wanted_missing_list() without its node_find() in have: every     *)
(* requested chunk is put in missing, held or not.                         *)
ProcessGetNoHaveCheck(n) ==
    LET req == GetChunks[n]
        miss == Reverse(req) \o missing[n]
    IN /\ ~requested[n]
       /\ requested' = [requested EXCEPT ![n] = TRUE]
       /\ missing' = [missing EXCEPT ![n] = miss]
       /\ wanted' = [wanted EXCEPT ![n] =
                        CheckAllReceived(miss, @ \cup Range(req))]
       /\ bits' = [bits EXCEPT ![n] = [c \in Chunks |->
                     IF c \in Range(req) THEN EmptyBits ELSE @[c]]]
       /\ owners' = [owners EXCEPT ![n] = [c \in Chunks |->
                     IF c \in Range(req) THEN <<>> ELSE @[c]]]
       /\ msgs' = msgs \cup WhoHas(n, miss)
       /\ UNCHANGED <<have, avail, ctrans, strans>>

(* create_wanted_missing_list(): every requested chunk joins wanted; one  *)
(* not in have becomes a fresh chunk at the head of missing.  Then         *)
(* check_all_received() (nothing missing: the output is written and       *)
(* wanted cleared) and send_WHOHAS() to every other peer.                  *)
ProcessGet(n) ==
    LET req == GetChunks[n]
        fresh == SelectSeq(req, LAMBDA c : c \notin have[n])
        miss == Reverse(fresh) \o missing[n]
    IN /\ ~requested[n]
       /\ requested' = [requested EXCEPT ![n] = TRUE]
       /\ missing' = [missing EXCEPT ![n] = miss]
       /\ wanted' = [wanted EXCEPT ![n] =
                        CheckAllReceived(miss, @ \cup Range(req))]
       /\ bits' = [bits EXCEPT ![n] = [c \in Chunks |->
                     IF c \in Range(fresh) THEN EmptyBits ELSE @[c]]]
       /\ owners' = [owners EXCEPT ![n] = [c \in Chunks |->
                     IF c \in Range(fresh) THEN <<>> ELSE @[c]]]
       /\ msgs' = msgs \cup WhoHas(n, miss)
       /\ UNCHANGED <<have, avail, ctrans, strans>>

(* What the network holds once m is received: m is gone, or, when the    *)
(* transport duplicates, a copy of m is still in flight.                  *)
AfterReceive(m) == IF Duplicates THEN {msgs \ {m}, msgs} ELSE {msgs \ {m}}

(* process_inbound_udp(): datagram m is received by n and dispatched on   *)
(* its type.                                                               *)
Receive(n, m) ==
    /\ m \in msgs
    /\ m.dst = n
    /\ \E net \in AfterReceive(m) :
           CASE m.type = "WHOHAS" -> ReceiveWHOHAS(n, m, net)
             [] m.type = "GET"    -> ReceiveGET(n, m, net)
             [] m.type = "ACK"    -> ReceiveACK(n, m, net)
             [] m.type = "IHAVE"  -> ReceiveIHAVE(n, m, net)
             [] m.type = "DENIED" -> ReceiveDENIED(n, m, net)
             [] m.type = "DATA"   -> ReceiveDATA(n, m, net)

(* One turn of peer_run() in which the socket is readable.                *)
ProcessInboundUdp(n) == \E m \in msgs : Receive(n, m)

(* handle_timeout(): handle_server_timeout() then handle_client_timeout(); *)
(* the client part returns at once when nothing is missing, else after    *)
(* its transfer loop runs init_data_transfer() and floods WHOHAS if fewer *)
(* transfers than missing chunks exist.  sto and cto say which outgoing  *)
(* and incoming transfers transfer_has_timeout() finds timed out.         *)
HandleTimeoutWith(n, sto, cto) ==
      LET srv == ServerSweep(strans[n], sto, [kept |-> <<>>, avail |-> avail[n]])
          swp == ClientSweep(n, ctrans[n], cto,
                   [kept |-> <<>>, own |-> owners[n], avail |-> srv.avail,
                    out |-> {}])
          st == InitDataTransfer(n, swp.own, missing[n], swp.kept, swp.avail)
      IN /\ strans' = [strans EXCEPT ![n] = srv.kept]
         /\ IF CountNode(missing[n]) = 0
            THEN /\ avail' = [avail EXCEPT ![n] = srv.avail]
                 /\ UNCHANGED <<owners, ctrans, msgs>>
            ELSE /\ owners' = [owners EXCEPT ![n] = swp.own]
                 /\ ctrans' = [ctrans EXCEPT ![n] = st.ct]
                 /\ avail' = [avail EXCEPT ![n] = st.avail]
                 /\ msgs' = msgs \cup swp.out \cup st.out \cup
                            (IF NodeLength(st.ct) < NodeLength(missing[n]) THEN WhoHas(n, missing[n]) ELSE {})
         /\ UNCHANGED <<have, missing, wanted, requested, bits>>

(* A turn of peer_run() whose select() timed out.  The clock is not      *)
(* modelled, so any transfers may have timed out.                          *)
HandleTimeout(n) ==
    \E sto \in TransferHasTimeout(strans[n]), cto \in TransferHasTimeout(ctrans[n]) :
        HandleTimeoutWith(n, sto, cto)

(* The transport drops a datagram (or a malformed one is dropped).        *)
LoseMsg ==
    /\ \E m \in msgs : msgs' = msgs \ {m}
    /\ UNCHANGED <<have, missing, wanted, requested, bits, owners, avail,
                   ctrans, strans>>

Next ==
    \/ \E n \in Nodes : ProcessGet(n) \/ ProcessInboundUdp(n) \/ HandleTimeout(n)
    \/ LoseMsg

Spec == Init /\ [][Next]_vars

-----------------------------------------------------------------------------
(* Properties.                                                            *)

(* Which incoming transfer of n is with peer p, for chunk c (0 if none).  *)
ClientTransferOf(n, p, c) ==
    SelectInSeq(ctrans[n], LAMBDA t : t.peer = p /\ t.chunk = c)

(* A chunk in have holds that chunk's content: validate_chunk() admits no *)
(* chunk assembled from blocks of another chunk, whatever DATA reached    *)
(* it through receive_DATA's lookup by peer.                               *)
HaveIntegrity ==
    \A n \in Nodes : \A c \in have[n] : \A k \in Blocks : bits[n][c][k] = c

(* A peer's available flag is cleared only while n has a transfer, in    *)
(* either direction, with that peer: no deletion path (DENIED, DATA       *)
(* completion, final ACK, timeout) forgets delete_transfer()'s reset.     *)
NoLeakedBusyPeer ==
    \A n, p \in Nodes :
        ~avail[n][p] => \/ FindByPeer(ctrans[n], p) # 0
                       \/ FindByPeer(strans[n], p) # 0

(* receive_DATA and receive_DENIED find the incoming transfer by the      *)
(* sender alone, so the client relies on having at most one incoming     *)
(* transfer per peer; the available flag is meant to ensure it.            *)
ClientTransferPerPeer ==
    \A n \in Nodes : \A i, j \in 1 .. Len(ctrans[n]) :
        i # j => ctrans[n][i].peer # ctrans[n][j].peer

(* The window of an outgoing transfer never starts past what the client   *)
(* fetching that chunk from this server has received in order: begin     *)
(* counts blocks acknowledged, so the server never skips a block the      *)
(* client lacks.                                                           *)
ServerWindowSound ==
    \A n \in Nodes : \A i \in 1 .. Len(strans[n]) :
        LET tr == strans[n][i]
        IN ClientTransferOf(tr.peer, n, tr.chunk) # 0 =>
              \A k \in 1 .. tr.begin : bits[tr.peer][tr.chunk][k] # NoData

(* The client's timeout counter counts consecutive timeouts (spec 4.5 and *)
(* the peer-death scenario): a step of receive_DATA that stores a new     *)
(* block of an incoming transfer's chunk leaves that transfer's counter   *)
(* at 0, so only MAX_TO_COUNTS timeouts in a row declare its peer dead.    *)
ConsecutiveTimeouts ==
    [][\A n \in Nodes : \A i \in 1 .. Len(ctrans[n]) : \A j \in 1 .. Len(ctrans'[n]) :
          LET tr == ctrans[n][i]
          IN /\ ctrans'[n][j].peer = tr.peer
             /\ ctrans'[n][j].chunk = tr.chunk
             /\ BitsCount(bits'[n][tr.chunk]) > BitsCount(bits[n][tr.chunk])
             => ctrans'[n][j].to = 0]_vars

(* A DENIED refuses one GET (spec 4.4: the chunk stays missing and is     *)
(* retried): a step of receive_DENIED() destroys an incoming transfer only *)
(* if that transfer is for the chunk whose GET the DENIED answers, never  *)
(* a later transfer with the same peer that a delayed DENIED finds by     *)
(* peer id.                                                                *)
DeniedAnswersTransfer ==
    [][\A n \in Nodes : \A m \in msgs :
          /\ m.type = "DENIED" /\ m.dst = n
          /\ \E net \in AfterReceive(m) : ReceiveDENIED(n, m, net)
          /\ ctrans'[n] # ctrans[n]
          => ctrans[n][FindByPeer(ctrans[n], m.src)].chunk = m.origin]_vars

-----------------------------------------------------------------------------
(* The client side refines ChunkAcquisition: the missing list, read as a *)
(* set, is the pending set.                                                *)
Acq == INSTANCE ChunkAcquisition
           WITH pending <- [n \in Nodes |-> Range(missing[n])]

(* Every step of the peers is a step of ChunkAcquisition or leaves its    *)
(* state alone: the GET (create_wanted_missing_list) makes pending exactly *)
(* the requested chunks not in have; a chunk leaves missing and enters    *)
(* have only in receive_DATA's validate_chunk(), only while missing, and  *)
(* only as data served by a peer holding it; check_all_received() clears  *)
(* wanted exactly when missing empties, and no DENIED, timeout, peer       *)
(* death or invalid chunk touches have, missing or wanted.                 *)
AcquisitionRefined == Acq!AbsSpec
=============================================================================
