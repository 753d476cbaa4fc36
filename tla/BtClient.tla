------------------------------ MODULE BtClient ------------------------------
(***************************************************************************)
(* The client engine of bt_client.c: learns owners from IHAVE, opens      *)
(* incoming transfers (get_chunk_data), stores DATA and answers with      *)
(* cumulative ACKs, validates complete chunks, drops transfers on DENIED, *)
(* and retries or abandons stalled transfers on timeout.                  *)
(***************************************************************************)
EXTENDS PeerState

(* find_first_available_peer() (chunk.c, not in the repository; modelled  *)
(* from the spec): index of the first available peer in a chunk's peer    *)
(* list, 0 when none.                                                      *)
FirstAvailablePeer(list, av) == SelectInSeq(list, LAMBDA q : av[q])

(* peer_exist_in_list(): p is already in the peer list l.                 *)
PeerExistInList(l, p) == NodeFind(l, {p}) # 0

(* send_GET(): request chunk c from p (the transfer with p exists at     *)
(* every call site, so the send is never skipped).                        *)
SendGET(n, p, c) == Msg("GET", n, p, {c}, 1, NoData)

(* send_ACK(): the cumulative ACK a to p.                                  *)
SendACK(n, p, a) == Msg("ACK", n, p, {}, a, NoData)

(* send_WHOHAS(): the hashes of the missing list to every other peer; no  *)
(* packet at all when nothing is missing.                                  *)
WhoHas(n, miss) ==
    IF miss = <<>> THEN {}
    ELSE {Msg("WHOHAS", n, q, Range(miss), 0, NoData) : q \in Nodes \ {n}}

(* check_all_received(): once nothing is missing, construct_data() writes *)
(* the output and the wanted list is cleared.                              *)
CheckAllReceived(miss, wnt) == IF CountNode(miss) = 0 THEN {} ELSE wnt

(* get_chunk_data(), over the missing list in order: a chunk with no      *)
(* incoming transfer and an available owner gets a transfer to its first  *)
(* available owner (inserted at the head, the peer marked unavailable)    *)
(* and a GET is sent.  own is n's peer lists; st holds n's incoming list, *)
(* its avail flags and the datagrams sent.                                 *)
RECURSIVE GetChunkData(_, _, _, _)
GetChunkData(n, own, order, st) ==
    IF order = <<>> THEN st
    ELSE LET c == Head(order)
             i == FirstAvailablePeer(own[c], st.avail)
             p == own[c][i]
         IN IF i # 0 /\ ~HasTransferFor(st.ct, c)
            THEN GetChunkData(n, own, Tail(order),
                   [ct    |-> NodeInsert(st.ct, [peer |-> p, chunk |-> c, to |-> 0]),
                    avail |-> [st.avail EXCEPT ![p] = FALSE],
                    out   |-> st.out \cup {SendGET(n, p, c)}])
            ELSE GetChunkData(n, own, Tail(order), st)

(* init_data_transfer(): get_chunk_data() from the given state of n.      *)
InitDataTransfer(n, own, miss, ct, av) ==
    GetChunkData(n, own, miss, [ct |-> ct, avail |-> av, out |-> {}])

(* receive_IHAVE(): add the sender to the peer list of every missing      *)
(* chunk it lists (at the head, unless already present), then             *)
(* init_data_transfer().                                                   *)
ReceiveIHAVE(n, m, net) ==
    LET p == m.src
        own == [c \in Chunks |->
                  IF c \in Range(missing[n]) /\ c \in m.hashes
                     /\ ~PeerExistInList(owners[n][c], p)
                  THEN NodeInsert(owners[n][c], p) ELSE owners[n][c]]
        st == InitDataTransfer(n, own, missing[n], ctrans[n], avail[n])
    IN /\ owners' = [owners EXCEPT ![n] = own]
       /\ ctrans' = [ctrans EXCEPT ![n] = st.ct]
       /\ avail' = [avail EXCEPT ![n] = st.avail]
       /\ msgs' = net \cup st.out
       /\ UNCHANGED <<have, missing, wanted, requested, bits, strans>>

(* receive_DENIED(): delete the incoming transfer of the sender, if any   *)
(* (its peer becomes available); no new transfer is tried here.           *)
ReceiveDENIED(n, m, net) ==
    LET i == FindByPeer(ctrans[n], m.src)
    IN /\ IF i = 0
          THEN UNCHANGED <<ctrans, avail>>
          ELSE /\ ctrans' = [ctrans EXCEPT ![n] = NodeDelete(@, i)]
               /\ avail' = [avail EXCEPT ![n] = Released(@, m.src)]
       /\ msgs' = net
       /\ UNCHANGED <<have, missing, wanted, requested, bits, owners, strans>>

(* Mutation of validate_chunk() that accepts any complete chunk.          *)
ValidChunkComplete(b, c) == \A k \in Blocks : b[k] # NoData

(* validate_chunk()'s hash comparison: every stored block is this chunk's. *)
ValidChunk(b, c) == \A k \in Blocks : b[k] = c

(* receive_DATA(): the block goes to the chunk of the first incoming      *)
(* transfer of the sender, unless that block is already stored            *)
(* (data_already_stored); the cumulative ACK of that chunk is sent.  A    *)
(* complete chunk is validated (validate_chunk): valid, its first missing *)
(* node, if any, is deleted and the chunk goes to have; and,             *)
(* missing now empty, check_all_received() writes the output and clears   *)
(* wanted; invalid, its blocks are reset.  Either way the transfer is     *)
(* deleted and init_data_transfer() runs.                                  *)
ReceiveDATA(n, m, net) ==
    LET p == m.src
        i == FindByPeer(ctrans[n], p)
        c == ctrans[n][i].chunk
        b == IF bits[n][c][m.num] = NoData
             THEN [bits[n][c] EXCEPT ![m.num] = m.origin] ELSE bits[n][c]
        ack == SendACK(n, p, LargestConsecSeq(b))
        valid == ValidChunk(b, c)
        found == c \in Range(missing[n])
        miss == IF valid THEN NodeDelete(missing[n], NodeFind(missing[n], {c}))
                ELSE missing[n]
        st == InitDataTransfer(n, owners[n], miss, NodeDelete(ctrans[n], i),
                               Released(avail[n], p))
    IN \/ /\ i = 0
          /\ msgs' = net
          /\ UNCHANGED <<have, missing, wanted, bits, ctrans, avail>>
       \/ /\ i # 0 /\ BitsCount(b) < MAX_SEQ_NUM
          /\ bits' = [bits EXCEPT ![n][c] = b]
          /\ msgs' = net \cup {ack}
          /\ UNCHANGED <<have, missing, wanted, ctrans, avail>>
       \/ /\ i # 0 /\ BitsCount(b) = MAX_SEQ_NUM
          /\ bits' = [bits EXCEPT ![n][c] = IF valid THEN b ELSE EmptyBits]
          /\ have' = IF valid /\ found THEN [have EXCEPT ![n] = @ \cup {c}] ELSE have
          /\ missing' = [missing EXCEPT ![n] = miss]
          /\ wanted' = IF valid
                       THEN [wanted EXCEPT ![n] = CheckAllReceived(miss, @)]
                       ELSE wanted
          /\ ctrans' = [ctrans EXCEPT ![n] = st.ct]
          /\ avail' = [avail EXCEPT ![n] = st.avail]
          /\ msgs' = net \cup {ack} \cup st.out
    /\ UNCHANGED <<requested, owners, strans>>

(* handle_transfer_dead(): remove the dead peer from the peer list of     *)
(* every missing chunk.                                                    *)
DropPeer(own, miss, p) ==
    [c \in DOMAIN own |-> IF c \in Range(miss)
                          THEN NodeIterateDelete(own[c], {p})
                          ELSE own[c]]

(* The transfer loop of handle_client_timeout(), given which transfers    *)
(* have timed out: a timed-out transfer's count is incremented; at        *)
(* MAX_TO_COUNTS handle_transfer_dead() drops its peer and deletes it,    *)
(* else the GET is resent if no block of its chunk is stored, or the      *)
(* cumulative ACK if one is.                                               *)
RECURSIVE ClientSweep(_, _, _, _)
ClientSweep(n, trs, timedout, st) ==
    IF trs = <<>> THEN st
    ELSE LET tr == Head(trs)
             cnt == tr.to + 1
             b == bits[n][tr.chunk]
             retry == IF BitsCount(b) = 0
                      THEN SendGET(n, tr.peer, tr.chunk)
                      ELSE SendACK(n, tr.peer, LargestConsecSeq(b))
             rest == Tail(trs)
             tail == Tail(timedout)
         IN IF ~Head(timedout) THEN ClientSweep(n, rest, tail,
                    [st EXCEPT !.kept = Append(@, tr)])
            ELSE IF cnt >= MAX_TO_COUNTS
            THEN ClientSweep(n, rest, tail,
                    [st EXCEPT !.own = DropPeer(@, missing[n], tr.peer),
                               !.avail = Released(@, tr.peer)])
            ELSE ClientSweep(n, rest, tail,
                    [st EXCEPT !.kept = Append(@, [tr EXCEPT !.to = cnt]),
                               !.out = @ \cup {retry}])
=============================================================================
