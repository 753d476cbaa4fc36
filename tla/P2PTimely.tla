------------------------------ MODULE P2PTimely ------------------------------
(***************************************************************************)
(* The peers of P2P on a timely network that loses at most MaxLoss        *)
(* datagrams.  A datagram that is not lost arrives, and is handled, well  *)
(* within TIMEOUT_THRESHOLD (3 s).  So select() in peer_run() returns 0   *)
(* (5 s without input) only once every peer has settled and nothing is in *)
(* flight, and by then every transfer has been idle for over 3 s:         *)
(* transfer_has_timeout() holds for all of them.  Duplicates is FALSE in   *)
(* the runs of this module.                                                *)
(*                                                                         *)
(* Fairness is what peer_run() gives: a datagram in flight is eventually   *)
(* read and the user's GET is eventually processed (weak fairness: once   *)
(* the loss budget is spent a datagram stays in flight until it is read). *)
(* The sweep is another matter.  select() restarts its 5 s clock at every *)
(* datagram, so a peer whose partner retries every ~5 s is quiet only now *)
(* and then.  Yet the peer whose last input is older reaches its 5 s     *)
(* first: in a retry cycle the server's last input precedes the client's, *)
(* as the client last received the server's reply.  So a peer that is    *)
(* quiet again and again does run its sweep (strong fairness); weak       *)
(* fairness, which lets a peer sweep only if it stays quiet, admits       *)
(* cycles the real-time order of the timeouts rules out.                   *)
(***************************************************************************)
EXTENDS P2P

CONSTANT MaxLoss  \* bound on the datagrams the network loses

VARIABLE lost     \* datagrams lost so far

liveVars == <<vars, lost>>

(* No datagram is in flight: every peer has settled.                       *)
Quiet == msgs = {}

(* select() in peer_run() returns 0 (peer.c 318-335): handle_timeout()     *)
(* with every transfer timed out.                                          *)
QuietTimeout(n) ==
    /\ Quiet
    /\ HandleTimeoutWith(n, [i \in 1 .. Len(strans[n]) |-> TRUE],
                            [i \in 1 .. Len(ctrans[n]) |-> TRUE])

(* The datagrams the handlers can build: DATA of a block, a cumulative ACK, *)
(* a GET of one hash, WHOHAS or IHAVE of a hash list, and the DENIED of a  *)
(* GET, between two distinct peers.                                        *)
Datagrams ==
    UNION {  {Msg("DATA", s, d, {}, k, c) : k \in Blocks, c \in Chunks}
         \cup {Msg("ACK", s, d, {}, a, NoData) : a \in 0 .. MAX_SEQ_NUM}
         \cup {Msg("GET", s, d, {c}, 1, NoData) : c \in Chunks}
         \cup {Msg(t, s, d, hs, 0, NoData) : t \in {"WHOHAS", "IHAVE"},
                                            hs \in SUBSET Chunks}
         \cup {Msg("DENIED", s, d, {}, 0, c) : c \in Chunks}
         : <<s, d>> \in {p \in Nodes \X Nodes : p[1] # p[2]} }

LiveInit == Init /\ lost = 0

TimelyNext ==
    \/ /\ \E n \in Nodes : ProcessGet(n) \/ ProcessInboundUdp(n) \/ QuietTimeout(n)
       /\ UNCHANGED lost
    \/ /\ lost < MaxLoss
       /\ LoseMsg
       /\ lost' = lost + 1

Fairness ==
    /\ \A n \in Nodes : /\ WF_liveVars(ProcessGet(n) /\ UNCHANGED lost)
                       /\ SF_liveVars(QuietTimeout(n) /\ UNCHANGED lost)
    /\ \A m \in Datagrams : WF_liveVars(Receive(m.dst, m) /\ UNCHANGED lost)

LivenessSpec == LiveInit /\ [][TimelyNext]_liveVars /\ Fairness

-----------------------------------------------------------------------------
(* The peers implement ChunkAcquisition with its fairness: under the     *)
(* scheduling of peer_run() (LivenessSpec), every step refines the        *)
(* abstract client, every GET command is processed, and no chunk stays   *)
(* pending forever while another peer holds it, through whatever DENIED,  *)
(* losses, resends and peer deaths the transfers meet.                    *)
AcquisitionLive == Acq!AbsLiveSpec
=============================================================================
