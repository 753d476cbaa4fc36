------------------------------ MODULE BtServer ------------------------------
(***************************************************************************)
(* The server engine of bt_server.c: answers WHOHAS and GET, streams DATA  *)
(* under the sliding window of each outgoing transfer, processes ACKs,    *)
(* and times out stalled outgoing transfers.  Each handler is one step of  *)
(* node n on one datagram m from peer m.src.                              *)
(***************************************************************************)
EXTENDS PeerState

(* send_IHAVE(): the reply to a WHOHAS, listing the hashes found.         *)
SendIHAVE(n, p, hashes) == Msg("IHAVE", n, p, hashes, 0, NoData)

(* send_DENIED(): refuse the GET for chunk c.  No hash goes on the wire  *)
(* (hash_num is left unset); c is only recorded as the DENIED's origin.    *)
SendDENIED(n, p, c) == Msg("DENIED", n, p, {}, 0, c)

(* Mutation of send_DATA() without the end-of-chunk bound on the loop.    *)
SendDATAPastEnd(n, tr) ==
    LET top == IF tr.index < tr.begin + tr.cc.wind
               THEN tr.begin + tr.cc.wind ELSE tr.index
    IN [tr  |-> [tr EXCEPT !.dup = 0, !.index = top],
        out |-> {Msg("DATA", n, tr.peer, {}, k, tr.chunk) :
                    k \in (tr.index + 1) .. top}]

(* send_DATA(): reset dup_count and send every block from index up to the *)
(* end of the window or of the chunk.  The result is the updated transfer *)
(* and the DATA datagrams sent to n's peer.                                *)
SendDATA(n, tr) ==
    LET hi == IF tr.begin + tr.cc.wind < MAX_SEQ_NUM
              THEN tr.begin + tr.cc.wind ELSE MAX_SEQ_NUM
        top == IF tr.index < hi THEN hi ELSE tr.index
    IN [tr  |-> [tr EXCEPT !.dup = 0, !.index = top],
        out |-> {Msg("DATA", n, tr.peer, {}, k, tr.chunk) :
                    k \in (tr.index + 1) .. top}]

(* receive_WHOHAS() and send_IHAVE(): one IHAVE listing the requested     *)
(* hashes n has, possibly none.                                            *)
ReceiveWHOHAS(n, m, net) ==
    /\ msgs' = net \cup {SendIHAVE(n, m.src, m.hashes \cap have[n])}
    /\ UNCHANGED <<have, missing, wanted, requested, bits, owners, avail,
                   ctrans, strans>>

(* receive_GET(): DENIED when the chunk is not in have or max_conn        *)
(* outgoing transfers exist; else, unless some outgoing transfer already  *)
(* serves this chunk (to any peer), create one (create_transfer marks the *)
(* peer unavailable), insert it at the head and send its first window.    *)
ReceiveGET(n, m, net) ==
    LET c == CHOOSE h \in m.hashes : TRUE
        p == m.src
    IN
    \/ /\ c \notin have[n] \/ CountNode(strans[n]) >= MaxConn
       /\ msgs' = net \cup {SendDENIED(n, p, c)}
       /\ UNCHANGED <<avail, strans>>
    \/ /\ c \in have[n] /\ CountNode(strans[n]) < MaxConn
       /\ HasTransferFor(strans[n], c)
       /\ msgs' = net
       /\ UNCHANGED <<avail, strans>>
    \/ /\ c \in have[n] /\ CountNode(strans[n]) < MaxConn
       /\ ~HasTransferFor(strans[n], c)
       /\ LET new == [peer |-> p, chunk |-> c, begin |-> 0, index |-> 0,
                      dup |-> 0, to |-> 0, cc |-> InitCCtrl]
              sent == SendDATA(n, new)
          IN /\ strans' = [strans EXCEPT ![n] = NodeInsert(@, sent.tr)]
             /\ avail' = [avail EXCEPT ![n][p] = FALSE]
             /\ msgs' = net \cup sent.out
    /\ UNCHANGED <<have, missing, wanted, requested, bits, owners, ctrans>>

(* adjust_window(): begin := the new ACK number, index follows it up.     *)
AdjustWindow(tr, a) ==
    [tr EXCEPT !.begin = a, !.index = IF a > tr.index THEN a ELSE tr.index]

(* The transfer after a fresh (a > begin) ACK: slide the window, run      *)
(* congestion_control() with the CA window w the clock yields, and        *)
(* send_DATA().                                                            *)
FreshAck(n, tr, a, w) ==
    LET slid == AdjustWindow(tr, a)
    IN SendDATA(n, [slid EXCEPT !.cc = CongestionControl(slid.cc, w)])

(* A duplicate (a = begin) ACK: count it; at MAX_DUP_ACKS rewind index to *)
(* begin, run detected_first_loss() and send_DATA().                      *)
DupAck(n, tr) ==
    LET counted == [tr EXCEPT !.dup = @ + 1]
    IN IF counted.dup >= MAX_DUP_ACKS
       THEN SendDATA(n, [counted EXCEPT !.index = counted.begin,
                                        !.cc = DetectedFirstLoss(counted.cc)])
       ELSE [tr |-> counted, out |-> {}]

(* receive_ACK(): find the outgoing transfer by peer; ACK = MAX_SEQ_NUM   *)
(* completes and deletes it; a fresh ACK slides the window, a duplicate   *)
(* one is counted, an older one changes nothing; every ACK that does not  *)
(* complete the transfer resets its timeout count and timestamp.          *)
ReceiveACK(n, m, net) ==
    LET i == FindByPeer(strans[n], m.src)
        tr == strans[n][i]
        a == m.num
    IN
    \/ /\ i = 0
       /\ msgs' = net
       /\ UNCHANGED <<avail, strans>>
    \/ /\ i # 0 /\ a = MAX_SEQ_NUM
       /\ strans' = [strans EXCEPT ![n] = NodeDelete(@, i)]
       /\ avail' = [avail EXCEPT ![n] = Released(@, m.src)]
       /\ msgs' = net
    \/ /\ i # 0 /\ a # MAX_SEQ_NUM
       /\ \E w \in CAWindows(tr.cc) :
            LET r == CASE a > tr.begin -> FreshAck(n, tr, a, w)
                       [] a = tr.begin -> DupAck(n, tr)
                       [] OTHER        -> [tr |-> tr, out |-> {}]
            IN /\ strans' = [strans EXCEPT ![n][i] = [r.tr EXCEPT !.to = 0]]
               /\ msgs' = net \cup r.out
       /\ UNCHANGED avail
    /\ UNCHANGED <<have, missing, wanted, requested, bits, owners, ctrans>>

(* The sweep with the ++ of timeout_count dropped: a stalled transfer is   *)
(* never deleted.                                                          *)
RECURSIVE ServerSweepNoCount(_, _, _)
ServerSweepNoCount(trs, timedout, st) ==
    IF trs = <<>> THEN st
    ELSE LET tr == Head(trs)
             rest == Tail(trs)
             tail == Tail(timedout)
         IN IF ~Head(timedout) THEN ServerSweepNoCount(rest, tail,
                    [st EXCEPT !.kept = Append(@, tr)])
            ELSE IF tr.to >= MAX_TO_COUNTS
            THEN ServerSweepNoCount(rest, tail,
                    [st EXCEPT !.avail = Released(@, tr.peer)])
            ELSE ServerSweepNoCount(rest, tail,
                    [st EXCEPT !.kept = Append(@, [tr EXCEPT
                                         !.cc = DetectedFirstLoss(tr.cc)])])

(* handle_server_timeout() over the outgoing list, given which transfers  *)
(* have timed out: a timed-out transfer's count is incremented; at        *)
(* MAX_TO_COUNTS it is deleted (its peer set available), else              *)
(* detected_first_loss() runs.  Nothing is sent.                           *)
RECURSIVE ServerSweep(_, _, _)
ServerSweep(trs, timedout, st) ==
    IF trs = <<>> THEN st
    ELSE LET tr == Head(trs)
             cnt == tr.to + 1
             rest == Tail(trs)
             tail == Tail(timedout)
         IN IF ~Head(timedout) THEN ServerSweep(rest, tail,
                    [st EXCEPT !.kept = Append(@, tr)])
            ELSE IF cnt >= MAX_TO_COUNTS
            THEN ServerSweep(rest, tail,
                    [st EXCEPT !.avail = Released(@, tr.peer)])
            ELSE ServerSweep(rest, tail,
                    [st EXCEPT !.kept = Append(@, [tr EXCEPT !.to = cnt,
                                         !.cc = DetectedFirstLoss(tr.cc)])])
=============================================================================
