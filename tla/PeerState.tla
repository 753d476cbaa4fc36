------------------------------ MODULE PeerState ------------------------------
(***************************************************************************)
(* The state every peer process keeps (peer.h, chunk.h, transfer.h and the *)
(* two static transfer lists of bt_client.c and bt_server.c), the         *)
(* datagram network between peers, and the helpers both engines share.    *)
(*                                                                         *)
(* Abstractions.  A chunk is its hash (a model value); a block of chunk    *)
(* content is the chunk whose server transfer produced it, so a stored    *)
(* block is correct iff it records the chunk it is stored in, and          *)
(* validate_chunk()'s SHA-1 comparison is "every block records this        *)
(* chunk".  The network is a set of datagrams: a receive may consume or    *)
(* keep one (duplication), any may be lost, and any may be received first  *)
(* (reordering).  Lists whose order decides control (missing, a chunk's    *)
(* peer list, the transfer lists) are sequences with the head insertion    *)
(* of node_insert(); lists whose order does not (have, wanted) are sets.   *)
(***************************************************************************)
EXTENDS Naturals, Sequences, FiniteSets, LinkedList, CongestionControl

CONSTANTS
    Nodes,          \* peer ids of the roster (model values)
    Chunks,         \* chunk hashes (model values)
    HasChunks,      \* [Nodes -> SUBSET Chunks]: each node's has_chunk_file
    GetChunks,      \* [Nodes -> Seq(Chunks)]: each node's GET chunkfile, in file order
    MAX_SEQ_NUM,    \* blocks per chunk (525 in chunk.h, scaled down)
    MAX_TO_COUNTS,  \* timeouts before a transfer's peer is declared dead
    MAX_DUP_ACKS,   \* duplicate ACKs that signal a loss (3 in bt_server.c)
    MaxConn,        \* config->max_conn: outgoing transfers a server accepts
    NoData          \* model value: a block not yet received

ASSUME HasChunks \in [Nodes -> SUBSET Chunks]
ASSUME GetChunks \in [Nodes -> Seq(Chunks)]
ASSUME MAX_SEQ_NUM \in Nat \ {0} /\ MAX_TO_COUNTS \in Nat \ {0}
ASSUME MAX_DUP_ACKS \in Nat \ {0} /\ MaxConn \in Nat
ASSUME NoData \notin Chunks

VARIABLES
    have,       \* have[n]: chunks n owns and validated
    missing,    \* missing[n]: wanted - have, a list in node_insert order
    wanted,     \* wanted[n]: chunks of n's GET; cleared once all are received
    requested,  \* requested[n]: n's user has issued its GET
    bits,       \* bits[n][c][k]: content of block k of n's chunk c, or NoData
    owners,     \* owners[n][c]: chunk c's peer list at n (peers that sent IHAVE)
    avail,      \* avail[n][p]: the available flag of n's peer object for p
    ctrans,     \* ctrans[n]: n's incoming transfers (bt_client.c), head first
    strans,     \* strans[n]: n's outgoing transfers (bt_server.c), head first
    msgs        \* datagrams in flight

vars == <<have, missing, wanted, requested, bits, owners, avail, ctrans,
          strans, msgs>>

Blocks == 1 .. MAX_SEQ_NUM

MsgTypes == {"WHOHAS", "IHAVE", "GET", "DATA", "ACK", "DENIED"}

(* One datagram.  num is seq_num for DATA and ack_num for ACK; origin is  *)
(* the chunk a DATA block was read from, or the chunk of the GET a DENIED *)
(* refuses.  origin is not on the wire: no handler reads it, it only       *)
(* records what the datagram is about.                                     *)
Msg(type, src, dst, hashes, num, origin) ==
    [type |-> type, src |-> src, dst |-> dst, hashes |-> hashes,
     num |-> num, origin |-> origin]

Messages == [type: MsgTypes, src: Nodes, dst: Nodes, hashes: SUBSET Chunks,
             num: 0 .. MAX_SEQ_NUM, origin: Chunks \cup {NoData}]

(* A Transfer of transfer.h, as each side uses it.                        *)
ClientTransfers == [peer: Nodes, chunk: Chunks, to: 0 .. MAX_TO_COUNTS]
ServerTransfers == [peer: Nodes, chunk: Chunks, begin: 0 .. MAX_SEQ_NUM,
                    index: 0 .. MAX_SEQ_NUM, dup: 0 .. MAX_DUP_ACKS,
                    to: 0 .. MAX_TO_COUNTS, cc: CCtrl]

EmptyBits == [k \in Blocks |-> NoData]

(* bits_count: the blocks of a chunk that are stored.                     *)
BitsCount(b) == Cardinality({k \in Blocks : b[k] # NoData})

(* Mutation of data_find_largest_consec_seq() that acknowledges how many  *)
(* blocks are stored (bits_count) rather than the in-order prefix.         *)
LargestConsecSeqCount(b) == BitsCount(b)

(* data_find_largest_consec_seq(): length of the received prefix.         *)
RECURSIVE PrefixFrom(_, _)
PrefixFrom(b, i) == IF i < MAX_SEQ_NUM /\ b[i + 1] # NoData
                    THEN PrefixFrom(b, i + 1) ELSE i
LargestConsecSeq(b) == PrefixFrom(b, 0)

(* node_find(transfers, compare_transfer_by_peer_id, p): first match, 0   *)
(* when none.                                                              *)
FindByPeer(trs, p) == NodeFind(trs, {t \in Range(trs) : t.peer = p})

(* node_find(transfers, compare_transfer_by_chunk_hash, c) # NULL.        *)
HasTransferFor(trs, c) == NodeFind(trs, {t \in Range(trs) : t.chunk = c}) # 0

(* transfer_has_timeout() over a transfer list: which of its transfers    *)
(* have gone TIMEOUT_THRESHOLD ms without activity.  The clock is not      *)
(* modelled, so any combination is possible; this includes the wrap of     *)
(* millitime() every 2^20 s, where the unsigned difference now - timestamp *)
(* is huge and every transfer is found timed out at once.                  *)
TransferHasTimeout(trs) == [1 .. Len(trs) -> BOOLEAN]

(* Mutation of delete_transfer() that forgets to set the peer available. *)
ReleasedNot(av, p) == av

(* delete_transfer(): free the transfer and set its peer available.       *)
Released(av, p) == [av EXCEPT ![p] = TRUE]

TypeOK ==
    /\ have \in [Nodes -> SUBSET Chunks]
    /\ missing \in [Nodes -> Seq(Chunks)]
    /\ wanted \in [Nodes -> SUBSET Chunks]
    /\ requested \in [Nodes -> BOOLEAN]
    /\ bits \in [Nodes -> [Chunks -> [Blocks -> Chunks \cup {NoData}]]]
    /\ owners \in [Nodes -> [Chunks -> Seq(Nodes)]]
    /\ avail \in [Nodes -> [Nodes -> BOOLEAN]]
    /\ ctrans \in [Nodes -> Seq(ClientTransfers)]
    /\ strans \in [Nodes -> Seq(ServerTransfers)]
    /\ msgs \subseteq Messages

(* peer_setup(): the have list from has_chunk_file, with the chunk data   *)
(* loaded from the master data file; every peer starts available and both *)
(* transfer lists empty.                                                   *)
Init ==
    /\ have = HasChunks
    /\ missing = [n \in Nodes |-> <<>>]
    /\ wanted = [n \in Nodes |-> {}]
    /\ requested = [n \in Nodes |-> FALSE]
    /\ bits = [n \in Nodes |-> [c \in Chunks |->
                 IF c \in HasChunks[n] THEN [k \in Blocks |-> c] ELSE EmptyBits]]
    /\ owners = [n \in Nodes |-> [c \in Chunks |-> <<>>]]
    /\ avail = [n \in Nodes |-> [p \in Nodes |-> TRUE]]
    /\ ctrans = [n \in Nodes |-> <<>>]
    /\ strans = [n \in Nodes |-> <<>>]
    /\ msgs = {}
=============================================================================
