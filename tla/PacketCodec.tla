----------------------------- MODULE PacketCodec -----------------------------
(***************************************************************************)
(* The wire format of packet.c.  A packet the handlers build is written   *)
(* by serialize_packet() into a calloc'd buffer of packet_len bytes,      *)
(* packet_len bytes of it are sent, and the receiver's deserialize_packet *)
(* parses them out of its 1500-byte receive buffer (peer.c).  Bytes are   *)
(* integers in 0..255; multi-byte fields are in network order (htons,     *)
(* htonl).  Bytes the receiver reads past the datagram are whatever the   *)
(* stack buffer held before: an indeterminate value, the stale byte s.    *)
(***************************************************************************)
EXTENDS Integers, SequencesExt

CONSTANTS
    HashBytes,      \* byte values a 20-byte hash is made of
    DataBytes,      \* byte values a DATA block is made of
    DataIndexes,    \* send_DATA's cctrl.index values
    AckNums,        \* ack_num values of send_ACK
    JunkHashNums,   \* values the uninitialised hash_num of send_DENIED holds
    StaleBytes,     \* values of the receive buffer past the datagram
    Foreign         \* datagrams of another origin (corrupt or hostile)

MAGIC_NUM == 15441
VER_NUM == 1
STANDARD_HEADER_LEN == 16
HEADER_PAD_LEN == 4
MAX_PACKET_SIZE == 1500
BIN_HASH_SIZE == 20
DATA_SIZE == 1000
BT_CHUNK_SIZE == 512 * 1024
MAX_SEQ_NUM == (BT_CHUNK_SIZE \div DATA_SIZE) + 1
MAX_HASH_IN_PACKET ==
    (MAX_PACKET_SIZE - STANDARD_HEADER_LEN - HEADER_PAD_LEN) \div BIN_HASH_SIZE

WHOHAS == 0
IHAVE == 1
GET == 2
DATA == 3
ACK == 4
DENIED == 5
PacketTypes == {WHOHAS, IHAVE, GET, DATA, ACK, DENIED}
HashTypes == {WHOHAS, IHAVE, GET, DENIED}  \* payload: hash count, pad, hashes

Packet(type, hl, pl, seq, ack, hn, hashes, data) ==
    [type |-> type, header_len |-> hl, packet_len |-> pl, seq_num |-> seq,
     ack_num |-> ack, hash_num |-> hn, hash_list |-> hashes, data |-> data]

(* deserialize_packet() returning NULL: the datagram is dropped.           *)
NullPacket == Packet(-1, 0, 0, 0, 0, 0, <<>>, <<>>)

Hash(v) == [j \in 1 .. BIN_HASH_SIZE |-> v]

(* The packets the senders build (bt_client.c, bt_server.c).               *)
GetPacket(h) ==
    Packet(GET, STANDARD_HEADER_LEN,
           STANDARD_HEADER_LEN + HEADER_PAD_LEN + BIN_HASH_SIZE, 1, 0, 1, <<h>>, <<>>)
WhoHasPacket(hs) ==
    Packet(WHOHAS, STANDARD_HEADER_LEN,
           STANDARD_HEADER_LEN + HEADER_PAD_LEN + Len(hs) * BIN_HASH_SIZE,
           0, 0, Len(hs), hs, <<>>)
IHavePacket(hs) ==
    Packet(IHAVE, STANDARD_HEADER_LEN,
           STANDARD_HEADER_LEN + HEADER_PAD_LEN + Len(hs) * BIN_HASH_SIZE,
           0, 0, Len(hs), hs, <<>>)
DataPacket(index, v) ==
    LET off == index * DATA_SIZE
        len == IF BT_CHUNK_SIZE - off < DATA_SIZE THEN BT_CHUNK_SIZE - off ELSE DATA_SIZE
    IN Packet(DATA, STANDARD_HEADER_LEN, STANDARD_HEADER_LEN + len, index + 1, 0, 0,
              <<>>, [i \in 1 .. len |-> v])
AckPacket(a) ==
    Packet(ACK, STANDARD_HEADER_LEN, STANDARD_HEADER_LEN, 0, a, 0, <<>>, <<>>)
(* send_DENIED() sets type and lengths only; hash_num and hash_list keep   *)
(* what the stack held (junk hashes; seq and ack are read by nobody).      *)
DeniedPacket(junk) ==
    Packet(DENIED, STANDARD_HEADER_LEN, STANDARD_HEADER_LEN, 0, 0, junk,
           [i \in 1 .. junk |-> Hash(0)], <<>>)

(* A 16-bit field stored in host order on a little-endian host (htons     *)
(* left out).                                                               *)
Bytes2Host(x) == <<x % 256, (x \div 256) % 256>>

(* htons, htonl: most significant byte first.                              *)
Bytes2(x) == <<(x \div 256) % 256, x % 256>>
Bytes4(x) == Bytes2((x \div 65536) % 65536) \o Bytes2(x % 65536)

SerializeHeader(p) ==
    Bytes2(MAGIC_NUM) \o <<VER_NUM, p.type>> \o Bytes2(p.header_len)
      \o Bytes2(p.packet_len) \o Bytes4(p.seq_num) \o Bytes4(p.ack_num)

SerializePayload(p) ==
    CASE p.type \in HashTypes ->
             <<p.hash_num, 0, 0, 0>>
               \o [k \in 1 .. p.hash_num * BIN_HASH_SIZE |->
                      p.hash_list[(k - 1) \div BIN_HASH_SIZE + 1][((k - 1) % BIN_HASH_SIZE) + 1]]
      [] p.type = ACK -> <<>>
      [] OTHER -> SubSeq(p.data, 1, p.packet_len - p.header_len)

(* Every byte serialize_packet() writes, from the start of its buffer.     *)
SerializePacket(p) == SerializeHeader(p) \o SerializePayload(p)

(* send_packet_to_peer(): the packet_len bytes of the calloc'd buffer.     *)
Wire(p) ==
    LET w == SerializePacket(p)
    IN [i \in 1 .. p.packet_len |-> IF i <= Len(w) THEN w[i] ELSE 0]

(* Byte i of the receive buffer holding datagram buf.                      *)
ByteAt(buf, s, i) == IF i <= Len(buf) THEN buf[i] ELSE s
Word2(buf, s, i) == ByteAt(buf, s, i) * 256 + ByteAt(buf, s, i + 1)
Word4(buf, s, i) == Word2(buf, s, i) * 65536 + Word2(buf, s, i + 2)

(* deserialize_payload(), reading from offset hl of the buffer.  Hashes    *)
(* past MAX_HASH_IN_PACKET would overrun hash_list and are not decoded.    *)
DeserializePayload(buf, s, type, hl, pl) ==
    LET hn == ByteAt(buf, s, hl + 1)
        cnt == IF hn > MAX_HASH_IN_PACKET THEN MAX_HASH_IN_PACKET ELSE hn
    IN CASE type \in HashTypes ->
              [hash_num |-> hn, data |-> <<>>,
               hash_list |-> [i \in 1 .. cnt |-> [j \in 1 .. BIN_HASH_SIZE |->
                   ByteAt(buf, s, hl + HEADER_PAD_LEN + (i - 1) * BIN_HASH_SIZE + j)]]]
         [] type = ACK -> [hash_num |-> 0, hash_list |-> <<>>, data |-> <<>>]
         [] OTHER -> [hash_num |-> 0, hash_list |-> <<>>,
                      data |-> [i \in 1 .. pl - hl |-> ByteAt(buf, s, hl + i)]]

(* deserialize_packet(): the magic number, or an extension id followed by  *)
(* it, then the version; a packet whose magic or version is wrong is       *)
(* dropped.  The header fields follow the version; the payload starts     *)
(* header_len bytes from the start of the buffer.                          *)
Deserialize(buf, s) ==
    LET o == IF Word2(buf, s, 1) = MAGIC_NUM THEN 0 ELSE 2
        type == ByteAt(buf, s, 4 + o)
        hl == Word2(buf, s, 5 + o)
        pl == Word2(buf, s, 7 + o)
        pay == DeserializePayload(buf, s, type, hl, pl)
    IN IF Word2(buf, s, 1 + o) # MAGIC_NUM \/ ByteAt(buf, s, 3 + o) # VER_NUM
       THEN NullPacket
       ELSE Packet(type, hl, pl, Word4(buf, s, 9 + o), Word4(buf, s, 13 + o),
                   pay.hash_num, pay.hash_list, pay.data)

-----------------------------------------------------------------------------
(* One datagram's life: a handler builds a packet and send_packet_to_peer *)
(* serializes and sends it (or a datagram of another origin arrives), and *)
(* process_inbound_udp() receives and parses it.                           *)
VARIABLES
    sent,   \* the packet the sender built, or NullPacket
    wire,   \* the bytes of the datagram, <<>> before it is sent
    got     \* {} before the receive; then {the parsed packet, or NullPacket}

codecVars == <<sent, wire, got>>

HashLists == {<<Hash(v)>> : v \in HashBytes}
               \cup {<<Hash(v), Hash(w)>> : v, w \in HashBytes}
               \cup {[i \in 1 .. MAX_HASH_IN_PACKET |-> Hash(v)] : v \in HashBytes}

(* The packets the senders can build.                                      *)
Outgoing ==
       {GetPacket(Hash(v)) : v \in HashBytes}
  \cup {WhoHasPacket(hs) : hs \in HashLists}
  \cup {IHavePacket(hs) : hs \in HashLists \cup {<<>>}}
  \cup {DataPacket(k, v) : k \in DataIndexes, v \in DataBytes}
  \cup {AckPacket(a) : a \in AckNums}
  \cup {DeniedPacket(j) : j \in JunkHashNums}

CodecInit == sent = NullPacket /\ wire = <<>> /\ got = {}

Send(p) ==
    /\ wire = <<>>
    /\ sent' = p
    /\ wire' = Wire(p)
    /\ UNCHANGED got

(* A datagram not built by a peer's handlers (a foreign or corrupt one).   *)
Arrive(b) ==
    /\ wire = <<>>
    /\ wire' = b
    /\ UNCHANGED <<sent, got>>

(* spiffy_recvfrom() into buf, then deserialize_packet(buf).               *)
Receive(s) ==
    /\ wire # <<>>
    /\ got = {}
    /\ got' = {Deserialize(wire, s)}
    /\ UNCHANGED <<sent, wire>>

CodecNext == (\E p \in Outgoing : Send(p)) \/ (\E s \in StaleBytes : Receive(s))

CodecSpec == CodecInit /\ [][CodecNext]_codecVars

OpenNext == (\E b \in Foreign : Arrive(b)) \/ (\E s \in StaleBytes : Receive(s))

OpenSpec == CodecInit /\ [][OpenNext]_codecVars

-----------------------------------------------------------------------------
(* The fields of a packet that the handler for its type reads             *)
(* (process_inbound_udp's dispatch): the hash list for WHOHAS and IHAVE,  *)
(* the first hash for GET, seq_num and the data for DATA, ack_num for ACK, *)
(* nothing but the type for DENIED.                                        *)
HandlerView(p) ==
    CASE p.type \in {WHOHAS, IHAVE} -> <<p.type, p.hash_list>>
      [] p.type = GET /\ p.hash_list # <<>> -> <<p.type, Head(p.hash_list)>>
      [] p.type = DATA -> <<p.type, p.seq_num, p.data>>
      [] p.type = ACK -> <<p.type, p.ack_num>>
      [] OTHER -> <<p.type>>

(* Whatever a peer's handler sends, the receiving handler reads the same  *)
(* fields back: serialize_packet and deserialize_packet agree on the      *)
(* layout and byte order of every header field and payload, for the       *)
(* largest hash lists and the short last DATA block of a chunk included.  *)
RoundTrip == \A g \in got : sent # NullPacket => HandlerView(g) = HandlerView(sent)

(* serialize_packet writes no byte past the packet_len bytes it calloc'd. *)
WrittenInBuffer ==
    sent # NullPacket => Len(SerializePacket(sent)) <= sent.packet_len

(* deserialize_packet yields either NULL (dropped) or a packet the        *)
(* handlers can use safely: a known type (process_inbound_udp asserts),   *)
(* at most MAX_HASH_IN_PACKET hashes (the size of hash_list), and for     *)
(* DATA a payload length between 0 and DATA_SIZE (the size of data) and a *)
(* seq_num that receive_DATA's bits[seq_num - 1] can index.               *)
ParsedInBounds ==
    \A g \in got : g # NullPacket =>
        /\ g.type \in PacketTypes
        /\ g.hash_num <= MAX_HASH_IN_PACKET
        /\ g.type = DATA => /\ g.packet_len - g.header_len \in 0 .. DATA_SIZE
                           /\ g.seq_num \in 1 .. MAX_SEQ_NUM
=============================================================================
