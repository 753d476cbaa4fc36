------------------------------ MODULE MC_Codec ------------------------------
(* Instances of PacketCodec: the packets the handlers build, and foreign  *)
(* datagrams with a valid magic and version but other header values.      *)
EXTENDS PacketCodec, TLC

(* A 16-byte header with the given magic, version, type and lengths.      *)
RawHeader(magic, ver, type, hl, pl) ==
    Bytes2(magic) \o <<ver, type>> \o Bytes2(hl) \o Bytes2(pl) \o Bytes4(0) \o Bytes4(0)

(* Unknown types, a packet_len below header_len or past a DATA block, an  *)
(* extension id before the magic, and a wrong magic.                       *)
MCForeign ==
       {RawHeader(MAGIC_NUM, VER_NUM, t, STANDARD_HEADER_LEN, pl) :
            t \in {DATA, 6}, pl \in {12, 16, 2000}}
  \cup {<<0, 9>> \o RawHeader(MAGIC_NUM, VER_NUM, ACK, STANDARD_HEADER_LEN, 16)}
  \cup {RawHeader(1, VER_NUM, ACK, STANDARD_HEADER_LEN, 16)}

=============================================================================
