----------------------------- MODULE ChunkRecords -----------------------------
(***************************************************************************)
(* The client's chunk records (struct chunk, create_chunk) as separate     *)
(* objects, as peer.c and bt_client.c keep them: have, missing and wanted  *)
(* are lists of pointers to records, and two records may carry the same    *)
(* hash.  The P2P modules identify a chunk with its hash; this module      *)
(* keeps the records apart to follow the user's GET commands, each typed   *)
(* at any time (handle_user_input), through transfer admission,            *)
(* validation and the writing of the output file.  The DATA exchange of a *)
(* transfer is one step (its blocks arriving complete, valid or not); the  *)
(* WHOHAS/IHAVE round trip is the IHAVE arriving.                          *)
(***************************************************************************)
EXTENDS Naturals, Sequences, FiniteSets, LinkedList

CONSTANTS
    Hashes,   \* chunk hashes
    Peers,    \* the other peers, each owning every chunk
    Gets,     \* get-chunk files the user may name: sequences of lines
    MaxGets,  \* bound on the GET commands typed
    None,     \* a freed user_output_filename
    HasChunkFile, \* the lines of the peer's has-chunk file
    MasterFile,   \* the master data file: the hash of the chunk at each id
    Zero          \* a zeroed chunk buffer

(* A line "id hash" of a get-chunk file.                                  *)
Line == [id : Nat, hash : Hashes]

ASSUME /\ HasChunkFile \in Seq(Line)
       /\ DOMAIN MasterFile \subseteq Nat
       /\ MasterFile \in [DOMAIN MasterFile -> Hashes]

VARIABLES
    recs,      \* the chunk records created, by number: hash, id, content, peer list
    have,      \* have, missing, wanted: lists of record numbers
    missing,
    wanted,
    transfers, \* incoming transfers: [peer, c] with c a record number
    avail,     \* bt_peer_t.available
    outname,   \* the GET whose output file user_output_filename names
    files,     \* the output files construct_data() wrote: name -> (id -> content)
    ngets      \* GET commands typed so far

vars == <<recs, have, missing, wanted, transfers, avail, outname, files, ngets>>

(* A chunk buffer holds the content of the chunk with some hash, or zeros. *)
Content == Hashes \cup {Zero}

Rec == [hash : Hashes, id : Nat, data : Content, peer : Seq(Peers)]

TypeOK ==
    /\ recs \in Seq(Rec)
    /\ \A l \in {have, missing, wanted} : l \in Seq(1 .. Len(recs))
    /\ transfers \in Seq([peer : Peers, c : 1 .. Len(recs)])
    /\ avail \in [Peers -> BOOLEAN]
    /\ outname \in Gets \cup {None}
    /\ DOMAIN files \subseteq Gets \cup {None}
    /\ ngets \in 0 .. MaxGets

(* read_chunk_data_file_by_id(): the chunk at position id of the master  *)
(* data file; past the end of the file nothing is read and the buffer     *)
(* keeps calloc's zeros.                                                   *)
ReadChunkDataFileById(id) ==
    IF id \in DOMAIN MasterFile THEN MasterFile[id] ELSE Zero

(* parse_chunkfile() then load_own_chunk_data(), as peer_setup() runs      *)
(* them: every line of the has-chunk file becomes a record at the head of  *)
(* have, made by create_chunk(), whose id parameter is a uint8_t, so the   *)
(* line's int id is kept modulo 256; the record's content is then read    *)
(* from the master data file at that id.                                   *)
ParseChunkfile ==
    [i \in 1 .. Len(HasChunkFile) |->
        LET id == HasChunkFile[i].id % 256
        IN [hash |-> HasChunkFile[i].hash, id |-> id,
            data |-> ReadChunkDataFileById(id), peer |-> <<>>]]

Init ==
    /\ recs = ParseChunkfile
    /\ have = [i \in 1 .. Len(HasChunkFile) |-> Len(HasChunkFile) + 1 - i]
    /\ missing = <<>> /\ wanted = <<>>
    /\ transfers = <<>>
    /\ avail = [p \in Peers |-> TRUE]
    /\ outname = None
    /\ files = <<>>
    /\ ngets = 0

(* The positions of the records of list l whose hash is h: the nodes      *)
(* compare_chunk_by_hex/bin_wrapper and compare_transfer_by_chunk_hash    *)
(* accept.                                                                 *)
WithHash(rs, l, h) == {r \in Range(l) : rs[r].hash = h}

(* find_first_available_peer() (chunk.c, not in the repository): the first *)
(* peer of the list whose available flag is set, 0 when none is.          *)
FirstAvailablePeer(list, av) == SelectInSeq(list, LAMBDA q : av[q])

(* create_wanted_missing_list()'s loop over the lines: a hash found in    *)
(* have names that record; otherwise create_chunk() makes a fresh record, *)
(* inserted at the head of missing.  Either way the record takes the      *)
(* line's id and is inserted into wanted.                                  *)
RECURSIVE CreateWantedMissing(_, _)
CreateWantedMissing(lines, st) ==
    IF lines = <<>> THEN st
    ELSE LET l == Head(lines)
             hv == NodeFind(st.have, WithHash(st.recs, st.have, l.hash))
             r == IF hv = 0 THEN Len(st.recs) + 1 ELSE st.have[hv]
             rs == IF hv = 0
                   THEN Append(st.recs, [hash |-> l.hash, id |-> l.id,
                                         data |-> Zero, peer |-> <<>>])
                   ELSE [st.recs EXCEPT ![r].id = l.id]
         IN CreateWantedMissing(Tail(lines),
              [st EXCEPT !.recs = rs,
                         !.missing = IF hv = 0 THEN NodeInsert(@, r) ELSE @,
                         !.wanted = NodeInsert(@, r)])

(* construct_data()'s file: fopen("w+b") truncates it, then every wanted  *)
(* record, from the head, is written at c->id * BT_CHUNK_SIZE, a later     *)
(* write over an earlier one.  The offset is an unsigned int product, so   *)
(* it wraps at 2^32 = 8192 chunks of 2^19 bytes.                           *)
ConstructData(rs, w) ==
    FoldLeft(LAMBDA f, r : ((rs[r].id % 8192) :> rs[r].data) @@ f, <<>>, w)

(* check_all_received(): with nothing missing, construct_data() writes    *)
(* the wanted records to the file user_output_filename names, prints GOT   *)
(* and frees the name, and the wanted list is cleared.                     *)
CheckAllReceived(st) ==
    IF CountNode(st.missing) # 0 THEN st
    ELSE [st EXCEPT !.files = (st.outname :> ConstructData(st.recs, st.wanted)) @@ @,
                    !.outname = None, !.wanted = <<>>]

(* get_chunk_data(): walking missing from the head, a record with no      *)
(* transfer for its hash and an available peer gets a transfer with the   *)
(* first such peer (create_transfer clears its flag), inserted at the     *)
(* head, and a GET.                                                        *)
RECURSIVE GetChunkData(_, _)
GetChunkData(ms, st) ==
    IF ms = <<>> THEN st
    ELSE LET r == Head(ms)
             i == FirstAvailablePeer(st.recs[r].peer, st.avail)
             p == st.recs[r].peer[i]
             busy == NodeFind(st.transfers,
                       {t \in Range(st.transfers) : st.recs[t.c].hash = st.recs[r].hash}) # 0
         IN GetChunkData(Tail(ms),
              IF i = 0 \/ busy THEN st
              ELSE [st EXCEPT !.transfers = NodeInsert(@, [peer |-> p, c |-> r]),
                              !.avail[p] = FALSE])

(* The whole client state as one record, for the helpers above.           *)
State == [recs |-> recs, have |-> have, missing |-> missing, wanted |-> wanted,
          transfers |-> transfers, avail |-> avail, outname |-> outname,
          files |-> files]

SetState(st) ==
    /\ recs' = st.recs /\ have' = st.have /\ missing' = st.missing
    /\ wanted' = st.wanted /\ transfers' = st.transfers /\ avail' = st.avail
    /\ outname' = st.outname /\ files' = st.files

-----------------------------------------------------------------------------
(* handle_user_input() / process_get(): a GET line, read whenever stdin is *)
(* readable, sets user_output_filename and runs                            *)
(* create_wanted_missing_list() with its check_all_received(); WHOHAS is   *)
(* then flooded (its answers are ReceiveIHAVE).                            *)
ProcessGet(g) ==
    /\ ngets < MaxGets
    /\ ngets' = ngets + 1
    /\ SetState(CheckAllReceived(
                  CreateWantedMissing(g, [State EXCEPT !.outname = g])))

(* receive_IHAVE() from p for hash h: p joins the peer list of every      *)
(* missing record with that hash it is not in yet (peer_exist_in_list),   *)
(* then init_data_transfer().                                              *)
ReceiveIHAVE(p, h) ==
    LET hs == WithHash(recs, missing, h)
        rs == [r \in 1 .. Len(recs) |->
                 IF r \in hs /\ NodeFind(recs[r].peer, {p}) = 0
                 THEN [recs[r] EXCEPT !.peer = NodeInsert(@, p)]
                 ELSE recs[r]]
    IN /\ SetState(GetChunkData(missing, [State EXCEPT !.recs = rs]))
       /\ UNCHANGED ngets

(* validate_chunk() of a valid record c: the first missing node with c's  *)
(* hash is deleted and c inserted into have, and check_all_received()     *)
(* runs (also when no missing node has the hash).                          *)
ValidChunk(st, c) ==
    LET i == NodeFind(st.missing, WithHash(st.recs, st.missing, st.recs[c].hash))
        st1 == [st EXCEPT !.recs[c].data = st.recs[c].hash]
    IN CheckAllReceived(
         IF i = 0 THEN st1
         ELSE [st1 EXCEPT !.missing = NodeDelete(@, i),
                          !.have = NodeInsert(@, c)])

(* receive_DATA() completing transfer k (chunk_bits_all_received): a valid *)
(* chunk goes through validate_chunk(); an invalid one is reset.  Either  *)
(* way the transfer is deleted (delete_transfer sets the peer available)   *)
(* and init_data_transfer() runs.                                          *)
ReceiveDATA(k, valid) ==
    LET t == transfers[k]
        st == IF valid THEN ValidChunk(State, t.c)
              ELSE [State EXCEPT !.recs[t.c].data = Zero]
        st2 == [st EXCEPT !.transfers = NodeDelete(@, k), !.avail[t.peer] = TRUE]
    IN /\ SetState(GetChunkData(st2.missing, st2))
       /\ UNCHANGED ngets

(* receive_DENIED() from transfer k's peer: the transfer is deleted.       *)
ReceiveDENIED(k) ==
    /\ transfers' = NodeDelete(transfers, k)
    /\ avail' = [avail EXCEPT ![transfers[k].peer] = TRUE]
    /\ UNCHANGED <<recs, have, missing, wanted, outname, files, ngets>>

(* handle_client_timeout(), which returns at once when nothing is missing: *)
(* transfer k has timed out MAX_TO_COUNTS times and handle_transfer_dead() *)
(* removes its peer from every missing record's peer list and deletes it,  *)
(* or no transfer dies (GET and ACK resends change no record); then        *)
(* init_data_transfer().                                                   *)
HandleClientTimeout(k) ==
    LET p == transfers[k].peer
        rs == [r \in 1 .. Len(recs) |->
                 IF r \in Range(missing)
                 THEN [recs[r] EXCEPT !.peer = NodeIterateDelete(@, {p})]
                 ELSE recs[r]]
        st == IF k = 0 THEN State
              ELSE [State EXCEPT !.recs = rs,
                                 !.transfers = NodeDelete(@, k),
                                 !.avail[p] = TRUE]
    IN /\ CountNode(missing) # 0
       /\ SetState(GetChunkData(st.missing, st))
       /\ UNCHANGED ngets

Next ==
    \/ \E g \in Gets : ProcessGet(g)
    \/ \E p \in Peers, h \in Hashes : ReceiveIHAVE(p, h)
    \/ \E k \in 1 .. Len(transfers), valid \in BOOLEAN : ReceiveDATA(k, valid)
    \/ \E k \in 1 .. Len(transfers) : ReceiveDENIED(k)
    \/ \E k \in 0 .. Len(transfers) : HandleClientTimeout(k)

Spec == Init /\ [][Next]_vars

-----------------------------------------------------------------------------
(* The chunk lists stay classified (spec 3: have and missing disjoint,    *)
(* wanted within their union): whatever GET commands the user types,      *)
(* validate_chunk() moves into have the record it deletes from missing,   *)
(* and no record create_wanted_missing_list() put in wanted is lost from  *)
(* both lists.                                                             *)
ListsPartitioned ==
    /\ Range(have) \cap Range(missing) = {}
    /\ Range(wanted) \subseteq Range(have) \cup Range(missing)

(* The output file of every GET that construct_data() wrote (GOT printed)  *)
(* holds, at each line's id, the content of that line's hash: the records  *)
(* peer_setup() loaded and the ones fetched reach the file with the data   *)
(* their hash names, at the position the GET asked for.                    *)
OutputMatchesGet ==
    \A g \in DOMAIN files \cap Gets : \A l \in Range(g) :
        /\ l.id \in DOMAIN files[g]
        /\ files[g][l.id] = l.hash
=============================================================================
