# TLA+ models of the P2P chunk-transfer peer

This directory holds TLA+ models of the peer program in `src/code`. The modules
are checked with TLC.

## The system

Each peer process (`peer.c`) is both a client (`bt_client.c`) and a server
(`bt_server.c`). Both sides share one UDP socket and one single-threaded
`select()` loop (`peer_run`). Each turn of the loop does exactly one of three
things:

- it reads a user `GET` command (`process_get`);
- it receives one datagram (`process_inbound_udp`), dispatched by packet type;
- when `select` times out, it runs `handle_timeout`: the server sweep, then the
  client sweep.

Peers talk through WHOHAS/IHAVE (discovery), GET/DENIED (admission),
DATA/ACK (a sliding-window block stream) and timeouts. The transport loses,
duplicates and reorders datagrams.

### Components and their state

| Component | Source | State | Operations |
|---|---|---|---|
| Client engine | `bt_client.c` | `missing`, `wanted` and `have` lists; each chunk's `bits`/`bits_count` and peer (owner) list; the incoming `transfers` list | `receive_IHAVE`, `receive_DENIED`, `receive_DATA` (store, cumulative ACK, validate), `get_chunk_data` (admission), `handle_client_timeout` (resend GET/ACK, peer death, WHOHAS flood) |
| Server engine | `bt_server.c` | the outgoing `transfers` list, each with a sliding window (`begin`, `index`, `dup_count`, `timeout_count`) | `receive_WHOHAS`, `receive_GET` (with `max_conn`), `receive_ACK` (slide, dup-ACK fast retransmit, completion), `send_DATA`, `handle_server_timeout` |
| Congestion controller | `congestion.c` | `congest_state`, `wind_size`, `ssthresh`, `start_wind_size` per transfer | `congestion_control`, `slow_start`, `congestion_avoidance`, `detected_first_loss` |
| Transfer | `transfer.c` | a binding of one peer to one chunk; the peer's `available` flag | `create_transfer` (peer busy), `delete_transfer` (peer available), lookups by peer and by chunk hash |
| Peer process | `peer.c` | the roster and the event loop | `peer_setup`, `process_get`, `process_inbound_udp`, `handle_timeout` |
| Packet codec | `packet.c` | a `Packet` record and its byte layout | `serialize_packet`, `deserialize_packet`, `send_packet_to_peer` |
| Linked lists | `linkedlist.c` | a list of data pointers from a head | `count_node`, `node_length`, `node_insert`, `node_find`, `node_delete`, `node_iterate_delete` |
| Not modelled | `bt_io.c`, `hash.c`, `mytime.c`, `log.c`, and the video-proxy files `bitrate.c`, `stream.c`, `parse.c` | | see the last section |

How the components interact:

- Both engines of one peer share the `available` flag of each roster peer.
- Both engines look up a transfer by the remote peer alone. DATA and ACK
  carry no chunk hash.
- The congestion controller lives inside each outgoing transfer.

### What is hard here

Everything runs on one thread, so the hard behaviours come from the network
and from the two directions sharing state:

- a datagram from an earlier transfer arrives after a new transfer with the
  same peer exists;
- duplicated DATA or ACKs;
- a server-side deletion freeing a peer that the client side still uses;
- timeouts racing late answers;
- a peer declared dead;
- invalid chunks being retried.

`PROJECT.json` lists each hazard at its source line.

### Properties that make it correct

- **HaveIntegrity:** `have` holds only chunks whose every block is that
  chunk's data.
- **NoLeakedBusyPeer:** a peer is marked busy only while a transfer with it
  exists.
- **ClientTransferPerPeer:** at most one incoming transfer per peer. This is
  what the lookups by peer rely on.
- **ServerWindowSound:** a server's window never starts past what the client
  has in order.
- **TypeOK:** includes `begin, index <= MAX_SEQ_NUM`.
- **AcquisitionRefined:** the peers implement `ChunkAcquisition`. A chunk
  enters `have` only while it is pending, and only from a peer that holds it.
  `wanted` is cleared exactly when nothing is pending.
- **DeniedAnswersTransfer:** a DENIED destroys only the incoming transfer
  for the chunk whose GET it refuses.
- **ListsPartitioned** (`ChunkRecords`): over chunk records, `have` and
  `missing` are disjoint and every `wanted` record is in one of them (spec 3),
  whatever GET commands the user types and whenever.
- **OutputMatchesGet** (`ChunkRecords`): every output file written holds, at
  each line's id, the content of that line's hash, whether the chunk was
  loaded at setup or fetched.
- **ConsecutiveTimeouts** (action property): a DATA that stores a new block
  of an incoming transfer's chunk leaves that transfer's timeout count at 0,
  so only `MAX_TO_COUNTS` timeouts in a row declare a peer dead (spec 4.5).
- **AcquisitionLive** (liveness and refinement): the peers implement
  `ChunkAcquisition` together with its fairness. Every GET is processed, and
  no chunk stays pending while another peer holds it.
- **RoundTrip, WrittenInBuffer, ParsedInBounds** (codec): handlers read back
  what was sent; the serializer stays in its buffer; a parsed packet is safe to
  handle.

## Modules

| Module | Models | Contents |
|---|---|---|
| `CongestionControl` | `congestion.c`, congestion fields of `transfer.h` | Operators from a controller record to a controller record. Time is abstracted: `congestion_avoidance`'s window is any non-decreasing value up to `MaxWind`. The `rtt == 0` branch is dead, because `create_transfer` fixes rtt at 200. |
| `LinkedList` | `linkedlist.c` | A list is the sequence of its nodes' data from the head, and a node is its position. `NodeInsert` inserts at the head, `NodeFind` returns the first match or 0 (NULL), and `NodeDelete` unlinks the position `NodeFind` returned. Every list of the other modules goes through these operators. |
| `PeerState` | peer, chunk and transfer state, network | `VARIABLES` per node: `have`, `missing` (a sequence, head insertion as `node_insert`), `wanted`, `requested`, `bits`, `owners`, `avail`, `ctrans` (client transfers), `strans` (server transfers); plus `msgs`, the set of datagrams in flight. Shared helpers: lookups, `delete_transfer`, the in-order prefix. `Init` is `peer_setup`. |
| `BtServer` | `bt_server.c` | One operator per handler, `(n, m, net)` → next state. `net` is the network after the receive. `ServerSweep` is the timeout loop, recursive over the list. |
| `BtClient` | `bt_client.c` | Handlers and `GetChunkData` (the admission loop, recursive in missing-list order). `ClientSweep` is the timeout loop. `FirstAvailablePeer` is modelled from the spec, because `chunk.c` is not in the repository. |
| `P2P` | `peer.c` | `ProcessGet`, `ProcessInboundUdp` (dispatch), `HandleTimeout`, `LoseMsg`; `Next`, `Spec` and the properties. |
| `ChunkAcquisition` | the client's promise (`process_get`, `validate_chunk`, `check_all_received`) | Abstract state: `have`, `pending` (a set), `wanted`, `requested`; actions `Request` and `Acquire`; `AbsLiveSpec` adds weak fairness on both. `P2P` instantiates it with `pending <- Range(missing[n])` and checks `AcquisitionRefined == Acq!AbsSpec`; `P2PTimely` checks `AcquisitionLive == Acq!AbsLiveSpec`. |
| `P2PTimely` | `peer_run`'s scheduling | `P2P` on a timely network with at most `MaxLoss` losses. A sweep (`QuietTimeout`) happens only when nothing is in flight, with every transfer timed out. It defines `LivenessSpec`: weak fairness on delivery and user input, strong fairness on each peer's sweep. |
| `PacketCodec` | `packet.c`, the senders' packet construction | Byte-level `Serialize`/`Deserialize` in network order, with the extension-id fallback. The packets each `send_*` builds. One datagram's life as `Send`/`Arrive`/`Receive`. |
| `MC_Acquire`, `MC_Pair`, `MC_Swap` | | Scenarios: node and chunk model values, and the bound `MaxInFlight` on datagrams in flight (a state constraint). |
| `ChunkRecords` | `peer.c` (`process_get`, `create_wanted_missing_list`), the record bookkeeping of `bt_client.c` | One client with its chunk records kept apart from their hashes: `recs` (hash, id, content: a hash or `Zero`, peer list), `have`/`missing`/`wanted` as lists of record numbers, `transfers` of records, `outname` (`user_output_filename`) and `files` (each output file written, as id → content). `Init` is `peer_setup`: `ParseChunkfile` (ids through `create_chunk`'s `uint8_t`) and `ReadChunkDataFileById` from the master file. `ConstructData` writes the wanted records at their ids (modulo 8192, the `unsigned` offset's wrap). Actions: `ProcessGet` (a GET typed at any time, at most `MaxGets`), `ReceiveIHAVE`, `ReceiveDATA` (a whole transfer arriving, valid or not), `ReceiveDENIED`, `HandleClientTimeout` (with or without a peer death). The DATA/ACK exchange and the network are abstracted, since `P2P` covers them. |
| `MC_Records` | | `records`: two GET files naming hash h1 at ids 0 and 1, one owner, nothing held. `setup`: h1 held at has-chunk id 256 of a master file with h2 at id 0, and one GET for h1 and h2. |
| `MC_Live` | | The Pair and Swap scenarios for `P2PTimely`. |
| `MC_Codec` | | Foreign datagrams for the codec. |

### Abstractions

- **Block contents.** A block's content is the chunk whose server transfer
  sent it (the `origin` field of DATA, a ghost no handler reads). A SHA-1 match
  is therefore "every block records this chunk".
- **Network.** Reordering comes from the network being a set.
- **Duplication.** With `Duplicates = TRUE`, a receive may leave its datagram
  in flight.
- **Timeouts.** Which transfers `transfer_has_timeout` finds timed out in a
  sweep is a free choice (`TransferHasTimeout`). The clock (`millitime`) is
  not modelled.
- **Chunk validation.** `validate_chunk` removes the *first* missing node
  with the hash (`NodeDelete` of `NodeFind`). It adds the chunk to `have`
  only if it found one.
- **DENIED.** A DENIED records, as a ghost `origin`, the chunk of the GET it
  refuses. Nothing of it is on the wire, because `send_DENIED` sends no hash.
- **Whole handlers.** Each handler is one action, together with everything it
  calls (`init_data_transfer`, `check_all_received`, `send_*`).

## Runs

Shared settings:

- Every run has `MAX_DUP_ACKS = 3`, the code's value.
- `MAX_SEQ_NUM` (525 in the code) is 2–3, so that a window can hold part of a
  chunk and holes and reordering can occur.
- `DEFAULT_SS_THRESH` (64) is 2, so that slow start reaches CA.
- `MAX_TO_COUNTS` (5) is 2–3, so that both a resend and a peer death happen.
- `MaxInFlight = 3`.
- Liveness runs:
  - `MaxConn = 1`, so the DENIED path is part of every cycle;
  - `MaxLoss = 2`, enough for a lost DATA and a lost resend, with
    `MAX_TO_COUNTS = 3`, so peer death and rediscovery happen.
- Codec bounds:
  - the code's real sizes: 20-byte hashes, 1000-byte blocks, 16-byte headers,
    74 hashes per packet;
  - hash lists of 1, 2 and 74 entries, the first, second and last DATA block;
  - stale bytes on both sides of the 74 limit.

| Run | Scenario | Checks | Result |
|---|---|---|---|
| `acquire` | n1 holds cA and asks for cA, cB, fetching cB (3 blocks) from n2; `max_conn` 2; duplicates | ServerWindowSound, AcquisitionRefined | pass, 132k states |
| `fetch_timeouts` | as acquire | ConsecutiveTimeouts | **violation** |
| `pair` | n1 fetches 2 chunks from n2; `max_conn` 1 (DENIED path); duplicates | TypeOK, HaveIntegrity, NoLeakedBusyPeer | pass, 546k states |
| `pair_window` | as pair, no duplicates | ServerWindowSound | **violation** |
| `pair_denied` | as pair | DeniedAnswersTransfer | **violation** |
| `swap_per_peer` | n1 and n2 each fetch from the other | ClientTransferPerPeer | **violation** |
| `live_swap` | swap on the timely network, `MaxLoss = 2`, `MAX_TO_COUNTS = 3`, strong fairness on sweeps | AcquisitionLive | pass, 48k states |
| `codec` | every packet the senders build; stale bytes 0, 1, 74, 200 | RoundTrip | pass, 109 states |
| `codec_denied_write` | as codec | WrittenInBuffer | **violation** |
| `records` | two GETs of the same hash, one owner, `MaxGets = 2` | ListsPartitioned | **violation** |
| `setup` | a held chunk at has-chunk id 256, one GET, `MaxGets = 1` | OutputMatchesGet | **violation** |
| `codec_foreign` | foreign datagrams with a valid magic and version | ParsedInBounds | **violation** |

Between them, `acquire` and `pair` fire every action and every branch of
`P2P`; `live_swap` fires those of `TimelyNext`, and `codec` fires `Send` and
`Receive`. `acquire` covers the "GET for a chunk already being served" branch. `pair` covers both
DENIED branches.

### What the violations show (findings)

1. **`swap_per_peer`: one shared `available` flag.**
   - n1 fetches cB and cC from n2 while serving cA to n2.
   - n1's server transfer of cA to n2 times out and `delete_transfer` frees
     n2 (`transfer.c:35`), while n1's client transfer with n2 is still live.
   - n1's admission then opens a second incoming transfer with n2, for the
     other chunk. (n2 asks only for cA, so it never holds two.)
   - From then on DATA and DENIED from n2 go to whichever of n1's transfers
     the lookup by peer finds first.
2. **`pair_window`: a stale ACK moves a new window.**
   - A resent ACK for chunk B arrives after the server has started a new
     transfer of chunk A to the same client.
   - `receive_ACK` matches by peer (`bt_server.c:229`) and slides `begin` past
     a block the client lacks.
   - Lower ACKs are ignored from then on, so the transfer stalls until it times
     out.
3. **`setup`: a has-chunk id of 256 or more loads the wrong chunk.**
   - `parse_chunkfile` passes the line's `int` id to
     `create_chunk(uint8_t id, ...)` (`bt_io.c:75`, `chunk.h:44`), and never
     sets `c->id` again, unlike `create_wanted_missing_list` (`peer.c:208`).
   - `load_own_chunk_data` reads the master file at `id mod 256`
     (`peer.c:274`). The record for hash H holds another chunk's data.
   - The peer serves that data for H, which every requester's
     `validate_chunk` rejects. A GET on this peer naming H writes the wrong
     chunk into the output file, which is what the run shows.
   - With the id below 256 the same scenario satisfies OutputMatchesGet.
4. **`records`: a second GET while the first is running.**
   - `create_wanted_missing_list` looks a hash up in `have` only
     (`peer.c:191`), so a GET typed while that hash is still being fetched
     creates a second record c2 at the head of `missing`.
   - When the transfer's record c1 validates, `validate_chunk` deletes the
     first missing node with the hash (c2's) and puts c1 in `have`: c1 is in
     both `have` and `missing`, and c2, still in `wanted`, is in neither.
     The spec (3) says the lists are disjoint and `wanted = have ∪ missing`.
   - c1 is then fetched again. `construct_data` writes c2's zero data at c2's
     id, and `process_get` has overwritten `user_output_filename`, so the
     first GET's output file is never written and GOT is printed only for
     the second.
   - With one GET, a hash listed twice is handled correctly: head insertion
     and first-match lookups keep both records' peer lists equal, so the
     transfer is always for the record validation deletes. (Checked with
     `MaxGets = 1` and a file naming h1 twice: no violation.)
5. **`fetch_timeouts`: timeouts are counted in total, not in a row.**
   - `handle_client_timeout` increments the transfer's
     `cctrl.timeout_count` (`bt_client.c:214`); only `create_transfer`
     resets it. `receive_DATA` does not.
   - `process_inbound_udp` resets `peer->timeout_count` (`peer.c:119`), a
     counter nothing reads.
   - TLC's trace: a transfer times out once, then a DATA stores a new block
     and the count stays 1. A slow but live peer is declared dead after
     `MAX_TO_COUNTS` timeouts spread over a chunk; the spec (4.5) says
     consecutive timeouts.
6. **`codec_denied_write`: `send_DENIED` overflows its buffer.**
   - `hash_num` is uninitialised; the serializer writes the count, the
     padding and `hash_num` hashes past the 16 bytes it calloc'd.
   - The receiver in turn reads the count from the stale byte after the
     datagram (`packet.c:151`). Under `CodecSpec`, a DENIED followed by a
     stale byte of 200 is parsed with 200 hashes, which violates
     ParsedInBounds (`packet.c:154`: the copy overruns the 74-entry
     `hash_list`). RoundTrip compares only a DENIED's type and does not see it.
7. **`codec_foreign`: malformed headers are not dropped.**
   - Only magic and version are checked.
   - `packet_len < header_len` makes a negative `memcpy`; more than 1000 bytes
     overrun `data`.
   - A DATA `seq_num` of 0 or above 525 is accepted, and `receive_DATA`
     indexes `bits[seq_num - 1]` out of bounds (`bt_client.c:485`).
   - An unknown type hits `assert(0)` (`peer.c:160`).

8. **`pair_denied`: a DENIED destroys the wrong transfer.**
   - n1 fetches chunk B from n2, which has `max_conn` 1. A duplicated or
     resent GET for B reaches n2 while it serves B, and n2 answers DENIED.
   - n1 completes B and opens a transfer of chunk A with n2.
   - The late DENIED then arrives. `receive_DENIED` finds the transfer by
     peer id alone (`bt_client.c:376`) and destroys the transfer of A.
   - Chunk A is fetched again only after the next timeout sweep. The spec
     (4.4) says to destroy "the Transfer keyed by P". It also gives DENIED a
     hash list that neither side fills or reads. So it never says which GET a
     DENIED answers.

### Mutants

Each property of a passing run is shown to depend on the code by a mutant of
the code's definition that TLC catches:

| Mutant | What it changes | Property that catches it |
|---|---|---|
| `ReleasedNot` | `delete_transfer` without `available = 1` | NoLeakedBusyPeer (`pair`) |
| `SendDATAPastEnd` | `send_DATA` without the end-of-chunk bound | TypeOK (`pair`) |
| `LargestConsecSeqCount` | ACK of `bits_count` instead of the in-order prefix | ServerWindowSound |
| `ValidChunkComplete` | validation that accepts any complete chunk | HaveIntegrity |
| `ServerSweepNoCount` | the server sweep without `++timeout_count` | AcquisitionLive (`live_swap`) |
| `ProcessGetNoHaveCheck` | `create_wanted_missing_list` without the lookup in `have` | AcquisitionRefined |
| `Bytes2Host` | a 16-bit header field without `htons` | RoundTrip |

Found by reading, with no run: `receive_DATA` stores a block into the chunk
of whatever incoming transfer it has with the sender (`bt_client.c:447`), so
a delayed or duplicated block of an earlier chunk is stored into the current
one. The chunk then fails validation and is fetched again; HaveIntegrity
(checked by `pair`) shows validation always catches it. An earlier version
checked this as a violation run, replaced by `setup`.

## Fairness

Only `P2PTimely` has fairness, and only the liveness runs use it. Its
assumptions:

- **The network is timely.** A datagram that is not lost arrives well within
  `TIMEOUT_THRESHOLD` (3 s). So `select` returns 0 (5 s without input) only
  when nothing is in flight (`Quiet`), and then every transfer has timed out.
  At most `MaxLoss` datagrams are lost.
- **Delivery and user input: weak fairness.** `Receive` of each datagram and
  `ProcessGet` each peer. The loop serves whatever is readable, and a
  datagram stays readable until it is read.
- **Sweeps: strong fairness** on `QuietTimeout(n)`. `select` restarts its 5 s
  clock at every datagram, so a peer whose partner retries every ~5 s is quiet
  only intermittently. Strong fairness says a peer that is quiet again and
  again eventually sweeps. In real time the peer whose last input is older
  times out first. When two peers retry each other, the one whose partner's
  retry arrives last has heard nothing for longer, so it reaches its 5 s
  quiet period first and sweeps. Weak fairness would require a peer to stay
  quiet continuously, which admits behaviours where both peers' quiet
  periods are always cut short in turn; the real-time order of `select`
  timeouts rules those out, so weak fairness is not what the code gives.

## Not modelled, and why

- **The codec inside `P2P`.** `P2P` exchanges records. The byte layout is
  checked separately, in `PacketCodec`.
- **Hashing** (`hash.c`): abstracted by block origins in `P2P` and by a
  content that names its hash in `ChunkRecords`.
- **Chunk I/O** (`bt_io.c`): in `P2P`, `Init` holds every block of an owned
  chunk. `ChunkRecords` models the setup reads and the output writes. Short
  reads before the end of the file and the read-error path, which frees the
  chunk's inline buffer, are not modelled.
- **The 40-byte hash buffers** (`peer.c:188`, `bt_io.c:70`): `sscanf("%s")`
  of a 40-character hash writes its NUL one byte past `char hash[40]`. Hashes
  are model values, so the stack overflow is listed as a hazard only.
- **Clock** (`mytime.c`): timeouts are free choices (`TransferHasTimeout`).
  The model still covers what the 2^20-second wrap of `millitime` does:
  - the unsigned difference `now - timestamp` becomes about 2^64, so every
    transfer times out at once, which is one of the free choices;
  - the CA window becomes `(2^64 - k)/200 + start` truncated to 32 bits,
    about 2.06e9 and never 0;
  - `send_DATA` caps that window at the chunk end, which is what
    `CAWindows` reaches at `MaxWind = MAX_SEQ_NUM`.

  Only when the wrap happens is left out.
- **Logging** (`log.c`, `graph_wind_size`).
- **Video-proxy sources** (`bitrate.c`, `stream.c`, `parse.c`, `buffer.h`):
  the peer does not use them, the spec puts them out of scope, and they do
  not compile: `bitrate.c:24` indexes `bitrates` with an undeclared
  `bitrates_count`, and `dump_to_stream` (`stream.c:32`) redeclares its
  parameter `buffer`. There is no program to be faithful to.
- **Repeated user GET commands inside `P2P`.** Each `P2P` peer issues one
  GET and keeps `bits` per hash. Repeated GETs and the second record they
  create are modelled in `ChunkRecords`, which leaves out the block exchange.
- **Roster parsing and `main`.**

## Plan for later work

1. **Standalone congestion controller.** A `CongestionControl` run of its own
   with its properties: the window never drops below 1, `ssthresh >= 2`, and
   SS/CA alternation on losses.
2. **Three peers.** A WHOHAS flood to several owners, and admission that
   picks among them. (Two peers already reach the stale DENIED.) A first
   attempt did not finish: the acquire scenario with a second holder of cB,
   2 blocks, and symmetry on the two holders passed 1.5 million distinct
   states at depth 23 in 4 minutes. It needs a tighter bound, e.g. no
   duplicates and 2 datagrams in flight, or a simulation run.
3. **A passing `ChunkRecords` run** (one GET naming a hash twice, ids below
   256, with `ListsPartitioned` and `OutputMatchesGet`), and the
   stale-block check again, if the run budget allows.
4. **Liveness with `max_conn` 2**, so that the ignored duplicate GET
   (`bt_server.c:175`) is part of a liveness run; it needs a tighter bound
   than `live_swap`'s to finish.
