# TLA+ models of the Zif peer-to-peer core

This directory holds TLA+ models of the Go sources under `src/` and the TLC configurations that check them. The sources are the DHT store, peer manager, resolver, rate limiter and collection mirroring. Every definition is translated from the code. `PROJECT.json` maps each definition to the lines it models, and lists the runs, mutants, findings and hazards.

## The system and its parts

| Part | Source | Role |
|---|---|---|
| Address / Entry | `src/unnamed/part_004` | A 160-bit address with the XOR metric. A signed directory `Entry` has `Verify`. |
| NetDB | `src/peer.go` 632-1212 | A k-bucket routing table in memory, plus SQLite tables for entries and seeds. Its operations are `Insert`/`Update`, `Query`, `InsertSeed` and `FindClosest`. |
| DHT handlers | `src/unnamed/part_003` | The server side of query, find-closest, announce, add-peer, hash-list and piece requests. Each handler calls NetDB or the post database. |
| PeerManager | `src/unnamed/part_001`, `src/peer.go`, `src/proto/client.go` | The map of connected peers: `SetPeer` with LRU eviction, the heartbeat goroutine, `HandleCloseConnection`, and the deferred close of `ListenStream`. |
| Client requests | `src/peer.go` 124-306, `src/proto/client.go` 142-307 | `Peer.Connect` stores the handshake entry. `Peer.Announce`/`Client.Announce` send the local entry. `Peer.Bootstrap`/`Client.Bootstrap` fetch `FindClosest(self)` from a peer and insert every entry. `Peer.Query`/`Client.Query` ask for one entry. |
| Resolver | `src/unnamed/part_001` 371-482 | `Resolve`/`resolveStep`: find an address's entry locally, then ask the closest known nodes. |
| Connection setup | `src/unnamed/part_000` 84-214, `src/proto/client.go` 660-834, `src/unnamed/part_003` 435-454, `src/peer.go` 90-266 | The dialer's `ConnectPeerDirect` (`OpenTCP`, the handshake, `Peer.Connect`, `ConnectClient`, `SetPeer`) against the listener's `Server.Listen` and `Server.Handshake` (`HandleHandshake`: `SetTCP`, `ConnectServer`, `SetPeer`, `Entry`, `DHT.Insert`, then `ListenStream`). |
| Request streams | `src/peer.go` 204-306, `src/unnamed/part_000` 37-274, `src/proto/client.go` 48-118 and 706-806 | A request opens a yamux stream (`Peer.OpenStream`, `StreamManager.OpenStream`, 10 s deadline), writes one message, reads one reply and closes. The serving node's `ListenStream` accepts it, records it with `AddStream` and runs `HandleStream`, whose `RouteMessage` calls the handler and closes the stream. |
| Limiter | `src/util/limiter.go` | A token bucket refilled by a ticker goroutine. `ListenStream` uses one per session. |
| Mirror pipeline | `src/peer.go` 405-527, `src/proto/client.go` 469-580, `src/dht/sql.go` 406-474 and 646-680 | Three goroutines joined by two channels. `Peer.Mirror` checks piece hashes. The reader in `Client.Pieces` decodes the gzip piece stream. `Database.InsertPieces` writes posts in batched transactions. The server streams pieces through `HandlePiece`. |

How they interact:

- Every request is one stream. A stream accepted by `ListenStream` is rate-limited by a Limiter. Its messages are routed by `RouteMessage` to the DHT handlers, which read and write NetDB.
- A connection is registered in PeerManager by `SetPeer`. Its heartbeat and deferred closes race with other connections on the shared maps.
- Setting up a connection needs both nodes: each side's `SetPeer` runs `GetEntry`, a Ping and a Query for the other node's own entry, which the other node answers only from a stream its `ListenStream` accepted.
- `Resolve` reads NetDB, then queries remote peers through PeerManager.
- A node that connects to another announces itself and bootstraps from it. The remote's DHT handlers write its NetDB, and the reply is inserted into the local NetDB.
- `Mirror` resolves a peer, requests its hash list and piece stream, and feeds the post database.

## Modules

| Module | Models | State ↔ code |
|---|---|---|
| `ZifAddress` | Address algebra, `Entry.Bytes`, `Verify` | Addresses are W-bit numbers, so `Distance` is `^^` and `BucketIndex` is W minus the bit length. A signature is the record of the key and the fields it signed, and `Verify` compares it with the entry's own key and fields. The owner's key is its address. `Forged` builds an entry signed by another key, and `Tampered` one that was altered after signing. |
| `NetDB` | NetDB and the four DHT handlers that use it | `table` holds the k-buckets: `buckets []Address`, as sequences. `rows` is the entry table keyed by address, with its key, version and signature. `seeds` is the seed table, as pairs. `reply` is the last message written. Each handler is one action covering the whole call chain: Verify, insertIntoTable, Update or insertIntoDB, and insertEntrySeeds. Any of their SQL statements may fail: the Exec of Update or of insertIntoDB, and InsertSeed part-way. A failure after insertIntoTable leaves the table touched. The handlers run in concurrent goroutines with no lock on `ndb.table`; their data race inside `insertIntoTable` is not modelled, and each handler is one step. `FindClosest` is translated with the aliasing of its range over a bucket that `Query` shifts. |
| `Directory` | What NetDB promises (spec 4.2, 8.1) | Abstract. `dir` maps each address to the signed fields of the last verified entry announced for it. `answer` is the announce's result. An entry that fails `Verify` changes nothing and is refused. A verified one is stored, and its answer may still be a refusal. Its write may also fail, and it is then refused with `dir` left as it was (`Refuse`). Every other request leaves `dir` alone. NetDB implements it under the refinement mapping `dir <- rows`, with `answer` taken from an announce `reply` (`DirectoryRefined`). |
| `Bootstrap` | `Peer.Connect`, `Peer.Announce`, `Peer.Bootstrap`, `Client.FindClosest`, `Client.Bootstrap`, composed with two NetDBs | Node A's NetDB is `A == INSTANCE NetDB` over `aTable`, `aRows`, `aSeeds`, `aLocal` and `aReply`. Node B's NetDB is a second instance over `bTable`, `bRows`, `bSeeds`. B's program counter is `bpc`. `bGot` is the find-closest reply B read, and `bBuf` the part of it the loop has not reached. `bres` is the result of the last Bootstrap. A request to A runs A's handler in the step that sends it. The loop of `Client.Bootstrap` is one action per iteration (`BootSkip`, `BootInsert`, `BootDone`), so A serves the other peers' requests (`Serve`) in between. `dht.DHT.Insert` is not in the repository; spec 4.5 says it is `NetDB.insert`, which is how it is modelled. |
| `PeerManager` | `SetPeer`, heartbeat, `HandleCloseConnection`, `UpdateSeen`, `ListenStream` close | `peers`/`peerSeen` are the two cmaps, from address to connection and to the rank of its stamp. `st` and `caddr` are each connection slot's session and address, `sp`, `hb` and `ls` the program counters of its SetPeer, heartbeat and ListenStream goroutines, and `victim` the address an eviction is removing. Each cmap call is atomic, and compound operations interleave between calls. |
| `Handshake` | Both ends of one connection's setup, then their heartbeat and `ListenStream` | `net` is the TCP connection with its yamux session: none, open or closed, for both ends at once. `pc[s]` is the setup goroutine of side C (dialer) or S (listener). `sess`, `entry`, `known`, `tracked`, `hb` and `ls` are, per side, the StreamManager's session, the Peer's cached `p.entry`, the DHT insert of the other's entry, membership in `peers`, and the heartbeat and ListenStream goroutines. `SetPeer` is the whole call: `GetEntry` succeeds when the other side `Answers` (session up, ListenStream running), fails for certain on a closed session or a failed other side, and may time out on a live one (`GetEntryLate`). The handshake messages (`handshake`, `handshake_send`, `handshake_recieve`) are not in the repository; `Exchange` is one step that succeeds on an open connection. The constant `Faults` says whether the network may drop the connection ("drop") and whether a Ping or Query may outlast its timeout ("slow"). |
| `Resolver` | `Resolve`, `resolveStep`, `Peer.Query`, `Client.Query` | `localDB` is what NetDB holds, `closest` the FindClosest order, and `depth` the shared counter. Remotes that answer are given by the constants `Knows` and `Up`. `PeerQuery`/`ClientQuery` give a remote's answer: an error unless it accepts a connection, and "no" (an error) unless it holds the target. |
| `Streams` | Both ends of the request streams on one connection, composed with the Limiter | `rq[r]` is request r's place in the requester (idle, open, sent, done). `backlog` is the session's accept queue, a sequence. `hs[r]` is the server end: in the backlog, in `HandleStream`'s first read, in its read after `RouteMessage`, or returned. `req`/`rep` are the request and reply buffered in the stream, and `bClosed` marks `RouteMessage`'s deferred Close. A's Close is derived: a request that opened a stream closes it when it ends (`aClosed`). `clients` is `sm.clients`. The Limiter is `L == INSTANCE Limiter WITH Sessions <- {Srv}`: `Accept` and `AcceptFail` take `L!Wait`, and `LimiterStep` is the ticker, refill goroutine and `Stop`. yamux is not in the repository; the model keeps what the code relies on. A stream is released when both ends closed or the session ended. A blocked read or write may fail with its deadline at any moment. |
| `Limiter` | `NewLimiter`'s goroutine, `Wait`, `Stop` | Throttle (buffer Burst), `tick.C` (buffer 1) and the unbuffered `quit`. Each channel's state is a variable per session. |
| `Mirror` | `Peer.Mirror`, the reader goroutine, `InsertPieces`, `HandlePiece`/`QueryPiecePosts` | There is one program counter per goroutine. `ret` and `pieces` are the two channels, and `committed` holds the post ids stored. The constant `Faults` is the set of steps that may fail: ping, setup, open, write, gzip, read, begin, commit, exec and addpeer. Each failure follows the code's error path. A failed `Begin` at the batch boundary leaves `tx` nil, and the deferred `tx.Commit()` panics, so `IRecv` ends the process there (`ipc` = "panic"). |

The `MC_*` modules give the constants their values: entries, networks and fault sets.

## Runs

Passing runs check invariants over every reachable state. Passing liveness runs check properties under the fairness below.

- **netdb_safety** checks that NetDB implements `Directory` (`DirectoryRefined`, a PROPERTY): every announce of a verified entry leaves its signed fields as the address's row, a refused entry changes nothing, and no other handler touches a row. It also checks that the k-buckets stay distinct, bounded by K and correctly indexed (`KBucketsWellFormed`). Every stored row carries a signature over exactly its stored fields (`StoredSignaturesGenuine`). The run covers a 3-bit address space, K = 3, valid, tampered and forged entries, failing SQL statements, and all four handlers.
- **pm_safety**: two nodes and two connections with maxPeers = 1, so eviction, ABA on addresses and heartbeat races all occur. `HandleCloseConnection`'s `peers.Remove` and `peerSeen.Remove`, and `SetPeer`'s `peers.Set` and `peerSeen.Set`, are separate steps, because they are separate cmap calls. So a close's two removals can straddle another connection's `SetPeer`, which leaves a peer without a stamp. `TypeOK` checks that every `peers` entry is keyed by its own connection's address, so no slot is reused while an entry names it. The run also checks that every tracked peer has a running heartbeat (`TrackedPeersMonitored`). It also checks that a tracked peer whose session closed is eventually dropped (`ClosedPeersEventuallyDropped`).
- **streams**: three requests share one connection, against `ListenStream` with its limiter and the real accept loop. The server may reply, fail without a reply, time out before the request arrives, or lose the connection. Two liveness properties hold:
  - Every request ends (`RequestEnds`). It ends because `StreamManager.OpenStream` sets a deadline. The mutant whose read has no deadline waits for ever on a server whose `HandleStream` returned without closing the stream.
  - `Wait` on an empty Throttle eventually returns (`WaitEventuallyReturns`). Three requests are as many as the burst, so the Throttle does run dry. The Throttle never exceeds its burst (`TypeOK`). `MC_Limiter.cfg` checks the same properties of the Limiter on its own.
- **resolver**: for every local NetDB content and every FindClosest order over the "wide" network, `Resolve` gives up only after querying each of the first `Depth` candidates (`ResolvesWithinDepth`).
- **bootstrap**: B connects to A, announces itself and bootstraps from it, while another peer sends A every request the handlers serve. It checks that a Bootstrap that returns nil has stored every entry of the reply that verifies and is not B's own (`BootstrapOkStoresReply`). A nil entry in the reply ends B's process (`BootPanic`), as the code's dereference before its nil check does.
- **mirror_safety**: under every fault, `committed` stays a gap-free prefix `1..m` (`CommittedPrefix`). Mirror's resume point `ceil(PostCount/PieceSize)-1` relies on this, since `PostCount` is `MAX(id)`. Starting states include an empty, a partial and a complete local copy.
- **handshake**: one connection between a dialer and a listener. The network may drop it at any step or let any Ping or Query time out. Two liveness properties hold:
  - Both setups end (`SetupEnds`). Each side's `SetPeer` waits for the other's `ListenStream`, and the mutual wait resolves only because `ConnectClient` starts the dialer's `ListenStream` before its `SetPeer`. The mutant that drops that start leaves both sides waiting.
  - Once the connection closes, both nodes eventually forget the peer: its heartbeat returns, and its `ListenStream` stops accepting (`ClosedConnectionForgotten`). This holds whichever setup step each side had reached. The `ListenStream` goroutine is not gone: after its deferred `HandleCloseConnection` it enters its deferred `limiter.Stop`, which may block for ever (`limiter_stop`), so `ls` ends at "stop", not at "done".

`MC_Mirror_Completes.cfg` checks the Mirror liveness property `MirrorCompletes`, which holds: with no faults, a first mirror ends with all three goroutines returned and the whole collection committed. It is kept beside `MC_Mirror.cfg`, is not listed among the runs, and its hazard note says so.

Violation runs each check one property that the spec or the code's own comments state. TLC finds each of them violated by what the code does. Five of these are runs in PROJECT.json, and its `findings` give their lines:

- `netdb_entry_owner`
- `handshake_served`
- `limiter_stop`
- `resolver_chain`
- `mirror_exec_fails`

All the counterexamples follow. Those named by a .cfg file are kept beside the five runs. Their disagreements are listed as hazards with a note that names the configuration.

- **Add-peer seeds.** `MC_NetDB_AddPeerSeedRecorded.cfg`: `HandleAddPeer` answers ok without recording the seed, because `Insert` returns after `Update`.
- **FindClosest order.** `MC_NetDB_FindClosestSortedDistinct.cfg`: `FindClosest`'s reply is unsorted and has duplicates.
- **Served entries.** `MC_NetDB_ServedEntriesVerify.cfg`: served entries whose seeding list was rebuilt from the seed table fail `Verify`.
- **Entry ownership.** `netdb_entry_owner`: an entry for an address, signed by a key that does not derive it, is accepted and stored, because `Verify` never derives the address from the key. An `Update` would replace an existing owner's row the same way.
- **Table without rows.** `MC_NetDB_TableBackedByRows.cfg`: a table address should have a row, or `FindClosest` returns nil for it. One announce whose `Update` or `insertIntoDB` Exec fails leaves the address in the table with no row, because `Insert` runs `insertIntoTable` first and never undoes it.
- **Bootstrap panic.** `MC_Bootstrap_NoPanic.cfg`: the entry `Client.Bootstrap` takes next should never be nil. B connects and announces itself. A's `Update` fails after `insertIntoTable`, B bootstraps, and A's `FindClosest` serves nil for the row-less address. `Client.Bootstrap` calls `i.Address.Equals` before its nil check and panics.
- **LRU eviction.** `MC_PeerManager_EvictsLeastRecentlySeen.cfg`: the LRU loop evicts the last key iterated, not the oldest.
- **Peer bound.** `MC_PeerManager_PeersEventuallyBounded.cfg`: a stale `peerSeen` key breaks the eviction loop, so peers stay above maxPeers for ever.
- **Served peers.** `handshake_served`: spec 4.7 says `ConnectPeerDirect` stores the peer, and spec 8.4 that live peers are tracked. `SetPeer` has no error result. When the Ping or Query of its `GetEntry` times out, `ConnectPeerDirect` still returns the peer as connected, with its `ListenStream` running, but not in `peers` and with no heartbeat. `HandleHandshake` starts `ListenStream` in the same state when its second `Entry` call succeeds.
- **Live peers.** `MC_PeerManager_LivePeersTracked.cfg`: a live session is dropped from `peers` by a heartbeat timeout, or by an older connection's deferred close of the same address.
- **Streams released.** `MC_Streams_Released.cfg`: spec 8 says a stream's round trip leaves the session's stream count unchanged. Suppose B's deadline passes before A's request arrives, or A gives up first. Then `HandleStream`'s read fails and it returns without closing its end. Only `RouteMessage` closes, so the stream stays half-open until the connection ends.
- **Limiter stop.** `limiter_stop`: `Limiter.Stop` blocks for ever on the unbuffered `quit`.
- **Resolver depth.** `resolver_chain` and `MC_Resolver_Wide.cfg`: two-hop targets are never resolved, and the shared depth stops after six local candidates.
- **Mirror resume.** `MC_Mirror_Resume.cfg`: a resumed mirror fails its hash check.
- **Bootstrap learns the reply.** `MC_Bootstrap_LearnsReply.cfg`: spec scenario 1 says that after Bootstrap the new node holds every node of the reply. `Client.Bootstrap` returns at the first failing `Insert`. If an entry's Seeds list names a node not yet stored, `InsertSeed` fails after the row is written, and the entries after it are dropped. Entries that A serves with a Seeding rebuilt from its seed table fail `Verify` and are skipped.
- **Mirror up to date.** `MC_Mirror_UpToDate.cfg`: when the collection is already up to date, `InsertPieces` is left blocked with a transaction open.
- **Failed insert.** `mirror_exec_fails`: `InsertPieces` closes `pieces` on a failed insert, and Mirror's next send panics.
- **Gzip failure.** `MC_Mirror_GzipFails.cfg`: a gzip failure ends with a nil error and nothing stored.
- **Failed request write.** `MC_Mirror_WriteFails.cfg`: the nil channel returned on a write error blocks Mirror for ever.
- **Reader blocked.** `MC_Mirror_ReadFails.cfg`: the reader goroutine blocks on a full channel after Mirror has given up.

For every property of a passing run, PROJECT.json lists a mutant: a plausible bug in one mapped definition, such as a dropped guard, a missing reset or an off-by-one. TLC finds each mutant's property violated.

## Bounds

- **NetDB:** W = 3 gives 8 addresses and 3 buckets. With K = 3, bucket 0 holds the four addresses 4..7, so it overflows, so the drop-tail branch and the aliasing in `FindClosest` both occur.
- **PeerManager:** two connections to two nodes with a limit of 1 reach every ordering of `SetPeer`'s check, set and eviction steps against a heartbeat or close. The violation cfgs use the same bounds: two tracked peers over a limit of 1 already give the eviction loop a choice.
- **Mirror:**
  - N = 5 posts with a piece size of 2 gives three pieces, the last one partial.
  - Channel capacities of 1 make the sends block.
  - Batch = 1 makes the `n == 99` mid-stream commit occur in every run.
  - The constant 99 is abstracted to Batch. The channel capacities of 100 are abstracted to RetCap and PiecesCap.
- **Handshake:** one connection is enough, because the code keeps no state across connections in this path (the PeerManager runs cover several). With both faults allowed, a drop or a timeout can happen before or after every step of both sides (132 states), so each error path of the setup is reached.
- **Bootstrap:**
  - W = 3 and K = 2, with A at 0, B at 1 and one other peer.
  - The other peer announces node 4, node 5 listing 4 as a seed, and a tampered node 6.
  - Node 5 served before 4 makes the seed failure occur.
  - The tampered entry makes the Verify skip occur. B's own entry, announced to A, makes the self skip occur.
  - A third verified entry makes the state space twenty times larger.
- **Streams:** three requests, as many as `ListenStream`'s burst of 3, so the fourth `Wait` (the failing Accept) can find the Throttle empty. Each stream is independent apart from the shared backlog and limiter, so more requests only repeat orderings already reached. The violation needs only one request.
- **Resolver:** Depth 6 and K 20 are the code's values. The wide network has seven local candidates, one more than the depth.

## Fairness

Go runs every runnable goroutine eventually, so each goroutine's steps are weakly fair. Each passing liveness run also relies on one assumption about its environment:

- **Limiter:** a running Ticker keeps firing.
- **Streams:** a deadline passes. A read or write blocked on a stream therefore eventually returns, which is what the 10 s deadlines of `OpenStream` and `ListenStream` guarantee. Losing the connection is not fair.
- **PeerManager:** a closed session makes its pending Ping fail.
- **Mirror:** the remote keeps sending.
- **Handshake:** a closed session makes Ping and Accept fail, and a side that gave up its setup never answers, so the other side's query eventually times out. A timeout on a live session (`GetEntryLate`, `HeartbeatSlow`) depends on the network and is not fair.

User choices are left unfair: whether a connection is made, and when an Accept fails.

## Deadlock checking

`CHECK_DEADLOCK FALSE` appears only where the program really stops:

- Resolver and Mirror runs end when the function and its goroutines have returned.
- A Handshake run ends when both setups are over. The heartbeats left running only ping successfully, which changes no modelled state.
- A Streams run ends when every request is done. `ListenStream` then waits in Accept, or, after the connection closed, in `Limiter.Stop`.
- In the Limiter, a session's limiter ends with both goroutines finished or blocked. Their blocking is what `StopReturns` is about.

NetDB, Bootstrap and PeerManager always have a next request, and their runs check deadlock. Bootstrap's runs are safety runs with no fairness.

## Not modelled

- The message codec, the HTTP API and the UI. These are conversions and I/O with no shared state.
- The legacy Peer of `part_002`, which nothing calls. Its own `Peer.Mirror` (lines 242-294) closes its pieces channel twice.
- The data race of DHT handlers that run concurrently on `ndb.table` (each accepted stream's `HandleStream` is its own goroutine, and nothing locks the table). Each handler is one step of NetDB.
- StreamManager's SOCKS dialling, which is socket I/O. Its session setup is part of Handshake, and `OpenStream` and `AddStream` are part of Streams. `GetStream` and `RemoveStream` have no caller.
- What each request handler computes. In Streams a handler either replies or does not, and NetDB models what the DHT handlers compute.
- Listen's rejection of a wrong preamble, which `continue`s without closing the socket. This is a property of sockets the models do not hold.
- The SeedManager and `announcePeer` loops. SeedManager is not in the repository. `announcePeer` only announces and marks the peer seen, on a ticker it never stops; it is a hazard with a note.
- `PeerLimiter`: `Setup` starts two limiters that nothing uses or stops. It is listed as a hazard.
- The search, recent and popular queries, which are single SQL statements.

Hazards without a property are listed with a note in PROJECT.json.

## Plan

Work for later sittings:

- Compose Handshake with PeerManager, so that two setups to the same address race through `SetPeer`'s `Has` check.
- The announce loop and seed list upkeep.
- `FindClosest` as a pure operator, checked against a sort-by-distance reference.
- A Directory-level view of Bootstrap: B's rows as a refinement of A's `dir` restricted to the reply.
