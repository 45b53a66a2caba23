# TLA+ specifications of the turbo gateway

The gateway connects an Ethereum node to a block distribution network (BDN). It
speaks the `eth` protocol with blockchain peers, keeps a small store of recent
blocks and the canonical chain among them, sends new canonical blocks to the BDN,
forwards blocks to its other peers in an order they can accept, and relays
transactions in both directions over TLS connections to relays. These specifications
cover the path of blocks and of transactions from the messages of a peer to the bytes
on the connection to a relay. All paths below are relative to `src/`.

## Inventory

| Component | State | Operations | Hard about it |
|---|---|---|---|
| Chain (`blockchain/eth/chain.go`) | `chainState`, headers by height, metadata, bodies, difficulties; `chainLock`, `headerLock` | `AddBlock`, `ConfirmBlock`, `MarkSentToBDN`, `InitializeDifficulty`, `SetTotalDifficulty`, `clean`, lookups | reorganizations on a list with duplicates; cleanup cuts one structure by height and another by length; two locks taken in both orders; map updates that are not atomic |
| Handler (`blockchain/eth/backend.go`) | none of its own between calls; several goroutines | `processBlock`, `confirmBlock`, `sendConfirmedBlocksToBDN`, `processBlockAnnouncement`, `awaitBlockResponse` | each call into Chain is a critical section of its own, handlers of several peers interleave between them |
| Peer (`blockchain/eth/peer.go`) | confirmed and sent head, queue of blocks, two channels, response queues | `blockLoop`, `UpdateHead`, `QueueNewBlock`, `Request*`, `NotifyResponse*`, `Disconnect`, `Stop` | order of sends; bounded channels between message loops; responses matched by order (ETH65) or ID (ETH66); timeouts |
| Message handlers (`handlers.go`, `protocol.go`) | the message being handled | one handler per message, `handleMessage` loop | the loop blocks inside a handler |
| Peer set (`peerset.go`) | map of peers | `register`, `unregister`, `get`, `getAll` | a peer listed before it was stopped |
| Bridge (`blockchain/bridge.go`) | channels between handler and gateway | `Send*`, `Receive*` | a full channel loses the message |
| Gateway (`nodes/gateway.go`, `nodes/base.go`) | list of connections, block processor, transaction store | `handleBridgeMessages`, `processTransaction`, `broadcast` | ignored errors, connections that come and go |
| Block processor (`services/block_processor.go`) | history of processed blocks | `BxBlockToBroadcast` | a block offered twice |
| Transaction store (`services/tbtxstore.go`, `hash_history.go`) | content by hash, hash by short ID, history | `Add`, `Get`, `Remove*`, `Clear`, `clean`, `Stop` | three maps without a common lock; removal in several steps against a concurrent `Add`; two passes of `clean` |
| Connections (`connections/`) | send channel, buffered writer, socket, read buffer, flags | `Connect`, `Send`, `sendLoop`, `readLoop`, `ReadMessages`, `Close`, `closeWithRetry` | what is left of an old socket when a new one is connected; reads that end anywhere in a message |
| BDN messages (`tbmessage/`) | - | `Pack`, `Unpack` of `Tx` and `Broadcast` | offsets added up separately on both sides; a timestamp that wraps |
| Logger (`logger/`) | channel of entries | `Write`, `Exit` | flush at exit |

Configuration, command lines, certificates, RLP conversion, types and the generated
gRPC code carry no protocol state and are not modelled.

Interactions: the message loop of each peer is a goroutine that calls the Handler,
which calls Chain, puts blocks on the Bridge and calls `QueueNewBlock` of the other
peers. The gateway's bridge loop takes blocks from the Bridge, through the Block
processor, to the relay connections. A timer calls `Chain.clean`. An announced block
is fetched by a goroutine of its own that waits for two responses, which the
message loop hands over.

Properties that make the parts correct: the canonical chain is one branch, is stored, is
confirmed and does not fall back; cleanup reaches everything and removes nothing
canonical; locks neither deadlock nor lose updates; a block that was marked as sent is not
sent again, the head is sent unless the channel is full, and every valid block goes to the
other peers; a
peer is sent only children of what it has; a response reaches the goroutine that asked;
message loops do not stop; a transaction is new once and goes one way; what is queued for
a relay goes out in order, on the connection it was queued for; messages are cut off the
stream where they were put together; the peer set holds the sessions that run.

## Modules

| Module | Models | EXTENDS |
|---|---|---|
| `BlockTree` | blocks as paths from genesis: a block *is* the sequence of branch choices that leads to it, so parent and height are operators | |
| `Chain` | `chain.go`, one action per operation | `BlockTree` |
| `ChainLocks` | the same store at the granularity of lock and map accesses | `BlockTree` |
| `BlockRelay` | handler, bridge, gateway and block processor, composed with the store | `Chain` |
| `PeerQueue` | `blockLoop` and the goroutines around it | `BlockTree` |
| `Requests` | requests, responses and the message loop of one peer | |
| `TxRegistry` | abstract: what the gateway relies on when it calls `Add` | |
| `TxStore` | transaction store and hash history, one step per map access or lock; implements `TxRegistry` | |
| `RelayConn` | connections to relays and the node's list of them | |
| `Gateway` | transactions through bridge, gateway and read loops | `RelayConn` |
| `TbMessage` | packing and unpacking as operators on buffers | |
| `Framing` | the stream of packed messages and its reader | `TbMessage` |
| `Peers` | sessions of blockchain nodes, peer set, broadcasts between sessions | |
| `RelayProofs` | theorems about `Chain`, and about `BlockRelay`, which composes it with the handlers | `BlockRelay`, TLAPS |
| `LocksProofs`, `PeerQueueProofs`, `RequestsProofs`, `TxStoreProofs`, `GatewayProofs`, `FramingProofs`, `PeersProofs` | theorems about the module of that name (`ChainLocks`, `PeerQueue`, ...) | that module, TLAPS |
| `MCChain`, `MCLocks`, `MCRelay`, `MCPeer`, `MCRequests`, `MCTxStore`, `MCGateway`, `MCFraming`, `MCPeers` | instances for TLC | |

Operators under a comment that describes a mistake (`RewindToPast`, `SkipHeaderLock`,
`StopAtSibling`, ...) are deliberately wrong variants of the definition that follows
them. Nothing uses them; putting one in place of that definition must make TLC report
the property that guards it, as listed under `mutants` in `PROJECT.json`.

### Chain

`chainState` is a sequence, newest first, as in the code. `heightToBlockHeaders`
becomes `headers` (blocks filed under their own number) and `statusHeads` (hashes that
`InitializeDifficulty` files under height 0, without a header). `metadata` maps a
block to its record or `None`; `bodies` and `difficulties` are sets of keys, since no
operation looks into the values. `updateChainState` keeps every branch of the code,
the missing `return` after the branch for a direct child included: `base` is the
prepended chain and the reconciliation prepends again. Its search for a common
ancestor is `ForkIndex`, its result the chain and the count of new heads. `clean`
evicts by height and truncates by length. A cleanup that finds too few heights changes
nothing and is not an action.

`AddBlock` with source `BSBDN` is modelled although `NewHandler` does not start
`handleBDNBridge`, its only caller today. The head that a Status message names may be
delivered as a block too: `PeerHeads` is a parameter, and `named` a history of the heads
that were named. `clean` treats such a block as one of height 0, so the properties about
what stays stored exempt the blocks in `named`, and only those. `GetHeaders` starts at a
number (`ByNumber`) or at a hash (`ByHash`); after a hash it goes on with the canonical
headers of the next heights, whether or not the block of the hash is canonical.

### ChainLocks

A goroutine runs one operation at a time, of those that hold `chainLock` (`Locking`) and of
those that write without it (`InitializeDifficulty` and the handler's
`storeBlockMetadata`), and takes one step per lock or map access. A
cmap call is atomic. `clean` may evict below any height here (what it computes is the
subject of `Chain`). `chainLock` is held by writers only in this part of the code;
`headerLock` has readers and a writer. The writer preference of `sync.RWMutex` is not
modelled. `clean`'s body is one step once it has both locks. `marks` is a history: the
blocks whose sent mark nobody has had the right to remove.

### BlockRelay

A handler takes one step per call into Chain: validate, add or confirm, fetch the new
heads, send and mark each one, confirm the block at depth, broadcast. What the handler does
to the metadata of a confirmed block takes four: it reads it before it sends the message
(`confirmToGateway`), and `storeBlockMetadata`, which holds no lock here, is `SetIfAbsent`
(`storeConfirmedMsgSent`), `Get` (`rereadMetadata`) and `Set` (`mergeMetadata`). Between
two steps any other handler, the gateway or a cleanup may run. A full channel loses a
block, as `SendBlockToBDN` returns `ErrChannelFull`. `confirmedBlockFromNode` has no
receiver in the code and therefore fills up. `sent`, `refused` (the blocks that
`ErrChannelFull` kept off the channel), `marked`, `relayed` and `forwarded` are histories
for the properties. A block with a timestamp that is too old, and one that cannot be
converted, behave like a message that was not received. The ten minute expiry of the block
processor's history is not modelled. Neither is the second `storeBlock` of a difficulty
that a cleanup removed between `SetTotalDifficulty` and `AddBlock`, nor what the send loop
does with the nil message of a block that was processed before (below).

### PeerQueue

The three cases of `blockLoop`'s `select`, the channels it reads, the confirmation
goroutines it starts, and the end of the peer. `ScanEnd`, `Siblings` and `Breakpoint`
are the scan of the queue for a new head, `InsertionPoint` the search for the place of
a new block, without the `break` it lacks in the code. `Disconnect` makes `send`
report success; a connection lost by other means makes it fail.

### Requests

The message loop (`loop`) reads announcements and responses in the order in which the
peer sent them. Registering a channel and sending the request are separate steps.
`responseQueue` is a bounded queue (ETH65), `responseQueue66` a map (ETH66). A send on
an unbuffered channel is a joint step of the loop and the receiver (`Deliver`), enabled
only while the receiver waits. Receivers time out, except the goroutine of an ancient
query, which has no timeout. The peer answers requests in order, with what was asked
for or with an empty list. `processBlockComponents` panics when exactly one of header
and body is missing, because its length check uses `&&`, and an ancient query when the
answer has another type (`Panicked`). Announcements, confirmations and ancient queries
request from peers of both versions. At an ETH65 peer a goroutine may send its request
ahead of one that was registered before it: `unsent` and `crossed` are a history of that.
`UpdateHead`, which may hold up the loop as well, is in `Peers`.

### TxStore and TxRegistry

`hashToContent` holds the number of the object that is stored for a hash, because a
goroutine may go on with an object that was removed and replaced. `txIDToHash` is a set
of keys: a short ID is assigned to one transaction (`AssignedTo`). `seenTxs` is the
history with its expirations. Every goroutine has a record of local variables, `at`. An
`Add` takes a step for the history, for `SetIfAbsent`, for the lock of the object, for
what it reads, for what it writes and for the index; a removal for `Pop`, for each short
ID and for the history; `clean` for its first pass, its snapshot and every visit. An
iteration over a concurrent map works on an atomic snapshot, and `Pop` includes reading
the short IDs of the object. `late`, `shared` and `mixed` are histories: they name the
transactions to which the conditions of the properties apply. `Add` with neither content
nor ID panics and is not called; the gateway's assigner gives no IDs and
`cleanedTxIDsChannel` is nil.

`TxRegistry` has three actions: a transaction comes in, its content is announced, at
most once for each time it came in, and transactions are dropped. The registry keeps the
number of stays because `processTransaction` forwards what is announced.

### RelayConn and Gateway

Per relay `RelayConn` has the goroutine `readLoop`, which connects, reads, fails and
connects again, and one send loop per socket. A message carries the number of the socket
it was queued for. `Send` on a full channel closes the connection. A failed flush ends
the send loop and leaves the connection open. A connection that never connected has the
same empty ID as every other such connection (`SameID`). `close` is one step and a
cancelled send loop has returned before the next `Connect`, which comes at least
`connTimeout` later. `Connect` with its new socket is one step (`Connected`): the code sets
`connectionOpen` before the channel and the cancel function of the send loop
(`sslconn.go:162-166`), and a `Send` in between meets the old ones, or nil ones the first
time. `connections` is `Base.Connections`, with `broadcast` over it.

`Gateway` adds the transaction channels of the bridge, the loop of
`handleBridgeMessages`, `processTransaction` from both sides and the peers' handlers that
fill the bridge. The store appears by its promise. `transactionsFromBDN` has no receiver
in the program and fills up.

### TbMessage and Framing

A buffer is a function from positions to bytes, a byte a symbol of the field it belongs
to (or a number where the reader computes with it), so a wrong offset shows as a symbol
in the wrong field. Field lengths are those of `constants.go`. `Window` is the range of a
short timestamp and `Hour` the threshold of the receiver, both scaled (2^32 ticks of 1024
ns and one hour in the code).

`Framing` delivers the stream in chunks. `ends` records where in it each message ends,
which is what the sender knows; the reader has only the bytes (`Wire`).
`FramingAssumption` says of the messages what their constructors give them: lengths that
are numbers, and a content of at least 8 bytes, because `Tx.Unpack` slices out of range on
a shorter one. A signed transaction is longer. `ReadMessages` and the loop of
`cmd/relay/main.go` are the same loop and share the actions. The buffer survives a
reconnect; if it holds the rest of a message then, `torn` is set and the model stops,
since from there on the reader takes content for headers.

### Peers

A session is one `*Peer`. Its `Run` goes through handshake, `register`, the message loop,
`Stop` and `unregister`. The message loop reads a block, an announcement or a response
(`ReadMsg`) and reports its head first (`UpdateHead`), which waits while `newHeadCh` is
full. Then it broadcasts the block, or starts a fetch for an announced one, or hands the
response to the fetch that asked for it, which waits for a receiver (`NotifyResponse`). A
fetch is `awaitBlockResponse`: it gives up after a timeout and disconnects its session, or
broadcasts the block itself, also when its session has ended by then. A broadcast takes the
list of `getAll`, without the session that the block came on (`Origin`), and serves one
session after the other, by queueing on `newBlockCh` or by a direct send.
`handleBDNBridge` is an actor of its own; the program does not start it today, so the model
has more behaviours than the program. Sessions of one node may overlap. `Server.Stop`
cancels all contexts at once. Header and body of a fetch are one response here, and a
registration on a full `responseQueue` is a choice (`"register"`), since both are the
subject of `Requests`.

## Runs

| Run | Result | Instance | What it shows |
|---|---|---|---|
| `chain` | pass, ~96k states | 6 blocks: trunk of 3, longer fork from height 2; limit of 2 heights; a Status message names a block of the trunk | the store invariants `ChainInv`, `MetadataReachable`, `CanonicalStored`, `HeadConfirmed`, `HeadersAnswerLinked` and `BestHeightMonotonic` for every sequence of operations |
| `chain_status` | violation | the same | `ChainStateStored`: `clean` takes metadata and body of a canonical block that a Status message named |
| `locks_all` | pass, ~2.9M | 2 goroutines, 2 blocks of one height, all operations | `LocksInv`: `clean` never overlaps the update of a header list; `HeadersOnlyCleaned`: no operation under `chainLock` loses a header; `MarksKept`: none loses a mark |
| `locks_deadlock` | violation | 2 goroutines, `AddBlock` and `clean` | the two lock orders meet |
| `relay_two` | pass, ~621k | 2 handlers, 2 blocks, one of them named by a Status message, channel for 1, cleanups | `RelayInv`: one relayed copy per block, channels within capacity; `HeadSent`: handlers that replace the head and read the chain back in any order leave no head unsent that the channel had room for; `MarkedNotResent`: what was marked is not read back again; `LeakedOnlyConfirmed`: which metadata can escape cleanup; `BlockForwarded`: a lost block still goes to the peers |
| `peer` | pass, ~193k | 2 forks, queue of 3, channels for 1 | children of the confirmed head only, at heights that never fall; no future block pruned; channels drain |
| `requests` | pass, ~212k | both versions: 2 announced blocks (ETH66: 1), a confirmation, an ancient query, queue of 3 | `RequestsInv`: registered before answered; `FetchedOwnBlock`: a fetch gets what it asked for, unless ETH65 requests crossed; `LoopReads`: the loop reads again but for two named places |
| `txstore` | pass, ~800k | 2 transactions, one with a short ID, 2 calling goroutines, 2 calls, 2 ticks, size limit 1 | `TxStoreInv`: the three maps agree; `ImplementsRegistry`; `clean` panics only on a late transaction; old ones leave |
| `gateway` | pass, ~85k | a relay that connects twice, one that never does, 2 transactions, all channels for 1 | `GatewayInv`: no message of an old socket, complete list; order of broadcast; one way per transaction; reconnects; queues drain |
| `wire` | pass, ~5k | 3 transactions and 2 blocks, 2 messages per socket, chunks of 20, 77 and 4096 bytes | `WireInv`: frames aligned, nothing held back; fields and timestamps recovered; what is sent arrives |
| `wire_tx` | violation | the same | `TxContentArrives`: the content of a transaction loses its last 8 bytes |
| `peers` | pass, ~145k | 2 nodes, one connects twice, one fetch, channels for 1, 2 messages | `PeersInv`: the peer set holds the running sessions, a block goes back to its node only after the session it came on has ended; `BroadcastEnds`, `LostIsReleased`: what a broadcast or a lost session can wait for in vain |

Invariants are conjunctions of named parts: `LocksInv`, `RelayInv`, `RequestsInv`,
`TxStoreInv`, `GatewayInv`, `WireInv` and `PeersInv` each join a type invariant, which
bounds the channels, with the parts named beside it in the module.

Bounds. Branching, gaps, reorganizations, duplicates and cleanups of `Chain` all happen
with a trunk of three, a fork of two and a limit of two heights; the proofs remove the
bounds for the invariants that they cover. The Status message of `chain` names a block of
the trunk, which is delivered, evicted and delivered again like the others. In `relay_two`
a reorganization goes back as far as `clean` keeps heights (`MaxReorg = MaxSize = 1`), the
limit of what the assumption allows, and nothing bounds the messages. Two goroutines or
handlers are enough for every pair of critical sections. The capacity of channels is
scaled down from 10 (or 1000) to values at which they fill. `MaxSent` of `wire` stops new
messages, not the handling of old ones. Two blocks of one height, or two forks, are needed
where siblings matter and are there. In `requests` three goroutines request from a peer of
either version, and a queue of three is full after two announced blocks. Two calls are
enough in `txstore` for an `Add` against an `Add`, a removal or a `Clear`, with the cleaner
as a third goroutine; the timestamp passed to `Add` is one tick old, so that with
two ticks a transaction can be younger than `NoTxIDAge`, between the limits, and older
than `MaxTxAge`. In `gateway` one socket follows another on `r1`, and `r2` only ever
fails, which is what the comparison of IDs needs. In `wire` a chunk of 20 is one header,
77 ends inside messages, and 4096 takes everything; the times of the messages are on both
sides of the end of a window, and the shortest content has 8 bytes, because `Unpack`
panics below. In `peers` a second session may start at any time after the first. Messages
come on the first session of the first node (`Speakers`) and, as the first of the two, from
the bridge (`MaxBridge`). With channels for one, two messages (an announcement and its
response, or two blocks) are enough for every wait named in `LostIsReleased` and for a block
that goes back to its node; TLC reaches each of them.

Deadlock. `chain` and `gateway` have no final state and are checked for deadlock. In the
other runs the system may stop: peers owe no message, `MaxSent` and the like are bounds, a
connection may end, and a handler may wait on a full channel of a stopped peer. There the
liveness properties say what must not stop.

Fairness. `BlockRelay` and `Requests`: weak fairness of each goroutine that can take a
step (the Go scheduler) and of timers; nothing for peers. `PeerQueue`: weak fairness of
each case of `blockLoop`'s `select`, which chooses at random among the ready ones, of
tickers, and of `Stop` once the connection is closed, because `ReadMsg` then fails.
`ChainLocks`: strong fairness per goroutine, because a Go mutex in starvation mode hands
over to the waiter at the head of its queue, so a lock that is free again and again is
eventually acquired. `LoopReads` needs no answer from the peer. `TxStore`: weak fairness
of the cleanup goroutine, which a ticker wakes; none for callers, for the history's
cleanup or for time. `Gateway`: weak fairness of the bridge loop and of read and send
loop of each connection (sleeps and deadlines end); none for peers, relays or failures.
`Framing`: weak fairness of reading while bytes are there, and of handling. `Peers`: weak
fairness of each session's `Run` (a reader learns of a lost connection, a message that was
read is handled), of each block loop, of each fetch, which has a timeout, and of the
broadcast of the bridge loop; none for connections, messages and `Server.Stop`.

## Refinement

`TxStore` implements `TxRegistry`: `live` is the set of stored transactions, `stays` and
`announced` are the histories of the same name. TLC checks `ImplementsRegistry` on the
instance of `txstore`, and `StoreImplementsRegistry` proves it for any number of callers,
transactions, short IDs and calls, with all overlaps of operations, the ones excluded
from `IDsConsistent` included. A `Pop` or the first half of `Clear` is a `Drop`,
`SetIfAbsent` an `Insert`, the write under the object's lock an `Announce`; all other
steps stutter. It is the lock that makes the second of two `Add`s see the content of the
first. `Gateway` uses the store by this promise, with transactions that do not leave.

## Proofs

Every theorem is for all values of the constants that satisfy the assumption named
`...Assumption` in the module that declares them (limits are positive, the tree of blocks
is closed under parents, sets that are listed are finite, `None` is not an element of the
sets it is told apart from), and for any number of goroutines, blocks, nodes, relays or
transactions. Hypotheses beyond these are in the theorem's ASSUME and are explained here.
The instances that TLC checks satisfy them, so no hypothesis is empty.

### RelayProofs: Chain

- `ChainInvariant`: `Spec => []ChainInv`, with `ChainTypeOK`, `ChainStaysLinked` and
  `CleanKeepsHeaders` as consequences;
- `HeadNeverFalls`: `Spec => BestHeightMonotonic`;
- `MetadataStaysReachable`: `Spec => []MetadataReachable`;
- `CanonicalBlocksStored`, `HeadStaysConfirmed`, `AnswersLinked`: `CanonicalStored`,
  `HeadConfirmed` and `HeadersAnswerLinked`, for every `PeerHeads`.

`HeadersStored` is not inductive: `clean` drops headers by height and entries by
length, and the two agree only because an entry at index `i` is at most `i - 1` below
the head (`EntriesNearHead`). That in turn needs the chain to be linked up to
duplicates (`ChainLinked`). `MetadataReachable` needs `BodiesHaveHeaders`, because
`AddBlock` does not store a block again that `HasBlock` reports. Hence
`ChainInv = TypeOK /\ BodiesHaveHeaders /\ HeadersStored /\ ChainLinked /\ EntriesNearHead`.

The argument: `JoinGood`, `PrependGood` and `PathGood` say when a concatenation of
pieces of branches is a good chain; `ForkIndexFacts` and `ReorganizeGood` apply this to
a reorganization; `UpdateGood` covers all branches of `updateChainState` and shows that
the result, where it changes, has a head at least as high; then there is one lemma per
action and `StepInv` puts them together.

The last three theorems rest on `EntriesInv`: a stored header has metadata and body
(`EntriesComplete`) and the head has its confirmation (`HeadTrusted`), both for blocks
that no Status message has named. A block that was named *and* delivered is filed under two
heights, and `clean` takes its metadata and body with the lower one; that is the violation
of `chain_status`, and the reason for the history `named`.

### RelayProofs: BlockRelay

- `RelayInvariant`: `RelaySpec => [](RelayInv /\ ChainInv)` for any number of handlers
  between whose calls others and cleanups run. It reuses the lemmas about `Chain` for
  each call into the store; the handlers add what they have in hand at each step
  (`HandlersFit`) and that what was relayed is in the block processor's history
  (`RelayedProcessed`).
- `MarkedBlocksNotResent`: `RelaySpec => MarkedNotResent`.
- `LeaksOnlyConfirmed`: `RelaySpec => []LeakedOnlyConfirmed`.
- `HeadIsSent`: `RelaySpec => []HeadSent`.

All for any number of handlers and every `PeerHeads`. `RelayAssumption` has
`MaxReorg <= MaxSize` (20 and 500 in `chain.go:21-23`).

`MarkedBlocksNotResent` needs `MarksInv`: a block of `marked` has its mark, or is `Gone`,
that is, not canonical and at least `MaxReorg` below the head, and what a handler is about
to write back has the mark (`WritersSettled`). The mark itself does not last: `clean`
removes it with the block's metadata, and the block may be delivered again. It is not read
back then because `updateChainState` never makes an entry canonical that is further than
`MaxReorg` below the old head (`UpdateShape`, which also shows that the counted heads are
distinct in spite of duplicate entries). With `MaxReorg > MaxSize` a block can be evicted
while a reorganization still reaches it, and TLC finds one that is sent twice (trunk of 4,
fork of 4, `MaxReorg = 6`, `MaxSize = 2`). `marked` leaves out a mark that was set while
another handler was between `Get` and `Set` of the same entry: that one is lost (below).

`LeaksOnlyConfirmed` takes up `MetadataReachable` where handlers interleave. There it is
false, because the unlocked write-back can revive an entry that `clean` removed; it has
the flag that the handler is storing (`StoresConfirmed`), and no other step leaks.

`HeadIsSent` needs `HeadInv`, with `EntriesInv` and `MarkedWereSent`. A handler that has made
a head may find, when it reads the chain back, the head of another one, so no handler can be
held to its own block. What holds is that some handler is `Pending`: it has counted a new
head and not read the chain yet, or it has the present head in hand (`HeadOnItsWay`). This
is passed on because a call that changes the chain always counts at least one new head
(`NewHeadCounted`), and because what stops `GetNewHeadsForBDN` at the head is only a mark,
which stands for a block that was sent (`MarkedWereSent`); that a head has an entry and a
body to send is `EntriesInv`, from which the exemption of `named` comes. The theorem is
about the head alone: the same for every canonical block is false (below).

### LocksProofs

- `LocksInvariant`: `LocksSpec => []LocksInv`, from who holds which lock at which step
  (`OwnersInv`).
- `HeadersStay`: `LocksSpec => HeadersOnlyCleaned`, if `<<>> \notin Arguments`: no peer
  sends the genesis block as a new block. With it `AddBlock` would share height 0 with
  `InitializeDifficulty`, which reads and writes the list without `chainLock`. Inductive
  part `HeadersFresh`: what `AddBlock` is about to write back is still all that is there.
- `MarksStay`: `LocksSpec => []MarksKept`, for all operations, with and without
  `chainLock`. Inductive part `MarksFresh`: what a goroutine that holds `chainLock` has read
  still has the mark. `InitializeDifficulty` and the handler's own `storeBlockMetadata` do
  lose marks (below), which is why they end a block's stay in `marks`.

### PeerQueueProofs

- `PeerTypes`: `PeerTypeOK`. The scan of the queue computes indexes; `ScanEndFacts`,
  `BreakpointFacts` and `InsertedFacts` show that they are in range for every queue,
  sorted or not.
- `ParentsFirst`: `SentAfterParent`, an action property.
- `HeightsNeverFall`: `SentNeverFalls`, from `SentInv` (the last block sent is at most one
  above the confirmed head and not above `sentHead`), if `ConfigHead = <<>>`: all presets
  of `network/preset.go` have the genesis hash as head, with height 0.
- `FutureBlocksStay`: `FutureBlocksKept`, an action property.

### RequestsProofs

- `FetchesOwnBlock`: `RequestsSpec => []FetchedOwnBlock`, whatever goroutines request.
  Inductive invariant `ChannelsInv`. Its core is `OrderKept`: the responses in the inbox,
  the requests on the wire and the ones that are registered and not sent answer exactly the
  channels in `responseQueue`; announcements between them have no place. They do so in
  order as long as nothing crossed, and in number always.
- `ResponsesExpected`: `RequestsInv`, if every block is announced once (`AnnouncedOnce`):
  the model names a request by its block, where the code draws a random ID for each.
  `IDsInv` adds for ETH66 that no ID is in flight twice and that an ID in flight is
  registered. With an ETH65 peer a response finds a channel even after requests crossed,
  though not its own.

### TxStoreProofs

- `StoreInvariant`: `TxSpec => []StoreInv`: types, what each goroutine holds at each step
  (`LocalsFit`), no two holders of an object's lock (`Exclusive`), room for the objects
  that pending calls may store (`SlotsLeft`), timestamps, and one announcement for each
  object with content (`ContentCounted`).
- `StoreImplementsRegistry`: the refinement above. An `Announce` needs
  `announced < stays`, which is `ContentCounted` and the fact that the object of the
  announcing goroutine still has no content.
- `PanicsOnlyLate`: `CleanPanicsOnlyLate`, from `ScanFits`: when the first pass found
  nothing, what the second pass may find is young or late.
- `MapsAgree`: `TxSpec => []TxStoreInv`.

`IDsConsistent` and `StoredOrSeen` speak of a transaction on which nobody is at work, so
they say nothing about the states in between. `RolesInv` relates what each goroutine still
has to do to the maps. For every goroutine (`RolesFit`): a short ID in its hands is assigned
to its hash, and one it is about to index is written in the object. For a hash outside
`mixed` (`Separate`): no `Add` runs while a removal does, an `Add` works on the object that
is stored, and the index has exactly the IDs of that object but for those a removal is about
to take out or an `Add` to put in (`IDsAgree`). For a hash outside `shared` (`Apart`): one
operation at a time, the transaction is not both stored and in the history, and the
operation that is under way knows which of the two it is not. When nobody is at work these
become `TxStoreInv`. The two histories are needed: outside of them the maps do disagree
(below).

### GatewayProofs

- `GatewayInvariant`, `BroadcastOrder`, `OneWay`: `GatewayInv`, `InBroadcastOrder` and
  `GoesOneWay`. One inductive invariant, `GatewayFits`: where the read loop is says
  which socket there is (`LoopFits`); what is on its way to an open connection was queued
  for its socket and keeps the order of the broadcasts (`QueueFits`); what was sent
  anywhere is in the store and was sent once (`WayFits`).

### FramingProofs

- `FramesCut`: `WireSpec => []WireInv`: whatever chunks the stream arrives in, the reader
  cuts it where the sender put it together, and no complete message stays in the buffer.
- `BroadcastsArrive`, `TxPrefixesArrive`: `BroadcastsIntact` and `TxPrefixArrives`, for
  messages of every length.
- `TimestampsRecovered`: `TimestampRecovered`, for every window, hour and unit that
  `TimeAssumption` allows: the window is a number of units and between one hour and two.

The first part is about `TbMessage`. `Pack` is a sequence of writes into a buffer of the
computed size, where a later one may cover an earlier one, as the end of a `Tx` covers its
control byte, and what does not fit is left out. `LastWrite` says what is at a position
after all of them; `HeaderKept`, `TxHeld` and `BroadcastHeld` apply it to each field, and
`TxRead` and `BroadcastRead` show what `Unpack` reads back at its own offsets. `TimeRecovered` is arithmetic: the receiver puts
the low bits into its own window and moves by at most one window, and under the bound on
the delay that is the sender's.

The second part is the reader. `WireInv` is not inductive: that the bytes at the front of
the buffer are those of the next message needs the place of every message in the stream.
Hence `ReaderInv = WireInv /\ EndsFollow /\ EndsRise /\ ArrivedInOrder`: each message ends its
size behind the one before, ends never fall, and the `i`-th message received is the `i`-th
one sent, unpacked at some reading of the clock. `FrontMessage` turns this into the fact
that the reader sees the next header where it looks for it, and `FrontUnpacked` into what
it makes of the message.

### PeersProofs

- `PeersInvariant`: `PeersSpec => []PeersInv`, which becomes inductive with `Keyed` (the
  peer set is keyed by the node of the session it holds) and `Spawned` (the session of a
  fetch was registered when the fetch began, so it is registered still or has ended).

### Only model-checked

- All liveness (`BlockForwarded`, `ChannelDrains`, `LoopReads`,
  `OldTxsLeave`, `Reconnects`, `QueueDrains`, `SentArrives`, `BroadcastEnds`,
  `LostIsReleased`): fairness and `ENABLED` are out of the prover's reach.

Every invariant and every safety property of a passing run is stated by a theorem. No
theorem depends on a recursive operator. The proofs of `LocksProofs` showed that the
cases of the action for `chainLock` overlapped and that `HeadersOnlyCleaned` accepted a
loss in a step of one goroutine because of where another one was; both are corrected in
`ChainLocks`.

## Disagreements between code and comments

The findings in `PROJECT.json` are the deadlock of `chainLock` and `headerLock`
(`locks_deadlock`), the canonical block that loses metadata and body because a Status
message named it (`chain_status`: `chain.go:681` against `chain.go:187` "should never be
triggered"), and the content of a transaction that arrives without its last 8 bytes
(`wire_tx`: `tx.go:142` against `tx.go:43`). TLC also reached the following in variants of the instances above, or
the models show them directly; they are kept here and not as runs.

Blocks:

- A child of the head is put into `chainState` twice (`chain.go:414`), so `BlockAtDepth`
  returns the head for depth 1 (`chain.go:385`).
- A canonical block is never sent when it comes after its child has become the root of
  the chain and a later reorganization puts it below the child: `GetNewHeadsForBDN` stops at
  the child, which was sent (`chain.go:193`, "blocks have previously been sent to BDN, ok to
  stop here"). One handler is enough, with a trunk of 3, a fork of 2 at its second block,
  and a channel that does not fill.
- Two handlers that overlap may leave a canonical block below the head unsent: the first
  reads one head and finds the other handler's, marks it, and the second stops there
  (`backend.go:163`; `chain.go:172`).
- Blocks are queued for a peer in an order in which a block the peer is ready for stays
  in the queue (`peer.go:230`, `:361`).
- A response that comes after its receiver's timeout blocks the message loop
  (`peer.go:347`, `:124`).
- A reorganization passes the common ancestor when duplicates shift the indexes of
  `chainState`, and gives up (`chain.go:460`, "we iterate backward until we find a
  common ancestor").
- `clean` evicts height 0, and with it the difficulty that a Status message brought
  (`chain.go:270` "never GC'ed"). The head of the chain can lose its confirmation that way.
- A query that starts at the hash of a block off the canonical chain is answered with its
  header and then with canonical ones that are not its children (`chain.go:340`).
- Two handshakes lose a header filed at height 0 (`chain.go:599`); the unlocked
  `storeBlockMetadata` of the handler takes back a sent mark (`backend.go:392`) or
  brings back an entry that `clean` has pruned.
- Two handlers send one block twice, or a block before its parent, or confirm it twice
  (`backend.go:350`, `:363`, `:382`). The gateway then broadcasts the nil `*Broadcast` that
  `BxBlockToBroadcast` returns with `ErrAlreadyProcessed` (`nodes/gateway.go:219`), and the
  send loop of a relay that packs it would panic.
- One handler sends each block once only because `maxReorgLength` (20) is not larger than
  `maxSize` (500): were it larger, a block that was sent could be evicted, delivered
  again and sent again after a reorganization.
- After `Disconnect`, `send` reports success, so a confirmation goroutine retries for
  ever although "Stop shuts down the running goroutines" (`peer.go:135`, `:541`).
- ETH65: a confirmation goroutine that registers before and sends after a
  `RequestBlock` shifts all responses by one (`peer.go:330`): a fetch ends with a part of
  another request, and the goroutine of an ancient query panics on a body
  (`handlers.go:27`). Six unanswered announcements fill `responseQueue`, which only the
  waiting loop itself would drain (`peer.go:557`).
- A block goes back to its node, on the node's next session, when the goroutine that
  fetched it outlives the session it asked on (`backend.go:191`, `:526`).
- A header without a body, or the reverse, passes the length check and panics
  (`backend.go:237`).
- A handler waits for ever on the full channel of a stopped peer (`peer.go:367`), a message
  loop on its own full `newHeadCh` when `Server.Stop` has ended its block loop
  (`peer.go:355`).
  `Server.Stop` cancels the contexts first (`server.go:85`) and may not return.

Transactions:

- An `Add` that overlaps a removal of the same transaction leaves a short ID that leads
  to no content (`tbtxstore.go:81`), and a refresh that overlaps a removal leaves a stored
  transaction in the history.
- `HashHistory.clean` removes an entry that was renewed after it had expired
  (`hash_history.go:82`); the transaction can then be taken in again too early.
- The second pass of `clean` uses a nil counter for a network that had no transaction in
  the first pass (`tbtxstore.go:263`).
- "cleanup will bring it back to TxStoreMaxSize" (`tbtxstore.go:16`): ages are compared in
  whole seconds, so transactions of one second stay or go together.
- `transactionsFromBDN` has no receiver, and `handleBDNBridge` is not started although
  `NewHandler` "starts its processing goroutines" (`backend.go:46`).

Connections:

- A connection registers with the node once. `closeWithRetry` takes it off the list
  (`tbconn.go:131`), and after the next `Connect` it is not put back, so it gets no
  broadcasts although "we auto-recover on disconnect" (`tbconn.go:78`).
- A failed flush ends the send loop and not the connection (`sslconn.go:84`); messages
  are accepted until the channel is full. `Send` on a full channel closes the connection
  and returns nil.
- `DisconnectConn` and `OnConnClosed` compare IDs that are empty for every connection
  that failed.
- The read buffer is not reset by `Connect`: after a reconnect in the middle of a message
  the reader is out of step. The relay's main loop ignores read errors.
- With the last 8 bytes of the content, the sender and the control byte ("the final byte of
  all messages", `constants.go:10`) of a `Tx` do not arrive either, and a content of fewer
  than 8 bytes panics.
- A `Send` between the lines of `Connect` (`sslconn.go:162-166`) meets the channel of the
  last socket, or nil ones.

## Plan

Done, in this order: `Chain`, `ChainLocks`, `BlockRelay`, `PeerQueue`, `Requests`, `TxStore`
with its refinement, `RelayConn`, `Gateway`, `TbMessage`, `Framing`, `Peers`, and a theorem
for every safety property of a passing run.

What is left: the liveness properties stay with TLC until a prover takes them, and the
disagreements above stay as text until the code is changed. When it is, the variants named
there become runs. If `GetNewHeadsForBDN` passed over entries that were sent instead of
stopping at the first, one handler should send every canonical block, and `MarksInv` is
what to prove it from. If the handler stored its flag under `chainLock`, `MetadataReachable`
should hold of `BlockRelay`, and `MarkedNotResent` without its second exception.

## Not modelled

- RLP and p2p internals of go-ethereum (external), TLS, key files and certificates.
- The logger: it formats and writes text, and nothing depends on it.
- JSON and RLP encodings of transactions and blocks (`types/`, `converter.go`): values
  without state.
- Command lines, configuration, network presets, and the generated gRPC code.
- `nodes/grpc_gateway.go`, which has the same text as `gateway.go`.
- `processTransactionHashes` and `checkInitialBlockchainLiveliness`, which are never
  called; the asynchronous handler and the short ID assigner, which the gateway does not
  use.
- The unlocked read of `chainState` in `BlockAtDepth` is treated as atomic: a torn slice
  header is below the granularity of these models.
