------------------------------ MODULE PeerQueue ------------------------------
(***************************************************************************)
(* The blocks queued for one blockchain peer: blockLoop, UpdateHead,       *)
(* QueueNewBlock and sendNewBlock of blockchain/eth/peer.go.               *)
(*                                                                         *)
(* blockLoop is the only goroutine that touches the queue.  The peer's own *)
(* message loop reports heads on newHeadCh, the handlers of other peers    *)
(* offer blocks on newBlockCh, and the select picks any channel that is    *)
(* ready.  Each block sent starts a goroutine that asks the peer for its   *)
(* header until the peer has confirmed a block of that height.             *)
(*                                                                         *)
(* Of sentHead only the height is ever read.                               *)
(***************************************************************************)
EXTENDS BlockTree

CONSTANTS
    Offered,          \* the blocks that broadcastBlock offers to the peer
    ReportedHeads,    \* the heads the peer reports (messages it sends)
    HeaderPackets,    \* the lists of headers or announcements it sends
    ConfigHead,       \* config.Head, the hash in the gateway's Status message
    HeadBacklog,      \* headChannelBacklog
    BlockBacklog,     \* blockChannelBacklog
    BlockQueueMaxSize,
    None

ASSUME PeerAssumption ==
    /\ Offered \subseteq Blocks \ {<<>>}
    /\ ReportedHeads \subseteq Blocks
    /\ HeaderPackets \subseteq Seq(ReportedHeads)
    /\ ConfigHead \in Blocks
    /\ HeadBacklog \in Nat \ {0}
    /\ BlockBacklog \in Nat \ {0}
    /\ BlockQueueMaxSize \in Nat \ {0}
    /\ None \notin Blocks

VARIABLES
    confirmedHead,  \* height and hash
    sentHead,       \* sentHead.height
    queuedBlocks,
    newHeadCh,
    newBlockCh,
    lastSent,       \* the last NewBlock message the peer was sent
    confirmers,     \* blocks with a running confirmation goroutine
    connected,      \* the p2p connection is up
    disconnected,   \* Disconnect was called
    stopped,        \* ctx is cancelled
    looping         \* blockLoop has not returned

link == <<connected, disconnected, stopped, looping>>
peerVars == <<confirmedHead, sentHead, queuedBlocks, newHeadCh, newBlockCh, lastSent,
              confirmers, link>>

PeerTypeOK ==
    /\ confirmedHead \in [height : Nat, hash : Blocks]
    /\ sentHead \in Nat
    /\ queuedBlocks \in Seq(Offered) /\ Len(queuedBlocks) <= BlockQueueMaxSize
    /\ newHeadCh \in Seq(ReportedHeads) /\ Len(newHeadCh) <= HeadBacklog
    /\ newBlockCh \in Seq(Offered) /\ Len(newBlockCh) <= BlockBacklog
    /\ lastSent \in Offered \cup {None}
    /\ confirmers \subseteq Offered
    /\ link \in BOOLEAN \X BOOLEAN \X BOOLEAN \X BOOLEAN

\* Handshake sets the hash of confirmedHead and leaves its height 0.
PeerInit ==
    /\ confirmedHead = [height |-> 0, hash |-> ConfigHead]
    /\ sentHead = 0
    /\ queuedBlocks = <<>>
    /\ newHeadCh = <<>>
    /\ newBlockCh = <<>>
    /\ lastSent = None
    /\ confirmers = {}
    /\ connected = TRUE
    /\ disconnected = FALSE
    /\ stopped = FALSE
    /\ looping = TRUE

-----------------------------------------------------------------------------
(* The queue.                                                              *)

NextHeight(b, head) == Height(b) = head.height + 1
IsNextBlock(b, head) == NextHeight(b, head) /\ IsAncestor(b, 1, head.hash)
ExceedsHeight(b, head) == Height(b) > head.height + 1

\* The index at which the scan of the queue breaks off: the first block that is
\* next or too high; one past the end when there is none.
ScanEnd(q, head) ==
    CHOOSE i \in 1..(Len(q) + 1) :
        /\ i = Len(q) + 1 \/ IsNextBlock(q[i], head) \/ ExceedsHeight(q[i], head)
        /\ \A j \in 1..(i - 1) : ~IsNextBlock(q[j], head) /\ ~ExceedsHeight(q[j], head)

Releases(q, head) == ScanEnd(q, head) <= Len(q) /\ IsNextBlock(q[ScanEnd(q, head)], head)

\* The blocks of the next height that the scan passed over
Siblings(q, head) == {i \in 1..(ScanEnd(q, head) - 1) : NextHeight(q[i], head)}

LastOf(S) == CHOOSE i \in S : \A j \in S : j <= i

\* The breakpoint set for a sibling is not moved to the block to release.
StopAtSibling(q, head) ==
    IF Siblings(q, head) # {} THEN LastOf(Siblings(q, head)) - 1 ELSE ScanEnd(q, head) - 1

\* The block that ended the scan is pruned as well.
PruneScanEnd(q, head) ==
    IF Releases(q, head) \/ ScanEnd(q, head) > Len(q)
    THEN ScanEnd(q, head) - 1 ELSE ScanEnd(q, head)

\* The number of blocks pruned from the front of the queue: up to the block to
\* release, else up to the last sibling, else up to the end of the scan.
Breakpoint(q, head) ==
    IF ~Releases(q, head) /\ Siblings(q, head) # {}
    THEN LastOf(Siblings(q, head)) - 1
    ELSE ScanEnd(q, head) - 1

From(q, n) == SubSeq(q, n, Len(q))

\* The loop that looks for the position does not break, so it is the LAST index
\* that holds a higher block; the end of the queue when there is none.
InsertionPoint(q, b) ==
    LET higher == {i \in 1..Len(q) : Height(q[i]) > Height(b)}
    IN  IF higher = {} THEN Len(q) + 1 ELSE LastOf(higher)

Inserted(q, b) ==
    SubSeq(q, 1, InsertionPoint(q, b) - 1) \o <<b>> \o From(q, InsertionPoint(q, b))

\* The limit is checked before the insertion.
TrimOneLate(q) ==
    IF Len(q) > BlockQueueMaxSize + 1 THEN From(q, Len(q) - BlockQueueMaxSize + 1) ELSE q

\* The front of an overlong queue is dropped.
Trimmed(q) ==
    IF Len(q) > BlockQueueMaxSize THEN From(q, Len(q) - BlockQueueMaxSize + 1) ELSE q

-----------------------------------------------------------------------------
(* blockLoop.                                                              *)

\* send pretends to succeed on a peer that Disconnect was called for; on any
\* other closed connection it fails, and no goroutine is started.
sendNewBlock(b) ==
    /\ lastSent' = IF connected THEN b ELSE lastSent
    /\ confirmers' = IF connected \/ disconnected THEN confirmers \cup {b} ELSE confirmers

sendTopBlock(q) ==
    /\ queuedBlocks' = Tail(q)
    /\ sentHead' = Height(q[1])
    /\ sendNewBlock(q[1])

SendNothing == UNCHANGED <<lastSent, confirmers>>

NeverOutdated(head) == FALSE

Outdated(head) == head.height < confirmedHead.height

\* case newHead := <-newHeadCh
HandleNewHead ==
    /\ looping /\ newHeadCh # <<>>
    /\ newHeadCh' = Tail(newHeadCh)
    /\ LET head == [height |-> Height(Head(newHeadCh)), hash |-> Head(newHeadCh)]
           kept == From(queuedBlocks, Breakpoint(queuedBlocks, head) + 1)
       IN  IF Outdated(head)
           THEN UNCHANGED <<confirmedHead, sentHead, queuedBlocks>> /\ SendNothing
           ELSE /\ confirmedHead' = head
                /\ IF Releases(queuedBlocks, head)
                   THEN sendTopBlock(kept)
                   ELSE /\ queuedBlocks' = kept
                        /\ sentHead' = IF head.height >= sentHead THEN head.height ELSE sentHead
                        /\ SendNothing
    /\ UNCHANGED <<newBlockCh, link>>

Stale(b) == Height(b) <= sentHead /\ sentHead # 0

\* nextBlock || initialBlock
Ready(b) ==
    \/ IsNextBlock(b, confirmedHead)
    \/ confirmedHead.height = 0 /\ sentHead = 0 /\ IsAncestor(b, 1, confirmedHead.hash)

\* A stale block returns from blockLoop instead of leaving the select.
ReturnOnStale ==
    /\ looping /\ newBlockCh # <<>>
    /\ newBlockCh' = Tail(newBlockCh)
    /\ looping' = ~Stale(Head(newBlockCh))
    /\ sentHead' = IF ~Stale(Head(newBlockCh)) /\ Ready(Head(newBlockCh))
                   THEN Height(Head(newBlockCh)) ELSE sentHead
    /\ UNCHANGED <<confirmedHead, queuedBlocks, newHeadCh, lastSent, confirmers, connected,
                   disconnected, stopped>>

\* case newBlock := <-newBlockCh
HandleNewBlock ==
    /\ looping /\ newBlockCh # <<>>
    /\ newBlockCh' = Tail(newBlockCh)
    /\ LET b == Head(newBlockCh)
       IN  \/ /\ Stale(b)
              /\ UNCHANGED <<sentHead, queuedBlocks>> /\ SendNothing
           \/ /\ ~Stale(b) /\ Ready(b)
              /\ sentHead' = Height(b)
              /\ sendNewBlock(b)
              /\ UNCHANGED queuedBlocks
           \/ /\ ~Stale(b) /\ ~Ready(b)
              /\ queuedBlocks' = Trimmed(Inserted(queuedBlocks, b))
              /\ UNCHANGED sentHead /\ SendNothing
    /\ UNCHANGED <<confirmedHead, newHeadCh, link>>

\* case <-ctx.Done()
LeaveLoop ==
    /\ looping /\ stopped
    /\ looping' = FALSE
    /\ UNCHANGED <<confirmedHead, sentHead, queuedBlocks, newHeadCh, newBlockCh, lastSent,
                   confirmers, connected, disconnected, stopped>>

Confirmed(b) == confirmedHead.height >= Height(b)

\* One tick of the goroutine that sendNewBlock started.  The five fast attempts
\* and the slow ones after them do the same.
ConfirmationTick(b) ==
    /\ b \in confirmers
    /\ confirmers' = IF Confirmed(b) \/ (~connected /\ ~disconnected)
                     THEN confirmers \ {b} ELSE confirmers
    /\ UNCHANGED <<confirmedHead, sentHead, queuedBlocks, newHeadCh, newBlockCh, lastSent,
                   link>>

-----------------------------------------------------------------------------
(* The other goroutines.                                                   *)

\* A head from the peer: its message loop waits while the channel is full.
UpdateHead(b) ==
    /\ ~stopped
    /\ Len(newHeadCh) < HeadBacklog
    /\ newHeadCh' = Append(newHeadCh, b)
    /\ UNCHANGED <<confirmedHead, sentHead, queuedBlocks, newBlockCh, lastSent, confirmers,
                   link>>

\* A block from the peer is its head, whatever the peer reported before; BlockRelay
\* has what is done with the block afterwards.
handleNewBlock(b) == UpdateHead(b)

\* A list of headers or of announcements from the peer, in any order: its head is the
\* first block of the greatest height.
updatePeerHead(packet) ==
    \E i \in DOMAIN packet :
        /\ \A j \in DOMAIN packet : Height(packet[j]) <= Height(packet[i])
        /\ \A j \in 1..(i - 1) : Height(packet[j]) < Height(packet[i])
        /\ UpdateHead(packet[i])

\* The handler of another peer, which may have listed this one before it was
\* unregistered, waits while the channel is full.
QueueNewBlock(b) ==
    /\ Len(newBlockCh) < BlockBacklog
    /\ newBlockCh' = Append(newBlockCh, b)
    /\ UNCHANGED <<confirmedHead, sentHead, queuedBlocks, newHeadCh, lastSent, confirmers,
                   link>>

\* awaitBlockResponse disconnects a peer that did not answer.
Disconnect ==
    /\ ~disconnected
    /\ connected' = FALSE
    /\ disconnected' = TRUE
    /\ UNCHANGED <<confirmedHead, sentHead, queuedBlocks, newHeadCh, newBlockCh, lastSent,
                   confirmers, stopped, looping>>

\* The remote side closes the connection.
ConnectionLost ==
    /\ connected
    /\ connected' = FALSE
    /\ UNCHANGED <<confirmedHead, sentHead, queuedBlocks, newHeadCh, newBlockCh, lastSent,
                   confirmers, disconnected, stopped, looping>>

\* The deferred call of RunPeer, once the message loop has failed to read.
Stop ==
    /\ ~connected /\ ~stopped
    /\ stopped' = TRUE
    /\ UNCHANGED <<confirmedHead, sentHead, queuedBlocks, newHeadCh, newBlockCh, lastSent,
                   confirmers, connected, disconnected, looping>>

PeerNext ==
    \/ HandleNewHead
    \/ HandleNewBlock
    \/ LeaveLoop
    \/ \E b \in Offered : ConfirmationTick(b)
    \/ \E b \in ReportedHeads : handleNewBlock(b)
    \/ \E packet \in HeaderPackets : updatePeerHead(packet)
    \/ \E b \in Offered : QueueNewBlock(b)
    \/ Disconnect
    \/ ConnectionLost
    \/ Stop

\* The runtime keeps running blockLoop, whose select picks fairly among the
\* channels that are ready, and the tickers; a closed connection makes ReadMsg
\* fail.  Peers owe no message.
PeerSpec ==
    /\ PeerInit
    /\ [][PeerNext]_peerVars
    /\ WF_peerVars(HandleNewHead) /\ WF_peerVars(HandleNewBlock) /\ WF_peerVars(LeaveLoop)
    /\ \A b \in Offered : WF_peerVars(ConfirmationTick(b))
    /\ WF_peerVars(Stop)

-----------------------------------------------------------------------------
(* Properties.                                                             *)

SendsChildOfHead ==
    lastSent' # lastSent => IsAncestor(lastSent', 1, confirmedHead'.hash)

\* Whatever the queue holds, in whatever order, and wherever the breakpoint of
\* the scan ends up, the block that goes out is a child of the head the peer has
\* confirmed: the peer never gets a block whose parent it may lack.
SentAfterParent == [][SendsChildOfHead]_peerVars

SendsNoLowerBlock == lastSent # None => Height(lastSent') >= Height(lastSent)

\* The height of the blocks sent never falls, although heads are reported twice,
\* late and on other forks, and the queue is not sorted.
SentNeverFalls == [][SendsNoLowerBlock]_peerVars

InQueue(b, q) == \E i \in 1..Len(q) : q[i] = b

KeepsFutureBlocks ==
    newBlockCh' = newBlockCh =>
        \A b \in Offered :
            InQueue(b, queuedBlocks) /\ ExceedsHeight(b, confirmedHead')
                => InQueue(b, queuedBlocks')

\* "no blocks match, so all must be stale": a reported head prunes no block that
\* is more than one block above it, only the size limit drops those.
FutureBlocksKept == [][KeepsFutureBlocks]_peerVars

\* Senders wait on a full channel, among them the message loops of other peers:
\* until the peer is stopped, blockLoop always makes room again.
ChannelDrains ==
    /\ Len(newBlockCh) = BlockBacklog ~> (Len(newBlockCh) < BlockBacklog \/ stopped)
    /\ Len(newHeadCh) = HeadBacklog ~> (Len(newHeadCh) < HeadBacklog \/ stopped)
==============================================================================
