------------------------------ MODULE BlockRelay ------------------------------
(***************************************************************************)
(* The way of a block from a blockchain peer to the BDN: processBlock and  *)
(* confirmBlock of blockchain/eth/backend.go on top of Chain, the bridge   *)
(* channels of blockchain/bridge.go, and the gateway's                     *)
(* processBlockFromBlockchain with its block processor.                    *)
(*                                                                         *)
(* A handler is a goroutine that runs this code: the message loop of a     *)
(* peer, or one of the awaitBlockResponse goroutines it starts.  Each call *)
(* into Chain is a critical section of its own, so a handler takes one     *)
(* step per call and the steps of the handlers interleave.                 *)
(***************************************************************************)
EXTENDS Chain

CONSTANTS
    Handlers,
    BlockBacklog,       \* capacity of blocksFromNode and confirmedBlockFromNode
    ConfirmationsCount  \* config.BlockConfirmationsCount

ASSUME RelayAssumption ==
    /\ BlockBacklog \in Nat \ {0}
    /\ ConfirmationsCount \in Nat
    /\ MaxReorg <= MaxSize      \* maxReorgLength and defaultMaxSize

VARIABLES
    pc,          \* what each handler does next
    block,       \* the block of the message it handles
    newHeads,    \* newHeadCount, then the heads still to send, newest first
    confirming,  \* the block of the confirm message it has just sent, and the
                 \* metadata it is about to store
    bridge,      \* blocksFromNode
    confirmed,   \* confirmedBlockFromNode, which nothing receives from
    forwarded,   \* blocks handed to broadcastBlock
    processed,   \* processedBlocks of the gateway's block processor
    relayed,     \* history: how often the gateway broadcast each block to its relays
    sent,        \* history: the blocks put on blocksFromNode
    refused,     \* history: the blocks that got ErrChannelFull instead
    marked       \* history: the blocks that MarkSentToBDN marked while no handler was
                 \* about to write back metadata of theirs that it had read before

relayVars == <<pc, block, newHeads, confirming, bridge, confirmed, forwarded,
               processed, relayed, sent, refused, marked>>
allVars == <<vars, relayVars>>

Steps == {"idle", "validate", "add", "confirm", "fetch", "send", "mark", "store",
          "reread", "merge", "broadcast"}

RelayTypeOK ==
    /\ TypeOK
    /\ pc \in [Handlers -> Steps]
    /\ block \in [Handlers -> Blocks \cup {None}]
    /\ newHeads \in [Handlers -> [count : Nat, blocks : Seq(Blocks)]]
    /\ confirming \in [Handlers -> [block : Blocks \cup {None}, entry : Metadata]]
    /\ bridge \in Seq(Blocks) /\ Len(bridge) <= BlockBacklog
    /\ confirmed \in Seq(Blocks) /\ Len(confirmed) <= BlockBacklog
    /\ forwarded \subseteq Blocks
    /\ processed \subseteq Blocks
    /\ relayed \in [Blocks -> Nat]
    /\ sent \subseteq Blocks
    /\ refused \subseteq Blocks
    /\ marked \subseteq Blocks

NoHeads == [count |-> 0, blocks |-> <<>>]
NoMetadata == [height |-> 0, sentToBDN |-> FALSE, confirmed |-> FALSE,
               confirmedMsgSent |-> FALSE]
NotConfirming == [block |-> None, entry |-> NoMetadata]

RelayInit ==
    /\ Init
    /\ pc = [h \in Handlers |-> "idle"]
    /\ block = [h \in Handlers |-> None]
    /\ newHeads = [h \in Handlers |-> NoHeads]
    /\ confirming = [h \in Handlers |-> NotConfirming]
    /\ bridge = <<>>
    /\ confirmed = <<>>
    /\ forwarded = {}
    /\ processed = {}
    /\ relayed = [b \in Blocks |-> 0]
    /\ sent = {}
    /\ refused = {}
    /\ marked = {}

Goto(h, step) == pc' = [pc EXCEPT ![h] = step]

-----------------------------------------------------------------------------
(* The bridge: SendBlockToBDN and SendConfirmedBlockToGateway never wait,  *)
(* they return ErrChannelFull.                                             *)

BlockChannelFull == Len(bridge) >= BlockBacklog

ConfirmedChannelFull == Len(confirmed) >= BlockBacklog

-----------------------------------------------------------------------------
(* The handler.                                                            *)

\* The Status message of a handshake.
processStatus(h, b) ==
    /\ pc[h] = "idle"
    /\ InitializeDifficulty(b)
    /\ UNCHANGED relayVars

\* The header and body of an announced block have arrived: its difficulty is
\* computed from the one of its parent, if that is known, before processBlock.
processBlockComponents(h, b) ==
    /\ pc[h] = "idle"
    /\ ~TotalDifficulty(b)
    /\ IF Height(b) > 0 /\ Ancestor(b, 1) \in difficulties
       THEN SetTotalDifficulty(b) ELSE UNCHANGED vars
    /\ Goto(h, "validate")
    /\ block' = [block EXCEPT ![h] = b]
    /\ UNCHANGED <<newHeads, confirming, bridge, confirmed, forwarded, processed,
                   relayed, sent, refused, marked>>

\* A NewBlock message, or a block assembled from its components.  A block that
\* validateBlock refuses is skipped.
processBlock(h, b) ==
    /\ \/ pc[h] = "idle"
       \/ pc[h] = "validate" /\ block[h] = b
    /\ IF ValidateBlock(b)
       THEN Goto(h, "add") /\ block' = [block EXCEPT ![h] = b]
       ELSE Goto(h, "idle") /\ block' = [block EXCEPT ![h] = None]
    /\ UNCHANGED <<vars, newHeads, confirming, bridge, confirmed, forwarded,
                   processed, relayed, sent, refused, marked>>

StartConfirm(h, b) ==
    /\ pc[h] = "idle"
    /\ Goto(h, "confirm")
    /\ block' = [block EXCEPT ![h] = b]
    /\ UNCHANGED <<vars, newHeads, confirming, bridge, confirmed, forwarded,
                   processed, relayed, sent, refused, marked>>

\* An announced block that is already stored is confirmed; any other is requested
\* and comes back as processBlockComponents.
processBlockAnnouncement(h, b) == HasBlock(b) /\ StartConfirm(h, b)

\* A header that no request was waiting for confirms its block, stored or not.
processBlockHeaders(h, b) == StartConfirm(h, b)

\* The head itself is not counted.
CountOneLess(h, added) ==
    newHeads' = [newHeads EXCEPT ![h] =
                    [count |-> IF added = 0 THEN 0 ELSE added - 1, blocks |-> <<>>]]

CountNewHeads(h, added) ==
    newHeads' = [newHeads EXCEPT ![h] = [count |-> added, blocks |-> <<>>]]

addBlock(h) ==
    /\ pc[h] = "add"
    /\ AddBlock(block[h], "BSBlockchain")
    /\ CountNewHeads(h, updateChainState(chainState, headers', block[h]).added)
    /\ Goto(h, "fetch")
    /\ UNCHANGED <<block, confirming, bridge, confirmed, forwarded, processed,
                   relayed, sent, refused, marked>>

\* The block may be unknown, or cleaned up since HasBlock was asked.
confirmBlock(h) ==
    /\ pc[h] = "confirm"
    /\ IF metadata[block[h]] = None
       THEN UNCHANGED vars /\ CountNewHeads(h, 0)
       ELSE /\ ConfirmBlock(block[h])
            /\ CountNewHeads(h,
                  IF metadata[block[h]].height = Height(block[h]) /\ block[h] \in headers
                  THEN updateChainState(chainState, headers, block[h]).added ELSE 0)
    /\ block' = [block EXCEPT ![h] = None]
    /\ Goto(h, "fetch")
    /\ UNCHANGED <<confirming, bridge, confirmed, forwarded, processed, relayed,
                   sent, refused, marked>>

\* sendConfirmedBlocksToBDN: the heads are read from whatever the chain state is
\* by now.
fetchNewHeads(h) ==
    /\ pc[h] = "fetch"
    /\ newHeads' = [newHeads EXCEPT ![h] =
                        [count |-> 0, blocks |-> GetNewHeadsForBDN(newHeads[h].count)]]
    /\ Goto(h, "send")
    /\ UNCHANGED <<vars, block, confirming, bridge, confirmed, forwarded, processed,
                   relayed, sent, refused, marked>>

LastHead(h) == newHeads[h].blocks[Len(newHeads[h].blocks)]

DropLastHead(h) ==
    newHeads' = [newHeads EXCEPT ![h].blocks = SubSeq(@, 1, Len(@) - 1)]

\* A full channel makes processBlock give up.
AbandonWhenFull(h) ==
    /\ pc[h] = "send" /\ newHeads[h].blocks # <<>>
    /\ IF ~BlockChannelFull
       THEN /\ bridge' = Append(bridge, LastHead(h))
            /\ sent' = sent \cup {LastHead(h)}
            /\ Goto(h, "mark")
            /\ UNCHANGED <<newHeads, block, refused>>
       ELSE /\ newHeads' = [newHeads EXCEPT ![h] = NoHeads]
            /\ block' = [block EXCEPT ![h] = None]
            /\ refused' = refused \cup {LastHead(h)}
            /\ Goto(h, "idle")
            /\ UNCHANGED <<bridge, sent>>
    /\ UNCHANGED <<vars, confirming, confirmed, forwarded, processed, relayed, marked>>

\* The lowest head goes first; a full channel loses it.
sendNewHead(h) ==
    /\ pc[h] = "send" /\ newHeads[h].blocks # <<>>
    /\ IF ~BlockChannelFull
       THEN /\ bridge' = Append(bridge, LastHead(h))
            /\ sent' = sent \cup {LastHead(h)}
            /\ Goto(h, "mark")
            /\ UNCHANGED <<newHeads, refused>>
       ELSE /\ DropLastHead(h)
            /\ refused' = refused \cup {LastHead(h)}
            /\ UNCHANGED <<bridge, sent, pc>>
    /\ UNCHANGED <<vars, block, confirming, confirmed, forwarded, processed, relayed,
                   marked>>

\* Whether a handler is between the Get and the Set of storeBlockMetadata for b.
WritingBack(b) == \E g \in Handlers : pc[g] = "merge" /\ confirming[g].block = b

\* The block is not marked.
LeaveUnmarked(h) ==
    /\ pc[h] = "mark"
    /\ marked' = marked \cup {LastHead(h)}
    /\ DropLastHead(h)
    /\ Goto(h, "send")
    /\ UNCHANGED <<vars, block, confirming, bridge, confirmed, forwarded, processed,
                   relayed, sent, refused>>

\* A block that has been cleaned up meanwhile is not marked.
markSentToBDN(h) ==
    /\ pc[h] = "mark"
    /\ IF metadata[LastHead(h)] = None
       THEN UNCHANGED <<vars, marked>>
       ELSE /\ MarkSentToBDN(LastHead(h))
            /\ marked' = IF WritingBack(LastHead(h)) THEN marked
                         ELSE marked \cup {LastHead(h)}
    /\ DropLastHead(h)
    /\ Goto(h, "send")
    /\ UNCHANGED <<block, confirming, bridge, confirmed, forwarded, processed,
                   relayed, sent, refused>>

\* The end of sendConfirmedBlocksToBDN: only processBlock goes on to broadcast.
Finish(h) == Goto(h, IF block[h] = None THEN "idle" ELSE "broadcast")

\* The conversion of a stored block for the BDN does not fail.
blockAtDepth(chainDepth) == BlockAtDepth(chainDepth)

\* Confirm the block at the configured depth to the gateway, once.
confirmToGateway(h) ==
    /\ pc[h] = "send" /\ newHeads[h].blocks = <<>>
    /\ LET b == blockAtDepth(ConfirmationsCount)
       IN  IF b # None /\ metadata[b] # None /\ ~metadata[b].confirmedMsgSent
              /\ ~ConfirmedChannelFull
           THEN /\ confirmed' = Append(confirmed, b)
                /\ confirming' = [confirming EXCEPT ![h] =
                      [block |-> b,
                       entry |-> [metadata[b] EXCEPT !.sentToBDN = FALSE,
                                                     !.confirmedMsgSent = TRUE]]]
                /\ Goto(h, "store")
           ELSE Finish(h) /\ UNCHANGED <<confirmed, confirming>>
    /\ UNCHANGED <<vars, block, newHeads, bridge, forwarded, processed, relayed,
                   sent, refused, marked>>

\* What the three steps of storeBlockMetadata leave alone.
StoreKeeps ==
    UNCHANGED <<chainState, headers, statusHeads, bodies, difficulties, named, block, newHeads,
                bridge, confirmed, forwarded, processed, relayed, sent, refused, marked>>

StoreEntry(h) ==
    /\ metadata' = [metadata EXCEPT ![confirming[h].block] = confirming[h].entry]
    /\ confirming' = [confirming EXCEPT ![h] = NotConfirming]
    /\ Finish(h)

\* storeBlockMetadata, with what was read before the message was sent and without
\* chainLock: SetIfAbsent, ...
storeConfirmedMsgSent(h) ==
    /\ pc[h] = "store"
    /\ IF metadata[confirming[h].block] = None
       THEN StoreEntry(h)
       ELSE Goto(h, "reread") /\ UNCHANGED <<metadata, confirming>>
    /\ StoreKeeps

\* ... Get, which returns zeros for an entry that clean has pruned meanwhile, ...
rereadMetadata(h) ==
    /\ pc[h] = "reread"
    /\ LET b    == confirming[h].block
           read == IF metadata[b] = None THEN NoMetadata ELSE metadata[b]
       IN  confirming' = [confirming EXCEPT ![h].entry =
                [read EXCEPT !.confirmed = read.confirmed \/ confirming[h].entry.confirmed,
                             !.confirmedMsgSent = TRUE]]
    /\ Goto(h, "merge")
    /\ UNCHANGED metadata
    /\ StoreKeeps

\* ... and Set.
mergeMetadata(h) ==
    /\ pc[h] = "merge"
    /\ StoreEntry(h)
    /\ StoreKeeps

broadcastBlock(h) ==
    /\ pc[h] = "broadcast"
    /\ forwarded' = forwarded \cup {block[h]}
    /\ block' = [block EXCEPT ![h] = None]
    /\ Goto(h, "idle")
    /\ UNCHANGED <<vars, newHeads, confirming, bridge, confirmed, processed, relayed,
                   sent, refused, marked>>

-----------------------------------------------------------------------------
(* The gateway.                                                            *)

\* The history of processed blocks is not asked.
BroadcastUnchecked(b) == b

\* The message made of a block by BxBlockToBroadcast; nil for a block that was
\* processed before.
BxBlockToBroadcast(b) == IF b \in processed THEN None ELSE b

\* processBlockFromBlockchain ignores the error and broadcasts either way.  A nil
\* message is no broadcast of a block; what it does to the connection that sends it
\* is left out.
processBlockFromBlockchain ==
    /\ bridge # <<>>
    /\ relayed' = LET b == BxBlockToBroadcast(Head(bridge))
                  IN  IF b = None THEN relayed ELSE [relayed EXCEPT ![b] = @ + 1]
    /\ processed' = processed \cup {Head(bridge)}
    /\ bridge' = Tail(bridge)
    /\ UNCHANGED <<vars, pc, block, newHeads, confirming, confirmed, forwarded, sent,
                   refused, marked>>

cleanBlockStorage == clean /\ UNCHANGED relayVars

-----------------------------------------------------------------------------
HandlerStep(h) ==
    \/ pc[h] = "validate" /\ processBlock(h, block[h])
    \/ addBlock(h)
    \/ confirmBlock(h)
    \/ fetchNewHeads(h)
    \/ sendNewHead(h)
    \/ markSentToBDN(h)
    \/ confirmToGateway(h)
    \/ storeConfirmedMsgSent(h)
    \/ rereadMetadata(h)
    \/ mergeMetadata(h)
    \/ broadcastBlock(h)

RelayNext ==
    \/ \E h \in Handlers, b \in PeerHeads : processStatus(h, b)
    \/ \E h \in Handlers, b \in Seen :
          \/ processBlockComponents(h, b)
          \/ processBlock(h, b)
          \/ processBlockAnnouncement(h, b)
          \/ processBlockHeaders(h, b)
    \/ \E h \in Handlers : HandlerStep(h)
    \/ processBlockFromBlockchain
    \/ cleanBlockStorage

\* The Go scheduler keeps running a handler that can go on, and the gateway's
\* bridge loop; peers owe no message and the cleanup timer is free.
RelaySpec ==
    /\ RelayInit
    /\ [][RelayNext]_allVars
    /\ \A h \in Handlers : WF_allVars(HandlerStep(h))
    /\ WF_allVars(processBlockFromBlockchain)

-----------------------------------------------------------------------------
(* Properties.                                                             *)

NoneMarkedBefore(heads) == \A i \in 1..Len(heads) : heads[i] \notin marked \ named

\* MarkSentToBDN: "so it does not need to be sent again in the future".  A block
\* that was marked is never again among the heads that a handler reads back to send,
\* through reorganizations, cleanups that forget the mark and second deliveries;
\* except for a block that a Status message named, and for a mark that the
\* unlocked storeBlockMetadata of another handler overlapped.
MarkedNotResent ==
    [][\A h \in Handlers : pc[h] = "fetch" /\ pc'[h] # "fetch"
                              => NoneMarkedBefore(newHeads'[h].blocks)]_allVars

\* However many handlers update the chain and read it back at once, the head is not
\* forgotten between them: when all are done, the head of the canonical chain has been
\* sent to the BDN, unless SendBlockToBDN found its channel full.  (GetNewHeadsForBDN
\* may find nothing of a head that a Status message named.)
HeadSent ==
    /\ chainState # <<>> /\ chainState[1] \notin named
    /\ \A h \in Handlers : pc[h] = "idle"
    => chainState[1] \in sent \cup refused

\* The handler's storeBlockMetadata may bring back metadata that clean has removed,
\* which no later clean finds.  Nothing else does: metadata that
\* heightToBlockHeaders does not lead to is of a block that was confirmed.
LeakedOnlyConfirmed ==
    \A b \in Blocks : metadata[b] # None /\ b \notin headers \cup statusHeads
                         => metadata[b].confirmedMsgSent

\* The block processor's history stops a block that two handlers sent: each
\* block goes out to the relays at most once.
RelayedOnce == \A b \in Blocks : relayed[b] <= 1

\* The invariant of the relay with any number of handlers: no channel holds more
\* than its capacity, and no block goes out twice.
RelayInv == RelayTypeOK /\ RelayedOnce

\* A block that passed validation is forwarded to the other peers, whatever
\* happens on the way to the BDN (a full channel, an entry cleaned up meanwhile).
BlockForwarded ==
    \A b \in Seen : (\E h \in Handlers : pc[h] = "add" /\ block[h] = b) ~> (b \in forwarded)
==============================================================================
