------------------------------- MODULE Gateway --------------------------------
(***************************************************************************)
(* Transactions in the gateway: nodes/gateway.go with the transaction      *)
(* channels of blockchain/bridge.go, composed with the relay connections.  *)
(*                                                                         *)
(* Transactions come from blockchain peers through the bridge and from     *)
(* relays through the read loops.  Both call processTransaction, in        *)
(* goroutines of their own.  The transaction store appears by its promise  *)
(* (TxRegistry): Add is one step and reports the content of a transaction  *)
(* as new once; no transaction leaves the store here.                      *)
(***************************************************************************)
EXTENDS RelayConn

CONSTANTS
    Batches,              \* lists of transactions that a peer sends in one message
    TransactionBacklog,   \* transactionBacklog
    MaxBatches,           \* bound: messages from peers
    None

ASSUME GatewayAssumption ==
    /\ Batches \subseteq Seq(Messages)
    /\ TransactionBacklog \in Nat \ {0} /\ MaxBatches \in Nat
    /\ None \notin Messages

VARIABLES
    transactionsFromNode,  \* channel of the bridge, filled by the peers' handlers
    transactionsFromBDN,   \* channel of the bridge, filled by processTransaction
    batch,                 \* handleBridgeMessages: the rest of the list it handles
    sending,               \* handleBridgeMessages: the transaction it broadcasts
    stored,                \* transactions with content in the store
    broadcasts,            \* history: what was broadcast to the relays, in order
    received               \* history: number of messages from peers

txFlow == <<transactionsFromNode, transactionsFromBDN, batch, sending, stored, broadcasts, received>>
gatewayVars == <<connVars, txFlow>>

GatewayTypeOK ==
    /\ ConnTypeOK
    /\ transactionsFromNode \in Seq(Batches) /\ Len(transactionsFromNode) <= TransactionBacklog
    /\ transactionsFromBDN \in Seq(Messages) /\ Len(transactionsFromBDN) <= TransactionBacklog
    /\ batch \in Seq(Messages)
    /\ sending \in Messages \cup {None}
    /\ stored \subseteq Messages
    /\ broadcasts \in Seq(Messages)
    /\ received \in 0..MaxBatches

GatewayInit ==
    /\ ConnInit
    /\ transactionsFromNode = <<>>
    /\ transactionsFromBDN = <<>>
    /\ batch = <<>>
    /\ sending = None
    /\ stored = {}
    /\ broadcasts = <<>>
    /\ received = 0

\* A send on a channel of the bridge: ErrChannelFull when there is no room.
Offer(channel, m) == IF Len(channel) < TransactionBacklog THEN Append(channel, m) ELSE channel

\* processTransactions of a peer's handler.  A full channel loses the list.
SendTransactionsToBDN(txs) ==
    /\ received < MaxBatches
    /\ received' = received + 1
    /\ transactionsFromNode' = Offer(transactionsFromNode, txs)
    /\ UNCHANGED <<connVars, transactionsFromBDN, batch, sending, stored, broadcasts>>

\* Also an empty list is passed on ...
handleTransactions(txs) == SendTransactionsToBDN(txs)

\* ... but not one in the answer of an eth/66 peer that had none of the transactions.
handlePooledTransactions66(txs) == txs # <<>> /\ SendTransactionsToBDN(txs)

\* handleBridgeMessages takes a list.
ReceiveNodeTransactions ==
    /\ batch = <<>> /\ sending = None
    /\ transactionsFromNode # <<>>
    /\ batch' = Head(transactionsFromNode)
    /\ transactionsFromNode' = Tail(transactionsFromNode)
    /\ UNCHANGED <<connVars, transactionsFromBDN, sending, stored, broadcasts, received>>

\* The result of the store is not looked at.
BroadcastKnown ==
    /\ sending = None /\ batch # <<>>
    /\ batch' = Tail(batch)
    /\ stored' = stored \cup {Head(batch)}
    /\ sending' = Head(batch)
    /\ UNCHANGED <<connVars, transactionsFromNode, transactionsFromBDN, broadcasts, received>>

\* processTransaction for a transaction of a blockchain peer, up to the broadcast.
\* The source is no relay, and it is a blockchain connection.
processNodeTransaction ==
    /\ sending = None /\ batch # <<>>
    /\ batch' = Tail(batch)
    /\ stored' = stored \cup {Head(batch)}
    /\ sending' = IF Head(batch) \in stored THEN None ELSE Head(batch)
    /\ UNCHANGED <<connVars, transactionsFromNode, transactionsFromBDN, broadcasts, received>>

\* broadcast, under ConnectionsLock: Send to each open connection of the list.  The
\* source, a blockchain connection, is never in the list.
broadcast ==
    /\ sending # None
    /\ sendAll({c \in Range(connections) : open[c]}, sending)
    /\ broadcasts' = Append(broadcasts, sending)
    /\ sending' = None
    /\ UNCHANGED <<sock, opened, writer, wire, sendLoop, readLoop, connections, wasClosed,
                   transactionsFromNode, transactionsFromBDN, batch, stored, received>>

\* processTransaction for a transaction of a relay: the source is no blockchain
\* connection, so a new one goes to the peers, and only to them.
processRelayTransaction(tx) ==
    /\ stored' = stored \cup {tx}
    /\ transactionsFromBDN' =
           IF tx \in stored THEN transactionsFromBDN ELSE Offer(transactionsFromBDN, tx)
    /\ UNCHANGED <<transactionsFromNode, batch, sending, broadcasts, received>>

\* Relays handle messages in the foreground: in the goroutine of the read loop.
HandleMsg(tx) == processRelayTransaction(tx)

\* ReadMessages hands a Tx message to ProcessMessage.
ProcessMessage(c, tx) == ReadSucceeds(c) /\ HandleMsg(tx)

BridgeStep == ReceiveNodeTransactions \/ processNodeTransaction \/ broadcast

GatewayNext ==
    \/ \E txs \in Batches : handleTransactions(txs) \/ handlePooledTransactions66(txs)
    \/ BridgeStep
    \/ \E c \in Relays, tx \in Messages : ProcessMessage(c, tx)
    \/ \E c \in Relays : connectRelay(c) /\ UNCHANGED txFlow
    \/ \E c \in Relays : Connect(c) /\ UNCHANGED txFlow
    \/ \E c \in Relays : closeWithRetry(c) /\ UNCHANGED txFlow
    \/ \E c \in Relays : Pause(c) /\ UNCHANGED txFlow
    \/ \E c \in Relays : CheckOpen(c) /\ UNCHANGED txFlow
    \/ \E c \in Relays : ReadFails(c) /\ UNCHANGED txFlow
    \/ \E c \in Relays : ReadSucceeds(c) /\ UNCHANGED txFlow
    \/ \E c \in Relays : TakeMessage(c) /\ UNCHANGED txFlow
    \/ \E c \in Relays : Flush(c) /\ UNCHANGED txFlow
    \/ \E c \in Relays : SendLoopDone(c) /\ UNCHANGED txFlow
    \/ \E c \in Relays : Break(c) /\ UNCHANGED txFlow
    \/ \E c \in Relays : DisconnectConn(c) /\ UNCHANGED txFlow

\* Goroutines that can take a step do; sleeps and deadlines end.
GatewaySpec ==
    /\ GatewayInit /\ [][GatewayNext]_gatewayVars
    /\ WF_gatewayVars(BridgeStep)
    /\ \A c \in Relays :
          /\ WF_gatewayVars(ReadLoopStep(c) /\ UNCHANGED txFlow)
          /\ WF_gatewayVars(SendLoopStep(c) /\ UNCHANGED txFlow)

-----------------------------------------------------------------------------
(* Properties.                                                             *)

\* The invariant of the gateway: no channel of the bridge or of a connection
\* overfills, a socket gets no message of an earlier one, and the list of the node
\* is complete.
GatewayInv == GatewayTypeOK /\ FreshSocket /\ OpenIsListed

InFlight(c) == wire[c] \o writer[c] \o sendMessages[c]

\* Each relay gets transactions in the order in which the gateway took them, and
\* none twice on a connection, through the channel, the buffer and reconnects.
InBroadcastOrder ==
    \A c \in Relays : open[c] =>
        \A i, j \in 1..Len(InFlight(c)) : i < j =>
            \E k, l \in 1..Len(broadcasts) :
                /\ k < l
                /\ broadcasts[k] = InFlight(c)[i].msg
                /\ broadcasts[l] = InFlight(c)[j].msg

\* A transaction goes one way, once: to the relays if a peer brought it first, to
\* the peers if a relay did, also when both arrive at the same time.
GoesOneWay ==
    LET toBDN == broadcasts \o (IF sending = None THEN <<>> ELSE <<sending>>)
    IN  \A tx \in Messages :
            Cardinality({i \in 1..Len(toBDN) : toBDN[i] = tx})
                + Cardinality({i \in 1..Len(transactionsFromBDN) : transactionsFromBDN[i] = tx}) <= 1

\* What was queued on a connection is written, or the connection is closed, also
\* when the send loop has returned after a failed flush.
QueueDrains == \A c \in Relays : sendMessages[c] # <<>> ~> (sendMessages[c] = <<>> \/ ~open[c])
===============================================================================
