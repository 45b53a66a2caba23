--------------------------------- MODULE Peers --------------------------------
(***************************************************************************)
(* Blockchain peers and what is broadcast to them: blockchain/eth/         *)
(* peerset.go, protocol.go (makeProtocol), server.go, the handshake and    *)
(* the life of a Peer in peer.go, and in backend.go RunPeer, the           *)
(* broadcasts and handleBDNBridge.                                         *)
(*                                                                         *)
(* A session is one *Peer, made for one connection of a node; the peer set *)
(* is keyed by the node.  A session has two goroutines: Run (handshake,    *)
(* register, message loop, deferred stop) and blockLoop, which drains its  *)
(* newHeadCh and newBlockCh (what it does with them is in PeerQueue).  For *)
(* an announced block the message loop starts a third, awaitBlockResponse, *)
(* which it hands the response to and which may outlive the session.       *)
(* Whoever has a block, the message loop or that goroutine, pushes it, one *)
(* by one, to the sessions that getAll listed.                             *)
(*                                                                         *)
(* Header and body of a fetched block are one response here, and a node    *)
(* answers only what it was asked; Requests has the matching of requests   *)
(* and responses.                                                          *)
(*                                                                         *)
(* NewHandler does not start handleBDNBridge.  The model lets it run: all  *)
(* behaviours without it are among those of the model.                     *)
(***************************************************************************)
EXTENDS Integers, FiniteSets, SequencesExt

CONSTANTS
    Nodes,             \* blockchain nodes
    Fetches,           \* bound: goroutines that run awaitBlockResponse
    BlockBacklog,      \* blockChannelBacklog
    HeadBacklog,       \* headChannelBacklog
    MaxSessions,       \* bound: connections of a node
    Speakers,          \* bound: sessions whose nodes send messages
    MaxArrivals,       \* bound: messages handled by message loops and the bridge
    MaxBridge,         \* bound: the bridge's are among the first of them
    None, BDN

Sessions == UNION {{n} \X (1..MaxSessions[n]) : n \in Nodes}
Actors == Sessions \cup Fetches \cup {BDN}
Node(s) == s[1]

ASSUME PeersAssumption ==
    /\ IsFiniteSet(Nodes)
    /\ BlockBacklog \in Nat \ {0} /\ HeadBacklog \in Nat \ {0}
    /\ MaxSessions \in [Nodes -> Nat] /\ MaxArrivals \in Nat /\ MaxBridge \in 0..MaxArrivals
    /\ None \notin Sessions /\ BDN \notin Sessions
    /\ Fetches \cap Sessions = {} /\ None \notin Fetches /\ BDN \notin Fetches

VARIABLES
    pc,          \* where Run of a session, awaitBlockResponse or handleBDNBridge is
    peers,       \* peerSet.peers
    lost,        \* sessions whose connection is lost or was disconnected
    stopped,     \* sessions that Stop was called for
    newBlockCh,  \* the number of blocks in the channel of a session
    newHeadCh,   \* the number of heads in the channel of a session
    blockLoop,   \* whether the block loop of a session runs
    source,      \* the session that a fetch was started for
    task,        \* the message at hand (a response: the fetch it is for), or how an actor
                 \* broadcasts it: it queues a block, or it sends at once
    todo,        \* the listed sessions that an actor has still to serve, in its order
    arrivals,    \* history: the number of messages handled
    shutdown     \* Server.Stop was called

setVars == <<peers, lost, stopped>>
loopVars == <<newBlockCh, newHeadCh, blockLoop>>
workVars == <<source, task, todo, arrivals>>
peersVars == <<pc, setVars, loopVars, workVars, shutdown>>

PeersInit ==
    /\ pc = [a \in Actors |-> IF a = BDN THEN "loop" ELSE "none"]
    /\ peers = [n \in Nodes |-> None]
    /\ lost = {} /\ stopped = {}
    /\ newBlockCh = [s \in Sessions |-> 0]
    /\ newHeadCh = [s \in Sessions |-> 0]
    /\ blockLoop = [s \in Sessions |-> FALSE]
    /\ source = [f \in Fetches |-> None]
    /\ task = [a \in Actors |-> "none"]
    /\ todo = [a \in Actors |-> <<>>]
    /\ arrivals = 0
    /\ shutdown = FALSE

Goto(a, l) == pc' = [pc EXCEPT ![a] = l]

\* The context of a session ends with its Stop, or with the server's context.
Cancelled(s) == s \in stopped \/ shutdown

-----------------------------------------------------------------------------
(* Sessions.                                                               *)

\* The message loop of a session runs.
Serving(s) == pc[s] \in {"loop", "head", "notify", "register", "broadcast"}

\* The other side goes away, or Disconnect is called.  (Before, the handshake fails.)
ConnectionLost(s) ==
    /\ Serving(s) /\ s \notin lost
    /\ lost' = lost \cup {s}
    /\ UNCHANGED <<pc, peers, stopped, loopVars, workVars, shutdown>>

\* The p2p server runs the protocol on a new connection, maybe while an earlier session
\* of the node has not ended, and the peer's status is read; until then nothing is
\* shared.
Handshake(s) ==
    /\ pc[s] = "none"
    /\ \A r \in Sessions : Node(r) = Node(s) /\ r[2] < s[2] => pc[r] # "none"

\* No status, or one of another network, version or genesis: Run returns.
HandshakeFails(s) ==
    /\ Handshake(s)
    /\ Goto(s, "ended")
    /\ UNCHANGED <<setVars, loopVars, workVars, shutdown>>

\* A session that cannot be registered goes through the deferred function too.
RunPeerDeferFirst(s) ==
    /\ Handshake(s)
    /\ \/ /\ peers[Node(s)] = None
          /\ peers' = [peers EXCEPT ![Node(s)] = s]
          /\ blockLoop' = [blockLoop EXCEPT ![s] = TRUE]
          /\ Goto(s, "loop")
       \/ /\ peers[Node(s)] # None
          /\ Goto(s, "stop")
          /\ UNCHANGED <<peers, blockLoop>>
    /\ UNCHANGED <<lost, stopped, newBlockCh, newHeadCh, workVars, shutdown>>

\* The session is registered and not started.
RunPeerUnstarted(s) ==
    /\ Handshake(s)
    /\ \/ /\ peers[Node(s)] = None
          /\ peers' = [peers EXCEPT ![Node(s)] = s]
          /\ Goto(s, "loop")
       \/ /\ peers[Node(s)] # None
          /\ Goto(s, "ended")
          /\ UNCHANGED peers
    /\ UNCHANGED <<lost, stopped, loopVars, workVars, shutdown>>

\* The entry of a registered node is not replaced.
register(s) ==
    /\ peers[Node(s)] = None
    /\ peers' = [peers EXCEPT ![Node(s)] = s]

\* RunPeer after the handshake: register, then Start.  A node that is registered
\* already makes RunPeer return before its deferred function is in place.
RunPeer(s) ==
    /\ Handshake(s)
    /\ \/ /\ register(s)
          /\ blockLoop' = [blockLoop EXCEPT ![s] = TRUE]
          /\ Goto(s, "loop")
       \/ /\ peers[Node(s)] # None
          /\ Goto(s, "ended")
          /\ UNCHANGED <<peers, blockLoop>>
    /\ UNCHANGED <<lost, stopped, newBlockCh, newHeadCh, workVars, shutdown>>

\* The message loop goes on after an error.
ReadAgain(s) == pc[s] = "loop" /\ s \in lost /\ UNCHANGED peersVars

\* handleMessage returns an error: the message loop ends.
ReadFails(s) ==
    /\ pc[s] = "loop" /\ s \in lost
    /\ Goto(s, "stop")
    /\ UNCHANGED <<setVars, loopVars, workVars, shutdown>>

\* The deferred function of RunPeer, its two steps
Stop(s) ==
    /\ pc[s] = "stop"
    /\ stopped' = stopped \cup {s}
    /\ Goto(s, "unregister")
    /\ UNCHANGED <<peers, lost, loopVars, workVars, shutdown>>

unregister(s) ==
    /\ pc[s] = "unregister"
    /\ peers' = [peers EXCEPT ![Node(s)] = None]
    /\ Goto(s, "ended")
    /\ UNCHANGED <<lost, stopped, loopVars, workVars, shutdown>>

\* Server.Stop cancels the context of all sessions; then the p2p server closes the
\* connections one by one (ConnectionLost).
ServerStop ==
    /\ ~shutdown /\ shutdown' = TRUE
    /\ UNCHANGED <<pc, setVars, loopVars, workVars>>

\* blockLoop takes a block or a head, or ends when its context is done; select may
\* choose any that is possible.
TakeBlock(s) ==
    /\ blockLoop[s] /\ newBlockCh[s] > 0
    /\ newBlockCh' = [newBlockCh EXCEPT ![s] = @ - 1]
    /\ UNCHANGED <<pc, setVars, newHeadCh, blockLoop, workVars, shutdown>>

TakeHead(s) ==
    /\ blockLoop[s] /\ newHeadCh[s] > 0
    /\ newHeadCh' = [newHeadCh EXCEPT ![s] = @ - 1]
    /\ UNCHANGED <<pc, setVars, newBlockCh, blockLoop, workVars, shutdown>>

BlockLoopEnds(s) ==
    /\ blockLoop[s] /\ Cancelled(s)
    /\ blockLoop' = [blockLoop EXCEPT ![s] = FALSE]
    /\ UNCHANGED <<pc, setVars, newBlockCh, newHeadCh, workVars, shutdown>>

-----------------------------------------------------------------------------
(* Messages of a session.                                                  *)

\* The message loop reads a block, an announcement, or the response to a fetch, which
\* may have given up by now.
ReadMsg(s) ==
    /\ pc[s] = "loop" /\ s \notin lost /\ s \in Speakers
    /\ arrivals < MaxArrivals /\ arrivals' = arrivals + 1
    /\ \E m \in {"block", "announcement"} \cup Fetches :
          /\ m \in Fetches => source[m] = s /\ pc[m] \in {"await", "gave up"}
          /\ task' = [task EXCEPT ![s] = m]
    /\ Goto(s, "head")
    /\ UNCHANGED <<setVars, loopVars, source, todo, shutdown>>

\* All three name a head of the node, which comes first: the message loop waits while
\* the channel is full.
UpdateHead(s) ==
    /\ pc[s] = "head"
    /\ newHeadCh[s] < HeadBacklog
    /\ newHeadCh' = [newHeadCh EXCEPT ![s] = @ + 1]
    /\ UNCHANGED <<newBlockCh, blockLoop>>

\* The session that a block came on; none for the BDN
Origin(a) ==
    IF a \in Sessions THEN a ELSE IF a \in Fetches THEN source[a] ELSE None

\* getAll, without the session that the block came on
getAll(a) == {peers[n] : n \in Nodes} \ {None, Origin(a)}

\* The loop over the listed peers begins; they come in any order.
Serve(a, t, listed) ==
    /\ task' = [task EXCEPT ![a] = t]
    /\ \E order \in SetToSeqs(listed) : todo' = [todo EXCEPT ![a] = order]
    /\ Goto(a, "broadcast")

\* A message loop goes on with the next message; awaitBlockResponse returns.
Return(a) ==
    /\ Goto(a, IF a \in Fetches THEN "ended" ELSE "loop")
    /\ task' = [task EXCEPT ![a] = "none"]

\* A block that passes validateBlock goes to the store and to the BDN (both in
\* BlockRelay), then to the other peers.
processBlock(a) ==
    \/ Serve(a, "queue", getAll(a))
    \/ Return(a) /\ UNCHANGED todo

handleNewBlock(s) ==
    /\ UpdateHead(s) /\ task[s] = "block"
    /\ processBlock(s)
    /\ UNCHANGED <<setVars, source, arrivals, shutdown>>

\* A block that is stored already is only confirmed; another one is requested, and a
\* goroutine waits for it.  If the request cannot be sent the message loop ends.  If the
\* responseQueue of an ETH65 session is full, the message loop, which alone takes from
\* it, waits for itself.
processBlockAnnouncement(s) ==
    \/ Goto(s, "loop") /\ UNCHANGED source
    \/ \E f \in Fetches :
          /\ pc[f] = "none"
          /\ pc' = [pc EXCEPT ![s] = "loop", ![f] = "await"]
          /\ source' = [source EXCEPT ![f] = s]
    \/ s \in lost /\ Goto(s, "stop") /\ UNCHANGED source
    \/ Goto(s, "register") /\ UNCHANGED source

handleNewBlockHashes(s) ==
    /\ UpdateHead(s) /\ task[s] = "announcement"
    /\ processBlockAnnouncement(s)
    /\ task' = [task EXCEPT ![s] = "none"]
    /\ UNCHANGED <<setVars, todo, arrivals, shutdown>>

\* The response of a fetch, up to the channel of its receiver
handleBlockHeaders(s) ==
    /\ UpdateHead(s) /\ task[s] \in Fetches
    /\ Goto(s, "notify")
    /\ UNCHANGED <<setVars, workVars, shutdown>>

\* The response goes to the goroutine that waits for it, on a channel without buffer.
NotifyResponse(s, f) ==
    /\ pc[s] = "notify" /\ task[s] = f /\ pc[f] = "await"
    /\ pc' = [pc EXCEPT ![s] = "loop", ![f] = "fetched"]
    /\ task' = [task EXCEPT ![s] = "none"]
    /\ UNCHANGED <<setVars, loopVars, source, todo, arrivals, shutdown>>

\* awaitBlockResponse with the response: the session may have ended by now.
processBlockComponents(f) ==
    /\ pc[f] = "fetched"
    /\ processBlock(f)
    /\ UNCHANGED <<setVars, loopVars, source, arrivals, shutdown>>

\* awaitBlockResponse after responseTimeout, or after a response of the wrong type: the
\* session is disconnected.
ResponseTimeout(f) ==
    /\ pc[f] = "await"
    /\ lost' = lost \cup {source[f]}
    /\ Goto(f, "gave up")
    /\ UNCHANGED <<peers, stopped, loopVars, workVars, shutdown>>

-----------------------------------------------------------------------------
(* Broadcasts.                                                             *)

\* handleBDNBridge takes a message.
FromBDN(t, listed) ==
    /\ pc[BDN] = "loop" /\ ~shutdown
    /\ arrivals < MaxBridge /\ arrivals' = arrivals + 1
    /\ Serve(BDN, t, listed)
    /\ UNCHANGED <<setVars, loopVars, source, shutdown>>

\* A block from the BDN that is not stored yet; it is only announced when its total
\* difficulty cannot be worked out.
processBDNBlock == \E how \in {"queue", "send"} : FromBDN(how, getAll(BDN))

processBDNTransactions == FromBDN("send", getAll(BDN))

get(n) == peers[n]

RequestTransactions(s) == FromBDN("send", {s})

\* Announced transactions are requested from the session that is registered for the
\* node now, which need not be the one that announced them; from none if there is none.
processBDNTransactionRequests(n) ==
    /\ get(n) # None
    /\ RequestTransactions(get(n))

NextIs(a, s) ==
    /\ todo[a] # <<>> /\ s = Head(todo[a])
    /\ todo' = [todo EXCEPT ![a] = Tail(@)]
    /\ UNCHANGED <<pc, setVars, newHeadCh, blockLoop, source, task, arrivals, shutdown>>

\* The actor waits while the channel is full.
QueueNewBlock(a, s) ==
    /\ task[a] = "queue" /\ NextIs(a, s)
    /\ newBlockCh[s] < BlockBacklog
    /\ newBlockCh' = [newBlockCh EXCEPT ![s] = @ + 1]

\* AnnounceBlock, SendTransactions and RequestTransactions write to the connection; an
\* error is logged.
SendNow(a, s) ==
    /\ task[a] = "send" /\ NextIs(a, s)
    /\ UNCHANGED newBlockCh

BroadcastDone(a) ==
    /\ pc[a] = "broadcast" /\ todo[a] = <<>>
    /\ Return(a)
    /\ UNCHANGED <<setVars, loopVars, source, todo, arrivals, shutdown>>

Broadcast(a) ==
    \/ \E s \in Range(todo[a]) : QueueNewBlock(a, s) \/ SendNow(a, s)
    \/ BroadcastDone(a)

-----------------------------------------------------------------------------

RunStep(s) == ReadFails(s) \/ Stop(s) \/ unregister(s)

HandleMessage(s) ==
    \/ handleNewBlock(s) \/ handleNewBlockHashes(s) \/ handleBlockHeaders(s)
    \/ \E f \in Fetches : NotifyResponse(s, f)

AwaitStep(f) == processBlockComponents(f) \/ ResponseTimeout(f)

BlockLoopStep(s) == TakeBlock(s) \/ TakeHead(s) \/ BlockLoopEnds(s)

PeersNext ==
    \/ \E s \in Sessions : HandshakeFails(s) \/ RunPeer(s) \/ ConnectionLost(s) \/ RunStep(s)
    \/ \E s \in Sessions : ReadMsg(s) \/ HandleMessage(s) \/ BlockLoopStep(s)
    \/ \E f \in Fetches : AwaitStep(f)
    \/ processBDNBlock \/ processBDNTransactions
    \/ \E n \in Nodes : processBDNTransactionRequests(n)
    \/ \E a \in Actors : Broadcast(a)
    \/ ServerStop

\* Goroutines that can go on do so: the readers of a connection learn of its end, a
\* message that was read is handled, a block loop takes what is in its channels, a fetch
\* times out, a broadcast goes on.
PeersSpec ==
    /\ PeersInit /\ [][PeersNext]_peersVars
    /\ \A s \in Sessions : WF_peersVars(RunStep(s) \/ HandleMessage(s) \/ Broadcast(s))
    /\ \A s \in Sessions : WF_peersVars(BlockLoopStep(s))
    /\ \A f \in Fetches : WF_peersVars(AwaitStep(f) \/ Broadcast(f))
    /\ WF_peersVars(Broadcast(BDN))

-----------------------------------------------------------------------------
(* Properties.                                                             *)

Labels == {"none", "loop", "head", "notify", "register", "broadcast", "stop", "unregister",
           "ended", "await", "fetched", "gave up"}

\* Type invariant: channels never hold more than their capacity.
PeersTypeOK ==
    /\ pc \in [Actors -> Labels]
    /\ peers \in [Nodes -> Sessions \cup {None}]
    /\ lost \subseteq Sessions /\ stopped \subseteq Sessions
    /\ newBlockCh \in [Sessions -> 0..BlockBacklog]
    /\ newHeadCh \in [Sessions -> 0..HeadBacklog]
    /\ blockLoop \in [Sessions -> BOOLEAN]
    /\ source \in [Fetches -> Sessions \cup {None}]
    /\ task \in [Actors -> {"none", "block", "announcement", "queue", "send"} \cup Fetches]
    /\ todo \in [Actors -> Seq(Sessions)]
    /\ arrivals \in 0..MaxArrivals
    /\ shutdown \in BOOLEAN

Registered == {"loop", "head", "notify", "register", "broadcast", "stop", "unregister"}

\* The peer set holds exactly the sessions between register and unregister: no
\* session removes the entry of another one of the same node, and a second
\* connection of a node is not served beside the first.
RunningIsListed ==
    \A s \in Sessions : pc[s] \in Registered <=> peers[Node(s)] = s

\* A block is queued for the node it came from only by a fetch that outlived its
\* session.  The broadcast compares sessions (broadcastBlock), so as long as the session
\* the block came on has not ended, this rests on a node having one listed session.
NotEchoed ==
    \A a \in Actors : \A r \in Range(todo[a]) :
        Origin(a) # None /\ Node(r) = Node(Origin(a)) => pc[Origin(a)] = "ended"

\* The invariant of the sessions: one listed session per node, from register to
\* unregister, and a block on its way back only after the end of its session.
PeersInv == PeersTypeOK /\ RunningIsListed /\ NotEchoed

\* An actor waits at the full channel of a session whose block loop has ended because
\* its context was cancelled.
WaitsOnStopped(a) ==
    /\ todo[a] # <<>> /\ task[a] = "queue"
    /\ LET s == Head(todo[a])
       IN  Cancelled(s) /\ ~blockLoop[s] /\ newBlockCh[s] = BlockBacklog

\* A broadcast comes to an end, and the only thing that can keep it from it is the
\* channel of a session that was stopped after getAll listed it.
BroadcastEnds == \A a \in Actors : todo[a] # <<>> ~> (todo[a] = <<>> \/ WaitsOnStopped(a))

\* The message loop waits at its own full newHeadCh: Server.Stop ended its block loop.
WaitsOnOwnHead(s) ==
    pc[s] = "head" /\ shutdown /\ ~blockLoop[s] /\ newHeadCh[s] = HeadBacklog

\* The message loop holds the response of a fetch that gave up.
WaitsOnReceiver(s) ==
    pc[s] = "notify" /\ \E f \in Fetches : task[s] = f /\ pc[f] = "gave up"

\* A session whose connection is lost or was disconnected stops and leaves the peer set,
\* unless its message loop waits for good: on a stopped session, on its own block loop
\* after Server.Stop, on a fetch that gave up, or on a responseQueue that only it drains.
\* It never waits on its own block loop while the server runs, nor on a fetch that runs.
LostIsReleased ==
    \A s \in Sessions : s \in lost ~>
        \/ pc[s] = "ended"
        \/ WaitsOnStopped(s) \/ WaitsOnOwnHead(s) \/ WaitsOnReceiver(s) \/ pc[s] = "register"
===============================================================================
