----------------------------- MODULE PeersProofs -----------------------------
(***************************************************************************)
(* Proofs about Peers for every finite set of nodes, any number of         *)
(* connections, messages and fetches, and every capacity of the channels:  *)
(* the peer set and the sessions agree, and no block goes back to its node *)
(* while the session it came on is not ended.                              *)
(***************************************************************************)
EXTENDS Peers, FiniteSetTheorems, TLAPS

\* The peer set is keyed by the node of the session it holds.
Keyed == \A n \in Nodes : peers[n] # None => Node(peers[n]) = n

\* A fetch that was started belongs to a session that was registered then, and one that
\* was not has nothing to do.
Spawned ==
    \A f \in Fetches :
        /\ pc[f] = "none" => todo[f] = <<>>
        /\ pc[f] # "none" => source[f] # None
        /\ source[f] # None => pc[source[f]] \in Registered \cup {"ended"}

\* The parts that relate sessions, peer set, fetches and lists
Agree == RunningIsListed /\ NotEchoed /\ Keyed /\ Spawned

\* The inductive invariant: what a broadcast lists are registered sessions, one for
\* each node, and the session a block came on is one of them or has ended.
SessionsInv == PeersTypeOK /\ Agree

-----------------------------------------------------------------------------
(* Sessions and lists of sessions.                                         *)

\* A session belongs to a node and is neither the BDN nor the absence of a session.
LEMMA SessionNode ==
    ASSUME NEW s \in Sessions
    PROVE  Node(s) \in Nodes /\ s # None /\ s # BDN /\ s \in Actors
<1>1. PICK n \in Nodes : s \in {n} \X (1..MaxSessions[n])
  BY DEF Sessions
<1> QED
  BY <1>1, PeersAssumption DEF Node, Actors

\* The session that a block came on: a message loop's own, a fetch's source.
LEMMA OriginFacts ==
    ASSUME PeersTypeOK, NEW a \in Actors
    PROVE  /\ Origin(a) \in Sessions \cup {None}
           /\ a \in Sessions => Origin(a) = a
           /\ a \in Fetches => Origin(a) = source[a] /\ a \notin Sessions
           /\ a = BDN => Origin(a) = None
BY PeersAssumption DEF PeersTypeOK, Actors, Origin

\* An enumeration of a finite set is a sequence of its elements.
LEMMA EnumerationFacts ==
    ASSUME NEW S, IsFiniteSet(S), NEW order \in SetToSeqs(S)
    PROVE  order \in Seq(S) /\ Range(order) \subseteq S
<1>1. Cardinality(S) \in Nat
  BY FS_CardinalityType
<1>2. order \in [1..Cardinality(S) -> S]
  BY DEF SetToSeqs
<1> QED
  BY <1>1, <1>2 DEF Range

\* What getAll lists, and that it is finite.
LEMMA ListedFacts ==
    ASSUME PeersTypeOK, NEW a
    PROVE  /\ IsFiniteSet(getAll(a))
           /\ getAll(a) \subseteq Sessions
<1>1. peers \in [Nodes -> Sessions \cup {None}]
  BY DEF PeersTypeOK
<1> DEFINE T == {peers[n] : n \in Nodes}
<1>2. peers \in Surjection(Nodes, T)
  <2>1. peers \in [Nodes -> T]
    BY <1>1
  <2> QED
    BY <2>1 DEF Surjection
<1>3. IsFiniteSet(T)
  BY <1>2, FS_Surjection, PeersAssumption
<1>4. IsFiniteSet(getAll(a))
  <2>1. getAll(a) \in SUBSET T
    BY DEF getAll
  <2> QED
    BY <1>3, <2>1, FS_Subset
<1> QED
  BY <1>1, <1>4 DEF getAll

\* Nothing is left of a list that was not in it.
LEMMA TailFacts ==
    ASSUME NEW S, NEW q \in Seq(S), q # <<>>
    PROVE  /\ Head(q) \in S /\ Head(q) \in Range(q)
           /\ Tail(q) \in Seq(S) /\ Range(Tail(q)) \subseteq Range(q)
<1>1. Head(q) \in S /\ Tail(q) \in Seq(S) /\ Len(q) \in Nat \ {0}
  OBVIOUS
<1>2. Head(q) = q[1] /\ 1 \in DOMAIN q
  BY <1>1
<1>3. ASSUME NEW i \in DOMAIN Tail(q) PROVE i + 1 \in DOMAIN q /\ Tail(q)[i] = q[i + 1]
  BY <1>1
<1> QED
  BY <1>1, <1>2, <1>3 DEF Range

-----------------------------------------------------------------------------
(* The steps.                                                              *)

\* A step that moves actors between places that agree on their registration, brings back
\* no session and starts no fetch, and leaves the peer set and the lists alone.
LEMMA MoveKeeps ==
    ASSUME SessionsInv, UNCHANGED <<peers, todo, source>>,
           \A s \in Sessions : pc'[s] \in Registered <=> pc[s] \in Registered,
           \A s \in Sessions : pc[s] = "ended" => pc'[s] = "ended",
           \A f \in Fetches : pc'[f] = "none" <=> pc[f] = "none"
    PROVE  Agree'
<1>0. PeersTypeOK /\ RunningIsListed /\ NotEchoed /\ Keyed /\ Spawned
  BY DEF SessionsInv, Agree
<1>1. RunningIsListed' /\ Keyed'
  BY <1>0 DEF RunningIsListed, Keyed
<1>2. NotEchoed'
  <2> SUFFICES ASSUME NEW a \in Actors, NEW r \in Range(todo[a]), Origin(a) # None,
                      Node(r) = Node(Origin(a))
               PROVE  pc'[Origin(a)] = "ended"
    BY DEF NotEchoed, Origin
  <2>1. Origin(a) \in Sessions
    BY <1>0, OriginFacts
  <2> QED
    BY <1>0, <2>1 DEF NotEchoed
<1>3. Spawned'
  <2> SUFFICES ASSUME NEW f \in Fetches
               PROVE  /\ pc'[f] = "none" => todo[f] = <<>>
                      /\ pc'[f] # "none" => source[f] # None
                      /\ source[f] # None => pc'[source[f]] \in Registered \cup {"ended"}
    BY DEF Spawned
  <2>1. source[f] # None => source[f] \in Sessions
    BY <1>0 DEF PeersTypeOK
  <2> QED
    BY <1>0, <2>1 DEF Spawned
<1> QED
  BY <1>1, <1>2, <1>3 DEF Agree

\* A session that moves, alone
LEMMA GotoKeeps ==
    ASSUME SessionsInv, UNCHANGED <<peers, todo, source>>, NEW s \in Sessions, NEW l \in Labels,
           Goto(s, l), pc[s] # "ended", l \in Registered <=> pc[s] \in Registered
    PROVE  Agree' /\ pc' \in [Actors -> Labels]
<1>1. pc \in [Actors -> Labels] /\ s \in Actors /\ pc' = [pc EXCEPT ![s] = l]
  BY SessionNode DEF SessionsInv, PeersTypeOK, Goto
<1>2. \A r \in Sessions \cup Fetches : r \in Actors /\ pc'[r] = (IF r = s THEN l ELSE pc[r])
  BY <1>1 DEF Actors
<1>3. \A f \in Fetches : f # s
  BY PeersAssumption
<1>4. /\ \A r \in Sessions : pc'[r] \in Registered <=> pc[r] \in Registered
      /\ \A r \in Sessions : pc[r] = "ended" => pc'[r] = "ended"
      /\ \A f \in Fetches : pc'[f] = "none" <=> pc[f] = "none"
  BY <1>2, <1>3
<1>5. Agree'
  BY <1>4, MoveKeeps
<1> QED
  BY <1>1, <1>5

\* A fetch that moves, alone, after it was started
LEMMA FetchKeeps ==
    ASSUME SessionsInv, UNCHANGED <<peers, todo, source>>, NEW f \in Fetches, NEW l \in Labels,
           Goto(f, l), pc[f] # "none", l # "none"
    PROVE  Agree' /\ pc' \in [Actors -> Labels]
<1>1. pc \in [Actors -> Labels] /\ f \in Actors /\ pc' = [pc EXCEPT ![f] = l]
  BY DEF SessionsInv, PeersTypeOK, Goto, Actors
<1>2. \A r \in Sessions \cup Fetches : r \in Actors /\ pc'[r] = (IF r = f THEN l ELSE pc[r])
  BY <1>1 DEF Actors
<1>3. \A r \in Sessions : r # f
  BY PeersAssumption
<1>4. /\ \A r \in Sessions : pc'[r] \in Registered <=> pc[r] \in Registered
      /\ \A r \in Sessions : pc[r] = "ended" => pc'[r] = "ended"
      /\ \A g \in Fetches : pc'[g] = "none" <=> pc[g] = "none"
  BY <1>2, <1>3
<1>5. Agree'
  BY <1>4, MoveKeeps
<1> QED
  BY <1>1, <1>5

\* The steps of Run that do not change the peer set
LEMMA LifeStep ==
    ASSUME SessionsInv, NEW s \in Sessions,
           ConnectionLost(s) \/ ReadFails(s) \/ Stop(s)
    PROVE  SessionsInv'
<1>0. PeersTypeOK
  BY DEF SessionsInv
<1>1. CASE ConnectionLost(s)
  <2>1. UNCHANGED <<pc, peers, todo, source>>
    BY <1>1 DEF ConnectionLost, workVars
  <2>2. Agree'
    BY <2>1, MoveKeeps
  <2>3. PeersTypeOK'
    BY <1>0, <1>1 DEF ConnectionLost, PeersTypeOK, loopVars, workVars
  <2> QED
    BY <2>2, <2>3 DEF SessionsInv
<1>2. CASE ReadFails(s)
  <2>1. Agree' /\ pc' \in [Actors -> Labels]
    BY <1>2, GotoKeeps DEF ReadFails, Labels, Registered, setVars, workVars
  <2> QED
    BY <1>0, <1>2, <2>1 DEF ReadFails, SessionsInv, PeersTypeOK, setVars, loopVars, workVars
<1>3. CASE Stop(s)
  <2>1. Agree' /\ pc' \in [Actors -> Labels]
    BY <1>3, GotoKeeps DEF Stop, Labels, Registered, setVars, workVars
  <2> QED
    BY <1>0, <1>3, <2>1 DEF Stop, SessionsInv, PeersTypeOK, loopVars, workVars
<1> QED
  BY <1>1, <1>2, <1>3

\* A connection that is refused: the session was never registered, so no fetch is its.
LEMMA RefusedStep ==
    ASSUME SessionsInv, NEW s \in Sessions, pc[s] = "none", Goto(s, "ended"),
           UNCHANGED <<setVars, loopVars, workVars, shutdown>>
    PROVE  SessionsInv'
<1>0. PeersTypeOK
  BY DEF SessionsInv
<1>1. Agree' /\ pc' \in [Actors -> Labels]
  BY GotoKeeps DEF Labels, Registered, setVars, workVars
<1> QED
  BY <1>0, <1>1 DEF SessionsInv, PeersTypeOK, setVars, loopVars, workVars


\* register refuses a node that is listed, so the session that gets the entry is the
\* only one of its node between register and unregister.
LEMMA RunPeerStep ==
    ASSUME SessionsInv, NEW s \in Sessions, HandshakeFails(s) \/ RunPeer(s)
    PROVE  SessionsInv'
<1>0. /\ s \in Actors /\ s # None /\ Node(s) \in Nodes
      /\ PeersTypeOK /\ RunningIsListed /\ NotEchoed /\ Keyed /\ Spawned
  BY SessionNode DEF SessionsInv, Agree
<1>1. CASE HandshakeFails(s)
  BY <1>1, RefusedStep DEF HandshakeFails, Handshake
<1>2. CASE RunPeer(s) /\ peers[Node(s)] # None
  <2>1. pc[s] = "none" /\ Goto(s, "ended") /\ UNCHANGED <<setVars, loopVars, workVars, shutdown>>
    BY <1>2 DEF RunPeer, register, Handshake, setVars, loopVars
  <2> QED
    BY <2>1, RefusedStep
<1>3. CASE RunPeer(s) /\ peers[Node(s)] = None
  <2>1. /\ peers' = [peers EXCEPT ![Node(s)] = s] /\ pc' = [pc EXCEPT ![s] = "loop"]
        /\ blockLoop' = [blockLoop EXCEPT ![s] = TRUE] /\ pc[s] = "none"
        /\ UNCHANGED <<lost, stopped, newBlockCh, newHeadCh, source, task, todo, arrivals, shutdown>>
    BY <1>3 DEF RunPeer, register, Goto, Handshake, workVars
  <2>2. PeersTypeOK'
    BY <1>0, <2>1 DEF PeersTypeOK, Labels
  <2>3. Keyed'
    BY <1>0, <2>1 DEF PeersTypeOK, Keyed
  <2>4. RunningIsListed'
    <3> SUFFICES ASSUME NEW r \in Sessions
                 PROVE  pc'[r] \in Registered <=> peers'[Node(r)] = r
      BY DEF RunningIsListed
    <3>1. r # None /\ r \in Actors /\ Node(r) \in Nodes
      BY SessionNode
    <3>2. CASE r = s
      BY <1>0, <2>1, <3>2 DEF PeersTypeOK, Registered
    <3>3. CASE r # s /\ Node(r) = Node(s)
      <4>1. pc[r] \notin Registered /\ pc'[r] = pc[r] /\ peers'[Node(r)] = s
        BY <1>0, <1>3, <2>1, <3>1, <3>3 DEF PeersTypeOK, RunningIsListed
      <4> QED
        BY <3>3, <4>1
    <3>4. CASE r # s /\ Node(r) # Node(s)
      BY <1>0, <2>1, <3>1, <3>4 DEF PeersTypeOK, RunningIsListed
    <3> QED
      BY <3>2, <3>3, <3>4
  <2>5. \A r \in Sessions \cup Fetches : r \in Actors /\ pc'[r] = (IF r = s THEN "loop" ELSE pc[r])
    BY <1>0, <2>1 DEF PeersTypeOK, Actors
  <2>6. NotEchoed'
    <3> SUFFICES ASSUME NEW a \in Actors, NEW r \in Range(todo[a]), Origin(a) # None,
                        Node(r) = Node(Origin(a))
                 PROVE  pc'[Origin(a)] = "ended"
      BY <2>1 DEF NotEchoed, Origin
    <3>1. Origin(a) \in Sessions /\ pc[Origin(a)] = "ended"
      BY <1>0, OriginFacts DEF NotEchoed
    <3> QED
      BY <2>1, <2>5, <3>1
  <2>7. Spawned'
    <3> SUFFICES ASSUME NEW f \in Fetches
                 PROVE  /\ pc'[f] = "none" => todo[f] = <<>>
                        /\ pc'[f] # "none" => source[f] # None
                        /\ source[f] # None => pc'[source[f]] \in Registered \cup {"ended"}
      BY <2>1 DEF Spawned
    <3>1. (source[f] # None => source[f] \in Sessions) /\ f # s
      BY <1>0, PeersAssumption DEF PeersTypeOK
    <3>2. "loop" \in Registered
      BY DEF Registered
    <3> QED
      BY <1>0, <2>1, <2>5, <3>1, <3>2 DEF Spawned
  <2> QED
    BY <2>2, <2>3, <2>4, <2>6, <2>7 DEF SessionsInv, Agree
<1> QED
  BY <1>1, <1>2, <1>3

\* The entry that unregister deletes is the session's own.
LEMMA UnregisterStep ==
    ASSUME SessionsInv, NEW s \in Sessions, unregister(s)
    PROVE  SessionsInv'
<1>0. /\ s \in Actors /\ Node(s) \in Nodes
      /\ PeersTypeOK /\ RunningIsListed /\ NotEchoed /\ Keyed /\ Spawned
  BY SessionNode DEF SessionsInv, Agree
<1>1. /\ peers' = [peers EXCEPT ![Node(s)] = None] /\ pc' = [pc EXCEPT ![s] = "ended"]
      /\ UNCHANGED <<lost, stopped, newBlockCh, newHeadCh, blockLoop, source, task, todo,
                     arrivals, shutdown>>
  BY DEF unregister, Goto, loopVars, workVars
<1>2. peers[Node(s)] = s
  BY <1>0 DEF unregister, RunningIsListed, Registered
<1>3. PeersTypeOK'
  BY <1>0, <1>1 DEF PeersTypeOK, Labels
<1>4. Keyed'
  BY <1>0, <1>1 DEF PeersTypeOK, Keyed
<1>5. RunningIsListed'
  <2> SUFFICES ASSUME NEW r \in Sessions
               PROVE  pc'[r] \in Registered <=> peers'[Node(r)] = r
    BY DEF RunningIsListed
  <2>1. r # None /\ r \in Actors /\ Node(r) \in Nodes
    BY SessionNode
  <2>2. CASE r = s
    BY <1>0, <1>1, <2>1, <2>2 DEF PeersTypeOK, Registered
  <2>3. CASE r # s /\ Node(r) = Node(s)
    <3>1. pc[r] \notin Registered /\ pc'[r] = pc[r] /\ peers'[Node(r)] = None
      BY <1>0, <1>1, <1>2, <2>1, <2>3 DEF PeersTypeOK, RunningIsListed
    <3> QED
      BY <2>1, <3>1
  <2>4. CASE r # s /\ Node(r) # Node(s)
    BY <1>0, <1>1, <2>1, <2>4 DEF PeersTypeOK, RunningIsListed
  <2> QED
    BY <2>2, <2>3, <2>4
<1>6. \A r \in Sessions \cup Fetches : r \in Actors /\ pc'[r] = (IF r = s THEN "ended" ELSE pc[r])
  BY <1>0, <1>1 DEF PeersTypeOK, Actors
<1>7. NotEchoed'
  <2> SUFFICES ASSUME NEW a \in Actors, NEW r \in Range(todo[a]), Origin(a) # None,
                      Node(r) = Node(Origin(a))
               PROVE  pc'[Origin(a)] = "ended"
    BY <1>1 DEF NotEchoed, Origin
  <2>1. Origin(a) \in Sessions /\ pc[Origin(a)] = "ended"
    BY <1>0, OriginFacts DEF NotEchoed
  <2> QED
    BY <1>6, <2>1
<1>8. Spawned'
  <2> SUFFICES ASSUME NEW f \in Fetches
               PROVE  /\ pc'[f] = "none" => todo[f] = <<>>
                      /\ pc'[f] # "none" => source[f] # None
                      /\ source[f] # None => pc'[source[f]] \in Registered \cup {"ended"}
    BY <1>1 DEF Spawned
  <2>1. (source[f] # None => source[f] \in Sessions) /\ f # s
    BY <1>0, PeersAssumption DEF PeersTypeOK
  <2> QED
    BY <1>0, <1>6, <2>1 DEF Spawned
<1> QED
  BY <1>3, <1>4, <1>5, <1>7, <1>8 DEF SessionsInv, Agree

\* The block loops, the p2p server's Stop
LEMMA LoopStep ==
    ASSUME SessionsInv, ServerStop \/ \E s \in Sessions : BlockLoopStep(s)
    PROVE  SessionsInv'
<1>0. PeersTypeOK
  BY DEF SessionsInv
<1>1. UNCHANGED <<pc, peers, lost, stopped, source, task, todo, arrivals>>
  BY DEF ServerStop, BlockLoopStep, TakeBlock, TakeHead, BlockLoopEnds, setVars, workVars
<1>2. /\ newBlockCh' \in [Sessions -> 0..BlockBacklog]
      /\ newHeadCh' \in [Sessions -> 0..HeadBacklog]
      /\ blockLoop' \in [Sessions -> BOOLEAN]
      /\ shutdown' \in BOOLEAN
  <2>2. CASE ServerStop
    BY <1>0, <2>2 DEF ServerStop, PeersTypeOK, loopVars
  <2>3. ASSUME NEW s \in Sessions, TakeBlock(s)
        PROVE  /\ newBlockCh' \in [Sessions -> 0..BlockBacklog]
               /\ UNCHANGED <<newHeadCh, blockLoop, shutdown>>
    <3>1. newBlockCh[s] - 1 \in 0..BlockBacklog
      BY <1>0, <2>3, PeersAssumption DEF TakeBlock, PeersTypeOK
    <3> QED
      BY <1>0, <2>3, <3>1 DEF TakeBlock, PeersTypeOK
  <2>4. ASSUME NEW s \in Sessions, TakeHead(s)
        PROVE  /\ newHeadCh' \in [Sessions -> 0..HeadBacklog]
               /\ UNCHANGED <<newBlockCh, blockLoop, shutdown>>
    <3>1. newHeadCh[s] - 1 \in 0..HeadBacklog
      BY <1>0, <2>4, PeersAssumption DEF TakeHead, PeersTypeOK
    <3> QED
      BY <1>0, <2>4, <3>1 DEF TakeHead, PeersTypeOK
  <2>5. ASSUME NEW s \in Sessions, BlockLoopEnds(s)
        PROVE  /\ blockLoop' \in [Sessions -> BOOLEAN]
               /\ UNCHANGED <<newBlockCh, newHeadCh, shutdown>>
    BY <1>0, <2>5 DEF BlockLoopEnds, PeersTypeOK
  <2> QED
    BY <1>0, <2>2, <2>3, <2>4, <2>5 DEF BlockLoopStep, PeersTypeOK
<1>3. Agree'
  BY <1>1, MoveKeeps
<1> QED
  BY <1>0, <1>1, <1>2, <1>3 DEF SessionsInv, PeersTypeOK

-----------------------------------------------------------------------------
(* Blocks and messages.                                                    *)

\* getAll without the session a block came on lists no session of the same node, unless
\* that session has ended.
LEMMA NoneGoesBack ==
    ASSUME SessionsInv, NEW a \in Actors, a \in Sessions => pc[a] \in Registered,
           NEW r \in getAll(a), Origin(a) # None, Node(r) = Node(Origin(a))
    PROVE  pc[Origin(a)] = "ended"
<1>0. PeersTypeOK /\ RunningIsListed /\ Keyed /\ Spawned
  BY DEF SessionsInv, Agree
<1>1. Origin(a) \in Sessions /\ Node(Origin(a)) \in Nodes
  BY <1>0, OriginFacts, SessionNode
<1>2. PICK n \in Nodes : r = peers[n] /\ r # None /\ r # Origin(a)
  BY DEF getAll
<1>3. Node(r) = n
  BY <1>0, <1>2 DEF Keyed
<1>4. peers[Node(Origin(a))] # Origin(a)
  BY <1>2, <1>3
<1>5. pc[Origin(a)] \notin Registered
  BY <1>0, <1>1, <1>4 DEF RunningIsListed
<1>6. a \in Fetches
  BY <1>0, <1>5, OriginFacts DEF Actors
<1> QED
  BY <1>0, <1>5, <1>6, OriginFacts DEF Spawned

\* A broadcast begins with a list of sessions.
LEMMA ServeKeeps ==
    ASSUME SessionsInv, UNCHANGED <<peers, source>>, NEW a \in Actors, NEW t \in {"queue", "send"},
           NEW listed \in SUBSET Sessions, IsFiniteSet(listed), Serve(a, t, listed),
           a \in Sessions => pc[a] \in Registered, a \in Fetches => pc[a] # "none",
           \A r \in listed : Origin(a) # None /\ Node(r) = Node(Origin(a)) =>
               pc[Origin(a)] = "ended"
    PROVE  /\ Agree'
           /\ pc' \in [Actors -> Labels] /\ todo' \in [Actors -> Seq(Sessions)]
           /\ task' = [task EXCEPT ![a] = t]
<1>0. PeersTypeOK /\ RunningIsListed /\ NotEchoed /\ Keyed /\ Spawned
  BY DEF SessionsInv, Agree
<1>1. PICK order \in SetToSeqs(listed) : todo' = [todo EXCEPT ![a] = order]
  BY DEF Serve
<1>2. order \in Seq(Sessions) /\ Range(order) \subseteq listed
  <2>1. order \in Seq(listed) /\ Range(order) \subseteq listed
    BY EnumerationFacts
  <2> QED
    BY <2>1
<1>3. task' = [task EXCEPT ![a] = t] /\ pc' = [pc EXCEPT ![a] = "broadcast"]
  BY DEF Serve, Goto
<1>4. pc' \in [Actors -> Labels] /\ todo' \in [Actors -> Seq(Sessions)]
  BY <1>0, <1>1, <1>2, <1>3 DEF PeersTypeOK, Labels
<1>5. /\ \A b \in Actors : pc'[b] = (IF b = a THEN "broadcast" ELSE pc[b])
      /\ \A b \in Actors : todo'[b] = (IF b = a THEN order ELSE todo[b])
      /\ Sessions \subseteq Actors /\ Fetches \subseteq Actors
  BY <1>0, <1>1, <1>3 DEF PeersTypeOK, Actors
<1>6. RunningIsListed'
  BY <1>0, <1>5 DEF RunningIsListed, Registered
<1>7. Keyed'
  BY <1>0 DEF Keyed
<1>8. NotEchoed'
  <2> SUFFICES ASSUME NEW b \in Actors, NEW r \in Range(todo'[b]), Origin(b) # None,
                      Node(r) = Node(Origin(b))
               PROVE  pc'[Origin(b)] = "ended"
    BY DEF NotEchoed, Origin
  <2>1. Origin(b) \in Sessions
    BY <1>0, OriginFacts
  <2>2. pc[Origin(b)] = "ended"
    BY <1>0, <1>2, <1>5 DEF NotEchoed
  <2>3. Origin(b) # a
    BY <2>1, <2>2 DEF Registered
  <2> QED
    BY <1>5, <2>1, <2>2, <2>3
<1>9. Spawned'
  <2> SUFFICES ASSUME NEW f \in Fetches
               PROVE  /\ pc'[f] = "none" => todo'[f] = <<>>
                      /\ pc'[f] # "none" => source[f] # None
                      /\ source[f] # None => pc'[source[f]] \in Registered \cup {"ended"}
    BY DEF Spawned
  <2>1. source[f] # None => source[f] \in Sessions
    BY <1>0 DEF PeersTypeOK
  <2>2. "broadcast" \in Registered
    BY DEF Registered
  <2> QED
    BY <1>0, <1>5, <2>1, <2>2 DEF Spawned
<1> QED
  BY <1>3, <1>4, <1>6, <1>7, <1>8, <1>9 DEF Agree

\* An actor that is done goes back to its message loop, or returns.
LEMMA ReturnKeeps ==
    ASSUME SessionsInv, UNCHANGED <<peers, todo, source>>, NEW a \in Actors, Return(a),
           a \in Sessions => pc[a] \in Registered, a \in Fetches => pc[a] # "none"
    PROVE  Agree' /\ pc' \in [Actors -> Labels] /\ task' = [task EXCEPT ![a] = "none"]
<1>1. CASE a \in Sessions
  <2>1. Goto(a, "loop") /\ task' = [task EXCEPT ![a] = "none"] /\ pc[a] # "ended"
    BY <1>1, PeersAssumption DEF Return, Registered
  <2> QED
    BY <1>1, <2>1, GotoKeeps DEF Labels, Registered
<1>2. CASE a \in Fetches
  <2>1. Goto(a, "ended") /\ task' = [task EXCEPT ![a] = "none"]
    BY <1>2 DEF Return
  <2> QED
    BY <1>2, <2>1, FetchKeeps DEF Labels
<1>3. CASE a = BDN
  <2>1. pc' = [pc EXCEPT ![a] = "loop"] /\ task' = [task EXCEPT ![a] = "none"]
    BY <1>3, PeersAssumption DEF Return, Goto
  <2>2. pc \in [Actors -> Labels] /\ a \notin Sessions /\ a \notin Fetches
    BY <1>3, PeersAssumption DEF SessionsInv, PeersTypeOK
  <2>3. /\ \A r \in Sessions \cup Fetches : pc'[r] = pc[r]
        /\ pc' \in [Actors -> Labels]
    BY <2>1, <2>2 DEF Actors, Labels
  <2> QED
    BY <2>1, <2>3, MoveKeeps
<1> QED
  BY <1>1, <1>2, <1>3 DEF Actors

\* What a block sets off, for a message loop and for a fetch
LEMMA ProcessBlockKeeps ==
    ASSUME SessionsInv, UNCHANGED <<peers, source>>, NEW a \in Actors, processBlock(a),
           a \in Sessions => pc[a] \in Registered, a \in Fetches => pc[a] # "none"
    PROVE  /\ Agree'
           /\ pc' \in [Actors -> Labels] /\ todo' \in [Actors -> Seq(Sessions)]
           /\ \E t \in {"queue", "none"} : task' = [task EXCEPT ![a] = t]
<1>0. PeersTypeOK
  BY DEF SessionsInv
<1>1. CASE Serve(a, "queue", getAll(a))
  <2>1. IsFiniteSet(getAll(a)) /\ getAll(a) \in SUBSET Sessions
    BY <1>0, ListedFacts
  <2>2. \A r \in getAll(a) : Origin(a) # None /\ Node(r) = Node(Origin(a)) =>
            pc[Origin(a)] = "ended"
    BY NoneGoesBack
  <2>3. /\ Agree'
        /\ pc' \in [Actors -> Labels] /\ todo' \in [Actors -> Seq(Sessions)]
        /\ task' = [task EXCEPT ![a] = "queue"]
    BY <1>1, <2>1, <2>2, ServeKeeps
  <2> QED
    BY <2>3
<1>2. CASE Return(a) /\ UNCHANGED todo
  <2>1. Agree' /\ pc' \in [Actors -> Labels] /\ task' = [task EXCEPT ![a] = "none"]
    BY <1>2, ReturnKeeps
  <2>2. todo' \in [Actors -> Seq(Sessions)]
    BY <1>0, <1>2 DEF PeersTypeOK
  <2> QED
    BY <2>1, <2>2
<1> QED
  BY <1>1, <1>2 DEF processBlock

\* The head of a message goes into its channel within the capacity.
LEMMA UpdateHeadTypes ==
    ASSUME PeersTypeOK, NEW s \in Sessions, UpdateHead(s)
    PROVE  /\ newHeadCh' \in [Sessions -> 0..HeadBacklog]
           /\ UNCHANGED <<newBlockCh, blockLoop>>
<1>1. newHeadCh[s] + 1 \in 0..HeadBacklog
  BY PeersAssumption DEF UpdateHead, PeersTypeOK
<1> QED
  BY <1>1 DEF UpdateHead, PeersTypeOK

\* A message is read.
LEMMA ReadStep ==
    ASSUME SessionsInv, NEW s \in Sessions, ReadMsg(s)
    PROVE  SessionsInv'
<1>0. PeersTypeOK
  BY DEF SessionsInv
<1>1. Agree' /\ pc' \in [Actors -> Labels]
  BY GotoKeeps DEF ReadMsg, Labels, Registered, setVars
<1>2. PICK m \in {"block", "announcement"} \cup Fetches : task' = [task EXCEPT ![s] = m]
  BY DEF ReadMsg
<1>3. /\ arrivals' \in 0..MaxArrivals
      /\ UNCHANGED <<peers, lost, stopped, newBlockCh, newHeadCh, blockLoop, source, todo, shutdown>>
  <2>1. /\ arrivals < MaxArrivals /\ arrivals' = arrivals + 1
        /\ UNCHANGED <<peers, lost, stopped, newBlockCh, newHeadCh, blockLoop, source, todo, shutdown>>
    BY DEF ReadMsg, setVars, loopVars
  <2>2. arrivals \in 0..MaxArrivals /\ MaxArrivals \in Nat
    BY <1>0, PeersAssumption DEF PeersTypeOK
  <2> QED
    BY <2>1, <2>2
<1>4. task' \in [Actors -> {"none", "block", "announcement", "queue", "send"} \cup Fetches]
  BY <1>0, <1>2 DEF PeersTypeOK
<1> QED
  BY <1>0, <1>1, <1>3, <1>4 DEF SessionsInv, PeersTypeOK

\* The two steps of a response: to the channel of its fetch, and into it
LEMMA ResponseStep ==
    ASSUME SessionsInv, NEW s \in Sessions,
           handleBlockHeaders(s) \/ \E f \in Fetches : NotifyResponse(s, f)
    PROVE  SessionsInv'
<1>0. PeersTypeOK
  BY DEF SessionsInv
<1>1. CASE handleBlockHeaders(s)
  <2>1. Agree' /\ pc' \in [Actors -> Labels]
    BY <1>1, GotoKeeps DEF handleBlockHeaders, UpdateHead, Labels, Registered, setVars, workVars
  <2>2. newHeadCh' \in [Sessions -> 0..HeadBacklog] /\ UNCHANGED <<newBlockCh, blockLoop>>
    BY <1>0, <1>1, UpdateHeadTypes DEF handleBlockHeaders
  <2> QED
    BY <1>0, <1>1, <2>1, <2>2 DEF handleBlockHeaders, SessionsInv, PeersTypeOK, setVars, workVars
<1>2. ASSUME NEW f \in Fetches, NotifyResponse(s, f) PROVE SessionsInv'
  <2>1. /\ pc[s] = "notify" /\ pc[f] = "await" /\ s # f
        /\ pc' = [pc EXCEPT ![s] = "loop", ![f] = "fetched"]
        /\ task' = [task EXCEPT ![s] = "none"]
        /\ UNCHANGED <<peers, lost, stopped, newBlockCh, newHeadCh, blockLoop, source, todo,
                       arrivals, shutdown>>
    BY <1>2, PeersAssumption DEF NotifyResponse, setVars, loopVars
  <2>2. /\ pc' \in [Actors -> Labels]
        /\ \A b \in Actors : pc'[b] = (IF b = f THEN "fetched" ELSE IF b = s THEN "loop" ELSE pc[b])
    BY <1>0, <2>1 DEF PeersTypeOK, Labels, Actors
  <2>3. /\ \A r \in Sessions : r \in Actors /\ r # f
        /\ \A g \in Fetches : g \in Actors /\ g # s
    BY PeersAssumption DEF Actors
  <2>4. /\ \A r \in Sessions : pc'[r] \in Registered <=> pc[r] \in Registered
        /\ \A r \in Sessions : pc[r] = "ended" => pc'[r] = "ended"
        /\ \A g \in Fetches : pc'[g] = "none" <=> pc[g] = "none"
    BY <2>1, <2>2, <2>3 DEF Registered
  <2>5. Agree'
    BY <2>1, <2>4, MoveKeeps
  <2>6. task' \in [Actors -> {"none", "block", "announcement", "queue", "send"} \cup Fetches]
    BY <1>0, <2>1 DEF PeersTypeOK
  <2> QED
    BY <1>0, <2>1, <2>2, <2>5, <2>6 DEF SessionsInv, PeersTypeOK
<1> QED
  BY <1>1, <1>2

\* A block of a message loop
LEMMA NewBlockStep ==
    ASSUME SessionsInv, NEW s \in Sessions, handleNewBlock(s)
    PROVE  SessionsInv'
<1>0. PeersTypeOK /\ s \in Actors /\ s \notin Fetches
  BY SessionNode, PeersAssumption DEF SessionsInv
<1>1. pc[s] \in Registered /\ processBlock(s)
  BY DEF handleNewBlock, UpdateHead, Registered
<1>2. UNCHANGED <<peers, lost, stopped, source, arrivals, shutdown>>
  BY DEF handleNewBlock, setVars
<1>3. /\ Agree'
      /\ pc' \in [Actors -> Labels] /\ todo' \in [Actors -> Seq(Sessions)]
      /\ \E t \in {"queue", "none"} : task' = [task EXCEPT ![s] = t]
  BY <1>0, <1>1, <1>2, ProcessBlockKeeps
<1>4. newHeadCh' \in [Sessions -> 0..HeadBacklog] /\ UNCHANGED <<newBlockCh, blockLoop>>
  BY <1>0, UpdateHeadTypes DEF handleNewBlock
<1>5. task' \in [Actors -> {"none", "block", "announcement", "queue", "send"} \cup Fetches]
  BY <1>0, <1>3 DEF PeersTypeOK
<1> QED
  BY <1>0, <1>2, <1>3, <1>4, <1>5 DEF SessionsInv, PeersTypeOK

\* A fetch is started by a session that is in the peer set.
LEMMA SpawnKeeps ==
    ASSUME SessionsInv, UNCHANGED <<peers, todo>>, NEW s \in Sessions, NEW f \in Fetches,
           pc[s] = "head", pc[f] = "none", pc' = [pc EXCEPT ![s] = "loop", ![f] = "await"],
           source' = [source EXCEPT ![f] = s]
    PROVE  Agree' /\ pc' \in [Actors -> Labels] /\ source' \in [Fetches -> Sessions \cup {None}]
<1>0. PeersTypeOK /\ RunningIsListed /\ NotEchoed /\ Keyed /\ Spawned
  BY DEF SessionsInv, Agree
<1>1. s # f /\ s # None /\ Sessions \subseteq Actors /\ Fetches \subseteq Actors
  BY PeersAssumption, SessionNode DEF Actors
<1>2. /\ pc' \in [Actors -> Labels] /\ source' \in [Fetches -> Sessions \cup {None}]
      /\ \A b \in Actors : pc'[b] = (IF b = f THEN "await" ELSE IF b = s THEN "loop" ELSE pc[b])
      /\ \A g \in Fetches : source'[g] = (IF g = f THEN s ELSE source[g])
  BY <1>0, <1>1 DEF PeersTypeOK, Labels
<1>3. \A r \in Sessions : r # f /\ (pc'[r] \in Registered <=> pc[r] \in Registered)
  BY <1>1, <1>2, PeersAssumption DEF Registered
<1>4. RunningIsListed' /\ Keyed'
  BY <1>0, <1>3 DEF RunningIsListed, Keyed
<1>5. todo[f] = <<>> /\ Range(<<>>) = {}
  BY <1>0 DEF Spawned, Range
<1>6. NotEchoed'
  <2> SUFFICES ASSUME NEW a \in Actors, NEW r \in Range(todo[a]), NEW o, o = Origin(a)',
                      o # None, Node(r) = Node(o)
               PROVE  pc'[o] = "ended"
    BY DEF NotEchoed
  <2>1. a # f
    BY <1>5
  <2>2. o = Origin(a)
    BY <1>2, <2>1 DEF Origin
  <2>3. o \in Sessions /\ pc[o] = "ended"
    BY <1>0, <2>2, OriginFacts DEF NotEchoed
  <2> QED
    BY <1>1, <1>2, <1>3, <2>3
<1>7. Spawned'
  <2> SUFFICES ASSUME NEW g \in Fetches
               PROVE  /\ pc'[g] = "none" => todo[g] = <<>>
                      /\ pc'[g] # "none" => source'[g] # None
                      /\ source'[g] # None => pc'[source'[g]] \in Registered \cup {"ended"}
    BY DEF Spawned
  <2>1. g # s /\ g \in Actors
    BY <1>1, PeersAssumption
  <2>2. CASE g = f
    BY <1>1, <1>2, <1>3, <2>1, <2>2 DEF Registered
  <2>3. CASE g # f
    <3>1. source'[g] = source[g] /\ pc'[g] = pc[g]
      BY <1>2, <2>1, <2>3
    <3>2. source[g] # None => source[g] \in Sessions
      BY <1>0 DEF PeersTypeOK
    <3>3. \A r \in Sessions : pc[r] = "ended" => pc'[r] = "ended"
      BY <1>1, <1>2, <1>3
    <3> QED
      BY <1>0, <1>3, <3>1, <3>2, <3>3 DEF Spawned
  <2> QED
    BY <2>2, <2>3
<1> QED
  BY <1>2, <1>4, <1>6, <1>7 DEF Agree

\* An announcement
LEMMA NewBlockHashesStep ==
    ASSUME SessionsInv, NEW s \in Sessions, handleNewBlockHashes(s)
    PROVE  SessionsInv'
<1>0. PeersTypeOK /\ pc[s] = "head"
  BY DEF SessionsInv, handleNewBlockHashes, UpdateHead
<1>1. /\ task' = [task EXCEPT ![s] = "none"] /\ processBlockAnnouncement(s)
      /\ UNCHANGED <<peers, lost, stopped, todo, arrivals, shutdown>>
  BY DEF handleNewBlockHashes, setVars
<1>2. newHeadCh' \in [Sessions -> 0..HeadBacklog] /\ UNCHANGED <<newBlockCh, blockLoop>>
  BY <1>0, UpdateHeadTypes DEF handleNewBlockHashes
<1>3. task' \in [Actors -> {"none", "block", "announcement", "queue", "send"} \cup Fetches]
  BY <1>0, <1>1 DEF PeersTypeOK
<1>4. Agree' /\ pc' \in [Actors -> Labels] /\ source' \in [Fetches -> Sessions \cup {None}]
  <2>1. ASSUME NEW l \in {"loop", "stop", "register"}, Goto(s, l), UNCHANGED source
        PROVE  Agree' /\ pc' \in [Actors -> Labels] /\ source' \in [Fetches -> Sessions \cup {None}]
    <3>1. Agree' /\ pc' \in [Actors -> Labels]
      BY <1>0, <1>1, <2>1, GotoKeeps DEF Labels, Registered
    <3> QED
      BY <1>0, <2>1, <3>1 DEF PeersTypeOK
  <2>2. ASSUME NEW f \in Fetches, pc[f] = "none",
               pc' = [pc EXCEPT ![s] = "loop", ![f] = "await"],
               source' = [source EXCEPT ![f] = s]
        PROVE  Agree' /\ pc' \in [Actors -> Labels] /\ source' \in [Fetches -> Sessions \cup {None}]
    BY <1>0, <1>1, <2>2, SpawnKeeps
  <2> QED
    BY <1>1, <2>1, <2>2 DEF processBlockAnnouncement
<1> QED
  BY <1>0, <1>1, <1>2, <1>3, <1>4 DEF SessionsInv, PeersTypeOK

\* A fetch goes on with its block, or gives up.
LEMMA FetchStep ==
    ASSUME SessionsInv, NEW f \in Fetches, AwaitStep(f)
    PROVE  SessionsInv'
<1>0. PeersTypeOK /\ Spawned /\ f \in Actors /\ f \notin Sessions
  BY PeersAssumption DEF SessionsInv, Agree, Actors
<1>1. CASE processBlockComponents(f)
  <2>1. /\ pc[f] # "none" /\ processBlock(f)
        /\ UNCHANGED <<peers, lost, stopped, newBlockCh, newHeadCh, blockLoop, source, arrivals,
                       shutdown>>
    BY <1>1 DEF processBlockComponents, setVars, loopVars
  <2>2. /\ Agree'
        /\ pc' \in [Actors -> Labels] /\ todo' \in [Actors -> Seq(Sessions)]
        /\ \E t \in {"queue", "none"} : task' = [task EXCEPT ![f] = t]
    BY <1>0, <2>1, ProcessBlockKeeps
  <2>3. task' \in [Actors -> {"none", "block", "announcement", "queue", "send"} \cup Fetches]
    BY <1>0, <2>2 DEF PeersTypeOK
  <2> QED
    BY <1>0, <2>1, <2>2, <2>3 DEF SessionsInv, PeersTypeOK
<1>2. CASE ResponseTimeout(f)
  <2>1. Agree' /\ pc' \in [Actors -> Labels]
    BY <1>2, FetchKeeps DEF ResponseTimeout, Labels, workVars
  <2>2. source[f] \in Sessions
    BY <1>0, <1>2 DEF ResponseTimeout, Spawned, PeersTypeOK
  <2> QED
    BY <1>0, <1>2, <2>1, <2>2 DEF ResponseTimeout, SessionsInv, PeersTypeOK, loopVars, workVars
<1> QED
  BY <1>1, <1>2 DEF AwaitStep

\* A message of the bridge
LEMMA BridgeStep ==
    ASSUME SessionsInv,
           \/ processBDNBlock \/ processBDNTransactions
           \/ \E n \in Nodes : processBDNTransactionRequests(n)
    PROVE  SessionsInv'
<1>0. /\ PeersTypeOK
      /\ BDN \in Actors /\ BDN \notin Sessions /\ BDN \notin Fetches
  BY PeersAssumption DEF SessionsInv, Actors
<1>1. ASSUME NEW t \in {"queue", "send"}, NEW listed \in SUBSET Sessions, IsFiniteSet(listed),
             FromBDN(t, listed)
      PROVE  SessionsInv'
  <2>1. /\ Serve(BDN, t, listed) /\ arrivals' \in 0..MaxArrivals
        /\ UNCHANGED <<peers, lost, stopped, newBlockCh, newHeadCh, blockLoop, source, shutdown>>
    BY <1>0, <1>1, PeersAssumption DEF FromBDN, PeersTypeOK, setVars, loopVars
  <2>2. Origin(BDN) = None
    BY <1>0, OriginFacts
  <2>3. /\ Agree'
        /\ pc' \in [Actors -> Labels] /\ todo' \in [Actors -> Seq(Sessions)]
        /\ task' = [task EXCEPT ![BDN] = t]
    BY <1>0, <1>1, <2>1, <2>2, ServeKeeps
  <2>4. task' \in [Actors -> {"none", "block", "announcement", "queue", "send"} \cup Fetches]
    BY <1>0, <2>3 DEF PeersTypeOK
  <2> QED
    BY <1>0, <2>1, <2>3, <2>4 DEF SessionsInv, PeersTypeOK
<1>2. CASE processBDNBlock \/ processBDNTransactions
  <2>1. IsFiniteSet(getAll(BDN)) /\ getAll(BDN) \in SUBSET Sessions
    BY <1>0, ListedFacts
  <2>2. \E t \in {"queue", "send"} : FromBDN(t, getAll(BDN))
    BY <1>2 DEF processBDNBlock, processBDNTransactions
  <2> QED
    BY <1>1, <2>1, <2>2
<1>3. ASSUME NEW n \in Nodes, processBDNTransactionRequests(n) PROVE SessionsInv'
  <2>1. peers[n] \in Sessions
    BY <1>0, <1>3 DEF processBDNTransactionRequests, get, PeersTypeOK
  <2>2. IsFiniteSet({peers[n]}) /\ {peers[n]} \in SUBSET Sessions
    BY <2>1, FS_Singleton
  <2>3. FromBDN("send", {peers[n]})
    BY <1>3 DEF processBDNTransactionRequests, RequestTransactions, get
  <2> QED
    BY <1>1, <2>2, <2>3
<1> QED
  BY <1>2, <1>3

\* A broadcast goes on through its list.
LEMMA BroadcastStep ==
    ASSUME SessionsInv, NEW a \in Actors, Broadcast(a)
    PROVE  SessionsInv'
<1>0. PeersTypeOK /\ RunningIsListed /\ NotEchoed /\ Keyed /\ Spawned
  BY DEF SessionsInv, Agree
<1>1. CASE BroadcastDone(a)
  <2>1. /\ Return(a) /\ pc[a] = "broadcast"
        /\ UNCHANGED <<peers, lost, stopped, newBlockCh, newHeadCh, blockLoop, source, todo,
                       arrivals, shutdown>>
    BY <1>1 DEF BroadcastDone, setVars, loopVars
  <2>2. Agree' /\ pc' \in [Actors -> Labels] /\ task' = [task EXCEPT ![a] = "none"]
    BY <2>1, ReturnKeeps DEF Registered
  <2>3. task' \in [Actors -> {"none", "block", "announcement", "queue", "send"} \cup Fetches]
    BY <1>0, <2>2 DEF PeersTypeOK
  <2> QED
    BY <1>0, <2>1, <2>2, <2>3 DEF SessionsInv, PeersTypeOK
<1>2. ASSUME NEW s, QueueNewBlock(a, s) \/ SendNow(a, s)
      PROVE  SessionsInv'
  <2>1. /\ todo[a] # <<>> /\ s = Head(todo[a]) /\ todo' = [todo EXCEPT ![a] = Tail(@)]
        /\ UNCHANGED <<pc, peers, lost, stopped, newHeadCh, blockLoop, source, task, arrivals,
                       shutdown>>
    BY <1>2 DEF QueueNewBlock, SendNow, NextIs, setVars
  <2>2. todo[a] \in Seq(Sessions)
    BY <1>0 DEF PeersTypeOK
  <2>3. /\ s \in Sessions /\ Tail(todo[a]) \in Seq(Sessions)
        /\ Range(Tail(todo[a])) \subseteq Range(todo[a])
    BY <2>1, <2>2, TailFacts
  <2>4. newBlockCh' \in [Sessions -> 0..BlockBacklog]
    <3>1. newBlockCh \in [Sessions -> 0..BlockBacklog] /\ BlockBacklog \in Nat
      BY <1>0, PeersAssumption DEF PeersTypeOK
    <3>2. CASE SendNow(a, s)
      BY <3>1, <3>2 DEF SendNow
    <3>3. CASE QueueNewBlock(a, s)
      <4>1. newBlockCh[s] + 1 \in 0..BlockBacklog
        BY <2>3, <3>1, <3>3 DEF QueueNewBlock
      <4> QED
        BY <2>3, <3>1, <3>3, <4>1 DEF QueueNewBlock
    <3> QED
      BY <1>2, <3>2, <3>3
  <2>5. PeersTypeOK'
    <3>1. todo' \in [Actors -> Seq(Sessions)]
      BY <1>0, <2>1, <2>3 DEF PeersTypeOK
    <3> QED
      BY <1>0, <2>1, <2>4, <3>1 DEF PeersTypeOK
  <2>6. \A b \in Actors : todo'[b] = (IF b = a THEN Tail(todo[a]) ELSE todo[b])
    BY <1>0, <2>1 DEF PeersTypeOK
  <2>7. NotEchoed'
    BY <1>0, <2>1, <2>3, <2>6 DEF NotEchoed, Origin
  <2>8. Spawned'
    BY <1>0, <2>1, <2>6 DEF Spawned, Actors
  <2> QED
    BY <1>0, <2>1, <2>5, <2>7, <2>8 DEF SessionsInv, Agree, RunningIsListed, Keyed
<1> QED
  BY <1>1, <1>2 DEF Broadcast

\* The peer set holds exactly the sessions between register and unregister, one for each
\* node, channels keep their capacity, and a block that a message loop or a fetch
\* broadcasts is on its way back to the node it came from only if the session it came on
\* has ended, however connections, stops, late responses and broadcasts interleave.
THEOREM PeersInvariant == PeersSpec => []PeersInv
<1>1. PeersInit => SessionsInv
  <2> SUFFICES ASSUME PeersInit PROVE SessionsInv
    OBVIOUS
  <2>1. PeersTypeOK
    <3>1. /\ pc \in [Actors -> Labels]
          /\ task \in [Actors -> {"none", "block", "announcement", "queue", "send"} \cup Fetches]
      BY DEF PeersInit, Labels
    <3>2. /\ peers \in [Nodes -> Sessions \cup {None}] /\ source \in [Fetches -> Sessions \cup {None}]
          /\ newBlockCh \in [Sessions -> 0..BlockBacklog]
          /\ newHeadCh \in [Sessions -> 0..HeadBacklog] /\ arrivals \in 0..MaxArrivals
      BY PeersAssumption DEF PeersInit
    <3>3. blockLoop \in [Sessions -> BOOLEAN]
      BY DEF PeersInit
    <3>4. todo \in [Actors -> Seq(Sessions)]
      <4>1. <<>> \in Seq(Sessions)
        OBVIOUS
      <4> QED
        BY <4>1 DEF PeersInit
    <3> QED
      BY <3>1, <3>2, <3>3, <3>4 DEF PeersInit, PeersTypeOK
  <2>2. RunningIsListed
    BY SessionNode DEF PeersInit, RunningIsListed, Registered
  <2>3. NotEchoed
    <3>1. \A a \in Actors : todo[a] = <<>>
      BY DEF PeersInit
    <3>2. Range(<<>>) = {}
      BY DEF Range
    <3> QED
      BY <3>1, <3>2 DEF NotEchoed
  <2>4. Keyed
    BY DEF PeersInit, Keyed
  <2>5. Spawned
    BY PeersAssumption DEF PeersInit, Spawned, Actors
  <2> QED
    BY <2>1, <2>2, <2>3, <2>4, <2>5 DEF SessionsInv, Agree
<1>2. SessionsInv /\ [PeersNext]_peersVars => SessionsInv'
  <2> SUFFICES ASSUME SessionsInv, [PeersNext]_peersVars PROVE SessionsInv'
    OBVIOUS
  <2>1. CASE UNCHANGED peersVars
    <3>1. UNCHANGED <<pc, peers, lost, stopped, newBlockCh, newHeadCh, blockLoop, source, task,
                      todo, arrivals, shutdown>>
      BY <2>1 DEF peersVars, setVars, loopVars, workVars
    <3>2. Agree'
      BY <3>1, MoveKeeps
    <3> QED
      BY <3>1, <3>2 DEF SessionsInv, PeersTypeOK
  <2>2. ASSUME NEW s \in Sessions,
               \/ HandshakeFails(s) \/ RunPeer(s) \/ ConnectionLost(s) \/ RunStep(s)
               \/ ReadMsg(s) \/ HandleMessage(s) \/ BlockLoopStep(s)
        PROVE  SessionsInv'
    BY <2>2, LifeStep, RunPeerStep, UnregisterStep, LoopStep, ReadStep, ResponseStep,
       NewBlockStep, NewBlockHashesStep
       DEF RunStep, HandleMessage
  <2> QED
    BY <2>1, <2>2, LoopStep, FetchStep, BridgeStep, BroadcastStep DEF PeersNext
<1>3. SessionsInv => PeersInv
  BY DEF SessionsInv, Agree, PeersInv
<1> QED
  BY <1>1, <1>2, <1>3, PTL DEF PeersSpec
==============================================================================
