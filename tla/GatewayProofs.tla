---------------------------- MODULE GatewayProofs ----------------------------
(***************************************************************************)
(* Proofs about Gateway and RelayConn: the invariant of the gateway, the   *)
(* order of transactions on a relay connection, and that a transaction     *)
(* goes one way, once.                                                     *)
(***************************************************************************)
EXTENDS Gateway, FiniteSetTheorems, SequenceTheorems, NaturalsInduction, WellFoundedInduction,
        TLAPS

-----------------------------------------------------------------------------
(* Sequences.                                                              *)

\* A message that moves from the channel to the writer stays in its place.
LEMMA MoveHead ==
    ASSUME NEW u \in Seq(Queued), NEW v \in Seq(Queued), NEW w \in Seq(Queued), w # <<>>
    PROVE  (u \o Append(v, Head(w))) \o Tail(w) = (u \o v) \o w
<1>1. /\ Head(w) \in Queued /\ Tail(w) \in Seq(Queued) /\ Len(Tail(w)) = Len(w) - 1
      /\ Len(w) \in Nat \ {0} /\ Head(w) = w[1]
      /\ \A i \in 1..Len(Tail(w)) : Tail(w)[i] = w[i + 1]
  BY HeadTailProperties, EmptySeq
<1>2. Append(v, Head(w)) \in Seq(Queued) /\ Len(Append(v, Head(w))) = Len(v) + 1
      /\ \A i \in 1..Len(v) + 1 : Append(v, Head(w))[i] = IF i <= Len(v) THEN v[i] ELSE w[1]
  BY <1>1
<1> DEFINE a == Append(v, Head(w))
           t == Tail(w)
           L == (u \o a) \o t
           R == (u \o v) \o w
<1>3. /\ u \o a \in Seq(Queued) /\ Len(u \o a) = Len(u) + Len(v) + 1 /\ L \in Seq(Queued)
      /\ Len(L) = Len(u) + Len(v) + Len(w)
      /\ u \o v \in Seq(Queued) /\ Len(u \o v) = Len(u) + Len(v) /\ R \in Seq(Queued)
      /\ Len(R) = Len(u) + Len(v) + Len(w)
      /\ Len(u) \in Nat /\ Len(v) \in Nat
  BY <1>1, <1>2, ConcatProperties
<1> HIDE DEF a, t
<1>4. ASSUME NEW i \in 1..Len(L) PROVE L[i] = R[i]
  <2>1. CASE i <= Len(u)
    BY <1>1, <1>2, <1>3, <2>1 DEF a, t
  <2>2. CASE i > Len(u) /\ i <= Len(u) + Len(v)
    BY <1>1, <1>2, <1>3, <2>2 DEF a, t
  <2>3. CASE i = Len(u) + Len(v) + 1
    BY <1>1, <1>2, <1>3, <2>3 DEF a, t
  <2>4. CASE i > Len(u) + Len(v) + 1
    <3>1. L[i] = t[i - (Len(u) + Len(v) + 1)]
      BY <1>1, <1>2, <1>3, <2>4 DEF a, t
    <3>2. R[i] = w[i - (Len(u) + Len(v))]
      BY <1>3, <2>4
    <3>3. t[i - (Len(u) + Len(v) + 1)] = w[i - (Len(u) + Len(v) + 1) + 1]
      BY <1>1, <1>3, <2>4 DEF t
    <3> QED
      BY <1>3, <3>1, <3>2, <3>3
  <2> QED
    BY SMTT(20), <1>3, <2>1, <2>2, <2>3, <2>4
<1>5. L = R
  BY <1>3, <1>4, SeqEqual
<1> QED
  BY <1>5 DEF a, t

\* A message that is queued comes after those that are on their way.
LEMMA QueueLast ==
    ASSUME NEW S, NEW u \in Seq(S), NEW v \in Seq(S), NEW q \in S
    PROVE  u \o Append(v, q) = Append(u \o v, q)
OBVIOUS

\* Appending to a sequence.
LEMMA AppendRange ==
    ASSUME NEW S, NEW s \in Seq(S), NEW e \in S
    PROVE  e \in Range(Append(s, e)) /\ Range(s) \subseteq Range(Append(s, e))
<1> DEFINE t == Append(s, e)
<1>1. /\ DOMAIN t = 1..Len(s) + 1 /\ t[Len(s) + 1] = e /\ Len(s) \in Nat
      /\ DOMAIN s = 1..Len(s) /\ \A i \in 1..Len(s) : t[i] = s[i]
  OBVIOUS
<1> HIDE DEF t
<1>2. e \in Range(t) /\ Range(s) \subseteq Range(t)
  BY <1>1 DEF Range
<1> QED
  BY <1>2 DEF t

\* A nonempty set of indices has a first one.
LEMMA LeastIndex ==
    ASSUME NEW S \in SUBSET Nat, S # {}
    PROVE  \E i \in S : \A j \in S : i <= j
<1>1. PICK i \in S : \A j \in S : ~(<<j, i>> \in OpToRel(<, Nat))
  BY NatLessThanWellFounded, WFMin
<1>2. \A j \in S : ~(j < i)
  BY <1>1 DEF OpToRel
<1> QED
  BY <1>2

\* Taking one element out of a sequence leaves the others.
LEMMA OthersStay ==
    ASSUME NEW S, NEW s \in Seq(S), NEW i \in 1..Len(s)
    PROVE  /\ RemoveAt(s, i) \in Seq(S)
           /\ \A x \in Range(s) : x # s[i] => x \in Range(RemoveAt(s, i))
<1> DEFINE a == SubSeq(s, 1, i - 1)
           b == SubSeq(s, i + 1, Len(s))
<1>1. /\ a \in Seq(S) /\ Len(a) = i - 1 /\ \A j \in 1..(i - 1) : a[j] = s[j]
      /\ b \in Seq(S) /\ Len(b) = Len(s) - i /\ \A j \in 1..(Len(s) - i) : b[j] = s[i + j]
  OBVIOUS
<1> HIDE DEF a, b
<1> DEFINE z == a \o b
<1>2. z \in Seq(S) /\ Len(z) = Len(s) - 1 /\ DOMAIN z = 1..Len(z)
  <2>1. z \in Seq(S) /\ Len(z) = Len(a) + Len(b)
    BY <1>1, ConcatProperties
  <2>2. DOMAIN z = 1..Len(z)
    <3> HIDE DEF z
    <3> QED
      BY <2>1, LenProperties
  <2>3. Len(s) \in Nat
    BY LenProperties
  <2> HIDE DEF z
  <2> QED
    BY <1>1, <2>1, <2>2, <2>3
<1>3. RemoveAt(s, i) = z
  BY DEF RemoveAt, a, b
<1>4. ASSUME NEW x \in Range(s), x # s[i] PROVE x \in Range(z)
  <2>1. PICK j \in 1..Len(s) : x = s[j]
    BY DEF Range
  <2>2. j # i
    BY <1>4, <2>1
  <2>3. \E k \in 1..Len(z) : z[k] = x
    <3>1. CASE j < i
      <4>1. j \in 1..Len(z) /\ z[j] = s[j]
        BY <1>1, <1>2, <3>1
      <4> QED
        BY <2>1, <4>1
    <3>2. CASE j > i
      <4>1. j - 1 \in 1..Len(z) /\ z[j - 1] = b[j - i] /\ b[j - i] = s[j]
        BY <1>1, <1>2, <3>2
      <4> QED
        BY <2>1, <4>1
    <3> QED
      BY <2>2, <3>1, <3>2
  <2> HIDE DEF z
  <2> QED
    BY <1>2, <2>3 DEF Range
<1> QED
  BY <1>2, <1>3, <1>4

\* A set without two elements.
LEMMA AtMostOne ==
    ASSUME NEW S, \A x, y \in S : x = y
    PROVE  Cardinality(S) \in {0, 1}
<1>1. CASE S = {}
  BY <1>1, FS_EmptySet
<1>2. CASE S # {}
  <2>1. PICK x \in S : TRUE
    BY <1>2
  <2>2. S = {x}
    BY <2>1
  <2> QED
    BY <2>2, FS_Singleton
<1> QED
  BY <1>1, <1>2

-----------------------------------------------------------------------------
(* The inductive invariant.                                                *)

\* Where the read loop of a connection is says which socket it has, and a connection
\* that was not closed is off the list only between a failed Connect and its
\* closeWithRetry: then another connection may have been taken for it.
LoopFits(c) ==
    /\ open[c] => sock[c] \in Nat \ {0}
    /\ readLoop[c] = "new" => sock[c] = 0
    /\ readLoop[c] = "failed" => sock[c] = Failed
    /\ readLoop[c] \in {"check", "read", "retry"} => sock[c] \in Nat \ {0}
    /\ sock[c] = Failed /\ c \notin wasClosed => readLoop[c] = "failed"
    /\ readLoop[c] # "new" /\ sock[c] # Failed /\ c \notin wasClosed => c \in Range(connections)

\* What is on its way to an open connection was queued for its socket, was broadcast,
\* and keeps the order of the broadcasts.
QueueFits(c) ==
    open[c] =>
        \A i \in 1..Len(InFlight(c)) :
            /\ InFlight(c)[i].sock = sock[c]
            /\ \E k \in 1..Len(broadcasts) : broadcasts[k] = InFlight(c)[i].msg
            /\ \A j \in 1..Len(InFlight(c)) : i < j =>
                  \E k, l \in 1..Len(broadcasts) :
                      /\ k < l
                      /\ broadcasts[k] = InFlight(c)[i].msg
                      /\ broadcasts[l] = InFlight(c)[j].msg

\* Everything that was sent somewhere is in the store, and was sent once.
WayFits ==
    /\ \A i \in 1..Len(broadcasts) : broadcasts[i] \in stored
    /\ \A i \in 1..Len(transactionsFromBDN) : transactionsFromBDN[i] \in stored
    /\ sending # None => sending \in stored
    /\ \A i \in 1..Len(broadcasts) : sending # broadcasts[i]
    /\ \A i \in 1..Len(transactionsFromBDN) : sending # transactionsFromBDN[i]
    /\ \A i, j \in 1..Len(broadcasts) : broadcasts[i] = broadcasts[j] => i = j
    /\ \A i, j \in 1..Len(transactionsFromBDN) :
          transactionsFromBDN[i] = transactionsFromBDN[j] => i = j
    /\ \A i \in 1..Len(broadcasts), j \in 1..Len(transactionsFromBDN) :
          broadcasts[i] # transactionsFromBDN[j]

GatewayFits ==
    /\ GatewayTypeOK
    /\ \A c \in Relays : LoopFits(c)
    /\ \A c \in Relays : QueueFits(c)
    /\ WayFits

-----------------------------------------------------------------------------
(* Types.                                                                  *)

\* close closes, and opens nothing.
LEMMA CloseFacts ==
    ASSUME ConnTypeOK, NEW S \in SUBSET Relays, closeAll(S)
    PROVE  /\ open' \in [Relays -> BOOLEAN] /\ broken' \in [Relays -> BOOLEAN]
           /\ cancelled' \in [Relays -> BOOLEAN]
           /\ \A c \in Relays : open'[c] => open[c]
           /\ \A c \in S : ~open'[c]
BY DEF ConnTypeOK, closeAll

\* Send puts a message into channels that have room.
LEMMA SendFacts ==
    ASSUME GatewayTypeOK, \A c \in Relays : LoopFits(c),
           NEW S \in SUBSET {c \in Relays : open[c]}, NEW m \in Messages, sendAll(S, m)
    PROVE  /\ sendMessages' \in [Relays -> Seq(Queued)]
           /\ \A c \in Relays : Len(sendMessages'[c]) <= SendChannelSize
           /\ closeAll({c \in S : Len(sendMessages[c]) = SendChannelSize})
<1>0. ConnTypeOK
  BY DEF GatewayTypeOK
<1>1. closeAll({c \in S : Len(sendMessages[c]) = SendChannelSize})
  BY DEF sendAll
<1>2. ASSUME NEW c \in Relays
      PROVE  LET q == IF c \in S \ {d \in S : Len(sendMessages[d]) = SendChannelSize}
                      THEN Append(sendMessages[c], [msg |-> m, sock |-> sock[c]])
                      ELSE sendMessages[c]
             IN  q \in Seq(Queued) /\ Len(q) <= SendChannelSize
  <2>1. /\ sendMessages[c] \in Seq(Queued) /\ Len(sendMessages[c]) <= SendChannelSize
        /\ SendChannelSize \in Nat /\ Len(sendMessages[c]) \in Nat
    BY <1>0, ConnAssumption, LenProperties DEF ConnTypeOK
  <2>2. c \in S => [msg |-> m, sock |-> sock[c]] \in Queued
    BY DEF LoopFits, Queued
  <2> QED
    BY <2>1, <2>2
<1>3. sendMessages' = [c \in Relays |->
             IF c \in S \ {d \in S : Len(sendMessages[d]) = SendChannelSize}
             THEN Append(sendMessages[c], [msg |-> m, sock |-> sock[c]])
             ELSE sendMessages[c]]
  BY DEF sendAll
<1> QED
  BY <1>1, <1>2, <1>3

\* OnConnClosed takes at most one connection off the list, one with the ID of c.
LEMMA ClosedFacts ==
    ASSUME ConnTypeOK, NEW c \in Relays, OnConnClosed(c)
    PROVE  /\ connections' \in Seq(Relays)
           /\ \A d \in Range(connections) : ~SameID(d, c) => d \in Range(connections')
<1> DEFINE same == {i \in 1..Len(connections) : SameID(connections[i], c)}
           first == CHOOSE i \in same : \A j \in same : i <= j
<1>0. connections \in Seq(Relays)
  BY DEF ConnTypeOK
<1>1. CASE same = {}
  BY <1>0, <1>1 DEF OnConnClosed
<1>2. CASE same # {}
  <2>1. \E i \in same : \A j \in same : i <= j
    <3>1. same \in SUBSET Nat
      OBVIOUS
    <3> HIDE DEF same
    <3> QED
      BY <1>2, <3>1, LeastIndex
  <2>2. first \in same
    BY <2>1
  <2>3. connections' = RemoveAt(connections, first)
    BY <1>2 DEF OnConnClosed
  <2>4. first \in 1..Len(connections) /\ SameID(connections[first], c)
    BY <2>2
  <2> HIDE DEF first
  <2>5. /\ connections' \in Seq(Relays)
        /\ \A x \in Range(connections) : x # connections[first] => x \in Range(connections')
    BY <1>0, <2>3, <2>4, OthersStay
  <2> QED
    BY <2>4, <2>5
<1> QED
  BY <1>1, <1>2

\* The steps of the connections.
ConnStep(c) ==
    \/ connectRelay(c) \/ Connect(c) \/ closeWithRetry(c) \/ Pause(c) \/ CheckOpen(c)
    \/ ReadFails(c) \/ ReadSucceeds(c) \/ TakeMessage(c) \/ Flush(c) \/ SendLoopDone(c)
    \/ Break(c) \/ DisconnectConn(c)

\* They keep the types of what they change.
LEMMA ConnTypes ==
    ASSUME ConnTypeOK, NEW c \in Relays, ConnStep(c)
    PROVE  ConnTypeOK'
<1> USE DEF ConnTypeOK
<1>1. CASE connectRelay(c)
  BY <1>1 DEF connectRelay, OnConnEstablished, sslVars
<1>2. CASE Connect(c)
  <2>1. CASE Connected(c)
    <3>1. UNCHANGED <<connections, wasClosed>>
          /\ readLoop' \in [Relays -> {"new", "connect", "failed", "check", "read", "retry", "pause"}]
      BY <1>2 DEF Connect
    <3>2. sock' \in [Relays -> {0, Failed} \cup Nat] /\ opened' \in [Relays -> Nat]
      BY <2>1 DEF Connected
    <3>3. /\ sendMessages' \in [Relays -> Seq(Queued)] /\ writer' \in [Relays -> Seq(Queued)]
          /\ wire' \in [Relays -> Seq(Queued)]
          /\ \A d \in Relays : Len(sendMessages'[d]) <= SendChannelSize
      <4>1. <<>> \in Seq(Queued) /\ Len(<<>>) <= SendChannelSize
        BY ConnAssumption
      <4> QED
        BY <2>1, <4>1 DEF Connected
    <3>4. /\ open' \in [Relays -> BOOLEAN] /\ broken' \in [Relays -> BOOLEAN]
          /\ cancelled' \in [Relays -> BOOLEAN] /\ sendLoop' \in [Relays -> {"none", "wait", "drain"}]
      BY <2>1 DEF Connected
    <3> QED
      BY <3>1, <3>2, <3>3, <3>4
  <2>2. CASE ~Connected(c)
    BY <1>2, <2>2 DEF Connect
  <2> QED
    BY <2>1, <2>2
<1>3. CASE closeWithRetry(c)
  <2>1. connections' \in Seq(Relays)
    BY <1>3, ClosedFacts DEF closeWithRetry
  <2> QED
    BY <1>3, <2>1, CloseFacts DEF closeWithRetry
<1>4. CASE Pause(c) \/ CheckOpen(c) \/ ReadSucceeds(c) \/ SendLoopDone(c) \/ Break(c)
  BY <1>4 DEF Pause, CheckOpen, ReadSucceeds, SendLoopDone, Break, sslVars
<1>5. CASE ReadFails(c) \/ DisconnectConn(c)
  BY <1>5, CloseFacts DEF ReadFails, DisconnectConn
<1>6. CASE TakeMessage(c)
  <2>1. /\ UNCHANGED <<sock, opened, wire, readLoop, connections, wasClosed>>
        /\ sendMessages[c] # <<>> /\ packAndWrite(c)
    BY <1>6 DEF TakeMessage
  <2>2. /\ Head(sendMessages[c]) \in Queued /\ Tail(sendMessages[c]) \in Seq(Queued)
        /\ Len(Tail(sendMessages[c])) <= SendChannelSize
    BY <2>1, HeadTailProperties, ConnAssumption, LenProperties
  <2>3. /\ sendMessages' \in [Relays -> Seq(Queued)]
        /\ \A d \in Relays : Len(sendMessages'[d]) <= SendChannelSize
        /\ sendLoop' \in [Relays -> {"none", "wait", "drain"}]
    BY <2>1, <2>2 DEF packAndWrite
  <2>4. writer' \in [Relays -> Seq(Queued)]
    <3>1. \/ UNCHANGED writer
          \/ writer' = [writer EXCEPT ![c] = Append(writer[c], Head(sendMessages[c]))]
      BY <2>1 DEF packAndWrite
    <3>2. Append(writer[c], Head(sendMessages[c])) \in Seq(Queued)
      BY <2>2
    <3> QED
      BY <3>1, <3>2
  <2>5. /\ open' \in [Relays -> BOOLEAN] /\ broken' \in [Relays -> BOOLEAN]
        /\ cancelled' \in [Relays -> BOOLEAN]
    BY <2>1, CloseFacts DEF packAndWrite
  <2> QED
    BY <2>1, <2>3, <2>4, <2>5
<1>7. CASE Flush(c)
  <2>1. wire[c] \o writer[c] \in Seq(Queued) /\ <<>> \in Seq(Queued)
    BY ConcatProperties
  <2>2. wire' \in [Relays -> Seq(Queued)] /\ writer' \in [Relays -> Seq(Queued)]
    <3>1. \/ UNCHANGED <<wire, writer>>
          \/ /\ wire' = [wire EXCEPT ![c] = wire[c] \o writer[c]]
             /\ writer' = [writer EXCEPT ![c] = <<>>]
      BY <1>7 DEF Flush
    <3>2. CASE UNCHANGED <<wire, writer>>
      BY <3>2
    <3>3. CASE /\ wire' = [wire EXCEPT ![c] = wire[c] \o writer[c]]
               /\ writer' = [writer EXCEPT ![c] = <<>>]
      <4> DEFINE w == wire[c] \o writer[c]
      <4>1. w \in Seq(Queued) /\ wire' = [wire EXCEPT ![c] = w]
        BY <2>1, <3>3
      <4> HIDE DEF w
      <4> QED
        BY <2>1, <3>3, <4>1
    <3> QED
      BY <3>1, <3>2, <3>3
  <2>3. sendLoop' \in [Relays -> {"none", "wait", "drain"}]
    BY <1>7 DEF Flush
  <2> QED
    BY <1>7, <2>2, <2>3 DEF Flush
<1> QED
  BY <1>1, <1>2, <1>3, <1>4, <1>5, <1>6, <1>7 DEF ConnStep

\* The steps of the gateway that are not those of a connection alone.
FlowStep ==
    \/ \E txs \in Batches : SendTransactionsToBDN(txs)
    \/ BridgeStep
    \/ \E c \in Relays, tx \in Messages : ProcessMessage(c, tx)

\* Every step is one or the other.
LEMMA StepKinds ==
    ASSUME GatewayNext
    PROVE  FlowStep \/ \E c \in Relays : ConnStep(c) /\ UNCHANGED txFlow
BY DEF GatewayNext, FlowStep, ConnStep, handleTransactions, handlePooledTransactions66

\* A channel of the bridge keeps its capacity.
LEMMA OfferFacts ==
    ASSUME NEW S, NEW s \in Seq(S), Len(s) <= TransactionBacklog, NEW m \in S
    PROVE  Offer(s, m) \in Seq(S) /\ Len(Offer(s, m)) <= TransactionBacklog
BY GatewayAssumption, LenProperties DEF Offer

\* Types of the gateway.
LEMMA FlowTypes ==
    ASSUME GatewayTypeOK, \A c \in Relays : LoopFits(c), FlowStep
    PROVE  GatewayTypeOK'
<1>0. /\ ConnTypeOK
      /\ transactionsFromNode \in Seq(Batches) /\ Len(transactionsFromNode) <= TransactionBacklog
      /\ transactionsFromBDN \in Seq(Messages) /\ Len(transactionsFromBDN) <= TransactionBacklog
      /\ batch \in Seq(Messages)
      /\ sending \in Messages \cup {None}
      /\ stored \subseteq Messages
      /\ broadcasts \in Seq(Messages)
      /\ received \in 0..MaxBatches
  BY DEF GatewayTypeOK
<1>1. CASE \E txs \in Batches : SendTransactionsToBDN(txs)
  <2>1. PICK txs \in Batches : SendTransactionsToBDN(txs)
    BY <1>1
  <2>2. /\ UNCHANGED <<connVars, transactionsFromBDN, batch, sending, stored, broadcasts>>
        /\ transactionsFromNode' = Offer(transactionsFromNode, txs)
        /\ received' \in 0..MaxBatches
    BY <1>0, <2>1, GatewayAssumption DEF SendTransactionsToBDN
  <2>3. /\ transactionsFromNode' \in Seq(Batches)
        /\ Len(transactionsFromNode') <= TransactionBacklog
    BY <1>0, <2>2, OfferFacts
  <2>4. ConnTypeOK'
    BY <1>0, <2>2 DEF ConnTypeOK, connVars, sslVars
  <2> QED
    BY <1>0, <2>2, <2>3, <2>4 DEF GatewayTypeOK
<1>2. CASE ReceiveNodeTransactions
  <2>1. /\ UNCHANGED <<connVars, transactionsFromBDN, sending, stored, broadcasts, received>>
        /\ transactionsFromNode # <<>> /\ batch' = Head(transactionsFromNode)
        /\ transactionsFromNode' = Tail(transactionsFromNode)
    BY <1>2 DEF ReceiveNodeTransactions
  <2>2. /\ batch' \in Batches /\ transactionsFromNode' \in Seq(Batches)
        /\ Len(transactionsFromNode') = Len(transactionsFromNode) - 1
    BY <1>0, <2>1, HeadTailProperties
  <2>3. batch' \in Seq(Messages) /\ Len(transactionsFromNode') <= TransactionBacklog
    BY <1>0, <2>2, GatewayAssumption, LenProperties
  <2>4. ConnTypeOK'
    BY <1>0, <2>1 DEF ConnTypeOK, connVars, sslVars
  <2> QED
    BY <1>0, <2>1, <2>2, <2>3, <2>4 DEF GatewayTypeOK
<1>3. CASE processNodeTransaction
  <2>1. /\ UNCHANGED <<connVars, transactionsFromNode, transactionsFromBDN, broadcasts, received>>
        /\ batch # <<>> /\ batch' = Tail(batch) /\ stored' = stored \cup {Head(batch)}
        /\ sending' \in {None, Head(batch)}
    BY <1>3 DEF processNodeTransaction
  <2>2. Head(batch) \in Messages /\ Tail(batch) \in Seq(Messages)
    BY <1>0, <2>1, HeadTailProperties
  <2>3. ConnTypeOK'
    BY <1>0, <2>1 DEF ConnTypeOK, connVars, sslVars
  <2> QED
    BY <1>0, <2>1, <2>2, <2>3 DEF GatewayTypeOK
<1>4. CASE broadcast
  <2> DEFINE S == {c \in Range(connections) : open[c]}
  <2>1. /\ sending # None /\ sendAll(S, sending) /\ broadcasts' = Append(broadcasts, sending)
        /\ sending' = None
        /\ UNCHANGED <<sock, opened, writer, wire, sendLoop, readLoop, connections, wasClosed,
                       transactionsFromNode, transactionsFromBDN, batch, stored, received>>
    BY <1>4 DEF broadcast
  <2>2. sending \in Messages /\ S \in SUBSET {c \in Relays : open[c]}
    BY <1>0, <2>1 DEF ConnTypeOK, Range
  <2> HIDE DEF S
  <2>3. /\ sendMessages' \in [Relays -> Seq(Queued)]
        /\ \A c \in Relays : Len(sendMessages'[c]) <= SendChannelSize
        /\ closeAll({c \in S : Len(sendMessages[c]) = SendChannelSize})
    BY <2>1, <2>2, SendFacts
  <2>4. /\ open' \in [Relays -> BOOLEAN] /\ broken' \in [Relays -> BOOLEAN]
        /\ cancelled' \in [Relays -> BOOLEAN]
    BY <1>0, <2>2, <2>3, CloseFacts
  <2>5. ConnTypeOK'
    BY <1>0, <2>1, <2>3, <2>4 DEF ConnTypeOK
  <2>6. broadcasts' \in Seq(Messages)
    BY <1>0, <2>1, <2>2
  <2> QED
    BY <1>0, <2>1, <2>5, <2>6 DEF GatewayTypeOK
<1>5. CASE \E c \in Relays, tx \in Messages : ProcessMessage(c, tx)
  <2>1. PICK c \in Relays, tx \in Messages : ReadSucceeds(c) /\ processRelayTransaction(tx)
    BY <1>5 DEF ProcessMessage, HandleMsg
  <2>2. ConnTypeOK'
    BY <1>0, <2>1, ConnTypes DEF ConnStep
  <2>3. Offer(transactionsFromBDN, tx) \in Seq(Messages)
        /\ Len(Offer(transactionsFromBDN, tx)) <= TransactionBacklog
    BY <1>0, OfferFacts
  <2>4. /\ UNCHANGED <<transactionsFromNode, batch, sending, broadcasts, received>>
        /\ stored' = stored \cup {tx}
        /\ transactionsFromBDN' \in {transactionsFromBDN, Offer(transactionsFromBDN, tx)}
    BY <2>1 DEF processRelayTransaction
  <2> QED
    BY <1>0, <2>2, <2>3, <2>4 DEF GatewayTypeOK
<1> QED
  BY <1>1, <1>2, <1>3, <1>4, <1>5 DEF FlowStep, BridgeStep

-----------------------------------------------------------------------------
(* The read loops and the list of connections.                             *)

\* A step that changes neither the sockets nor the list.
LEMMA LoopKept ==
    ASSUME NEW d \in Relays, LoopFits(d), open'[d] => open[d],
           UNCHANGED <<sock, connections, wasClosed>>, readLoop'[d] = readLoop[d]
    PROVE  LoopFits(d)'
BY DEF LoopFits

\* The steps of one connection; the other connections stay on the list.
LEMMA LoopConnStep ==
    ASSUME ConnTypeOK, \A d \in Relays : LoopFits(d), NEW c \in Relays, ConnStep(c)
    PROVE  \A d \in Relays : LoopFits(d)'
<1> SUFFICES ASSUME NEW d \in Relays PROVE LoopFits(d)'
  OBVIOUS
<1>0. /\ LoopFits(d) /\ LoopFits(c) /\ connections \in Seq(Relays)
      /\ sock \in [Relays -> {0, Failed} \cup Nat] /\ open \in [Relays -> BOOLEAN]
      /\ opened \in [Relays -> Nat]
      /\ readLoop \in [Relays -> {"new", "connect", "failed", "check", "read", "retry", "pause"}]
  BY DEF ConnTypeOK
<1>1. CASE connectRelay(c)
  <2>1. /\ readLoop[c] = "new" /\ connections' = Append(connections, c)
        /\ readLoop' = [readLoop EXCEPT ![c] = "connect"]
        /\ UNCHANGED <<sock, open, wasClosed>>
    BY <1>1 DEF connectRelay, OnConnEstablished, sslVars
  <2>2. c \in Range(connections') /\ Range(connections) \subseteq Range(connections')
    BY <1>0, <2>1, AppendRange
  <2>3. sock[c] = 0 /\ Failed # 0
    BY <1>0, <2>1 DEF LoopFits, Failed
  <2> QED
    BY <1>0, <2>1, <2>2, <2>3 DEF LoopFits
<1>2. CASE Connect(c)
  <2>1. UNCHANGED <<connections, wasClosed>> /\ readLoop[c] = "connect"
    BY <1>2 DEF Connect
  <2>2. CASE Connected(c) /\ readLoop' = [readLoop EXCEPT ![c] = "check"]
    <3>1. /\ sock' = [sock EXCEPT ![c] = opened[c] + 1] /\ open' = [open EXCEPT ![c] = TRUE]
          /\ opened[c] + 1 \in Nat \ {0} /\ Failed \notin Nat
      BY <1>0, <2>2 DEF Connected, Failed
    <3>2. c \notin wasClosed => c \in Range(connections)
      BY <1>0, <2>1 DEF LoopFits
    <3> QED
      BY <1>0, <2>1, <2>2, <3>1, <3>2 DEF LoopFits
  <2>3. CASE /\ sock' = [sock EXCEPT ![c] = Failed] /\ open' = [open EXCEPT ![c] = FALSE]
             /\ readLoop' = [readLoop EXCEPT ![c] = "failed"]
    BY <1>0, <2>1, <2>3 DEF LoopFits
  <2> QED
    BY <1>2, <2>2, <2>3 DEF Connect
<1>3. CASE closeWithRetry(c)
  <2>1. /\ readLoop[c] \in {"failed", "retry"} /\ OnConnClosed(c) /\ closeAll({c})
        /\ wasClosed' = wasClosed \cup {c} /\ UNCHANGED sock
        /\ readLoop' = [readLoop EXCEPT ![c] = "pause"]
    BY <1>3 DEF closeWithRetry
  <2>2. \A x \in Relays : open'[x] => open[x]
    BY <2>1, CloseFacts
  <2>3. CASE d = c
    BY <1>0, <2>1, <2>2, <2>3 DEF LoopFits
  <2>4. CASE d # c
    <3>1. sock[c] # 0
      BY <1>0, <2>1 DEF LoopFits, Failed
    <3>2. sock[d] # Failed => ~SameID(d, c)
      BY <2>4, <3>1 DEF SameID
    <3>3. sock[d] # Failed /\ d \in Range(connections) => d \in Range(connections')
      BY <2>1, <3>2, ClosedFacts
    <3> QED
      BY <1>0, <2>1, <2>2, <2>4, <3>3 DEF LoopFits
  <2> QED
    BY <2>3, <2>4
<1>4. CASE Pause(c)
  BY <1>0, <1>4 DEF Pause, sslVars, LoopFits
<1>5. CASE CheckOpen(c)
  BY <1>0, <1>5 DEF CheckOpen, sslVars, LoopFits
<1>6. CASE ReadFails(c)
  <2>1. \A x \in Relays : open'[x] => open[x]
    BY <1>6, CloseFacts DEF ReadFails
  <2> QED
    BY <1>0, <1>6, <2>1 DEF ReadFails, LoopFits
<1>7. CASE ReadSucceeds(c)
  BY <1>0, <1>7 DEF ReadSucceeds, sslVars, LoopFits
<1>8. CASE TakeMessage(c)
  <2>1. \A x \in Relays : open'[x] => open[x]
    BY <1>8, CloseFacts DEF TakeMessage, packAndWrite
  <2> QED
    BY <1>0, <1>8, <2>1, LoopKept DEF TakeMessage
<1>9. CASE Flush(c) \/ SendLoopDone(c) \/ Break(c)
  BY <1>0, <1>9, LoopKept DEF Flush, SendLoopDone, Break
<1>10. CASE DisconnectConn(c)
  <2>1. \A x \in Relays : open'[x] => open[x]
    BY <1>10, CloseFacts DEF DisconnectConn
  <2> QED
    BY <1>0, <1>10, <2>1, LoopKept DEF DisconnectConn
<1> QED
  BY <1>1, <1>2, <1>3, <1>4, <1>5, <1>6, <1>7, <1>8, <1>9, <1>10 DEF ConnStep

\* The steps of the gateway: broadcast may close connections, a read is one of a connection.
LEMMA LoopFlowStep ==
    ASSUME GatewayTypeOK, \A d \in Relays : LoopFits(d), FlowStep
    PROVE  \A d \in Relays : LoopFits(d)'
<1>0. ConnTypeOK
  BY DEF GatewayTypeOK
<1>1. CASE UNCHANGED connVars
  BY <1>1, LoopKept DEF connVars, sslVars
<1>2. CASE broadcast
  <2> DEFINE S == {c \in Range(connections) : open[c]}
  <2>1. /\ closeAll({c \in S : Len(sendMessages[c]) = SendChannelSize})
        /\ UNCHANGED <<sock, connections, wasClosed, readLoop>>
    BY <1>2 DEF broadcast, sendAll
  <2>2. S \in SUBSET Relays
    BY <1>0 DEF ConnTypeOK, Range
  <2> HIDE DEF S
  <2>3. \A x \in Relays : open'[x] => open[x]
    BY <1>0, <2>1, <2>2, CloseFacts
  <2> QED
    BY <2>1, <2>3, LoopKept
<1>3. CASE \E c \in Relays, tx \in Messages : ProcessMessage(c, tx)
  <2>1. PICK c \in Relays : ReadSucceeds(c)
    BY <1>3 DEF ProcessMessage
  <2>2. ConnStep(c)
    BY <2>1 DEF ConnStep
  <2> QED
    BY <1>0, <2>2, LoopConnStep
<1> QED
  BY <1>1, <1>2, <1>3 DEF FlowStep, BridgeStep, SendTransactionsToBDN, ReceiveNodeTransactions,
                          processNodeTransaction

-----------------------------------------------------------------------------
(* What is on its way to a connection.                                     *)

\* A step that adds nothing to what is on its way.
LEMMA QueueKept ==
    ASSUME NEW c \in Relays, QueueFits(c), UNCHANGED broadcasts,
           open'[c] => open[c] /\ sock'[c] = sock[c] /\ InFlight(c)' = InFlight(c)
    PROVE  QueueFits(c)'
BY DEF QueueFits

\* What is on its way is a sequence.
LEMMA FlightType ==
    ASSUME ConnTypeOK, NEW c \in Relays
    PROVE  InFlight(c) \in Seq(Queued) /\ wire[c] \o writer[c] \in Seq(Queued)
BY ConcatProperties DEF ConnTypeOK, InFlight

\* The steps of one connection: Connect starts with nothing, packAndWrite and Flush move
\* messages on in their order.
LEMMA QueueConnStep ==
    ASSUME ConnTypeOK, \A d \in Relays : QueueFits(d), NEW c \in Relays, ConnStep(c),
           UNCHANGED broadcasts
    PROVE  \A d \in Relays : QueueFits(d)'
<1> SUFFICES ASSUME NEW d \in Relays PROVE QueueFits(d)'
  OBVIOUS
<1>0. /\ QueueFits(d) /\ open \in [Relays -> BOOLEAN]
      /\ sendMessages \in [Relays -> Seq(Queued)] /\ writer \in [Relays -> Seq(Queued)]
      /\ wire \in [Relays -> Seq(Queued)] /\ sock \in [Relays -> {0, Failed} \cup Nat]
  BY DEF ConnTypeOK
<1>1. CASE /\ UNCHANGED <<sendMessages, writer, wire, sock>>
           /\ open'[d] => open[d]
  BY <1>0, <1>1, QueueKept DEF InFlight
<1>2. CASE \/ connectRelay(c) \/ closeWithRetry(c) \/ Pause(c) \/ CheckOpen(c) \/ ReadFails(c)
           \/ ReadSucceeds(c) \/ SendLoopDone(c) \/ Break(c) \/ DisconnectConn(c)
  <2>1. UNCHANGED <<sendMessages, writer, wire, sock>>
    BY <1>2 DEF connectRelay, closeWithRetry, Pause, CheckOpen, ReadFails, ReadSucceeds,
                SendLoopDone, Break, DisconnectConn, sslVars
  <2>2. UNCHANGED open \/ closeAll({c})
    BY <1>2 DEF connectRelay, closeWithRetry, Pause, CheckOpen, ReadFails, ReadSucceeds,
                SendLoopDone, Break, DisconnectConn, sslVars
  <2>3. open'[d] => open[d]
    BY <2>2, CloseFacts
  <2> QED
    BY <1>1, <2>1, <2>3
<1>3. CASE Connect(c)
  <2>1. CASE Connected(c)
    <3>1. CASE d = c
      <4>1. sendMessages'[c] = <<>> /\ writer'[c] = <<>> /\ wire'[c] = <<>>
        BY <1>0, <2>1 DEF Connected
      <4>2. InFlight(c)' = <<>>
        BY <4>1 DEF InFlight
      <4> QED
        BY <3>1, <4>2 DEF QueueFits
    <3>2. CASE d # c
      <4>1. /\ sendMessages'[d] = sendMessages[d] /\ writer'[d] = writer[d]
            /\ wire'[d] = wire[d] /\ sock'[d] = sock[d] /\ open'[d] = open[d]
        BY <1>0, <2>1, <3>2 DEF Connected
      <4> QED
        BY <1>0, <4>1, QueueKept DEF InFlight
    <3> QED
      BY <3>1, <3>2
  <2>2. CASE ~Connected(c)
    <3>1. /\ UNCHANGED <<sendMessages, writer, wire>> /\ sock' = [sock EXCEPT ![c] = Failed]
          /\ open' = [open EXCEPT ![c] = FALSE]
      BY <1>3, <2>2 DEF Connect
    <3>2. open'[d] => open[d] /\ sock'[d] = sock[d]
      BY <1>0, <3>1
    <3> QED
      BY <1>0, <3>1, <3>2, QueueKept DEF InFlight
  <2> QED
    BY <2>1, <2>2
<1>4. CASE TakeMessage(c)
  <2>1. /\ sendMessages[c] # <<>> /\ packAndWrite(c) /\ UNCHANGED <<sock, wire>>
        /\ sendMessages' = [sendMessages EXCEPT ![c] = Tail(sendMessages[c])]
    BY <1>4 DEF TakeMessage, packAndWrite
  <2>2. CASE closeAll({c}) /\ UNCHANGED writer
    <3>1. open'[d] => open[d] /\ d # c
      BY <2>2, CloseFacts
    <3> QED
      BY <1>0, <2>1, <2>2, <3>1, QueueKept DEF InFlight
  <2>3. CASE /\ writer' = [writer EXCEPT ![c] = IF open[c] THEN Append(@, Head(sendMessages[c])) ELSE @]
             /\ UNCHANGED open
    <3>1. CASE d # c
      BY <1>0, <2>1, <2>3, <3>1, QueueKept DEF InFlight
    <3>2. CASE d = c /\ open[c]
      <4>1. writer'[c] = Append(writer[c], Head(sendMessages[c]))
            /\ sendMessages'[c] = Tail(sendMessages[c])
        BY <1>0, <2>1, <2>3, <3>2
      <4>2. InFlight(c)' = InFlight(c)
        <5>1. InFlight(c)' = (wire[c] \o Append(writer[c], Head(sendMessages[c])))
                                 \o Tail(sendMessages[c])
          BY <2>1, <4>1 DEF InFlight
        <5>2. /\ wire[c] \in Seq(Queued) /\ writer[c] \in Seq(Queued)
              /\ sendMessages[c] \in Seq(Queued)
          BY <1>0
        <5> DEFINE u == wire[c]
                   v == writer[c]
                   w == sendMessages[c]
        <5>3. u \in Seq(Queued) /\ v \in Seq(Queued) /\ w \in Seq(Queued) /\ w # <<>>
          BY <2>1, <5>2
        <5> HIDE DEF u, v, w
        <5>4. (u \o Append(v, Head(w))) \o Tail(w) = (u \o v) \o w
          BY <5>3, MoveHead
        <5> QED
          BY <5>1, <5>4 DEF InFlight, u, v, w
      <4> QED
        BY <1>0, <2>1, <3>2, <4>2, QueueKept
    <3>3. CASE d = c /\ ~open[c]
      BY <2>3, <3>3 DEF QueueFits
    <3> QED
      BY <3>1, <3>2, <3>3
  <2> QED
    BY <2>1, <2>2, <2>3 DEF packAndWrite
<1>5. CASE Flush(c)
  <2>1. UNCHANGED <<sock, open, sendMessages>>
    BY <1>5 DEF Flush
  <2>2. CASE UNCHANGED <<writer, wire>>
    BY <1>1, <2>1, <2>2
  <2>3. CASE /\ wire' = [wire EXCEPT ![c] = wire[c] \o writer[c]]
             /\ writer' = [writer EXCEPT ![c] = <<>>]
    <3>1. CASE d # c
      BY <1>0, <2>1, <2>3, <3>1, QueueKept DEF InFlight
    <3>2. CASE d = c
      <4>1. wire'[c] = wire[c] \o writer[c] /\ writer'[c] = <<>>
        BY <1>0, <2>3
      <4>2. (wire[c] \o writer[c]) \o <<>> = wire[c] \o writer[c]
        BY FlightType, ConcatEmptySeq
      <4>3. InFlight(c)' = InFlight(c)
        BY <2>1, <4>1, <4>2 DEF InFlight
      <4> QED
        BY <1>0, <2>1, <3>2, <4>3, QueueKept
    <3> QED
      BY <3>1, <3>2
  <2> QED
    BY <1>5, <2>2, <2>3 DEF Flush
<1> QED
  BY <1>2, <1>3, <1>4, <1>5 DEF ConnStep

\* A broadcast appends to what is on its way, or closes the connection.
LEMMA QueueBroadcast ==
    ASSUME GatewayTypeOK, \A d \in Relays : LoopFits(d), \A d \in Relays : QueueFits(d), broadcast
    PROVE  \A d \in Relays : QueueFits(d)'
<1> SUFFICES ASSUME NEW d \in Relays, open'[d] PROVE QueueFits(d)'
  BY DEF QueueFits
<1> DEFINE S == {c \in Range(connections) : open[c]}
           full == {c \in S : Len(sendMessages[c]) = SendChannelSize}
<1>0. /\ ConnTypeOK /\ QueueFits(d) /\ LoopFits(d) /\ broadcasts \in Seq(Messages)
      /\ sendMessages \in [Relays -> Seq(Queued)] /\ writer \in [Relays -> Seq(Queued)]
      /\ wire \in [Relays -> Seq(Queued)]
  BY DEF GatewayTypeOK, ConnTypeOK
<1>1. /\ sending # None /\ broadcasts' = Append(broadcasts, sending)
      /\ UNCHANGED <<sock, writer, wire>> /\ closeAll(full)
      /\ sendMessages' = [c \in Relays |->
             IF c \in S \ full THEN Append(sendMessages[c], [msg |-> sending, sock |-> sock[c]])
             ELSE sendMessages[c]]
  BY DEF broadcast, sendAll
<1>2. sending \in Messages /\ S \in SUBSET Relays /\ full \in SUBSET S
  <2>1. sending \in Messages
    BY <1>1 DEF GatewayTypeOK
  <2>2. Range(connections) \subseteq Relays
    BY <1>0 DEF ConnTypeOK, Range
  <2> QED
    BY <2>1, <2>2
<1> HIDE DEF S, full
<1>3. open[d] /\ d \notin full
  BY <1>0, <1>1, <1>2, CloseFacts
<1> DEFINE f == InFlight(d)
           q == [msg |-> sending, sock |-> sock[d]]
<1>4. f \in Seq(Queued) /\ q \in Queued /\ Len(f) \in Nat
  <2>1. f \in Seq(Queued)
    BY <1>0, FlightType
  <2>2. sock[d] \in Nat
    BY <1>0, <1>3 DEF LoopFits
  <2> HIDE DEF f
  <2> QED
    BY <1>2, <2>1, <2>2 DEF Queued
<1>5. InFlight(d)' = f \/ InFlight(d)' = Append(f, q)
  <2>1. sendMessages'[d] \in {sendMessages[d], Append(sendMessages[d], q)}
    BY <1>1
  <2>2. (wire[d] \o writer[d]) \o Append(sendMessages[d], q) = Append(f, q)
    BY <1>0, <1>4, FlightType, QueueLast DEF InFlight
  <2> QED
    BY <1>1, <2>1, <2>2 DEF InFlight
<1>6. /\ Len(broadcasts) \in Nat /\ Len(broadcasts') = Len(broadcasts) + 1
      /\ \A k \in 1..Len(broadcasts) : broadcasts'[k] = broadcasts[k]
      /\ broadcasts'[Len(broadcasts) + 1] = sending
  BY <1>0, <1>1, <1>2
<1>7. \A i \in 1..Len(f) :
        /\ f[i].sock = sock[d]
        /\ \E k \in 1..Len(broadcasts) : broadcasts[k] = f[i].msg
        /\ \A j \in 1..Len(f) : i < j =>
              \E k, l \in 1..Len(broadcasts) :
                  k < l /\ broadcasts[k] = f[i].msg /\ broadcasts[l] = f[j].msg
  <2>1. QueueFits(d) /\ open[d]
    BY <1>0, <1>3
  <2> QED
    BY <2>1 DEF QueueFits
<1> DEFINE g == InFlight(d)'
           B == Len(broadcasts) + 1
<1>8. /\ Len(g) \in {Len(f), Len(f) + 1} /\ \A i \in 1..Len(f) : g[i] = f[i]
      /\ Len(g) = Len(f) + 1 => g[Len(f) + 1] = q
  BY <1>4, <1>5
<1>9. q.msg = sending /\ q.sock = sock[d] /\ sock'[d] = sock[d]
  BY <1>1
<1> HIDE DEF f, q, g
<1>10. ASSUME NEW i \in 1..Len(g)
       PROVE  /\ g[i].sock = sock'[d]
              /\ \E k \in 1..Len(broadcasts') : broadcasts'[k] = g[i].msg
  <2>1. CASE i \in 1..Len(f)
    <3>1. PICK k \in 1..Len(broadcasts) : broadcasts[k] = f[i].msg
      BY <1>7, <2>1
    <3>2. k \in 1..Len(broadcasts') /\ broadcasts'[k] = g[i].msg
      BY <1>6, <1>8, <2>1, <3>1
    <3>3. g[i].sock = sock'[d]
      BY <1>7, <1>8, <1>9, <2>1
    <3> QED
      BY <3>2, <3>3
  <2>2. CASE i = Len(f) + 1 /\ g[i] = q
    <3>1. B \in 1..Len(broadcasts') /\ broadcasts'[B] = g[i].msg
      BY <1>6, <1>9, <2>2
    <3> QED
      BY <1>9, <2>2, <3>1
  <2> QED
    BY <1>4, <1>8, <2>1, <2>2
<1>11. ASSUME NEW i \in 1..Len(g), NEW j \in 1..Len(g), i < j
       PROVE  \E k, l \in 1..Len(broadcasts') :
                 k < l /\ broadcasts'[k] = g[i].msg /\ broadcasts'[l] = g[j].msg
  <2>1. i \in 1..Len(f) /\ g[i] = f[i]
    BY <1>4, <1>8, <1>11
  <2>2. CASE j \in 1..Len(f)
    <3>1. PICK k, l \in 1..Len(broadcasts) :
             k < l /\ broadcasts[k] = f[i].msg /\ broadcasts[l] = f[j].msg
      BY <1>7, <1>11, <2>1, <2>2
    <3>2. k \in 1..Len(broadcasts') /\ l \in 1..Len(broadcasts') /\ g[j] = f[j]
      BY <1>6, <1>8, <2>2
    <3> QED
      BY <1>6, <2>1, <3>1, <3>2
  <2>3. CASE j = Len(f) + 1 /\ g[j] = q
    <3>1. PICK k \in 1..Len(broadcasts) : broadcasts[k] = f[i].msg
      BY <1>7, <2>1
    <3>2. k \in 1..Len(broadcasts') /\ B \in 1..Len(broadcasts') /\ k < B
          /\ broadcasts'[k] = g[i].msg /\ broadcasts'[B] = g[j].msg
      BY <1>6, <1>9, <2>1, <2>3, <3>1
    <3> QED
      BY <3>2
  <2> QED
    BY <1>4, <1>8, <2>2, <2>3
<1> QED
  BY <1>10, <1>11 DEF QueueFits, g

-----------------------------------------------------------------------------
(* The way of a transaction.                                               *)

\* What the proofs below use of the types; None is no transaction.
LEMMA FlowElements ==
    ASSUME GatewayTypeOK
    PROVE  /\ broadcasts \in Seq(Messages) /\ transactionsFromBDN \in Seq(Messages)
           /\ Len(broadcasts) \in Nat /\ Len(transactionsFromBDN) \in Nat
           /\ \A i \in 1..Len(broadcasts) : broadcasts[i] # None
           /\ \A i \in 1..Len(transactionsFromBDN) : transactionsFromBDN[i] # None
           /\ sending \in Messages \cup {None} /\ batch \in Seq(Messages)
BY GatewayAssumption, LenProperties, ElementOfSeq DEF GatewayTypeOK

\* The store reports a transaction as new once, to whoever brought it first.
LEMMA WayStep ==
    ASSUME GatewayTypeOK, WayFits, FlowStep \/ UNCHANGED txFlow
    PROVE  WayFits'
<1>1. CASE UNCHANGED <<broadcasts, transactionsFromBDN, sending, stored>>
  BY <1>1 DEF WayFits
<1>2. CASE processNodeTransaction
  <2>1. /\ UNCHANGED <<broadcasts, transactionsFromBDN>> /\ stored' = stored \cup {Head(batch)}
        /\ sending' = IF Head(batch) \in stored THEN None ELSE Head(batch)
    BY <1>2 DEF processNodeTransaction
  <2>2. CASE Head(batch) \in stored
    BY <2>1, <2>2, FlowElements DEF WayFits
  <2>3. CASE Head(batch) \notin stored
    BY <2>1, <2>3 DEF WayFits
  <2> QED
    BY <2>2, <2>3
<1>3. CASE broadcast
  <2>1. /\ sending # None /\ broadcasts' = Append(broadcasts, sending) /\ sending' = None
        /\ UNCHANGED <<transactionsFromBDN, stored>>
    BY <1>3 DEF broadcast
  <2>2. /\ Len(broadcasts') = Len(broadcasts) + 1 /\ broadcasts'[Len(broadcasts) + 1] = sending
        /\ \A i \in 1..Len(broadcasts) : broadcasts'[i] = broadcasts[i]
        /\ \A i \in 1..Len(broadcasts') : i \in 1..Len(broadcasts) \/ i = Len(broadcasts) + 1
    BY <2>1, FlowElements
  <2>3. \A i \in 1..Len(broadcasts') : broadcasts'[i] \in stored' /\ sending' # broadcasts'[i]
    BY <2>1, <2>2, FlowElements DEF WayFits
  <2>4. \A i, j \in 1..Len(broadcasts') : broadcasts'[i] = broadcasts'[j] => i = j
    BY <2>2 DEF WayFits
  <2>5. \A i \in 1..Len(broadcasts'), j \in 1..Len(transactionsFromBDN') :
           broadcasts'[i] # transactionsFromBDN'[j]
    BY <2>1, <2>2 DEF WayFits
  <2> QED
    BY <2>1, <2>3, <2>4, <2>5, FlowElements DEF WayFits
<1>4. CASE \E c \in Relays, tx \in Messages : ProcessMessage(c, tx)
  <2>1. PICK tx \in Messages : processRelayTransaction(tx)
    BY <1>4 DEF ProcessMessage, HandleMsg
  <2>2. UNCHANGED <<broadcasts, sending>> /\ stored' = stored \cup {tx}
    BY <2>1 DEF processRelayTransaction
  <2>3. CASE UNCHANGED transactionsFromBDN
    BY <2>2, <2>3 DEF WayFits
  <2>4. CASE tx \notin stored /\ transactionsFromBDN' = Append(transactionsFromBDN, tx)
    <3> DEFINE s == transactionsFromBDN
               n == Len(s) + 1
    <3>1. /\ Len(s') = n /\ s'[n] = tx /\ \A i \in 1..Len(s) : s'[i] = s[i]
          /\ \A i \in 1..Len(s') : i \in 1..Len(s) \/ i = n
      BY <2>4, FlowElements
    <3>2. \A i \in 1..Len(s') : s'[i] \in stored' /\ sending' # s'[i]
      BY <2>2, <2>4, <3>1, FlowElements, GatewayAssumption DEF WayFits
    <3>3. \A i, j \in 1..Len(s') : s'[i] = s'[j] => i = j
      BY <2>4, <3>1 DEF WayFits
    <3>4. \A i \in 1..Len(broadcasts'), j \in 1..Len(s') : broadcasts'[i] # s'[j]
      BY <2>2, <2>4, <3>1 DEF WayFits
    <3> QED
      BY <2>2, <3>2, <3>3, <3>4 DEF WayFits
  <2> QED
    BY <2>1, <2>3, <2>4 DEF processRelayTransaction, Offer
<1> QED
  BY <1>1, <1>2, <1>3, <1>4 DEF FlowStep, BridgeStep, SendTransactionsToBDN,
                                ReceiveNodeTransactions, txFlow

-----------------------------------------------------------------------------
(* The theorems.                                                           *)

\* Every step of the gateway and of its connections.
LEMMA GatewayStep == GatewayFits /\ [GatewayNext]_gatewayVars => GatewayFits'
<1> SUFFICES ASSUME GatewayFits, [GatewayNext]_gatewayVars PROVE GatewayFits'
  OBVIOUS
<1>0. /\ GatewayTypeOK /\ ConnTypeOK /\ WayFits
      /\ \A c \in Relays : LoopFits(c) /\ \A d \in Relays : QueueFits(d)
  BY DEF GatewayFits, GatewayTypeOK
<1>1. CASE \E c \in Relays : ConnStep(c) /\ UNCHANGED txFlow
  <2>1. PICK c \in Relays : ConnStep(c)
    BY <1>1
  <2>2. UNCHANGED txFlow
    BY <1>1
  <2>3. ConnTypeOK' /\ \A d \in Relays : LoopFits(d)'
    BY <1>0, <2>1, ConnTypes, LoopConnStep
  <2>4. \A d \in Relays : QueueFits(d)'
    BY <1>0, <2>1, <2>2, QueueConnStep DEF txFlow
  <2>5. WayFits'
    BY <1>0, <2>2, WayStep
  <2>6. GatewayTypeOK'
    BY <1>0, <2>2, <2>3 DEF GatewayTypeOK, txFlow
  <2> QED
    BY <2>3, <2>4, <2>5, <2>6 DEF GatewayFits
<1>2. CASE FlowStep
  <2>1. GatewayTypeOK' /\ WayFits' /\ \A d \in Relays : LoopFits(d)'
    BY <1>0, <1>2, FlowTypes, LoopFlowStep, WayStep
  <2>2. \A d \in Relays : QueueFits(d)'
    <3>1. CASE broadcast
      BY <1>0, <3>1, QueueBroadcast
    <3>2. CASE UNCHANGED <<connVars, broadcasts>>
      BY <1>0, <3>2, QueueKept DEF connVars, sslVars, InFlight
    <3>3. CASE \E c \in Relays, tx \in Messages : ProcessMessage(c, tx)
      <4>1. PICK c \in Relays, tx \in Messages : ReadSucceeds(c) /\ processRelayTransaction(tx)
        BY <3>3 DEF ProcessMessage, HandleMsg
      <4>2. ConnStep(c) /\ UNCHANGED broadcasts
        BY <4>1 DEF ConnStep, processRelayTransaction
      <4> QED
        BY <1>0, <4>2, QueueConnStep
    <3> QED
      BY <1>2, <3>1, <3>2, <3>3 DEF FlowStep, BridgeStep, SendTransactionsToBDN,
                                    ReceiveNodeTransactions, processNodeTransaction
  <2> QED
    BY <2>1, <2>2 DEF GatewayFits
<1>3. CASE UNCHANGED gatewayVars
  <2>1. UNCHANGED <<connVars, txFlow>>
    BY <1>3 DEF gatewayVars
  <2>2. GatewayTypeOK' /\ \A d \in Relays : LoopFits(d)'
    BY <1>0, <2>1 DEF GatewayTypeOK, ConnTypeOK, LoopFits, connVars, sslVars, txFlow
  <2>3. \A d \in Relays : QueueFits(d)'
    BY <1>0, <2>1, QueueKept DEF connVars, sslVars, InFlight, txFlow
  <2> QED
    BY <1>0, <2>1, <2>2, <2>3, WayStep DEF GatewayFits
<1> QED
  BY <1>1, <1>2, <1>3, StepKinds

\* No connection is open, nothing was sent.
LEMMA GatewayInitially == GatewayInit => GatewayFits
<1> SUFFICES ASSUME GatewayInit PROVE GatewayFits
  OBVIOUS
<1>1. ConnTypeOK
  <2>1. <<>> \in Seq(Queued) /\ <<>> \in Seq(Relays) /\ Len(<<>>) <= SendChannelSize
    BY ConnAssumption
  <2> QED
    BY <2>1 DEF GatewayInit, ConnInit, ConnTypeOK
<1>2. GatewayTypeOK
  BY <1>1, GatewayAssumption DEF GatewayInit, GatewayTypeOK
<1>3. \A c \in Relays : LoopFits(c) /\ QueueFits(c)
  BY DEF GatewayInit, ConnInit, LoopFits, QueueFits, Failed
<1>4. WayFits
  BY DEF GatewayInit, WayFits
<1> QED
  BY <1>2, <1>3, <1>4 DEF GatewayFits

\* The inductive invariant holds.
LEMMA GatewayAlways == GatewaySpec => []GatewayFits
<1>1. GatewayInit => GatewayFits
  BY GatewayInitially
<1>2. GatewayFits /\ [GatewayNext]_gatewayVars => GatewayFits'
  BY GatewayStep
<1> QED
  BY <1>1, <1>2, PTL DEF GatewaySpec

\* No channel overfills, a socket gets no message that was queued for an earlier one, and
\* a connection that was never closed is in the list the gateway broadcasts to.
THEOREM GatewayInvariant == GatewaySpec => []GatewayInv
<1>1. GatewayFits => GatewayInv
  <2> SUFFICES ASSUME GatewayFits PROVE GatewayInv
    OBVIOUS
  <2>0. ConnTypeOK /\ GatewayTypeOK
    BY DEF GatewayFits, GatewayTypeOK
  <2>1. FreshSocket
    <3> SUFFICES ASSUME NEW c \in Relays, open[c], NEW q \in Range(writer[c] \o wire[c])
                 PROVE  q.sock = sock[c]
      BY DEF FreshSocket
    <3> DEFINE u == wire[c]
               v == writer[c]
               w == sendMessages[c]
               f == InFlight(c)
    <3>1. u \in Seq(Queued) /\ v \in Seq(Queued) /\ w \in Seq(Queued) /\ f = (u \o v) \o w
      BY <2>0 DEF ConnTypeOK, InFlight
    <3>2. \A i \in 1..Len(f) : f[i].sock = sock[c]
      <4>1. QueueFits(c) /\ open[c]
        BY DEF GatewayFits
      <4> QED
        BY <4>1 DEF QueueFits
    <3>3. q \in Range(v \o u)
      OBVIOUS
    <3> HIDE DEF u, v, w, f
    <3>4. Len(u) \in Nat /\ Len(v) \in Nat /\ Len(w) \in Nat
          /\ v \o u \in Seq(Queued) /\ Len(v \o u) = Len(v) + Len(u)
          /\ u \o v \in Seq(Queued) /\ Len(u \o v) = Len(u) + Len(v)
          /\ Len(f) = Len(u) + Len(v) + Len(w)
      BY <3>1, ConcatProperties, LenProperties
    <3>5. PICK i \in 1..(Len(v) + Len(u)) : q = (v \o u)[i]
      BY <3>3, <3>4 DEF Range
    <3>6. \E j \in 1..Len(f) : f[j] = q
      <4>1. CASE i <= Len(v)
        <5>1. Len(u) + i \in 1..Len(f) /\ f[Len(u) + i] = q
          BY <3>1, <3>4, <3>5, <4>1
        <5> QED
          BY <5>1
      <4>2. CASE i > Len(v)
        <5>1. i - Len(v) \in 1..Len(f) /\ f[i - Len(v)] = q
          BY <3>1, <3>4, <3>5, <4>2
        <5> QED
          BY <5>1
      <4> QED
        BY <3>4, <4>1, <4>2
    <3> QED
      BY <3>2, <3>6
  <2>2. OpenIsListed
    BY DEF GatewayFits, OpenIsListed, LoopFits, Failed
  <2> QED
    BY <2>0, <2>1, <2>2 DEF GatewayInv
<1> QED
  BY <1>1, GatewayAlways, PTL

\* Each relay gets transactions in the order in which the gateway took them from its
\* peers, through the send channel, the buffered writer and reconnects.
THEOREM BroadcastOrder == GatewaySpec => []InBroadcastOrder
<1>1. GatewayFits => InBroadcastOrder
  BY DEF GatewayFits, QueueFits, InBroadcastOrder
<1> QED
  BY <1>1, GatewayAlways, PTL

\* A transaction goes to the relays or to the peers, and once, also when a peer and a
\* relay bring it at the same time.
THEOREM OneWay == GatewaySpec => []GoesOneWay
<1>1. GatewayFits => GoesOneWay
  <2> SUFFICES ASSUME GatewayFits PROVE GoesOneWay
    OBVIOUS
  <2>0. GatewayTypeOK /\ WayFits
    BY DEF GatewayFits
  <2> DEFINE b == broadcasts
             t == transactionsFromBDN
             toBDN == b \o (IF sending = None THEN <<>> ELSE <<sending>>)
  <2>1. /\ Len(b) \in Nat
        /\ Len(toBDN) = IF sending = None THEN Len(b) ELSE Len(b) + 1
        /\ \A i \in 1..Len(b) : toBDN[i] = b[i]
        /\ sending # None => toBDN[Len(b) + 1] = sending
    <3>1. b \in Seq(Messages) /\ Len(b) \in Nat /\ sending \in Messages \cup {None}
      BY <2>0, FlowElements
    <3>2. CASE sending = None
      BY <3>1, <3>2, ConcatEmptySeq
    <3>3. CASE sending # None
      <4>1. <<sending>> \in Seq(Messages) /\ Len(<<sending>>) = 1 /\ <<sending>>[1] = sending
        BY <3>1, <3>3
      <4> QED
        BY <3>1, <3>3, <4>1, ConcatProperties
    <3> QED
      BY <3>2, <3>3
  <2> SUFFICES ASSUME NEW tx \in Messages
               PROVE  Cardinality({i \in 1..Len(toBDN) : toBDN[i] = tx})
                          + Cardinality({i \in 1..Len(t) : t[i] = tx}) <= 1
    BY DEF GoesOneWay
  <2> HIDE DEF toBDN
  <2>2. \A i, j \in 1..Len(toBDN) : toBDN[i] = toBDN[j] => i = j
    BY <2>0, <2>1 DEF WayFits
  <2>3. \A i \in 1..Len(toBDN), j \in 1..Len(t) : toBDN[i] # t[j]
    BY <2>0, <2>1 DEF WayFits
  <2>4. \A i, j \in 1..Len(t) : t[i] = t[j] => i = j
    BY <2>0 DEF WayFits
  <2> DEFINE A == {i \in 1..Len(toBDN) : toBDN[i] = tx}
             B == {i \in 1..Len(t) : t[i] = tx}
  <2>5. Cardinality(A) \in {0, 1}
    <3>1. \A i, j \in A : i = j
      BY <2>2
    <3> HIDE DEF A
    <3> QED
      BY <3>1, AtMostOne
  <2>6. Cardinality(B) \in {0, 1}
    <3>1. \A i, j \in B : i = j
      BY <2>4
    <3> HIDE DEF B
    <3> QED
      BY <3>1, AtMostOne
  <2>7. A = {} \/ B = {}
    BY <2>3
  <2> HIDE DEF A, B
  <2>8. A = {} => Cardinality(A) = 0
    BY FS_EmptySet
  <2>9. B = {} => Cardinality(B) = 0
    BY FS_EmptySet
  <2>10. Cardinality(A) + Cardinality(B) <= 1
    BY <2>5, <2>6, <2>7, <2>8, <2>9
  <2> QED
    BY <2>10 DEF A, B
<1> QED
  BY <1>1, GatewayAlways, PTL
==============================================================================
