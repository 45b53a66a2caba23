--------------------------- MODULE PeerQueueProofs ---------------------------
(***************************************************************************)
(* Proofs about PeerQueue for every tree of blocks, every traffic and      *)
(* every capacity: the queue and the channels keep their bounds, a block   *)
(* goes out only after its parent, heights never fall, and a new head      *)
(* prunes no block that is still to come.                                  *)
(***************************************************************************)
EXTENDS PeerQueue, SequenceTheorems, NaturalsInduction, WellFoundedInduction, TLAPS

Heads == [height : Nat, hash : Blocks]

-----------------------------------------------------------------------------
(* Numbers, sequences and blocks.                                          *)

\* A block has a number.
LEMMA HeightNat ==
    ASSUME NEW b \in Blocks
    PROVE  Height(b) \in Nat
<1>1. b \in Seq(Nat)
  BY BlocksAssumption
<1> QED
  BY <1>1 DEF Height

\* A parent is one lower.
LEMMA ParentHeight ==
    ASSUME NEW b \in Blocks, NEW x, IsAncestor(b, 1, x)
    PROVE  Height(b) = Height(x) + 1
<1>1. b \in Seq(Nat) /\ Len(b) \in Nat /\ 1 <= Len(b)
  BY BlocksAssumption DEF IsAncestor, Height
<1>2. Len(b) - 1 \in Nat /\ \A i \in 1..(Len(b) - 1) : b[i] \in Nat
  BY <1>1
<1>3. Len(SubSeq(b, 1, Len(b) - 1)) = Len(b) - 1
  <2> DEFINE n == Len(b) - 1
  <2>1. n \in Nat /\ \A i \in 1..n : b[i] \in Nat
    BY <1>2
  <2> HIDE DEF n
  <2>2. Len(SubSeq(b, 1, n)) = IF 1 <= n THEN n - 1 + 1 ELSE 0
    BY <2>1, SubSeqProperties
  <2>3. Len(SubSeq(b, 1, n)) = n
    BY <2>1, <2>2
  <2> QED
    BY <2>3 DEF n
<1>4. x = SubSeq(b, 1, Len(b) - 1)
  BY DEF IsAncestor, Ancestor
<1>5. Len(x) = Len(b) - 1
  BY <1>3, <1>4
<1> QED
  BY <1>1, <1>5 DEF Height

\* A nonempty set of numbers has a least element.
LEMMA LeastNumber ==
    ASSUME NEW S \in SUBSET Nat, S # {}
    PROVE  \E n \in S : \A m \in S : n <= m
<1>1. PICK n \in S : \A m \in S : ~(<<m, n>> \in OpToRel(<, Nat))
  BY NatLessThanWellFounded, WFMin
<1>2. \A m \in S : ~(m < n)
  BY <1>1 DEF OpToRel
<1> QED
  BY <1>2

\* LastOf is the greatest element of a nonempty set of indices.
LEMMA LastOfFacts ==
    ASSUME NEW n \in Nat, NEW S \in SUBSET (1..n), S # {}
    PROVE  LastOf(S) \in S /\ \A j \in S : j <= LastOf(S)
<1> DEFINE T == {n - i : i \in S}
<1>1. T \in SUBSET Nat /\ T # {}
  <2>1. \A i \in S : n - i \in Nat
    OBVIOUS
  <2> QED
    BY <2>1
<1>2. PICK t \in T : \A m \in T : t <= m
  BY <1>1, LeastNumber
<1>3. PICK i \in S : t = n - i
  OBVIOUS
<1>4. \A j \in S : j <= i
  <2> TAKE j \in S
  <2>1. n - j \in T
    OBVIOUS
  <2>2. t <= n - j
    BY <1>2, <2>1
  <2> QED
    BY <1>3, <2>2
<1> QED
  BY <1>4 DEF LastOf

\* What is left of a sequence from its n-th element on.
LEMMA FromFacts ==
    ASSUME NEW S, NEW q \in Seq(S), NEW n \in 1..(Len(q) + 1)
    PROVE  /\ From(q, n) \in Seq(S)
           /\ Len(From(q, n)) = Len(q) - n + 1
           /\ \A i \in 1..(Len(q) - n + 1) : From(q, n)[i] = q[n + i - 1]
BY DEF From

-----------------------------------------------------------------------------
(* The scan of the queue.                                                  *)

\* The scan ends at the first block that is next or too high, or past the end.
LEMMA ScanEndFacts ==
    ASSUME NEW q \in Seq(Offered), NEW head \in Heads
    PROVE  /\ ScanEnd(q, head) \in 1..(Len(q) + 1)
           /\ \A j \in 1..(ScanEnd(q, head) - 1) : ~ExceedsHeight(q[j], head)
<1> DEFINE S == {i \in 1..(Len(q) + 1) :
                    i = Len(q) + 1 \/ IsNextBlock(q[i], head) \/ ExceedsHeight(q[i], head)}
<1>1. Len(q) + 1 \in S /\ S \in SUBSET Nat
  OBVIOUS
<1>2. PICK i \in S : \A m \in S : i <= m
  BY <1>1, LeastNumber
<1>3. \A j \in 1..(i - 1) : ~IsNextBlock(q[j], head) /\ ~ExceedsHeight(q[j], head)
  <2> TAKE j \in 1..(i - 1)
  <2>1. j \notin S
    BY <1>2
  <2> QED
    BY <2>1
<1> HIDE DEF S
<1>4. \E k \in 1..(Len(q) + 1) :
        /\ k = Len(q) + 1 \/ IsNextBlock(q[k], head) \/ ExceedsHeight(q[k], head)
        /\ \A j \in 1..(k - 1) : ~IsNextBlock(q[j], head) /\ ~ExceedsHeight(q[j], head)
  BY <1>3 DEF S
<1> QED
  BY <1>4 DEF ScanEnd

\* What the scan prunes lies in front of the block that ended it, and none of it is
\* too high; a block that is released comes first in what is left.
LEMMA BreakpointFacts ==
    ASSUME NEW q \in Seq(Offered), NEW head \in Heads
    PROVE  /\ Breakpoint(q, head) \in 0..Len(q)
           /\ \A j \in 1..Breakpoint(q, head) : ~ExceedsHeight(q[j], head)
           /\ Releases(q, head) => /\ Breakpoint(q, head) = ScanEnd(q, head) - 1
                                   /\ ScanEnd(q, head) \in 1..Len(q)
                                   /\ IsNextBlock(q[ScanEnd(q, head)], head)
<1>1. /\ ScanEnd(q, head) \in 1..(Len(q) + 1)
      /\ \A j \in 1..(ScanEnd(q, head) - 1) : ~ExceedsHeight(q[j], head)
  BY ScanEndFacts
<1>2. CASE ~Releases(q, head) /\ Siblings(q, head) # {}
  <2>1. ScanEnd(q, head) - 1 \in Nat /\ Siblings(q, head) \in SUBSET (1..(ScanEnd(q, head) - 1))
    BY <1>1 DEF Siblings
  <2>2. LastOf(Siblings(q, head)) \in 1..(ScanEnd(q, head) - 1)
    BY <1>2, <2>1, LastOfFacts
  <2> QED
    BY <1>1, <1>2, <2>2 DEF Breakpoint
<1>3. CASE Releases(q, head) \/ Siblings(q, head) = {}
  BY <1>1, <1>3 DEF Breakpoint, Releases
<1> QED
  BY <1>2, <1>3

\* An insertion makes the queue one block longer, the limit shortens it again.
LEMMA InsertedFacts ==
    ASSUME NEW q \in Seq(Offered), NEW b \in Offered, Len(q) <= BlockQueueMaxSize
    PROVE  /\ Trimmed(Inserted(q, b)) \in Seq(Offered)
           /\ Len(Trimmed(Inserted(q, b))) <= BlockQueueMaxSize
<1> DEFINE k == InsertionPoint(q, b)
           higher == {i \in 1..Len(q) : Height(q[i]) > Height(b)}
<1>1. k \in 1..(Len(q) + 1)
  <2>1. CASE higher = {}
    BY <2>1 DEF InsertionPoint
  <2>2. CASE higher # {}
    <3>1. LastOf(higher) \in higher
      <4>1. Len(q) \in Nat /\ higher \in SUBSET (1..Len(q))
        OBVIOUS
      <4> QED
        BY <2>2, <4>1, LastOfFacts
    <3> QED
      BY <2>2, <3>1 DEF InsertionPoint
  <2> QED
    BY <2>1, <2>2
<1> HIDE DEF k
<1>2. SubSeq(q, 1, k - 1) \in Seq(Offered) /\ Len(SubSeq(q, 1, k - 1)) = k - 1
  BY <1>1
<1>3. From(q, k) \in Seq(Offered) /\ Len(From(q, k)) = Len(q) - k + 1
  BY <1>1, FromFacts
<1>4. Inserted(q, b) \in Seq(Offered) /\ Len(Inserted(q, b)) = Len(q) + 1
  <2> DEFINE front == SubSeq(q, 1, k - 1)
             rest == From(q, k)
  <2>1. Inserted(q, b) = front \o <<b>> \o rest
    BY DEF Inserted, k
  <2>2. front \in Seq(Offered) /\ rest \in Seq(Offered) /\ <<b>> \in Seq(Offered)
    BY <1>2, <1>3
  <2>3. Len(front) = k - 1 /\ Len(rest) = Len(q) - k + 1 /\ Len(<<b>>) = 1
    BY <1>2, <1>3
  <2> HIDE DEF front, rest
  <2> DEFINE left == front \o <<b>>
  <2>4. left \in Seq(Offered) /\ Len(left) = k
    BY <1>1, <2>2, <2>3, ConcatProperties
  <2>5. Inserted(q, b) = left \o rest
    BY <2>1
  <2> HIDE DEF left
  <2>6. Inserted(q, b) \in Seq(Offered) /\ Len(Inserted(q, b)) = Len(left) + Len(rest)
    BY ZenonT(30), <2>2, <2>4, <2>5, ConcatProperties
  <2> QED
    BY <1>1, <2>3, <2>4, <2>6
<1> HIDE DEF higher
<1>5. CASE Len(Inserted(q, b)) > BlockQueueMaxSize
  <2>1. Len(Inserted(q, b)) - BlockQueueMaxSize + 1 \in 1..(Len(Inserted(q, b)) + 1)
    BY <1>4, <1>5, PeerAssumption
  <2> QED
    BY <1>4, <1>5, <2>1, FromFacts, PeerAssumption DEF Trimmed
<1>6. CASE Len(Inserted(q, b)) <= BlockQueueMaxSize
  BY <1>4, <1>6, PeerAssumption DEF Trimmed
<1> QED
  BY <1>4, <1>5, <1>6, PeerAssumption

-----------------------------------------------------------------------------
(* Type correctness.                                                       *)

\* An outgoing block is the first of a queue that holds offered blocks.
LEMMA HandleNewHeadType ==
    ASSUME PeerTypeOK, HandleNewHead
    PROVE  PeerTypeOK'
<1> DEFINE head == [height |-> Height(Head(newHeadCh)), hash |-> Head(newHeadCh)]
           kept == From(queuedBlocks, Breakpoint(queuedBlocks, head) + 1)
<1>1. /\ newHeadCh \in Seq(ReportedHeads) /\ newHeadCh # <<>>
      /\ newHeadCh' = Tail(newHeadCh) /\ UNCHANGED <<newBlockCh, link>>
  BY DEF PeerTypeOK, HandleNewHead
<1>2. Head(newHeadCh) \in ReportedHeads
  BY <1>1
<1>3. head \in Heads
  BY <1>2, HeightNat, PeerAssumption DEF Heads
<1>4. newHeadCh' \in Seq(ReportedHeads) /\ Len(newHeadCh') <= HeadBacklog
  BY <1>1, PeerAssumption DEF PeerTypeOK
<1>5. CASE Outdated(head)
  BY <1>1, <1>4, <1>5 DEF PeerTypeOK, HandleNewHead, SendNothing, link
<1>6. CASE ~Outdated(head)
  <2>1. confirmedHead' \in [height : Nat, hash : Blocks]
    BY <1>3, <1>6 DEF HandleNewHead, Heads
  <2>2. Breakpoint(queuedBlocks, head) \in 0..Len(queuedBlocks)
    BY <1>3, BreakpointFacts DEF PeerTypeOK
  <2>3. /\ kept \in Seq(Offered)
        /\ Len(kept) = Len(queuedBlocks) - Breakpoint(queuedBlocks, head)
    <3>1. Breakpoint(queuedBlocks, head) + 1 \in 1..(Len(queuedBlocks) + 1)
      BY <2>2 DEF PeerTypeOK
    <3> QED
      BY SMTT(20), <2>2, <3>1, FromFacts DEF PeerTypeOK
  <2>4. CASE Releases(queuedBlocks, head)
    <3>1. sendTopBlock(kept)
      BY <1>6, <2>4 DEF HandleNewHead
    <3>2. kept # <<>>
      <4>1. Breakpoint(queuedBlocks, head) = ScanEnd(queuedBlocks, head) - 1
            /\ ScanEnd(queuedBlocks, head) \in 1..Len(queuedBlocks)
        BY <1>3, <2>4, BreakpointFacts DEF PeerTypeOK
      <4> HIDE DEF kept, head
      <4> QED
        BY <2>3, <4>1 DEF PeerTypeOK
    <3>3. kept[1] \in Offered /\ Tail(kept) \in Seq(Offered) /\ Len(Tail(kept)) = Len(kept) - 1
      BY <2>3, <3>2
    <3>4. Height(kept[1]) \in Nat
      BY <3>3, HeightNat, PeerAssumption
    <3> HIDE DEF kept, head
    <3>5. queuedBlocks' \in Seq(Offered) /\ Len(queuedBlocks') <= BlockQueueMaxSize
      BY SMTT(20), <2>2, <2>3, <3>1, <3>3, PeerAssumption DEF PeerTypeOK, sendTopBlock
    <3>6. /\ sentHead' \in Nat
          /\ lastSent' \in Offered \cup {None} /\ confirmers' \subseteq Offered
      BY <3>1, <3>3, <3>4 DEF PeerTypeOK, sendTopBlock, sendNewBlock
    <3> QED
      BY <1>1, <1>4, <2>1, <3>5, <3>6 DEF PeerTypeOK, link
  <2>5. CASE ~Releases(queuedBlocks, head)
    <3>1. /\ queuedBlocks' = kept
          /\ sentHead' \in {head.height, sentHead}
          /\ UNCHANGED <<lastSent, confirmers>>
      BY <1>6, <2>5 DEF HandleNewHead, SendNothing
    <3>2. head.height \in Nat
      BY <1>3 DEF Heads
    <3> HIDE DEF kept, head
    <3>3. queuedBlocks' \in Seq(Offered) /\ Len(queuedBlocks') <= BlockQueueMaxSize
      BY <2>2, <2>3, <3>1, PeerAssumption DEF PeerTypeOK
    <3>4. sentHead' \in Nat
      BY <3>1, <3>2 DEF PeerTypeOK
    <3> QED
      BY <1>1, <1>4, <2>1, <3>1, <3>3, <3>4 DEF PeerTypeOK, link
  <2> QED
    BY <2>4, <2>5
<1> QED
  BY <1>5, <1>6

\* A block from newBlockCh keeps the types: the queue stays within its window and sorted.
LEMMA HandleNewBlockType ==
    ASSUME PeerTypeOK, HandleNewBlock
    PROVE  PeerTypeOK'
<1> DEFINE b == Head(newBlockCh)
<1>1. /\ newBlockCh \in Seq(Offered) /\ newBlockCh # <<>>
      /\ newBlockCh' = Tail(newBlockCh) /\ UNCHANGED <<confirmedHead, newHeadCh, link>>
  BY DEF PeerTypeOK, HandleNewBlock
<1>2. b \in Offered /\ Height(b) \in Nat
  BY <1>1, HeightNat, PeerAssumption
<1>3. newBlockCh' \in Seq(Offered) /\ Len(newBlockCh') <= BlockBacklog
  BY <1>1, PeerAssumption DEF PeerTypeOK
<1>4. sentHead' \in Nat /\ lastSent' \in Offered \cup {None} /\ confirmers' \subseteq Offered
  BY <1>2 DEF PeerTypeOK, HandleNewBlock, SendNothing, sendNewBlock
<1>5. queuedBlocks' = queuedBlocks \/ queuedBlocks' = Trimmed(Inserted(queuedBlocks, b))
  BY DEF HandleNewBlock
<1>6. queuedBlocks' \in Seq(Offered) /\ Len(queuedBlocks') <= BlockQueueMaxSize
  BY <1>2, <1>5, InsertedFacts DEF PeerTypeOK
<1> QED
  BY <1>1, <1>3, <1>4, <1>6 DEF PeerTypeOK, link

\* The actions of the other goroutines leave the queue and what was sent alone.
LEMMA OthersType ==
    ASSUME PeerTypeOK,
           \/ UNCHANGED peerVars
           \/ LeaveLoop
           \/ \E b \in Offered : ConfirmationTick(b)
           \/ \E b \in ReportedHeads : handleNewBlock(b)
           \/ \E packet \in HeaderPackets : updatePeerHead(packet)
           \/ \E b \in Offered : QueueNewBlock(b)
           \/ Disconnect \/ ConnectionLost \/ Stop
    PROVE  /\ PeerTypeOK'
           /\ UNCHANGED <<confirmedHead, sentHead, queuedBlocks, lastSent>>
<1>1. CASE UNCHANGED peerVars
  BY <1>1 DEF PeerTypeOK, peerVars, link
<1>2. CASE LeaveLoop
  BY <1>2 DEF PeerTypeOK, LeaveLoop, link
<1>3. ASSUME NEW b \in Offered, ConfirmationTick(b)
      PROVE  PeerTypeOK' /\ UNCHANGED <<confirmedHead, sentHead, queuedBlocks, lastSent>>
  BY <1>3 DEF PeerTypeOK, ConfirmationTick, link
<1>4. ASSUME NEW b \in ReportedHeads, UpdateHead(b)
      PROVE  PeerTypeOK' /\ UNCHANGED <<confirmedHead, sentHead, queuedBlocks, lastSent>>
  <2>1. newHeadCh' \in Seq(ReportedHeads) /\ Len(newHeadCh') <= HeadBacklog
    BY <1>4, PeerAssumption DEF PeerTypeOK, UpdateHead
  <2> QED
    BY <1>4, <2>1 DEF PeerTypeOK, UpdateHead, link
<1>5. ASSUME NEW packet \in HeaderPackets, updatePeerHead(packet)
      PROVE  PeerTypeOK' /\ UNCHANGED <<confirmedHead, sentHead, queuedBlocks, lastSent>>
  <2>1. PICK i \in DOMAIN packet : UpdateHead(packet[i])
    BY <1>5 DEF updatePeerHead
  <2>2. packet[i] \in ReportedHeads
    BY <2>1, PeerAssumption
  <2> QED
    BY <1>4, <2>1, <2>2
<1>6. ASSUME NEW b \in Offered, QueueNewBlock(b)
      PROVE  PeerTypeOK' /\ UNCHANGED <<confirmedHead, sentHead, queuedBlocks, lastSent>>
  <2>1. newBlockCh' \in Seq(Offered) /\ Len(newBlockCh') <= BlockBacklog
    BY <1>6, PeerAssumption DEF PeerTypeOK, QueueNewBlock
  <2> QED
    BY <1>6, <2>1 DEF PeerTypeOK, QueueNewBlock, link
<1>7. CASE Disconnect \/ ConnectionLost \/ Stop
  BY <1>7 DEF PeerTypeOK, Disconnect, ConnectionLost, Stop, link
<1> QED
  BY <1>1, <1>2, <1>3, <1>4, <1>5, <1>6, <1>7 DEF handleNewBlock

\* blockLoop, the message loop and the senders of other peers keep the queue within
\* BlockQueueMaxSize and both channels within their capacities, and hold offered blocks
\* and reported heads only.
THEOREM PeerTypes == PeerSpec => []PeerTypeOK
<1>1. PeerInit => PeerTypeOK
  <2> SUFFICES ASSUME PeerInit PROVE PeerTypeOK
    OBVIOUS
  <2>1. confirmedHead \in [height : Nat, hash : Blocks]
    BY PeerAssumption DEF PeerInit
  <2>2. /\ queuedBlocks \in Seq(Offered) /\ Len(queuedBlocks) <= BlockQueueMaxSize
        /\ newHeadCh \in Seq(ReportedHeads) /\ Len(newHeadCh) <= HeadBacklog
        /\ newBlockCh \in Seq(Offered) /\ Len(newBlockCh) <= BlockBacklog
    BY PeerAssumption DEF PeerInit
  <2> QED
    BY <2>1, <2>2 DEF PeerInit, PeerTypeOK, link
<1>2. PeerTypeOK /\ [PeerNext]_peerVars => PeerTypeOK'
  BY HandleNewHeadType, HandleNewBlockType, OthersType DEF PeerNext
<1> QED
  BY <1>1, <1>2, PTL DEF PeerSpec

-----------------------------------------------------------------------------
(* What blockLoop sends.                                                   *)

\* When a new head releases a queued block, the next block comes first in what is left.
LEMMA ReleasedBlock ==
    ASSUME PeerTypeOK, HandleNewHead
    PROVE  LET head == [height |-> Height(Head(newHeadCh)), hash |-> Head(newHeadCh)]
           IN  Releases(queuedBlocks, head) =>
                  IsNextBlock(From(queuedBlocks, Breakpoint(queuedBlocks, head) + 1)[1], head)
<1> DEFINE head == [height |-> Height(Head(newHeadCh)), hash |-> Head(newHeadCh)]
           kept == From(queuedBlocks, Breakpoint(queuedBlocks, head) + 1)
<1>1. head \in Heads
  <2>1. Head(newHeadCh) \in ReportedHeads
    BY DEF PeerTypeOK, HandleNewHead
  <2> QED
    BY <2>1, HeightNat, PeerAssumption DEF Heads
<1>2. SUFFICES ASSUME Releases(queuedBlocks, head)
               PROVE  IsNextBlock(kept[1], head)
  OBVIOUS
<1>4. /\ Breakpoint(queuedBlocks, head) = ScanEnd(queuedBlocks, head) - 1
      /\ ScanEnd(queuedBlocks, head) \in 1..Len(queuedBlocks)
      /\ IsNextBlock(queuedBlocks[ScanEnd(queuedBlocks, head)], head)
  BY <1>1, <1>2, BreakpointFacts DEF PeerTypeOK
<1>5. kept[1] = queuedBlocks[ScanEnd(queuedBlocks, head)]
  <2> DEFINE n == ScanEnd(queuedBlocks, head)
  <2>1. kept = From(queuedBlocks, n)
    BY <1>4
  <2>2. n \in 1..(Len(queuedBlocks) + 1) /\ 1 \in 1..(Len(queuedBlocks) - n + 1)
    BY <1>4 DEF PeerTypeOK
  <2> HIDE DEF n, kept
  <2>3. kept[1] = queuedBlocks[n + 1 - 1]
    BY <2>1, <2>2, FromFacts DEF PeerTypeOK
  <2> QED
    BY <2>2, <2>3 DEF n
<1> QED
  BY <1>4, <1>5

\* A new head releases a queued block only when it is the next block.
LEMMA HandleNewHeadSends ==
    ASSUME PeerTypeOK, HandleNewHead, lastSent' # lastSent
    PROVE  IsNextBlock(lastSent', confirmedHead')
<1> DEFINE head == [height |-> Height(Head(newHeadCh)), hash |-> Head(newHeadCh)]
           kept == From(queuedBlocks, Breakpoint(queuedBlocks, head) + 1)
<1>1. Releases(queuedBlocks, head) /\ confirmedHead' = head /\ sendTopBlock(kept)
  BY DEF HandleNewHead, SendNothing
<1>2. lastSent' = kept[1]
  BY <1>1 DEF sendTopBlock, sendNewBlock
<1> QED
  BY <1>1, <1>2, ReleasedBlock

\* A block from the channel goes out when it is the next block, or the first one.
LEMMA HandleNewBlockSends ==
    ASSUME HandleNewBlock, lastSent' # lastSent
    PROVE  /\ ~Stale(lastSent') /\ Ready(lastSent')
           /\ sentHead' = Height(lastSent') /\ UNCHANGED confirmedHead
BY DEF HandleNewBlock, SendNothing, sendNewBlock

\* Nobody but blockLoop sends blocks.
LEMMA OnlyBlockLoopSends ==
    ASSUME PeerTypeOK, [PeerNext]_peerVars, lastSent' # lastSent
    PROVE  HandleNewHead \/ HandleNewBlock
BY OthersType DEF PeerNext

\* Every NewBlock message that sendNewBlock puts on the wire carries a child of the head
\* the peer has confirmed, whatever was queued and in whatever order.
THEOREM ParentsFirst == PeerSpec => SentAfterParent
<1>1. PeerTypeOK /\ [PeerNext]_peerVars => [SendsChildOfHead]_peerVars
  <2> SUFFICES ASSUME PeerTypeOK, [PeerNext]_peerVars, lastSent' # lastSent
               PROVE  IsAncestor(lastSent', 1, confirmedHead'.hash)
    BY DEF SendsChildOfHead
  <2>1. CASE HandleNewHead
    BY <2>1, HandleNewHeadSends DEF IsNextBlock
  <2>2. CASE HandleNewBlock
    BY <2>2, HandleNewBlockSends DEF Ready, IsNextBlock
  <2> QED
    BY <2>1, <2>2, OnlyBlockLoopSends
<1> QED
  BY <1>1, PeerTypes, PTL DEF PeerSpec, SentAfterParent

\* The height of the last block sent is bounded by sentHead and by the height after
\* confirmedHead, whose height is the one of its hash.
SentInv ==
    /\ Height(confirmedHead.hash) = confirmedHead.height
    /\ lastSent # None => /\ Height(lastSent) <= sentHead
                          /\ Height(lastSent) <= confirmedHead.height + 1

\* What a step does to the two heads.
LEMMA SentInvStep ==
    ASSUME PeerTypeOK, SentInv, [PeerNext]_peerVars
    PROVE  SentInv' /\ SendsNoLowerBlock
<1>0. /\ confirmedHead.height \in Nat /\ confirmedHead.hash \in Blocks /\ sentHead \in Nat
      /\ lastSent # None => Height(lastSent) \in Nat
  BY HeightNat, PeerAssumption DEF PeerTypeOK
<1>1. CASE HandleNewHead
  <2> DEFINE head == [height |-> Height(Head(newHeadCh)), hash |-> Head(newHeadCh)]
  <2>1. Height(Head(newHeadCh)) \in Nat
    <3>1. Head(newHeadCh) \in ReportedHeads
      BY <1>1 DEF PeerTypeOK, HandleNewHead
    <3> QED
      BY <3>1, HeightNat, PeerAssumption
  <2>2. CASE Outdated(head)
    BY <1>0, <1>1, <2>2 DEF HandleNewHead, SendNothing, SentInv, SendsNoLowerBlock
  <2>3. CASE ~Outdated(head) /\ ~Releases(queuedBlocks, head)
    BY <1>0, <1>1, <2>1, <2>3 DEF HandleNewHead, SendNothing, SentInv, SendsNoLowerBlock, Outdated
  <2>4. CASE ~Outdated(head) /\ Releases(queuedBlocks, head)
    <3> DEFINE kept == From(queuedBlocks, Breakpoint(queuedBlocks, head) + 1)
    <3>1. confirmedHead' = head /\ sendTopBlock(kept)
      BY <1>1, <2>4 DEF HandleNewHead
    <3>2. Height(kept[1]) = head.height + 1
      BY <1>1, <2>4, ReleasedBlock DEF IsNextBlock, NextHeight
    <3> HIDE DEF kept
    <3>3. sentHead' = head.height + 1 /\ (lastSent' = kept[1] \/ lastSent' = lastSent)
      BY <3>1, <3>2 DEF sendTopBlock, sendNewBlock
    <3>4. head.height >= confirmedHead.height /\ head.height \in Nat
      BY <1>0, <2>1, <2>4 DEF Outdated
    <3>5. Height(head.hash) = head.height
      OBVIOUS
    <3> HIDE DEF head
    <3> QED
      BY <1>0, <3>1, <3>2, <3>3, <3>4, <3>5 DEF SentInv, SendsNoLowerBlock
  <2> QED
    BY <2>2, <2>3, <2>4
<1>2. CASE HandleNewBlock
  <2>1. UNCHANGED confirmedHead
    BY <1>2 DEF HandleNewBlock
  <2>2. CASE lastSent' = lastSent
    <3>1. sentHead' = sentHead \/ sentHead' > sentHead
      <4> DEFINE b == Head(newBlockCh)
      <4>1. Height(b) \in Nat
        <5>1. b \in Offered
          BY <1>2 DEF PeerTypeOK, HandleNewBlock
        <5> QED
          BY <5>1, HeightNat, PeerAssumption
      <4>2. sentHead' = sentHead \/ (~Stale(b) /\ sentHead' = Height(b))
        BY <1>2 DEF HandleNewBlock
      <4> QED
        BY <1>0, <4>1, <4>2 DEF Stale
    <3>2. sentHead' \in Nat
      BY <1>2, HandleNewBlockType DEF PeerTypeOK
    <3> QED
      BY <1>0, <2>1, <2>2, <3>1, <3>2 DEF SentInv, SendsNoLowerBlock
  <2>3. CASE lastSent' # lastSent
    <3>1. /\ ~Stale(lastSent') /\ Ready(lastSent') /\ sentHead' = Height(lastSent')
      BY <1>2, <2>3, HandleNewBlockSends
    <3>2. lastSent' \in Blocks /\ Height(lastSent') \in Nat
      BY <1>2, <2>3, HandleNewBlockType, HeightNat, PeerAssumption DEF HandleNewBlock, PeerTypeOK,
         SendNothing, sendNewBlock
    <3>3. Height(lastSent') <= confirmedHead.height + 1
      <4>1. CASE IsNextBlock(lastSent', confirmedHead)
        BY <1>0, <3>2, <4>1 DEF IsNextBlock, NextHeight
      <4>2. CASE IsAncestor(lastSent', 1, confirmedHead.hash)
        BY <1>0, <3>2, <4>2, ParentHeight DEF SentInv
      <4> QED
        BY <3>1, <4>1, <4>2 DEF Ready
    <3> QED
      BY <1>0, <2>1, <3>1, <3>2, <3>3 DEF SentInv, SendsNoLowerBlock, Stale
  <2> QED
    BY <2>2, <2>3
<1>3. CASE ~HandleNewHead /\ ~HandleNewBlock
  <2>1. UNCHANGED <<confirmedHead, sentHead, queuedBlocks, lastSent>>
    BY <1>3, OthersType DEF PeerNext
  <2> QED
    BY <1>0, <2>1 DEF SentInv, SendsNoLowerBlock
<1> QED
  BY <1>1, <1>2, <1>3

\* The heights of the NewBlock messages of one peer never fall, whatever heads it reports
\* and however the queue is ordered, when the hash of the gateway's own Status is the
\* genesis block's, as it is in every preset of network/preset.go.
THEOREM HeightsNeverFall ==
    ASSUME ConfigHead = <<>>
    PROVE  PeerSpec => SentNeverFalls
<1>1. PeerInit => SentInv
  BY DEF PeerInit, SentInv, Height
<1>2. PeerTypeOK /\ SentInv /\ [PeerNext]_peerVars => SentInv' /\ [SendsNoLowerBlock]_peerVars
  BY SentInvStep
<1> QED
  BY <1>1, <1>2, PeerTypes, PTL DEF PeerSpec, SentNeverFalls

-----------------------------------------------------------------------------
(* What blockLoop prunes.                                                  *)

\* A block of the queue that is too high for the head survives the pruning and, when the
\* first of the remaining blocks is sent, the removal of that one.
LEMMA PruningKeeps ==
    ASSUME NEW q \in Seq(Offered), NEW head \in Heads, NEW i \in 1..Len(q),
           ExceedsHeight(q[i], head)
    PROVE  /\ InQueue(q[i], From(q, Breakpoint(q, head) + 1))
           /\ Releases(q, head) => InQueue(q[i], Tail(From(q, Breakpoint(q, head) + 1)))
<1> DEFINE n == Breakpoint(q, head)
           kept == From(q, n + 1)
<1>1. /\ n \in 0..Len(q) /\ \A j \in 1..n : ~ExceedsHeight(q[j], head)
      /\ Releases(q, head) => /\ n = ScanEnd(q, head) - 1 /\ ScanEnd(q, head) \in 1..Len(q)
                              /\ IsNextBlock(q[ScanEnd(q, head)], head)
  BY BreakpointFacts
<1>2. i > n
  BY <1>1
<1>3. n + 1 \in 1..(Len(q) + 1)
  BY <1>1
<1> HIDE DEF n
<1>4. /\ kept \in Seq(Offered) /\ Len(kept) = Len(q) - n
      /\ \A j \in 1..(Len(q) - n) : kept[j] = q[n + j]
  <2>1. /\ kept \in Seq(Offered) /\ Len(kept) = Len(q) - (n + 1) + 1
        /\ \A j \in 1..(Len(q) - (n + 1) + 1) : kept[j] = q[(n + 1) + j - 1]
    BY <1>3, FromFacts
  <2> HIDE DEF kept
  <2>2. n \in Nat /\ Len(q) \in Nat
    BY <1>1
  <2>3. Len(q) - (n + 1) + 1 = Len(q) - n
    BY <2>2
  <2>4. ASSUME NEW j \in 1..(Len(q) - n) PROVE kept[j] = q[n + j]
    <3>1. (n + 1) + j - 1 = n + j
      BY <2>2
    <3> QED
      BY <2>1, <2>3, <3>1
  <2> QED
    BY <2>1, <2>3, <2>4
<1> HIDE DEF kept
<1>5. i - n \in 1..Len(kept) /\ kept[i - n] = q[i]
  BY <1>1, <1>2, <1>4
<1>6. InQueue(q[i], kept)
  BY <1>5 DEF InQueue
<1>7. ASSUME Releases(q, head) PROVE InQueue(q[i], Tail(kept))
  <2>1. i # ScanEnd(q, head)
    <3>1. Height(q[i]) \in Nat /\ head.height \in Nat
      BY HeightNat, PeerAssumption DEF Heads
    <3> QED
      BY <1>1, <1>7, <3>1 DEF IsNextBlock, NextHeight, ExceedsHeight
  <2>2. i - n - 1 \in 1..(Len(kept) - 1)
    BY <1>1, <1>2, <1>4, <1>5, <1>7, <2>1
  <2>3. Len(Tail(kept)) = Len(kept) - 1 /\ Tail(kept)[i - n - 1] = kept[i - n]
    BY <1>1, <1>4, <1>5, <2>2
  <2> QED
    BY <1>5, <2>2, <2>3 DEF InQueue
<1> QED
  BY <1>6, <1>7 DEF kept, n

\* A head that the peer reports prunes no queued block that is more than one block above
\* it: only the size limit, applied when another block is queued, drops those.
THEOREM FutureBlocksStay == PeerSpec => FutureBlocksKept
<1>1. PeerTypeOK /\ [PeerNext]_peerVars => [KeepsFutureBlocks]_peerVars
  <2> SUFFICES ASSUME PeerTypeOK, [PeerNext]_peerVars, newBlockCh' = newBlockCh,
                      NEW b \in Offered, InQueue(b, queuedBlocks),
                      ExceedsHeight(b, confirmedHead')
               PROVE  InQueue(b, queuedBlocks')
    BY DEF KeepsFutureBlocks
  <2>1. CASE HandleNewHead
    <3> DEFINE head == [height |-> Height(Head(newHeadCh)), hash |-> Head(newHeadCh)]
               kept == From(queuedBlocks, Breakpoint(queuedBlocks, head) + 1)
    <3>1. PICK i \in 1..Len(queuedBlocks) : queuedBlocks[i] = b
      BY DEF InQueue
    <3>2. head \in Heads
      <4>1. Head(newHeadCh) \in ReportedHeads
        BY <2>1 DEF PeerTypeOK, HandleNewHead
      <4> QED
        BY <4>1, HeightNat, PeerAssumption DEF Heads
    <3>3. CASE Outdated(head)
      BY <2>1, <3>3 DEF HandleNewHead
    <3>4. CASE ~Outdated(head)
      <4>1. ExceedsHeight(queuedBlocks[i], head)
        BY <2>1, <3>1, <3>4 DEF HandleNewHead
      <4>2. /\ InQueue(b, kept)
            /\ Releases(queuedBlocks, head) => InQueue(b, Tail(kept))
        BY <3>1, <3>2, <4>1, PruningKeeps DEF PeerTypeOK
      <4>3. queuedBlocks' = IF Releases(queuedBlocks, head) THEN Tail(kept) ELSE kept
        BY <2>1, <3>4 DEF HandleNewHead, sendTopBlock
      <4> HIDE DEF kept, head
      <4> QED
        BY <4>2, <4>3
    <3> QED
      BY <3>3, <3>4
  <2>2. CASE HandleNewBlock
    <3>1. newBlockCh' = Tail(newBlockCh) /\ newBlockCh # <<>> /\ newBlockCh \in Seq(Offered)
      BY <2>2 DEF HandleNewBlock, PeerTypeOK
    <3>2. Len(newBlockCh') = Len(newBlockCh) - 1 /\ Len(newBlockCh) \in Nat
      BY <3>1
    <3> QED
      BY <3>2
  <2>3. CASE ~HandleNewHead /\ ~HandleNewBlock
    <3>1. queuedBlocks' = queuedBlocks
      BY <2>3, OthersType DEF PeerNext
    <3> QED
      BY <3>1
  <2> QED
    BY <2>1, <2>2, <2>3
<1> QED
  BY <1>1, PeerTypes, PTL DEF PeerSpec, FutureBlocksKept
==============================================================================
