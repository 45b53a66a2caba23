-------------------------------- MODULE Chain --------------------------------
(***************************************************************************)
(* The block store and chain state of blockchain/eth/chain.go.             *)
(*                                                                         *)
(* Every exported operation of Chain is one action here, as if it ran      *)
(* alone: AddBlock, ConfirmBlock, MarkSentToBDN and clean hold chainLock   *)
(* for their whole body.  InitializeDifficulty and SetTotalDifficulty do   *)
(* not; what their interleavings add is the subject of ChainLocks.  The    *)
(* storeBlockMetadata call of the handler is in BlockRelay and ChainLocks. *)
(*                                                                         *)
(* A hash is its block (BlockTree), so a blockRef is the block itself.     *)
(* Operators that compute on the store take it as a parameter, so that an  *)
(* action can apply them to the store it is about to write.                *)
(***************************************************************************)
EXTENDS BlockTree, FiniteSets

CONSTANTS
    MaxReorg,       \* Chain.maxReorg
    MinValidChain,  \* Chain.minValidChain
    MaxSize,        \* the maxSize argument of clean
    MaxFuture,      \* maxFutureBlockNumber
    Seen,           \* the blocks that peers and the BDN deliver
    WithTD,         \* those of them that come with a usable total difficulty
    PeerHeads,      \* the heads that peers name in their Status messages
    None            \* "no entry" in blockHashToMetadata

Metadata == [height : Nat, sentToBDN : BOOLEAN, confirmed : BOOLEAN,
             confirmedMsgSent : BOOLEAN]

Sources == {"BSBDN", "BSBlockchain"}

ASSUME ChainAssumption ==
    /\ MaxReorg \in Nat \ {0}
    /\ MinValidChain \in Nat \ {0}
    /\ MaxSize \in Nat \ {0}
    /\ MaxFuture \in Nat
    /\ Seen \subseteq Blocks
    /\ WithTD \subseteq Seen
    /\ PeerHeads \subseteq Blocks
    /\ None \notin Metadata

VARIABLES
    chainState,   \* the canonical chain, newest block first
    headers,      \* blocks whose header is in heightToBlockHeaders
    statusHeads,  \* hashes stored at height 0 without a header
    metadata,     \* blockHashToMetadata
    bodies,       \* keys of blockHashToBody
    difficulties, \* keys of blockHashToDifficulty
    named         \* history: the blocks that Status messages have named

vars == <<chainState, headers, statusHeads, metadata, bodies, difficulties, named>>

TypeOK ==
    /\ chainState \in Seq(Blocks)
    /\ headers \subseteq Blocks
    /\ statusHeads \subseteq Blocks
    /\ metadata \in [Blocks -> Metadata \cup {None}]
    /\ bodies \subseteq Blocks
    /\ difficulties \subseteq Blocks
    /\ named \subseteq Blocks

Init ==
    /\ chainState = <<>>
    /\ headers = {}
    /\ statusHeads = {}
    /\ metadata = [b \in Blocks |-> None]
    /\ bodies = {}
    /\ difficulties = {}
    /\ named = {}

-----------------------------------------------------------------------------
(* Lookups.                                                                *)

\* Whether a block comes with a total difficulty.  One that is missing is kept as 0,
\* and one whose low 64 bits are not positive counts as missing.
TotalDifficulty(b) == b \in WithTD

Smaller(m, n) == IF m <= n THEN m ELSE n

\* chainState.head().height, 0 for an empty chain
BestHeight == IF chainState = <<>> THEN 0 ELSE Height(chainState[1])

HasBlock(b) == metadata[b] # None /\ b \in bodies

HasSentToBDN(b) == metadata[b] # None /\ metadata[b].sentToBDN

HasConfirmedBlock(b) == metadata[b] # None /\ metadata[b].confirmed

\* "nil" as TRUE: not already seen, and not too far in the future
ValidateBlock(b) ==
    /\ ~(HasBlock(b) /\ HasSentToBDN(b) /\ HasConfirmedBlock(b))
    /\ BestHeight # 0 => Height(b) <= BestHeight + MaxFuture

\* getBlockHeader for the block reached from b by k parent links.  Headers are
\* filed under their own number, so the height of the lookup is implied.
StoredAncestor(hs, b, k) == k <= Height(b) /\ Ancestor(b, k) \in hs

\* The longest run of entries, from the head, that GetNewHeadsForBDN(count)
\* collects.  An entry already sent ends the run; so does a gap in the store.
GetNewHeadsForBDN(count) ==
    LET fresh(b)  == /\ metadata[b] # None /\ ~metadata[b].sentToBDN
                     /\ b \in headers /\ b \in bodies
        length    == CHOOSE n \in 0..Smaller(count, Len(chainState)) :
                        /\ \A i \in 1..n : fresh(chainState[i])
                        /\ \/ n = Smaller(count, Len(chainState))
                           \/ ~fresh(chainState[n + 1])
    IN  SubSeq(chainState, 1, length)

\* A lookup by index alone, without the header's own number.
LookupByIndex(h) ==
    IF chainState = <<>> THEN "missing"
    ELSE IF BestHeight < h THEN "future"
    ELSE IF BestHeight - h < Len(chainState) THEN "found" ELSE "missing"

\* The header at a height of the canonical chain: the entry is found by its
\* distance from the head, and its header by the requested height.
\* "future" is the nil header, "missing" the error.
getHeaderAtHeight(h) ==
    LET index == BestHeight - h
    IN  IF chainState = <<>> THEN "missing"
        ELSE IF index < 0 THEN "future"
        ELSE IF /\ index < Len(chainState)
                /\ Height(chainState[index + 1]) = h
                /\ chainState[index + 1] \in headers
             THEN "found" ELSE "missing"

HeaderAtHeight(h) == chainState[BestHeight - h + 1]

\* A query starts at a number, or at a hash when the number is 0.
ByNumber(n) == [number |-> n, hash |-> None]
ByHash(b) == [number |-> 0, hash |-> b]

\* getBlockHeader at the height that the metadata of b records.  A Status message
\* records 0, where the code finds only an entry without a header.
HeaderByMetadata(b) ==
    /\ b # None /\ metadata[b] # None
    /\ metadata[b].height = Height(b) /\ b \in headers

\* The answer to GetHeaders for a count of at least one; <<>> stands for every error.
\* After the first header only canonical ones follow, up to the first height beyond
\* the head, also when the first one was asked for by hash and is not canonical.
GetHeaders(start, count, increment) ==
    LET byHash(i)  == i = 1 /\ start.number = 0
        height(i)  == (i - 1) * increment
                        + IF start.number > 0 THEN start.number ELSE Height(start.hash)
        answered   == {1} \cup {i \in 2..count :
                                   \A j \in 2..i : getHeaderAtHeight(height(j)) # "future"}
        stored(i)  == IF byHash(i) THEN HeaderByMetadata(start.hash)
                      ELSE getHeaderAtHeight(height(i)) = "found"
    IN  IF \/ start.number > BestHeight
           \/ /\ start.number > 0 /\ chainState # <<>>
              /\ start.number < Height(chainState[Len(chainState)])
           \/ \E i \in answered : ~stored(i)
        THEN <<>>
        ELSE [i \in answered |-> IF byHash(i) THEN start.hash ELSE HeaderAtHeight(height(i))]

\* The answer to a peer.  The first request of a session, unless it comes after
\* checkpointTimeout, is about a checkpoint and is answered with an empty list.
answerGetBlockHeaders(checkpointPassed, start, count, increment) ==
    IF checkpointPassed THEN GetHeaders(start, count, increment) ELSE <<>>

\* The bodies for a list of hashes are all there, or the answer is ErrBodyNotFound.
GetBodies(hs) == \A i \in 1..Len(hs) : hs[i] \in bodies

\* A missing body makes the whole answer empty.
answerGetBlockBodies(hs) == IF GetBodies(hs) THEN hs ELSE <<>>

\* The block returned by BlockAtDepth(depth), None for an error.  Its header
\* is the one at the height of the entry, its body the one of the entry.
BlockAtDepth(depth) ==
    IF /\ depth < Len(chainState)
       /\ getHeaderAtHeight(Height(chainState[depth + 1])) = "found"
       /\ chainState[depth + 1] \in bodies
    THEN HeaderAtHeight(Height(chainState[depth + 1])) ELSE None

-----------------------------------------------------------------------------
(* updateChainState: the new chain state and the number of new heads.      *)

Updated(chain, added) == [chain |-> chain, added |-> added]

Gap(c, b) == Height(b) - Height(c[1])

\* The entry at which the backward search of a reorganization stops: the first
\* one that the branch of b passes through, Len(c) when there is none.
ForkIndex(c, b) ==
    CHOOSE i \in 0..Len(c) :
        /\ i = Len(c) \/ IsAncestor(b, Gap(c, b) + i, c[i + 1])
        /\ \A j \in 0..(i - 1) : ~IsAncestor(b, Gap(c, b) + j, c[j + 1])

\* Recombining one entry too late drops the common ancestor.
RecombineAfterAncestor(c, hs, b) ==
    LET added == Gap(c, b) + ForkIndex(c, b)
    IN  IF \E j \in 0..(added - 1) : ~StoredAncestor(hs, b, j)
        THEN Updated(c, 0)
        ELSE Updated(Path(b, added) \o SubSeq(c, ForkIndex(c, b) + 2, Len(c)), added)

reorganize(c, hs, b) ==
    LET gap  == Gap(c, b)
        fork == ForkIndex(c, b)
    IN  IF \E j \in 0..(Smaller(fork, MaxReorg) - 1) : ~StoredAncestor(hs, b, gap + j)
        THEN Updated(c, 0)
        ELSE IF fork >= MaxReorg
        THEN Updated(Path(b, gap + MaxReorg), gap + MaxReorg)
        ELSE Updated(Path(b, gap + fork) \o SubSeq(c, fork + 1, Len(c)), gap + fork)

\* A canonical block in the past becomes the head again.
RewindToPast(c, hs, b) ==
    IF c = <<>> THEN Updated(<<b>>, 1)
    ELSE IF \E i \in 1..Len(c) : c[i] = b
    THEN Updated(SubSeq(c, CHOOSE i \in 1..Len(c) : c[i] = b, Len(c)), 0)
    ELSE IF IsAncestor(b, 1, c[1]) THEN Updated(<<b>> \o c, 1) ELSE Updated(c, 0)

\* A child of the head is prepended at once and, because that branch does not
\* return, once more when the chain is reconciled.
updateChainState(c, hs, b) ==
    IF c = <<>> THEN Updated(<<b>>, 1)
    ELSE LET gap  == Gap(c, b)
             base == IF IsAncestor(b, 1, c[1]) THEN <<b>> \o c ELSE c
         IN  IF gap <= 0 THEN Updated(c, 0)
             ELSE IF \E k \in 0..(Smaller(gap, MinValidChain) - 1) : ~StoredAncestor(hs, b, k)
             THEN Updated(base, 0)
             ELSE IF gap >= MinValidChain
             THEN Updated(Path(b, MinValidChain), MinValidChain)
             ELSE IF IsAncestor(b, gap, c[1])
             THEN Updated(Path(b, gap) \o base, gap)
             ELSE reorganize(c, hs, b)

-----------------------------------------------------------------------------
(* Writes.                                                                 *)

\* SetIfAbsent without the merge of the flags.
SetIfAbsentOnly(m, b, height, confirmed, confirmedMsgSent) ==
    [m EXCEPT ![b] =
        IF m[b] = None
        THEN [height |-> height, sentToBDN |-> FALSE, confirmed |-> confirmed,
              confirmedMsgSent |-> confirmedMsgSent]
        ELSE m[b]]

\* The flags of an existing entry only ever rise; its height is kept.
storeBlockMetadata(m, b, height, confirmed, confirmedMsgSent) ==
    [m EXCEPT ![b] =
        IF m[b] = None
        THEN [height |-> height, sentToBDN |-> FALSE, confirmed |-> confirmed,
              confirmedMsgSent |-> confirmedMsgSent]
        ELSE [m[b] EXCEPT !.confirmed = m[b].confirmed \/ confirmed,
                          !.confirmedMsgSent = m[b].confirmedMsgSent \/ confirmedMsgSent]]

\* A block without a total difficulty leaves the difficulties alone.
storeBlock(b) ==
    /\ headers' = headers \cup {b}
    /\ bodies' = bodies \cup {b}
    /\ difficulties' = difficulties \cup (IF TotalDifficulty(b) THEN {b} ELSE {})

AddBlock(b, source) ==
    /\ metadata' = storeBlockMetadata(metadata, b, Height(b), source = "BSBlockchain", FALSE)
    /\ IF HasBlock(b)
       THEN UNCHANGED <<headers, bodies, difficulties>>
       ELSE storeBlock(b)
    /\ chainState' = IF source = "BSBDN" THEN chainState
                     ELSE updateChainState(chainState, headers', b).chain
    /\ UNCHANGED <<statusHeads, named>>

\* The header is looked up at the height the metadata recorded, which is 0 for
\* a hash first heard of in a Status message.
ConfirmBlock(b) ==
    /\ metadata[b] # None
    /\ metadata' = [metadata EXCEPT ![b].confirmed = TRUE]
    /\ chainState' = IF metadata[b].height = Height(b) /\ b \in headers
                     THEN updateChainState(chainState, headers, b).chain
                     ELSE chainState
    /\ UNCHANGED <<headers, statusHeads, bodies, difficulties, named>>

MarkSentToBDN(b) ==
    /\ metadata[b] # None
    /\ metadata' = [metadata EXCEPT ![b].sentToBDN = TRUE]
    /\ UNCHANGED <<chainState, headers, statusHeads, bodies, difficulties, named>>

InitializeDifficulty(b) ==
    /\ difficulties' = difficulties \cup {b}
    /\ statusHeads' = statusHeads \cup {b}
    /\ metadata' = storeBlockMetadata(metadata, b, 0, TRUE, FALSE)
    /\ named' = named \cup {b}
    /\ UNCHANGED <<chainState, headers, bodies>>

SetTotalDifficulty(b) ==
    /\ ~TotalDifficulty(b)
    /\ Height(b) > 0 /\ Ancestor(b, 1) \in difficulties
    /\ difficulties' = difficulties \cup {b}
    /\ UNCHANGED <<chainState, headers, statusHeads, metadata, bodies, named>>

\* The keys of heightToBlockHeaders
StoredHeights == {Height(b) : b \in headers} \cup {0 : b \in statusHeads}

minHeight == Height(chainState[1]) - MaxSize + 1

\* The lowest height to keep is pruned as well.
EvictedOffByOne ==
    {b \in headers : Height(b) <= minHeight} \cup {b \in statusHeads : 0 < minHeight}

\* The hashes filed under a height below minHeight
Evicted ==
    {b \in headers : Height(b) < minHeight} \cup {b \in statusHeads : 0 < minHeight}

Truncate(c) == SubSeq(c, 1, Smaller(Len(c), MaxSize))

\* The metadata stays behind.
PruneWithoutMetadata(hashes) ==
    /\ bodies' = bodies \ hashes
    /\ difficulties' = difficulties \ hashes
    /\ UNCHANGED metadata

pruneHash(hashes) ==
    /\ metadata' = [b \in Blocks |-> IF b \in hashes THEN None ELSE metadata[b]]
    /\ bodies' = bodies \ hashes
    /\ difficulties' = difficulties \ hashes

\* A cleanup that finds too few heights changes nothing and is left out.
clean ==
    /\ chainState # <<>>
    /\ Cardinality(StoredHeights) >= MaxSize
    /\ headers' = {b \in headers : Height(b) >= minHeight}
    /\ statusHeads' = {b \in statusHeads : 0 >= minHeight}
    /\ pruneHash(Evicted)
    /\ chainState' = Truncate(chainState)
    /\ UNCHANGED named

\* The handler marks blocks it took from the canonical chain.
Next ==
    \/ \E b \in Seen, source \in Sources : AddBlock(b, source)
    \/ \E b \in Seen : ConfirmBlock(b)
    \/ \E i \in 1..Len(chainState) : MarkSentToBDN(chainState[i])
    \/ \E b \in PeerHeads : InitializeDifficulty(b)
    \/ \E b \in Seen : SetTotalDifficulty(b)
    \/ clean

Spec == Init /\ [][Next]_vars

-----------------------------------------------------------------------------
(* Properties.                                                             *)

Linked(c) ==
    \A i \in 1..(Len(c) - 1) : c[i + 1] = c[i] \/ IsAncestor(c[i], 1, c[i + 1])

\* Every entry of chainState is the parent of the entry before it, or the same
\* block again: no reorganization, trim or cleanup leaves a gap or splices two
\* forks (updateChainState joins pieces of several branches).
ChainLinked == Linked(chainState)

\* clean evicts headers by height and truncates chainState by length; the two
\* cuts agree: the header of every entry is still stored.
HeadersStored == \A i \in 1..Len(chainState) : chainState[i] \in headers

NearHead(c) == \A i \in 1..Len(c) : Height(c[i]) >= Height(c[1]) - (i - 1)

\* An entry is at most as far below the head in height as in chainState: what
\* lets clean cut headers by height and chainState by length.
EntriesNearHead == NearHead(chainState)

\* A body is kept only as long as the header it belongs to, so a block that
\* HasBlock reports can be assembled again.
BodiesHaveHeaders == bodies \subseteq headers

\* The inductive invariant behind the safety properties of the chain state:
\* what clean removes and what updateChainState joins stay consistent.
ChainInv ==
    /\ TypeOK
    /\ BodiesHaveHeaders
    /\ HeadersStored
    /\ ChainLinked
    /\ EntriesNearHead

\* "always corresponds to a header stored at c.heightToBlockHeaders": a hash
\* with metadata has an entry in heightToBlockHeaders, so clean finds it.
MetadataReachable ==
    \A b \in Blocks : metadata[b] # None => b \in headers \cup statusHeads

Stored(b) == metadata[b] # None /\ b \in headers /\ b \in bodies

\* GetNewHeadsForBDN's "!ok blocks should never be triggered, as any state
\* cleanup should also cleanup the chain state": metadata, header and body of
\* every canonical entry are present.  InitializeDifficulty files the head of a
\* Status message under height 0, so that clean takes metadata and body of such a
\* block when height 0 goes, and the block stays canonical.
ChainStateStored == \A i \in 1..Len(chainState) : Stored(chainState[i])

\* The entries of blocks that no Status message has named keep metadata, header and
\* body: clean's cut by height and its cut by length agree, in spite of the
\* duplicates in chainState and of other blocks filed under a height not theirs.
CanonicalStored ==
    \A i \in 1..Len(chainState) : chainState[i] \notin named => Stored(chainState[i])

\* Only a trustworthy source moves the head: the head is a block that a
\* blockchain peer confirmed, never one known from the BDN alone.  Of a block that
\* a Status message named, clean may have forgotten it.
HeadConfirmed ==
    chainState # <<>> /\ chainState[1] \notin named => HasConfirmedBlock(chainState[1])

\* Whether the header that a query starts at is the canonical one of its height.
CanonicalStart(start) ==
    \/ start.number > 0
    \/ /\ getHeaderAtHeight(Height(start.hash)) = "found"
       /\ HeaderAtHeight(Height(start.hash)) = start.hash

\* Consecutive headers of an answer to a peer are parent and child, whatever
\* duplicates and cleanups did to the indexes of chainState; only a header asked for
\* by the hash of a block off the canonical chain may be followed by one that is not
\* its child.  The peer that asks for the bodies of these headers next gets all of
\* them, unless a Status message named one.
HeadersAnswerLinked ==
    \A start \in {ByNumber(n) : n \in 1..BestHeight} \cup {ByHash(b) : b \in Blocks},
       checkpointPassed \in BOOLEAN :
        LET answer == answerGetBlockHeaders(checkpointPassed, start, 3, 1)
        IN  /\ \A i \in 1..(Len(answer) - 1) :
                  i > 1 \/ CanonicalStart(start) => IsAncestor(answer[i + 1], 1, answer[i])
            /\ (\A i \in 1..Len(answer) : answer[i] \notin named)
                  => answerGetBlockBodies(answer) = answer

HeadDoesNotFall ==
    /\ BestHeight' >= BestHeight
    /\ chainState # <<>> => chainState' # <<>>

\* The canonical chain never falls back: no operation lowers the best height,
\* and the chain never becomes empty again.
BestHeightMonotonic == [][HeadDoesNotFall]_vars
==============================================================================
