----------------------------- MODULE LocksProofs ------------------------------
(***************************************************************************)
(* Proofs about ChainLocks for every number of goroutines and every set of *)
(* blocks: who holds which lock, and what the locks protect.               *)
(***************************************************************************)
EXTENDS ChainLocks, TLAPS

-----------------------------------------------------------------------------
(* The inductive invariant.                                                *)

StoreHeader == {"lockHeaderRead", "putHeader", "getHeaders", "setHeaders", "unlockHeaderRead"}
StoreMetadata == {"putMetadata", "getMetadata", "setMetadata"}

\* The steps of an operation
StepsOf(op) ==
    CASE op = "AddBlock" -> {"lockChain", "unlockChain"} \cup StoreHeader \cup StoreMetadata
      [] op \in {"MarkSentToBDN", "ConfirmBlock"} -> {"lockChain", "getMark", "setMark", "unlockChain"}
      [] op = "InitializeDifficulty" -> StoreHeader \cup StoreMetadata
      [] op = "storeBlockMetadata" -> StoreMetadata
      [] op = "clean" -> {"lockHeader", "lockChainToClean", "evict"}
      [] OTHER -> {}

\* A goroutine that is not idle is in a step of the operation it called.
CallsFit ==
    \A p \in Procs : pc[p] # "idle" =>
        /\ call[p] \in Calls /\ arg[p] \in Arguments
        /\ pc[p] \in StepsOf(call[p])
        /\ pc[p] \in {"setMetadata", "setMark"} => metadataRead[p] \in Metadata

HoldsChain(p) ==
    \/ pc[p] \in {"getMark", "setMark", "unlockChain", "evict"}
    \/ call[p] = "AddBlock" /\ pc[p] \in StoreHeader \cup StoreMetadata
HoldsHeaderRead(p) == pc[p] \in {"putHeader", "getHeaders", "setHeaders", "unlockHeaderRead"}
HoldsHeader(p) == pc[p] \in {"lockChainToClean", "evict"}

\* The locks are held by the goroutines that are in a critical section, and a writer
\* of headerLock shares it with no reader.
LockOwners ==
    \A p \in Procs :
        /\ HoldsChain(p) => chainLock = p
        /\ HoldsHeaderRead(p) => p \in headerReaders
        /\ HoldsHeader(p) => headerWriter = p /\ headerReaders = {}

OwnersInv == LocksTypeOK /\ CallsFit /\ LockOwners

-----------------------------------------------------------------------------
(* Type correctness.                                                       *)

\* Blocks have heights among Heights.
LEMMA ArgumentType ==
    ASSUME NEW p \in Procs, arg[p] \in Arguments
    PROVE  /\ arg[p] \in Blocks
           /\ FiledAt(p) \in Heights
<1>1. arg[p] \in Blocks
  BY LocksAssumption
<1>3. FiledAt(p) \in Heights
  BY <1>1 DEF FiledAt, Heights
<1> QED
  BY <1>1, <1>3

\* At the start no lock is held and no goroutine is inside an operation.
LEMMA InitOwners == LocksInit => OwnersInv
BY LocksAssumption DEF LocksInit, OwnersInv, LocksTypeOK, CallsFit, LockOwners, HoldsChain, HoldsHeaderRead,
   HoldsHeader, Steps, StoreHeader, StoreMetadata

\* Every step keeps types and the fit of operations and steps.
LEMMA TypeStep ==
    ASSUME LocksTypeOK, CallsFit, [LocksNext]_lockVars
    PROVE  LocksTypeOK' /\ CallsFit'
<1> USE DEF At, Goto, locals, locks, store, CallsFit, StepsOf, StoreHeader, StoreMetadata
<1>1. CASE UNCHANGED lockVars
  BY <1>1 DEF lockVars, LocksTypeOK
<1>2. ASSUME NEW p \in Procs, NEW op \in Operations, NEW b \in Arguments, Begin(p, op, b)
      PROVE  LocksTypeOK' /\ CallsFit'
  BY <1>2, LocksAssumption DEF Begin, FirstStep, LocksTypeOK, Steps, Calls, Locking
<1>3. ASSUME NEW p \in Procs, LockChain(p) PROVE LocksTypeOK' /\ CallsFit'
  <2> DEFINE next == IF call[p] # "AddBlock" THEN "getMark"
                     ELSE IF metadata[arg[p]] # None /\ arg[p] \in headersAt[FiledAt(p)]
                     THEN "putMetadata" ELSE "lockHeaderRead"
  <2>1. pc' = [pc EXCEPT ![p] = next] /\ chainLock' = p
    BY <1>3 DEF LockChain
  <2>2. UNCHANGED <<call, arg, headersRead, metadataRead, headerReaders, headerWriter, headersAt, metadata, marks>>
    BY <1>3 DEF LockChain
  <2>3. call[p] \in {"AddBlock", "MarkSentToBDN", "ConfirmBlock"} /\ arg[p] \in Arguments
    BY <1>3 DEF LockChain, Calls
  <2>4. next \in StepsOf(call[p]) /\ next \in Steps /\ next \notin {"setMetadata", "setMark"}
    BY <2>3 DEF Steps
  <2> HIDE DEF next
  <2> QED
    BY <2>1, <2>2, <2>3, <2>4 DEF LocksTypeOK, Calls
<1>4. ASSUME NEW p \in Procs, UnlockChain(p) PROVE LocksTypeOK' /\ CallsFit'
  BY <1>4 DEF UnlockChain, Return, LocksTypeOK, Steps
<1>5. ASSUME NEW p \in Procs, LockHeaderRead(p) PROVE LocksTypeOK' /\ CallsFit'
  BY <1>5 DEF LockHeaderRead, LocksTypeOK, Steps, Calls
<1>6. ASSUME NEW p \in Procs, PutHeader(p) PROVE LocksTypeOK' /\ CallsFit'
  BY <1>6, ArgumentType DEF PutHeader, LocksTypeOK, Steps, Calls
<1>7. ASSUME NEW p \in Procs, GetHeaders(p) PROVE LocksTypeOK' /\ CallsFit'
  BY <1>7, ArgumentType DEF GetHeaders, LocksTypeOK, Steps, Calls
<1>8. ASSUME NEW p \in Procs, SetHeaders(p) PROVE LocksTypeOK' /\ CallsFit'
  BY <1>8, ArgumentType DEF SetHeaders, LocksTypeOK, Steps, Calls
<1>9. ASSUME NEW p \in Procs, UnlockHeaderRead(p) PROVE LocksTypeOK' /\ CallsFit'
  BY <1>9 DEF UnlockHeaderRead, LocksTypeOK, Steps, Calls
<1>10. ASSUME NEW p \in Procs, PutMetadata(p) PROVE LocksTypeOK' /\ CallsFit'
  <2>1. /\ arg[p] \in Blocks /\ pc[p] = "putMetadata" /\ call[p] \in Calls
        /\ pc[p] \in StepsOf(call[p]) /\ arg[p] \in Arguments
    BY <1>10, ArgumentType DEF PutMetadata
  <2>2. metadata' \in [Blocks -> Metadata \cup {None}]
    <3> DEFINE new == [sentToBDN |-> FALSE, confirmedMsgSent |-> MsgSentArgument(p)]
    <3>1. new \in Metadata
      BY <2>1 DEF Metadata, MsgSentArgument
    <3>2. metadata' = metadata \/ metadata' = [metadata EXCEPT ![arg[p]] = new]
      BY <1>10 DEF PutMetadata
    <3> QED
      BY <2>1, <3>1, <3>2 DEF LocksTypeOK
  <2>3. CASE metadata[arg[p]] = None
    BY <1>10, <2>1, <2>2, <2>3 DEF PutMetadata, AfterMetadata, Return, LocksTypeOK, Steps, Calls
  <2>4. CASE metadata[arg[p]] # None
    BY <1>10, <2>1, <2>2, <2>4 DEF PutMetadata, LocksTypeOK, Steps, Calls
  <2> QED
    BY <2>3, <2>4
<1>11. ASSUME NEW p \in Procs, GetMetadata(p) PROVE LocksTypeOK' /\ CallsFit'
  BY <1>11, ArgumentType DEF GetMetadata, LocksTypeOK, Steps, Calls, Metadata
<1>12. ASSUME NEW p \in Procs, SetMetadata(p) PROVE LocksTypeOK' /\ CallsFit'
  <2>1. /\ arg[p] \in Blocks /\ pc[p] = "setMetadata" /\ call[p] \in Calls
        /\ pc[p] \in StepsOf(call[p]) /\ arg[p] \in Arguments /\ metadataRead[p] \in Metadata
    BY <1>12, ArgumentType DEF SetMetadata
  <2>2. metadata' \in [Blocks -> Metadata \cup {None}]
    BY <1>12, <2>1 DEF SetMetadata, LocksTypeOK, Metadata, MsgSentArgument
  <2> QED
    BY <1>12, <2>1, <2>2 DEF SetMetadata, AfterMetadata, Return, LocksTypeOK, Steps, Calls
<1>13. ASSUME NEW p \in Procs, GetMark(p) PROVE LocksTypeOK' /\ CallsFit'
  BY <1>13, ArgumentType DEF GetMark, LocksTypeOK, Steps, Calls
<1>14. ASSUME NEW p \in Procs, SetMark(p) PROVE LocksTypeOK' /\ CallsFit'
  <2>1. /\ arg[p] \in Blocks /\ pc[p] = "setMark" /\ call[p] \in Calls
        /\ pc[p] \in StepsOf(call[p]) /\ arg[p] \in Arguments /\ metadataRead[p] \in Metadata
    BY <1>14, ArgumentType DEF SetMark
  <2>2. metadata' \in [Blocks -> Metadata \cup {None}] /\ marks' \subseteq Blocks
    <3>1. CASE call[p] = "MarkSentToBDN"
      <4> DEFINE v == [metadataRead[p] EXCEPT !.sentToBDN = TRUE]
      <4>1. v \in Metadata
        BY <2>1 DEF Metadata
      <4>2. metadata' = [metadata EXCEPT ![arg[p]] = v] /\ marks' = marks \cup {arg[p]}
        BY <1>14, <3>1 DEF SetMark
      <4> HIDE DEF v
      <4> QED
        BY <4>1, <4>2, <2>1 DEF LocksTypeOK
    <3>2. CASE call[p] # "MarkSentToBDN"
      BY <1>14, <2>1, <3>2 DEF SetMark, LocksTypeOK
    <3> QED
      BY <3>1, <3>2
  <2> QED
    BY <1>14, <2>1, <2>2 DEF SetMark, LocksTypeOK, Steps, Calls
<1>15. ASSUME NEW p \in Procs, LockHeader(p) PROVE LocksTypeOK' /\ CallsFit'
  BY <1>15 DEF LockHeader, LocksTypeOK, Steps, Calls
<1>16. ASSUME NEW p \in Procs, LockChainToClean(p) PROVE LocksTypeOK' /\ CallsFit'
  BY <1>16 DEF LockChainToClean, LocksTypeOK, Steps, Calls
<1>17. ASSUME NEW p \in Procs, Evict(p) PROVE LocksTypeOK' /\ CallsFit'
  BY <1>17 DEF Evict, Return, LocksTypeOK, Steps
<1> QED
  BY <1>1, <1>2, <1>3, <1>4, <1>5, <1>6, <1>7, <1>8, <1>9, <1>10, <1>11, <1>12, <1>13, <1>14,
     <1>15, <1>16, <1>17 DEF LocksNext, Step

\* Every step keeps the locks with their owners.
LEMMA OwnersStep ==
    ASSUME OwnersInv, [LocksNext]_lockVars
    PROVE  LockOwners'
<1> USE DEF At, Goto, locals, locks, store, HoldsChain, HoldsHeaderRead, HoldsHeader, LockOwners,
        StoreHeader, StoreMetadata
<1>0. LocksTypeOK /\ CallsFit
  BY DEF OwnersInv
<1>a. /\ pc \in [Procs -> Steps] /\ call \in [Procs -> Calls \cup {None}]
      /\ headerReaders \subseteq Procs
      /\ Free \notin Procs
  BY <1>0, LocksAssumption DEF LocksTypeOK
<1>b. \A q \in Procs : pc[q] # "idle" => pc[q] \in StepsOf(call[q])
  BY <1>0 DEF CallsFit
<1>c. LockOwners
  BY DEF OwnersInv
<1>1. CASE UNCHANGED lockVars
  BY <1>1, <1>c DEF lockVars
<1>2. ASSUME NEW p \in Procs, NEW op \in Operations, NEW b \in Arguments, Begin(p, op, b)
      PROVE  LockOwners'
  BY <1>2, <1>a, <1>c, LocksAssumption DEF Begin, FirstStep, Calls, Locking
<1>3. ASSUME NEW p \in Procs, LockChain(p) PROVE LockOwners'
  BY <1>3, <1>a, <1>b, <1>c DEF LockChain
<1>4. ASSUME NEW p \in Procs, UnlockChain(p) PROVE LockOwners'
  BY <1>4, <1>a, <1>b, <1>c DEF UnlockChain, Return
<1>5. ASSUME NEW p \in Procs, LockHeaderRead(p) PROVE LockOwners'
  BY <1>5, <1>a, <1>b, <1>c DEF LockHeaderRead
<1>6. ASSUME NEW p \in Procs, PutHeader(p) PROVE LockOwners'
  BY <1>6, <1>a, <1>c DEF PutHeader
<1>7. ASSUME NEW p \in Procs, GetHeaders(p) PROVE LockOwners'
  BY <1>7, <1>a, <1>c DEF GetHeaders
<1>8. ASSUME NEW p \in Procs, SetHeaders(p) PROVE LockOwners'
  BY <1>8, <1>a, <1>c DEF SetHeaders
<1>9. ASSUME NEW p \in Procs, UnlockHeaderRead(p) PROVE LockOwners'
  BY <1>9, <1>a, <1>c DEF UnlockHeaderRead
<1>10. ASSUME NEW p \in Procs, PutMetadata(p) PROVE LockOwners'
  BY <1>10, <1>a, <1>c DEF PutMetadata, AfterMetadata, Return
<1>11. ASSUME NEW p \in Procs, GetMetadata(p) PROVE LockOwners'
  BY <1>11, <1>a, <1>c DEF GetMetadata
<1>12. ASSUME NEW p \in Procs, SetMetadata(p) PROVE LockOwners'
  BY <1>12, <1>a, <1>c DEF SetMetadata, AfterMetadata, Return
<1>13. ASSUME NEW p \in Procs, GetMark(p) PROVE LockOwners'
  BY <1>13, <1>a, <1>c DEF GetMark
<1>14. ASSUME NEW p \in Procs, SetMark(p) PROVE LockOwners'
  BY <1>14, <1>a, <1>c DEF SetMark
<1>15. ASSUME NEW p \in Procs, LockHeader(p) PROVE LockOwners'
  BY <1>15, <1>a, <1>c DEF LockHeader
<1>16. ASSUME NEW p \in Procs, LockChainToClean(p) PROVE LockOwners'
  BY <1>16, <1>a, <1>c DEF LockChainToClean
<1>17. ASSUME NEW p \in Procs, Evict(p) PROVE LockOwners'
  BY <1>17, <1>a, <1>b, <1>c DEF Evict, Return
<1> QED
  BY <1>1, <1>2, <1>3, <1>4, <1>5, <1>6, <1>7, <1>8, <1>9, <1>10, <1>11, <1>12, <1>13, <1>14,
     <1>15, <1>16, <1>17 DEF LocksNext, Step

\* Every step keeps the types, the fit of the calls and the owners of the locks.
LEMMA OwnersInvStep == OwnersInv /\ [LocksNext]_lockVars => OwnersInv'
BY TypeStep, OwnersStep DEF OwnersInv

\* The owners of the locks are right in every reachable state.
LEMMA OwnersInvariant == LocksSpec => []OwnersInv
BY InitOwners, OwnersInvStep, PTL DEF LocksSpec

\* clean never runs while a goroutine is between the Get and the Set of a header list:
\* it holds headerLock for writing, and whoever is there holds it for reading.
THEOREM LocksInvariant == LocksSpec => []LocksInv
<1>1. OwnersInv => LocksInv
  BY DEF OwnersInv, LocksInv, CleanExclusive, LockOwners, HoldsHeader, HoldsHeaderRead, At
<1> QED
  BY <1>1, OwnersInvariant, PTL

-----------------------------------------------------------------------------
(* Headers.                                                                *)

\* What AddBlock is about to write back is still all that is there.
HeadersFresh ==
    \A p \in Procs : pc[p] = "setHeaders" /\ call[p] = "AddBlock" =>
        headersAt[FiledAt(p)] \subseteq headersRead[p]

\* chainLock has one holder, and clean runs beside no goroutine that updates a list.
LEMMA ChainLockOnce ==
    ASSUME OwnersInv, NEW p \in Procs, NEW q \in Procs, HoldsChain(p), HoldsChain(q)
    PROVE  p = q
BY DEF OwnersInv, LockOwners

\* A step of q changes the locals of q alone.
LEMMA OthersKeep ==
    ASSUME LocksTypeOK, NEW q \in Procs, NEW p \in Procs, p # q,
           Step(q) \/ \E op \in Operations, b \in Arguments : Begin(q, op, b)
    PROVE  /\ pc'[p] = pc[p] /\ call'[p] = call[p] /\ arg'[p] = arg[p]
           /\ headersRead'[p] = headersRead[p] /\ metadataRead'[p] = metadataRead[p]
           /\ FiledAt(p)' = FiledAt(p)
<1>1. /\ pc'[p] = pc[p] /\ call'[p] = call[p] /\ arg'[p] = arg[p]
      /\ headersRead'[p] = headersRead[p] /\ metadataRead'[p] = metadataRead[p]
  BY DEF Step, LockChain, UnlockChain, LockHeaderRead, PutHeader, GetHeaders, SetHeaders,
     UnlockHeaderRead, PutMetadata, GetMetadata, SetMetadata, GetMark, SetMark, LockHeader,
     LockChainToClean, Evict, Begin, Return, AfterMetadata, Goto, locals, LocksTypeOK
<1> QED
  BY <1>1 DEF FiledAt

\* The steps that write header lists are PutHeader, SetHeaders and Evict.
LEMMA HeaderWriters ==
    ASSUME NEW q \in Procs,
           Step(q) \/ \E op \in Operations, b \in Arguments : Begin(q, op, b)
    PROVE  UNCHANGED headersAt \/ PutHeader(q) \/ SetHeaders(q) \/ Evict(q)
BY DEF Step, LockChain, UnlockChain, LockHeaderRead, GetHeaders,
     UnlockHeaderRead, PutMetadata, GetMetadata, SetMetadata, GetMark, SetMark, LockHeader,
     LockChainToClean, Begin, store

\* Between the Get and the Set of a header list (chain.go:596) the list does not change
\* under the goroutine: no step of another one makes its copy stale.
LEMMA HeadersFreshStep ==
    ASSUME <<>> \notin Arguments, OwnersInv, HeadersFresh, [LocksNext]_lockVars
    PROVE  HeadersFresh'
<1>0. LocksTypeOK /\ CallsFit /\ LockOwners
  BY DEF OwnersInv
<1>1. CASE UNCHANGED lockVars
  BY <1>1 DEF lockVars, locals, store, HeadersFresh, FiledAt
<1>2. ASSUME NEW q \in Procs,
             Step(q) \/ \E op \in Operations, b \in Arguments : Begin(q, op, b)
      PROVE  HeadersFresh'
  <2> SUFFICES ASSUME NEW p \in Procs, pc'[p] = "setHeaders", call'[p] = "AddBlock"
               PROVE  (headersAt[FiledAt(p)])' \subseteq headersRead'[p]
    BY DEF HeadersFresh
  <2>1. CASE p = q
    <3>1. GetHeaders(p)
      BY <1>2, <1>0, <2>1 DEF Step, LockChain, UnlockChain, LockHeaderRead, PutHeader, SetHeaders,
         UnlockHeaderRead, PutMetadata, GetMetadata, SetMetadata, GetMark, SetMark, LockHeader,
         LockChainToClean, Evict, Begin, FirstStep, Return, AfterMetadata, Goto, LocksTypeOK,
         Calls, Locking
    <3> QED
      BY <3>1, <1>0 DEF GetHeaders, store, FiledAt, LocksTypeOK
  <2>2. CASE p # q
    <3>1. /\ pc[p] = "setHeaders" /\ call[p] = "AddBlock" /\ headersRead'[p] = headersRead[p]
          /\ FiledAt(p)' = FiledAt(p) /\ HoldsChain(p)
      BY <1>0, <1>2, <2>2, OthersKeep DEF HoldsChain, StoreHeader
    <3>2. headersAt[FiledAt(p)] \subseteq headersRead[p]
      BY <3>1 DEF HeadersFresh
    <3>3. FiledAt(p) \in Heights /\ FiledAt(p) # 0
      <4>1. arg[p] \in Arguments /\ arg[p] \in Seq(Nat) /\ arg[p] # <<>>
        BY <3>1, <1>0, ArgumentType, BlocksAssumption DEF CallsFit
      <4> QED
        BY <4>1, <3>1, ArgumentType DEF FiledAt, Height
    <3>4. ASSUME PutHeader(q) \/ SetHeaders(q) PROVE headersAt'[FiledAt(p)] = headersAt[FiledAt(p)]
      <4>1. ~HoldsChain(q)
        BY <2>2, <3>1, ChainLockOnce
      <4>2. call[q] = "InitializeDifficulty"
        BY <3>4, <4>1, <1>0 DEF PutHeader, SetHeaders, At, HoldsChain, StoreHeader, CallsFit, StepsOf,
           StoreMetadata, Calls
      <4>3. FiledAt(q) = 0
        BY <4>2 DEF FiledAt
      <4> QED
        BY <3>4, <3>3, <4>3, <1>0 DEF PutHeader, SetHeaders, LocksTypeOK
    <3>5. ~Evict(q)
      BY <3>1, <1>0 DEF Evict, At, LockOwners, HoldsHeader, HoldsHeaderRead
    <3> QED
      BY <3>1, <3>2, <3>4, <3>5, <1>2, HeaderWriters
  <2> QED
    BY <2>1, <2>2
<1> QED
  BY <1>1, <1>2 DEF LocksNext

\* A header that was filed is lost to clean alone, or to the list that InitializeDifficulty
\* writes back.  No peer sends the genesis block as a new block: with it AddBlock would
\* share height 0 with InitializeDifficulty, which does not hold chainLock.
THEOREM HeadersStay ==
    ASSUME <<>> \notin Arguments
    PROVE  LocksSpec => HeadersOnlyCleaned
<1>1. LocksInit => HeadersFresh
  BY DEF LocksInit, HeadersFresh
<1>2. OwnersInv /\ HeadersFresh /\ [LocksNext]_lockVars => HeadersFresh'
  BY HeadersFreshStep
<1>3. OwnersInv /\ HeadersFresh /\ [LocksNext]_lockVars => [LosesHeadersOnlyByClean]_lockVars
  <2> SUFFICES ASSUME OwnersInv, HeadersFresh, NEW q \in Procs,
                      Step(q) \/ \E op \in Operations, b \in Arguments : Begin(q, op, b)
               PROVE  LosesHeadersOnlyByClean
    BY DEF LocksNext
  <2>0. LocksTypeOK /\ CallsFit
    BY DEF OwnersInv
  <2>1. CASE UNCHANGED headersAt
    BY <2>1 DEF LosesHeadersOnlyByClean
  <2>2. CASE PutHeader(q)
    BY <2>0, <2>2 DEF PutHeader, LosesHeadersOnlyByClean, LocksTypeOK
  <2>3. CASE SetHeaders(q)
    <3>1. At(q, "setHeaders") /\ pc'[q] # "setHeaders"
      BY <2>0, <2>3 DEF SetHeaders, At, Goto, LocksTypeOK
    <3>2. CASE call[q] = "AddBlock"
      BY <2>0, <2>3, <3>1, <3>2 DEF SetHeaders, HeadersFresh, At, LosesHeadersOnlyByClean, LocksTypeOK
    <3>3. call[q] \in {"AddBlock", "InitializeDifficulty"}
      BY <2>0, <3>1 DEF CallsFit, StepsOf, StoreHeader, StoreMetadata, At, Calls
    <3> QED
      BY <3>1, <3>2, <3>3 DEF LosesHeadersOnlyByClean
  <2>4. CASE Evict(q)
    <3>1. At(q, "evict") /\ pc'[q] # "evict"
      BY <2>0, <2>4 DEF Evict, Return, At, Goto, LocksTypeOK
    <3> QED
      BY <3>1 DEF LosesHeadersOnlyByClean
  <2> QED
    BY <2>1, <2>2, <2>3, <2>4, HeaderWriters
<1> QED
  BY <1>1, <1>2, <1>3, OwnersInvariant, PTL DEF LocksSpec, HeadersOnlyCleaned

-----------------------------------------------------------------------------
(* Marks.                                                                  *)

\* What a goroutine that holds chainLock is about to write back has the mark of its block.
MarksFresh ==
    \A p \in Procs :
        /\ pc[p] \in {"setMetadata", "setMark"} /\ call[p] \in Locking
        /\ arg[p] \in marks
        => metadataRead[p].sentToBDN

MarksInv == MarksKept /\ MarksFresh

\* The steps that write metadata
LEMMA MetadataWriters ==
    ASSUME NEW q \in Procs,
           Step(q) \/ \E op \in Operations, b \in Arguments : Begin(q, op, b)
    PROVE  UNCHANGED <<metadata, marks>> \/ PutMetadata(q) \/ SetMetadata(q) \/ SetMark(q) \/ Evict(q)
BY DEF Step, LockChain, UnlockChain, LockHeaderRead, PutHeader, GetHeaders, SetHeaders,
     UnlockHeaderRead, GetMetadata, GetMark, LockHeader, LockChainToClean, Begin, store

\* Between the Get and the Set of metadata (chain.go:549) under chainLock no other
\* goroutine marks a block, and what was marked before was read.
LEMMA MarksFreshStep ==
    ASSUME OwnersInv, MarksInv, NEW q \in Procs,
           Step(q) \/ \E op \in Operations, b \in Arguments : Begin(q, op, b)
    PROVE  MarksFresh'
<1>0. LocksTypeOK /\ CallsFit /\ LockOwners
  BY DEF OwnersInv
<1> SUFFICES ASSUME NEW p \in Procs, pc'[p] \in {"setMetadata", "setMark"},
                    call'[p] \in Locking, arg'[p] \in marks'
             PROVE  metadataRead'[p].sentToBDN
  BY DEF MarksFresh
<1>1. CASE p = q
  <2>1. GetMetadata(p) \/ GetMark(p)
    BY <1>0, <1>1, LocksAssumption DEF Step, LockChain, UnlockChain, LockHeaderRead,
       PutHeader, GetHeaders, SetHeaders, UnlockHeaderRead, PutMetadata, SetMetadata,
       SetMark, LockHeader, LockChainToClean, Evict, Begin, FirstStep, Return, AfterMetadata,
       Goto, LocksTypeOK, Calls, Locking
  <2>2. arg'[p] = arg[p] /\ marks' = marks
    BY <2>1 DEF GetMetadata, GetMark, store
  <2>3. metadata[arg[p]] # None /\ metadata[arg[p]].sentToBDN
    BY <2>2 DEF MarksInv, MarksKept
  <2> QED
    BY <2>1, <2>3, <1>0 DEF GetMetadata, GetMark, LocksTypeOK
<1>2. CASE p # q
  <2>1. /\ pc[p] \in {"setMetadata", "setMark"} /\ call[p] \in Locking
        /\ arg'[p] = arg[p] /\ metadataRead'[p] = metadataRead[p]
    BY <1>0, <1>2, OthersKeep
  <2>2. HoldsChain(p)
    <3>1. pc[p] = "setMetadata" => call[p] = "AddBlock"
      BY <2>1, <1>0 DEF CallsFit, StepsOf, Locking
    <3> QED
      BY <2>1, <3>1 DEF HoldsChain, StoreMetadata
  <2>3. ~SetMark(q)
    BY <2>2, <1>2, ChainLockOnce DEF SetMark, At, HoldsChain
  <2>4. marks' \subseteq marks
    BY <2>3, MetadataWriters DEF PutMetadata, SetMetadata, Evict
  <2> QED
    BY <2>1, <2>4 DEF MarksInv, MarksFresh
<1> QED
  BY <1>1, <1>2

\* No step takes the mark of a block in marks.
LEMMA MarksKeptStep ==
    ASSUME OwnersInv, MarksInv, NEW q \in Procs,
           Step(q) \/ \E op \in Operations, b \in Arguments : Begin(q, op, b)
    PROVE  MarksKept'
<1>0. LocksTypeOK /\ CallsFit /\ marks \subseteq Blocks
  BY DEF OwnersInv, LocksTypeOK
<1> SUFFICES ASSUME NEW b \in marks'
             PROVE  metadata'[b] # None /\ metadata'[b].sentToBDN
  BY DEF MarksKept
<1>1. ASSUME b \in marks PROVE metadata[b] # None /\ metadata[b].sentToBDN /\ b \in Blocks
  BY <1>1, <1>0 DEF MarksInv, MarksKept
<1>2. CASE PutMetadata(q)
  BY <1>0, <1>1, <1>2 DEF PutMetadata, LocksTypeOK
<1>3. CASE SetMetadata(q)
  <2>1. /\ metadataRead[q] \in Metadata /\ b \in marks
        /\ b = arg[q] => call[q] \in Locking
    BY <1>0, <1>3 DEF SetMetadata, At, CallsFit
  <2>2. b = arg[q] => metadataRead[q].sentToBDN
    BY <2>1, <1>3 DEF SetMetadata, At, MarksInv, MarksFresh
  <2> QED
    BY <1>0, <1>1, <1>3, <2>1, <2>2, LocksAssumption DEF SetMetadata, LocksTypeOK, Metadata
<1>4. CASE SetMark(q)
  <2>1. metadataRead[q] \in Metadata /\ arg[q] \in Blocks /\ call[q] \in Locking
    BY <1>0, <1>4, ArgumentType DEF SetMark, At, CallsFit, StepsOf, StoreHeader, StoreMetadata,
       Calls, Locking
  <2>2. CASE call[q] = "MarkSentToBDN"
    <3> DEFINE v == [metadataRead[q] EXCEPT !.sentToBDN = TRUE]
    <3>1. v \in Metadata /\ v.sentToBDN
      BY <2>1 DEF Metadata
    <3>2. metadata' = [metadata EXCEPT ![arg[q]] = v] /\ marks' = marks \cup {arg[q]}
      BY <1>4, <2>2 DEF SetMark
    <3> HIDE DEF v
    <3> QED
      BY <3>1, <3>2, <1>0, <1>1, <2>1, LocksAssumption DEF LocksTypeOK
  <2>3. CASE call[q] # "MarkSentToBDN"
    <3>1. b \in marks /\ (b = arg[q] => metadataRead[q].sentToBDN)
      BY <1>4, <2>1, <2>3 DEF SetMark, At, MarksInv, MarksFresh
    <3> QED
      BY <1>0, <1>1, <1>4, <2>1, <2>3, <3>1, LocksAssumption DEF SetMark, LocksTypeOK
  <2> QED
    BY <2>2, <2>3
<1>5. CASE Evict(q)
  BY <1>0, <1>1, <1>5 DEF Evict, LocksTypeOK
<1>6. CASE UNCHANGED <<metadata, marks>>
  BY <1>1, <1>6
<1> QED
  BY <1>2, <1>3, <1>4, <1>5, <1>6, MetadataWriters

\* A block that is marked as sent stays marked, whatever operations any number of
\* goroutines run, until clean evicts it or the metadata is written without chainLock (by
\* the handler's own call of storeBlockMetadata, or by InitializeDifficulty).
THEOREM MarksStay == LocksSpec => []MarksKept
<1>1. LocksInit => MarksInv
  BY DEF LocksInit, MarksInv, MarksKept, MarksFresh
<1>2. OwnersInv /\ MarksInv /\ [LocksNext]_lockVars => MarksInv'
  <2> SUFFICES ASSUME OwnersInv, MarksInv, [LocksNext]_lockVars PROVE MarksInv'
    OBVIOUS
  <2>1. CASE UNCHANGED lockVars
    BY <2>1 DEF lockVars, locals, store, MarksInv, MarksKept, MarksFresh
  <2>2. CASE LocksNext
    BY <2>2, MarksFreshStep, MarksKeptStep DEF LocksNext, MarksInv
  <2> QED
    BY <2>1, <2>2
<1>3. MarksInv => MarksKept
  BY DEF MarksInv
<1> QED
  BY <1>1, <1>2, <1>3, OwnersInvariant, PTL DEF LocksSpec
===============================================================================
