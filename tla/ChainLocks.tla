------------------------------ MODULE ChainLocks ------------------------------
(***************************************************************************)
(* The locks of blockchain/eth/chain.go, and the accesses to its           *)
(* concurrent maps, one step each.  A cmap call is atomic; the SetIfAbsent *)
(* - Get - Set sequences of storeEthHeaderAtHeight and storeBlockMetadata  *)
(* are not, and depend on the locks of whoever calls them:                 *)
(*                                                                         *)
(*   AddBlock              chainLock, then headerLock.RLock inside         *)
(*   MarkSentToBDN         chainLock                                       *)
(*   ConfirmBlock          chainLock                                       *)
(*   clean                 headerLock, then chainLock                      *)
(*   InitializeDifficulty  headerLock.RLock for the header only            *)
(*   storeBlockMetadata    (called by the handler) no lock                 *)
(*                                                                         *)
(* What the operations compute is Chain's subject; here clean may evict    *)
(* any heights, AddBlock is called for blocks of blockchain peers, whose   *)
(* metadata is always confirmed, and bodies (stored and pruned with their  *)
(* headers), difficulties, chainState and the height and the confirmed     *)
(* flag of metadata are left out.                                          *)
(***************************************************************************)
EXTENDS BlockTree

CONSTANTS
    Procs,       \* goroutines
    Operations,  \* the operations they call
    Arguments,   \* the blocks they call them for
    Free,        \* no goroutine holds the lock
    None         \* no metadata

Calls == {"AddBlock", "MarkSentToBDN", "ConfirmBlock", "clean", "InitializeDifficulty",
          "storeBlockMetadata"}

\* Those that hold chainLock while they read and write metadata
Locking == {"AddBlock", "MarkSentToBDN", "ConfirmBlock"}

\* The fields that the operations write in turn.
Metadata == [sentToBDN : BOOLEAN, confirmedMsgSent : BOOLEAN]

ASSUME LocksAssumption ==
    /\ Operations \subseteq Calls
    /\ Arguments \subseteq Blocks
    /\ Free \notin Procs
    /\ None \notin Metadata

VARIABLES
    call,           \* the operation each goroutine is in
    arg,            \* its block
    pc,             \* its next step
    headersRead,    \* what Get returned: the headers at a height ...
    metadataRead,   \* ... or the metadata of a block
    chainLock,      \* who holds chainLock (all writers here)
    headerReaders,  \* who holds headerLock for reading
    headerWriter,   \* who holds it for writing
    headersAt,      \* heightToBlockHeaders; an absent height has no header
    metadata,       \* blockHashToMetadata
    marks           \* history: blocks marked by MarkSentToBDN, until clean evicts them
                    \* or a writer that does not hold chainLock writes their metadata

locals == <<call, arg, headersRead, metadataRead>>
locks == <<chainLock, headerReaders, headerWriter>>
store == <<headersAt, metadata, marks>>
lockVars == <<locals, pc, locks, store>>

Heights == {Height(b) : b \in Blocks} \cup {0}

Steps == {"idle", "lockChain", "lockHeaderRead", "putHeader", "getHeaders", "setHeaders",
          "unlockHeaderRead", "putMetadata", "getMetadata", "setMetadata", "unlockChain",
          "getMark", "setMark", "lockHeader", "lockChainToClean", "evict"}

LocksTypeOK ==
    /\ call \in [Procs -> Calls \cup {None}]
    /\ arg \in [Procs -> Arguments \cup {None}]
    /\ pc \in [Procs -> Steps]
    /\ headersRead \in [Procs -> SUBSET Blocks]
    /\ metadataRead \in [Procs -> Metadata \cup {None}]
    /\ chainLock \in Procs \cup {Free}
    /\ headerReaders \subseteq Procs
    /\ headerWriter \in Procs \cup {Free}
    /\ headersAt \in [Heights -> SUBSET Blocks]
    /\ metadata \in [Blocks -> Metadata \cup {None}]
    /\ marks \subseteq Blocks

LocksInit ==
    /\ call = [p \in Procs |-> None]
    /\ arg = [p \in Procs |-> None]
    /\ pc = [p \in Procs |-> "idle"]
    /\ headersRead = [p \in Procs |-> {}]
    /\ metadataRead = [p \in Procs |-> None]
    /\ chainLock = Free
    /\ headerReaders = {}
    /\ headerWriter = Free
    /\ headersAt = [h \in Heights |-> {}]
    /\ metadata = [b \in Blocks |-> None]
    /\ marks = {}

At(p, step) == pc[p] = step
Goto(p, step) == pc' = [pc EXCEPT ![p] = step]

\* A header from a Status message is filed under height 0.
FiledAt(p) == IF call[p] = "InitializeDifficulty" THEN 0 ELSE Height(arg[p])

-----------------------------------------------------------------------------
(* The operations begin.  The handler calls storeBlockMetadata for a block *)
(* whose metadata it has just read.                                        *)

FirstStep(op) ==
    CASE op \in Locking -> "lockChain"
      [] op = "InitializeDifficulty" -> "lockHeaderRead"
      [] op = "storeBlockMetadata" -> "putMetadata"
      [] op = "clean" -> "lockHeader"

Begin(p, op, b) ==
    /\ At(p, "idle")
    /\ op = "storeBlockMetadata" => metadata[b] # None
    /\ call' = [call EXCEPT ![p] = op]
    /\ arg' = [arg EXCEPT ![p] = b]
    /\ Goto(p, FirstStep(op))
    /\ UNCHANGED <<headersRead, metadataRead, locks, store>>

\* The goroutine returns to its loop; its local values are dead.
Return(p) ==
    /\ Goto(p, "idle")
    /\ call' = [call EXCEPT ![p] = None]
    /\ arg' = [arg EXCEPT ![p] = None]
    /\ headersRead' = [headersRead EXCEPT ![p] = {}]
    /\ metadataRead' = [metadataRead EXCEPT ![p] = None]

\* AddBlock goes on to store the header, or only the metadata of a block that
\* HasBlock already reports.
LockChain(p) ==
    /\ At(p, "lockChain") /\ chainLock = Free
    /\ chainLock' = p
    /\ Goto(p, IF call[p] # "AddBlock" THEN "getMark"
               ELSE IF metadata[arg[p]] # None /\ arg[p] \in headersAt[FiledAt(p)]
               THEN "putMetadata" ELSE "lockHeaderRead")
    /\ UNCHANGED <<locals, headerReaders, headerWriter, store>>

UnlockChain(p) ==
    /\ At(p, "unlockChain")
    /\ chainLock' = Free
    /\ Return(p)
    /\ UNCHANGED <<headerReaders, headerWriter, store>>

-----------------------------------------------------------------------------
(* storeEthHeaderAtHeight.                                                 *)

\* The read lock is not taken.
SkipHeaderLock(p) ==
    /\ At(p, "lockHeaderRead")
    /\ Goto(p, "putHeader")
    /\ UNCHANGED <<locals, locks, store>>

LockHeaderRead(p) ==
    /\ At(p, "lockHeaderRead") /\ headerWriter = Free
    /\ headerReaders' = headerReaders \cup {p}
    /\ Goto(p, "putHeader")
    /\ UNCHANGED <<locals, chainLock, headerWriter, store>>

\* Set, without looking for a list at the height.
SetOneHeader(p) ==
    /\ At(p, "putHeader")
    /\ headersAt' = [headersAt EXCEPT ![FiledAt(p)] = {arg[p]}]
    /\ Goto(p, "unlockHeaderRead")
    /\ UNCHANGED <<locals, locks, metadata, marks>>

\* SetIfAbsent
PutHeader(p) ==
    /\ At(p, "putHeader")
    /\ IF headersAt[FiledAt(p)] = {}
       THEN /\ headersAt' = [headersAt EXCEPT ![FiledAt(p)] = {arg[p]}]
            /\ Goto(p, "unlockHeaderRead")
       ELSE UNCHANGED headersAt /\ Goto(p, "getHeaders")
    /\ UNCHANGED <<locals, locks, metadata, marks>>

GetHeaders(p) ==
    /\ At(p, "getHeaders")
    /\ headersRead' = [headersRead EXCEPT ![p] = headersAt[FiledAt(p)]]
    /\ Goto(p, "setHeaders")
    /\ UNCHANGED <<call, arg, metadataRead, locks, store>>

SetHeaders(p) ==
    /\ At(p, "setHeaders")
    /\ headersAt' = [headersAt EXCEPT ![FiledAt(p)] = headersRead[p] \cup {arg[p]}]
    /\ Goto(p, "unlockHeaderRead")
    /\ UNCHANGED <<locals, locks, metadata, marks>>

UnlockHeaderRead(p) ==
    /\ At(p, "unlockHeaderRead")
    /\ headerReaders' = headerReaders \ {p}
    /\ Goto(p, "putMetadata")
    /\ UNCHANGED <<locals, chainLock, headerWriter, store>>

-----------------------------------------------------------------------------
(* storeBlockMetadata.                                                     *)

MsgSentArgument(p) == call[p] = "storeBlockMetadata"

AfterMetadata(p) ==
    IF call[p] = "AddBlock"
    THEN Goto(p, "unlockChain") /\ UNCHANGED locals
    ELSE Return(p)

\* SetIfAbsent
PutMetadata(p) ==
    /\ At(p, "putMetadata")
    /\ IF metadata[arg[p]] = None
       THEN /\ metadata' = [metadata EXCEPT ![arg[p]] =
                  [sentToBDN |-> FALSE, confirmedMsgSent |-> MsgSentArgument(p)]]
            /\ AfterMetadata(p)
       ELSE UNCHANGED <<metadata, locals>> /\ Goto(p, "getMetadata")
    /\ UNCHANGED <<locks, headersAt, marks>>

\* Get; an entry pruned meanwhile reads as the zero value.
GetMetadata(p) ==
    /\ At(p, "getMetadata")
    /\ metadataRead' = [metadataRead EXCEPT ![p] =
            IF metadata[arg[p]] = None
            THEN [sentToBDN |-> FALSE, confirmedMsgSent |-> FALSE]
            ELSE metadata[arg[p]]]
    /\ Goto(p, "setMetadata")
    /\ UNCHANGED <<call, arg, headersRead, locks, store>>

\* A new entry replaces the old one instead of being merged with it.
OverwriteMetadata(p) ==
    /\ At(p, "setMetadata")
    /\ metadata' = [metadata EXCEPT ![arg[p]] =
            [sentToBDN |-> FALSE, confirmedMsgSent |-> MsgSentArgument(p)]]
    /\ marks' = IF call[p] \in Locking THEN marks ELSE marks \ {arg[p]}
    /\ AfterMetadata(p)
    /\ UNCHANGED <<locks, headersAt>>

SetMetadata(p) ==
    /\ At(p, "setMetadata")
    /\ metadata' = [metadata EXCEPT ![arg[p]] =
            [metadataRead[p] EXCEPT !.confirmedMsgSent = @ \/ MsgSentArgument(p)]]
    /\ marks' = IF call[p] \in Locking THEN marks ELSE marks \ {arg[p]}
    /\ AfterMetadata(p)
    /\ UNCHANGED <<locks, headersAt>>

-----------------------------------------------------------------------------
(* MarkSentToBDN and ConfirmBlock: Get the metadata, set one flag of it    *)
(* (the one of ConfirmBlock is left out), and Set it again.                *)

GetMark(p) ==
    /\ At(p, "getMark")
    /\ metadataRead' = [metadataRead EXCEPT ![p] = metadata[arg[p]]]
    /\ Goto(p, IF metadata[arg[p]] = None THEN "unlockChain" ELSE "setMark")
    /\ UNCHANGED <<call, arg, headersRead, locks, store>>

SetMark(p) ==
    /\ At(p, "setMark")
    /\ IF call[p] = "MarkSentToBDN"
       THEN /\ metadata' = [metadata EXCEPT ![arg[p]] =
                               [metadataRead[p] EXCEPT !.sentToBDN = TRUE]]
            /\ marks' = marks \cup {arg[p]}
       ELSE /\ metadata' = [metadata EXCEPT ![arg[p]] = metadataRead[p]]
            /\ UNCHANGED marks
    /\ Goto(p, "unlockChain")
    /\ UNCHANGED <<locals, locks, headersAt>>

-----------------------------------------------------------------------------
(* clean.                                                                  *)

LockHeader(p) ==
    /\ At(p, "lockHeader") /\ headerWriter = Free /\ headerReaders = {}
    /\ headerWriter' = p
    /\ Goto(p, "lockChainToClean")
    /\ UNCHANGED <<locals, chainLock, headerReaders, store>>

LockChainToClean(p) ==
    /\ At(p, "lockChainToClean") /\ chainLock = Free
    /\ chainLock' = p
    /\ Goto(p, "evict")
    /\ UNCHANGED <<locals, headerReaders, headerWriter, store>>

\* The headers below some height go, and the metadata of their hashes.
Evict(p) ==
    /\ At(p, "evict")
    /\ \E minHeight \in Heights :
         LET evicted == UNION {headersAt[h] : h \in {x \in Heights : x < minHeight}}
         IN  /\ headersAt' = [h \in Heights |-> IF h < minHeight THEN {} ELSE headersAt[h]]
             /\ metadata' = [b \in Blocks |-> IF b \in evicted THEN None ELSE metadata[b]]
             /\ marks' = marks \ evicted
    /\ chainLock' = Free
    /\ headerWriter' = Free
    /\ Return(p)
    /\ UNCHANGED headerReaders

-----------------------------------------------------------------------------
Step(p) ==
    \/ LockChain(p) \/ UnlockChain(p)
    \/ LockHeaderRead(p) \/ PutHeader(p) \/ GetHeaders(p) \/ SetHeaders(p) \/ UnlockHeaderRead(p)
    \/ PutMetadata(p) \/ GetMetadata(p) \/ SetMetadata(p)
    \/ GetMark(p) \/ SetMark(p)
    \/ LockHeader(p) \/ LockChainToClean(p) \/ Evict(p)

LocksNext ==
    \/ \E p \in Procs, op \in Operations, b \in Arguments : Begin(p, op, b)
    \/ \E p \in Procs : Step(p)

\* A Go mutex hands over to a goroutine that has waited long (starvation mode),
\* so a lock that becomes free again and again is eventually acquired: strong
\* fairness of each goroutine.  Nothing forces an operation to begin.
LocksSpec ==
    /\ LocksInit
    /\ [][LocksNext]_lockVars
    /\ \A p \in Procs : SF_lockVars(Step(p))

-----------------------------------------------------------------------------
(* Properties.                                                             *)

LosesHeadersOnlyByClean ==
    \/ \A h \in Heights : headersAt[h] \subseteq headersAt'[h]
    \/ \E p \in Procs : At(p, "evict") /\ pc'[p] # "evict"
    \/ \E p \in Procs : /\ At(p, "setHeaders") /\ pc'[p] # "setHeaders"
                        /\ call[p] = "InitializeDifficulty"

\* "concurrent calls to this function are ok, only needs to be exclusionary with
\* clean": a header that storeEthHeaderAtHeight filed is removed by clean alone.
\* The one call that writes back a list it read before is the one of
\* InitializeDifficulty, which does not hold chainLock.
HeadersOnlyCleaned == [][LosesHeadersOnlyByClean]_lockVars

\* While clean holds its locks no goroutine is between the Get and the Set of a
\* header list, so it does not put evicted headers back.
CleanExclusive ==
    \A p, q \in Procs :
        At(p, "evict") => ~(At(q, "getHeaders") \/ At(q, "setHeaders"))

\* The invariant of the locks: clean runs alone, in a state of the right types.
LocksInv == LocksTypeOK /\ CleanExclusive

\* MarkSentToBDN: "so it does not need to be sent again in the future".  The mark of
\* a block stays until clean evicts the block or a writer that does not hold
\* chainLock, the handler's storeBlockMetadata or InitializeDifficulty, writes its
\* metadata: the Get and Set of AddBlock and ConfirmBlock lose none.
MarksKept == \A b \in marks : metadata[b] # None /\ metadata[b].sentToBDN

\* "AddBlock adds the provided block ... It returns the number of new canonical
\* hashes": every call of AddBlock returns.
AddBlockReturns ==
    \A p \in Procs : (call[p] = "AddBlock") ~> (call[p] # "AddBlock")
==============================================================================
