------------------------------- MODULE TxStore --------------------------------
(***************************************************************************)
(* The transaction store: services/tbtxstore.go with its HashHistory       *)
(* (services/hash_history.go) and types/tbtransaction.go.                  *)
(*                                                                         *)
(* The store is three concurrent maps without a common lock: transactions  *)
(* by hash, hashes by short ID, and the history of removed hashes.  Each   *)
(* call of a map is one step here.  Only the fields of one transaction are *)
(* changed under a lock, the transaction's own.                            *)
(*                                                                         *)
(* A transaction object is identified by its hash and the number of        *)
(* objects that were stored for the hash before: a goroutine may still     *)
(* hold an object that was removed and replaced in the meantime.  Objects  *)
(* that are never stored do not matter.  One network.                      *)
(***************************************************************************)
EXTENDS Integers, FiniteSets

CONSTANTS
    Hashes,
    TxIDs,
    AssignedTo,       \* the transaction a short ID was assigned to by the BDN
    Callers,          \* goroutines that call the store
    Calls,            \* the operations they call
    Protections,      \* the values of ReEntryProtectionFlags they pass
    Cleaner,          \* the goroutine of cleanup
    TxIDEmpty,
    Delays,           \* ages of the timestamps passed to Add
    MaxTxAge,
    NoTxIDAge,
    TimeToAvoidReEntry,
    ShortReEntryProtectionDuration,
    TxStoreMaxSize,
    CleanTarget,      \* int(TxStoreMaxSize * 0.9)
    Second,           \* time.Second, in ticks of the model
    MaxTime,          \* bound: the last tick
    MaxStays,         \* bound: how often a hash is stored
    MaxCalls          \* bound: how many operations are called

Durations == {MaxTxAge, NoTxIDAge, TimeToAvoidReEntry, ShortReEntryProtectionDuration, Second}

ASSUME StoreAssumption ==
    /\ Hashes # {} /\ IsFiniteSet(Hashes) /\ TxIDEmpty \notin TxIDs
    /\ AssignedTo \in [TxIDs -> Hashes]
    /\ IsFiniteSet(Callers) /\ Cleaner \notin Callers
    /\ Delays \subseteq Nat
    /\ Durations \subseteq Nat \ {0}
    /\ ShortReEntryProtectionDuration <= TimeToAvoidReEntry
    /\ TxStoreMaxSize \in Nat \ {0}
    /\ CleanTarget \in 1..TxStoreMaxSize
    /\ MaxTime \in Nat /\ MaxStays \in Nat \ {0} /\ MaxCalls \in Nat
    /\ Protections \subseteq {"No", "Short", "Full"}
    /\ Calls \subseteq {"Add", "Get", "RemoveHashes", "RemoveTxIDs", "Clear"}

VARIABLES
    now,
    hashToContent,   \* the object stored for a hash, 0 when there is none
    objects,         \* the fields of every object ever stored, by hash and number
    txIDToHash,      \* the short IDs that are keys; the value is AssignedTo
    seenTxs,         \* expiration of a hash in the history, -1 when absent
    stored,          \* the number of objects stored for a hash so far
    announced,       \* the number of results with NewContent
    at,              \* where each goroutine is and what it works on
    scan,            \* the local variables of clean
    expired,         \* HashHistory.clean: the keys it is about to remove
    calls,           \* the number of operations called, for the bound
    panicked,
    late,            \* hashes added with a timestamp older than NoTxIDAge
    shared,          \* hashes two operations of which have overlapped
    mixed            \* hashes an Add and a removal of which have overlapped

maps == <<hashToContent, objects, txIDToHash, seenTxs, stored, announced>>
ghosts == <<late, shared, mixed>>
txVars == <<now, maps, at, scan, expired, calls, panicked, ghosts>>

Goroutines == Callers \cup {Cleaner}
Absent == -1

Places == {"idle", "refresh", "unsee", "lookup", "insert", "get", "lock", "read", "write",
           "index", "hashes", "ids", "protect", "clearIDs", "rescan", "visit",
           "stopped"}

\* A goroutine: its place, and the local variables of the operation it runs
Local == [pc : Places, op : Calls \cup {"none", "clean"}, h : Hashes, id : TxIDs \cup {TxIDEmpty},
          content : BOOLEAN, time : Int, obj : 0..MaxStays, newID : BOOLEAN,
          newContent : BOOLEAN, protection : Protections \cup {"Full"},
          hs : SUBSET Hashes, ids : SUBSET TxIDs]

NewObject(t) == [content |-> FALSE, ids |-> {}, addTime |-> t, locked |-> FALSE]

TxTypeOK ==
    /\ now \in 0..MaxTime
    /\ hashToContent \in [Hashes -> 0..MaxStays]
    /\ objects \in [Hashes -> [1..MaxStays ->
           [content : BOOLEAN, ids : SUBSET TxIDs, addTime : Int, locked : BOOLEAN]]]
    /\ txIDToHash \subseteq TxIDs
    /\ seenTxs \in [Hashes -> Absent..(MaxTime + TimeToAvoidReEntry)]
    /\ stored \in [Hashes -> 0..MaxStays]
    /\ announced \in [Hashes -> Nat]
    /\ at \in [Goroutines -> Local]
    /\ \A h \in Hashes : hashToContent[h] \in {0, stored[h]}
    /\ scan \in [time : Nat, found : BOOLEAN, maxAge : Nat, items : SUBSET (Hashes \X (1..MaxStays))]
    /\ expired \subseteq Hashes
    /\ calls \in 0..MaxCalls
    /\ panicked \in BOOLEAN
    /\ late \subseteq Hashes /\ mixed \subseteq shared /\ shared \subseteq Hashes

Idle ==
    [pc |-> "idle", op |-> "none", h |-> CHOOSE h \in Hashes : TRUE, id |-> TxIDEmpty,
     content |-> FALSE, time |-> 0, obj |-> 0, newID |-> FALSE, newContent |-> FALSE,
     protection |-> "Full", hs |-> {}, ids |-> {}]

NoScan == [time |-> 0, found |-> FALSE, maxAge |-> MaxTxAge, items |-> {}]

TxInit ==
    /\ now = 0
    /\ hashToContent = [h \in Hashes |-> 0]
    /\ objects = [h \in Hashes |-> [n \in 1..MaxStays |-> NewObject(0)]]
    /\ txIDToHash = {}
    /\ seenTxs = [h \in Hashes |-> Absent]
    /\ stored = [h \in Hashes |-> 0]
    /\ announced = [h \in Hashes |-> 0]
    /\ at = [g \in Goroutines |-> Idle]
    /\ scan = NoScan
    /\ expired = {}
    /\ calls = 0
    /\ panicked = FALSE
    /\ late = {} /\ shared = {} /\ mixed = {}

-----------------------------------------------------------------------------
(* Helpers.                                                                *)

\* HashHistory.Exists
Exists(h) == seenTxs[h] # Absent /\ now < seenTxs[h]

\* HashHistory.Add
AddToHistory(h, d) == seenTxs' = [seenTxs EXCEPT ![h] = now + d]

\* A step of a call that is under way
Running == ~panicked /\ UNCHANGED <<panicked, calls>>

\* The first step of a call
Calling(g, op) ==
    /\ op \in Calls /\ at[g].pc = "idle"
    /\ calls < MaxCalls /\ calls' = calls + 1
    /\ ~panicked /\ UNCHANGED panicked

Goto(g, pc) == at' = [at EXCEPT ![g].pc = pc]

\* The end of an operation; what is local to it is forgotten.
Return(g) == at' = [at EXCEPT ![g] = IF g = Cleaner THEN [Idle EXCEPT !.pc = "visit"] ELSE Idle]

Adding(h) == {g \in Goroutines : at[g].op = "Add" /\ at[g].h = h}
Reading(h) == {g \in Goroutines : at[g].op = "Get" /\ at[g].h = h}
Removing(h) == {g \in Goroutines : \/ at[g].pc \in {"ids", "protect"} /\ at[g].h = h
                                   \/ at[g].pc = "clearIDs"}

\* Record that an operation on the hashes S begins while others are under way.
Overlap(S, others, opposite) ==
    /\ shared' = shared \cup {h \in S : others[h] # {}}
    /\ mixed' = mixed \cup {h \in S : opposite[h] # {}}

NoteUse(h) ==
    Overlap({h}, [x \in {h} |-> Adding(x) \cup Reading(x) \cup Removing(x)],
            [x \in {h} |-> Removing(x)])
NoteRemoval(S) ==
    Overlap(S, [x \in S |-> Adding(x) \cup Reading(x)], [x \in S |-> Adding(x)])

-----------------------------------------------------------------------------
(* Add.  A call with neither content nor ID panics and is not made; one    *)
(* with a timestamp older than MaxTxAge returns at once.                   *)

Add(g, h, id, content, delay) ==
    /\ Calling(g, "Add")
    /\ id # TxIDEmpty \/ content
    /\ id # TxIDEmpty => AssignedTo[id] = h
    /\ delay <= MaxTxAge
    /\ stored[h] + Cardinality(Adding(h)) < MaxStays
    /\ at' = [at EXCEPT ![g] = [Idle EXCEPT !.op = "Add", !.h = h, !.id = id, !.content = content,
                                            !.time = now - delay,
                                            !.pc = IF Exists(h) THEN "refresh" ELSE "insert"]]
    /\ NoteUse(h)
    /\ UNCHANGED <<now, maps, scan, expired, late>>

\* Get, Known and HasContent: refreshSeenTx.  What Get reads afterwards changes
\* nothing.
Get(g, h) ==
    /\ Calling(g, "Get")
    /\ Exists(h)
    /\ at' = [at EXCEPT ![g] = [Idle EXCEPT !.op = "Get", !.h = h, !.pc = "refresh"]]
    /\ NoteUse(h)
    /\ UNCHANGED <<now, maps, scan, expired, late>>

\* The second half of refreshSeenTx; Add goes on only when it was given an ID.
Refresh(g) ==
    /\ at[g].pc = "refresh"
    /\ AddToHistory(at[g].h, TimeToAvoidReEntry)
    /\ IF at[g].op = "Add" /\ at[g].id # TxIDEmpty THEN Goto(g, "unsee") ELSE Return(g)
    /\ Running /\ UNCHANGED <<now, hashToContent, objects, txIDToHash, stored, announced, scan, expired,
                   ghosts>>

Unsee(g) ==
    /\ at[g].pc = "unsee"
    /\ seenTxs' = [seenTxs EXCEPT ![at[g].h] = Absent]
    /\ Goto(g, "insert")
    /\ Running /\ UNCHANGED <<now, hashToContent, objects, txIDToHash, stored, announced, scan, expired,
                   ghosts>>

\* hashToContent.SetIfAbsent
Insert(g) ==
    LET h == at[g].h
        n == stored[h] + 1
    IN  /\ at[g].pc = "insert"
        /\ IF hashToContent[h] = 0
           THEN /\ hashToContent' = [hashToContent EXCEPT ![h] = n]
                /\ stored' = [stored EXCEPT ![h] = n]
                /\ objects' = [objects EXCEPT ![h][n] = NewObject(at[g].time)]
                /\ at' = [at EXCEPT ![g].pc = "lock", ![g].obj = n]
                /\ late' = IF now - at[g].time > NoTxIDAge THEN late \cup {h} ELSE late
           ELSE /\ Goto(g, "get")
                /\ UNCHANGED <<hashToContent, stored, objects, late>>
        /\ Running /\ UNCHANGED <<now, txIDToHash, seenTxs, announced, scan, expired, shared,
                       mixed>>

\* hashToContent.Get: the transaction may have been removed in between.
GetExisting(g) ==
    /\ at[g].pc = "get"
    /\ IF hashToContent[at[g].h] = 0
       THEN Return(g)
       ELSE at' = [at EXCEPT ![g].pc = "lock", ![g].obj = hashToContent[at[g].h]]
    /\ Running /\ UNCHANGED <<now, maps, scan, expired, ghosts>>

\* The transaction is changed without its lock.
LockNothing(g) ==
    /\ at[g].pc = "lock"
    /\ Goto(g, "read")
    /\ Running /\ UNCHANGED <<now, maps, scan, expired, ghosts>>

Lock(g) ==
    /\ at[g].pc = "lock"
    /\ ~objects[at[g].h][at[g].obj].locked
    /\ objects' = [objects EXCEPT ![at[g].h][at[g].obj].locked = TRUE]
    /\ Goto(g, "read")
    /\ Running /\ UNCHANGED <<now, hashToContent, txIDToHash, seenTxs, stored, announced, scan, expired,
                   ghosts>>

\* The conditions of AddTxID and SetContent.  The gateway's assigner gives no ID.
ReadTx(g) ==
    LET tx == objects[at[g].h][at[g].obj]
    IN  /\ at[g].pc = "read"
        /\ at' = [at EXCEPT ![g].pc = "write",
                            ![g].newID = at[g].id # TxIDEmpty /\ at[g].id \notin tx.ids,
                            ![g].newContent = at[g].content /\ ~tx.content]
        /\ Running /\ UNCHANGED <<now, maps, scan, expired, ghosts>>

\* Their assignments.  The lock is released after the ID is indexed.
WriteTx(g) ==
    LET l == at[g]
    IN  /\ l.pc = "write"
        /\ objects' = [objects EXCEPT
               ![l.h][l.obj].ids = IF l.newID THEN @ \cup {l.id} ELSE @,
               ![l.h][l.obj].content = @ \/ l.newContent,
               ![l.h][l.obj].locked = l.newID]
        /\ announced' = IF l.newContent THEN [announced EXCEPT ![l.h] = @ + 1] ELSE announced
        /\ IF l.newID THEN Goto(g, "index") ELSE Return(g)
        /\ Running /\ UNCHANGED <<now, hashToContent, txIDToHash, seenTxs, stored, scan, expired, ghosts>>

IndexTxID(g) ==
    /\ at[g].pc = "index"
    /\ txIDToHash' = txIDToHash \cup {at[g].id}
    /\ objects' = [objects EXCEPT ![at[g].h][at[g].obj].locked = FALSE]
    /\ Return(g)
    /\ Running /\ UNCHANGED <<now, hashToContent, seenTxs, stored, announced, scan, expired, ghosts>>

-----------------------------------------------------------------------------
(* Removal.                                                                *)

RemoveHashes(g, S, protection) ==
    /\ Calling(g, "RemoveHashes")
    /\ at' = [at EXCEPT ![g] = [Idle EXCEPT !.op = "RemoveHashes", !.pc = "hashes", !.hs = S,
                                            !.protection = protection]]
    /\ UNCHANGED <<now, maps, scan, expired, ghosts>>

RemoveTxIDs(g, I, protection) ==
    /\ Calling(g, "RemoveTxIDs")
    /\ at' = [at EXCEPT ![g] = [Idle EXCEPT !.op = "RemoveTxIDs", !.pc = "lookup", !.ids = I,
                                            !.protection = protection]]
    /\ UNCHANGED <<now, maps, scan, expired, ghosts>>

LookupTxID(g) ==
    /\ at[g].pc = "lookup"
    /\ \E id \in at[g].ids :
          LET found == at[g].hs \cup {AssignedTo[i] : i \in txIDToHash \cap {id}}
          IN  IF at[g].ids = {id} /\ found = {} THEN Return(g)
              ELSE at' = [at EXCEPT ![g].ids = @ \ {id}, ![g].hs = found,
                                    ![g].pc = IF at[g].ids = {id} THEN "hashes" ELSE "lookup"]
    /\ Running /\ UNCHANGED <<now, maps, scan, expired, ghosts>>

\* The next hash of RemoveHashes, or its end
NextHash(g, h) ==
    IF at[g].hs \subseteq {h} THEN Return(g)
    ELSE at' = [at EXCEPT ![g].hs = @ \ {h}, ![g].pc = "hashes"]

\* remove: hashToContent.Pop takes whatever object is stored for the hash now.
Pop(g) ==
    /\ at[g].pc = "hashes"
    /\ \E h \in at[g].hs :
          IF hashToContent[h] = 0
          THEN /\ NextHash(g, h)
               /\ UNCHANGED <<hashToContent, shared, mixed>>
          ELSE LET ids == objects[h][hashToContent[h]].ids
               IN  /\ hashToContent' = [hashToContent EXCEPT ![h] = 0]
                   /\ at' = [at EXCEPT ![g].h = h, ![g].ids = ids,
                                       ![g].pc = IF ids = {} THEN "protect" ELSE "ids"]
                   /\ NoteRemoval({h})
    /\ Running /\ UNCHANGED <<now, objects, txIDToHash, seenTxs, stored, announced, scan, expired, late>>

\* The short ID stays in the index.
KeepIndexed(g) ==
    /\ at[g].pc = "ids"
    /\ Goto(g, "protect")
    /\ Running /\ UNCHANGED <<now, maps, scan, expired, ghosts>>

UnindexTxID(g) ==
    /\ at[g].pc = "ids"
    /\ \E id \in at[g].ids :
          /\ txIDToHash' = txIDToHash \ {id}
          /\ at' = [at EXCEPT ![g].ids = @ \ {id},
                              ![g].pc = IF at[g].ids = {id} THEN "protect" ELSE "ids"]
    /\ Running /\ UNCHANGED <<now, hashToContent, objects, seenTxs, stored, announced, scan, expired,
                   ghosts>>

Protect(g) ==
    /\ at[g].pc = "protect"
    /\ CASE at[g].protection = "No" -> UNCHANGED seenTxs
         [] at[g].protection = "Short" -> AddToHistory(at[g].h, ShortReEntryProtectionDuration)
         [] at[g].protection = "Full" -> AddToHistory(at[g].h, TimeToAvoidReEntry)
    /\ NextHash(g, at[g].h)
    /\ Running /\ UNCHANGED <<now, hashToContent, objects, txIDToHash, stored, announced, scan, expired,
                   ghosts>>

\* Clear empties one map, then the other.
Clear(g) ==
    /\ Calling(g, "Clear")
    /\ hashToContent' = [h \in Hashes |-> 0]
    /\ at' = [at EXCEPT ![g] = [Idle EXCEPT !.op = "Clear", !.pc = "clearIDs"]]
    /\ NoteRemoval(Hashes)
    /\ UNCHANGED <<now, objects, txIDToHash, seenTxs, stored, announced, scan, expired, late>>

ClearIDs(g) ==
    /\ at[g].pc = "clearIDs"
    /\ txIDToHash' = {}
    /\ Return(g)
    /\ Running /\ UNCHANGED <<now, hashToContent, objects, seenTxs, stored, announced, scan, expired,
                   ghosts>>

-----------------------------------------------------------------------------
(* The cleanup goroutine.                                                  *)

Stored == {h \in Hashes : hashToContent[h] # 0}

\* The second error is for a short ID that leads to no stored transaction.
GetTxByID(id) ==
    IF id \notin txIDToHash THEN "unknown"
    ELSE IF AssignedTo[id] \in Stored THEN "found" ELSE "noContent"
AddTime(h) == objects[h][hashToContent[h]].addTime

\* The age of the CleanTarget-th youngest transaction, in whole seconds
TargetAge(txAge) ==
    LET below(a) == Cardinality({h \in DOMAIN txAge : txAge[h] <= a})
    IN  CHOOSE a \in {txAge[h] : h \in DOMAIN txAge} :
            below(a) >= CleanTarget /\ below(a - 1) < CleanTarget

Oversize(txAge) == Cardinality(DOMAIN txAge) > TxStoreMaxSize

\* The limit follows the ages for any size of the store, and is not capped.
MaxAgeUncapped(txAge) ==
    IF Cardinality(DOMAIN txAge) >= CleanTarget THEN TargetAge(txAge) * Second ELSE MaxTxAge

\* The limit for the age, given the ages in whole seconds
MaxAge(txAge) ==
    IF Oversize(txAge) /\ TargetAge(txAge) * Second <= MaxTxAge
    THEN TargetAge(txAge) * Second ELSE MaxTxAge

\* clean, up to the limits: the first pass over the transactions.
CleanStart ==
    /\ at[Cleaner].pc = "idle"
    /\ scan' = [time |-> now, found |-> Stored # {}, items |-> {},
                maxAge |-> MaxAge([h \in Stored |-> (now - AddTime(h)) \div Second])]
    /\ at' = [at EXCEPT ![Cleaner].op = "clean", ![Cleaner].pc = "rescan"]
    /\ Running /\ UNCHANGED <<now, maps, expired, ghosts>>

\* The second pass iterates over a snapshot of its own.
Rescan ==
    /\ at[Cleaner].pc = "rescan"
    /\ scan' = [scan EXCEPT !.items = {<<h, hashToContent[h]>> : h \in Stored}]
    /\ Goto(Cleaner, "visit")
    /\ Running /\ UNCHANGED <<now, maps, expired, ghosts>>

\* The age is taken from the clock at the visit.
TxAgeAtVisit(tx) == now - tx.addTime

\* The age of a transaction when the cleanup began.
TxAge(tx) == scan.time - tx.addTime

Aged(tx) == scan.found /\ TxAge(tx) > scan.maxAge
MissingTxID(tx) == ~Aged(tx) /\ TxAge(tx) > NoTxIDAge /\ tx.ids = {}

\* One transaction of the snapshot.  Without an entry for its network in the
\* first pass the counter of the second pass is a nil pointer.
Visit ==
    /\ at[Cleaner].pc = "visit"
    /\ \E item \in scan.items :
          LET tx == objects[item[1]][item[2]]
          IN  /\ scan' = [scan EXCEPT !.items = @ \ {item}]
              /\ panicked' = (MissingTxID(tx) /\ ~scan.found)
              /\ at' = IF Aged(tx) \/ MissingTxID(tx)
                       THEN [at EXCEPT ![Cleaner].pc = "hashes", ![Cleaner].hs = {item[1]},
                                       ![Cleaner].protection = "Full"]
                       ELSE at
    /\ ~panicked
    /\ UNCHANGED <<calls, now, maps, expired, ghosts>>

CleanDone ==
    /\ at[Cleaner].pc = "visit" /\ scan.items = {}
    /\ at' = [at EXCEPT ![Cleaner] = Idle]
    /\ scan' = NoScan
    /\ Running /\ UNCHANGED <<now, maps, expired, ghosts>>

\* Stop hands over quit to the select of cleanup and waits for the answer.
Stop ==
    /\ at[Cleaner].pc = "idle"
    /\ Goto(Cleaner, "stopped")
    /\ Running /\ UNCHANGED <<now, maps, scan, expired, ghosts>>

-----------------------------------------------------------------------------
(* The goroutine of HashHistory, and time.                                 *)

\* A snapshot of the entries that have expired ...
HistoryClean ==
    /\ expired = {}
    /\ expired' = {h \in Hashes : seenTxs[h] # Absent /\ now > seenTxs[h]}
    /\ expired' # {}
    /\ Running /\ UNCHANGED <<now, maps, at, scan, ghosts>>

\* ... which are removed by key, also when they were renewed in between.
HistoryRemove ==
    /\ \E h \in expired :
          /\ seenTxs' = [seenTxs EXCEPT ![h] = Absent]
          /\ expired' = expired \ {h}
    /\ Running /\ UNCHANGED <<now, hashToContent, objects, txIDToHash, stored, announced, at, scan, ghosts>>

Tick ==
    /\ now < MaxTime
    /\ now' = now + 1
    /\ Running /\ UNCHANGED <<maps, at, scan, expired, ghosts>>

Call(g) ==
    \/ \E h \in Hashes, content \in BOOLEAN, id \in TxIDs \cup {TxIDEmpty}, delay \in Delays :
          Add(g, h, id, content, delay)
    \/ \E h \in Hashes : Get(g, h)
    \/ \E S \in SUBSET Hashes \ {{}}, p \in Protections : RemoveHashes(g, S, p)
    \/ \E I \in SUBSET TxIDs \ {{}}, p \in Protections : RemoveTxIDs(g, I, p)
    \/ Clear(g)

AddStep(g) ==
    \/ Refresh(g) \/ Unsee(g) \/ Insert(g) \/ GetExisting(g) \/ Lock(g) \/ ReadTx(g)
    \/ WriteTx(g) \/ IndexTxID(g)

RemoveStep(g) ==
    \/ LookupTxID(g) \/ Pop(g) \/ UnindexTxID(g) \/ Protect(g) \/ ClearIDs(g)

CleanStep == CleanStart \/ Rescan \/ Visit \/ CleanDone \/ RemoveStep(Cleaner)

TxNext ==
    \/ \E g \in Callers : Call(g) \/ AddStep(g) \/ RemoveStep(g)
    \/ CleanStep \/ Stop
    \/ HistoryClean \/ HistoryRemove
    \/ Tick

\* The cleanup goroutine takes its steps, a ticker wakes it again and again.
TxSpec == TxInit /\ [][TxNext]_txVars /\ WF_txVars(CleanStep)

-----------------------------------------------------------------------------
(* Properties.                                                             *)

InUse(h) == Adding(h) \cup Reading(h) \cup Removing(h) # {}

\* The three maps agree on short IDs: once the operations on a transaction are
\* over, exactly the IDs of the stored object lead to its hash, and GetTxByID does
\* not find a hash without a transaction.  Operations may overlap, except a removal
\* with an Add of the same transaction.
IDsConsistent ==
    \A id \in TxIDs :
        LET h == AssignedTo[id]
        IN  ~InUse(h) /\ h \notin mixed =>
                /\ id \in txIDToHash <=> h \in Stored /\ id \in objects[h][hashToContent[h]].ids
                /\ GetTxByID(id) # "noContent"

\* A transaction is either stored or in the history: Get and Add treat one that is
\* in the history as removed.  Holds for a hash whose operations do not overlap.
StoredOrSeen ==
    \A h \in Hashes : ~InUse(h) /\ h \notin shared => ~(h \in Stored /\ Exists(h))

\* The invariant of the three maps: contents, short IDs and history agree whenever
\* no operation is at work on the transaction.
TxStoreInv == TxTypeOK /\ IDsConsistent /\ StoredOrSeen

\* clean counts what it removes in an entry of its first pass.  The entry is
\* missing, and the cleanup panics, only if a transaction came in between the two
\* passes with a timestamp older than NoTxIDAge.
CleanPanicsOnlyLate == panicked => late # {}

Registry == INSTANCE TxRegistry WITH live <- Stored, stays <- stored, announced <- announced

\* The store keeps the promise of TxRegistry, with any overlap of operations: the
\* content of a transaction is reported as new at most once per stay in the store.
ImplementsRegistry == Registry!RegistrySpec

\* A transaction older than MaxTxAge leaves the store, unless cleanup was stopped.
OldTxsLeave ==
    \A h \in Hashes :
        h \in Stored /\ now - AddTime(h) > MaxTxAge
            ~> \/ ~(h \in Stored /\ now - AddTime(h) > MaxTxAge)
               \/ panicked \/ at[Cleaner].pc = "stopped"
===============================================================================
