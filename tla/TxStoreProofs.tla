---------------------------- MODULE TxStoreProofs ----------------------------
(***************************************************************************)
(* Proofs about TxStore for any number of callers, transactions, short IDs *)
(* and calls: the store implements TxRegistry, the cleanup panics only     *)
(* when a transaction was added late, and the three maps agree wherever    *)
(* operations on a transaction do not overlap.                             *)
(***************************************************************************)
EXTENDS TxStore, FiniteSetTheorems, NaturalsInduction, WellFoundedInduction, TLAPS

\* The places of Add once it is past refreshSeenTx, with an object, with its lock
AddPlaces == {"unsee", "insert", "get", "lock", "read", "write", "index"}
Owning == {"lock", "read", "write", "index"}
Holding == {"read", "write", "index"}

\* What the local variables of a goroutine say about the object it works on: an object
\* that is stored or was; its lock is held from the conditions of AddTxID and SetContent
\* to their assignments, so the conditions still hold there.
LocalFit(l) ==
    /\ l.pc \in AddPlaces => l.op = "Add"
    /\ l.pc \in Owning => l.obj \in 1..stored[l.h]
    /\ l.pc \in Holding => objects[l.h][l.obj].locked
    /\ l.pc = "write" /\ l.newContent => ~objects[l.h][l.obj].content
    /\ l.pc = "write" /\ l.newID => l.id # TxIDEmpty
    /\ l.pc = "index" => l.id # TxIDEmpty

LocalsFit == \A g \in Goroutines : LocalFit(at[g])

\* No two goroutines hold the lock of one object.
Exclusive ==
    \A g, p \in Goroutines :
        g # p /\ at[g].pc \in Holding /\ at[p].pc \in Holding
            => at[g].h # at[p].h \/ at[g].obj # at[p].obj

\* The calls of Add that may still store an object
Pending(h) ==
    {g \in Goroutines : /\ at[g].op = "Add" /\ at[g].h = h
                        /\ at[g].pc \in {"refresh", "unsee", "insert"}}

\* The bound on the objects of a hash leaves room for each of them.
SlotsLeft == \A h \in Hashes : stored[h] + Cardinality(Pending(h)) <= MaxStays

\* Timestamps are not in the future.
TimesFit ==
    /\ \A g \in Goroutines : at[g].time \in (0 - MaxTxAge)..now
    /\ \A h \in Hashes : \A n \in 1..stored[h] : objects[h][n].addTime \in (0 - MaxTxAge)..now
    /\ scan.time <= now

\* Every result with NewContent is the one of an object that has its content.
WithContent(h) == {n \in 1..stored[h] : objects[h][n].content}
ContentCounted == \A h \in Hashes : announced[h] = Cardinality(WithContent(h))

StoreInv ==
    TxTypeOK /\ LocalsFit /\ Exclusive /\ SlotsLeft /\ TimesFit /\ ContentCounted

-----------------------------------------------------------------------------
(* Local variables.                                                        *)

\* A goroutine between two calls has local variables of the right type.
LEMMA IdleLocal ==
    /\ Idle \in Local
    /\ Idle.pc = "idle" /\ Idle.op = "none" /\ Idle.time = 0
BY StoreAssumption DEF Idle, Local, Places

\* Goroutines are finitely many.
LEMMA GoroutinesFinite == IsFiniteSet(Goroutines)
<1>1. IsFiniteSet({Cleaner})
  BY FS_Singleton
<1> QED
  BY <1>1, FS_Union, StoreAssumption DEF Goroutines

\* Room is left when no further call of Add is under way.
LEMMA SlotsKept ==
    ASSUME StoreInv, UNCHANGED stored, NEW h \in Hashes, Pending(h)' \subseteq Pending(h)
    PROVE  stored'[h] + Cardinality(Pending(h)') <= MaxStays
<1>1. IsFiniteSet(Pending(h))
  BY GoroutinesFinite, FS_Subset DEF Pending
<1>2. /\ IsFiniteSet(Pending(h)') /\ Cardinality(Pending(h)') <= Cardinality(Pending(h))
      /\ Cardinality(Pending(h)) \in Nat /\ Cardinality(Pending(h)') \in Nat
  BY <1>1, FS_Subset, FS_CardinalityType
<1>3. stored[h] \in Nat /\ MaxStays \in Nat
  BY StoreAssumption DEF StoreInv, TxTypeOK
<1> QED
  BY <1>2, <1>3 DEF StoreInv, SlotsLeft

\* What is not about objects, in a state that keeps the invariant when at is well typed.
Rest == LocalsFit /\ Exclusive /\ SlotsLeft /\ TimesFit /\ ContentCounted

\* A step of a goroutine that does not lead into Add leaves what the invariant says of
\* objects and of the goroutines alone.
LEMMA QuietStep ==
    ASSUME StoreInv, NEW g \in Goroutines, NEW l \in Local, at' = [at EXCEPT ![g] = l],
           l.pc \notin AddPlaces, l.pc = "refresh" => l.op # "Add",
           l.time \in (0 - MaxTxAge)..now,
           UNCHANGED <<objects, stored, announced, now>>, scan'.time <= now
    PROVE  at' \in [Goroutines -> Local] /\ Rest'
<1>0. at \in [Goroutines -> Local]
  BY DEF StoreInv, TxTypeOK
<1>1. /\ at' \in [Goroutines -> Local] /\ at'[g] = l
      /\ \A p \in Goroutines \ {g} : at'[p] = at[p]
  BY <1>0
<1>2. LocalsFit'
  BY <1>1 DEF StoreInv, LocalsFit, LocalFit, AddPlaces, Owning, Holding
<1>3. Exclusive'
  BY <1>1 DEF StoreInv, Exclusive, AddPlaces, Holding
<1>4. TimesFit'
  BY <1>1 DEF StoreInv, TimesFit
<1>5. ContentCounted'
  BY DEF StoreInv, ContentCounted, WithContent
<1>6. SlotsLeft'
  <2>1. \A h \in Hashes : Pending(h)' \subseteq Pending(h)
    BY <1>1 DEF Pending, AddPlaces
  <2> QED
    BY <2>1, SlotsKept DEF SlotsLeft
<1> QED
  BY <1>1, <1>2, <1>3, <1>4, <1>5, <1>6 DEF Rest

\* Steps of no goroutine
LEMMA StillStep ==
    ASSUME StoreInv, UNCHANGED <<at, objects, stored, announced>>, now' \in {now, now + 1},
           scan'.time <= now'
    PROVE  at' \in [Goroutines -> Local] /\ Rest'
<1>1. at' \in [Goroutines -> Local] /\ LocalsFit' /\ Exclusive' /\ ContentCounted'
  BY DEF StoreInv, TxTypeOK, LocalsFit, LocalFit, Exclusive, ContentCounted, WithContent
<1>2. TimesFit'
  <2>1. now \in Int /\ MaxTxAge \in Int
    BY StoreAssumption DEF StoreInv, TxTypeOK, Durations
  <2>2. \A t \in (0 - MaxTxAge)..now : t \in (0 - MaxTxAge)..now'
    BY <2>1
  <2> QED
    BY <2>2 DEF StoreInv, TimesFit
<1>3. SlotsLeft'
  BY DEF StoreInv, SlotsLeft, Pending
<1> QED
  BY <1>1, <1>2, <1>3 DEF Rest

\* Goto and Return
LEMMA GotoLocal ==
    ASSUME at \in [Goroutines -> Local], NEW g \in Goroutines, NEW pc \in Places, Goto(g, pc)
    PROVE  LET l == [at[g] EXCEPT !.pc = pc]
           IN  /\ l \in Local /\ at' = [at EXCEPT ![g] = l]
               /\ l.pc = pc /\ l.time = at[g].time /\ l.op = at[g].op
BY DEF Goto, Local

Done(g) == IF g = Cleaner THEN [Idle EXCEPT !.pc = "visit"] ELSE Idle

\* What a goroutine is left with after it returns: the cleaner visits its next hash, the
\* others are idle.
LEMMA ReturnLocal ==
    ASSUME NEW g \in Goroutines, Return(g)
    PROVE  /\ Done(g) \in Local /\ at' = [at EXCEPT ![g] = Done(g)]
           /\ Done(g).pc \in {"idle", "visit"} /\ Done(g).time = 0 /\ Done(g).op = "none"
BY IdleLocal DEF Return, Done, Local, Places

\* A goroutine that has no timestamp has one that fits.
LEMMA StoreTimes ==
    ASSUME StoreInv
    PROVE  TxTypeOK /\ 0 \in (0 - MaxTxAge)..now /\ scan.time <= now
<1>1. TxTypeOK /\ scan.time <= now
  BY DEF StoreInv, TimesFit
<1>2. now \in Nat /\ MaxTxAge \in Nat
  BY <1>1, StoreAssumption DEF TxTypeOK, Durations
<1> QED
  BY <1>1, <1>2

\* A return that touches neither objects nor counters keeps the rest of the invariant.
LEMMA ReturnStep ==
    ASSUME StoreInv, NEW g \in Goroutines, Return(g),
           UNCHANGED <<objects, stored, announced, now, scan>>
    PROVE  at' \in [Goroutines -> Local] /\ Rest'
<1>1. 0 \in (0 - MaxTxAge)..now /\ scan'.time <= now
  BY StoreTimes
<1>2. /\ Done(g) \in Local /\ at' = [at EXCEPT ![g] = Done(g)]
      /\ Done(g).pc \in {"idle", "visit"} /\ Done(g).time = 0
  BY ReturnLocal
<1>3. Done(g).pc \notin AddPlaces /\ Done(g).pc # "refresh"
  BY <1>2 DEF AddPlaces
<1> QED
  BY <1>1, <1>2, <1>3, QuietStep

\* The history of overlaps
LEMMA NotesOverlap ==
    ASSUME TxTypeOK, NEW S \in SUBSET Hashes,
           NoteRemoval(S) \/ \E h \in S : NoteUse(h)
    PROVE  mixed' \subseteq shared' /\ shared' \subseteq Hashes
<1>0. mixed \subseteq shared /\ shared \subseteq Hashes
  BY DEF TxTypeOK
<1>1. CASE NoteRemoval(S)
  BY <1>0, <1>1 DEF NoteRemoval, Overlap
<1>2. ASSUME NEW h \in S, NoteUse(h)
      PROVE  mixed' \subseteq shared' /\ shared' \subseteq Hashes
  BY <1>0, <1>2 DEF NoteUse, Overlap
<1> QED
  BY <1>1, <1>2

\* An entry of the history never outlives the bound on time by more than its lifetime.
LEMMA HistoryType ==
    ASSUME TxTypeOK, NEW h \in Hashes,
           \/ UNCHANGED seenTxs
           \/ AddToHistory(h, ShortReEntryProtectionDuration)
           \/ AddToHistory(h, TimeToAvoidReEntry)
           \/ seenTxs' = [seenTxs EXCEPT ![h] = Absent]
    PROVE  seenTxs' \in [Hashes -> Absent..(MaxTime + TimeToAvoidReEntry)]
<1>1. /\ seenTxs \in [Hashes -> Absent..(MaxTime + TimeToAvoidReEntry)] /\ now \in 0..MaxTime
      /\ MaxTime \in Nat /\ TimeToAvoidReEntry \in Nat
      /\ ShortReEntryProtectionDuration \in 0..TimeToAvoidReEntry
  BY StoreAssumption DEF TxTypeOK, Durations
<1>2. \A d \in 0..TimeToAvoidReEntry : now + d \in Absent..(MaxTime + TimeToAvoidReEntry)
  BY <1>1 DEF Absent
<1>3. Absent \in Absent..(MaxTime + TimeToAvoidReEntry)
  BY <1>1 DEF Absent
<1> QED
  BY <1>1, <1>2, <1>3 DEF AddToHistory

-----------------------------------------------------------------------------
(* The steps of removals.                                                  *)

\* The next hash, or the end
LEMMA NextHashStep ==
    ASSUME StoreInv, NEW g \in Goroutines, NEW h \in Hashes, NextHash(g, h),
           UNCHANGED <<objects, stored, announced, now, scan>>
    PROVE  at' \in [Goroutines -> Local] /\ Rest'
<1>1. CASE Return(g)
  BY <1>1, ReturnStep
<1>2. CASE at' = [at EXCEPT ![g].hs = @ \ {h}, ![g].pc = "hashes"]
  <2> DEFINE l == [at[g] EXCEPT !.hs = @ \ {h}, !.pc = "hashes"]
  <2>0. at \in [Goroutines -> Local]
    BY DEF StoreInv, TxTypeOK
  <2>1. l \in Local /\ l.pc = "hashes" /\ l.time = at[g].time
    <3>1. at[g] \in Local /\ at[g].hs \ {h} \in SUBSET Hashes
      BY <2>0 DEF Local
    <3> QED
      BY <3>1 DEF Local, Places
  <2>3. at' = [at EXCEPT ![g] = l]
    BY <1>2, <2>0
  <2>2. at[g].time \in (0 - MaxTxAge)..now /\ scan'.time <= now
    BY DEF StoreInv, TimesFit
  <2> HIDE DEF l
  <2> QED
    BY <2>1, <2>2, <2>3, QuietStep DEF AddPlaces
<1> QED
  BY <1>1, <1>2 DEF NextHash

\* The steps of remove (tbtxstore.go:80) keep the invariant.
LEMMA RemoveStepInv ==
    ASSUME StoreInv, NEW g \in Goroutines, RemoveStep(g)
    PROVE  StoreInv'
<1>0. /\ TxTypeOK /\ at \in [Goroutines -> Local] /\ at[g] \in Local
      /\ at[g].time \in (0 - MaxTxAge)..now /\ scan.time <= now
  BY DEF StoreInv, TxTypeOK, TimesFit
<1>1. CASE LookupTxID(g)
  <2>1. at' \in [Goroutines -> Local] /\ Rest'
    <3>1. CASE Return(g)
      BY <1>1, <3>1, ReturnStep DEF LookupTxID, maps
    <3>2. CASE ~Return(g)
      <4>1. PICK id \in at[g].ids : LET found == at[g].hs \cup {AssignedTo[i] : i \in txIDToHash \cap {id}}
               IN at' = [at EXCEPT ![g].ids = @ \ {id}, ![g].hs = found,
                                    ![g].pc = IF at[g].ids = {id} THEN "hashes" ELSE "lookup"]
        BY <1>1, <3>2 DEF LookupTxID
      <4> DEFINE found == at[g].hs \cup {AssignedTo[i] : i \in txIDToHash \cap {id}}
                 l == [at[g] EXCEPT !.ids = @ \ {id}, !.hs = found,
                                    !.pc = IF at[g].ids = {id} THEN "hashes" ELSE "lookup"]
      <4>2. found \in SUBSET Hashes
        BY <1>0, StoreAssumption DEF TxTypeOK, Local
      <4> HIDE DEF found
      <4>3. l \in Local /\ at' = [at EXCEPT ![g] = l] /\ l.pc \in {"hashes", "lookup"}
            /\ l.time = at[g].time
        BY ZenonT(30), <1>0, <4>1, <4>2 DEF Local, Places, found
      <4> HIDE DEF l
      <4> QED
        BY <1>0, <1>1, <4>3, QuietStep DEF AddPlaces, LookupTxID, maps
    <3> QED
      BY <3>1, <3>2
  <2> QED
    BY <1>0, <1>1, <2>1 DEF LookupTxID, Running, maps, ghosts, TxTypeOK, StoreInv, Rest
<1>2. CASE Pop(g)
  <2>1. PICK h \in at[g].hs :
          IF hashToContent[h] = 0
          THEN /\ NextHash(g, h)
               /\ UNCHANGED <<hashToContent, shared, mixed>>
          ELSE LET ids == objects[h][hashToContent[h]].ids
               IN  /\ hashToContent' = [hashToContent EXCEPT ![h] = 0]
                   /\ at' = [at EXCEPT ![g].h = h, ![g].ids = ids,
                                       ![g].pc = IF ids = {} THEN "protect" ELSE "ids"]
                   /\ NoteRemoval({h})
    BY <1>2 DEF Pop
  <2>2. h \in Hashes
    BY <1>0 DEF Local
  <2>3. UNCHANGED <<now, objects, txIDToHash, seenTxs, stored, announced, scan, expired, late, calls, panicked>>
    BY <1>2 DEF Pop, Running
  <2>4. CASE hashToContent[h] = 0
    <3>1. at' \in [Goroutines -> Local] /\ Rest'
      BY <2>1, <2>2, <2>3, <2>4, NextHashStep
    <3> QED
      BY <1>0, <2>1, <2>3, <2>4, <3>1 DEF TxTypeOK, StoreInv, Rest
  <2>5. CASE hashToContent[h] # 0
    <3> DEFINE ids == objects[h][hashToContent[h]].ids
               l == [at[g] EXCEPT !.h = h, !.ids = ids,
                                  !.pc = IF ids = {} THEN "protect" ELSE "ids"]
    <3>1. ids \in SUBSET TxIDs
      <4>1. hashToContent[h] \in 1..MaxStays
        BY SMTT(20), <1>0, <2>2, <2>5, StoreAssumption DEF TxTypeOK
      <4>2. objects[h] \in [1..MaxStays ->
              [content : BOOLEAN, ids : SUBSET TxIDs, addTime : Int, locked : BOOLEAN]]
        BY <1>0, <2>2 DEF TxTypeOK
      <4> QED
        BY <4>1, <4>2
    <3> HIDE DEF ids
    <3>2. l \in Local /\ at' = [at EXCEPT ![g] = l] /\ l.pc \in {"protect", "ids"}
          /\ l.time = at[g].time
      BY ZenonT(30), <1>0, <2>1, <2>2, <2>5, <3>1 DEF Local, Places, ids
    <3> HIDE DEF l
    <3>3. at' \in [Goroutines -> Local] /\ Rest'
      BY <1>0, <2>3, <3>2, QuietStep DEF AddPlaces
    <3>4. hashToContent' \in [Hashes -> 0..MaxStays]
          /\ \A x \in Hashes : hashToContent'[x] \in {0, stored[x]}
      <4>1. hashToContent' = [hashToContent EXCEPT ![h] = 0] /\ 0 \in 0..MaxStays
        BY <2>1, <2>5, StoreAssumption
      <4> QED
        BY <1>0, <2>2, <4>1 DEF TxTypeOK
    <3>5. mixed' \subseteq shared' /\ shared' \subseteq Hashes
      <4>1. NoteRemoval({h}) /\ {h} \subseteq Hashes
        BY <2>1, <2>2, <2>5
      <4> QED
        BY <1>0, <4>1, NotesOverlap
    <3> QED
      BY <1>0, <2>3, <3>3, <3>4, <3>5 DEF TxTypeOK, StoreInv, Rest
  <2> QED
    BY <2>4, <2>5
<1>3. CASE UnindexTxID(g)
  <2>1. PICK id \in at[g].ids :
          at' = [at EXCEPT ![g].ids = @ \ {id},
                           ![g].pc = IF at[g].ids = {id} THEN "protect" ELSE "ids"]
    BY <1>3 DEF UnindexTxID
  <2> DEFINE l == [at[g] EXCEPT !.ids = @ \ {id},
                                !.pc = IF at[g].ids = {id} THEN "protect" ELSE "ids"]
  <2>2. at[g].ids \ {id} \in SUBSET TxIDs
    BY <1>0 DEF Local
  <2>3. l \in Local /\ l.pc \in {"protect", "ids"} /\ l.time = at[g].time
    BY <1>0, <2>2 DEF Local, Places
  <2>4. at' = [at EXCEPT ![g] = l]
    BY <1>0, <2>1
  <2> HIDE DEF l
  <2>5. at' \in [Goroutines -> Local] /\ Rest'
    BY <1>0, <1>3, <2>3, <2>4, QuietStep DEF AddPlaces, UnindexTxID
  <2>6. txIDToHash' \subseteq TxIDs
    BY <1>0, <1>3 DEF UnindexTxID, TxTypeOK
  <2> QED
    BY <1>0, <1>3, <2>5, <2>6 DEF UnindexTxID, Running, ghosts, TxTypeOK, StoreInv, Rest
<1>4. CASE Protect(g)
  <2>1. at[g].h \in Hashes /\ at[g].protection \in {"No", "Short", "Full"}
    BY <1>0, StoreAssumption DEF Local
  <2>2. at' \in [Goroutines -> Local] /\ Rest'
    BY <1>4, <2>1, NextHashStep DEF Protect
  <2>3. seenTxs' \in [Hashes -> Absent..(MaxTime + TimeToAvoidReEntry)]
    BY <1>0, <1>4, <2>1, HistoryType DEF Protect
  <2> QED
    BY <1>0, <1>4, <2>2, <2>3 DEF Protect, Running, ghosts, TxTypeOK, StoreInv, Rest
<1>5. CASE ClearIDs(g)
  <2>1. at' \in [Goroutines -> Local] /\ Rest'
    BY <1>5, ReturnStep DEF ClearIDs
  <2> QED
    BY <1>0, <1>5, <2>1 DEF ClearIDs, Running, ghosts, TxTypeOK, StoreInv, Rest
<1> QED
  BY <1>1, <1>2, <1>3, <1>4, <1>5 DEF RemoveStep

-----------------------------------------------------------------------------
(* The first steps of calls.                                               *)

\* A call that does not add.
LEMMA OtherCallInv ==
    ASSUME StoreInv, NEW g \in Goroutines,
           \/ \E h \in Hashes : Get(g, h)
           \/ \E S \in SUBSET Hashes \ {{}}, p \in Protections : RemoveHashes(g, S, p)
           \/ \E I \in SUBSET TxIDs \ {{}}, p \in Protections : RemoveTxIDs(g, I, p)
           \/ Clear(g)
    PROVE  StoreInv'
<1>0. TxTypeOK /\ 0 \in (0 - MaxTxAge)..now /\ scan.time <= now
  BY StoreTimes
<1>1. ASSUME NEW op, Calling(g, op) PROVE calls' \in 0..MaxCalls /\ UNCHANGED panicked
  <2>1. calls \in 0..MaxCalls /\ MaxCalls \in Nat
    BY <1>0, StoreAssumption DEF TxTypeOK
  <2> QED
    BY <1>1, <2>1 DEF Calling
<1>2. ASSUME NEW h \in Hashes, Get(g, h) PROVE StoreInv'
  <2> DEFINE l == [Idle EXCEPT !.op = "Get", !.h = h, !.pc = "refresh"]
  <2>1. "Get" \in Calls
    BY <1>2 DEF Get, Calling
  <2>2. l \in Local /\ l.pc = "refresh" /\ l.op = "Get" /\ l.time = 0
    BY <2>1, IdleLocal DEF Local, Places
  <2>3. at' = [at EXCEPT ![g] = l]
    BY <1>2 DEF Get
  <2> HIDE DEF l
  <2>4. at' \in [Goroutines -> Local] /\ Rest'
    BY <1>0, <1>2, <2>2, <2>3, QuietStep DEF AddPlaces, Get, maps
  <2>5. mixed' \subseteq shared' /\ shared' \subseteq Hashes
    BY <1>0, <1>2, NotesOverlap DEF Get
  <2>6. calls' \in 0..MaxCalls /\ UNCHANGED panicked
    BY <1>1, <1>2 DEF Get
  <2> QED
    BY <1>0, <1>2, <2>4, <2>5, <2>6 DEF Get, maps, TxTypeOK, StoreInv, Rest
<1>3. ASSUME NEW S \in SUBSET Hashes \ {{}}, NEW p \in Protections, RemoveHashes(g, S, p)
      PROVE  StoreInv'
  <2> DEFINE l == [Idle EXCEPT !.op = "RemoveHashes", !.pc = "hashes", !.hs = S, !.protection = p]
  <2>1. "RemoveHashes" \in Calls
    BY <1>3 DEF RemoveHashes, Calling
  <2>2. l \in Local /\ l.pc = "hashes" /\ l.time = 0
    BY <2>1, IdleLocal DEF Local, Places
  <2>3. at' = [at EXCEPT ![g] = l]
    BY <1>3 DEF RemoveHashes
  <2> HIDE DEF l
  <2>4. at' \in [Goroutines -> Local] /\ Rest'
    BY <1>0, <1>3, <2>2, <2>3, QuietStep DEF AddPlaces, RemoveHashes, maps
  <2>5. calls' \in 0..MaxCalls /\ UNCHANGED panicked
    BY <1>1, <1>3 DEF RemoveHashes
  <2> QED
    BY <1>0, <1>3, <2>4, <2>5 DEF RemoveHashes, maps, ghosts, TxTypeOK, StoreInv, Rest
<1>4. ASSUME NEW I \in SUBSET TxIDs \ {{}}, NEW p \in Protections, RemoveTxIDs(g, I, p)
      PROVE  StoreInv'
  <2> DEFINE l == [Idle EXCEPT !.op = "RemoveTxIDs", !.pc = "lookup", !.ids = I, !.protection = p]
  <2>1. "RemoveTxIDs" \in Calls
    BY <1>4 DEF RemoveTxIDs, Calling
  <2>2. l \in Local /\ l.pc = "lookup" /\ l.time = 0
    BY <2>1, IdleLocal DEF Local, Places
  <2>3. at' = [at EXCEPT ![g] = l]
    BY <1>4 DEF RemoveTxIDs
  <2> HIDE DEF l
  <2>4. at' \in [Goroutines -> Local] /\ Rest'
    BY <1>0, <1>4, <2>2, <2>3, QuietStep DEF AddPlaces, RemoveTxIDs, maps
  <2>5. calls' \in 0..MaxCalls /\ UNCHANGED panicked
    BY <1>1, <1>4 DEF RemoveTxIDs
  <2> QED
    BY <1>0, <1>4, <2>4, <2>5 DEF RemoveTxIDs, maps, ghosts, TxTypeOK, StoreInv, Rest
<1>5. CASE Clear(g)
  <2> DEFINE l == [Idle EXCEPT !.op = "Clear", !.pc = "clearIDs"]
  <2>1. "Clear" \in Calls
    BY <1>5 DEF Clear, Calling
  <2>2. l \in Local /\ l.pc = "clearIDs" /\ l.time = 0
    BY <2>1, IdleLocal DEF Local, Places
  <2>3. at' = [at EXCEPT ![g] = l]
    BY <1>5 DEF Clear
  <2> HIDE DEF l
  <2>4. at' \in [Goroutines -> Local] /\ Rest'
    BY <1>0, <1>5, <2>2, <2>3, QuietStep DEF AddPlaces, Clear
  <2>5. calls' \in 0..MaxCalls /\ UNCHANGED panicked
    BY <1>1, <1>5 DEF Clear
  <2>6. mixed' \subseteq shared' /\ shared' \subseteq Hashes
    BY <1>0, <1>5, NotesOverlap DEF Clear
  <2>7. /\ hashToContent' \in [Hashes -> 0..MaxStays]
        /\ \A h \in Hashes : hashToContent'[h] \in {0, stored[h]}
    BY <1>5, StoreAssumption DEF Clear
  <2> QED
    BY <1>0, <1>5, <2>4, <2>5, <2>6, <2>7 DEF Clear, TxTypeOK, StoreInv, Rest
<1> QED
  BY <1>2, <1>3, <1>4, <1>5

-----------------------------------------------------------------------------
(* The cleanup goroutine, the history's and time.                          *)

\* A nonempty set of numbers has a least element.
LEMMA LeastNumber ==
    ASSUME NEW S \in SUBSET Nat, S # {}
    PROVE  \E n \in S : \A m \in S : n <= m
<1>1. PICK n \in S : \A m \in S : ~(<<m, n>> \in OpToRel(<, Nat))
  BY NatLessThanWellFounded, WFMin
<1>2. \A m \in S : ~(m < n)
  BY <1>1 DEF OpToRel
<1> QED
  BY <1>2

\* The age of the CleanTarget-th youngest transaction exists, and is one of the ages.
LEMMA TargetAgeFacts ==
    ASSUME NEW bound \in Nat, NEW S, IsFiniteSet(S), NEW txAge \in [S -> 0..bound],
           Cardinality(S) >= CleanTarget
    PROVE  TargetAge(txAge) \in Nat
<1> DEFINE upTo(a) == {h \in S : txAge[h] <= a}
           below(a) == Cardinality(upTo(a))
           T == {a \in Nat : below(a) >= CleanTarget}
<1>1. CleanTarget \in Nat \ {0} /\ Cardinality(S) \in Nat
  BY FS_CardinalityType, StoreAssumption
<1>2. bound \in T
  <2>1. upTo(bound) = S
    OBVIOUS
  <2> QED
    BY <2>1
<1>3. PICK a \in T : \A m \in T : a <= m
  <2> HIDE DEF T
  <2>1. T \in SUBSET Nat
    BY DEF T
  <2> QED
    BY <1>2, <2>1, LeastNumber
<1>4. below(a) >= CleanTarget /\ a \in Nat
  BY <1>3
<1>5. below(a - 1) < CleanTarget
  <2>1. below(a - 1) \in Nat
    BY FS_Subset, FS_CardinalityType
  <2>2. CASE a = 0
    <3>1. upTo(a - 1) = {}
      BY <2>2
    <3>2. below(a - 1) = 0
      BY <3>1, FS_EmptySet
    <3> QED
      BY <1>1, <3>2
  <2>3. CASE a # 0
    <3>1. a - 1 \in Nat /\ ~(a <= a - 1)
      BY <1>4, <2>3
    <3>2. a - 1 \notin T
      BY <1>3, <3>1
    <3> HIDE DEF below
    <3> QED
      BY <1>1, <2>1, <3>1, <3>2
  <2> QED
    BY <2>2, <2>3
<1>6. \E h \in S : txAge[h] = a
  <2> SUFFICES ASSUME \A h \in S : txAge[h] # a PROVE FALSE
    OBVIOUS
  <2>1. upTo(a) = upTo(a - 1)
    BY <1>4
  <2>2. below(a) = below(a - 1)
    BY <2>1
  <2>3. below(a) \in Nat
    BY FS_Subset, FS_CardinalityType
  <2> HIDE DEF below
  <2> QED
    BY <1>1, <1>4, <1>5, <2>2, <2>3
<1> DEFINE Ages == {txAge[h] : h \in DOMAIN txAge}
           Right(x) == below(x) >= CleanTarget /\ below(x - 1) < CleanTarget
<1>7. DOMAIN txAge = S /\ Ages \subseteq Nat
  OBVIOUS
<1>8. a \in Ages /\ Right(a)
  BY <1>4, <1>5, <1>6, <1>7
<1>9. TargetAge(txAge) = CHOOSE x \in Ages : Right(x)
  BY <1>7 DEF TargetAge
<1> HIDE DEF Right, Ages
<1> QED
  BY <1>7, <1>8, <1>9

\* The limit for the age is a number.
LEMMA MaxAgeType ==
    ASSUME StoreInv
    PROVE  MaxAge([h \in Stored |-> (now - AddTime(h)) \div Second]) \in Nat
<1> DEFINE txAge == [h \in Stored |-> (now - AddTime(h)) \div Second]
           bound == now + MaxTxAge
<1>1. now \in Nat /\ MaxTxAge \in Nat /\ Second \in Nat \ {0} /\ bound \in Nat
  BY SMTT(20), StoreAssumption DEF StoreInv, TxTypeOK, Durations
<1>2. txAge \in [Stored -> 0..bound]
  <2> SUFFICES ASSUME NEW h \in Stored
               PROVE  (now - AddTime(h)) \div Second \in 0..bound
    OBVIOUS
  <2>1. h \in Hashes /\ hashToContent[h] \in 1..stored[h]
    BY DEF Stored, StoreInv, TxTypeOK
  <2>2. AddTime(h) \in (0 - MaxTxAge)..now
    BY <2>1 DEF StoreInv, TimesFit, AddTime
  <2>3. now - AddTime(h) \in 0..bound
    BY <1>1, <2>2
  <2> QED
    BY <1>1, <2>3
<1>3. IsFiniteSet(Stored)
  BY FS_Subset, StoreAssumption DEF Stored
<1>4. DOMAIN txAge = Stored
  OBVIOUS
<1> HIDE DEF txAge, bound
<1>5. CASE Oversize(txAge)
  <2>1. Cardinality(Stored) >= CleanTarget
    BY <1>3, <1>4, <1>5, FS_CardinalityType, StoreAssumption DEF Oversize
  <2>2. TargetAge(txAge) \in Nat
    BY <1>1, <1>2, <1>3, <2>1, TargetAgeFacts
  <2>3. TargetAge(txAge) * Second \in Nat
    BY <1>1, <2>2
  <2> QED
    BY <1>1, <2>3 DEF MaxAge, txAge
<1>6. CASE ~Oversize(txAge)
  BY <1>1, <1>6 DEF MaxAge, txAge
<1> QED
  BY <1>5, <1>6

\* The steps of the two passes of clean (tbtxstore.go:217) keep the invariant.
LEMMA CleanStepInv ==
    ASSUME StoreInv, CleanStart \/ Rescan \/ Visit \/ CleanDone \/ Stop
    PROVE  StoreInv'
<1>0. /\ TxTypeOK /\ at \in [Goroutines -> Local] /\ at[Cleaner] \in Local
      /\ at[Cleaner].time \in (0 - MaxTxAge)..now /\ scan.time <= now /\ Cleaner \in Goroutines
      /\ 0 \in (0 - MaxTxAge)..now
  BY StoreTimes DEF StoreInv, TxTypeOK, TimesFit, Goroutines
<1>1. CASE CleanStart
  <2> DEFINE l == [at[Cleaner] EXCEPT !.op = "clean", !.pc = "rescan"]
  <2>1. l \in Local /\ l.pc = "rescan" /\ l.time = at[Cleaner].time
    BY <1>0 DEF Local, Places
  <2>2. at' = [at EXCEPT ![Cleaner] = l]
    BY <1>0, <1>1 DEF CleanStart
  <2>3. scan' \in [time : Nat, found : BOOLEAN, maxAge : Nat, items : SUBSET (Hashes \X (1..MaxStays))]
        /\ scan'.time <= now
    <3>1. now \in Nat
      BY <1>0, StoreAssumption DEF TxTypeOK
    <3> QED
      BY <1>1, <3>1, MaxAgeType, StoreAssumption DEF CleanStart
  <2> HIDE DEF l
  <2>4. at' \in [Goroutines -> Local] /\ Rest'
    BY <1>0, <1>1, <2>1, <2>2, <2>3, QuietStep DEF AddPlaces, CleanStart, maps
  <2> QED
    BY <1>0, <1>1, <2>3, <2>4 DEF CleanStart, Running, maps, ghosts, TxTypeOK, StoreInv, Rest
<1>2. CASE Rescan
  <2> DEFINE l == [at[Cleaner] EXCEPT !.pc = "visit"]
  <2>1. l \in Local /\ at' = [at EXCEPT ![Cleaner] = l] /\ l.pc = "visit" /\ l.time = at[Cleaner].time
    BY <1>0, <1>2, GotoLocal DEF Rescan, Places
  <2>2. scan' \in [time : Nat, found : BOOLEAN, maxAge : Nat, items : SUBSET (Hashes \X (1..MaxStays))]
        /\ scan'.time = scan.time
    <3>1. {<<h, hashToContent[h]>> : h \in Stored} \subseteq Hashes \X (1..MaxStays)
      BY SMTT(20), <1>0, StoreAssumption DEF TxTypeOK, Stored
    <3> QED
      BY <1>0, <1>2, <3>1 DEF Rescan, TxTypeOK
  <2> HIDE DEF l
  <2>3. at' \in [Goroutines -> Local] /\ Rest'
    BY <1>0, <1>2, <2>1, <2>2, QuietStep DEF AddPlaces, Rescan, maps
  <2> QED
    BY <1>0, <1>2, <2>2, <2>3 DEF Rescan, Running, maps, ghosts, TxTypeOK, StoreInv, Rest
<1>3. CASE Visit
  <2>1. PICK item \in scan.items :
          LET tx == objects[item[1]][item[2]]
          IN  /\ scan' = [scan EXCEPT !.items = @ \ {item}]
              /\ panicked' = (MissingTxID(tx) /\ ~scan.found)
              /\ at' = IF Aged(tx) \/ MissingTxID(tx)
                       THEN [at EXCEPT ![Cleaner].pc = "hashes", ![Cleaner].hs = {item[1]},
                                       ![Cleaner].protection = "Full"]
                       ELSE at
    BY <1>3 DEF Visit
  <2>2. item[1] \in Hashes
    BY <1>0 DEF TxTypeOK
  <2>3. scan' \in [time : Nat, found : BOOLEAN, maxAge : Nat, items : SUBSET (Hashes \X (1..MaxStays))]
        /\ scan'.time = scan.time
    BY <1>0, <2>1 DEF TxTypeOK
  <2>4. panicked' \in BOOLEAN
    BY <2>1
  <2>5. UNCHANGED <<calls, now, maps, expired, ghosts>>
    BY <1>3 DEF Visit
  <2>6. at' \in [Goroutines -> Local] /\ Rest'
    <3>1. CASE at' = at
      BY <1>0, <2>3, <2>5, <3>1, StillStep DEF maps
    <3>2. CASE at' # at
      <4> DEFINE l == [at[Cleaner] EXCEPT !.pc = "hashes", !.hs = {item[1]}, !.protection = "Full"]
      <4>1. l \in Local /\ l.pc = "hashes" /\ l.time = at[Cleaner].time
        BY <1>0, <2>2 DEF Local, Places
      <4>2. at' = [at EXCEPT ![Cleaner] = l]
        BY <1>0, <2>1, <3>2
      <4> HIDE DEF l
      <4> QED
        BY <1>0, <2>3, <2>5, <4>1, <4>2, QuietStep DEF AddPlaces, maps
    <3> QED
      BY <3>1, <3>2
  <2> QED
    BY <1>0, <2>3, <2>4, <2>5, <2>6 DEF maps, ghosts, TxTypeOK, StoreInv, Rest
<1>4. CASE CleanDone
  <2>1. Idle \in Local /\ Idle.pc = "idle" /\ Idle.time = 0 /\ at' = [at EXCEPT ![Cleaner] = Idle]
    BY <1>4, IdleLocal DEF CleanDone
  <2>2. scan' \in [time : Nat, found : BOOLEAN, maxAge : Nat, items : SUBSET (Hashes \X (1..MaxStays))]
        /\ scan'.time = 0 /\ 0 <= now
    BY <1>0, <1>4, StoreAssumption DEF CleanDone, NoScan, Durations, TxTypeOK
  <2>3. at' \in [Goroutines -> Local] /\ Rest'
    BY ZenonT(30), <1>0, <1>4, <2>1, <2>2, QuietStep DEF AddPlaces, CleanDone, maps
  <2> QED
    BY <1>0, <1>4, <2>2, <2>3 DEF CleanDone, Running, maps, ghosts, TxTypeOK, StoreInv, Rest
<1>5. CASE Stop
  <2> DEFINE l == [at[Cleaner] EXCEPT !.pc = "stopped"]
  <2>1. l \in Local /\ at' = [at EXCEPT ![Cleaner] = l] /\ l.pc = "stopped" /\ l.time = at[Cleaner].time
    BY <1>0, <1>5, GotoLocal DEF Stop, Places
  <2> HIDE DEF l
  <2>2. at' \in [Goroutines -> Local] /\ Rest'
    BY <1>0, <1>5, <2>1, QuietStep DEF AddPlaces, Stop, maps
  <2> QED
    BY <1>0, <1>5, <2>2 DEF Stop, Running, maps, ghosts, TxTypeOK, StoreInv, Rest
<1> QED
  BY <1>1, <1>2, <1>3, <1>4, <1>5

\* The cleanup of the history and the clock keep the invariant.
LEMMA ClockStepInv ==
    ASSUME StoreInv, HistoryClean \/ HistoryRemove \/ Tick \/ UNCHANGED txVars
    PROVE  StoreInv'
<1>0. TxTypeOK /\ scan.time <= now /\ scan.time \in Nat /\ now \in Nat /\ MaxTime \in Nat
  <2>1. TxTypeOK /\ scan.time <= now
    BY StoreTimes
  <2>2. now \in Nat /\ MaxTime \in Nat
    BY <2>1, StoreAssumption DEF TxTypeOK
  <2>3. scan.time \in Nat
    BY <2>1 DEF TxTypeOK
  <2> QED
    BY <2>1, <2>2, <2>3
<1>1. at' \in [Goroutines -> Local] /\ Rest'
  <2>1. UNCHANGED <<at, objects, stored, announced, scan>>
    BY DEF HistoryClean, HistoryRemove, Tick, txVars, maps
  <2>2. now' \in {now, now + 1} /\ scan'.time <= now'
    BY <1>0, <2>1 DEF HistoryClean, HistoryRemove, Tick, txVars
  <2> QED
    BY <2>1, <2>2, StillStep
<1>2. CASE HistoryClean
  <2>1. expired' \subseteq Hashes
    BY <1>2 DEF HistoryClean
  <2>2. UNCHANGED <<now, maps, at, scan, calls, panicked, ghosts>>
    BY <1>2 DEF HistoryClean, Running
  <2> QED
    BY <1>0, <1>1, <2>1, <2>2 DEF maps, ghosts, TxTypeOK, StoreInv, Rest
<1>3. CASE HistoryRemove
  <2>1. PICK h \in expired : seenTxs' = [seenTxs EXCEPT ![h] = Absent] /\ expired' = expired \ {h}
    BY <1>3 DEF HistoryRemove
  <2>2. seenTxs' \in [Hashes -> Absent..(MaxTime + TimeToAvoidReEntry)] /\ expired' \subseteq Hashes
    BY <1>0, <2>1, HistoryType DEF TxTypeOK
  <2> QED
    BY <1>0, <1>1, <1>3, <2>2 DEF HistoryRemove, Running, ghosts, TxTypeOK, StoreInv, Rest
<1>4. CASE Tick
  <2>1. now' \in 0..MaxTime
    BY <1>0, <1>4 DEF Tick
  <2> QED
    BY <1>0, <1>1, <1>4, <2>1 DEF Tick, Running, maps, ghosts, TxTypeOK, StoreInv, Rest
<1>5. CASE UNCHANGED txVars
  BY <1>0, <1>1, <1>5 DEF txVars, maps, ghosts, TxTypeOK, StoreInv, Rest
<1> QED
  BY <1>2, <1>3, <1>4, <1>5

-----------------------------------------------------------------------------
(* Add.                                                                    *)

\* A call of Add begins while there is room for its object.
LEMMA AddInv ==
    ASSUME StoreInv, NEW g \in Callers, NEW h \in Hashes, NEW id \in TxIDs \cup {TxIDEmpty},
           NEW content \in BOOLEAN, NEW delay \in Delays, Add(g, h, id, content, delay)
    PROVE  StoreInv'
<1> DEFINE l == [Idle EXCEPT !.op = "Add", !.h = h, !.id = id, !.content = content,
                             !.time = now - delay,
                             !.pc = IF Exists(h) THEN "refresh" ELSE "insert"]
<1>0. /\ TxTypeOK /\ at \in [Goroutines -> Local] /\ g \in Goroutines
      /\ now \in Nat /\ delay \in Nat /\ delay <= MaxTxAge /\ MaxTxAge \in Nat
  <2>1. TxTypeOK
    BY DEF StoreInv
  <2>2. now \in Nat /\ MaxTxAge \in Nat
    BY <2>1, StoreAssumption DEF TxTypeOK, Durations
  <2>3. delay \in Nat /\ delay <= MaxTxAge
    BY StoreAssumption DEF Add
  <2> QED
    BY <2>1, <2>2, <2>3 DEF TxTypeOK, Goroutines
<1>1. "Add" \in Calls /\ at[g].pc = "idle"
  BY DEF Add, Calling
<1>2. /\ l \in Local /\ l.pc \in {"refresh", "insert"} /\ l.op = "Add" /\ l.h = h
      /\ l.time = now - delay
  <2> DEFINE first == IF Exists(h) THEN "refresh" ELSE "insert"
             t == now - delay
  <2>1. t \in Int /\ first \in {"refresh", "insert"}
    BY <1>0
  <2>2. l = [Idle EXCEPT !.op = "Add", !.h = h, !.id = id, !.content = content,
                         !.time = t, !.pc = first]
    OBVIOUS
  <2> HIDE DEF first, t, l
  <2>3. l \in Local /\ l.pc = first /\ l.op = "Add" /\ l.h = h /\ l.time = t
    BY ZenonT(30), <1>1, <2>1, <2>2, IdleLocal DEF Local, Places
  <2> QED
    BY <2>1, <2>3 DEF t
<1>3. at' = [at EXCEPT ![g] = l] /\ UNCHANGED <<now, maps, scan, expired, late>>
  BY DEF Add
<1> HIDE DEF l
<1>4. /\ at' \in [Goroutines -> Local] /\ at'[g] = l
      /\ \A p \in Goroutines \ {g} : at'[p] = at[p]
  BY <1>0, <1>2, <1>3
<1>5. LocalsFit'
  BY <1>2, <1>3, <1>4 DEF StoreInv, LocalsFit, LocalFit, AddPlaces, Owning, Holding, maps
<1>6. Exclusive'
  BY <1>2, <1>4 DEF StoreInv, Exclusive, Holding
<1>7. TimesFit'
  <2>1. now - delay \in (0 - MaxTxAge)..now
    BY <1>0
  <2> QED
    BY <1>2, <1>3, <1>4, <2>1 DEF StoreInv, TimesFit, maps
<1>8. ContentCounted'
  BY <1>3 DEF StoreInv, ContentCounted, WithContent, maps
<1>9. SlotsLeft'
  <2> SUFFICES ASSUME NEW x \in Hashes
               PROVE  stored'[x] + Cardinality(Pending(x)') <= MaxStays
    BY DEF SlotsLeft
  <2>1. stored' = stored
    BY <1>3 DEF maps
  <2>2. CASE x # h
    <3>1. Pending(x)' \subseteq Pending(x)
      BY <1>2, <1>4, <2>2 DEF Pending
    <3> QED
      BY <2>1, <3>1, SlotsKept
  <2>3. CASE x = h
    <3>1. Pending(h)' \subseteq Adding(h) \cup {g}
      BY <1>4 DEF Pending, Adding
    <3>2. IsFiniteSet(Adding(h)) /\ Cardinality(Adding(h)) \in Nat
      BY GoroutinesFinite, FS_Subset, FS_CardinalityType DEF Adding
    <3>3. IsFiniteSet(Adding(h) \cup {g}) /\ Cardinality(Adding(h) \cup {g}) <= Cardinality(Adding(h)) + 1
          /\ Cardinality(Adding(h) \cup {g}) \in Nat
      <4>1. /\ IsFiniteSet(Adding(h) \cup {g})
            /\ Cardinality(Adding(h) \cup {g}) = IF g \in Adding(h) THEN Cardinality(Adding(h))
                                                 ELSE Cardinality(Adding(h)) + 1
        BY <3>2, FS_AddElement
      <4> QED
        BY <3>2, <4>1
    <3>4. Cardinality(Pending(h)') <= Cardinality(Adding(h) \cup {g}) /\ Cardinality(Pending(h)') \in Nat
      BY <3>1, <3>3, FS_Subset, FS_CardinalityType
    <3>5. stored[h] + Cardinality(Adding(h)) < MaxStays /\ stored[h] \in Nat /\ MaxStays \in Nat
      <4>1. stored[h] \in Nat /\ MaxStays \in Nat
        BY <1>0, StoreAssumption DEF TxTypeOK
      <4> QED
        BY <4>1 DEF Add
    <3> QED
      BY <2>1, <2>3, <3>2, <3>3, <3>4, <3>5
  <2> QED
    BY <2>2, <2>3
<1>10. calls' \in 0..MaxCalls /\ panicked' = panicked
  <2>1. calls \in 0..MaxCalls /\ MaxCalls \in Nat
    BY <1>0, StoreAssumption DEF TxTypeOK
  <2> QED
    BY <2>1 DEF Add, Calling
<1>11. mixed' \subseteq shared' /\ shared' \subseteq Hashes
  BY <1>0, NotesOverlap DEF Add
<1>12. TxTypeOK'
  BY <1>0, <1>3, <1>4, <1>10, <1>11 DEF maps, TxTypeOK
<1> QED
  BY <1>5, <1>6, <1>7, <1>8, <1>9, <1>12 DEF StoreInv

\* Looking a hash up in the history, and renewing it there, keep the invariant.
LEMMA RefreshInv ==
    ASSUME StoreInv, NEW g \in Goroutines, Refresh(g) \/ Unsee(g)
    PROVE  StoreInv'
<1>0. /\ TxTypeOK /\ at \in [Goroutines -> Local] /\ at[g] \in Local /\ at[g].h \in Hashes
      /\ scan.time <= now
  BY StoreTimes DEF TxTypeOK, Local
<1>1. UNCHANGED <<now, hashToContent, objects, txIDToHash, stored, announced, scan, expired,
                  ghosts, calls, panicked>>
  BY DEF Refresh, Unsee, Running
<1>2. seenTxs' \in [Hashes -> Absent..(MaxTime + TimeToAvoidReEntry)]
  BY <1>0, HistoryType DEF Refresh, Unsee
<1>3. at' \in [Goroutines -> Local] /\ Rest'
  <2>1. CASE Return(g)
    BY <1>1, <2>1, ReturnStep
  <2>2. CASE ~Return(g)
    <3>1. PICK pc \in {"unsee", "insert"} : Goto(g, pc)
      BY <2>2 DEF Refresh, Unsee
    <3>2. at[g].op = "Add" /\ at[g].pc \in {"refresh", "unsee"}
      BY <2>2 DEF Refresh, Unsee, StoreInv, LocalsFit, LocalFit, AddPlaces
    <3> DEFINE l == [at[g] EXCEPT !.pc = pc]
    <3>3. /\ l \in Local /\ at' = [at EXCEPT ![g] = l]
          /\ l.pc = pc /\ l.time = at[g].time /\ l.op = "Add" /\ l.h = at[g].h
      BY <1>0, <3>1, <3>2 DEF Goto, Local, Places
    <3> HIDE DEF l
    <3>4. /\ at' \in [Goroutines -> Local] /\ at'[g] = l
          /\ \A p \in Goroutines \ {g} : at'[p] = at[p]
      BY <1>0, <3>3
    <3>5. LocalsFit'
      BY <1>1, <3>1, <3>3, <3>4 DEF StoreInv, LocalsFit, LocalFit, AddPlaces, Owning, Holding
    <3>6. Exclusive'
      BY <3>1, <3>3, <3>4 DEF StoreInv, Exclusive, Holding
    <3>7. TimesFit'
      BY <1>1, <3>3, <3>4 DEF StoreInv, TimesFit
    <3>8. ContentCounted'
      BY <1>1 DEF StoreInv, ContentCounted, WithContent
    <3>9. SlotsLeft'
      <4>1. \A h \in Hashes : Pending(h)' \subseteq Pending(h)
        BY <3>2, <3>3, <3>4 DEF Pending
      <4> QED
        BY <1>1, <4>1, SlotsKept DEF SlotsLeft
    <3> QED
      BY <3>4, <3>5, <3>6, <3>7, <3>8, <3>9 DEF Rest
  <2> QED
    BY <2>1, <2>2
<1> QED
  BY <1>0, <1>1, <1>2, <1>3 DEF ghosts, TxTypeOK, StoreInv, Rest

\* A step that leaves alone when each transaction was added.
AddTimesKept ==
    \A h \in Hashes : \A n \in 1..MaxStays : objects'[h][n].addTime = objects[h][n].addTime

Object == [content : BOOLEAN, ids : SUBSET TxIDs, addTime : Int, locked : BOOLEAN]

\* The assignments to one object leave the others alone.
LEMMA ObjectUpdate ==
    ASSUME TxTypeOK, NEW h \in Hashes, NEW n \in 1..MaxStays, NEW o \in Object,
           objects' = [objects EXCEPT ![h][n] = o]
    PROVE  /\ objects' \in [Hashes -> [1..MaxStays -> Object]]
           /\ objects'[h][n] = o
           /\ \A x \in Hashes : \A m \in 1..MaxStays :
                 x # h \/ m # n => objects'[x][m] = objects[x][m]
<1>1. objects \in [Hashes -> [1..MaxStays -> Object]]
  BY DEF TxTypeOK, Object
<1> QED
  BY <1>1

\* SetIfAbsent stores a new object under the next number, or finds one.
LEMMA InsertInv ==
    ASSUME StoreInv, NEW g \in Goroutines, Insert(g)
    PROVE  StoreInv'
<1> DEFINE h == at[g].h
           n == stored[h] + 1
<1>0. /\ TxTypeOK /\ at \in [Goroutines -> Local] /\ at[g] \in Local /\ h \in Hashes
      /\ at[g].pc = "insert" /\ at[g].op = "Add" /\ scan.time <= now
      /\ stored \in [Hashes -> 0..MaxStays]
  <2>1. TxTypeOK /\ scan.time <= now /\ at[g].pc = "insert"
    BY StoreTimes DEF Insert
  <2>2. at[g].op = "Add"
    BY <2>1 DEF StoreInv, LocalsFit, LocalFit, AddPlaces
  <2> QED
    BY <2>1, <2>2 DEF TxTypeOK, Local
<1>1. /\ UNCHANGED <<now, txIDToHash, seenTxs, announced, scan, expired, shared, mixed, calls, panicked>>
  BY DEF Insert, Running
<1>2. CASE hashToContent[h] # 0
  <2>1. Goto(g, "get") /\ UNCHANGED <<hashToContent, stored, objects, late>>
    BY <1>2 DEF Insert
  <2> DEFINE l == [at[g] EXCEPT !.pc = "get"]
  <2>2. l \in Local /\ l.pc = "get" /\ l.time = at[g].time /\ l.op = "Add" /\ at' = [at EXCEPT ![g] = l]
    BY ZenonT(30), <1>0, <2>1, GotoLocal DEF Places
  <2> HIDE DEF l
  <2>3. /\ at' \in [Goroutines -> Local] /\ at'[g] = l
        /\ \A p \in Goroutines \ {g} : at'[p] = at[p]
    BY <1>0, <2>2
  <2>4. LocalsFit'
    BY <2>1, <2>2, <2>3 DEF StoreInv, LocalsFit, LocalFit, AddPlaces, Owning, Holding
  <2>5. Exclusive'
    BY <2>2, <2>3 DEF StoreInv, Exclusive, Holding
  <2>6. TimesFit'
    BY <1>1, <2>1, <2>2, <2>3 DEF StoreInv, TimesFit
  <2>7. ContentCounted'
    BY <1>1, <2>1 DEF StoreInv, ContentCounted, WithContent
  <2>8. SlotsLeft'
    <3>1. \A x \in Hashes : Pending(x)' \subseteq Pending(x)
      BY <2>2, <2>3 DEF Pending
    <3> QED
      BY <2>1, <3>1, SlotsKept DEF SlotsLeft
  <2>9. TxTypeOK'
    BY <1>0, <1>1, <2>1, <2>3 DEF TxTypeOK
  <2> QED
    BY <2>4, <2>5, <2>6, <2>7, <2>8, <2>9 DEF StoreInv
<1>3. CASE hashToContent[h] = 0
  <2>1. /\ hashToContent' = [hashToContent EXCEPT ![h] = n]
        /\ stored' = [stored EXCEPT ![h] = n]
        /\ objects' = [objects EXCEPT ![h][n] = NewObject(at[g].time)]
        /\ at' = [at EXCEPT ![g].pc = "lock", ![g].obj = n]
        /\ late' \in {late, late \cup {h}}
    BY <1>3 DEF Insert
  <2>2. IsFiniteSet(Pending(h)) /\ Cardinality(Pending(h)) \in Nat /\ g \in Pending(h)
    BY <1>0, GoroutinesFinite, FS_Subset, FS_CardinalityType DEF Pending
  <2>3. /\ IsFiniteSet(Pending(h) \ {g})
        /\ Cardinality(Pending(h) \ {g}) = Cardinality(Pending(h)) - 1
        /\ Cardinality(Pending(h) \ {g}) \in Nat
    BY <2>2, FS_RemoveElement, FS_CardinalityType
  <2>4. stored[h] + Cardinality(Pending(h)) <= MaxStays /\ MaxStays \in Nat /\ stored[h] \in Nat
    BY <1>0, StoreAssumption DEF StoreInv, SlotsLeft
  <2>5. n \in 1..MaxStays
    BY <2>2, <2>3, <2>4
  <2> DEFINE o == NewObject(at[g].time)
             l == [at[g] EXCEPT !.pc = "lock", !.obj = n]
  <2>6. o \in Object /\ ~o.content /\ o.addTime = at[g].time
    BY <1>0 DEF NewObject, Object, Local
  <2>7. /\ l \in Local /\ l.pc = "lock" /\ l.obj = n /\ l.time = at[g].time /\ l.op = "Add"
        /\ l.h = h
    <3>1. n \in 0..MaxStays
      BY <2>5
    <3> HIDE DEF n
    <3> QED
      BY <1>0, <3>1 DEF Local, Places
  <2>8. at' = [at EXCEPT ![g] = l]
    BY <1>0, <2>1
  <2> HIDE DEF o, l, n
  <2>9. /\ at' \in [Goroutines -> Local] /\ at'[g] = l
        /\ \A p \in Goroutines \ {g} : at'[p] = at[p]
    BY <1>0, <2>7, <2>8
  <2>10. /\ objects' \in [Hashes -> [1..MaxStays -> Object]]
         /\ objects'[h][n] = o
         /\ \A x \in Hashes : \A m \in 1..MaxStays :
               x # h \/ m # n => objects'[x][m] = objects[x][m]
    <3>1. objects' = [objects EXCEPT ![h][n] = o]
      BY <2>1 DEF o
    <3>2. TxTypeOK /\ h \in Hashes /\ n \in 1..MaxStays /\ o \in Object
      BY <1>0, <2>5, <2>6
    <3> HIDE DEF h
    <3> QED
      BY ZenonT(30), <3>1, <3>2, ObjectUpdate
  <2>11. /\ stored' \in [Hashes -> 0..MaxStays] /\ stored'[h] = n /\ n = stored[h] + 1
         /\ \A x \in Hashes \ {h} : stored'[x] = stored[x]
    BY <1>0, <2>1, <2>5 DEF n
  <2>12. \A x \in Hashes : \A m \in 1..stored[x] :
            objects'[x][m] = objects[x][m] /\ m \in 1..stored'[x]
    BY <1>0, <2>4, <2>10, <2>11
  <2>13. LocalsFit'
    <3> SUFFICES ASSUME NEW p \in Goroutines PROVE LocalFit(at[p])'
      BY DEF LocalsFit
    <3>1. CASE p = g
      BY <2>5, <2>7, <2>9, <2>11, <3>1 DEF LocalFit, AddPlaces, Owning, Holding
    <3>2. CASE p # g
      <4>1. LocalFit(at[p]) /\ at'[p] = at[p] /\ at[p].h \in Hashes
        BY <1>0, <2>9, <3>2 DEF StoreInv, LocalsFit, Local
      <4> QED
        BY <2>12, <4>1 DEF LocalFit, Owning, Holding
    <3> QED
      BY <3>1, <3>2
  <2>14. Exclusive'
    BY <2>7, <2>9 DEF StoreInv, Exclusive, Holding
  <2>15. TimesFit'
    <3>1. \A x \in Hashes : \A m \in 1..stored'[x] : objects'[x][m].addTime \in (0 - MaxTxAge)..now
      <4> TAKE x \in Hashes
      <4> TAKE m \in 1..stored'[x]
      <4>1. CASE x = h /\ m = n
        BY <2>6, <2>10, <4>1 DEF StoreInv, TimesFit
      <4>2. CASE ~(x = h /\ m = n)
        <5>1. m \in 1..stored[x]
          BY <1>0, <2>11, <4>2
        <5> QED
          BY <2>12, <5>1 DEF StoreInv, TimesFit
      <4> QED
        BY <4>1, <4>2
    <3>2. \A p \in Goroutines : at'[p].time = at[p].time
      BY <2>7, <2>9
    <3> QED
      BY <1>1, <3>1, <3>2 DEF StoreInv, TimesFit
  <2>16. ContentCounted'
    <3>1. \A x \in Hashes : WithContent(x)' = WithContent(x)
      <4> TAKE x \in Hashes
      <4>1. CASE x # h
        BY <2>11, <2>12, <4>1 DEF WithContent
      <4>2. CASE x = h
        <5>1. \A m \in 1..stored'[h] : m = n \/ m \in 1..stored[h]
          BY <1>0, <2>11
        <5> QED
          BY <2>6, <2>10, <2>12, <4>2, <5>1 DEF WithContent
      <4> QED
        BY <4>1, <4>2
    <3> QED
      BY <1>1, <3>1 DEF StoreInv, ContentCounted
  <2>17. SlotsLeft'
    <3> SUFFICES ASSUME NEW x \in Hashes
                 PROVE  stored'[x] + Cardinality(Pending(x)') <= MaxStays
      BY DEF SlotsLeft
    <3>1. CASE x = h
      <4>1. Pending(x)' = Pending(h) \ {g}
        BY <2>7, <2>9, <3>1 DEF Pending
      <4>2. stored'[x] = stored[h] + 1 /\ Cardinality(Pending(x)') = Cardinality(Pending(h)) - 1
        BY <2>3, <2>11, <3>1, <4>1
      <4> HIDE DEF h
      <4> QED
        BY <2>2, <2>4, <4>2
    <3>2. CASE x # h
      <4>1. Pending(x)' = Pending(x)
        BY <1>0, <2>7, <2>9, <3>2 DEF Pending
      <4> QED
        BY <2>11, <3>2, <4>1 DEF StoreInv, SlotsLeft
    <3> QED
      BY <3>1, <3>2
  <2>18. /\ hashToContent' \in [Hashes -> 0..MaxStays]
         /\ \A x \in Hashes : hashToContent'[x] \in {0, stored'[x]}
    BY <1>0, <2>1, <2>5, <2>11 DEF TxTypeOK
  <2>19. TxTypeOK'
    BY <1>0, <1>1, <2>1, <2>9, <2>10, <2>11, <2>18 DEF TxTypeOK, Object
  <2> QED
    BY <2>13, <2>14, <2>15, <2>16, <2>17, <2>19 DEF StoreInv
<1> QED
  BY <1>2, <1>3

\* Once Add is past SetIfAbsent it stores nothing more: room is left.
LEMMA PastInsert ==
    ASSUME StoreInv, NEW g \in Goroutines, at \in [Goroutines -> Local],
           NEW l \in Local, at' = [at EXCEPT ![g] = l],
           l.pc \notin {"refresh", "unsee", "insert"}, UNCHANGED stored
    PROVE  SlotsLeft'
<1>1. \A x \in Hashes : Pending(x)' \subseteq Pending(x)
  BY DEF Pending
<1> QED
  BY <1>1, SlotsKept DEF SlotsLeft

\* Taking the object that is already in the map keeps the invariant.
LEMMA GetExistingInv ==
    ASSUME StoreInv, NEW g \in Goroutines, GetExisting(g)
    PROVE  StoreInv'
<1>0. /\ TxTypeOK /\ at \in [Goroutines -> Local] /\ at[g] \in Local /\ at[g].h \in Hashes
      /\ at[g].pc = "get" /\ at[g].op = "Add"
  <2>1. TxTypeOK /\ at[g].pc = "get"
    BY StoreTimes DEF GetExisting
  <2>2. at[g].op = "Add"
    BY <2>1 DEF StoreInv, LocalsFit, LocalFit, AddPlaces
  <2> QED
    BY <2>1, <2>2 DEF TxTypeOK, Local
<1>1. UNCHANGED <<now, hashToContent, objects, txIDToHash, seenTxs, stored, announced, scan, expired,
                  late, shared, mixed, calls, panicked>>
  BY DEF GetExisting, Running, maps, ghosts
<1>2. at' \in [Goroutines -> Local] /\ Rest'
  <2>1. CASE hashToContent[at[g].h] = 0
    BY <1>1, <2>1, ReturnStep DEF GetExisting
  <2>2. CASE hashToContent[at[g].h] # 0
    <3> DEFINE n == hashToContent[at[g].h]
               l == [at[g] EXCEPT !.pc = "lock", !.obj = n]
    <3>1. n \in 0..MaxStays /\ n \in 1..stored[at[g].h]
      BY SMTT(20), <1>0, <2>2, StoreAssumption DEF TxTypeOK
    <3>2. at' = [at EXCEPT ![g] = l]
      BY <1>0, <2>2 DEF GetExisting
    <3>3. /\ l \in Local /\ l.pc = "lock" /\ l.obj = n /\ l.time = at[g].time /\ l.op = "Add"
          /\ l.h = at[g].h
      <4> HIDE DEF n
      <4> QED
        BY <1>0, <3>1 DEF Local, Places
    <3> HIDE DEF n, l
    <3>4. /\ at' \in [Goroutines -> Local] /\ at'[g] = l
          /\ \A p \in Goroutines \ {g} : at'[p] = at[p]
      BY <1>0, <3>2, <3>3
    <3>5. LocalsFit'
      BY <1>1, <3>1, <3>3, <3>4 DEF StoreInv, LocalsFit, LocalFit, AddPlaces, Owning, Holding
    <3>6. Exclusive'
      BY <3>3, <3>4 DEF StoreInv, Exclusive, Holding
    <3>7. TimesFit'
      BY <1>1, <3>3, <3>4 DEF StoreInv, TimesFit
    <3>8. ContentCounted'
      BY <1>1 DEF StoreInv, ContentCounted, WithContent
    <3>9. SlotsLeft'
      BY <1>0, <1>1, <3>2, <3>3, PastInsert
    <3> QED
      BY <3>4, <3>5, <3>6, <3>7, <3>8, <3>9 DEF Rest
  <2> QED
    BY <2>1, <2>2
<1> QED
  BY <1>0, <1>1, <1>2 DEF TxTypeOK, StoreInv, Rest

\* The facts that the steps of a goroutine on its object begin with.
LEMMA OwningFacts ==
    ASSUME StoreInv, NEW g \in Goroutines, at[g].pc \in Owning
    PROVE  /\ TxTypeOK /\ at \in [Goroutines -> Local] /\ at[g] \in Local /\ at[g].h \in Hashes
           /\ at[g].op = "Add" /\ at[g].obj \in 1..stored[at[g].h] /\ at[g].obj \in 1..MaxStays
           /\ objects \in [Hashes -> [1..MaxStays -> Object]]
           /\ objects[at[g].h][at[g].obj] \in Object
           /\ \A x \in Hashes : \A m \in 1..stored[x] : m \in 1..MaxStays
<1>1. TxTypeOK /\ LocalFit(at[g])
  BY DEF StoreInv, LocalsFit
<1>2. /\ at \in [Goroutines -> Local] /\ at[g] \in Local /\ at[g].h \in Hashes
      /\ stored \in [Hashes -> 0..MaxStays] /\ objects \in [Hashes -> [1..MaxStays -> Object]]
  BY <1>1 DEF TxTypeOK, Local, Object
<1>3. at[g].op = "Add" /\ at[g].obj \in 1..stored[at[g].h]
  BY <1>1 DEF LocalFit, Owning, AddPlaces
<1>4. \A x \in Hashes : \A m \in 1..stored[x] : m \in 1..MaxStays
  BY <1>2, StoreAssumption
<1>5. at[g].obj \in 1..MaxStays
  BY <1>2, <1>3, <1>4
<1> QED
  BY <1>1, <1>2, <1>3, <1>4, <1>5

\* Locking the object keeps the invariant: one goroutine is inside it at a time.
LEMMA LockInv ==
    ASSUME StoreInv, NEW g \in Goroutines, Lock(g)
    PROVE  StoreInv' /\ AddTimesKept
<1> DEFINE h == at[g].h
           n == at[g].obj
           o == [objects[h][n] EXCEPT !.locked = TRUE]
           l == [at[g] EXCEPT !.pc = "read"]
<1>0. /\ TxTypeOK /\ at \in [Goroutines -> Local] /\ at[g] \in Local /\ h \in Hashes
      /\ at[g].op = "Add" /\ n \in 1..stored[h] /\ n \in 1..MaxStays
      /\ objects \in [Hashes -> [1..MaxStays -> Object]] /\ objects[h][n] \in Object
      /\ \A x \in Hashes : \A m \in 1..stored[x] : m \in 1..MaxStays
  BY OwningFacts DEF Lock, Owning
<1>1. /\ ~objects[h][n].locked /\ Goto(g, "read")
      /\ UNCHANGED <<now, hashToContent, txIDToHash, seenTxs, stored, announced, scan, expired,
                     late, shared, mixed, calls, panicked>>
  BY DEF Lock, Running, ghosts
<1>2. objects' = [objects EXCEPT ![h][n] = o]
  BY <1>0 DEF Lock
<1>3. /\ o \in Object /\ o.locked /\ o.content = objects[h][n].content
      /\ o.addTime = objects[h][n].addTime
  BY <1>0 DEF Object
<1>4. /\ l \in Local /\ l.pc = "read" /\ l.time = at[g].time /\ l.op = "Add" /\ l.h = h /\ l.obj = n
      /\ at' = [at EXCEPT ![g] = l]
  BY <1>0, <1>1 DEF Goto, Local, Places
<1> HIDE DEF h, n, o, l
<1>5. /\ at' \in [Goroutines -> Local] /\ at'[g] = l
      /\ \A p \in Goroutines \ {g} : at'[p] = at[p]
  BY <1>0, <1>4
<1>6. /\ objects' \in [Hashes -> [1..MaxStays -> Object]]
      /\ objects'[h][n] = o
      /\ \A x \in Hashes : \A m \in 1..MaxStays :
            x # h \/ m # n => objects'[x][m] = objects[x][m]
  <2>1. TxTypeOK /\ h \in Hashes /\ n \in 1..MaxStays /\ o \in Object
    BY <1>0, <1>3
  <2> QED
    BY ZenonT(30), <1>2, <2>1, ObjectUpdate
<1>7. \A x \in Hashes : \A m \in 1..MaxStays :
         /\ objects'[x][m].content = objects[x][m].content
         /\ objects'[x][m].addTime = objects[x][m].addTime
         /\ objects[x][m].locked => objects'[x][m].locked
  BY <1>3, <1>6
<1>8. LocalsFit'
  <2> SUFFICES ASSUME NEW p \in Goroutines PROVE LocalFit(at[p])'
    BY DEF LocalsFit
  <2>1. CASE p = g
    BY <1>0, <1>1, <1>3, <1>4, <1>5, <1>6, <2>1 DEF LocalFit, AddPlaces, Owning, Holding
  <2>2. CASE p # g
    <3>1. LocalFit(at[p]) /\ at'[p] = at[p] /\ at[p].h \in Hashes
      BY <1>0, <1>5, <2>2 DEF StoreInv, LocalsFit, Local
    <3>2. at[p].pc \in Owning => at[p].obj \in 1..MaxStays
      BY <1>0, <3>1 DEF LocalFit
    <3> QED
      BY <1>1, <1>7, <3>1, <3>2 DEF LocalFit, Owning, Holding
  <2> QED
    BY <2>1, <2>2
<1>9. Exclusive'
  <2>1. ASSUME NEW p \in Goroutines, p # g, at[p].pc \in Holding
        PROVE  at[p].h # h \/ at[p].obj # n
    <3>1. LocalFit(at[p])
      BY DEF StoreInv, LocalsFit
    <3> QED
      BY <1>1, <2>1, <3>1 DEF LocalFit
  <2> QED
    BY <1>4, <1>5, <2>1 DEF StoreInv, Exclusive
<1>10. TimesFit'
  BY <1>0, <1>1, <1>4, <1>5, <1>7 DEF StoreInv, TimesFit
<1>11. ContentCounted'
  <2>1. \A x \in Hashes : WithContent(x)' = WithContent(x)
    BY <1>0, <1>1, <1>7 DEF WithContent
  <2> QED
    BY <1>1, <2>1 DEF StoreInv, ContentCounted
<1>12. SlotsLeft'
  BY <1>0, <1>1, <1>4, PastInsert
<1>13. TxTypeOK'
  BY <1>0, <1>1, <1>5, <1>6 DEF TxTypeOK, Object
<1>14. AddTimesKept
  BY <1>7 DEF AddTimesKept
<1> QED
  BY <1>8, <1>9, <1>10, <1>11, <1>12, <1>13, <1>14 DEF StoreInv

\* Reading what is new about the transaction keeps the invariant.
LEMMA ReadTxInv ==
    ASSUME StoreInv, NEW g \in Goroutines, ReadTx(g)
    PROVE  StoreInv'
<1> DEFINE h == at[g].h
           n == at[g].obj
           newID == at[g].id # TxIDEmpty /\ at[g].id \notin objects[h][n].ids
           newContent == at[g].content /\ ~objects[h][n].content
           l == [at[g] EXCEPT !.pc = "write", !.newID = newID, !.newContent = newContent]
<1>0. /\ TxTypeOK /\ at \in [Goroutines -> Local] /\ at[g] \in Local /\ h \in Hashes
      /\ at[g].op = "Add" /\ n \in 1..stored[h] /\ at[g].pc = "read"
  BY OwningFacts DEF ReadTx, Owning
<1>1. UNCHANGED <<now, hashToContent, objects, txIDToHash, seenTxs, stored, announced, scan, expired,
                  late, shared, mixed, calls, panicked>>
  BY DEF ReadTx, Running, maps, ghosts
<1>2. newID \in BOOLEAN /\ newContent \in BOOLEAN
  OBVIOUS
<1>3. at' = [at EXCEPT ![g] = l]
  BY <1>0 DEF ReadTx
<1>4. newContent => ~objects[h][n].content
  OBVIOUS
<1>5. newID => at[g].id # TxIDEmpty
  OBVIOUS
<1> HIDE DEF newID, newContent
<1>6. /\ l \in Local /\ l.pc = "write" /\ l.time = at[g].time /\ l.op = "Add" /\ l.h = h /\ l.obj = n
      /\ l.newID = newID /\ l.newContent = newContent /\ l.id = at[g].id
  BY <1>0, <1>2 DEF Local, Places
<1> HIDE DEF l
<1>7. /\ at' \in [Goroutines -> Local] /\ at'[g] = l
      /\ \A p \in Goroutines \ {g} : at'[p] = at[p]
  BY <1>0, <1>3, <1>6
<1>8. LocalsFit'
  BY <1>0, <1>1, <1>4, <1>5, <1>6, <1>7 DEF StoreInv, LocalsFit, LocalFit, AddPlaces, Owning, Holding
<1>9. Exclusive'
  BY <1>0, <1>6, <1>7 DEF StoreInv, Exclusive, Holding
<1>10. TimesFit'
  BY <1>1, <1>6, <1>7 DEF StoreInv, TimesFit
<1>11. ContentCounted'
  BY <1>1 DEF StoreInv, ContentCounted, WithContent
<1>12. SlotsLeft'
  BY <1>0, <1>1, <1>3, <1>6, PastInsert
<1>13. TxTypeOK'
  BY <1>0, <1>1, <1>7 DEF TxTypeOK
<1> QED
  BY <1>8, <1>9, <1>10, <1>11, <1>12, <1>13 DEF StoreInv

\* A goroutine that holds the lock of its object changes it, and goes on to index the ID
\* with the lock or returns without.
LEMMA OwnObjectStep ==
    ASSUME StoreInv, NEW g \in Goroutines, at[g].pc \in Holding,
           NEW l \in Local, at' = [at EXCEPT ![g] = l],
           NEW o \in Object, o.addTime = objects[at[g].h][at[g].obj].addTime,
           objects' \in [Hashes -> [1..MaxStays -> Object]],
           objects'[at[g].h][at[g].obj] = o,
           \A x \in Hashes : \A m \in 1..MaxStays :
              x # at[g].h \/ m # at[g].obj => objects'[x][m] = objects[x][m],
           UNCHANGED <<stored, now, scan>>, l.time \in (0 - MaxTxAge)..now,
           \/ l.pc \in {"idle", "visit"}
           \/ /\ l.pc = "index" /\ l.op = "Add" /\ l.id # TxIDEmpty
              /\ l.h = at[g].h /\ l.obj = at[g].obj /\ o.locked
    PROVE  /\ at' \in [Goroutines -> Local]
           /\ LocalsFit' /\ Exclusive' /\ TimesFit' /\ SlotsLeft'
<1> DEFINE h == at[g].h
           n == at[g].obj
<1>0. /\ TxTypeOK /\ at \in [Goroutines -> Local] /\ h \in Hashes
      /\ n \in 1..stored[h] /\ n \in 1..MaxStays
      /\ \A x \in Hashes : \A m \in 1..stored[x] : m \in 1..MaxStays
  BY OwningFacts DEF Owning, Holding
<1>1. /\ at' \in [Goroutines -> Local] /\ at'[g] = l
      /\ \A p \in Goroutines \ {g} : at'[p] = at[p]
  BY <1>0
<1>2. /\ objects' \in [Hashes -> [1..MaxStays -> Object]] /\ objects'[h][n] = o
      /\ \A x \in Hashes : \A m \in 1..MaxStays :
            x # h \/ m # n => objects'[x][m] = objects[x][m]
  OBVIOUS
<1>3. ASSUME NEW p \in Goroutines, p # g, at[p].pc \in Holding
      PROVE  at[p].h # h \/ at[p].obj # n
  BY <1>3 DEF StoreInv, Exclusive
<1>4. LocalsFit'
  <2> SUFFICES ASSUME NEW p \in Goroutines PROVE LocalFit(at[p])'
    BY DEF LocalsFit
  <2>1. CASE p = g
    <3>1. CASE l.pc \in {"idle", "visit"}
      BY <1>1, <2>1, <3>1 DEF LocalFit, AddPlaces, Owning, Holding
    <3>2. CASE l.pc = "index"
      BY <1>0, <1>1, <1>2, <2>1, <3>2 DEF LocalFit
    <3> QED
      BY <3>1, <3>2
  <2>2. CASE p # g
    <3>1. LocalFit(at[p]) /\ at'[p] = at[p] /\ at[p].h \in Hashes
      BY <1>0, <1>1, <2>2 DEF StoreInv, LocalsFit, Local
    <3>2. at[p].pc \in Owning => at[p].obj \in 1..MaxStays
      BY <1>0, <3>1 DEF LocalFit
    <3>3. at[p].pc \in Holding => objects'[at[p].h][at[p].obj] = objects[at[p].h][at[p].obj]
      BY <1>2, <1>3, <2>2, <3>1, <3>2 DEF Owning, Holding
    <3> QED
      BY <3>1, <3>3 DEF LocalFit, Owning, Holding
  <2> QED
    BY <2>1, <2>2
<1>5. Exclusive'
  BY <1>1, <1>3 DEF StoreInv, Exclusive, Holding
<1>6. TimesFit'
  <2>1. \A x \in Hashes : \A m \in 1..stored[x] : objects'[x][m].addTime = objects[x][m].addTime
    BY <1>0, <1>2
  <2> QED
    BY <1>1, <2>1 DEF StoreInv, TimesFit
<1>7. SlotsLeft'
  BY <1>0, PastInsert
<1> QED
  BY <1>1, <1>2, <1>4, <1>5, <1>6, <1>7

\* The object that gets its content is counted once: it had none before, for the lock was
\* held since SetContent's condition was read.
LEMMA ContentStep ==
    ASSUME StoreInv, NEW h \in Hashes, NEW n \in 1..stored[h], NEW o,
           \A x \in Hashes : \A m \in 1..stored[x] : m \in 1..MaxStays,
           objects'[h][n] = o, UNCHANGED stored,
           \A x \in Hashes : \A m \in 1..MaxStays :
              x # h \/ m # n => objects'[x][m] = objects[x][m],
           \/ o.content = objects[h][n].content /\ UNCHANGED announced
           \/ /\ o.content /\ ~objects[h][n].content
              /\ announced' = [announced EXCEPT ![h] = @ + 1]
    PROVE  /\ ContentCounted' /\ announced' \in [Hashes -> Nat]
           /\ announced' # announced => announced[h] < stored[h]
<1>0. announced \in [Hashes -> Nat] /\ stored[h] \in Nat
  BY DEF StoreInv, TxTypeOK
<1>1. \A x \in Hashes \ {h} : WithContent(x)' = WithContent(x)
  BY DEF WithContent
<1>2. CASE o.content = objects[h][n].content /\ UNCHANGED announced
  <2>1. WithContent(h)' = WithContent(h)
    BY <1>2 DEF WithContent
  <2> QED
    BY <1>0, <1>1, <1>2, <2>1 DEF StoreInv, ContentCounted
<1>3. CASE /\ o.content /\ ~objects[h][n].content
           /\ announced' = [announced EXCEPT ![h] = @ + 1]
  <2>1. WithContent(h)' = WithContent(h) \cup {n} /\ n \notin WithContent(h)
    BY <1>3 DEF WithContent
  <2>2. IsFiniteSet(1..stored[h]) /\ Cardinality(1..stored[h]) = stored[h]
    <3> DEFINE k == stored[h]
    <3>1. k \in Int /\ k >= 1
      BY <1>0
    <3> HIDE DEF k
    <3>2. IsFiniteSet(1..k) /\ Cardinality(1..k) = IF 1 > k THEN 0 ELSE k - 1 + 1
      BY <3>1, FS_Interval
    <3>3. Cardinality(1..k) = k
      BY <3>1, <3>2
    <3> QED
      BY <3>2, <3>3 DEF k
  <2>3. IsFiniteSet(WithContent(h)) /\ Cardinality(WithContent(h)) \in Nat
    BY <2>2, FS_Subset, FS_CardinalityType DEF WithContent
  <2>4. Cardinality(WithContent(h)') = Cardinality(WithContent(h)) + 1
    BY <2>1, <2>3, FS_AddElement
  <2>5. Cardinality(WithContent(h)') <= stored[h]
    <3>1. WithContent(h)' \subseteq 1..stored[h]
      BY DEF WithContent
    <3>2. Cardinality(WithContent(h)') <= Cardinality(1..stored[h])
      <4> DEFINE A == 1..stored[h]
                 B == WithContent(h)'
      <4>1. IsFiniteSet(A) /\ B \subseteq A
        BY <2>2, <3>1
      <4> HIDE DEF A, B
      <4>2. Cardinality(B) <= Cardinality(A)
        BY <4>1, FS_Subset
      <4> QED
        BY <4>2 DEF A, B
    <3> QED
      BY <2>2, <3>2
  <2>6. announced[h] = Cardinality(WithContent(h))
    BY DEF StoreInv, ContentCounted
  <2>7. \A x \in Hashes : announced'[x] = Cardinality(WithContent(x)')
    <3> TAKE x \in Hashes
    <3>1. CASE x = h
      BY <1>0, <1>3, <2>4, <2>6, <3>1
    <3>2. CASE x # h
      BY <1>0, <1>1, <1>3, <3>2 DEF StoreInv, ContentCounted
    <3> QED
      BY <3>1, <3>2
  <2> QED
    BY <1>0, <1>3, <2>3, <2>4, <2>5, <2>6, <2>7 DEF ContentCounted
<1> QED
  BY <1>2, <1>3

\* WriteTx assigns the fields of one object.
LEMMA WriteTxObject ==
    ASSUME StoreInv, NEW g \in Goroutines, WriteTx(g)
    PROVE  LET tx == objects[at[g].h][at[g].obj]
           IN  objects' = [objects EXCEPT ![at[g].h][at[g].obj] =
                   [tx EXCEPT !.ids = IF at[g].newID THEN @ \cup {at[g].id} ELSE @,
                              !.content = @ \/ at[g].newContent, !.locked = at[g].newID]]
<1> DEFINE h == at[g].h
           n == at[g].obj
           tx == objects[h][n]
           newID == at[g].newID
           newContent == at[g].newContent
           o == [tx EXCEPT !.ids = IF newID THEN @ \cup {at[g].id} ELSE @,
                           !.content = @ \/ newContent, !.locked = newID]
<1>0. objects \in [Hashes -> [1..MaxStays -> Object]] /\ h \in Hashes /\ n \in 1..MaxStays
  BY OwningFacts DEF WriteTx, Owning
<1> DEFINE F1 == [objects EXCEPT ![h][n].ids = IF newID THEN @ \cup {at[g].id} ELSE @]
           F2 == [F1 EXCEPT ![h][n].content = @ \/ newContent]
           F3 == [F2 EXCEPT ![h][n].locked = newID]
           o1 == [tx EXCEPT !.ids = IF newID THEN @ \cup {at[g].id} ELSE @]
           o2 == [o1 EXCEPT !.content = @ \/ newContent]
           o3 == [o2 EXCEPT !.locked = newID]
<1>1. objects' = F3
  <2>1. objects' = [objects EXCEPT
             ![h][n].ids = IF newID THEN @ \cup {at[g].id} ELSE @,
             ![h][n].content = @ \/ newContent,
             ![h][n].locked = newID]
    BY DEF WriteTx
  <2> HIDE DEF h, n, newID, newContent
  <2> QED
    BY <1>0, <2>1
<1>2. o = o3
  OBVIOUS
<1>3. F1 = [objects EXCEPT ![h][n] = o1]
  OBVIOUS
<1> HIDE DEF F1, o1, h, n, tx, newID, newContent
<1>4. F1[h][n] = o1 /\ DOMAIN F1 = Hashes /\ DOMAIN F1[h] = 1..MaxStays
  BY <1>0, <1>3
<1>5. F2 = [F1 EXCEPT ![h][n] = o2]
  BY <1>4
<1> HIDE DEF F2, o2
<1>6. F2[h][n] = o2 /\ DOMAIN F2 = Hashes /\ DOMAIN F2[h] = 1..MaxStays
  BY <1>0, <1>4, <1>5
<1>7. F3 = [F2 EXCEPT ![h][n] = o3]
  BY <1>6
<1> HIDE DEF F3, o3, o
<1>8. F3 = [objects EXCEPT ![h][n] = o3]
  BY <1>0, <1>3, <1>5, <1>7
<1>9. objects' = [objects EXCEPT ![h][n] = o]
  BY <1>1, <1>2, <1>8
<1> QED
  BY <1>9 DEF o, h, n, tx, newID, newContent

\* Writing the content keeps the invariant, and content is announced at most once for each
\* object that was stored.
LEMMA WriteTxInv ==
    ASSUME StoreInv, NEW g \in Goroutines, WriteTx(g)
    PROVE  /\ StoreInv' /\ AddTimesKept
           /\ announced' # announced =>
                 /\ announced[at[g].h] < stored[at[g].h]
                 /\ announced' = [announced EXCEPT ![at[g].h] = @ + 1]
<1> DEFINE h == at[g].h
           n == at[g].obj
           tx == objects[h][n]
           newID == at[g].newID
           newContent == at[g].newContent
           o == [tx EXCEPT !.ids = IF newID THEN @ \cup {at[g].id} ELSE @,
                           !.content = @ \/ newContent, !.locked = newID]
<1>0. /\ TxTypeOK /\ at \in [Goroutines -> Local] /\ at[g] \in Local /\ h \in Hashes
      /\ at[g].op = "Add" /\ n \in 1..stored[h] /\ n \in 1..MaxStays
      /\ objects \in [Hashes -> [1..MaxStays -> Object]] /\ tx \in Object
      /\ \A x \in Hashes : \A m \in 1..stored[x] : m \in 1..MaxStays
  BY OwningFacts DEF WriteTx, Owning
<1>1. /\ at[g].pc = "write"
      /\ UNCHANGED <<now, hashToContent, txIDToHash, seenTxs, stored, scan, expired,
                     late, shared, mixed, calls, panicked>>
      /\ announced' = IF newContent THEN [announced EXCEPT ![h] = @ + 1] ELSE announced
      /\ IF newID THEN Goto(g, "index") ELSE Return(g)
  BY DEF WriteTx, Running, ghosts
<1>2. objects' = [objects EXCEPT ![h][n] = o]
  BY WriteTxObject
<1>3. /\ newContent => ~tx.content
      /\ newID => at[g].id # TxIDEmpty
      /\ newID \in BOOLEAN /\ newContent \in BOOLEAN /\ at[g].id \in TxIDs \cup {TxIDEmpty}
      /\ at[g].time \in (0 - MaxTxAge)..now
  BY <1>0, <1>1 DEF StoreInv, LocalsFit, LocalFit, Local, TimesFit
<1>4. /\ o \in Object /\ o.locked = newID /\ o.content = (tx.content \/ newContent)
      /\ o.addTime = tx.addTime
  <2> DEFINE ids == IF newID THEN tx.ids \cup {at[g].id} ELSE tx.ids
             content == tx.content \/ newContent
  <2>1. ids \in SUBSET TxIDs /\ content \in BOOLEAN
    BY <1>0, <1>3 DEF Object
  <2>2. o = [tx EXCEPT !.ids = ids, !.content = content, !.locked = newID]
    BY <1>0 DEF Object
  <2> HIDE DEF ids, content, o, tx, newID
  <2>3. o \in Object /\ o.locked = newID /\ o.content = content /\ o.addTime = tx.addTime
    BY <1>0, <1>3, <2>1, <2>2 DEF Object
  <2> QED
    BY <2>3 DEF content
<1> DEFINE l == IF newID THEN [at[g] EXCEPT !.pc = "index"] ELSE Done(g)
<1>5. /\ l \in Local /\ at' = [at EXCEPT ![g] = l]
      /\ IF newID
         THEN /\ l.pc = "index" /\ l.op = "Add" /\ l.id = at[g].id /\ l.h = h /\ l.obj = n
              /\ l.time = at[g].time
         ELSE l.pc \in {"idle", "visit"} /\ l.time = 0
  <2>1. CASE newID
    BY <1>0, <1>1, <2>1 DEF Goto, Local, Places
  <2>2. CASE ~newID
    BY <1>1, <2>2, ReturnLocal
  <2> QED
    BY <2>1, <2>2
<1>6. l.time \in (0 - MaxTxAge)..now
  BY <1>3, <1>5, StoreTimes
<1> HIDE DEF o, l
<1>7. /\ objects' \in [Hashes -> [1..MaxStays -> Object]]
      /\ objects'[h][n] = o
      /\ \A x \in Hashes : \A m \in 1..MaxStays :
            x # h \/ m # n => objects'[x][m] = objects[x][m]
  <2>1. TxTypeOK /\ h \in Hashes /\ n \in 1..MaxStays /\ o \in Object
    BY <1>0, <1>4
  <2> HIDE DEF h, n
  <2> QED
    BY ZenonT(30), <1>2, <2>1, ObjectUpdate
<1>8. /\ at' \in [Goroutines -> Local]
      /\ LocalsFit' /\ Exclusive' /\ TimesFit' /\ SlotsLeft'
  <2>1. at[g].pc \in Holding
    BY <1>1 DEF Holding
  <2> QED
    BY <1>1, <1>3, <1>4, <1>5, <1>6, <1>7, <2>1, OwnObjectStep
<1>9. /\ ContentCounted' /\ announced' \in [Hashes -> Nat]
      /\ announced' # announced => announced[h] < stored[h]
  <2>1. \/ o.content = tx.content /\ UNCHANGED announced
        \/ o.content /\ ~tx.content /\ announced' = [announced EXCEPT ![h] = @ + 1]
    BY <1>0, <1>1, <1>3, <1>4 DEF Object
  <2> QED
    BY <1>0, <1>1, <1>7, <2>1, ContentStep
<1>10. TxTypeOK'
  BY <1>0, <1>1, <1>7, <1>8, <1>9 DEF TxTypeOK, Object
<1>11. AddTimesKept
  BY <1>0, <1>4, <1>7 DEF AddTimesKept
<1> QED
  BY <1>1, <1>8, <1>9, <1>10, <1>11 DEF StoreInv

\* Indexing the short ID and unlocking the object keep the invariant.
LEMMA IndexTxIDInv ==
    ASSUME StoreInv, NEW g \in Goroutines, IndexTxID(g)
    PROVE  StoreInv' /\ AddTimesKept
<1> DEFINE h == at[g].h
           n == at[g].obj
           tx == objects[h][n]
           o == [tx EXCEPT !.locked = FALSE]
<1>0. /\ TxTypeOK /\ at \in [Goroutines -> Local] /\ at[g] \in Local /\ h \in Hashes
      /\ n \in 1..stored[h] /\ n \in 1..MaxStays
      /\ objects \in [Hashes -> [1..MaxStays -> Object]] /\ tx \in Object
      /\ \A x \in Hashes : \A m \in 1..stored[x] : m \in 1..MaxStays
  BY OwningFacts DEF IndexTxID, Owning
<1>1. /\ at[g].pc = "index" /\ Return(g) /\ txIDToHash' = txIDToHash \cup {at[g].id}
      /\ UNCHANGED <<now, hashToContent, seenTxs, stored, announced, scan, expired,
                     late, shared, mixed, calls, panicked>>
  BY DEF IndexTxID, Running, ghosts
<1>2. objects' = [objects EXCEPT ![h][n] = o]
  BY <1>0 DEF IndexTxID
<1>3. o \in Object /\ o.content = tx.content /\ o.addTime = tx.addTime
  BY <1>0 DEF Object
<1>4. txIDToHash' \subseteq TxIDs
  <2>1. at[g].id \in TxIDs
    BY <1>0, <1>1 DEF StoreInv, LocalsFit, LocalFit, Local
  <2> QED
    BY <1>0, <1>1, <2>1 DEF TxTypeOK
<1>5. /\ Done(g) \in Local /\ at' = [at EXCEPT ![g] = Done(g)]
      /\ Done(g).pc \in {"idle", "visit"} /\ Done(g).time \in (0 - MaxTxAge)..now
  BY <1>1, ReturnLocal, StoreTimes
<1> HIDE DEF o
<1>6. /\ objects' \in [Hashes -> [1..MaxStays -> Object]]
      /\ objects'[h][n] = o
      /\ \A x \in Hashes : \A m \in 1..MaxStays :
            x # h \/ m # n => objects'[x][m] = objects[x][m]
  <2>1. TxTypeOK /\ h \in Hashes /\ n \in 1..MaxStays /\ o \in Object
    BY <1>0, <1>3
  <2> HIDE DEF h, n
  <2> QED
    BY ZenonT(30), <1>2, <2>1, ObjectUpdate
<1>7. /\ at' \in [Goroutines -> Local]
      /\ LocalsFit' /\ Exclusive' /\ TimesFit' /\ SlotsLeft'
  <2>1. at[g].pc \in Holding
    BY <1>1 DEF Holding
  <2> QED
    BY <1>1, <1>3, <1>5, <1>6, <2>1, OwnObjectStep
<1>8. ContentCounted'
  BY <1>0, <1>1, <1>3, <1>6, ContentStep
<1>9. TxTypeOK'
  BY <1>0, <1>1, <1>4, <1>6, <1>7 DEF TxTypeOK, Object
<1>10. AddTimesKept
  BY <1>0, <1>3, <1>6 DEF AddTimesKept
<1> QED
  BY <1>7, <1>8, <1>9, <1>10 DEF StoreInv

-----------------------------------------------------------------------------
(* The invariant.                                                          *)

\* The store is empty and no operation is under way.
LEMMA StoreInitially == TxInit => StoreInv
<1> SUFFICES ASSUME TxInit PROVE StoreInv
  OBVIOUS
<1>0. /\ MaxTime \in Nat /\ MaxStays \in Nat /\ MaxCalls \in Nat
      /\ TimeToAvoidReEntry \in Nat /\ MaxTxAge \in Nat /\ Idle \in Local
      /\ Idle.pc = "idle" /\ Idle.op = "none" /\ Idle.time = 0
  BY StoreAssumption, IdleLocal DEF Durations
<1>1. /\ at \in [Goroutines -> Local]
      /\ \A g \in Goroutines : at[g].pc = "idle" /\ at[g].op = "none" /\ at[g].time = 0
  BY <1>0 DEF TxInit
<1>2. TxTypeOK
  <2>1. now \in 0..MaxTime /\ calls \in 0..MaxCalls
    BY <1>0 DEF TxInit
  <2>2. /\ hashToContent \in [Hashes -> 0..MaxStays] /\ stored \in [Hashes -> 0..MaxStays]
        /\ announced \in [Hashes -> Nat]
        /\ \A h \in Hashes : hashToContent[h] \in {0, stored[h]}
    BY <1>0 DEF TxInit
  <2>3. seenTxs \in [Hashes -> Absent..(MaxTime + TimeToAvoidReEntry)]
    BY <1>0 DEF TxInit, Absent
  <2>4. objects \in [Hashes -> [1..MaxStays ->
           [content : BOOLEAN, ids : SUBSET TxIDs, addTime : Int, locked : BOOLEAN]]]
    BY DEF TxInit, NewObject
  <2>5. scan \in [time : Nat, found : BOOLEAN, maxAge : Nat,
                  items : SUBSET (Hashes \X (1..MaxStays))]
    BY <1>0 DEF TxInit, NoScan
  <2>6. /\ txIDToHash \subseteq TxIDs /\ expired \subseteq Hashes /\ panicked \in BOOLEAN
        /\ late \subseteq Hashes /\ mixed \subseteq shared /\ shared \subseteq Hashes
    BY DEF TxInit
  <2> QED
    BY <1>1, <2>1, <2>2, <2>3, <2>4, <2>5, <2>6 DEF TxTypeOK
<1>3. LocalsFit /\ Exclusive
  BY <1>1 DEF LocalsFit, LocalFit, Exclusive, AddPlaces, Owning, Holding
<1>4. \A h \in Hashes : stored[h] = 0 /\ announced[h] = 0
  BY DEF TxInit
<1>5. SlotsLeft
  <2>1. \A h \in Hashes : Pending(h) = {}
    BY <1>1 DEF Pending
  <2> QED
    BY <1>0, <1>4, <2>1, FS_EmptySet DEF SlotsLeft
<1>6. TimesFit
  BY <1>0, <1>1, <1>4 DEF TimesFit, TxInit, NoScan
<1>7. ContentCounted
  <2>1. \A h \in Hashes : WithContent(h) = {}
    BY <1>4 DEF WithContent
  <2> QED
    BY <1>4, <2>1, FS_EmptySet DEF ContentCounted
<1> QED
  BY <1>2, <1>3, <1>5, <1>6, <1>7 DEF StoreInv

\* Every step of the store, of its cleanup, of its history and of the clock.
LEMMA StoreNext == StoreInv /\ [TxNext]_txVars => StoreInv'
<1> SUFFICES ASSUME StoreInv, [TxNext]_txVars PROVE StoreInv'
  OBVIOUS
<1>0. Cleaner \in Goroutines /\ \A g \in Callers : g \in Goroutines
  BY DEF Goroutines
<1>1. ASSUME NEW g \in Callers, Call(g) PROVE StoreInv'
  BY <1>0, <1>1, AddInv, OtherCallInv DEF Call
<1>2. ASSUME NEW g \in Callers, AddStep(g) PROVE StoreInv'
  BY <1>0, <1>2, RefreshInv, InsertInv, GetExistingInv, LockInv, ReadTxInv, WriteTxInv,
     IndexTxIDInv DEF AddStep
<1>3. ASSUME NEW g \in Goroutines, RemoveStep(g) PROVE StoreInv'
  BY <1>3, RemoveStepInv
<1>4. CASE CleanStep \/ Stop
  BY <1>0, <1>3, <1>4, CleanStepInv DEF CleanStep
<1>5. CASE HistoryClean \/ HistoryRemove \/ Tick \/ UNCHANGED txVars
  BY <1>5, ClockStepInv
<1> QED
  BY <1>0, <1>1, <1>2, <1>3, <1>4, <1>5 DEF TxNext

\* The state of the store keeps its type, an object is changed only under its lock, and
\* the content of a transaction was announced once for each of its objects that has one.
THEOREM StoreInvariant == TxSpec => []StoreInv
<1>1. TxInit => StoreInv
  BY StoreInitially
<1>2. StoreInv /\ [TxNext]_txVars => StoreInv'
  BY StoreNext
<1> QED
  BY <1>1, <1>2, PTL DEF TxSpec

-----------------------------------------------------------------------------
(* The store implements TxRegistry.                                        *)

\* The steps that the registry does not see.
LEMMA UnseenStep ==
    ASSUME UNCHANGED <<hashToContent, stored, announced>>
    PROVE  UNCHANGED Registry!registryVars
BY DEF Registry!registryVars, Stored

\* The steps of one call of Add: SetIfAbsent takes a transaction in, SetContent
\* announces it.
LEMMA AddStepRegistry ==
    ASSUME StoreInv, NEW g \in Goroutines, AddStep(g)
    PROVE  [Registry!RegistryNext]_(Registry!registryVars)
<1> DEFINE h == at[g].h
<1>0. /\ h \in Hashes /\ hashToContent \in [Hashes -> 0..MaxStays]
      /\ stored \in [Hashes -> 0..MaxStays] /\ MaxStays \in Nat
  BY StoreAssumption DEF StoreInv, TxTypeOK, Local
<1>1. CASE Insert(g) /\ hashToContent[h] = 0
  <2>1. /\ hashToContent' = [hashToContent EXCEPT ![h] = stored[h] + 1]
        /\ stored' = [stored EXCEPT ![h] = stored[h] + 1] /\ UNCHANGED announced
    BY <1>1 DEF Insert
  <2>2. h \notin Stored /\ Stored' = Stored \cup {h}
    BY <1>0, <1>1, <2>1 DEF Stored
  <2>3. Registry!Insert(h)
    BY <2>1, <2>2 DEF Registry!Insert
  <2> QED
    BY <1>0, <2>3 DEF Registry!RegistryNext
<1>2. CASE Insert(g) /\ hashToContent[h] # 0
  BY <1>2, UnseenStep DEF Insert
<1>3. CASE WriteTx(g)
  <2>1. UNCHANGED <<hashToContent, stored>>
    BY <1>3 DEF WriteTx
  <2>2. CASE announced' # announced
    <3>1. announced[h] < stored[h] /\ announced' = [announced EXCEPT ![h] = @ + 1]
      BY <1>3, <2>2, WriteTxInv
    <3>2. Registry!Announce(h)
      BY <2>1, <3>1 DEF Registry!Announce, Stored
    <3> QED
      BY <1>0, <3>2 DEF Registry!RegistryNext
  <2> QED
    BY <2>1, <2>2, UnseenStep
<1>4. CASE Refresh(g) \/ Unsee(g) \/ GetExisting(g) \/ Lock(g) \/ ReadTx(g) \/ IndexTxID(g)
  <2>1. UNCHANGED <<hashToContent, stored, announced>>
    BY <1>4 DEF Refresh, Unsee, GetExisting, Lock, ReadTx, IndexTxID, maps
  <2> QED
    BY <2>1, UnseenStep
<1> QED
  BY <1>1, <1>2, <1>3, <1>4 DEF AddStep

\* The steps of a removal: Pop drops one transaction, whatever object is stored for it.
LEMMA RemoveStepRegistry ==
    ASSUME StoreInv, NEW g \in Goroutines, RemoveStep(g)
    PROVE  [Registry!RegistryNext]_(Registry!registryVars)
<1>1. CASE Pop(g)
  <2>1. PICK h \in at[g].hs : \/ UNCHANGED hashToContent
                              \/ hashToContent' = [hashToContent EXCEPT ![h] = 0]
    BY <1>1 DEF Pop
  <2>2. UNCHANGED <<stored, announced>>
    BY <1>1 DEF Pop
  <2>3. CASE hashToContent' = [hashToContent EXCEPT ![h] = 0]
    <3>1. hashToContent \in [Hashes -> 0..MaxStays] /\ at[g].hs \in SUBSET Hashes
      BY DEF StoreInv, TxTypeOK, Local
    <3>2. Stored' = Stored \ {h}
      BY <2>3, <3>1 DEF Stored
    <3>3. Registry!Drop({h}) /\ {h} \in SUBSET Hashes
      BY <2>2, <3>1, <3>2 DEF Registry!Drop
    <3> QED
      BY <3>3 DEF Registry!RegistryNext
  <2> QED
    BY <2>1, <2>2, <2>3, UnseenStep
<1>2. CASE LookupTxID(g) \/ UnindexTxID(g) \/ Protect(g) \/ ClearIDs(g)
  <2>1. UNCHANGED <<hashToContent, stored, announced>>
    BY <1>2 DEF LookupTxID, UnindexTxID, Protect, ClearIDs, maps
  <2> QED
    BY <2>1, UnseenStep
<1> QED
  BY <1>1, <1>2 DEF RemoveStep

\* The first step of a call: Clear drops everything, the others touch no map.
LEMMA CallRegistry ==
    ASSUME NEW g \in Goroutines, Call(g)
    PROVE  [Registry!RegistryNext]_(Registry!registryVars)
<1>1. CASE Clear(g)
  <2>1. hashToContent' = [h \in Hashes |-> 0] /\ UNCHANGED <<stored, announced>>
    BY <1>1 DEF Clear
  <2>2. Stored' = Stored \ Hashes
    BY <2>1 DEF Stored
  <2>3. Registry!Drop(Hashes)
    BY <2>1, <2>2 DEF Registry!Drop
  <2> QED
    BY <2>3 DEF Registry!RegistryNext
<1>2. CASE ~Clear(g)
  <2>1. UNCHANGED <<hashToContent, stored, announced>>
    BY <1>2 DEF Call, Add, Get, RemoveHashes, RemoveTxIDs, maps
  <2> QED
    BY <2>1, UnseenStep
<1> QED
  BY <1>1, <1>2

\* However the operations overlap, the store keeps the promise of TxRegistry: it announces
\* the content of a transaction at most once for each time the transaction was stored.
THEOREM StoreImplementsRegistry == TxSpec => ImplementsRegistry
<1>1. TxInit => Registry!RegistryInit
  BY DEF TxInit, Registry!RegistryInit, Stored
<1>2. StoreInv /\ [TxNext]_txVars => [Registry!RegistryNext]_(Registry!registryVars)
  <2> SUFFICES ASSUME StoreInv, [TxNext]_txVars
               PROVE  [Registry!RegistryNext]_(Registry!registryVars)
    OBVIOUS
  <2>0. Cleaner \in Goroutines /\ \A g \in Callers : g \in Goroutines
    BY DEF Goroutines
  <2>1. CASE \E g \in Callers : Call(g) \/ AddStep(g) \/ RemoveStep(g)
    BY <2>0, <2>1, CallRegistry, AddStepRegistry, RemoveStepRegistry
  <2>2. CASE RemoveStep(Cleaner)
    BY <2>0, <2>2, RemoveStepRegistry
  <2>3. CASE CleanStart \/ Rescan \/ Visit \/ CleanDone \/ Stop \/ HistoryClean
             \/ HistoryRemove \/ Tick \/ UNCHANGED txVars
    <3>1. UNCHANGED <<hashToContent, stored, announced>>
      BY <2>3 DEF CleanStart, Rescan, Visit, CleanDone, Stop, HistoryClean, HistoryRemove,
                  Tick, txVars, maps
    <3> QED
      BY <3>1, UnseenStep
  <2> QED
    BY <2>1, <2>2, <2>3 DEF TxNext, CleanStep
<1> QED
  BY <1>1, <1>2, StoreInvariant, PTL DEF TxSpec, ImplementsRegistry, Registry!RegistrySpec

-----------------------------------------------------------------------------
(* The cleanup panics only after a late Add.                               *)

\* The transaction came late, or was not too old for a missing ID when clean began.
Young(h, n) == h \in late \/ scan.time - objects[h][n].addTime <= NoTxIDAge

\* When the first pass of clean found nothing, everything that the second pass may
\* find is young: what is stored between the passes, and what the snapshot holds.
ScanFits ==
    /\ panicked => late # {}
    /\ \A item \in scan.items : item[2] \in 1..stored[item[1]]
    /\ ~scan.found => \A item \in scan.items : Young(item[1], item[2])
    /\ ~scan.found /\ at[Cleaner].pc = "rescan" => \A h \in Stored : Young(h, hashToContent[h])

\* What the proofs below use of the types.
LEMMA ScanTypes ==
    ASSUME StoreInv
    PROVE  /\ scan.time \in Nat /\ now \in Nat /\ NoTxIDAge \in Nat /\ scan.time <= now
           /\ scan.items \subseteq Hashes \X (1..MaxStays) /\ scan.found \in BOOLEAN
           /\ hashToContent \in [Hashes -> 0..MaxStays] /\ stored \in [Hashes -> 0..MaxStays]
           /\ objects \in [Hashes -> [1..MaxStays -> Object]]
           /\ at \in [Goroutines -> Local] /\ Cleaner \in Goroutines /\ MaxStays \in Nat
           /\ \A h \in Stored : hashToContent[h] = stored[h] /\ stored[h] \in 1..MaxStays
           /\ \A item \in scan.items : item[1] \in Hashes /\ item[2] \in 1..MaxStays
<1>1. /\ now \in Nat /\ NoTxIDAge \in Nat /\ MaxStays \in Nat
  BY StoreAssumption DEF StoreInv, TxTypeOK, Durations
<1>2. /\ scan.time \in Nat /\ scan.time <= now /\ scan.found \in BOOLEAN
      /\ scan.items \subseteq Hashes \X (1..MaxStays)
  BY DEF StoreInv, TxTypeOK, TimesFit
<1>3. /\ hashToContent \in [Hashes -> 0..MaxStays] /\ stored \in [Hashes -> 0..MaxStays]
      /\ objects \in [Hashes -> [1..MaxStays -> Object]]
      /\ at \in [Goroutines -> Local] /\ Cleaner \in Goroutines
  BY DEF StoreInv, TxTypeOK, Object, Goroutines
<1>4. \A h \in Stored : hashToContent[h] = stored[h] /\ stored[h] \in 1..MaxStays
  BY <1>1, <1>3 DEF StoreInv, TxTypeOK, Stored
<1> QED
  BY <1>1, <1>2, <1>3, <1>4

\* A step that neither scans nor stores: transactions may only leave.
LEMMA ScanKept ==
    ASSUME StoreInv, ScanFits, UNCHANGED <<scan, late, stored, panicked>>, AddTimesKept,
           at'[Cleaner].pc = "rescan" => at[Cleaner].pc = "rescan",
           \A h \in Hashes : hashToContent'[h] \in {0, hashToContent[h]}
    PROVE  ScanFits'
<1>1. \A h \in Hashes : \A n \in 1..MaxStays : Young(h, n) => Young(h, n)'
  BY DEF Young, AddTimesKept
<1>2. \A h \in Stored' : h \in Stored /\ hashToContent'[h] = hashToContent[h]
  BY DEF Stored
<1>3. \A item \in scan.items : Young(item[1], item[2]) => Young(item[1], item[2])'
  BY <1>1, ScanTypes
<1>4. \A h \in Stored' : /\ h \in Stored
                         /\ Young(h, hashToContent[h]) => Young(h, hashToContent[h])'
  <2> TAKE h \in Stored'
  <2>1. h \in Stored /\ hashToContent'[h] = hashToContent[h] /\ h \in Hashes
        /\ hashToContent[h] \in 1..MaxStays
    BY <1>2, ScanTypes DEF Stored
  <2> QED
    BY <1>1, <2>1 DEF Young
<1> QED
  BY <1>3, <1>4 DEF ScanFits

\* What is stored between the passes was not late, or is recorded as late.
LEMMA ScanInsert ==
    ASSUME StoreInv, ScanFits, NEW g \in Goroutines, g # Cleaner, Insert(g)
    PROVE  ScanFits'
<1>0. at[g].h \in Hashes /\ at[g].time \in Int /\ stored[at[g].h] \in Nat
  BY ScanTypes DEF Local
<1>h. PICK h \in Hashes : h = at[g].h
  BY <1>0
<1>n. PICK n \in Nat : n = stored[h] + 1
  BY <1>0, <1>h
<1>1. at'[Cleaner] = at[Cleaner]
  BY ScanTypes DEF Insert, Goto
<1>2. CASE hashToContent[h] # 0
  <2>1. UNCHANGED <<hashToContent, stored, objects, late, scan, panicked>>
    BY <1>2, <1>h DEF Insert, Running
  <2> QED
    BY <1>1, <2>1, ScanKept DEF AddTimesKept
<1>3. CASE hashToContent[h] = 0
  <2>1. /\ hashToContent' = [hashToContent EXCEPT ![h] = n]
        /\ stored' = [stored EXCEPT ![h] = n]
        /\ objects' = [objects EXCEPT ![h][n] = NewObject(at[g].time)]
        /\ late' = IF now - at[g].time > NoTxIDAge THEN late \cup {h} ELSE late
        /\ UNCHANGED <<scan, panicked>>
    BY <1>3, <1>h, <1>n DEF Insert, Running
  <2>2. \A x \in Hashes : \A m \in 1..stored[x] :
           /\ m \in 1..stored'[x]
           /\ objects'[x][m] = objects[x][m]
    <3> TAKE x \in Hashes
    <3> TAKE m \in 1..stored[x]
    <3>1. stored[x] \in Nat /\ m \in 1..MaxStays /\ stored[x] \in 0..MaxStays
      BY ScanTypes
    <3>2. CASE x = h
      <4>1. m # n /\ stored'[x] = stored[x] + 1
        BY <1>0, <2>1, <3>1, <3>2, <1>n, ScanTypes
      <4> QED
        BY <2>1, <3>1, <3>2, <4>1, ScanTypes
    <3>3. CASE x # h
      BY <2>1, <3>1, <3>3, ScanTypes
    <3> QED
      BY <3>2, <3>3
  <2>3. \A x \in Hashes : \A m \in 1..stored[x] : Young(x, m) => Young(x, m)'
    BY <2>1, <2>2 DEF Young
  <2>4. \A item \in scan.items :
           /\ item[2] \in 1..stored'[item[1]]
           /\ Young(item[1], item[2]) => Young(item[1], item[2])'
    BY <2>2, <2>3, ScanTypes DEF ScanFits
  <2>5. hashToContent'[h] = n /\ n \in 1..MaxStays
    <3>1. StoreInv'
      BY InsertInv
    <3>2. hashToContent'[h] = n /\ hashToContent'[h] \in 0..MaxStays
      BY <1>0, <2>1, <3>1, ScanTypes DEF StoreInv, TxTypeOK
    <3> QED
      BY <1>0, <3>2, <1>n, ScanTypes
  <2>6. Young(h, hashToContent[h])'
    <3>1. objects'[h][n].addTime = at[g].time
      <4>1. objects'[h][n] = NewObject(at[g].time)
        BY <1>0, <2>1, <2>5, ScanTypes
      <4> QED
        BY <4>1 DEF NewObject
    <3>2. CASE now - at[g].time > NoTxIDAge
      BY <2>1, <3>2 DEF Young
    <3>3. CASE ~(now - at[g].time > NoTxIDAge)
      BY <1>0, <2>1, <2>5, <3>1, <3>3, ScanTypes DEF Young
    <3> QED
      BY <3>2, <3>3
  <2>7. ASSUME NEW x \in Stored', x # h
        PROVE  /\ x \in Stored
               /\ Young(x, hashToContent[x]) => Young(x, hashToContent[x])'
    <3>1. x \in Stored /\ x \in Hashes /\ hashToContent'[x] = hashToContent[x]
      BY <2>1, <2>7, ScanTypes DEF Stored
    <3>2. hashToContent[x] \in 1..stored[x]
      BY <3>1, ScanTypes
    <3> QED
      BY <2>3, <3>1, <3>2 DEF Young
  <2> QED
    BY <1>1, <2>1, <2>4, <2>6, <2>7 DEF ScanFits
<1> QED
  BY <1>2, <1>3

\* The passes of clean: the first starts with no snapshot, the second takes one of what
\* is stored, and each visit takes an item out of it.
LEMMA ScanClean ==
    ASSUME StoreInv, ScanFits, CleanStart \/ Rescan \/ Visit \/ CleanDone \/ Stop
    PROVE  ScanFits'
<1>1. CASE CleanStart
  <2>1. /\ scan'.items = {} /\ scan'.found = (Stored # {})
        /\ UNCHANGED <<hashToContent, objects, stored, late, panicked>>
    BY <1>1 DEF CleanStart, Running, maps, ghosts
  <2>2. ~scan'.found => Stored' = {}
    BY <2>1 DEF Stored
  <2> QED
    BY <2>1, <2>2 DEF ScanFits
<1>2. CASE Rescan
  <2>1. /\ scan' = [scan EXCEPT !.items = {<<h, hashToContent[h]>> : h \in Stored}]
        /\ at[Cleaner].pc = "rescan" /\ at'[Cleaner].pc = "visit"
        /\ UNCHANGED <<hashToContent, objects, stored, late, panicked>>
    BY <1>2, ScanTypes DEF Rescan, Goto, Running, maps, ghosts, Local
  <2>2. /\ scan'.items = {<<h, hashToContent[h]>> : h \in Stored}
        /\ scan'.found = scan.found /\ scan'.time = scan.time
    BY <2>1 DEF StoreInv, TxTypeOK
  <2>3. ASSUME NEW item \in scan'.items
        PROVE  /\ item[2] \in 1..stored[item[1]]
               /\ ~scan.found => Young(item[1], item[2])'
    <3>1. PICK h \in Stored : item = <<h, hashToContent[h]>>
      BY <2>2, <2>3
    <3>2. item[1] = h /\ item[2] = hashToContent[h]
      BY <3>1
    <3>3. hashToContent[h] = stored[h] /\ stored[h] \in 1..MaxStays
      BY ScanTypes
    <3>4. ~scan.found => Young(h, hashToContent[h])
      BY <2>1 DEF ScanFits
    <3> QED
      BY <2>1, <2>2, <3>2, <3>3, <3>4, ScanTypes DEF Young
  <2> QED
    BY <2>1, <2>2, <2>3 DEF ScanFits
<1>3. CASE Visit
  <2>1. PICK item \in scan.items :
           /\ scan' = [scan EXCEPT !.items = @ \ {item}]
           /\ panicked' = (MissingTxID(objects[item[1]][item[2]]) /\ ~scan.found)
    BY <1>3 DEF Visit
  <2>2. /\ scan'.items \subseteq scan.items
        /\ scan'.found = scan.found /\ scan'.time = scan.time
    BY <2>1 DEF StoreInv, TxTypeOK
  <2>3. /\ UNCHANGED <<hashToContent, objects, stored, late>>
        /\ at'[Cleaner].pc # "rescan"
    <3>1. /\ UNCHANGED <<hashToContent, objects, stored, late>> /\ at[Cleaner].pc = "visit"
          /\ \/ UNCHANGED at
             \/ \E hs : at' = [at EXCEPT ![Cleaner].pc = "hashes", ![Cleaner].hs = hs,
                                          ![Cleaner].protection = "Full"]
      BY <1>3 DEF Visit, maps, ghosts
    <3>2. CASE UNCHANGED at
      BY <3>1, <3>2
    <3>3. CASE ~UNCHANGED at
      <4>1. PICK hs : at' = [at EXCEPT ![Cleaner].pc = "hashes", ![Cleaner].hs = hs,
                                       ![Cleaner].protection = "Full"]
        BY <3>1, <3>3
      <4>2. at \in [Goroutines -> Local] /\ Cleaner \in Goroutines /\ at[Cleaner] \in Local
        BY ScanTypes
      <4>3. at'[Cleaner].pc = "hashes"
        BY <4>1, <4>2 DEF Local
      <4> QED
        BY <3>1, <4>3
    <3> QED
      BY <3>2, <3>3
  <2>4. panicked' => late # {}
    <3>1. ASSUME panicked' PROVE item[1] \in late
      <4>1. /\ Young(item[1], item[2])
            /\ scan.time - objects[item[1]][item[2]].addTime > NoTxIDAge
        BY <2>1, <3>1 DEF ScanFits, MissingTxID, TxAge
      <4>2. objects[item[1]][item[2]].addTime \in Int
        BY ScanTypes DEF Object
      <4> QED
        BY <4>1, <4>2, ScanTypes DEF Young
    <3> QED
      BY <3>1
  <2> QED
    BY <2>2, <2>3, <2>4 DEF ScanFits, Young
<1>4. CASE CleanDone
  <2>1. /\ scan'.items = {} /\ at'[Cleaner].pc = "idle"
        /\ UNCHANGED <<late, panicked>>
    BY <1>4, ScanTypes, IdleLocal DEF CleanDone, NoScan, Running, ghosts
  <2> QED
    BY <2>1 DEF ScanFits
<1>5. CASE Stop
  <2>1. /\ at'[Cleaner].pc = "stopped"
        /\ UNCHANGED <<hashToContent, objects, stored, late, panicked, scan>>
    BY <1>5, ScanTypes DEF Stop, Goto, Running, maps, ghosts, Local
  <2> QED
    BY <2>1, ScanKept DEF AddTimesKept
<1> QED
  BY <1>1, <1>2, <1>3, <1>4, <1>5

\* A removal, of a caller or of clean itself: transactions leave, none is added.
LEMMA ScanRemove ==
    ASSUME StoreInv, ScanFits, NEW g \in Goroutines, RemoveStep(g)
    PROVE  ScanFits'
<1>1. UNCHANGED <<scan, late, stored, panicked, objects>>
  BY DEF RemoveStep, LookupTxID, Pop, UnindexTxID, Protect, ClearIDs, Running, maps, ghosts
<1>2. \A h \in Hashes : hashToContent'[h] \in {0, hashToContent[h]}
  <2>1. CASE Pop(g)
    BY <2>1, ScanTypes DEF Pop
  <2>2. CASE LookupTxID(g) \/ UnindexTxID(g) \/ Protect(g) \/ ClearIDs(g)
    BY <2>2 DEF LookupTxID, UnindexTxID, Protect, ClearIDs, maps
  <2> QED
    BY <2>1, <2>2 DEF RemoveStep
<1>3. at'[Cleaner].pc = "rescan" => at[Cleaner].pc = "rescan"
  <2>1. CASE g # Cleaner
    <3>1. at'[Cleaner] = at[Cleaner]
      BY <2>1, ScanTypes DEF RemoveStep, LookupTxID, Pop, UnindexTxID, Protect, ClearIDs,
                             NextHash, Return
    <3> QED
      BY <3>1
  <2>2. CASE g = Cleaner
    <3> SUFFICES at'[g].pc # "rescan"
      BY <2>2
    <3>0. at[g] \in Local /\ at \in [Goroutines -> Local]
      BY ScanTypes
    <3>1. Return(g) => at'[g].pc # "rescan"
      BY <3>0, ReturnLocal
    <3>2. \A h : NextHash(g, h) => at'[g].pc # "rescan"
      BY <3>0, <3>1 DEF NextHash, Local
    <3>3. CASE LookupTxID(g)
      <4>1. CASE ~Return(g)
        <5>1. PICK id \in at[g].ids :
                 LET found == at[g].hs \cup {AssignedTo[i] : i \in txIDToHash \cap {id}}
                 IN  at' = [at EXCEPT ![g].ids = @ \ {id}, ![g].hs = found,
                                      ![g].pc = IF at[g].ids = {id} THEN "hashes" ELSE "lookup"]
          BY <3>3, <4>1 DEF LookupTxID
        <5> QED
          BY <3>0, <5>1 DEF Local
      <4> QED
        BY <3>1, <4>1
    <3>4. CASE Pop(g)
      <4>1. PICK h \in at[g].hs :
               \/ NextHash(g, h)
               \/ LET ids == objects[h][hashToContent[h]].ids
                  IN  at' = [at EXCEPT ![g].h = h, ![g].ids = ids,
                                       ![g].pc = IF ids = {} THEN "protect" ELSE "ids"]
        BY <3>4 DEF Pop
      <4> QED
        BY <3>0, <3>2, <4>1 DEF Local
    <3>5. CASE UnindexTxID(g)
      <4>1. \E i : \E pc \in {"protect", "ids"} :
               at' = [at EXCEPT ![g].ids = i, ![g].pc = pc]
        BY <3>5 DEF UnindexTxID
      <4> QED
        BY <3>0, <4>1 DEF Local
    <3>6. CASE Protect(g) \/ ClearIDs(g)
      BY <3>1, <3>2, <3>6 DEF Protect, ClearIDs
    <3> QED
      BY <2>2, <3>3, <3>4, <3>5, <3>6 DEF RemoveStep
  <2> QED
    BY <2>1, <2>2
<1> QED
  BY <1>1, <1>2, <1>3, ScanKept DEF AddTimesKept

\* The other steps of a call, those of the history and the clock.
LEMMA ScanOther ==
    ASSUME StoreInv, ScanFits,
           \/ \E g \in Callers : Call(g) \/ (AddStep(g) /\ ~Insert(g))
           \/ HistoryClean \/ HistoryRemove \/ Tick \/ UNCHANGED txVars
    PROVE  ScanFits'
<1>1. CASE \E g \in Callers : Call(g)
  <2>1. PICK g \in Callers : Call(g)
    BY <1>1
  <2>2. g # Cleaner
    BY StoreAssumption
  <2>3. UNCHANGED <<scan, late, stored, panicked, objects>> /\ at'[Cleaner] = at[Cleaner]
    BY <2>1, <2>2, ScanTypes DEF Call, Calling, Add, Get, RemoveHashes, RemoveTxIDs, Clear,
                                 maps, ghosts
  <2>4. \A h \in Hashes : hashToContent'[h] \in {0, hashToContent[h]}
    BY <2>1 DEF Call, Add, Get, RemoveHashes, RemoveTxIDs, Clear, maps
  <2> QED
    BY <2>3, <2>4, ScanKept DEF AddTimesKept
<1>2. CASE \E g \in Callers : AddStep(g) /\ ~Insert(g)
  <2>1. PICK g \in Callers : AddStep(g) /\ ~Insert(g)
    BY <1>2
  <2>2. g # Cleaner /\ g \in Goroutines
    BY StoreAssumption DEF Goroutines
  <2>3. UNCHANGED <<scan, late, stored, panicked, hashToContent>>
    BY <2>1 DEF AddStep, Refresh, Unsee, GetExisting, Lock, ReadTx, WriteTx, IndexTxID,
                Running, maps, ghosts
  <2>4. at'[Cleaner] = at[Cleaner]
    BY <2>1, <2>2, ScanTypes DEF AddStep, Refresh, Unsee, GetExisting, Lock, ReadTx, WriteTx,
                                 IndexTxID, Goto, Return
  <2>5. AddTimesKept
    <3>1. CASE Refresh(g) \/ Unsee(g) \/ GetExisting(g) \/ ReadTx(g)
      BY <3>1 DEF Refresh, Unsee, GetExisting, ReadTx, maps, AddTimesKept
    <3>2. CASE Lock(g) \/ WriteTx(g) \/ IndexTxID(g)
      BY <2>2, <3>2, LockInv, WriteTxInv, IndexTxIDInv
    <3> QED
      BY <2>1, <3>1, <3>2 DEF AddStep
  <2> QED
    BY <2>3, <2>4, <2>5, ScanKept
<1>3. CASE HistoryClean \/ HistoryRemove \/ Tick \/ UNCHANGED txVars
  <2>1. UNCHANGED <<scan, late, stored, panicked, objects, at, hashToContent>>
    BY <1>3 DEF HistoryClean, HistoryRemove, Tick, Running, txVars, maps, ghosts
  <2> QED
    BY <2>1, ScanKept DEF AddTimesKept
<1> QED
  BY <1>1, <1>2, <1>3

\* clean counts the removed transactions in an entry of its first pass.  The entry is nil,
\* and the cleanup panics, only if some Add passed a timestamp older than NoTxIDAge.
THEOREM PanicsOnlyLate == TxSpec => []CleanPanicsOnlyLate
<1>1. TxInit => ScanFits
  BY DEF TxInit, NoScan, ScanFits, Stored
<1>2. StoreInv /\ ScanFits /\ [TxNext]_txVars => ScanFits'
  <2> SUFFICES ASSUME StoreInv, ScanFits, [TxNext]_txVars PROVE ScanFits'
    OBVIOUS
  <2>0. Cleaner \in Goroutines /\ \A g \in Callers : g \in Goroutines /\ g # Cleaner
    BY StoreAssumption DEF Goroutines
  <2>1. CASE \E g \in Callers : Insert(g) \/ RemoveStep(g)
    BY <2>0, <2>1, ScanInsert, ScanRemove
  <2>2. CASE CleanStep \/ Stop
    BY <2>0, <2>2, ScanClean, ScanRemove DEF CleanStep
  <2>3. CASE \/ \E g \in Callers : Call(g) \/ (AddStep(g) /\ ~Insert(g))
             \/ HistoryClean \/ HistoryRemove \/ Tick \/ UNCHANGED txVars
    BY <2>3, ScanOther
  <2> QED
    BY <2>1, <2>2, <2>3 DEF TxNext
<1>3. ScanFits => CleanPanicsOnlyLate
  BY DEF ScanFits, CleanPanicsOnlyLate
<1> QED
  BY <1>1, <1>2, <1>3, StoreInvariant, PTL DEF TxSpec
-----------------------------------------------------------------------------
(* The three maps agree.  Which goroutines are at work on a transaction,   *)
(* and what holds of it between their steps, as long as they do not        *)
(* overlap (Apart), or no removal overlaps with an Add (Separate).         *)

\* A goroutine with the local variables l runs Add on h, runs Add or Get on it, removes it.
Adds(l, h) == l.op = "Add" /\ l.h = h
Uses(l, h) == l.op \in {"Add", "Get"} /\ l.h = h
Removes(l, h) == (l.pc \in {"ids", "protect"} /\ l.h = h) \/ l.pc = "clearIDs"

\* The places of an operation, and the short IDs it works with: those of its hash.
RoleFit(l) ==
    /\ l.op = "Add" => l.pc \in AddPlaces \cup {"refresh"}
    /\ l.op = "Get" => l.pc = "refresh"
    /\ l.pc = "refresh" => l.op \in {"Add", "Get"}
    /\ l.op = "Add" /\ l.id # TxIDEmpty => AssignedTo[l.id] = l.h
    /\ l.pc = "ids" => \A id \in l.ids : AssignedTo[id] = l.h

\* AddTxID has written the short ID into the object before it is indexed.
Written == \A g \in Goroutines : at[g].pc = "index" => at[g].id \in objects[at[g].h][at[g].obj].ids

\* The short IDs of an object are assigned to its hash.
ObjectIDs == \A h \in Hashes : \A n \in 1..MaxStays : \A id \in objects[h][n].ids : AssignedTo[id] = h

\* The operations on h do not overlap: h is not both stored and in the history, and an
\* operation knows which of the two it is not.
Apart(h) ==
    /\ \A g, p \in Goroutines : Uses(at[g], h) /\ Uses(at[p], h) => g = p
    /\ \A g, p \in Goroutines : Uses(at[g], h) => ~Removes(at[p], h)
    /\ ~(hashToContent[h] # 0 /\ Exists(h))
    /\ \A g \in Goroutines :
          Uses(at[g], h) => IF at[g].pc \in {"refresh", "unsee"} THEN hashToContent[h] = 0
                                                                 ELSE ~Exists(h)

\* The stored object has the short ID; a removal is about to take it out of the index; an
\* Add is about to put it in.
HasID(h, id) == hashToContent[h] # 0 /\ id \in objects[h][hashToContent[h]].ids
Unindexing(h, id) ==
    \E g \in Goroutines : \/ at[g].pc = "ids" /\ at[g].h = h /\ id \in at[g].ids
                          \/ at[g].pc = "clearIDs"
Indexing(id) == \E g \in Goroutines : at[g].pc = "index" /\ at[g].id = id

\* The index has exactly the short IDs of the stored object, but for what is under way.
IDsAgree(h, id) ==
    /\ id \in txIDToHash => HasID(h, id) \/ Unindexing(h, id)
    /\ HasID(h, id) => id \in txIDToHash \/ Indexing(id)

\* No removal of h overlaps with an Add of it: the object an Add works on is the stored one.
Separate(h) ==
    /\ \A g, p \in Goroutines : Adds(at[g], h) => ~Removes(at[p], h)
    /\ \A g \in Goroutines : Removes(at[g], h) => hashToContent[h] = 0
    /\ \A g \in Goroutines : Adds(at[g], h) /\ at[g].pc \in Owning => at[g].obj = hashToContent[h]
    /\ \A id \in TxIDs : AssignedTo[id] = h => IDsAgree(h, id)

\* What holds whether operations overlap or not
RolesFit == (\A g \in Goroutines : RoleFit(at[g])) /\ Written /\ ObjectIDs

\* The inductive invariant of the three maps
RolesInv ==
    /\ RolesFit
    /\ \A h \in Hashes \ shared : Apart(h)
    /\ \A h \in Hashes \ mixed : Separate(h)

\* A goroutine without a role
NoRole(l) ==
    /\ l.op \notin {"Add", "Get"}
    /\ l.pc \notin AddPlaces \cup {"refresh", "ids", "protect", "clearIDs"}

\* No object changes its short IDs.
IDsKept == \A h \in Hashes : \A n \in 1..MaxStays : objects'[h][n].ids = objects[h][n].ids

\* One goroutine takes a step; no object that was stored loses a short ID.
LEMMA RolesFitStep ==
    ASSUME StoreInv, RolesInv, NEW g \in Goroutines, NEW l \in Local, at' = [at EXCEPT ![g] = l],
           RoleFit(l), l.pc = "index" => l.id \in objects'[l.h][l.obj].ids,
           \A h \in Hashes : \A n \in 1..stored[h] : objects[h][n].ids \subseteq objects'[h][n].ids,
           ObjectIDs'
    PROVE  RolesFit'
<1>1. /\ at \in [Goroutines -> Local] /\ at'[g] = l
      /\ \A p \in Goroutines \ {g} : at'[p] = at[p]
  BY DEF StoreInv, TxTypeOK
<1>2. \A p \in Goroutines : RoleFit(at'[p])
  BY <1>1 DEF RolesInv, RolesFit
<1>3. ASSUME NEW p \in Goroutines, at'[p].pc = "index"
      PROVE  at'[p].id \in objects'[at'[p].h][at'[p].obj].ids
  <2>1. CASE p = g
    BY <1>1, <1>3, <2>1
  <2>2. CASE p # g
    <3>1. at[p].pc = "index" /\ at'[p] = at[p]
      BY <1>1, <1>3, <2>2
    <3>2. at[p].h \in Hashes /\ at[p].obj \in 1..stored[at[p].h]
      BY <3>1, OwningFacts DEF Owning
    <3> QED
      BY <3>1, <3>2 DEF RolesInv, RolesFit, Written
  <2> QED
    BY <2>1, <2>2
<1> QED
  BY <1>2, <1>3 DEF RolesFit, Written, RoleFit

\* The objects of a hash keep the IDs they have.
LEMMA ObjectIDsKept ==
    ASSUME RolesInv, IDsKept
    PROVE  ObjectIDs'
BY DEF RolesInv, RolesFit, ObjectIDs, IDsKept

\* What a step of one goroutine has to keep of a hash whose operations do not overlap.
LEMMA ApartStep ==
    ASSUME StoreInv, NEW g \in Goroutines, NEW l \in Local, at' = [at EXCEPT ![g] = l],
           NEW h \in Hashes, Apart(h),
           Uses(l, h) => \A p \in Goroutines \ {g} : ~Uses(at[p], h) /\ ~Removes(at[p], h),
           Removes(l, h) => ~Uses(l, h) /\ \A p \in Goroutines \ {g} : ~Uses(at[p], h),
           ~(hashToContent'[h] # 0 /\ Exists(h)'),
           Uses(l, h) => IF l.pc \in {"refresh", "unsee"} THEN hashToContent'[h] = 0 ELSE ~Exists(h)',
           (\E p \in Goroutines \ {g} : Uses(at[p], h)) =>
               (hashToContent[h] = 0 => hashToContent'[h] = 0) /\ (Exists(h)' => Exists(h))
    PROVE  Apart(h)'
<1>1. /\ at \in [Goroutines -> Local] /\ at'[g] = l
      /\ \A p \in Goroutines \ {g} : at'[p] = at[p]
  BY DEF StoreInv, TxTypeOK
<1>2. \A q, p \in Goroutines : Uses(at'[q], h) /\ Uses(at'[p], h) => q = p
  BY <1>1 DEF Apart
<1>3. \A q, p \in Goroutines : Uses(at'[q], h) => ~Removes(at'[p], h)
  BY <1>1 DEF Apart
<1>4. \A p \in Goroutines : Uses(at'[p], h) =>
         IF at'[p].pc \in {"refresh", "unsee"} THEN hashToContent'[h] = 0 ELSE ~Exists(h)'
  BY <1>1 DEF Apart
<1> QED
  BY <1>2, <1>3, <1>4 DEF Apart, Uses, Removes

\* The same for a hash no removal of which overlaps with an Add.
LEMMA SeparateStep ==
    ASSUME StoreInv, NEW g \in Goroutines, NEW l \in Local, at' = [at EXCEPT ![g] = l],
           NEW h \in Hashes, Separate(h),
           Adds(l, h) => \A p \in Goroutines \ {g} : ~Removes(at[p], h),
           Removes(l, h) => /\ ~Adds(l, h) /\ \A p \in Goroutines \ {g} : ~Adds(at[p], h)
                            /\ hashToContent'[h] = 0,
           (\E p \in Goroutines \ {g} : Removes(at[p], h)) => hashToContent'[h] = 0,
           Adds(l, h) /\ l.pc \in Owning => l.obj = hashToContent'[h],
           (\E p \in Goroutines \ {g} : Adds(at[p], h) /\ at[p].pc \in Owning)
               => hashToContent'[h] = hashToContent[h],
           \A id \in TxIDs : AssignedTo[id] = h => IDsAgree(h, id)'
    PROVE  Separate(h)'
<1>1. /\ at \in [Goroutines -> Local] /\ at'[g] = l
      /\ \A p \in Goroutines \ {g} : at'[p] = at[p]
  BY DEF StoreInv, TxTypeOK
<1>2. \A q, p \in Goroutines : Adds(at'[q], h) => ~Removes(at'[p], h)
  BY <1>1 DEF Separate
<1>3. \A p \in Goroutines : Removes(at'[p], h) => hashToContent'[h] = 0
  BY <1>1
<1>4. \A p \in Goroutines : Adds(at'[p], h) /\ at'[p].pc \in Owning => at'[p].obj = hashToContent'[h]
  BY <1>1 DEF Separate
<1> QED
  BY <1>2, <1>3, <1>4 DEF Separate, Adds, Removes

\* The goroutines other than g, and what a step of g leaves to them
LEMMA OneMoves ==
    ASSUME StoreInv, NEW g \in Goroutines, NEW l \in Local, at' = [at EXCEPT ![g] = l]
    PROVE  /\ at'[g] = l /\ \A p \in Goroutines \ {g} : at'[p] = at[p]
           /\ \A h \in Hashes : hashToContent[h] = 0 \/ hashToContent[h] \in 1..MaxStays
           /\ \A h \in Hashes : \A n \in 1..stored[h] : n \in 1..MaxStays
<1>1. /\ at \in [Goroutines -> Local] /\ hashToContent \in [Hashes -> 0..MaxStays]
      /\ stored \in [Hashes -> 0..MaxStays] /\ MaxStays \in Nat
  BY StoreAssumption DEF StoreInv, TxTypeOK
<1>2. at'[g] = l /\ \A p \in Goroutines \ {g} : at'[p] = at[p]
  BY <1>1
<1>3. \A h \in Hashes : hashToContent[h] = 0 \/ hashToContent[h] \in 1..MaxStays
  BY <1>1
<1>4. \A h \in Hashes : \A n \in 1..stored[h] : n \in 1..MaxStays
  BY <1>1
<1> QED
  BY <1>2, <1>3, <1>4

\* An entry of the history is renewed or made only for a hash that is not stored and that
\* no other operation uses.
SeenKept(g) ==
    \A h \in Hashes \ shared :
        Exists(h)' => \/ Exists(h)
                      \/ hashToContent[h] = 0 /\ \A p \in Goroutines \ {g} : ~Uses(at[p], h)

\* A step that changes neither the contents nor the index, and is no part of a removal.
LEMMA QuietRoles ==
    ASSUME StoreInv, RolesInv, NEW g \in Goroutines, NEW l \in Local, at' = [at EXCEPT ![g] = l],
           RoleFit(l), l.pc \notin {"ids", "protect", "clearIDs", "index"},
           at[g].pc \notin {"ids", "clearIDs", "index"},
           UNCHANGED <<hashToContent, txIDToHash>>, IDsKept, SeenKept(g),
           shared \subseteq shared', mixed \subseteq mixed',
           \A h \in Hashes \ shared' :
               Uses(l, h) =>
                   /\ \A p \in Goroutines \ {g} : ~Uses(at[p], h) /\ ~Removes(at[p], h)
                   /\ IF l.pc \in {"refresh", "unsee"} THEN hashToContent[h] = 0 ELSE ~Exists(h)',
           \A h \in Hashes \ mixed' :
               Adds(l, h) => /\ \A p \in Goroutines \ {g} : ~Removes(at[p], h)
                             /\ l.pc \in Owning => l.obj = hashToContent[h]
    PROVE  RolesInv'
<1>0. /\ at \in [Goroutines -> Local] /\ at'[g] = l
      /\ \A p \in Goroutines \ {g} : at'[p] = at[p]
      /\ \A h \in Hashes : hashToContent[h] = 0 \/ hashToContent[h] \in 1..MaxStays
      /\ \A h \in Hashes : \A n \in 1..stored[h] : n \in 1..MaxStays
  BY OneMoves DEF StoreInv, TxTypeOK
<1>1. RolesFit'
  <2>1. \A h \in Hashes : \A n \in 1..stored[h] : objects[h][n].ids \subseteq objects'[h][n].ids
    BY <1>0 DEF IDsKept
  <2>2. ObjectIDs' /\ l.pc # "index"
    BY ObjectIDsKept
  <2> QED
    BY <2>1, <2>2, RolesFitStep
<1>2. \A h : ~Removes(l, h)
  BY DEF Removes
<1>3. ASSUME NEW h \in Hashes \ shared' PROVE Apart(h)'
  <2>1. Apart(h) /\ h \in Hashes \ shared
    BY DEF RolesInv
  <2>2. ~(hashToContent'[h] # 0 /\ Exists(h)')
    BY <2>1 DEF Apart, SeenKept
  <2>3. (\E p \in Goroutines \ {g} : Uses(at[p], h)) => (Exists(h)' => Exists(h))
    BY <2>1 DEF SeenKept
  <2> QED
    BY <1>2, <2>1, <2>2, <2>3, ApartStep
<1>4. ASSUME NEW h \in Hashes \ mixed' PROVE Separate(h)'
  <2>1. Separate(h)
    BY DEF RolesInv
  <2>2. ASSUME NEW id \in TxIDs, AssignedTo[id] = h PROVE IDsAgree(h, id)'
    <3>1. IDsAgree(h, id)
      BY <2>1, <2>2 DEF Separate
    <3>2. HasID(h, id)' <=> HasID(h, id)
      BY <1>0 DEF HasID, IDsKept
    <3>3. Unindexing(h, id) => Unindexing(h, id)'
      BY <1>0 DEF Unindexing
    <3>4. Indexing(id) => Indexing(id)'
      BY <1>0 DEF Indexing
    <3> QED
      BY <3>1, <3>2, <3>3, <3>4 DEF IDsAgree
  <2>3. (\E p \in Goroutines \ {g} : Removes(at[p], h)) => hashToContent'[h] = 0
    BY <2>1 DEF Separate
  <2> QED
    BY <1>2, <2>1, <2>2, <2>3, SeparateStep
<1> QED
  BY <1>1, <1>3, <1>4 DEF RolesInv

\* A goroutine that gives up its role, or never had one.
LEMMA NoRoleStep ==
    ASSUME StoreInv, RolesInv, NEW g \in Goroutines, NEW l \in Local, at' = [at EXCEPT ![g] = l],
           NoRole(l), at[g].pc \notin {"ids", "clearIDs", "index"},
           UNCHANGED <<hashToContent, txIDToHash, shared, mixed>>, IDsKept, SeenKept(g)
    PROVE  RolesInv'
<1>1. RoleFit(l) /\ l.pc \notin {"ids", "protect", "clearIDs", "index"}
  BY DEF NoRole, RoleFit, AddPlaces
<1>2. \A h : ~Uses(l, h) /\ ~Adds(l, h)
  BY DEF NoRole, Uses, Adds
<1> QED
  BY <1>1, <1>2, QuietRoles

\* A call of Add goes on with the same transaction.
LEMMA AdderStep ==
    ASSUME StoreInv, RolesInv, NEW g \in Goroutines, NEW l \in Local, at' = [at EXCEPT ![g] = l],
           at[g].op = "Add", l.op = "Add", l.h = at[g].h, l.id = at[g].id,
           l.pc \in AddPlaces \ {"index"}, at[g].pc # "index",
           UNCHANGED <<hashToContent, txIDToHash, shared, mixed>>, IDsKept, SeenKept(g),
           l.h \notin shared => IF l.pc = "unsee" THEN hashToContent[l.h] = 0 ELSE ~Exists(l.h)',
           l.h \notin mixed /\ l.pc \in Owning => l.obj = hashToContent[l.h]
    PROVE  RolesInv'
<1>0. RoleFit(at[g]) /\ at[g].h \in Hashes /\ l.h \in Hashes
  BY DEF RolesInv, RolesFit, StoreInv, TxTypeOK, Local
<1>1. RoleFit(l) /\ l.pc \notin {"refresh", "ids", "protect", "clearIDs", "index"}
  BY <1>0 DEF RoleFit, AddPlaces
<1>2. at[g].pc \notin {"ids", "clearIDs", "index"}
  BY <1>0 DEF RoleFit, AddPlaces
<1>3. \A h : (Uses(l, h) => h = l.h) /\ (Adds(l, h) => h = l.h)
  BY DEF Uses, Adds
<1>4. Uses(at[g], l.h) /\ Adds(at[g], l.h)
  BY DEF Uses, Adds
<1>5. l.h \notin shared => \A p \in Goroutines \ {g} : ~Uses(at[p], l.h) /\ ~Removes(at[p], l.h)
  BY <1>0, <1>4 DEF RolesInv, Apart
<1>6. l.h \notin mixed => \A p \in Goroutines \ {g} : ~Removes(at[p], l.h)
  BY <1>0, <1>4 DEF RolesInv, Separate
<1> QED
  BY <1>1, <1>2, <1>3, <1>5, <1>6, QuietRoles

\* The cleanup of the history and the clock: entries of the history only leave.
LEMMA StillRoles ==
    ASSUME StoreInv, RolesInv, HistoryClean \/ HistoryRemove \/ Tick \/ UNCHANGED txVars
    PROVE  RolesInv'
<1>1. UNCHANGED <<hashToContent, objects, txIDToHash, at, shared, mixed>>
  BY DEF HistoryClean, HistoryRemove, Tick, txVars, maps, ghosts
<1>2. ASSUME NEW h \in Hashes, Exists(h)' PROVE Exists(h)
  <2>1. CASE HistoryRemove
    <3>1. PICK x \in expired : seenTxs' = [seenTxs EXCEPT ![x] = Absent] /\ now' = now
      BY <2>1 DEF HistoryRemove
    <3>2. seenTxs \in [Hashes -> Absent..(MaxTime + TimeToAvoidReEntry)]
      BY DEF StoreInv, TxTypeOK
    <3> QED
      BY <1>2, <3>1, <3>2 DEF Exists
  <2>2. CASE Tick
    <3>1. now \in Int /\ seenTxs[h] \in Int /\ now' = now + 1 /\ seenTxs' = seenTxs
      BY <2>2, StoreAssumption DEF StoreInv, TxTypeOK, Tick, maps, Absent, Durations
    <3> QED
      BY <1>2, <3>1 DEF Exists
  <2>3. CASE HistoryClean \/ UNCHANGED txVars
    BY <1>2, <2>3 DEF HistoryClean, txVars, maps, Exists
  <2> QED
    BY <2>1, <2>2, <2>3
<1>3. RolesFit'
  BY <1>1 DEF RolesInv, RolesFit, RoleFit, Written, ObjectIDs
<1>4. ASSUME NEW h \in Hashes \ shared PROVE Apart(h)'
  <2>1. Apart(h)
    BY DEF RolesInv
  <2>2. Exists(h)' => Exists(h)
    BY <1>2
  <2> QED
    BY <1>1, <2>1, <2>2 DEF Apart, Uses, Removes
<1>5. ASSUME NEW h \in Hashes \ mixed PROVE Separate(h)'
  BY <1>1 DEF RolesInv, Separate, Adds, Removes, IDsAgree, HasID, Unindexing, Indexing
<1> QED
  BY <1>1, <1>3, <1>4, <1>5 DEF RolesInv

-----------------------------------------------------------------------------
(* The steps that keep the roles.                                          *)

\* The fields a goroutine keeps in Goto, and what it is left with after Return.
LEMMA GotoFields ==
    ASSUME StoreInv, NEW g \in Goroutines, NEW pc \in Places, Goto(g, pc)
    PROVE  \E l \in Local : /\ at' = [at EXCEPT ![g] = l]
                            /\ l.pc = pc /\ l.op = at[g].op /\ l.h = at[g].h /\ l.id = at[g].id
                            /\ l.obj = at[g].obj
<1>1. at \in [Goroutines -> Local] /\ at[g] \in Local
  BY DEF StoreInv, TxTypeOK
<1> DEFINE l == [at[g] EXCEPT !.pc = pc]
<1>2. /\ l \in Local /\ l.pc = pc /\ l.op = at[g].op /\ l.h = at[g].h /\ l.id = at[g].id
      /\ l.obj = at[g].obj
  BY <1>1 DEF Local
<1>3. at' = [at EXCEPT ![g] = l]
  BY <1>1 DEF Goto
<1> QED
  BY <1>2, <1>3

\* A goroutine that returns has no role any more.
LEMMA ReturnRole ==
    ASSUME NEW g \in Goroutines, Return(g)
    PROVE  \E l \in Local : at' = [at EXCEPT ![g] = l] /\ NoRole(l)
<1>1. NoRole(Done(g))
  BY ReturnLocal DEF NoRole, AddPlaces
<1> QED
  BY <1>1, ReturnLocal

\* A goroutine at a place outside Add, refreshSeenTx and removal has no role.
LEMMA PlaceRole ==
    ASSUME StoreInv, RolesInv, NEW g \in Goroutines,
           at[g].pc \notin AddPlaces \cup {"refresh"}
    PROVE  at[g].op \notin {"Add", "Get"}
BY DEF RolesInv, RolesFit, RoleFit

\* A step that leaves the history and the clock alone.
LEMMA SameSeen ==
    ASSUME NEW g, UNCHANGED <<seenTxs, now>>
    PROVE  SeenKept(g) /\ \A h : Exists(h)' <=> Exists(h)
BY DEF SeenKept, Exists

\* Short IDs are kept with the objects.
LEMMA SameIDs ==
    ASSUME UNCHANGED objects
    PROVE  IDsKept
BY DEF IDsKept

\* The entry of one hash changes: of a hash that is not stored and that no other operation
\* uses, if the entry is made or renewed.
LEMMA OneSeen ==
    ASSUME StoreInv, NEW g, NEW x \in Hashes, UNCHANGED now,
           \/ seenTxs' = [seenTxs EXCEPT ![x] = Absent]
           \/ /\ \E t : seenTxs' = [seenTxs EXCEPT ![x] = t]
              /\ x \notin shared => /\ hashToContent[x] = 0
                                    /\ \A p \in Goroutines \ {g} : ~Uses(at[p], x)
    PROVE  SeenKept(g)
<1>1. seenTxs \in [Hashes -> Absent..(MaxTime + TimeToAvoidReEntry)]
  BY DEF StoreInv, TxTypeOK
<1>2. \A h \in Hashes : h # x => (Exists(h)' <=> Exists(h))
  BY <1>1 DEF Exists
<1>3. CASE seenTxs' = [seenTxs EXCEPT ![x] = Absent]
  <2>1. ~Exists(x)'
    BY <1>1, <1>3 DEF Exists
  <2> QED
    BY <1>2, <2>1 DEF SeenKept
<1>4. CASE x \notin shared => /\ hashToContent[x] = 0
                              /\ \A p \in Goroutines \ {g} : ~Uses(at[p], x)
  BY <1>2, <1>4 DEF SeenKept
<1> QED
  BY <1>3, <1>4

\* The next hash of a removal: the goroutine has no role.
LEMMA NextHashRole ==
    ASSUME StoreInv, RolesInv, NEW g \in Goroutines, NEW h \in Hashes, NextHash(g, h),
           at[g].pc \in {"hashes", "protect"}
    PROVE  \E l \in Local : at' = [at EXCEPT ![g] = l] /\ NoRole(l)
<1>1. CASE Return(g)
  BY <1>1, ReturnRole
<1>2. CASE at' = [at EXCEPT ![g].hs = @ \ {h}, ![g].pc = "hashes"]
  <2> DEFINE l == [at[g] EXCEPT !.hs = @ \ {h}, !.pc = "hashes"]
  <2>1. at \in [Goroutines -> Local] /\ at[g] \in Local /\ at[g].hs \ {h} \in SUBSET Hashes
    BY DEF StoreInv, TxTypeOK, Local
  <2>2. l \in Local /\ l.pc = "hashes" /\ l.op = at[g].op
    BY <2>1 DEF Local, Places
  <2>3. at' = [at EXCEPT ![g] = l]
    BY <1>2, <2>1
  <2>4. at[g].op \notin {"Add", "Get"}
    BY PlaceRole DEF AddPlaces
  <2> HIDE DEF l
  <2>5. NoRole(l)
    BY <2>2, <2>4 DEF NoRole, AddPlaces
  <2> QED
    BY <2>2, <2>3, <2>5
<1> QED
  BY <1>1, <1>2 DEF NextHash

\* The lookup of a short ID, Pop of a hash that is not stored, and the end of remove: the
\* hash is not stored then, so it may enter the history.
LEMMA RemovalEnds ==
    ASSUME StoreInv, RolesInv, NEW g \in Goroutines,
           LookupTxID(g) \/ (Pop(g) /\ UNCHANGED hashToContent) \/ Protect(g)
    PROVE  RolesInv'
<1>0. TxTypeOK /\ at \in [Goroutines -> Local] /\ at[g] \in Local /\ at[g].h \in Hashes
  BY DEF StoreInv, TxTypeOK, Local
<1>1. CASE LookupTxID(g)
  <2>1. PICK l \in Local : at' = [at EXCEPT ![g] = l] /\ NoRole(l)
    <3>1. CASE Return(g)
      BY <3>1, ReturnRole
    <3>2. CASE ~Return(g)
      <4>1. PICK id \in at[g].ids : LET found == at[g].hs \cup {AssignedTo[i] : i \in txIDToHash \cap {id}}
               IN at' = [at EXCEPT ![g].ids = @ \ {id}, ![g].hs = found,
                                    ![g].pc = IF at[g].ids = {id} THEN "hashes" ELSE "lookup"]
        BY <1>1, <3>2 DEF LookupTxID
      <4> DEFINE found == at[g].hs \cup {AssignedTo[i] : i \in txIDToHash \cap {id}}
                 l == [at[g] EXCEPT !.ids = @ \ {id}, !.hs = found,
                                    !.pc = IF at[g].ids = {id} THEN "hashes" ELSE "lookup"]
      <4>2. found \in SUBSET Hashes
        BY <1>0, StoreAssumption DEF TxTypeOK, Local
      <4> HIDE DEF found
      <4>3. l \in Local /\ at' = [at EXCEPT ![g] = l] /\ l.pc \in {"hashes", "lookup"}
            /\ l.op = at[g].op
        BY ZenonT(30), <1>0, <4>1, <4>2 DEF Local, Places, found
      <4>4. at[g].op \notin {"Add", "Get"}
        BY <1>1, PlaceRole DEF AddPlaces, LookupTxID
      <4> HIDE DEF l
      <4>5. NoRole(l)
        BY <4>3, <4>4 DEF NoRole, AddPlaces
      <4> QED
        BY <4>3, <4>5
    <3> QED
      BY <3>1, <3>2
  <2>2. /\ UNCHANGED <<hashToContent, txIDToHash, shared, mixed, objects, seenTxs, now>>
        /\ at[g].pc = "lookup"
    BY <1>1 DEF LookupTxID, maps, ghosts
  <2> QED
    BY <2>1, <2>2, SameSeen, SameIDs, NoRoleStep
<1>2. CASE Pop(g) /\ UNCHANGED hashToContent
  <2>1. /\ UNCHANGED <<hashToContent, txIDToHash, objects, seenTxs, now>> /\ at[g].pc = "hashes"
    BY <1>2 DEF Pop
  <2>2. PICK h \in at[g].hs :
          IF hashToContent[h] = 0
          THEN NextHash(g, h) /\ UNCHANGED <<shared, mixed>>
          ELSE hashToContent' = [hashToContent EXCEPT ![h] = 0]
    BY <1>2 DEF Pop
  <2>3. h \in Hashes /\ hashToContent \in [Hashes -> 0..MaxStays]
    BY <1>0 DEF Local, TxTypeOK
  <2>4. NextHash(g, h) /\ UNCHANGED <<shared, mixed>>
    BY <2>1, <2>2, <2>3
  <2>5. PICK l \in Local : at' = [at EXCEPT ![g] = l] /\ NoRole(l)
    BY <2>1, <2>3, <2>4, NextHashRole
  <2> QED
    BY <2>1, <2>4, <2>5, SameSeen, SameIDs, NoRoleStep
<1>3. CASE Protect(g)
  <2>1. /\ UNCHANGED <<hashToContent, txIDToHash, shared, mixed, objects, now>>
        /\ at[g].pc = "protect" /\ NextHash(g, at[g].h)
    BY <1>3 DEF Protect, ghosts
  <2>2. PICK l \in Local : at' = [at EXCEPT ![g] = l] /\ NoRole(l)
    BY <1>0, <2>1, NextHashRole
  <2>3. Removes(at[g], at[g].h)
    BY <2>1 DEF Removes
  <2>4. at[g].h \notin shared => /\ hashToContent[at[g].h] = 0
                                 /\ \A p \in Goroutines : ~Uses(at[p], at[g].h)
    <3>1. at[g].h \notin shared => at[g].h \notin mixed
      BY <1>0 DEF TxTypeOK
    <3> QED
      BY <1>0, <2>3, <3>1 DEF RolesInv, Apart, Separate
  <2>5. \/ UNCHANGED seenTxs
        \/ \E t : seenTxs' = [seenTxs EXCEPT ![at[g].h] = t]
    <3>1. at[g].protection \in {"No", "Short", "Full"}
      BY <1>0, StoreAssumption DEF Local
    <3> QED
      BY <1>3, <3>1 DEF Protect, AddToHistory
  <2>6. SeenKept(g)
    BY <1>0, <2>1, <2>4, <2>5, SameSeen, OneSeen
  <2> QED
    BY <2>1, <2>2, <2>6, SameIDs, NoRoleStep
<1> QED
  BY <1>1, <1>2, <1>3

\* The passes of clean, and its end, are no work on a transaction.
LEMMA CleanRoles ==
    ASSUME StoreInv, RolesInv, CleanStart \/ Rescan \/ Visit \/ CleanDone \/ Stop
    PROVE  RolesInv'
<1> DEFINE g == Cleaner
<1>0. TxTypeOK /\ at \in [Goroutines -> Local] /\ at[g] \in Local /\ g \in Goroutines
  BY DEF StoreInv, TxTypeOK, Goroutines
<1>1. /\ UNCHANGED <<hashToContent, txIDToHash, shared, mixed, objects, seenTxs, now>>
      /\ at[g].pc \in {"idle", "rescan", "visit"}
  BY DEF CleanStart, Rescan, Visit, CleanDone, Stop, maps, ghosts
<1>2. SeenKept(g) /\ IDsKept
  BY <1>1, SameSeen, SameIDs
<1>3. at[g].op \notin {"Add", "Get"} /\ NoRole(at[g])
  BY <1>0, <1>1, PlaceRole DEF AddPlaces, NoRole
<1>4. \E l \in Local : at' = [at EXCEPT ![g] = l] /\ NoRole(l)
  <2>1. CASE CleanStart
    <3> DEFINE l == [at[Cleaner] EXCEPT !.op = "clean", !.pc = "rescan"]
    <3>1. l \in Local /\ l.pc = "rescan" /\ l.op = "clean"
      BY <1>0 DEF Local, Places
    <3>2. at' = [at EXCEPT ![Cleaner] = l]
      BY <1>0, <2>1 DEF CleanStart
    <3> HIDE DEF l
    <3>3. NoRole(l)
      BY <3>1 DEF NoRole, AddPlaces
    <3> QED
      BY <3>1, <3>2, <3>3
  <2>2. CASE Rescan \/ Stop
    <3>1. PICK pc \in {"visit", "stopped"} : Goto(g, pc)
      BY <2>2 DEF Rescan, Stop
    <3>2. pc \in Places
      BY DEF Places
    <3>3. PICK l \in Local : at' = [at EXCEPT ![g] = l] /\ l.pc = pc /\ l.op = at[g].op
      BY <1>0, <3>1, <3>2, GotoFields
    <3>4. NoRole(l)
      BY <1>3, <3>3 DEF NoRole, AddPlaces
    <3> QED
      BY <3>3, <3>4
  <2>3. CASE Visit
    <3>1. CASE at' = at
      <4>1. at' = [at EXCEPT ![g] = at[g]]
        BY <1>0, <3>1
      <4> QED
        BY <1>0, <1>3, <4>1
    <3>2. CASE at' # at
      <4>1. PICK item \in scan.items :
              at' = [at EXCEPT ![Cleaner].pc = "hashes", ![Cleaner].hs = {item[1]},
                               ![Cleaner].protection = "Full"]
        BY <2>3, <3>2 DEF Visit
      <4> DEFINE l == [at[Cleaner] EXCEPT !.pc = "hashes", !.hs = {item[1]}, !.protection = "Full"]
      <4>2. item[1] \in Hashes
        BY <1>0 DEF TxTypeOK
      <4>3. l \in Local /\ l.pc = "hashes" /\ l.op = at[g].op
        BY <1>0, <4>2 DEF Local, Places
      <4>4. at' = [at EXCEPT ![Cleaner] = l]
        BY <1>0, <4>1
      <4> HIDE DEF l
      <4>5. NoRole(l)
        BY <1>3, <4>3 DEF NoRole, AddPlaces
      <4> QED
        BY <4>3, <4>4, <4>5
    <3> QED
      BY <3>1, <3>2
  <2>4. CASE CleanDone
    <3>1. NoRole(Idle)
      BY IdleLocal DEF NoRole, AddPlaces
    <3> QED
      BY <2>4, <3>1, IdleLocal DEF CleanDone
  <2> QED
    BY <2>1, <2>2, <2>3, <2>4
<1>5. PICK l \in Local : at' = [at EXCEPT ![g] = l] /\ NoRole(l)
  BY <1>4
<1> HIDE DEF g
<1> QED
  BY <1>0, <1>1, <1>2, <1>5, NoRoleStep

\* refreshSeenTx and the removal from the history: the history is written for a hash that
\* is not stored.
LEMMA RefreshRoles ==
    ASSUME StoreInv, RolesInv, NEW g \in Goroutines, Refresh(g) \/ Unsee(g)
    PROVE  RolesInv'
<1>h. PICK h \in Hashes : h = at[g].h
  BY DEF StoreInv, TxTypeOK, Local
<1>0. /\ TxTypeOK /\ at \in [Goroutines -> Local] /\ at[g] \in Local /\ h \in Hashes
      /\ at[g].pc \in {"refresh", "unsee"} /\ RoleFit(at[g]) /\ LocalFit(at[g])
  BY DEF StoreInv, TxTypeOK, Local, RolesInv, RolesFit, LocalsFit, Refresh, Unsee
<1>1. UNCHANGED <<hashToContent, txIDToHash, shared, mixed, objects, now>>
  BY DEF Refresh, Unsee, ghosts
<1>2. Uses(at[g], h)
  BY <1>0, <1>h DEF Uses, RoleFit, LocalFit, AddPlaces
<1>3. h \notin shared => hashToContent[h] = 0 /\ \A p \in Goroutines \ {g} : ~Uses(at[p], h)
  BY <1>0, <1>2 DEF RolesInv, Apart
<1>4. SeenKept(g)
  BY <1>0, <1>h, <1>1, <1>3, OneSeen DEF Refresh, Unsee, AddToHistory
<1>5. CASE Return(g)
  BY <1>0, <1>1, <1>4, <1>5, ReturnRole, SameIDs, NoRoleStep
<1>6. CASE ~Return(g)
  <2>1. PICK pc \in {"unsee", "insert"} :
           /\ Goto(g, pc)
           /\ pc = "insert" => seenTxs' = [seenTxs EXCEPT ![h] = Absent]
    BY <1>6, <1>h DEF Refresh, Unsee
  <2>2. at[g].op = "Add" /\ pc \in Places
    BY <1>0, <1>6 DEF Refresh, Unsee, LocalFit, AddPlaces, Places
  <2>3. PICK l \in Local : /\ at' = [at EXCEPT ![g] = l]
                           /\ l.pc = pc /\ l.op = at[g].op /\ l.h = at[g].h /\ l.id = at[g].id
    BY <2>1, <2>2, GotoFields
  <2>4. pc = "insert" => ~Exists(h)'
    BY <1>0, <2>1 DEF TxTypeOK, Exists
  <2>5. /\ h \notin shared => IF l.pc = "unsee" THEN hashToContent[h] = 0 ELSE ~Exists(h)'
        /\ l.pc \in AddPlaces \ {"index"} /\ l.pc \notin Owning
    BY <1>3, <1>h, <2>1, <2>3, <2>4 DEF AddPlaces, Owning
  <2> QED
    BY <1>0, <1>1, <1>4, <2>2, <2>3, <2>5, <1>h, SameIDs, AdderStep
<1> QED
  BY <1>5, <1>6

\* A call of Add that is past the history knows that its hash is not in it, and works on the
\* stored object.
LEMMA AdderFacts ==
    ASSUME StoreInv, RolesInv, NEW g \in Goroutines, at[g].pc \in AddPlaces \ {"unsee"}
    PROVE  /\ TxTypeOK /\ at \in [Goroutines -> Local] /\ at[g] \in Local /\ at[g].h \in Hashes
           /\ at[g].op = "Add" /\ RoleFit(at[g])
           /\ Uses(at[g], at[g].h) /\ Adds(at[g], at[g].h)
           /\ at[g].h \notin shared => ~Exists(at[g].h)
           /\ at[g].h \notin mixed => /\ \A p \in Goroutines : ~Removes(at[p], at[g].h)
                                      /\ at[g].pc \in Owning => at[g].obj = hashToContent[at[g].h]
<1>1. TxTypeOK /\ at \in [Goroutines -> Local] /\ at[g] \in Local /\ at[g].h \in Hashes
  BY DEF StoreInv, TxTypeOK, Local
<1>2. at[g].op = "Add" /\ RoleFit(at[g])
  BY DEF StoreInv, LocalsFit, LocalFit, RolesInv, RolesFit
<1>3. Uses(at[g], at[g].h) /\ Adds(at[g], at[g].h)
  BY <1>2 DEF Uses, Adds
<1>4. at[g].h \notin shared => ~Exists(at[g].h)
  BY <1>1, <1>3 DEF RolesInv, Apart, AddPlaces
<1>5. at[g].h \notin mixed => /\ \A p \in Goroutines : ~Removes(at[p], at[g].h)
                              /\ at[g].pc \in Owning => at[g].obj = hashToContent[at[g].h]
  BY <1>1, <1>3 DEF RolesInv, Separate
<1> QED
  BY <1>1, <1>2, <1>3, <1>4, <1>5

\* SetIfAbsent that finds a transaction, Get, the lock and the conditions of AddTxID and
\* SetContent.
LEMMA AdderRoles ==
    ASSUME StoreInv, RolesInv, NEW g \in Goroutines,
           (Insert(g) /\ UNCHANGED stored) \/ GetExisting(g) \/ Lock(g) \/ ReadTx(g)
    PROVE  RolesInv'
<1>h. PICK h \in Hashes : h = at[g].h
  BY DEF StoreInv, TxTypeOK, Local
<1>0. at[g].pc \in AddPlaces \ {"unsee", "index"}
  BY DEF Insert, GetExisting, Lock, ReadTx, AddPlaces
<1>1. /\ TxTypeOK /\ at \in [Goroutines -> Local] /\ at[g] \in Local /\ h \in Hashes
      /\ at[g].op = "Add"
      /\ h \notin shared => ~Exists(h)
      /\ h \notin mixed /\ at[g].pc \in Owning => at[g].obj = hashToContent[h]
  BY <1>0, <1>h, AdderFacts
<1>2. UNCHANGED <<txIDToHash, shared, mixed, now, seenTxs>>
  BY DEF Insert, GetExisting, Lock, ReadTx, maps, ghosts
<1>3. SeenKept(g) /\ (Exists(h)' => Exists(h))
  BY <1>2, SameSeen
<1>4. CASE Insert(g) /\ UNCHANGED stored
  <2>1. stored[h] \in Nat
    BY <1>1 DEF TxTypeOK
  <2>2. ~(stored' = [stored EXCEPT ![h] = stored[h] + 1])
    BY <1>1, <1>4, <2>1 DEF TxTypeOK
  <2>3. Goto(g, "get") /\ UNCHANGED <<hashToContent, objects>>
    BY <1>4, <1>h, <2>2 DEF Insert
  <2>4. PICK l \in Local : /\ at' = [at EXCEPT ![g] = l]
                           /\ l.pc = "get" /\ l.op = at[g].op /\ l.h = at[g].h /\ l.id = at[g].id
    BY <2>3, GotoFields DEF Places
  <2>5. l.pc \in AddPlaces \ {"index"} /\ l.pc \notin Owning /\ l.pc # "unsee" /\ at[g].pc # "index"
    BY <1>0, <2>4 DEF AddPlaces, Owning
  <2> QED
    BY <1>1, <1>2, <1>3, <2>3, <2>4, <2>5, SameIDs, AdderStep, <1>h
<1>5. CASE GetExisting(g)
  <2>1. UNCHANGED <<hashToContent, objects>> /\ at[g].pc = "get"
    BY <1>5 DEF GetExisting, maps
  <2>2. CASE Return(g)
    BY <1>2, <1>3, <2>1, <2>2, ReturnRole, SameIDs, NoRoleStep
  <2>3. CASE ~Return(g)
    <3> DEFINE n == hashToContent[h]
    <3>1. at' = [at EXCEPT ![g].pc = "lock", ![g].obj = n] /\ n \in 0..MaxStays
      BY <1>1, <1>h, <1>5, <2>3 DEF GetExisting, TxTypeOK
    <3>2. \E l \in Local : /\ at' = [at EXCEPT ![g] = l]
                           /\ l.pc = "lock" /\ l.op = at[g].op /\ l.h = h /\ l.id = at[g].id
                           /\ l.obj = n
      <4> DEFINE l == [at[g] EXCEPT !.pc = "lock", !.obj = n]
      <4> HIDE DEF n
      <4>1. at' = [at EXCEPT ![g] = l]
        BY <1>1, <3>1
      <4>2. /\ l \in Local /\ l.pc = "lock" /\ l.op = at[g].op /\ l.h = h /\ l.id = at[g].id
            /\ l.obj = n
        BY <1>1, <1>h, <3>1 DEF Local, Places
      <4> QED
        BY <4>1, <4>2
    <3>3. PICK l \in Local : /\ at' = [at EXCEPT ![g] = l]
                             /\ l.pc = "lock" /\ l.op = at[g].op /\ l.h = h /\ l.id = at[g].id
                             /\ l.obj = n
      BY <3>2
    <3>4. l.pc \in AddPlaces \ {"index"} /\ l.pc # "unsee" /\ at[g].pc # "index"
      BY <2>1, <3>3 DEF AddPlaces
      <3> QED
      BY <1>1, <1>2, <1>3, <2>1, <3>3, <3>4, SameIDs, AdderStep, <1>h
  <2> QED
    BY <2>2, <2>3
<1>6. CASE Lock(g)
  <2>1. UNCHANGED hashToContent /\ at[g].pc = "lock" /\ Goto(g, "read")
        /\ objects' = [objects EXCEPT ![h][at[g].obj].locked = TRUE]
    BY <1>6, <1>h DEF Lock
  <2>2. /\ objects \in [Hashes -> [1..MaxStays -> Object]] /\ objects[h][at[g].obj] \in Object
        /\ at[g].obj \in 1..MaxStays
    BY <2>1, <1>h, OwningFacts DEF Owning
  <2>3. IDsKept
    <3> DEFINE n == at[g].obj
               o == [objects[h][n] EXCEPT !.locked = TRUE]
    <3>1. o \in Object /\ o.ids = objects[h][n].ids
      BY <2>2 DEF Object
    <3>2. objects' = [objects EXCEPT ![h][n] = o]
      BY <2>1, <2>2
    <3> HIDE DEF o, n
    <3>3. n \in 1..MaxStays /\ h \in Hashes
      BY <1>1, <2>2 DEF n
    <3> QED
      BY <1>1, <3>1, <3>2, <3>3, ObjectUpdate DEF IDsKept
  <2>4. PICK l \in Local : /\ at' = [at EXCEPT ![g] = l]
                           /\ l.pc = "read" /\ l.op = at[g].op /\ l.h = at[g].h /\ l.id = at[g].id
                           /\ l.obj = at[g].obj
    BY <2>1, GotoFields DEF Places
  <2>5. l.pc \in AddPlaces \ {"index"} /\ l.pc # "unsee" /\ at[g].pc # "index" /\ at[g].pc \in Owning
    BY <2>1, <2>4 DEF AddPlaces, Owning
  <2> QED
    BY <1>1, <1>2, <1>3, <2>1, <2>3, <2>4, <2>5, AdderStep, <1>h
<1>7. CASE ReadTx(g)
  <2>1. UNCHANGED <<hashToContent, objects>> /\ at[g].pc = "read"
    BY <1>7 DEF ReadTx, maps
  <2>2. \E newID \in BOOLEAN, newContent \in BOOLEAN :
           at' = [at EXCEPT ![g].pc = "write", ![g].newID = newID, ![g].newContent = newContent]
    <3> DEFINE tx == objects[at[g].h][at[g].obj]
               newID == at[g].id # TxIDEmpty /\ at[g].id \notin tx.ids
               newContent == at[g].content /\ ~tx.content
    <3>1. at' = [at EXCEPT ![g].pc = "write", ![g].newID = newID, ![g].newContent = newContent]
      BY <1>7 DEF ReadTx
    <3>2. newID \in BOOLEAN /\ newContent \in BOOLEAN
      OBVIOUS
    <3> HIDE DEF newID, newContent
    <3> QED
      BY <3>1, <3>2
  <2>3. PICK newID \in BOOLEAN, newContent \in BOOLEAN :
           at' = [at EXCEPT ![g].pc = "write", ![g].newID = newID, ![g].newContent = newContent]
    BY <2>2
  <2>4. \E l \in Local : /\ at' = [at EXCEPT ![g] = l]
                         /\ l.pc = "write" /\ l.op = at[g].op /\ l.h = h /\ l.id = at[g].id
                         /\ l.obj = at[g].obj
    <3> DEFINE l == [at[g] EXCEPT !.pc = "write", !.newID = newID, !.newContent = newContent]
    <3>1. at' = [at EXCEPT ![g] = l]
      BY <1>1, <2>3
    <3>2. /\ l \in Local /\ l.pc = "write" /\ l.op = at[g].op /\ l.h = h /\ l.id = at[g].id
          /\ l.obj = at[g].obj
      BY ZenonT(30), <1>1, <1>h DEF Local, Places
    <3> QED
      BY <3>1, <3>2
  <2>5. PICK l \in Local : /\ at' = [at EXCEPT ![g] = l]
                           /\ l.pc = "write" /\ l.op = at[g].op /\ l.h = h /\ l.id = at[g].id
                           /\ l.obj = at[g].obj
    BY <2>4
  <2>6. l.pc \in AddPlaces \ {"index"} /\ l.pc # "unsee" /\ at[g].pc # "index" /\ at[g].pc \in Owning
    BY <2>1, <2>5 DEF AddPlaces, Owning
  <2> QED
    BY <1>1, <1>2, <1>3, <2>1, <2>5, <2>6, SameIDs, AdderStep, <1>h
<1> QED
  BY <1>4, <1>5, <1>6, <1>7

-----------------------------------------------------------------------------
(* The steps that change the contents or the index.                        *)

\* The assignments of AddTxID: the stored object has a short ID that is not yet indexed.
LEMMA WriteRoles ==
    ASSUME StoreInv, RolesInv, NEW g \in Goroutines, WriteTx(g)
    PROVE  RolesInv'
<1>h. PICK h \in Hashes : h = at[g].h
  BY DEF StoreInv, TxTypeOK, Local
<1>n. PICK n \in 1..MaxStays : n = at[g].obj
  BY OwningFacts DEF WriteTx, Owning
<1>i. PICK i \in TxIDs \cup {TxIDEmpty} : i = at[g].id
  BY DEF StoreInv, TxTypeOK, Local
<1>0. at[g].pc = "write" /\ at[g].pc \in AddPlaces \ {"unsee"} /\ at[g].pc \in Owning
  BY DEF WriteTx, AddPlaces, Owning
<1>1. /\ TxTypeOK /\ at \in [Goroutines -> Local] /\ at[g] \in Local
      /\ at[g].op = "Add" /\ RoleFit(at[g]) /\ Uses(at[g], h) /\ Adds(at[g], h)
      /\ h \notin shared => ~Exists(h)
      /\ h \notin mixed => /\ \A p \in Goroutines : ~Removes(at[p], h)
                           /\ n = hashToContent[h]
      /\ at[g].newID \in BOOLEAN /\ (at[g].newID => i # TxIDEmpty)
  <2>1. at[g].newID \in BOOLEAN /\ (at[g].newID => i # TxIDEmpty)
    BY <1>0, <1>i DEF StoreInv, LocalsFit, LocalFit, TxTypeOK, Local
  <2> QED
    BY <1>0, <1>h, <1>n, <2>1, AdderFacts
<1>2. /\ UNCHANGED <<hashToContent, txIDToHash, shared, mixed, now, seenTxs>>
      /\ IF at[g].newID THEN Goto(g, "index") ELSE Return(g)
  BY DEF WriteTx, ghosts
<1>3. SeenKept(g) /\ \A x : Exists(x)' <=> Exists(x)
  BY <1>2, SameSeen
<1>4. /\ objects'[h][n].ids = IF at[g].newID THEN objects[h][n].ids \cup {i} ELSE objects[h][n].ids
      /\ \A x \in Hashes : \A m \in 1..MaxStays :
            x # h \/ m # n => objects'[x][m].ids = objects[x][m].ids
  <2> DEFINE tx == objects[h][n]
             ids == IF at[g].newID THEN tx.ids \cup {i} ELSE tx.ids
             content == tx.content \/ at[g].newContent
             o == [tx EXCEPT !.ids = ids, !.content = content, !.locked = at[g].newID]
  <2>1. tx \in Object /\ objects \in [Hashes -> [1..MaxStays -> Object]]
    BY <1>0, <1>h, <1>n, OwningFacts
  <2>2. objects' = [objects EXCEPT ![h][n] = o]
    BY <1>h, <1>n, <1>i, <2>1, WriteTxObject DEF Object
  <2>3. ids \in SUBSET TxIDs /\ content \in BOOLEAN
    BY <1>1, <2>1 DEF Object, Local
  <2> HIDE DEF tx, ids, content
  <2>4. o \in Object /\ o.ids = ids
    BY <1>1, <2>1, <2>3 DEF Object
  <2> HIDE DEF o
  <2>5. /\ objects'[h][n] = o
        /\ \A x \in Hashes : \A m \in 1..MaxStays :
              x # h \/ m # n => objects'[x][m] = objects[x][m]
    <3>1. TxTypeOK /\ h \in Hashes /\ n \in 1..MaxStays /\ o \in Object
      BY <1>1, <2>4
    <3> QED
      BY ZenonT(60), <2>2, <3>1, ObjectUpdate
  <2> QED
    BY <2>4, <2>5 DEF ids, tx
<1>5. CASE ~at[g].newID
  <2>1. IDsKept
    BY <1>4, <1>5 DEF IDsKept
  <2> QED
    BY <1>0, <1>2, <1>3, <1>5, <2>1, ReturnRole, NoRoleStep
<1>6. CASE at[g].newID
  <2>1. PICK l \in Local : /\ at' = [at EXCEPT ![g] = l]
                           /\ l.pc = "index" /\ l.op = "Add" /\ l.h = h /\ l.id = i /\ l.obj = n
    BY <1>1, <1>2, <1>6, <1>h, <1>n, <1>i, GotoFields DEF Places
  <2>2. /\ at'[g] = l /\ \A p \in Goroutines \ {g} : at'[p] = at[p]
        /\ \A x \in Hashes : hashToContent[x] = 0 \/ hashToContent[x] \in 1..MaxStays
        /\ \A x \in Hashes : \A m \in 1..stored[x] : m \in 1..MaxStays
    BY <2>1, OneMoves
  <2>3. AssignedTo[i] = h /\ RoleFit(l)
    BY <1>1, <1>6, <1>h, <1>i, <2>1 DEF RoleFit, AddPlaces
  <2>4. \A x \in Hashes : \A m \in 1..MaxStays :
           /\ objects[x][m].ids \subseteq objects'[x][m].ids
           /\ \A id \in objects'[x][m].ids : id \in objects[x][m].ids \/ (x = h /\ id = i)
    BY <1>4, <1>6
  <2>5. RolesFit'
    <3>1. ObjectIDs'
      BY <2>3, <2>4 DEF ObjectIDs, RolesInv, RolesFit
    <3>2. l.id \in objects'[l.h][l.obj].ids
      BY <1>4, <1>6, <2>1
    <3>3. \A x \in Hashes : \A m \in 1..stored[x] : objects[x][m].ids \subseteq objects'[x][m].ids
      BY <2>2, <2>4
    <3> QED
      BY <2>1, <2>3, <3>1, <3>2, <3>3, RolesFitStep
  <2>6. \A x : (Uses(l, x) => x = h) /\ (Adds(l, x) => x = h) /\ ~Removes(l, x)
    BY <2>1 DEF Uses, Adds, Removes
  <2>7. ASSUME NEW x \in Hashes \ shared PROVE Apart(x)'
    <3>1. Apart(x)
      BY DEF RolesInv
    <3>2. x = h => \A p \in Goroutines \ {g} : ~Uses(at[p], h) /\ ~Removes(at[p], h)
      BY <1>1, <3>1 DEF Apart
    <3>3. ~(hashToContent'[x] # 0 /\ Exists(x)')
      BY <1>2, <1>3, <3>1 DEF Apart
    <3>4. x = h => ~Exists(x)'
      BY <1>1, <1>3
    <3> QED
      BY <1>2, <1>3, <2>1, <2>6, <3>1, <3>2, <3>3, <3>4, ApartStep, ZenonT(40)
  <2>8. ASSUME NEW x \in Hashes \ mixed PROVE Separate(x)'
    <3>1. Separate(x)
      BY DEF RolesInv
    <3>2. ASSUME NEW id \in TxIDs, AssignedTo[id] = x PROVE IDsAgree(x, id)'
      <4>1. IDsAgree(x, id)
        BY <3>1, <3>2 DEF Separate
      <4>2. HasID(x, id) => HasID(x, id)'
        BY <1>2, <2>2, <2>4 DEF HasID
      <4>3. HasID(x, id)' => HasID(x, id) \/ id = i
        BY <1>2, <2>2, <2>4 DEF HasID
      <4>4. Unindexing(x, id) => Unindexing(x, id)'
        BY <1>0, <2>2 DEF Unindexing
      <4>5. Indexing(id) \/ id = i => Indexing(id)'
        BY <1>0, <2>1, <2>2 DEF Indexing
      <4> QED
        BY <1>2, <4>1, <4>2, <4>3, <4>4, <4>5 DEF IDsAgree
    <3>3. (\E p \in Goroutines \ {g} : Removes(at[p], x)) => hashToContent'[x] = 0
      BY <1>2, <3>1 DEF Separate
    <3>4. x = h => (\A p \in Goroutines : ~Removes(at[p], x)) /\ l.obj = hashToContent'[x]
      BY <1>1, <1>2, <2>1
    <3> QED
      BY <1>2, <2>1, <2>6, <3>1, <3>2, <3>3, <3>4, SeparateStep
  <2> QED
    BY <1>2, <2>5, <2>7, <2>8 DEF RolesInv
<1> QED
  BY <1>1, <1>5, <1>6

\* A goroutine that gives up its role in a step that changes the index.
LEMMA LeavesRole ==
    ASSUME StoreInv, RolesInv, NEW g \in Goroutines, NEW l \in Local, at' = [at EXCEPT ![g] = l],
           NoRole(l), IDsKept, UNCHANGED <<hashToContent, shared, mixed, now, seenTxs>>,
           \A h \in Hashes \ mixed, id \in TxIDs : AssignedTo[id] = h => IDsAgree(h, id)'
    PROVE  RolesInv'
<1>0. \A h : ~Uses(l, h) /\ ~Adds(l, h) /\ ~Removes(l, h)
  BY DEF NoRole, Uses, Adds, Removes
<1>1. RolesFit'
  <2>1. \A h \in Hashes : \A n \in 1..stored[h] : objects[h][n].ids \subseteq objects'[h][n].ids
    <3>1. \A h \in Hashes : \A n \in 1..stored[h] : n \in 1..MaxStays
      BY OneMoves
    <3> QED
      BY <3>1 DEF IDsKept
  <2>2. ObjectIDs' /\ l.pc # "index" /\ RoleFit(l)
    BY ObjectIDsKept DEF NoRole, AddPlaces, RoleFit
  <2> QED
    BY <2>1, <2>2, RolesFitStep
<1>2. ASSUME NEW h \in Hashes \ shared PROVE Apart(h)'
  <2>1. Apart(h) /\ (Exists(h)' <=> Exists(h))
    BY SameSeen DEF RolesInv
  <2>2. ~(hashToContent'[h] # 0 /\ Exists(h)')
    BY <2>1 DEF Apart
  <2> QED
    BY <1>0, <2>1, <2>2, ApartStep
<1>3. ASSUME NEW h \in Hashes \ mixed PROVE Separate(h)'
  <2>1. Separate(h)
    BY DEF RolesInv
  <2>2. (\E p \in Goroutines \ {g} : Removes(at[p], h)) => hashToContent'[h] = 0
    BY <2>1 DEF Separate
  <2> QED
    BY <1>0, <2>1, <2>2, SeparateStep
<1> QED
  BY <1>1, <1>2, <1>3 DEF RolesInv

\* The short ID is indexed: the stored object has it.
LEMMA IndexRoles ==
    ASSUME StoreInv, RolesInv, NEW g \in Goroutines, IndexTxID(g)
    PROVE  RolesInv'
<1>h. PICK h \in Hashes : h = at[g].h
  BY DEF StoreInv, TxTypeOK, Local
<1>n. PICK n \in 1..MaxStays : n = at[g].obj
  BY OwningFacts DEF IndexTxID, Owning
<1>i. PICK i \in TxIDs : i = at[g].id
  BY DEF StoreInv, LocalsFit, LocalFit, TxTypeOK, Local, IndexTxID
<1>0. at[g].pc = "index" /\ at[g].pc \in AddPlaces \ {"unsee"} /\ at[g].pc \in Owning
  BY DEF IndexTxID, AddPlaces, Owning
<1>1. /\ TxTypeOK /\ RoleFit(at[g]) /\ at[g].op = "Add"
      /\ h \notin mixed => n = hashToContent[h]
  BY <1>0, <1>h, <1>n, AdderFacts
<1>2. /\ txIDToHash' = txIDToHash \cup {i} /\ Return(g)
      /\ objects' = [objects EXCEPT ![h][n].locked = FALSE]
      /\ UNCHANGED <<hashToContent, shared, mixed, now, seenTxs>>
  BY <1>h, <1>n, <1>i DEF IndexTxID, ghosts
<1>3. IDsKept
  <2> DEFINE o == [objects[h][n] EXCEPT !.locked = FALSE]
  <2>1. objects \in [Hashes -> [1..MaxStays -> Object]]
    BY <1>1 DEF TxTypeOK, Object
  <2>2. o \in Object /\ o.ids = objects[h][n].ids
    <3>1. objects[h][n] \in Object
      BY <2>1
    <3> QED
      BY <3>1 DEF Object
  <2>3. objects' = [objects EXCEPT ![h][n] = o]
    BY <1>2, <2>1
  <2> HIDE DEF o
  <2> QED
    BY <1>1, <2>2, <2>3, ObjectUpdate DEF IDsKept
<1>4. AssignedTo[i] = h /\ i \in objects[h][n].ids
  <2>1. AssignedTo[i] = h
    BY <1>1, <1>h, <1>i, StoreAssumption DEF RoleFit
  <2> QED
    BY <1>0, <1>h, <1>n, <1>i, <2>1 DEF RolesInv, RolesFit, Written
<1>5. PICK l \in Local : at' = [at EXCEPT ![g] = l] /\ NoRole(l)
  BY <1>2, ReturnRole
<1>6. /\ \A p \in Goroutines \ {g} : at'[p] = at[p]
      /\ \A x \in Hashes : hashToContent[x] = 0 \/ hashToContent[x] \in 1..MaxStays
  BY <1>5, OneMoves
<1>7. ASSUME NEW x \in Hashes \ mixed, NEW id \in TxIDs, AssignedTo[id] = x
      PROVE  IDsAgree(x, id)'
  <2>1. IDsAgree(x, id)
    BY <1>7 DEF RolesInv, Separate
  <2>2. HasID(x, id)' <=> HasID(x, id)
    BY <1>2, <1>3, <1>6 DEF HasID, IDsKept
  <2>3. Unindexing(x, id) => Unindexing(x, id)'
    BY <1>0, <1>6 DEF Unindexing
  <2>4. Indexing(id) => id = i \/ Indexing(id)'
    BY <1>i, <1>6 DEF Indexing
  <2>5. id = i => HasID(x, id)
    <3>1. id = i => x = h /\ hashToContent[h] = n /\ n # 0
      BY <1>1, <1>4, <1>7
    <3> QED
      BY <1>4, <3>1 DEF HasID
  <2> QED
    BY <1>2, <2>1, <2>2, <2>3, <2>4, <2>5 DEF IDsAgree
<1> QED
  BY <1>2, <1>3, <1>5, <1>7, LeavesRole

\* The second half of Clear: nothing that is not mixed is stored.
LEMMA ClearIDsRoles ==
    ASSUME StoreInv, RolesInv, NEW g \in Goroutines, ClearIDs(g)
    PROVE  RolesInv'
<1>1. /\ at[g].pc = "clearIDs" /\ txIDToHash' = {} /\ Return(g)
      /\ UNCHANGED <<hashToContent, objects, shared, mixed, now, seenTxs>>
  BY DEF ClearIDs, ghosts
<1>2. ASSUME NEW x \in Hashes \ mixed, NEW id \in TxIDs, AssignedTo[id] = x
      PROVE  IDsAgree(x, id)'
  <2>1. hashToContent[x] = 0
    BY <1>1 DEF RolesInv, Separate, Removes
  <2> QED
    BY <1>1, <2>1 DEF IDsAgree, HasID
<1>3. PICK l \in Local : at' = [at EXCEPT ![g] = l] /\ NoRole(l)
  BY <1>1, ReturnRole
<1> QED
  BY <1>1, <1>2, <1>3, SameIDs, LeavesRole

\* SetIfAbsent stores a transaction without short IDs; none of its IDs is indexed, since no
\* removal of it is under way.
LEMMA InsertRoles ==
    ASSUME StoreInv, RolesInv, NEW g \in Goroutines, Insert(g)
    PROVE  RolesInv'
<1>h. PICK h \in Hashes : h = at[g].h
  BY DEF StoreInv, TxTypeOK, Local
<1>n. PICK n : n = stored[h] + 1
  OBVIOUS
<1>0. at[g].pc = "insert" /\ at[g].pc \in AddPlaces \ {"unsee"}
  BY DEF Insert, AddPlaces
<1>1. /\ TxTypeOK /\ at \in [Goroutines -> Local] /\ at[g] \in Local
      /\ at[g].op = "Add" /\ RoleFit(at[g]) /\ Uses(at[g], h) /\ Adds(at[g], h)
      /\ h \notin shared => ~Exists(h)
      /\ h \notin mixed => \A p \in Goroutines : ~Removes(at[p], h)
  BY <1>0, <1>h, AdderFacts
<1>2. UNCHANGED <<txIDToHash, shared, mixed, now, seenTxs>>
  BY DEF Insert
<1>3. \A x : Exists(x)' <=> Exists(x)
  BY <1>2, SameSeen
<1>4. CASE hashToContent[h] # 0
  BY <1>4, <1>h, AdderRoles DEF Insert
<1>5. CASE hashToContent[h] = 0
  <2>1. /\ hashToContent' = [hashToContent EXCEPT ![h] = n]
        /\ stored' = [stored EXCEPT ![h] = n]
        /\ objects' = [objects EXCEPT ![h][n] = NewObject(at[g].time)]
        /\ at' = [at EXCEPT ![g].pc = "lock", ![g].obj = n]
    BY <1>5, <1>h, <1>n DEF Insert
  <2>2. /\ n \in 1..MaxStays /\ n \notin 1..stored[h] /\ n # 0
        /\ hashToContent \in [Hashes -> 0..MaxStays]
        /\ stored \in [Hashes -> 0..MaxStays]
        /\ objects \in [Hashes -> [1..MaxStays -> Object]]
    <3>1. TxTypeOK'
      BY InsertInv DEF StoreInv
    <3>2. stored[h] \in Nat /\ stored \in [Hashes -> 0..MaxStays] /\ stored'[h] \in 0..MaxStays
      BY <1>1, <3>1 DEF TxTypeOK
    <3>3. stored'[h] = n /\ n = stored[h] + 1 /\ MaxStays \in Nat
      BY <1>n, <2>1, <3>2, StoreAssumption
    <3>4. n \in 1..MaxStays /\ n \notin 1..stored[h] /\ n # 0
      BY <3>2, <3>3
    <3> QED
      BY <1>1, <3>2, <3>4 DEF TxTypeOK, Object
  <2>3. /\ objects'[h][n].ids = {}
        /\ \A x \in Hashes : \A m \in 1..MaxStays :
              x # h \/ m # n => objects'[x][m] = objects[x][m]
    <3> DEFINE o == NewObject(at[g].time)
    <3>1. o \in Object /\ o.ids = {}
      BY <1>1 DEF NewObject, Object, Local
    <3>2. objects' = [objects EXCEPT ![h][n] = o]
      BY <2>1
    <3> HIDE DEF o
    <3>3. objects'[h][n] = o /\ \A x \in Hashes : \A m \in 1..MaxStays :
             x # h \/ m # n => objects'[x][m] = objects[x][m]
      <4>1. TxTypeOK /\ h \in Hashes /\ n \in 1..MaxStays /\ o \in Object
        BY <1>1, <2>2, <3>1
      <4> QED
        BY ZenonT(60), <3>2, <4>1, ObjectUpdate
    <3> QED
      BY <3>1, <3>3
  <2>4. \E l \in Local : /\ at' = [at EXCEPT ![g] = l]
                         /\ l.pc = "lock" /\ l.op = "Add" /\ l.h = h /\ l.id = at[g].id /\ l.obj = n
    <3> DEFINE l == [at[g] EXCEPT !.pc = "lock", !.obj = n]
    <3>1. at' = [at EXCEPT ![g] = l]
      BY <1>1, <2>1
    <3>2. n \in 0..MaxStays
      BY <2>2
    <3>3. l \in Local /\ l.pc = "lock" /\ l.op = "Add" /\ l.h = h /\ l.id = at[g].id /\ l.obj = n
      BY <1>1, <1>h, <3>2 DEF Local, Places
    <3> QED
      BY <3>1, <3>3
  <2>5. PICK l \in Local : /\ at' = [at EXCEPT ![g] = l]
                           /\ l.pc = "lock" /\ l.op = "Add" /\ l.h = h /\ l.id = at[g].id /\ l.obj = n
    BY <2>4
  <2>6. /\ at'[g] = l /\ \A p \in Goroutines \ {g} : at'[p] = at[p]
        /\ \A x \in Hashes : hashToContent[x] = 0 \/ hashToContent[x] \in 1..MaxStays
        /\ \A x \in Hashes : \A m \in 1..stored[x] : m \in 1..MaxStays
    BY <2>5, OneMoves
  <2>7. RolesFit'
    <3>1. ObjectIDs'
      BY <2>3 DEF ObjectIDs, RolesInv, RolesFit
    <3>2. RoleFit(l) /\ l.pc # "index"
      BY <1>1, <1>h, <2>5 DEF RoleFit, AddPlaces
    <3>3. \A x \in Hashes : \A m \in 1..stored[x] : objects[x][m].ids \subseteq objects'[x][m].ids
      BY <2>2, <2>3, <2>6
    <3> QED
      BY <2>5, <3>1, <3>2, <3>3, RolesFitStep
  <2>8. \A x : (Uses(l, x) => x = h) /\ (Adds(l, x) => x = h) /\ ~Removes(l, x)
    BY <2>5 DEF Uses, Adds, Removes
  <2>9. /\ hashToContent'[h] = n
        /\ \A x \in Hashes : x # h => hashToContent'[x] = hashToContent[x]
    BY <2>1, <2>2
  <2>10. ASSUME NEW x \in Hashes \ shared PROVE Apart(x)'
    <3>1. Apart(x)
      BY DEF RolesInv
    <3>2. x = h => /\ \A p \in Goroutines \ {g} : ~Uses(at[p], h) /\ ~Removes(at[p], h)
                   /\ ~Exists(x)'
      BY <1>1, <1>3, <3>1 DEF Apart
    <3>3. ~(hashToContent'[x] # 0 /\ Exists(x)')
      BY <1>3, <2>9, <3>1, <3>2 DEF Apart
    <3> QED
      <4>1. Uses(l, x) => ~Exists(x)' /\ l.pc \notin {"refresh", "unsee"}
                          /\ \A p \in Goroutines \ {g} : ~Uses(at[p], x) /\ ~Removes(at[p], x)
        BY <2>5, <2>8, <3>2
      <4>2. (\E p \in Goroutines \ {g} : Uses(at[p], x)) =>
               (hashToContent[x] = 0 => hashToContent'[x] = 0) /\ (Exists(x)' => Exists(x))
        BY <1>3, <2>9, <3>2
      <4> QED
        BY <2>5, <2>8, <3>1, <3>3, <4>1, <4>2, ApartStep
  <2>11. ASSUME NEW x \in Hashes \ mixed PROVE Separate(x)'
    <3>1. Separate(x)
      BY DEF RolesInv
    <3>2. x = h => \A p \in Goroutines : /\ ~Removes(at[p], x)
                                         /\ ~(Adds(at[p], x) /\ at[p].pc \in Owning)
      <4>1. ASSUME x = h, NEW p \in Goroutines, Adds(at[p], x), at[p].pc \in Owning PROVE FALSE
        <5>1. at[p].obj = 0
          BY <1>5, <3>1, <4>1 DEF Separate
        <5>2. at[p].obj \in 1..MaxStays
          BY <4>1, OwningFacts
        <5> QED
          BY <5>1, <5>2
      <4> QED
        BY <1>1, <4>1
    <3>3. ASSUME NEW id \in TxIDs, AssignedTo[id] = x PROVE IDsAgree(x, id)'
      <4>1. IDsAgree(x, id)
        BY <3>1, <3>3 DEF Separate
      <4>2. CASE x = h
        <5>1. ~Unindexing(x, id)
          BY <3>2, <4>2 DEF Unindexing, Removes
        <5>2. ~HasID(x, id) /\ ~HasID(x, id)'
          BY <1>5, <2>3, <2>9, <4>2 DEF HasID
        <5> QED
          BY <1>2, <4>1, <5>1, <5>2 DEF IDsAgree
      <4>3. CASE x # h
        <5>1. HasID(x, id)' <=> HasID(x, id)
          BY <2>3, <2>6, <2>9, <4>3 DEF HasID
        <5>2. Unindexing(x, id) => Unindexing(x, id)'
          BY <1>0, <2>6 DEF Unindexing
        <5>3. Indexing(id) => Indexing(id)'
          BY <1>0, <2>6 DEF Indexing
        <5> QED
          BY <1>2, <4>1, <5>1, <5>2, <5>3 DEF IDsAgree
      <4> QED
        BY <4>2, <4>3
    <3>4. (\E p \in Goroutines \ {g} : Removes(at[p], x)) => hashToContent'[x] = 0
      BY <2>9, <3>1, <3>2 DEF Separate
    <3>5. Adds(l, x) => l.obj = hashToContent'[x]
      BY <2>5, <2>8, <2>9
    <3>6. (\E p \in Goroutines \ {g} : Adds(at[p], x) /\ at[p].pc \in Owning)
             => hashToContent'[x] = hashToContent[x]
      BY <2>9, <3>2
    <3> QED
      BY <2>5, <2>8, <3>1, <3>2, <3>3, <3>4, <3>5, <3>6, SeparateStep
  <2> QED
    BY <1>2, <2>7, <2>10, <2>11 DEF RolesInv
<1> QED
  BY <1>4, <1>5

\* A goroutine begins or goes on with a removal of the hashes S: Pop, the removal of a short
\* ID from the index, and the first half of Clear.  No Add stores them again meanwhile.
LEMMA RemoverStep ==
    ASSUME StoreInv, RolesInv, NEW g \in Goroutines, NEW l \in Local, at' = [at EXCEPT ![g] = l],
           RoleFit(l), l.op \notin {"Add", "Get"}, l.pc # "index", at[g].pc # "index",
           NEW S \in SUBSET Hashes,
           \A h : Removes(l, h) => h \in S \/ h \notin Hashes,
           \A h \in Hashes : hashToContent'[h] \in {0, hashToContent[h]},
           \A h \in Hashes \ S : hashToContent'[h] = hashToContent[h],
           UNCHANGED <<objects, now, seenTxs>>, shared \subseteq shared', mixed \subseteq mixed',
           \A h \in S \ shared' : \A p \in Goroutines : ~Uses(at[p], h),
           \A h \in S \ mixed' : hashToContent'[h] = 0 /\ \A p \in Goroutines : ~Adds(at[p], h),
           \A h \in Hashes \ mixed', id \in TxIDs : AssignedTo[id] = h => IDsAgree(h, id)'
    PROVE  RolesInv'
<1>0. \A h : ~Uses(l, h) /\ ~Adds(l, h)
  BY DEF Uses, Adds
<1>1. RolesFit'
  <2>1. \A h \in Hashes : \A n \in 1..stored[h] : objects[h][n].ids \subseteq objects'[h][n].ids
    OBVIOUS
  <2>2. ObjectIDs'
    BY SameIDs, ObjectIDsKept
  <2> QED
    BY <2>1, <2>2, RolesFitStep
<1>2. ASSUME NEW h \in Hashes \ shared' PROVE Apart(h)'
  <2>1. Apart(h) /\ (Exists(h)' <=> Exists(h))
    BY SameSeen DEF RolesInv
  <2>2. ~(hashToContent'[h] # 0 /\ Exists(h)')
    BY <2>1 DEF Apart
  <2>3. Removes(l, h) => \A p \in Goroutines \ {g} : ~Uses(at[p], h)
    BY <1>2
  <2> QED
    BY <1>0, <2>1, <2>2, <2>3, ApartStep
<1>3. ASSUME NEW h \in Hashes \ mixed' PROVE Separate(h)'
  <2>1. Separate(h)
    BY DEF RolesInv
  <2>2. (\E p \in Goroutines \ {g} : Removes(at[p], h)) => hashToContent'[h] = 0
    BY <2>1 DEF Separate
  <2>3. Removes(l, h) => hashToContent'[h] = 0 /\ \A p \in Goroutines \ {g} : ~Adds(at[p], h)
    BY <1>3
  <2>4. (\E p \in Goroutines \ {g} : Adds(at[p], h) /\ at[p].pc \in Owning)
           => hashToContent'[h] = hashToContent[h]
    BY <1>3
  <2>5. \A id \in TxIDs : AssignedTo[id] = h => IDsAgree(h, id)'
    BY <1>3
  <2> QED
    BY <1>0, <2>1, <2>2, <2>3, <2>4, <2>5, SeparateStep
<1> QED
  BY <1>1, <1>2, <1>3 DEF RolesInv

\* NoteRemoval records every operation that is under way on a hash.
LEMMA RemovalNoted ==
    ASSUME NEW S \in SUBSET Hashes, NoteRemoval(S)
    PROVE  /\ shared \subseteq shared' /\ mixed \subseteq mixed'
           /\ \A h \in S \ shared' : \A p \in Goroutines : ~Uses(at[p], h)
           /\ \A h \in S \ mixed' : \A p \in Goroutines : ~Adds(at[p], h)
BY DEF NoteRemoval, Overlap, Adding, Reading, Uses, Adds

\* Pop takes the stored object out of the map; its IDs are about to leave the index.
LEMMA PopRoles ==
    ASSUME StoreInv, RolesInv, NEW g \in Goroutines, Pop(g), hashToContent' # hashToContent
    PROVE  RolesInv'
<1>0. TxTypeOK /\ at \in [Goroutines -> Local] /\ at[g] \in Local /\ at[g].pc = "hashes"
  BY DEF StoreInv, TxTypeOK, Pop
<1>1. PICK h \in at[g].hs :
         LET ids == objects[h][hashToContent[h]].ids
         IN  /\ hashToContent[h] # 0
             /\ hashToContent' = [hashToContent EXCEPT ![h] = 0]
             /\ at' = [at EXCEPT ![g].h = h, ![g].ids = ids,
                                 ![g].pc = IF ids = {} THEN "protect" ELSE "ids"]
             /\ NoteRemoval({h})
  BY DEF Pop
<1>2. UNCHANGED <<txIDToHash, objects, now, seenTxs>>
  BY DEF Pop
<1>3. h \in Hashes /\ at[g].op \notin {"Add", "Get"}
  BY <1>0, PlaceRole DEF Local, AddPlaces
<1>4. /\ hashToContent'[h] = 0 /\ hashToContent[h] # 0
      /\ \A x \in Hashes : x # h => hashToContent'[x] = hashToContent[x]
  BY <1>0, <1>1, <1>3 DEF TxTypeOK
<1>i. PICK ids : ids = objects[h][hashToContent[h]].ids
  OBVIOUS
<1>5. ids \in SUBSET TxIDs /\ \A id \in ids : AssignedTo[id] = h
  <2>1. hashToContent[h] \in 1..MaxStays /\ objects \in [Hashes -> [1..MaxStays -> Object]]
    <3>1. objects \in [Hashes -> [1..MaxStays -> Object]]
      BY <1>0 DEF TxTypeOK, Object
    <3>2. hashToContent[h] \in 0..MaxStays /\ MaxStays \in Nat
      BY <1>0, <1>3, StoreAssumption DEF TxTypeOK
    <3> QED
      BY <1>4, <3>1, <3>2
  <2>2. objects[h][hashToContent[h]] \in Object
    BY <1>3, <2>1
  <2> QED
    BY <1>3, <1>i, <2>1, <2>2 DEF Object, RolesInv, RolesFit, ObjectIDs
<1>6. \E l \in Local : /\ at' = [at EXCEPT ![g] = l] /\ l.h = h /\ l.ids = ids /\ l.op = at[g].op
                       /\ l.pc = IF ids = {} THEN "protect" ELSE "ids"
  <2> DEFINE pc == IF ids = {} THEN "protect" ELSE "ids"
             l == [at[g] EXCEPT !.h = h, !.ids = ids, !.pc = pc]
  <2>1. pc \in Places
    BY DEF Places
  <2>2. at' = [at EXCEPT ![g].h = h, ![g].ids = ids, ![g].pc = pc]
    BY <1>1, <1>i
  <2> HIDE DEF pc
  <2>3. at' = [at EXCEPT ![g] = l]
    BY <1>0, <2>2
  <2>4. l \in Local /\ l.h = h /\ l.ids = ids /\ l.op = at[g].op /\ l.pc = pc
    BY ZenonT(30), <1>0, <1>3, <1>5, <2>1 DEF Local
  <2> QED
    BY <2>3, <2>4 DEF pc
<1>7. PICK l \in Local : /\ at' = [at EXCEPT ![g] = l] /\ l.h = h /\ l.ids = ids /\ l.op = at[g].op
                         /\ l.pc = IF ids = {} THEN "protect" ELSE "ids"
  BY <1>6
<1>8. /\ RoleFit(l) /\ l.op \notin {"Add", "Get"} /\ l.pc # "index"
      /\ \A x : Removes(l, x) => x \in {h}
  BY <1>3, <1>5, <1>7 DEF RoleFit, Removes
<1>9. /\ at'[g] = l /\ \A p \in Goroutines \ {g} : at'[p] = at[p]
  BY <1>7, OneMoves
<1>10. /\ shared \subseteq shared' /\ mixed \subseteq mixed'
       /\ \A x \in {h} \ shared' : \A p \in Goroutines : ~Uses(at[p], x)
       /\ \A x \in {h} \ mixed' : \A p \in Goroutines : ~Adds(at[p], x)
  <2>1. NoteRemoval({h}) /\ {h} \in SUBSET Hashes
    BY <1>1, <1>3
  <2> QED
    BY <2>1, RemovalNoted
<1>11. ASSUME NEW x \in Hashes \ mixed', NEW id \in TxIDs, AssignedTo[id] = x
       PROVE  IDsAgree(x, id)'
  <2>1. IDsAgree(x, id)
    BY <1>10, <1>11 DEF RolesInv, Separate
  <2>2. Unindexing(x, id) => Unindexing(x, id)'
    BY <1>0, <1>9 DEF Unindexing
  <2>3. Indexing(id) => Indexing(id)'
    BY <1>0, <1>9 DEF Indexing
  <2>4. x # h => (HasID(x, id)' <=> HasID(x, id))
    BY <1>2, <1>4 DEF HasID
  <2>5. x = h => ~HasID(x, id)'
    BY <1>4 DEF HasID
  <2>6. x = h /\ HasID(x, id) => Unindexing(x, id)'
    BY <1>i, <1>7, <1>9 DEF HasID, Unindexing
  <2> QED
    BY <1>2, <2>1, <2>2, <2>3, <2>4, <2>5, <2>6 DEF IDsAgree
<1> QED
  <2>1. /\ {h} \in SUBSET Hashes /\ \A x \in {h} : hashToContent'[x] = 0
        /\ \A x \in Hashes \ {h} : hashToContent'[x] = hashToContent[x]
        /\ \A x \in Hashes : hashToContent'[x] \in {0, hashToContent[x]}
    BY <1>3, <1>4
  <2>2. at[g].pc # "index"
    BY <1>0
  <2> QED
    BY <1>2, <1>7, <1>8, <1>10, <1>11, <2>1, <2>2, RemoverStep

\* The removal of a short ID from the index, by the goroutine that removed its transaction.
LEMMA UnindexRoles ==
    ASSUME StoreInv, RolesInv, NEW g \in Goroutines, UnindexTxID(g)
    PROVE  RolesInv'
<1>0. TxTypeOK /\ at \in [Goroutines -> Local] /\ at[g] \in Local /\ at[g].pc = "ids"
  BY DEF StoreInv, TxTypeOK, UnindexTxID
<1>h. PICK h \in Hashes : h = at[g].h
  BY <1>0 DEF Local
<1>1. PICK i \in at[g].ids :
         /\ txIDToHash' = txIDToHash \ {i}
         /\ at' = [at EXCEPT ![g].ids = @ \ {i}, ![g].pc = IF at[g].ids = {i} THEN "protect" ELSE "ids"]
  BY DEF UnindexTxID
<1>2. UNCHANGED <<hashToContent, objects, now, seenTxs, shared, mixed>>
  BY DEF UnindexTxID, ghosts
<1>3. /\ \A id \in at[g].ids : AssignedTo[id] = h
      /\ at[g].op \notin {"Add", "Get"} /\ Removes(at[g], h)
  <2>1. RoleFit(at[g])
    BY DEF RolesInv, RolesFit
  <2> QED
    BY <1>0, <1>h, <2>1, PlaceRole DEF RoleFit, Removes, AddPlaces
<1>4. \E l \in Local : /\ at' = [at EXCEPT ![g] = l] /\ l.h = h /\ l.ids = at[g].ids \ {i}
                       /\ l.op = at[g].op /\ l.pc = IF at[g].ids = {i} THEN "protect" ELSE "ids"
  <2> DEFINE pc == IF at[g].ids = {i} THEN "protect" ELSE "ids"
             l == [at[g] EXCEPT !.ids = @ \ {i}, !.pc = pc]
  <2>1. pc \in Places /\ at[g].ids \ {i} \in SUBSET TxIDs
    BY <1>0 DEF Places, Local
  <2>2. at' = [at EXCEPT ![g].ids = @ \ {i}, ![g].pc = pc]
    BY <1>1
  <2> HIDE DEF pc
  <2>3. at' = [at EXCEPT ![g] = l]
    BY <1>0, <2>2
  <2>4. l \in Local /\ l.h = h /\ l.ids = at[g].ids \ {i} /\ l.op = at[g].op /\ l.pc = pc
    BY <1>0, <1>h, <2>1 DEF Local
  <2> QED
    BY <2>3, <2>4 DEF pc
<1>5. PICK l \in Local : /\ at' = [at EXCEPT ![g] = l] /\ l.h = h /\ l.ids = at[g].ids \ {i}
                         /\ l.op = at[g].op /\ l.pc = IF at[g].ids = {i} THEN "protect" ELSE "ids"
  BY <1>4
<1>6. /\ RoleFit(l) /\ l.op \notin {"Add", "Get"} /\ l.pc # "index" /\ at[g].pc # "index"
      /\ \A x : Removes(l, x) => x \in {h}
  BY <1>0, <1>3, <1>5 DEF RoleFit, Removes
<1>7. at'[g] = l /\ \A p \in Goroutines \ {g} : at'[p] = at[p]
  BY <1>5, OneMoves
<1>8. \A x \in {h} \ mixed : hashToContent'[x] = 0 /\ \A p \in Goroutines : ~Adds(at[p], x)
  BY <1>2, <1>3 DEF RolesInv, Separate
<1>9. ASSUME NEW x \in Hashes \ mixed, NEW id \in TxIDs, AssignedTo[id] = x
      PROVE  IDsAgree(x, id)'
  <2>1. IDsAgree(x, id)
    BY <1>9 DEF RolesInv, Separate
  <2>2. HasID(x, id)' <=> HasID(x, id)
    BY <1>2 DEF HasID
  <2>3. id # i /\ Unindexing(x, id) => Unindexing(x, id)'
    <3>1. ASSUME id # i, NEW p \in Goroutines,
                 \/ at[p].pc = "ids" /\ at[p].h = x /\ id \in at[p].ids
                 \/ at[p].pc = "clearIDs"
          PROVE  Unindexing(x, id)'
      <4>1. CASE p # g
        BY <1>7, <3>1, <4>1 DEF Unindexing
      <4>2. CASE p = g
        <5>1. l.pc = "ids" /\ l.h = x /\ id \in l.ids
          BY <1>0, <1>h, <1>5, <3>1, <4>2
        <5> QED
          BY <1>7, <5>1 DEF Unindexing
      <4> QED
        BY <4>1, <4>2
    <3> QED
      BY <3>1 DEF Unindexing
  <2>4. Indexing(id) => Indexing(id)'
    BY <1>0, <1>7 DEF Indexing
  <2>5. id = i => ~HasID(x, id)
    BY <1>2, <1>3, <1>8, <1>9 DEF HasID
  <2> QED
    BY <1>1, <2>1, <2>2, <2>3, <2>4, <2>5 DEF IDsAgree
<1>10. \A x \in {h} \ shared : \A p \in Goroutines : ~Uses(at[p], x)
  BY <1>3 DEF RolesInv, Apart
<1>11. {h} \in SUBSET Hashes
  OBVIOUS
<1> QED
  BY <1>2, <1>5, <1>6, <1>8, <1>9, <1>10, <1>11, RemoverStep

\* The first half of Clear: every short ID is about to leave the index.
LEMMA ClearRoles ==
    ASSUME StoreInv, RolesInv, NEW g \in Goroutines, Clear(g)
    PROVE  RolesInv'
<1>1. /\ hashToContent' = [h \in Hashes |-> 0] /\ NoteRemoval(Hashes) /\ "Clear" \in Calls
      /\ UNCHANGED <<txIDToHash, objects, now, seenTxs>> /\ at[g].pc = "idle"
  BY DEF Clear, Calling
<1>2. \E l \in Local : at' = [at EXCEPT ![g] = l] /\ l.pc = "clearIDs" /\ l.op = "Clear"
  <2> DEFINE l == [Idle EXCEPT !.op = "Clear", !.pc = "clearIDs"]
  <2>1. l \in Local /\ l.pc = "clearIDs" /\ l.op = "Clear"
    BY <1>1, IdleLocal DEF Local, Places
  <2>2. at' = [at EXCEPT ![g] = l]
    BY DEF Clear
  <2> QED
    BY <2>1, <2>2
<1>3. PICK l \in Local : at' = [at EXCEPT ![g] = l] /\ l.pc = "clearIDs" /\ l.op = "Clear"
  BY <1>2
<1>4. RoleFit(l) /\ l.op \notin {"Add", "Get"} /\ l.pc # "index" /\ at[g].pc # "index"
  BY <1>1, <1>3 DEF RoleFit
<1>5. at'[g] = l /\ \A p \in Goroutines \ {g} : at'[p] = at[p]
  BY <1>3, OneMoves
<1>6. \A h \in Hashes : hashToContent'[h] = 0
  BY <1>1
<1>7. ASSUME NEW x \in Hashes \ mixed', NEW id \in TxIDs, AssignedTo[id] = x
      PROVE  IDsAgree(x, id)'
  <2>1. Unindexing(x, id)'
    BY <1>3, <1>5 DEF Unindexing
  <2>2. ~HasID(x, id)'
    BY <1>6 DEF HasID
  <2> QED
    BY <2>1, <2>2 DEF IDsAgree
<1>8. /\ shared \subseteq shared' /\ mixed \subseteq mixed'
      /\ \A h \in Hashes \ shared' : \A p \in Goroutines : ~Uses(at[p], h)
      /\ \A h \in Hashes \ mixed' : \A p \in Goroutines : ~Adds(at[p], h)
  BY <1>1, RemovalNoted
<1>9. /\ Hashes \in SUBSET Hashes
      /\ \A h : Removes(l, h) => h \in Hashes \/ h \notin Hashes
      /\ \A h \in Hashes : hashToContent'[h] \in {0, hashToContent[h]}
      /\ \A h \in Hashes \ Hashes : hashToContent'[h] = hashToContent[h]
  BY <1>6
<1> QED
  BY <1>1, <1>3, <1>4, <1>6, <1>7, <1>8, <1>9, RemoverStep

\* The first steps of Add and Get, which record what they overlap with, and those of the
\* removals, which are not yet at work on a transaction.
LEMMA CallRoles ==
    ASSUME StoreInv, RolesInv, NEW g \in Callers, Call(g)
    PROVE  RolesInv'
<1>0. /\ TxTypeOK /\ g \in Goroutines /\ at \in [Goroutines -> Local] /\ Idle \in Local
      /\ Idle.pc = "idle" /\ Idle.op = "none"
  BY IdleLocal DEF StoreInv, TxTypeOK, Goroutines
<1>1. ASSUME NEW h \in Hashes, NEW op \in {"Add", "Get"}, NEW l \in Local, at[g].pc = "idle",
             at' = [at EXCEPT ![g] = l], l.op = op, l.h = h, RoleFit(l),
             l.pc = IF Exists(h) THEN "refresh" ELSE "insert",
             NoteUse(h), UNCHANGED <<now, maps>>
      PROVE  RolesInv'
  <2>1. UNCHANGED <<hashToContent, txIDToHash, objects, seenTxs, now>>
    BY <1>1 DEF maps
  <2>2. \A x : Exists(x)' <=> Exists(x)
    BY <2>1, SameSeen
  <2>3. /\ shared \subseteq shared' /\ mixed \subseteq mixed'
        /\ h \notin shared' => \A p \in Goroutines : ~Uses(at[p], h) /\ ~Removes(at[p], h)
        /\ h \notin mixed' => \A p \in Goroutines : ~Removes(at[p], h)
    BY <1>1 DEF NoteUse, Overlap, Adding, Reading, Removing, Uses, Removes
  <2>4. \A x : (Uses(l, x) => x = h) /\ (Adds(l, x) => x = h)
    BY <1>1 DEF Uses, Adds
  <2>5. h \notin shared' =>
           IF l.pc \in {"refresh", "unsee"} THEN hashToContent[h] = 0 ELSE ~Exists(h)'
    <3>1. h \notin shared' => Apart(h)
      BY <2>3 DEF RolesInv
    <3> QED
      BY <1>1, <2>2, <3>1 DEF Apart
  <2>6. /\ l.pc \notin {"ids", "protect", "clearIDs", "index"} /\ l.pc \notin Owning
        /\ at[g].pc \notin {"ids", "clearIDs", "index"}
    BY <1>1 DEF Owning
  <2>7. SeenKept(g) /\ IDsKept
    BY <2>1, SameSeen, SameIDs
  <2> QED
    BY <1>0, <1>1, <2>1, <2>3, <2>4, <2>5, <2>6, <2>7, QuietRoles
<1>2. ASSUME NEW h \in Hashes, NEW content \in BOOLEAN, NEW id \in TxIDs \cup {TxIDEmpty},
             NEW delay \in Delays, Add(g, h, id, content, delay)
      PROVE  RolesInv'
  <2> DEFINE first == IF Exists(h) THEN "refresh" ELSE "insert"
             t == now - delay
             l == [Idle EXCEPT !.op = "Add", !.h = h, !.id = id, !.content = content,
                               !.time = t, !.pc = first]
  <2>1. /\ "Add" \in Calls /\ at[g].pc = "idle" /\ NoteUse(h) /\ UNCHANGED <<now, maps>>
        /\ id # TxIDEmpty => AssignedTo[id] = h
        /\ at' = [at EXCEPT ![g] = l]
    BY <1>2 DEF Add, Calling
  <2>2. t \in Int /\ first \in {"refresh", "insert"}
    BY <1>0, StoreAssumption DEF TxTypeOK
  <2>3. first = IF Exists(h) THEN "refresh" ELSE "insert"
    OBVIOUS
  <2> HIDE DEF first, t
  <2>4. l \in Local /\ l.pc = first /\ l.op = "Add" /\ l.h = h /\ l.id = id
    BY ZenonT(30), <1>0, <2>1, <2>2 DEF Local, Places
  <2> HIDE DEF l
  <2>5. RoleFit(l)
    BY <2>1, <2>2, <2>4 DEF RoleFit, AddPlaces
  <2> QED
    BY <1>1, <2>1, <2>3, <2>4, <2>5
<1>3. ASSUME NEW h \in Hashes, Get(g, h) PROVE RolesInv'
  <2> DEFINE l == [Idle EXCEPT !.op = "Get", !.h = h, !.pc = "refresh"]
  <2>1. /\ "Get" \in Calls /\ at[g].pc = "idle" /\ NoteUse(h) /\ UNCHANGED <<now, maps>>
        /\ Exists(h) /\ at' = [at EXCEPT ![g] = l]
    BY <1>3 DEF Get, Calling
  <2>2. l \in Local /\ l.pc = "refresh" /\ l.op = "Get" /\ l.h = h
    BY <1>0, <2>1 DEF Local, Places
  <2> HIDE DEF l
  <2>3. RoleFit(l)
    BY <2>2 DEF RoleFit
  <2> QED
    BY <1>1, <2>1, <2>2, <2>3
<1>4. ASSUME NEW l \in Local, at' = [at EXCEPT ![g] = l], at[g].pc = "idle",
             l.op \in {"RemoveHashes", "RemoveTxIDs"}, l.pc \in {"hashes", "lookup"},
             UNCHANGED <<now, maps, ghosts>>
      PROVE  RolesInv'
  <2>1. UNCHANGED <<hashToContent, txIDToHash, objects, seenTxs, now, shared, mixed>>
    BY <1>4 DEF maps, ghosts
  <2>2. NoRole(l)
    BY <1>4 DEF NoRole, AddPlaces
  <2> QED
    BY <1>0, <1>4, <2>1, <2>2, SameSeen, SameIDs, NoRoleStep
<1>5. ASSUME NEW S \in SUBSET Hashes \ {{}}, NEW p \in Protections, RemoveHashes(g, S, p)
      PROVE  RolesInv'
  <2> DEFINE l == [Idle EXCEPT !.op = "RemoveHashes", !.pc = "hashes", !.hs = S, !.protection = p]
  <2>1. /\ "RemoveHashes" \in Calls /\ at[g].pc = "idle" /\ UNCHANGED <<now, maps, ghosts>>
        /\ at' = [at EXCEPT ![g] = l]
    BY <1>5 DEF RemoveHashes, Calling
  <2>2. l \in Local /\ l.pc = "hashes" /\ l.op = "RemoveHashes"
    BY <1>0, <2>1 DEF Local, Places
  <2> HIDE DEF l
  <2> QED
    BY <1>4, <2>1, <2>2
<1>6. ASSUME NEW I \in SUBSET TxIDs \ {{}}, NEW p \in Protections, RemoveTxIDs(g, I, p)
      PROVE  RolesInv'
  <2> DEFINE l == [Idle EXCEPT !.op = "RemoveTxIDs", !.pc = "lookup", !.ids = I, !.protection = p]
  <2>1. /\ "RemoveTxIDs" \in Calls /\ at[g].pc = "idle" /\ UNCHANGED <<now, maps, ghosts>>
        /\ at' = [at EXCEPT ![g] = l]
    BY <1>6 DEF RemoveTxIDs, Calling
  <2>2. l \in Local /\ l.pc = "lookup" /\ l.op = "RemoveTxIDs"
    BY <1>0, <2>1 DEF Local, Places
  <2> HIDE DEF l
  <2> QED
    BY <1>4, <2>1, <2>2
<1> QED
  BY <1>0, <1>2, <1>3, <1>5, <1>6, ClearRoles DEF Call

-----------------------------------------------------------------------------
(* The theorem.                                                            *)

\* Every step keeps the invariant of the three maps.
LEMMA RolesNext ==
    ASSUME StoreInv, RolesInv, [TxNext]_txVars
    PROVE  RolesInv'
<1>0. Cleaner \in Goroutines /\ \A g \in Callers : g \in Goroutines
  BY DEF Goroutines
<1>1. ASSUME NEW g \in Callers, AddStep(g) PROVE RolesInv'
  BY <1>0, <1>1, RefreshRoles, InsertRoles, AdderRoles, WriteRoles, IndexRoles DEF AddStep
<1>2. ASSUME NEW g \in Goroutines, RemoveStep(g) PROVE RolesInv'
  BY <1>2, RemovalEnds, PopRoles, UnindexRoles, ClearIDsRoles DEF RemoveStep
<1>3. CASE CleanStep \/ Stop
  BY <1>0, <1>2, <1>3, CleanRoles DEF CleanStep
<1>4. CASE HistoryClean \/ HistoryRemove \/ Tick \/ UNCHANGED txVars
  BY <1>4, StillRoles
<1> QED
  BY <1>0, <1>1, <1>2, <1>3, <1>4, CallRoles DEF TxNext

\* It holds in an empty store.
LEMMA RolesInitially ==
    ASSUME TxInit
    PROVE  RolesInv
<1>1. \A g \in Goroutines : at[g].pc = "idle" /\ at[g].op = "none"
  BY IdleLocal DEF TxInit
<1>2. RolesFit
  BY <1>1 DEF RolesFit, RoleFit, Written, ObjectIDs, TxInit, NewObject
<1>3. \A g \in Goroutines : \A h \in Hashes :
         ~Uses(at[g], h) /\ ~Adds(at[g], h) /\ ~Removes(at[g], h)
  BY <1>1 DEF Uses, Adds, Removes
<1>4. \A h \in Hashes : hashToContent[h] = 0 /\ \A id : id \notin txIDToHash
  BY DEF TxInit
<1> QED
  BY <1>2, <1>3, <1>4 DEF RolesInv, Apart, Separate, IDsAgree, HasID

\* When no operation is at work on a transaction, contents, short IDs and history agree.
LEMMA RolesAgree ==
    ASSUME StoreInv, RolesInv
    PROVE  TxStoreInv
<1>0. TxTypeOK
  BY DEF StoreInv
<1>1. ASSUME NEW h \in Hashes, ~InUse(h)
      PROVE  \A g \in Goroutines : ~Uses(at[g], h) /\ ~Adds(at[g], h) /\ ~Removes(at[g], h)
  BY <1>1 DEF InUse, Adding, Reading, Removing, Uses, Adds, Removes
<1>2. ASSUME NEW id \in TxIDs, NEW h \in Hashes, AssignedTo[id] = h, ~InUse(h), h \notin mixed
      PROVE  /\ id \in txIDToHash <=> h \in Stored /\ id \in objects[h][hashToContent[h]].ids
             /\ GetTxByID(id) # "noContent"
  <2>1. IDsAgree(h, id)
    BY <1>2 DEF RolesInv, Separate
  <2>2. ~Unindexing(h, id)
    BY <1>1, <1>2 DEF Unindexing, Removes
  <2>3. ~Indexing(id)
    <3>1. ASSUME NEW g \in Goroutines, at[g].pc = "index", at[g].id = id PROVE FALSE
      <4>1. RoleFit(at[g]) /\ LocalFit(at[g])
        BY DEF RolesInv, RolesFit, StoreInv, LocalsFit
      <4>2. Adds(at[g], h)
        BY <1>2, <3>1, <4>1 DEF RoleFit, LocalFit, AddPlaces, Adds
      <4> QED
        BY <1>1, <1>2, <4>2
    <3> QED
      BY <3>1 DEF Indexing
  <2>4. id \in txIDToHash <=> HasID(h, id)
    BY <2>1, <2>2, <2>3 DEF IDsAgree
  <2> QED
    BY <1>2, <2>4 DEF HasID, Stored, GetTxByID
<1>3. IDsConsistent
  BY <1>2, StoreAssumption DEF IDsConsistent
<1>4. StoredOrSeen
  BY DEF StoredOrSeen, RolesInv, Apart, Stored
<1> QED
  BY <1>0, <1>3, <1>4 DEF TxStoreInv

\* Contents, short IDs and history agree on every transaction at which no operation is at
\* work, as long as its operations did not overlap in the ways the three maps cannot stand.
THEOREM MapsAgree == TxSpec => []TxStoreInv
<1>1. TxInit => RolesInv
  BY RolesInitially
<1>2. StoreInv /\ RolesInv /\ [TxNext]_txVars => RolesInv'
  BY RolesNext
<1>3. StoreInv /\ RolesInv => TxStoreInv
  BY RolesAgree
<1> QED
  BY <1>1, <1>2, <1>3, StoreInvariant, PTL DEF TxSpec
==============================================================================
