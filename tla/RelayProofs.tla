----------------------------- MODULE RelayProofs -----------------------------
(***************************************************************************)
(* Proofs about Chain and BlockRelay.                                      *)
(*                                                                         *)
(* About Chain, for every tree of blocks and every value of the bounds:    *)
(* ChainInv is inductive, the chain state never falls back, and what peers *)
(* are told about it is complete.  About BlockRelay, for any number of     *)
(* handlers: the store stays consistent although a handler gives up        *)
(* chainLock between its calls, no block goes out to the relays twice, and *)
(* the head of the chain goes out.                                         *)
(***************************************************************************)
EXTENDS BlockRelay, SequenceTheorems, NaturalsInduction, WellFoundedInduction, TLAPS

-----------------------------------------------------------------------------
(* Chain.                                                                  *)

\* A chain state that is consistent with the headers hs.
GoodChain(c, hs) ==
    /\ c \in Seq(Blocks)
    /\ \A i \in 1..Len(c) : c[i] \in hs
    /\ Linked(c)
    /\ NearHead(c)

\* One that has b as its newest entry.
HeadedBy(c, hs, b) == GoodChain(c, hs) /\ c # <<>> /\ c[1] = b

-----------------------------------------------------------------------------
(* Blocks and paths.                                                       *)

\* What the two halves of a concatenation are.
LEMMA ConcatFacts ==
    ASSUME NEW S, NEW p \in Seq(S), NEW d \in Seq(S)
    PROVE  /\ p \o d \in Seq(S)
           /\ Len(p \o d) = Len(p) + Len(d)
           /\ \A i \in 1..Len(p) : (p \o d)[i] = p[i]
           /\ \A i \in 1..Len(d) : (p \o d)[Len(p) + i] = d[i]
<1>1. p \o d \in Seq(S) /\ Len(p \o d) = Len(p) + Len(d)
  BY ConcatProperties
<1>2. ASSUME NEW i \in 1..Len(p) PROVE (p \o d)[i] = p[i]
  OBVIOUS
<1>3. ASSUME NEW i \in 1..Len(d) PROVE (p \o d)[Len(p) + i] = d[i]
  OBVIOUS
<1> QED
  BY <1>1, <1>2, <1>3

\* Following k parent links leads to a block k lower.
LEMMA AncestorFacts ==
    ASSUME NEW b \in Blocks, NEW k \in 0..Height(b)
    PROVE  /\ Ancestor(b, k) \in Blocks
           /\ Height(Ancestor(b, k)) = Height(b) - k
           /\ Height(b) \in Nat
<1>1. b \in Seq(Nat) /\ Len(b) \in Nat
  BY BlocksAssumption
<1>2. Len(b) - k \in 0..Len(b)
  BY <1>1 DEF Height
<1>3. Len(SubSeq(b, 1, Len(b) - k)) = Len(b) - k
  BY <1>1, <1>2
<1> QED
  BY <1>1, <1>2, <1>3, BlocksAssumption DEF Ancestor, Height

\* No link followed, no move.
LEMMA AncestorZero ==
    ASSUME NEW b \in Blocks
    PROVE  Ancestor(b, 0) = b
<1>1. b \in Seq(Nat)
  BY BlocksAssumption
<1> QED
  BY <1>1, SubSeqFull DEF Ancestor

\* Ancestors that are one link apart are parent and child.
LEMMA AncestorStep ==
    ASSUME NEW b \in Blocks, NEW k \in Nat, k < Height(b)
    PROVE  IsAncestor(Ancestor(b, k), 1, Ancestor(b, k + 1))
<1>1. b \in Seq(Nat) /\ Len(b) \in Nat
  BY BlocksAssumption
<1> DEFINE n == Len(b) - k
<1>2. n \in 1..Len(b)
  BY <1>1 DEF Height
<1>3. /\ SubSeq(b, 1, n) \in Seq(Nat) /\ Len(SubSeq(b, 1, n)) = n
      /\ \A i \in 1..n : SubSeq(b, 1, n)[i] = b[i]
  BY <1>1, <1>2
<1>4. SubSeq(SubSeq(b, 1, n), 1, n - 1) = SubSeq(b, 1, n - 1)
  BY <1>1, <1>2, <1>3
<1>5. Len(b) - (k + 1) = n - 1
  BY <1>1
<1> QED
  BY <1>2, <1>3, <1>4, <1>5 DEF IsAncestor, Ancestor, Height

\* A path of stored ancestors followed by a chain that continues it is a
\* consistent chain with the newest block of the path as its head.
LEMMA JoinGood ==
    ASSUME NEW hs \in SUBSET Blocks, NEW b \in Blocks, NEW n \in Nat \ {0},
           \A k \in 0..(n - 1) : StoredAncestor(hs, b, k),
           NEW d \in Seq(Blocks), \A i \in 1..Len(d) : d[i] \in hs, Linked(d),
           \A i \in 1..Len(d) : Height(d[i]) >= Height(b) - (n + i - 1),
           Len(d) > 0 => \/ d[1] = Ancestor(b, n - 1)
                         \/ IsAncestor(Ancestor(b, n - 1), 1, d[1])
    PROVE  HeadedBy(Path(b, n) \o d, hs, b)
<1> DEFINE p == Path(b, n)
           r == p \o d
<1>1. \A k \in 0..(n - 1) : /\ k <= Height(b) /\ Ancestor(b, k) \in hs
                            /\ Ancestor(b, k) \in Blocks
                            /\ Height(Ancestor(b, k)) = Height(b) - k
  BY AncestorFacts DEF StoredAncestor
<1>2. p \in Seq(Blocks) /\ Len(p) = n /\ \A i \in 1..n : p[i] = Ancestor(b, i - 1)
  BY <1>1 DEF Path
<1>3. Len(d) \in Nat /\ Height(b) \in Nat
  BY BlocksAssumption DEF Height
<1> HIDE DEF p
<1>4. /\ r \in Seq(Blocks)
      /\ Len(r) = n + Len(d)
      /\ \A i \in 1..n : r[i] = p[i]
      /\ \A i \in 1..Len(d) : r[n + i] = d[i]
  <2>1. r \in Seq(Blocks)
    BY <1>2, ConcatFacts
  <2>2. Len(r) = n + Len(d)
    BY <1>2, ConcatFacts
  <2>3. \A i \in 1..n : r[i] = p[i]
    BY <1>2, ConcatFacts
  <2>4. \A i \in 1..Len(d) : r[n + i] = d[i]
    BY <1>2, ConcatFacts
  <2> QED
    BY <2>1, <2>2, <2>3, <2>4
<1> HIDE DEF r
<1>4a. Len(r) = n + Len(d)
  BY <1>4
<1>5. r[1] = b
  BY <1>2, <1>3, <1>4, AncestorZero
<1>6. \A i \in 1..Len(r) : r[i] \in hs
  <2> SUFFICES ASSUME NEW i \in 1..Len(r) PROVE r[i] \in hs
    OBVIOUS
  <2>1. CASE i <= n
    BY <2>1, <1>1, <1>2, <1>3, <1>4
  <2>2. CASE i > n
    <3>1. i - n \in 1..Len(d) /\ n + (i - n) = i
      BY <2>2, <1>3, <1>4a
    <3> QED
      BY <3>1, <1>4
  <2> QED
    BY <2>1, <2>2, <1>3, <1>4a
<1>7. Linked(r)
  <2> SUFFICES ASSUME NEW i \in 1..(Len(r) - 1)
               PROVE  r[i + 1] = r[i] \/ IsAncestor(r[i], 1, r[i + 1])
    BY DEF Linked
  <2>1. CASE i < n
    <3>1. /\ i \in 0..(n - 1) /\ i \in 1..n /\ i + 1 \in 1..n
          /\ i - 1 \in Nat /\ (i - 1) + 1 = i /\ (i + 1) - 1 = i
      BY <2>1, <1>3, <1>4a
    <3>2. r[i] = Ancestor(b, i - 1)
      BY <3>1, <1>2, <1>4
    <3>3. r[i + 1] = Ancestor(b, i)
      BY <3>1, <1>2, <1>4
    <3>4. i - 1 < Height(b)
      BY <3>1, <1>1, <1>3
    <3> QED
      BY <3>1, <3>2, <3>3, <3>4, AncestorStep
  <2>2. CASE i = n
    <3>1. Len(d) > 0 /\ 1 \in 1..Len(d) /\ n \in 1..n
      BY <2>2, <1>3, <1>4a
    <3>2. r[n] = Ancestor(b, n - 1)
      BY <3>1, <1>2, <1>4
    <3>3. r[n + 1] = d[1]
      BY <3>1, <1>4
    <3> QED
      BY <2>2, <3>1, <3>2, <3>3
  <2>3. CASE i > n
    <3>1. /\ i - n \in 1..(Len(d) - 1) /\ (i - n) + 1 \in 1..Len(d)
          /\ i - n \in 1..Len(d)
          /\ n + (i - n) = i /\ n + ((i - n) + 1) = i + 1
      BY <2>3, <1>3, <1>4a
    <3>2. r[n + (i - n)] = d[i - n]
      BY <3>1, <1>4
    <3>3. r[n + ((i - n) + 1)] = d[(i - n) + 1]
      BY <3>1, <1>4
    <3>4. \/ d[(i - n) + 1] = d[i - n]
          \/ IsAncestor(d[i - n], 1, d[(i - n) + 1])
      BY <3>1 DEF Linked
    <3> QED
      BY <3>1, <3>2, <3>3, <3>4
  <2> QED
    BY <2>1, <2>2, <2>3, <1>3, <1>4a
<1>8. NearHead(r)
  <2> SUFFICES ASSUME NEW i \in 1..Len(r) PROVE Height(r[i]) >= Height(b) - (i - 1)
    BY <1>5 DEF NearHead
  <2>1. CASE i <= n
    BY <2>1, <1>1, <1>2, <1>3, <1>4
  <2>2. CASE i > n
    <3>1. i - n \in 1..Len(d) /\ n + (i - n) = i
      BY <2>2, <1>3, <1>4a
    <3>2. r[i] = d[i - n]
      BY <3>1, <1>4
    <3>3. Height(d[i - n]) >= Height(b) - (n + (i - n) - 1)
      BY <3>1
    <3> QED
      BY <3>1, <3>2, <3>3
  <2> QED
    BY <2>1, <2>2, <1>3, <1>4a
<1> QED
  BY <1>3, <1>4, <1>5, <1>6, <1>7, <1>8 DEF HeadedBy, GoodChain, p, r

\* The same with nothing behind the path.
LEMMA PathGood ==
    ASSUME NEW hs \in SUBSET Blocks, NEW b \in Blocks, NEW n \in Nat \ {0},
           \A k \in 0..(n - 1) : StoredAncestor(hs, b, k)
    PROVE  HeadedBy(Path(b, n), hs, b)
<1>1. Path(b, n) \o <<>> = Path(b, n)
  <2>1. \A k \in 0..(n - 1) : Ancestor(b, k) \in Blocks
    BY AncestorFacts DEF StoredAncestor
  <2>2. Path(b, n) \in Seq(Blocks)
    BY <2>1 DEF Path
  <2> QED
    BY <2>2, ConcatEmptySeq
<1>2. Linked(<<>>)
  BY DEF Linked
<1> HIDE DEF Path
<1>3. <<>> \in Seq(Blocks) /\ Len(<<>>) = 0
  OBVIOUS
<1>4. HeadedBy(Path(b, n) \o <<>>, hs, b)
  <2> DEFINE d == <<>>
  <2>1. d \in Seq(Blocks) /\ Linked(d) /\ Len(d) = 0
    BY <1>2, <1>3
  <2> HIDE DEF d
  <2>2. /\ \A i \in 1..Len(d) : d[i] \in hs
        /\ \A i \in 1..Len(d) : Height(d[i]) >= Height(b) - (n + i - 1)
        /\ ~(Len(d) > 0)
    BY <2>1
  <2>3. HeadedBy(Path(b, n) \o d, hs, b)
    BY <2>1, <2>2, JoinGood
  <2> QED
    BY <2>3 DEF d
<1> QED
  BY <1>1, <1>4

-----------------------------------------------------------------------------
(* updateChainState.                                                       *)

\* A set of natural numbers that is not empty has a least element.
LEMMA LeastNat ==
    ASSUME NEW T \in SUBSET Nat, T # {}
    PROVE  \E x \in T : \A y \in T : x <= y
<1>1. PICK x \in T : \A y \in T : ~(<<y, x>> \in OpToRel(<, Nat))
  BY NatLessThanWellFounded, WFMin
<1>2. \A y \in T : ~(y < x)
  BY <1>1 DEF OpToRel
<1> QED
  BY <1>2

\* The backward search stops, at the first entry that the branch passes through.
LEMMA ForkIndexFacts ==
    ASSUME NEW c \in Seq(Blocks), NEW b \in Blocks
    PROVE  /\ ForkIndex(c, b) \in 0..Len(c)
           /\ \/ ForkIndex(c, b) = Len(c)
              \/ IsAncestor(b, Gap(c, b) + ForkIndex(c, b), c[ForkIndex(c, b) + 1])
<1> DEFINE Stop(i) == i = Len(c) \/ IsAncestor(b, Gap(c, b) + i, c[i + 1])
           T == {i \in 0..Len(c) : Stop(i)}
           First(i) == /\ Stop(i)
                       /\ \A j \in 0..(i - 1) : ~IsAncestor(b, Gap(c, b) + j, c[j + 1])
<1>1. Len(c) \in T /\ T \in SUBSET Nat
  OBVIOUS
<1>2. PICK x \in T : \A y \in T : x <= y
  BY <1>1, LeastNat
<1>3. \A j \in 0..(x - 1) : ~IsAncestor(b, Gap(c, b) + j, c[j + 1])
  <2> SUFFICES ASSUME NEW j \in 0..(x - 1), IsAncestor(b, Gap(c, b) + j, c[j + 1])
               PROVE  FALSE
    OBVIOUS
  <2>1. x \in 0..Len(c) /\ Len(c) \in Nat
    OBVIOUS
  <2>2. j \in T
    BY <2>1
  <2> QED
    BY <2>1, <2>2, <1>2
<1>4. x \in 0..Len(c) /\ First(x)
  BY <1>3
<1>5. ForkIndex(c, b) = CHOOSE i \in 0..Len(c) : First(i)
  BY DEF ForkIndex
<1> HIDE DEF First
<1>6. ForkIndex(c, b) \in 0..Len(c) /\ First(ForkIndex(c, b))
  BY <1>4, <1>5
<1> QED
  BY <1>6 DEF First

\* What updateChainState may do to a chain state when it is called for b: it stays
\* consistent and is not empty, and its head is kept or replaced by b and does not fall.
Improves(c, r, hs, b) ==
    /\ GoodChain(r, hs)
    /\ r # <<>>
    /\ c # <<>> => Height(r[1]) >= Height(c[1])
    /\ r[1] = b \/ (c # <<>> /\ r[1] = c[1])

\* The numbers a reorganization computes with.
LEMMA GapFacts ==
    ASSUME NEW c \in Seq(Blocks), c # <<>>, NEW b \in Blocks
    PROVE  /\ Gap(c, b) \in Int
           /\ Height(b) \in Nat
           /\ Height(c[1]) \in Nat
           /\ Height(c[1]) = Height(b) - Gap(c, b)
           /\ Len(c) \in Nat \ {0}
           /\ c[1] \in Blocks
<1>1. Len(c) \in Nat \ {0} /\ c[1] \in Blocks
  OBVIOUS
<1>2. b \in Seq(Nat) /\ c[1] \in Seq(Nat)
  BY <1>1, BlocksAssumption
<1> QED
  BY <1>1, <1>2 DEF Gap, Height

\* A chain with a better head improves on c.
LEMMA BetterHead ==
    ASSUME NEW c \in Seq(Blocks), c # <<>>, NEW b \in Blocks, Gap(c, b) > 0,
           NEW hs, NEW r, HeadedBy(r, hs, b)
    PROVE  Improves(c, r, hs, b)
<1>1. Height(b) >= Height(c[1])
  BY GapFacts
<1> QED
  BY <1>1 DEF Improves, HeadedBy

\* What is left of a consistent chain after its m newest entries.
LEMMA RestFacts ==
    ASSUME NEW hs, NEW c, GoodChain(c, hs), NEW m \in 0..Len(c)
    PROVE  LET d == SubSeq(c, m + 1, Len(c))
           IN  /\ d \in Seq(Blocks)
               /\ Len(d) = Len(c) - m
               /\ \A i \in 1..Len(d) : d[i] = c[m + i]
               /\ \A i \in 1..Len(d) : d[i] \in hs
               /\ Linked(d)
<1> DEFINE d == SubSeq(c, m + 1, Len(c))
<1>1. c \in Seq(Blocks) /\ Len(c) \in Nat
  BY DEF GoodChain
<1>2. d \in Seq(Blocks) /\ Len(d) = Len(c) - m
  <2>1. \A i \in (m + 1)..Len(c) : c[i] \in Blocks
    BY <1>1
  <2>2. d \in Seq(Blocks)
    BY <1>1, <2>1, SubSeqProperties
  <2>3. Len(d) = IF m + 1 <= Len(c) THEN Len(c) - (m + 1) + 1 ELSE 0
    BY <1>1, <2>1, SubSeqProperties
  <2> QED
    BY <1>1, <2>2, <2>3
<1>3. \A i \in 1..Len(d) : d[i] = c[m + i]
  <2> SUFFICES ASSUME NEW i \in 1..Len(d) PROVE d[i] = c[m + i]
    OBVIOUS
  <2>1. i \in 1..(Len(c) - m)
    BY <1>2
  <2> QED
    BY <2>1, <1>1
<1> HIDE DEF d
<1>4. \A i \in 1..Len(d) : d[i] \in hs
  <2> SUFFICES ASSUME NEW i \in 1..Len(d) PROVE d[i] \in hs
    OBVIOUS
  <2>1. m + i \in 1..Len(c)
    BY <1>1, <1>2
  <2> QED
    BY <2>1, <1>3 DEF GoodChain
<1>5. Linked(d)
  <2> SUFFICES ASSUME NEW i \in 1..(Len(d) - 1)
               PROVE  d[i + 1] = d[i] \/ IsAncestor(d[i], 1, d[i + 1])
    BY DEF Linked
  <2>1. /\ m + i \in 1..(Len(c) - 1) /\ m + (i + 1) = (m + i) + 1
        /\ i \in 1..Len(d) /\ i + 1 \in 1..Len(d)
    BY <1>1, <1>2
  <2>2. d[i] = c[m + i]
    BY <2>1, <1>3
  <2>3. d[i + 1] = c[(m + i) + 1]
    BY <2>1, <1>3
  <2>4. c[(m + i) + 1] = c[m + i] \/ IsAncestor(c[m + i], 1, c[(m + i) + 1])
    BY <2>1 DEF GoodChain, Linked
  <2> QED
    BY <2>2, <2>3, <2>4
<1> QED
  BY <1>2, <1>3, <1>4, <1>5 DEF d

\* A reorganization leaves a consistent chain that is at least as high.
LEMMA ReorganizeGood ==
    ASSUME NEW hs \in SUBSET Blocks, NEW c, GoodChain(c, hs), c # <<>>,
           NEW b \in Blocks, Gap(c, b) > 0,
           \A k \in 0..(Gap(c, b) - 1) : StoredAncestor(hs, b, k)
    PROVE  Improves(c, reorganize(c, hs, b).chain, hs, b)
<1> DEFINE gap == Gap(c, b)
           fork == ForkIndex(c, b)
           missing == \E j \in 0..(Smaller(fork, MaxReorg) - 1) : ~StoredAncestor(hs, b, gap + j)
<1>1. c \in Seq(Blocks)
  BY DEF GoodChain
<1>2. /\ gap \in Nat \ {0} /\ Height(b) \in Nat /\ Height(c[1]) \in Nat
      /\ Height(c[1]) = Height(b) - gap /\ Len(c) \in Nat /\ MaxReorg \in Nat \ {0}
  BY <1>1, GapFacts, ChainAssumption
<1>3. fork \in 0..Len(c) /\ (fork = Len(c) \/ IsAncestor(b, gap + fork, c[fork + 1]))
  BY <1>1, ForkIndexFacts
<1>4. ASSUME ~missing, NEW k \in 0..(gap + Smaller(fork, MaxReorg) - 1)
      PROVE  StoredAncestor(hs, b, k)
  <2>1. Smaller(fork, MaxReorg) \in Nat
    BY <1>2, <1>3 DEF Smaller
  <2>2. CASE k < gap
    BY <2>2, <1>2
  <2>3. CASE k >= gap
    <3>1. k - gap \in 0..(Smaller(fork, MaxReorg) - 1) /\ gap + (k - gap) = k
      BY <2>1, <2>3, <1>2
    <3> QED
      BY <3>1, <1>4
  <2> QED
    BY <2>2, <2>3, <1>2
<1>5. CASE missing
  <2>1. reorganize(c, hs, b).chain = c
    BY <1>5 DEF reorganize, Updated
  <2> QED
    BY <2>1, <1>2 DEF Improves
<1>6. CASE ~missing /\ fork >= MaxReorg
  <2>1. reorganize(c, hs, b).chain = Path(b, gap + MaxReorg)
    BY <1>6 DEF reorganize, Updated
  <2>2. gap + MaxReorg \in Nat \ {0} /\ Smaller(fork, MaxReorg) = MaxReorg
    BY <1>2, <1>3, <1>6 DEF Smaller
  <2> DEFINE n == gap + MaxReorg
  <2>3. \A k \in 0..(n - 1) : StoredAncestor(hs, b, k)
    <3> HIDE DEF gap, fork, missing
    <3> QED
      BY <2>2, <1>2, <1>3, <1>4, <1>6
  <2> HIDE DEF n
  <2>4. n \in Nat \ {0} /\ reorganize(c, hs, b).chain = Path(b, n)
    BY <2>1, <2>2 DEF n
  <2>5. HeadedBy(Path(b, n), hs, b)
    BY <2>3, <2>4, PathGood
  <2> QED
    BY <2>4, <2>5, <1>1, BetterHead
<1>7. CASE ~missing /\ fork < MaxReorg
  <2> DEFINE d == SubSeq(c, fork + 1, Len(c))
             n == gap + fork
  <2>0. ~(fork >= MaxReorg)
    BY <1>2, <1>3, <1>7
  <2>1. reorganize(c, hs, b).chain = Path(b, n) \o d
    BY <2>0, <1>7 DEF reorganize, Updated
  <2>2. n \in Nat \ {0} /\ Smaller(fork, MaxReorg) = fork
    BY <1>2, <1>3, <1>7 DEF Smaller
  <2>3. \A k \in 0..(n - 1) : StoredAncestor(hs, b, k)
    <3> HIDE DEF gap, fork, missing
    <3> QED
      BY <2>2, <1>2, <1>3, <1>4, <1>7
  <2>4. /\ d \in Seq(Blocks) /\ Len(d) = Len(c) - fork /\ Linked(d)
        /\ \A i \in 1..Len(d) : d[i] = c[fork + i]
        /\ \A i \in 1..Len(d) : d[i] \in hs
    BY <1>3, RestFacts
  <2> HIDE DEF d, missing
  <2>5. \A i \in 1..Len(d) : Height(d[i]) >= Height(b) - (n + i - 1)
    <3> SUFFICES ASSUME NEW i \in 1..Len(d) PROVE Height(d[i]) >= Height(b) - (n + i - 1)
      OBVIOUS
    <3> DEFINE e == fork + i
    <3>1. e \in 1..Len(c) /\ d[i] = c[e]
      BY <1>2, <1>3, <2>4
    <3>2. Height(c[1]) - (e - 1) = Height(b) - (n + i - 1)
      BY SMTT(20), <1>2, <1>3, <2>2, <2>4
    <3> HIDE DEF e, n
    <3>3. Height(c[e]) >= Height(c[1]) - (e - 1)
      BY <3>1 DEF GoodChain, NearHead
    <3> QED
      BY <3>1, <3>2, <3>3
  <2>6. Len(d) > 0 => IsAncestor(Ancestor(b, n - 1), 1, d[1])
    <3> SUFFICES ASSUME Len(d) > 0 PROVE IsAncestor(Ancestor(b, n - 1), 1, d[1])
      OBVIOUS
    <3>1. d[1] = c[fork + 1] /\ fork # Len(c)
      BY <1>2, <1>3, <2>4
    <3>2. n <= Height(b) /\ Ancestor(b, n) = d[1]
      BY <3>1, <1>3 DEF IsAncestor
    <3>3. n - 1 \in Nat /\ n - 1 < Height(b) /\ (n - 1) + 1 = n
      BY <3>2, <2>2, <1>2
    <3> QED
      BY <3>2, <3>3, AncestorStep
  <2> HIDE DEF n
  <2>7. HeadedBy(Path(b, n) \o d, hs, b)
    BY <2>2, <2>3, <2>4, <2>5, <2>6, JoinGood
  <2> QED
    BY <2>1, <2>7, <1>1, BetterHead
<1> QED
  BY <1>2, <1>3, <1>5, <1>6, <1>7

\* The block itself, as the chain of one.
LEMMA SingletonPath ==
    ASSUME NEW b \in Blocks
    PROVE  Path(b, 1) = <<b>>
BY AncestorZero DEF Path

\* Prepending a stored child of the head.
LEMMA PrependGood ==
    ASSUME NEW hs \in SUBSET Blocks, NEW c, GoodChain(c, hs), c # <<>>,
           NEW b \in hs, c[1] = b \/ IsAncestor(b, 1, c[1])
    PROVE  HeadedBy(<<b>> \o c, hs, b)
<1>1. c \in Seq(Blocks) /\ Len(c) \in Nat \ {0} /\ b \in Blocks /\ c[1] \in Blocks
  BY DEF GoodChain
<1>2. Ancestor(b, 0) = b /\ Height(b) \in Nat
  BY <1>1, AncestorZero, BlocksAssumption DEF Height
<1>3. \A k \in 0..(1 - 1) : StoredAncestor(hs, b, k)
  BY <1>2 DEF StoredAncestor
<1>4. Height(c[1]) \in Nat /\ Height(c[1]) >= Height(b) - 1
  <2>1. CASE c[1] = b
    BY <2>1, <1>2
  <2>2. CASE IsAncestor(b, 1, c[1])
    <3>1. 1 \in 0..Height(b) /\ c[1] = Ancestor(b, 1)
      BY <2>2, <1>2 DEF IsAncestor
    <3> QED
      BY <3>1, <1>1, <1>2, AncestorFacts
  <2> QED
    BY <2>1, <2>2
<1>5. \A i \in 1..Len(c) : Height(c[i]) >= Height(b) - (1 + i - 1)
  <2> SUFFICES ASSUME NEW i \in 1..Len(c) PROVE Height(c[i]) >= Height(b) - (1 + i - 1)
    OBVIOUS
  <2>1. Height(c[i]) >= Height(c[1]) - (i - 1)
    BY DEF GoodChain, NearHead
  <2>2. Height(c[i]) \in Nat
    BY <1>1, BlocksAssumption DEF Height
  <2> QED
    BY <2>1, <2>2, <1>2, <1>4
<1>6. /\ \A i \in 1..Len(c) : c[i] \in hs
      /\ Linked(c)
  BY DEF GoodChain
<1>7. c[1] = Ancestor(b, 1 - 1) \/ IsAncestor(Ancestor(b, 1 - 1), 1, c[1])
  BY <1>2
<1>8. HeadedBy(Path(b, 1) \o c, hs, b)
  <2> DEFINE n == 1
  <2>1. /\ n \in Nat \ {0}
        /\ \A k \in 0..(n - 1) : StoredAncestor(hs, b, k)
        /\ \A i \in 1..Len(c) : Height(c[i]) >= Height(b) - (n + i - 1)
        /\ c[1] = Ancestor(b, n - 1) \/ IsAncestor(Ancestor(b, n - 1), 1, c[1])
    BY <1>3, <1>5, <1>7
  <2> HIDE DEF n
  <2>2. HeadedBy(Path(b, n) \o c, hs, b)
    BY <2>1, <1>1, <1>6, JoinGood
  <2> QED
    BY <2>2 DEF n
<1> QED
  BY <1>1, <1>8, SingletonPath

\* Whatever block is confirmed, updateChainState leaves a consistent chain whose
\* head is at least as high as before.
LEMMA UpdateGood ==
    ASSUME NEW hs \in SUBSET Blocks, NEW c, GoodChain(c, hs), NEW b \in hs
    PROVE  Improves(c, updateChainState(c, hs, b).chain, hs, b)
<1> DEFINE r == updateChainState(c, hs, b).chain
<1>1. c \in Seq(Blocks) /\ b \in Blocks
  BY DEF GoodChain
<1>2. CASE c = <<>>
  <2>1. r = Path(b, 1)
    BY <1>1, <1>2, SingletonPath DEF updateChainState, Updated
  <2>2. Ancestor(b, 0) = b /\ Height(b) \in Nat
    BY <1>1, AncestorZero, BlocksAssumption DEF Height
  <2>3. \A k \in 0..(1 - 1) : StoredAncestor(hs, b, k)
    BY <2>2 DEF StoredAncestor
  <2>4. HeadedBy(Path(b, 1), hs, b)
    <3> DEFINE n == 1
    <3>1. n \in Nat \ {0} /\ \A k \in 0..(n - 1) : StoredAncestor(hs, b, k)
      BY <2>3
    <3> HIDE DEF n
    <3>2. HeadedBy(Path(b, n), hs, b)
      BY <3>1, <1>1, PathGood
    <3> QED
      BY <3>2 DEF n
  <2> QED
    BY <2>1, <2>4, <1>2 DEF Improves, HeadedBy
<1>3. CASE c # <<>>
  <2> DEFINE gap == Gap(c, b)
             base == IF IsAncestor(b, 1, c[1]) THEN <<b>> \o c ELSE c
             missing == \E k \in 0..(Smaller(gap, MinValidChain) - 1) : ~StoredAncestor(hs, b, k)
             result ==
                IF gap <= 0 THEN c
                ELSE IF missing THEN base
                ELSE IF gap >= MinValidChain THEN Path(b, MinValidChain)
                ELSE IF IsAncestor(b, gap, c[1]) THEN Path(b, gap) \o base
                ELSE reorganize(c, hs, b).chain
  <2>1. r = result
    BY <1>3 DEF updateChainState, Updated
  <2>2. /\ gap \in Int /\ Height(b) \in Nat /\ Height(c[1]) \in Nat
        /\ Height(c[1]) = Height(b) - gap /\ MinValidChain \in Nat \ {0}
    BY <1>1, <1>3, GapFacts, ChainAssumption
  <2>3. Improves(c, c, hs, b)
    BY <1>3, <2>2 DEF Improves
  <2>4. ASSUME IsAncestor(b, 1, c[1]) PROVE gap = 1 /\ HeadedBy(<<b>> \o c, hs, b)
    <3>1. HeadedBy(<<b>> \o c, hs, b)
      BY <1>3, <2>4, PrependGood
    <3>2. 1 \in 0..Height(b) /\ c[1] = Ancestor(b, 1)
      BY <2>2, <2>4 DEF IsAncestor
    <3>3. Height(c[1]) = Height(b) - 1
      BY <3>2, <1>1, AncestorFacts
    <3> QED
      BY <3>1, <3>3, <2>2
  <2>5. CASE gap <= 0
    BY <2>1, <2>3, <2>5
  <2>6. CASE gap > 0 /\ missing
    <3>1. r = base
      BY <2>1, <2>2, <2>6
    <3>2. CASE IsAncestor(b, 1, c[1])
      BY <3>1, <3>2, <2>4, <2>6, <1>1, <1>3, BetterHead
    <3>3. CASE ~IsAncestor(b, 1, c[1])
      BY <3>1, <3>3, <2>3
    <3> QED
      BY <3>2, <3>3
  <2>7. CASE gap > 0 /\ ~missing /\ gap >= MinValidChain
    <3>1. r = Path(b, MinValidChain)
      BY <2>1, <2>2, <2>7
    <3>2. \A k \in 0..(MinValidChain - 1) : StoredAncestor(hs, b, k)
      BY <2>2, <2>7 DEF Smaller
    <3>3. HeadedBy(Path(b, MinValidChain), hs, b)
      BY <3>2, <2>2, <1>1, PathGood
    <3> QED
      BY <3>1, <3>3, <2>7, <1>1, <1>3, BetterHead
  <2>8. ASSUME gap > 0, ~missing, ~(gap >= MinValidChain), NEW k \in 0..(gap - 1)
        PROVE  StoredAncestor(hs, b, k)
    BY <2>2, <2>8 DEF Smaller
  <2>9. CASE gap > 0 /\ ~missing /\ ~(gap >= MinValidChain) /\ IsAncestor(b, gap, c[1])
    <3>1. r = Path(b, gap) \o base
      BY <2>1, <2>2, <2>9
    <3>2. CASE IsAncestor(b, 1, c[1])
      <4>1. r = <<b>> \o (<<b>> \o c)
        BY <3>1, <3>2, <2>4, <1>1, SingletonPath
      <4> DEFINE d == <<b>> \o c
      <4>2. GoodChain(d, hs) /\ d # <<>> /\ d[1] = b
        BY <3>2, <2>4 DEF HeadedBy
      <4> HIDE DEF d
      <4>3. HeadedBy(<<b>> \o d, hs, b)
        BY <4>2, PrependGood
      <4> QED
        BY <4>1, <4>3, <2>9, <1>1, <1>3, BetterHead DEF d
    <3>3. CASE ~IsAncestor(b, 1, c[1])
      <4> HIDE DEF gap, missing
      <4>1. r = Path(b, gap) \o c
        BY <3>1, <3>3
      <4>2. gap \in Nat \ {0} /\ \A k \in 0..(gap - 1) : StoredAncestor(hs, b, k)
        BY <2>2, <2>8, <2>9
      <4>3. /\ \A i \in 1..Len(c) : c[i] \in hs
            /\ Linked(c)
        BY DEF GoodChain
      <4>4. \A i \in 1..Len(c) : Height(c[i]) >= Height(b) - (gap + i - 1)
        <5> SUFFICES ASSUME NEW i \in 1..Len(c)
                     PROVE  Height(c[i]) >= Height(b) - (gap + i - 1)
          OBVIOUS
        <5>1. Height(c[i]) >= Height(c[1]) - (i - 1)
          BY DEF GoodChain, NearHead
        <5>2. Height(c[1]) - (i - 1) = Height(b) - (gap + i - 1)
          BY <2>2, <1>1
        <5> QED
          BY <5>1, <5>2
      <4>5. IsAncestor(Ancestor(b, gap - 1), 1, c[1])
        <5>1. gap <= Height(b) /\ Ancestor(b, gap) = c[1]
          BY <2>9 DEF IsAncestor
        <5>2. gap - 1 \in Nat /\ gap - 1 < Height(b) /\ (gap - 1) + 1 = gap
          BY <5>1, <4>2, <2>2
        <5> QED
          BY <5>1, <5>2, <1>1, AncestorStep
      <4>6. HeadedBy(Path(b, gap) \o c, hs, b)
        BY <4>2, <4>3, <4>4, <4>5, <1>1, JoinGood
      <4> QED
        BY <4>1, <4>6, <2>9, <1>1, <1>3, BetterHead DEF gap
    <3> QED
      BY <3>2, <3>3
  <2>10. CASE gap > 0 /\ ~missing /\ ~(gap >= MinValidChain) /\ ~IsAncestor(b, gap, c[1])
    <3>1. r = reorganize(c, hs, b).chain
      BY <2>1, <2>2, <2>10
    <3>2. \A k \in 0..(gap - 1) : StoredAncestor(hs, b, k)
      BY <2>8, <2>10
    <3> QED
      BY <3>1, <3>2, <2>10, <1>1, <1>3, ReorganizeGood
  <2> QED
    BY <2>2, <2>5, <2>6, <2>7, <2>9, <2>10
<1> QED
  BY <1>2, <1>3

-----------------------------------------------------------------------------
(* The invariant.                                                          *)

\* The parts of ChainInv about chainState, as one predicate on it.
LEMMA InvAsGoodChain ==
    ChainInv <=> TypeOK /\ BodiesHaveHeaders /\ GoodChain(chainState, headers)
BY DEF ChainInv, TypeOK, HeadersStored, ChainLinked, EntriesNearHead, GoodChain

\* The program starts with nothing stored.
LEMMA InitInv == Init => ChainInv
<1> SUFFICES ASSUME Init PROVE ChainInv
  OBVIOUS
<1>1. TypeOK /\ BodiesHaveHeaders
  BY DEF Init, TypeOK, BodiesHaveHeaders
<1>2. chainState = <<>> /\ Len(chainState) = 0
  BY DEF Init
<1> QED
  BY <1>1, <1>2 DEF ChainInv, HeadersStored, ChainLinked, EntriesNearHead, Linked, NearHead

\* A metadata map stays one when an entry is stored or merged.
LEMMA StoreMetadataType ==
    ASSUME NEW m \in [Blocks -> Metadata \cup {None}], NEW b \in Blocks,
           NEW h \in Nat, NEW isConfirmed \in BOOLEAN, NEW isSent \in BOOLEAN
    PROVE  storeBlockMetadata(m, b, h, isConfirmed, isSent) \in [Blocks -> Metadata \cup {None}]
<1> DEFINE v == IF m[b] = None
                THEN [height |-> h, sentToBDN |-> FALSE, confirmed |-> isConfirmed,
                      confirmedMsgSent |-> isSent]
                ELSE [m[b] EXCEPT !.confirmed = m[b].confirmed \/ isConfirmed,
                                  !.confirmedMsgSent = m[b].confirmedMsgSent \/ isSent]
<1>1. v \in Metadata
  <2>1. CASE m[b] = None
    BY <2>1 DEF Metadata
  <2>2. CASE m[b] # None
    <3>1. m[b] \in Metadata
      BY <2>2
    <3> QED
      BY <2>2, <3>1 DEF Metadata
  <2> QED
    BY <2>1, <2>2
<1>2. storeBlockMetadata(m, b, h, isConfirmed, isSent) = [m EXCEPT ![b] = v]
  BY DEF storeBlockMetadata
<1> HIDE DEF v
<1> QED
  BY <1>1, <1>2

\* AddBlock, from either source.
LEMMA AddBlockInv ==
    ASSUME ChainInv, NEW b \in Seen, NEW source \in Sources, AddBlock(b, source)
    PROVE  ChainInv' /\ (chainState' = chainState \/ Improves(chainState, chainState', headers', b))
<1>1. b \in Blocks /\ Height(b) \in Nat
  BY ChainAssumption, BlocksAssumption DEF Height
<1>2. TypeOK /\ BodiesHaveHeaders /\ GoodChain(chainState, headers)
  BY InvAsGoodChain
<1>3. /\ headers' \in SUBSET Blocks /\ headers \subseteq headers' /\ b \in headers'
      /\ bodies' \subseteq headers' /\ difficulties' \subseteq Blocks
      /\ bodies' \subseteq Blocks /\ statusHeads' = statusHeads /\ named' = named
  <2>1. CASE HasBlock(b)
    BY <2>1, <1>1, <1>2 DEF AddBlock, HasBlock, BodiesHaveHeaders, TypeOK
  <2>2. CASE ~HasBlock(b)
    BY <2>2, <1>1, <1>2 DEF AddBlock, storeBlock, BodiesHaveHeaders, TypeOK
  <2> QED
    BY <2>1, <2>2
<1>4. metadata' \in [Blocks -> Metadata \cup {None}]
  <2>1. (source = "BSBlockchain") \in BOOLEAN /\ FALSE \in BOOLEAN
    OBVIOUS
  <2> QED
    BY <2>1, <1>1, <1>2, StoreMetadataType DEF AddBlock, TypeOK
<1>5. GoodChain(chainState, headers')
  BY <1>2, <1>3 DEF GoodChain
<1>6. GoodChain(chainState', headers')
      /\ (chainState' = chainState \/ Improves(chainState, chainState', headers', b))
  <2>1. CASE source = "BSBDN"
    BY <2>1, <1>5 DEF AddBlock
  <2>2. CASE source # "BSBDN"
    <3>1. chainState' = updateChainState(chainState, headers', b).chain
      BY <2>2 DEF AddBlock
    <3> QED
      BY <3>1, <1>3, <1>5, UpdateGood DEF Improves
  <2> QED
    BY <2>1, <2>2
<1>7. TypeOK' /\ BodiesHaveHeaders'
  BY <1>2, <1>3, <1>4, <1>6 DEF TypeOK, BodiesHaveHeaders, GoodChain
<1> QED
  BY <1>6, <1>7 DEF ChainInv, TypeOK, HeadersStored, ChainLinked, EntriesNearHead, GoodChain

\* ConfirmBlock, whether or not the header is found.
LEMMA ConfirmBlockInv ==
    ASSUME ChainInv, NEW b \in Seen, ConfirmBlock(b)
    PROVE  ChainInv' /\ (chainState' = chainState \/ Improves(chainState, chainState', headers', b))
<1>1. b \in Blocks
  BY ChainAssumption
<1>2. TypeOK /\ BodiesHaveHeaders /\ GoodChain(chainState, headers)
  BY InvAsGoodChain
<1>3. UNCHANGED <<headers, statusHeads, bodies, difficulties, named>>
  BY DEF ConfirmBlock
<1>4. metadata' \in [Blocks -> Metadata \cup {None}]
  <2>1. metadata[b] \in Metadata
    BY <1>1, <1>2 DEF ConfirmBlock, TypeOK
  <2>2. [metadata[b] EXCEPT !.confirmed = TRUE] \in Metadata
    BY <2>1 DEF Metadata
  <2> QED
    BY <2>2, <1>1, <1>2 DEF ConfirmBlock, TypeOK
<1>5. GoodChain(chainState', headers)
      /\ (chainState' = chainState \/ Improves(chainState, chainState', headers, b))
  <2>1. CASE metadata[b].height = Height(b) /\ b \in headers
    <3>1. chainState' = updateChainState(chainState, headers, b).chain
      BY <2>1 DEF ConfirmBlock
    <3> QED
      BY <3>1, <2>1, <1>2, UpdateGood DEF Improves, TypeOK
  <2>2. CASE ~(metadata[b].height = Height(b) /\ b \in headers)
    BY <2>2, <1>2 DEF ConfirmBlock
  <2> QED
    BY <2>1, <2>2
<1>6. TypeOK' /\ BodiesHaveHeaders'
  BY <1>2, <1>3, <1>4, <1>5 DEF TypeOK, BodiesHaveHeaders, GoodChain
<1> QED
  BY <1>3, <1>5, <1>6 DEF ChainInv, TypeOK, HeadersStored, ChainLinked, EntriesNearHead, GoodChain

\* The operations that leave chainState, the headers and the bodies alone.
LEMMA MarkInv ==
    ASSUME ChainInv,
           \/ \E i \in 1..Len(chainState) : MarkSentToBDN(chainState[i])
           \/ \E b \in PeerHeads : InitializeDifficulty(b)
           \/ \E b \in Seen : SetTotalDifficulty(b)
    PROVE  ChainInv' /\ chainState' = chainState
<1>1. TypeOK /\ BodiesHaveHeaders /\ GoodChain(chainState, headers)
  BY InvAsGoodChain
<1>2. \A i \in 1..Len(chainState) : chainState[i] \in Blocks
  BY <1>1 DEF TypeOK
<1>3. PeerHeads \subseteq Blocks /\ Seen \subseteq Blocks
  BY ChainAssumption
<1>4. chainState' = chainState /\ headers' = headers /\ bodies' = bodies
  BY DEF MarkSentToBDN, InitializeDifficulty, SetTotalDifficulty
<1>5. TypeOK'
  <2>1. ASSUME NEW b \in Blocks, MarkSentToBDN(b) PROVE TypeOK'
    <3>1. [metadata[b] EXCEPT !.sentToBDN = TRUE] \in Metadata
      BY <2>1, <1>1 DEF MarkSentToBDN, TypeOK, Metadata
    <3> QED
      BY <3>1, <2>1, <1>1 DEF MarkSentToBDN, TypeOK
  <2>3. ASSUME NEW b \in Blocks, InitializeDifficulty(b) PROVE TypeOK'
    <3>1. metadata' \in [Blocks -> Metadata \cup {None}]
      BY <2>3, <1>1, StoreMetadataType DEF InitializeDifficulty, TypeOK
    <3> QED
      BY <3>1, <2>3, <1>1 DEF InitializeDifficulty, TypeOK
  <2>4. ASSUME NEW b \in Blocks, SetTotalDifficulty(b) PROVE TypeOK'
    BY <2>4, <1>1 DEF SetTotalDifficulty, TypeOK
  <2> QED
    BY <2>1, <2>3, <2>4, <1>2, <1>3
<1> QED
  BY <1>1, <1>4, <1>5 DEF ChainInv, TypeOK, BodiesHaveHeaders, HeadersStored, ChainLinked,
                          EntriesNearHead, GoodChain

\* clean: the entries that survive the truncation are high enough to keep their
\* headers, and the bodies that go are those of the headers that go.
LEMMA CleanInv ==
    ASSUME ChainInv, clean
    PROVE  ChainInv' /\ chainState # <<>> /\ chainState' # <<>> /\ chainState'[1] = chainState[1]
<1> DEFINE c == chainState
           k == Smaller(Len(c), MaxSize)
<1>1. TypeOK /\ BodiesHaveHeaders /\ GoodChain(c, headers) /\ c # <<>>
  BY InvAsGoodChain DEF clean
<1>2. /\ c \in Seq(Blocks) /\ Len(c) \in Nat \ {0} /\ MaxSize \in Nat \ {0}
      /\ \A i \in 1..Len(c) : c[i] \in Blocks /\ Height(c[i]) \in Nat
  BY <1>1, ChainAssumption, BlocksAssumption DEF TypeOK, Height
<1>3. k \in 1..Len(c) /\ k <= MaxSize
  BY <1>2 DEF Smaller
<1>4. chainState' = SubSeq(c, 1, k)
  BY DEF clean, Truncate
<1> HIDE DEF c, k
<1>5. chainState' \in Seq(Blocks) /\ Len(chainState') = k
  BY <1>2, <1>3, <1>4
<1>6. \A i \in 1..k : chainState'[i] = c[i]
  BY <1>2, <1>3, <1>4
<1>7. \A i \in 1..k : chainState'[i] \in headers'
  <2> SUFFICES ASSUME NEW i \in 1..k PROVE c[i] \in headers'
    BY <1>6
  <2>1. i \in 1..Len(c) /\ i - 1 <= MaxSize - 1
    BY <1>2, <1>3
  <2>2. c[i] \in headers /\ Height(c[i]) >= Height(c[1]) - (i - 1)
    BY <2>1, <1>1 DEF GoodChain, NearHead
  <2>3. Height(c[i]) >= Height(c[1]) - MaxSize + 1
    BY <2>1, <2>2, <1>2
  <2> QED
    BY <2>2, <2>3 DEF clean, minHeight, c
<1>8. Linked(chainState')
  <2> SUFFICES ASSUME NEW i \in 1..(k - 1)
               PROVE  \/ chainState'[i + 1] = chainState'[i]
                      \/ IsAncestor(chainState'[i], 1, chainState'[i + 1])
    BY <1>5 DEF Linked
  <2>1. i \in 1..k /\ i + 1 \in 1..k /\ i \in 1..(Len(c) - 1)
    BY <1>2, <1>3
  <2>2. c[i + 1] = c[i] \/ IsAncestor(c[i], 1, c[i + 1])
    BY <2>1, <1>1 DEF GoodChain, Linked
  <2> QED
    BY <2>1, <2>2, <1>6
<1>9. NearHead(chainState')
  <2> SUFFICES ASSUME NEW i \in 1..k
               PROVE  Height(chainState'[i]) >= Height(chainState'[1]) - (i - 1)
    BY <1>5 DEF NearHead
  <2>1. i \in 1..Len(c) /\ 1 \in 1..k
    BY <1>2, <1>3
  <2>2. Height(c[i]) >= Height(c[1]) - (i - 1)
    BY <2>1, <1>1 DEF GoodChain, NearHead
  <2> QED
    BY <2>1, <2>2, <1>6
<1>10. headers' \subseteq Blocks /\ statusHeads' \subseteq Blocks /\ named' \subseteq Blocks
       /\ bodies' \subseteq Blocks
       /\ difficulties' \subseteq Blocks /\ metadata' \in [Blocks -> Metadata \cup {None}]
  BY <1>1 DEF clean, pruneHash, TypeOK
<1>11. bodies' \subseteq headers'
  <2> SUFFICES ASSUME NEW b \in bodies, b \notin Evicted PROVE b \in headers'
    BY DEF clean, pruneHash
  <2>1. b \in headers /\ b \in Blocks
    BY <1>1 DEF BodiesHaveHeaders, TypeOK
  <2>2. ~(Height(b) < minHeight)
    BY <2>1 DEF Evicted
  <2>3. Height(b) \in Int /\ minHeight \in Int
    BY <2>1, <1>2, BlocksAssumption DEF Height, minHeight, c
  <2> QED
    BY <2>1, <2>2, <2>3 DEF clean
<1>12. ChainInv'
  BY <1>5, <1>7, <1>8, <1>9, <1>10, <1>11
     DEF ChainInv, TypeOK, BodiesHaveHeaders, HeadersStored, ChainLinked, EntriesNearHead
<1> QED
  BY <1>1, <1>2, <1>3, <1>5, <1>6, <1>12 DEF c

\* Every operation preserves the invariant, and none lowers the head.
LEMMA StepInv ==
    ASSUME ChainInv, [Next]_vars
    PROVE  /\ ChainInv'
           /\ BestHeight' >= BestHeight
           /\ chainState # <<>> => chainState' # <<>>
<1>1. TypeOK
  BY DEF ChainInv
<1>2. \A c \in Seq(Blocks) : c # <<>> => Height(c[1]) \in Nat
  <2> SUFFICES ASSUME NEW c \in Seq(Blocks), c # <<>> PROVE Height(c[1]) \in Nat
    OBVIOUS
  <2>1. c[1] \in Blocks
    OBVIOUS
  <2> QED
    BY <2>1, BlocksAssumption DEF Height
<1>3. ASSUME ChainInv', chainState' = chainState
      PROVE  BestHeight' >= BestHeight /\ (chainState # <<>> => chainState' # <<>>)
  BY <1>1, <1>2, <1>3 DEF BestHeight, TypeOK
<1>4. ASSUME ChainInv', NEW b, Improves(chainState, chainState', headers', b)
      PROVE  BestHeight' >= BestHeight /\ (chainState # <<>> => chainState' # <<>>)
  <2>1. chainState' \in Seq(Blocks) /\ chainState' # <<>>
    BY <1>4 DEF Improves, GoodChain
  <2>2. Height(chainState'[1]) \in Nat
    BY <2>1, <1>2
  <2>3. chainState # <<>> => Height(chainState'[1]) >= Height(chainState[1])
    BY <1>4 DEF Improves
  <2> QED
    BY <2>1, <2>2, <2>3 DEF BestHeight
<1>5. CASE \E b \in Seen, source \in Sources : AddBlock(b, source)
  BY <1>3, <1>4, <1>5, AddBlockInv
<1>6. CASE \E b \in Seen : ConfirmBlock(b)
  BY <1>3, <1>4, <1>6, ConfirmBlockInv
<1>7. CASE \/ \E i \in 1..Len(chainState) : MarkSentToBDN(chainState[i])
           \/ \E b \in PeerHeads : InitializeDifficulty(b)
           \/ \E b \in Seen : SetTotalDifficulty(b)
  BY <1>3, <1>7, MarkInv
<1>8. CASE clean
  <2>1. ChainInv' /\ chainState # <<>> /\ chainState' # <<>> /\ chainState'[1] = chainState[1]
    BY <1>8, CleanInv
  <2>2. Height(chainState[1]) \in Nat
    BY <2>1, <1>1, <1>2 DEF TypeOK
  <2> QED
    BY <2>1, <2>2 DEF BestHeight
<1>9. CASE UNCHANGED vars
  <2>1. ChainInv'
    BY <1>9 DEF vars, ChainInv, TypeOK, BodiesHaveHeaders, HeadersStored, ChainLinked,
                EntriesNearHead
  <2> QED
    BY <2>1, <1>3, <1>9 DEF vars
<1> QED
  BY <1>5, <1>6, <1>7, <1>8, <1>9 DEF Next

\* ChainInv holds in every reachable state: the store and the chain state stay
\* consistent under every sequence of AddBlock, ConfirmBlock, marks and cleanups.
THEOREM ChainInvariant == Spec => []ChainInv
<1>1. ChainInv /\ [Next]_vars => ChainInv'
  BY StepInv
<1> QED
  BY InitInv, <1>1, PTL DEF Spec

\* Type correctness of the store.
THEOREM ChainTypeOK == Spec => []TypeOK
<1>1. ChainInv => TypeOK
  BY DEF ChainInv
<1> QED
  BY ChainInvariant, <1>1, PTL

\* updateChainState never splices two forks or leaves a gap.
THEOREM ChainStaysLinked == Spec => []ChainLinked
<1>1. ChainInv => ChainLinked
  BY DEF ChainInv
<1> QED
  BY ChainInvariant, <1>1, PTL

\* clean never removes the header of a canonical entry.
THEOREM CleanKeepsHeaders == Spec => []HeadersStored
<1>1. ChainInv => HeadersStored
  BY DEF ChainInv
<1> QED
  BY ChainInvariant, <1>1, PTL

\* The head of the canonical chain never falls back.
THEOREM HeadNeverFalls == Spec => BestHeightMonotonic
<1>1. ChainInv /\ [Next]_vars => [HeadDoesNotFall]_vars
  BY StepInv DEF HeadDoesNotFall
<1> QED
  BY ChainInvariant, <1>1, PTL DEF Spec, BestHeightMonotonic

\* Every operation that creates metadata files its hash under a height, and clean
\* drops the metadata of every hash it drops from a height, whichever of the two
\* lists it is in.
LEMMA ReachableStep ==
    ASSUME ChainInv,
           NEW x \in Blocks, metadata'[x] # None,
           metadata[x] # None => x \in headers \cup statusHeads,
           \/ \E b \in Seen, source \in Sources : AddBlock(b, source)
           \/ \E b \in Blocks : ConfirmBlock(b) \/ MarkSentToBDN(b)
           \/ \E b \in PeerHeads : InitializeDifficulty(b)
           \/ \E b \in Seen : SetTotalDifficulty(b)
           \/ clean
           \/ UNCHANGED vars
    PROVE  x \in headers' \cup statusHeads'
<1>1. TypeOK /\ BodiesHaveHeaders
  BY DEF ChainInv
<1>2. metadata \in [Blocks -> Metadata \cup {None}]
  BY <1>1 DEF TypeOK
<1>3. metadata[x] # None => x \in headers \cup statusHeads
  OBVIOUS
<1>4. ASSUME NEW b \in Seen, NEW source \in Sources, AddBlock(b, source)
      PROVE  x \in headers' \cup statusHeads'
  <2>1. b \in Blocks
    BY ChainAssumption
  <2>2. x = b \/ metadata[x] # None
    <3>1. metadata' = storeBlockMetadata(metadata, b, Height(b), source = "BSBlockchain", FALSE)
      BY <1>4 DEF AddBlock
    <3> QED
      BY <3>1, <2>1, <1>2 DEF storeBlockMetadata
  <2>3. headers \subseteq headers' /\ b \in headers' /\ statusHeads' = statusHeads
    <3>1. CASE HasBlock(b)
      BY <3>1, <1>1, <1>4 DEF AddBlock, HasBlock, BodiesHaveHeaders
    <3>2. CASE ~HasBlock(b)
      BY <3>2, <1>4 DEF AddBlock, storeBlock
    <3> QED
      BY <3>1, <3>2
  <2> QED
    BY <2>2, <2>3, <1>3
<1>5. ASSUME NEW b \in Blocks, ConfirmBlock(b) PROVE x \in headers' \cup statusHeads'
  BY <1>2, <1>3, <1>5 DEF ConfirmBlock
<1>6. ASSUME NEW b \in Blocks, MarkSentToBDN(b) PROVE x \in headers' \cup statusHeads'
  BY <1>2, <1>3, <1>6 DEF MarkSentToBDN
<1>8. ASSUME NEW b \in PeerHeads, InitializeDifficulty(b)
      PROVE  x \in headers' \cup statusHeads'
  <2>1. b \in Blocks
    BY ChainAssumption
  <2>2. x = b \/ metadata[x] # None
    BY <2>1, <1>2, <1>8 DEF InitializeDifficulty, storeBlockMetadata
  <2> QED
    BY <2>2, <1>3, <1>8 DEF InitializeDifficulty
<1>9. ASSUME NEW b \in Seen, SetTotalDifficulty(b) PROVE x \in headers' \cup statusHeads'
  BY <1>3, <1>9 DEF SetTotalDifficulty
<1>10. CASE clean
  <2>1. x \notin Evicted /\ metadata[x] # None
    BY <1>10, <1>2 DEF clean, pruneHash
  <2>2. Height(x) \in Nat /\ minHeight \in Int
    <3>1. chainState \in Seq(Blocks) /\ chainState # <<>>
      BY <1>1, <1>10 DEF TypeOK, clean
    <3>2. chainState[1] \in Blocks
      BY <3>1
    <3>3. Height(x) \in Nat /\ Height(chainState[1]) \in Nat
      BY <3>2, BlocksAssumption DEF Height
    <3> QED
      BY <3>3, ChainAssumption DEF minHeight
  <2>3. CASE x \in headers
    <3>1. Height(x) >= minHeight
      BY <2>1, <2>2, <2>3 DEF Evicted
    <3> QED
      BY <3>1, <2>3, <1>10 DEF clean
  <2>4. CASE x \in statusHeads
    <3>1. 0 >= minHeight
      BY <2>1, <2>2, <2>4 DEF Evicted
    <3> QED
      BY <3>1, <2>4, <1>10 DEF clean
  <2> QED
    BY <2>1, <2>3, <2>4, <1>3
<1>11. CASE UNCHANGED vars
  BY <1>3, <1>11 DEF vars
<1> QED
  BY <1>4, <1>5, <1>6, <1>8, <1>9, <1>10, <1>11

\* "always corresponds to a header stored at c.heightToBlockHeaders": no sequence
\* of operations leaves metadata that clean cannot find, whatever heads the peers
\* name in their Status messages.
THEOREM MetadataStaysReachable == Spec => []MetadataReachable
<1>1. Init => MetadataReachable
  BY DEF Init, MetadataReachable
<1>2. ChainInv /\ MetadataReachable /\ [Next]_vars => MetadataReachable'
  <2> SUFFICES ASSUME ChainInv, MetadataReachable, [Next]_vars,
                      NEW x \in Blocks, metadata'[x] # None
               PROVE  x \in headers' \cup statusHeads'
    BY DEF MetadataReachable
  <2>1. /\ \A i \in 1..Len(chainState) : chainState[i] \in Blocks
        /\ Seen \subseteq Blocks
    BY ChainAssumption DEF ChainInv, TypeOK
  <2>2. metadata[x] # None => x \in headers \cup statusHeads
    BY DEF MetadataReachable
  <2>3. \/ \E b \in Seen, source \in Sources : AddBlock(b, source)
        \/ \E b \in Blocks : ConfirmBlock(b) \/ MarkSentToBDN(b)
        \/ \E b \in PeerHeads : InitializeDifficulty(b)
        \/ \E b \in Seen : SetTotalDifficulty(b)
        \/ clean
        \/ UNCHANGED vars
    BY <2>1 DEF Next
  <2> QED
    BY <2>2, <2>3, ReachableStep
<1> QED
  BY ChainInvariant, <1>1, <1>2, PTL DEF Spec
-----------------------------------------------------------------------------
(* What is stored of the canonical chain.  clean removes a hash that a     *)
(* Status message named together with height 0, whatever its number is, so *)
(* all of this is about the blocks that no Status message has named.           *)

\* Hashes filed under height 0 come from Status messages, headers from deliveries.
Filed == statusHeads \subseteq named /\ headers \subseteq Seen

\* A stored header has its metadata and its body.
EntriesComplete ==
    \A x \in headers : x \notin named => metadata[x] # None /\ x \in bodies

\* The head is a block that a blockchain peer confirmed.
HeadTrusted ==
    chainState # <<>> /\ chainState[1] \notin named => HasConfirmedBlock(chainState[1])

StoredInv == Filed /\ EntriesComplete

EntriesInv == StoredInv /\ HeadTrusted

\* Metadata that a step other than clean finds stays, and so do its flags.
MetadataRises ==
    \A x \in Blocks : metadata[x] # None =>
        /\ metadata'[x] # None
        /\ metadata[x].sentToBDN => metadata'[x].sentToBDN
        /\ metadata[x].confirmed => metadata'[x].confirmed
        /\ metadata[x].confirmedMsgSent => metadata'[x].confirmedMsgSent

\* storeBlockMetadata leaves an entry for its block, and raises its flags.
LEMMA StoreMetadataRises ==
    ASSUME TypeOK, NEW b \in Blocks, NEW h \in Nat, NEW isConfirmed \in BOOLEAN,
           NEW isSent \in BOOLEAN,
           metadata' = storeBlockMetadata(metadata, b, h, isConfirmed, isSent)
    PROVE  /\ MetadataRises /\ metadata'[b] # None
           /\ isConfirmed => metadata'[b].confirmed
           /\ isSent => metadata'[b].confirmedMsgSent
<1> DEFINE v == IF metadata[b] = None
                THEN [height |-> h, sentToBDN |-> FALSE, confirmed |-> isConfirmed,
                      confirmedMsgSent |-> isSent]
                ELSE [metadata[b] EXCEPT !.confirmed = metadata[b].confirmed \/ isConfirmed,
                         !.confirmedMsgSent = metadata[b].confirmedMsgSent \/ isSent]
<1>1. metadata \in [Blocks -> Metadata \cup {None}] /\ None \notin Metadata
  BY ChainAssumption DEF TypeOK
<1>2. metadata' = [metadata EXCEPT ![b] = v]
  BY DEF storeBlockMetadata
<1>3. CASE metadata[b] = None
  <2>1. v \in Metadata /\ v.confirmed = isConfirmed /\ v.confirmedMsgSent = isSent
    BY <1>3 DEF Metadata
  <2> HIDE DEF v
  <2> QED
    BY <2>1, <1>1, <1>2, <1>3 DEF MetadataRises
<1>4. CASE metadata[b] # None
  <2>1. metadata[b] \in Metadata
    BY <1>1, <1>4
  <2>2. /\ metadata[b].confirmed \in BOOLEAN /\ metadata[b].confirmedMsgSent \in BOOLEAN
    BY <2>1 DEF Metadata
  <2>3. v = [metadata[b] EXCEPT !.confirmed = metadata[b].confirmed \/ isConfirmed,
                         !.confirmedMsgSent = metadata[b].confirmedMsgSent \/ isSent]
    BY <1>4
  <2>4. v \in Metadata
    BY <2>1, <2>2, <2>3 DEF Metadata
  <2>5. /\ v.confirmed = (metadata[b].confirmed \/ isConfirmed)
        /\ v.confirmedMsgSent = (metadata[b].confirmedMsgSent \/ isSent)
        /\ v.sentToBDN = metadata[b].sentToBDN
    BY <2>1, <2>3 DEF Metadata
  <2> HIDE DEF v
  <2> QED
    BY <2>2, <2>4, <2>5, <1>1, <1>2 DEF MetadataRises
<1> QED
  BY <1>3, <1>4

\* ConfirmBlock sets one flag of an entry.
LEMMA ConfirmRises ==
    ASSUME TypeOK, NEW b \in Blocks, ConfirmBlock(b)
    PROVE  MetadataRises /\ metadata'[b] # None /\ metadata'[b].confirmed
<1> DEFINE v == [metadata[b] EXCEPT !.confirmed = TRUE]
<1>1. /\ metadata \in [Blocks -> Metadata \cup {None}] /\ metadata[b] \in Metadata
      /\ None \notin Metadata
  BY ChainAssumption DEF TypeOK, ConfirmBlock
<1>2. /\ v \in Metadata /\ v.confirmed /\ metadata' = [metadata EXCEPT ![b] = v]
      /\ v.sentToBDN = metadata[b].sentToBDN
      /\ v.confirmedMsgSent = metadata[b].confirmedMsgSent
  BY <1>1 DEF ConfirmBlock, Metadata
<1> HIDE DEF v
<1> QED
  BY <1>1, <1>2 DEF MetadataRises

\* MarkSentToBDN sets another.
LEMMA MarkRises ==
    ASSUME TypeOK, NEW b \in Blocks, MarkSentToBDN(b)
    PROVE  MetadataRises /\ metadata'[b] # None /\ metadata'[b].sentToBDN
<1> DEFINE v == [metadata[b] EXCEPT !.sentToBDN = TRUE]
<1>1. /\ metadata \in [Blocks -> Metadata \cup {None}] /\ metadata[b] \in Metadata
      /\ None \notin Metadata
  BY ChainAssumption DEF TypeOK, MarkSentToBDN
<1>2. /\ v \in Metadata /\ v.confirmed = metadata[b].confirmed /\ v.sentToBDN
      /\ v.confirmedMsgSent = metadata[b].confirmedMsgSent
      /\ metadata' = [metadata EXCEPT ![b] = v]
  BY <1>1 DEF MarkSentToBDN, Metadata
<1> HIDE DEF v
<1> QED
  BY <1>1, <1>2 DEF MetadataRises

\* AddBlock stores what was missing of the block.
LEMMA AddBlockStored ==
    ASSUME ChainInv, StoredInv, NEW b \in Seen, NEW source \in Sources, AddBlock(b, source)
    PROVE  /\ StoredInv' /\ MetadataRises /\ named' = named
           /\ metadata'[b] # None /\ (source = "BSBlockchain" => metadata'[b].confirmed)
<1>1. b \in Blocks /\ Height(b) \in Nat /\ (source = "BSBlockchain") \in BOOLEAN
  BY ChainAssumption, BlocksAssumption DEF Height
<1>2. TypeOK
  BY DEF ChainInv
<1>3. /\ MetadataRises /\ metadata'[b] # None
      /\ source = "BSBlockchain" => metadata'[b].confirmed
  BY <1>1, <1>2, StoreMetadataRises DEF AddBlock
<1>4. /\ statusHeads' = statusHeads /\ named' = named /\ headers' \subseteq headers \cup {b}
      /\ bodies \subseteq bodies' /\ b \in bodies'
  <2>1. CASE HasBlock(b)
    BY <2>1 DEF AddBlock, HasBlock
  <2>2. CASE ~HasBlock(b)
    BY <2>2 DEF AddBlock, storeBlock
  <2> QED
    BY <2>1, <2>2
<1>5. Filed'
  BY <1>4 DEF StoredInv, Filed
<1>6. EntriesComplete'
  BY <1>2, <1>3, <1>4 DEF StoredInv, EntriesComplete, MetadataRises, TypeOK
<1> QED
  BY <1>3, <1>4, <1>5, <1>6 DEF StoredInv

\* Only a blockchain peer makes a block the head, and that confirms it.
LEMMA AddBlockEntries ==
    ASSUME ChainInv, EntriesInv, NEW b \in Seen, NEW source \in Sources, AddBlock(b, source)
    PROVE  EntriesInv'
<1>2. TypeOK
  BY DEF ChainInv
<1>3. /\ StoredInv' /\ MetadataRises /\ named' = named
      /\ metadata'[b] # None /\ (source = "BSBlockchain" => metadata'[b].confirmed)
  BY AddBlockStored DEF EntriesInv
<1>7. HeadTrusted'
  <2> SUFFICES ASSUME chainState' # <<>>, chainState'[1] \notin named'
               PROVE  HasConfirmedBlock(chainState[1])'
    BY DEF HeadTrusted
  <2>1. ASSUME chainState # <<>>, chainState'[1] = chainState[1]
        PROVE  HasConfirmedBlock(chainState[1])'
    <3>1. chainState[1] \in Blocks /\ HasConfirmedBlock(chainState[1])
      BY <2>1, <1>2, <1>3 DEF EntriesInv, HeadTrusted, TypeOK
    <3> QED
      BY <3>1, <2>1, <1>3 DEF HasConfirmedBlock, MetadataRises
  <2>2. CASE source = "BSBDN"
    BY <2>1, <2>2 DEF AddBlock
  <2>3. CASE source = "BSBlockchain"
    <3>1. \/ chainState' = chainState
          \/ Improves(chainState, chainState', headers', b)
      BY AddBlockInv
    <3>2. CASE chainState'[1] = b
      BY <3>2, <2>3, <1>3 DEF HasConfirmedBlock
    <3> QED
      BY <3>1, <3>2, <2>1 DEF Improves
  <2> QED
    BY <2>2, <2>3 DEF Sources
<1> QED
  BY <1>3, <1>7 DEF EntriesInv

\* A step that only raises flags leaves what is stored of the blocks.
LEMMA RisesStored ==
    ASSUME TypeOK, StoredInv, MetadataRises, UNCHANGED <<headers, bodies>>,
           named \subseteq named', statusHeads' \subseteq statusHeads \cup named'
    PROVE  StoredInv'
<1>1. Filed'
  BY DEF StoredInv, Filed
<1>2. EntriesComplete'
  BY DEF StoredInv, EntriesComplete, MetadataRises, TypeOK
<1> QED
  BY <1>1, <1>2 DEF StoredInv

\* A confirmed block may become the head.
LEMMA ConfirmBlockEntries ==
    ASSUME ChainInv, EntriesInv, NEW b \in Seen, ConfirmBlock(b)
    PROVE  EntriesInv'
<1>1. b \in Blocks /\ TypeOK
  BY ChainAssumption DEF ChainInv
<1>4. MetadataRises /\ metadata'[b] # None /\ metadata'[b].confirmed
  BY <1>1, ConfirmRises
<1>5. UNCHANGED <<headers, statusHeads, bodies, named>>
  BY DEF ConfirmBlock
<1>6. StoredInv'
  BY <1>1, <1>4, <1>5, RisesStored DEF EntriesInv
<1>8. HeadTrusted'
  <2> SUFFICES ASSUME chainState' # <<>>, chainState'[1] \notin named'
               PROVE  HasConfirmedBlock(chainState[1])'
    BY DEF HeadTrusted
  <2>1. ASSUME chainState # <<>>, chainState'[1] = chainState[1]
        PROVE  HasConfirmedBlock(chainState[1])'
    <3>1. chainState[1] \in Blocks /\ HasConfirmedBlock(chainState[1])
      BY <2>1, <1>1, <1>5 DEF EntriesInv, HeadTrusted, TypeOK
    <3> QED
      BY <3>1, <2>1, <1>4 DEF HasConfirmedBlock, MetadataRises
  <2>2. \/ chainState' = chainState
        \/ Improves(chainState, chainState', headers', b)
    BY ConfirmBlockInv
  <2>3. CASE chainState'[1] = b
    BY <2>3, <1>4 DEF HasConfirmedBlock
  <2> QED
    BY <2>1, <2>2, <2>3 DEF Improves
<1> QED
  BY <1>6, <1>8 DEF EntriesInv

\* A step that only raises flags leaves what is known of the chain.
LEMMA RisesEntries ==
    ASSUME TypeOK, EntriesInv, MetadataRises, UNCHANGED <<chainState, headers, bodies>>,
           named \subseteq named', statusHeads' \subseteq statusHeads \cup named'
    PROVE  EntriesInv'
<1>1. StoredInv'
  BY RisesStored DEF EntriesInv
<1>3. HeadTrusted'
  <2> SUFFICES ASSUME chainState # <<>>, chainState[1] \notin named'
               PROVE  HasConfirmedBlock(chainState[1])'
    BY DEF HeadTrusted, HasConfirmedBlock
  <2>1. chainState[1] \in Blocks /\ HasConfirmedBlock(chainState[1])
    BY DEF EntriesInv, HeadTrusted, TypeOK
  <2> QED
    BY <2>1 DEF HasConfirmedBlock, MetadataRises
<1> QED
  BY <1>1, <1>3 DEF EntriesInv

\* Marks and difficulties change neither the chain nor what is stored of it.
LEMMA MarkEntries ==
    ASSUME ChainInv, EntriesInv,
           \/ \E i \in 1..Len(chainState) : MarkSentToBDN(chainState[i])
           \/ \E b \in PeerHeads : InitializeDifficulty(b)
           \/ \E b \in Seen : SetTotalDifficulty(b)
    PROVE  EntriesInv'
<1>1. TypeOK /\ None \notin Metadata /\ metadata \in [Blocks -> Metadata \cup {None}]
  BY ChainAssumption DEF ChainInv, TypeOK
<1>2. \A i \in 1..Len(chainState) : chainState[i] \in Blocks
  BY <1>1 DEF TypeOK
<1>3. MetadataRises
  <2>1. ASSUME NEW b \in Blocks, MarkSentToBDN(b) PROVE MetadataRises
    BY <1>1, <2>1, MarkRises
  <2>3. ASSUME NEW b \in Blocks, InitializeDifficulty(b) PROVE MetadataRises
    BY <2>3, <1>1, StoreMetadataRises DEF InitializeDifficulty
  <2>4. ASSUME NEW b \in Blocks, SetTotalDifficulty(b) PROVE MetadataRises
    BY <2>4 DEF SetTotalDifficulty, MetadataRises
  <2>5. PeerHeads \subseteq Blocks /\ Seen \subseteq Blocks
    BY ChainAssumption
  <2> QED
    BY <2>1, <2>3, <2>4, <2>5, <1>2
<1>4. /\ UNCHANGED <<chainState, headers, bodies>>
      /\ named \subseteq named' /\ statusHeads' \subseteq statusHeads \cup named'
  BY DEF MarkSentToBDN, InitializeDifficulty, SetTotalDifficulty
<1> QED
  BY <1>1, <1>3, <1>4, RisesEntries

\* clean keeps metadata and body of the headers it keeps.
LEMMA CleanStored ==
    ASSUME ChainInv, StoredInv, clean
    PROVE  StoredInv' /\ \A x \in headers' : x \notin named => metadata'[x] = metadata[x]
<1>1. /\ TypeOK /\ ChainInv' /\ chainState # <<>> /\ chainState' # <<>>
      /\ chainState'[1] = chainState[1]
  BY CleanInv DEF ChainInv
<1>2. headers' \subseteq headers /\ statusHeads' \subseteq statusHeads /\ named' = named
  BY DEF clean
<1>3. ASSUME NEW x \in headers', x \notin named
      PROVE  metadata'[x] = metadata[x] /\ (x \in bodies => x \in bodies')
  <2>1. x \in headers /\ Height(x) >= minHeight /\ x \in Blocks
    BY <1>1 DEF clean, TypeOK
  <2>2. chainState[1] \in Blocks
    BY <1>1 DEF TypeOK
  <2>3. Height(x) \in Int /\ minHeight \in Int
    BY <2>1, <2>2, BlocksAssumption, ChainAssumption DEF Height, minHeight
  <2>4. x \notin Evicted
    BY <1>3, <2>1, <2>3 DEF Evicted, StoredInv, Filed
  <2> QED
    BY <2>1, <2>4 DEF clean, pruneHash
<1>4. Filed'
  BY <1>2 DEF StoredInv, Filed
<1>5. EntriesComplete'
  BY <1>2, <1>3 DEF StoredInv, EntriesComplete
<1> QED
  BY <1>3, <1>4, <1>5 DEF StoredInv

\* It never drops the head.
LEMMA CleanEntries ==
    ASSUME ChainInv, EntriesInv, clean
    PROVE  EntriesInv'
<1>1. /\ TypeOK /\ ChainInv' /\ chainState # <<>> /\ chainState' # <<>>
      /\ chainState'[1] = chainState[1]
  BY CleanInv DEF ChainInv
<1>2. named' = named
  BY DEF clean
<1>3. StoredInv' /\ \A x \in headers' : x \notin named => metadata'[x] = metadata[x]
  BY CleanStored DEF EntriesInv
<1>6. HeadTrusted'
  <2> SUFFICES ASSUME chainState'[1] \notin named
               PROVE  HasConfirmedBlock(chainState[1])'
    BY <1>2 DEF HeadTrusted
  <2>1. chainState'[1] \in headers'
    BY <1>1 DEF ChainInv, TypeOK, HeadersStored
  <2>2. HasConfirmedBlock(chainState[1])
    BY <1>1 DEF EntriesInv, HeadTrusted
  <2> QED
    BY <2>1, <2>2, <1>1, <1>3 DEF HasConfirmedBlock
<1> QED
  BY <1>3, <1>6 DEF EntriesInv

\* Headers of blocks that no Status message has named are stored with metadata and body, and
\* such a head was confirmed by a blockchain peer, in every reachable state.
LEMMA EntriesInvariant == Spec => []EntriesInv
<1>1. Init => EntriesInv
  BY DEF Init, EntriesInv, StoredInv, Filed, EntriesComplete, HeadTrusted
<1>2. ChainInv /\ EntriesInv /\ [Next]_vars => EntriesInv'
  <2> SUFFICES ASSUME ChainInv, EntriesInv, [Next]_vars PROVE EntriesInv'
    OBVIOUS
  <2>1. CASE UNCHANGED vars
    BY <2>1 DEF vars, EntriesInv, StoredInv, Filed, EntriesComplete, HeadTrusted, HasConfirmedBlock
  <2> QED
    BY <2>1, AddBlockEntries, ConfirmBlockEntries, MarkEntries, CleanEntries DEF Next
<1> QED
  BY ChainInvariant, <1>1, <1>2, PTL DEF Spec

\* What is stored of a canonical entry that no Status message has named.
LEMMA CanonicalEntries ==
    ASSUME ChainInv, StoredInv, NEW i \in 1..Len(chainState), chainState[i] \notin named
    PROVE  Stored(chainState[i])
<1>1. chainState[i] \in headers
  BY DEF ChainInv, HeadersStored
<1> QED
  BY <1>1 DEF StoredInv, EntriesComplete, Stored

\* "!ok blocks should never be triggered, as any state cleanup should also cleanup the
\* chain state" (GetNewHeadsForBDN): metadata, header and body of every canonical entry
\* that no Status message has named are stored, whatever other blocks Status messages name.
THEOREM CanonicalBlocksStored == Spec => []CanonicalStored
<1>1. ChainInv /\ EntriesInv => CanonicalStored
  BY CanonicalEntries DEF CanonicalStored, EntriesInv
<1> QED
  BY ChainInvariant, EntriesInvariant, <1>1, PTL

\* No block becomes the head on the word of the BDN alone: AddBlock and ConfirmBlock
\* confirm what they make the head, and clean forgets it only of a block that a Status
\* message named.
THEOREM HeadStaysConfirmed == Spec => []HeadConfirmed
<1>1. EntriesInv => HeadConfirmed
  BY DEF EntriesInv, HeadTrusted, HeadConfirmed
<1> QED
  BY EntriesInvariant, <1>1, PTL

\* A height that getHeaderAtHeight finds is the height of the entry it finds.
LEMMA FoundFacts ==
    ASSUME ChainInv, NEW h \in Nat, getHeaderAtHeight(h) = "found"
    PROVE  /\ chainState # <<>> /\ BestHeight \in Nat /\ h <= BestHeight
           /\ BestHeight - h + 1 \in 1..Len(chainState)
           /\ HeaderAtHeight(h) \in Blocks /\ Height(HeaderAtHeight(h)) = h
           /\ HeaderAtHeight(h) \in headers
<1>1. chainState # <<>>
  BY DEF getHeaderAtHeight
<1>2. chainState \in Seq(Blocks) /\ Len(chainState) \in Nat /\ chainState[1] \in Blocks
  BY <1>1 DEF ChainInv, TypeOK
<1>3. BestHeight \in Nat
  BY <1>1, <1>2, BlocksAssumption DEF BestHeight, Height
<1>4. /\ BestHeight - h < Len(chainState) /\ BestHeight - h >= 0
      /\ Height(chainState[BestHeight - h + 1]) = h
      /\ chainState[BestHeight - h + 1] \in headers
  BY <1>1, <1>3 DEF getHeaderAtHeight
<1>5. BestHeight - h + 1 \in 1..Len(chainState)
  BY <1>2, <1>3, <1>4
<1> QED
  BY <1>1, <1>2, <1>3, <1>4, <1>5 DEF HeaderAtHeight

\* Headers of consecutive heights are parent and child: the entries they are found at are
\* neighbours in chainState, and not the same block twice.
LEMMA NeighboursLinked ==
    ASSUME ChainInv, NEW h \in Nat,
           getHeaderAtHeight(h) = "found", getHeaderAtHeight(h + 1) = "found"
    PROVE  IsAncestor(HeaderAtHeight(h + 1), 1, HeaderAtHeight(h))
<1> DEFINE g == h + 1
           j == BestHeight - g + 1
<1>0. BestHeight \in Nat
  <2>1. chainState # <<>> => chainState[1] \in Blocks
    BY DEF ChainInv, TypeOK
  <2> QED
    BY <2>1, BlocksAssumption DEF BestHeight, Height
<1>1. g \in Nat /\ getHeaderAtHeight(g) = "found"
  OBVIOUS
<1>2. /\ BestHeight - h + 1 \in 1..Len(chainState) /\ Height(HeaderAtHeight(h)) = h
  BY <1>1, FoundFacts
<1> HIDE DEF g
<1>3. j \in 1..Len(chainState) /\ Height(HeaderAtHeight(g)) = g
  BY <1>1, FoundFacts
<1>4. BestHeight - h + 1 = j + 1
  BY <1>0 DEF g
<1>5. HeaderAtHeight(h) = chainState[j + 1] /\ HeaderAtHeight(g) = chainState[j]
  BY <1>4 DEF HeaderAtHeight
<1> HIDE DEF j
<1>6. j \in 1..(Len(chainState) - 1)
  <2>1. Len(chainState) \in Nat
    BY DEF ChainInv, TypeOK
  <2> QED
    BY <1>2, <1>3, <1>4, <2>1
<1>7. chainState[j + 1] = chainState[j] \/ IsAncestor(chainState[j], 1, chainState[j + 1])
  BY <1>6 DEF ChainInv, ChainLinked, Linked
<1>8. chainState[j + 1] # chainState[j]
  BY <1>2, <1>3, <1>5 DEF g
<1> QED
  BY <1>5, <1>7, <1>8 DEF g

\* An answer to a peer is a run of parents and children whose bodies are all there, unless
\* a Status message named one: the entry that getHeaderAtHeight computes from the head's
\* height is the right one or none, in spite of the duplicates in chainState.  Only a first
\* header asked for by the hash of a block off the canonical chain stands apart.
THEOREM AnswersLinked == Spec => []HeadersAnswerLinked
<1>1. ChainInv /\ EntriesInv => HeadersAnswerLinked
  <2> DEFINE starts == {ByNumber(n) : n \in 1..BestHeight} \cup {ByHash(b) : b \in Blocks}
  <2> SUFFICES ASSUME ChainInv, EntriesInv,
                      NEW start \in starts, NEW checkpointPassed \in BOOLEAN
               PROVE  LET answer == answerGetBlockHeaders(checkpointPassed, start, 3, 1)
                      IN  /\ \A i \in 1..(Len(answer) - 1) :
                                i > 1 \/ CanonicalStart(start)
                                  => IsAncestor(answer[i + 1], 1, answer[i])
                          /\ (\A i \in 1..Len(answer) : answer[i] \notin named)
                                => answerGetBlockBodies(answer) = answer
    BY DEF HeadersAnswerLinked
  <2> DEFINE origin == IF start.number > 0 THEN start.number ELSE Height(start.hash)
             height(i) == (i - 1) * 1 + origin
             byHash(i) == i = 1 /\ start.number = 0
             answered == {1} \cup {i \in 2..3 :
                             \A j \in 2..i : getHeaderAtHeight(height(j)) # "future"}
             answer == answerGetBlockHeaders(checkpointPassed, start, 3, 1)
  <2>0. BestHeight \in Nat
    <3>1. chainState # <<>> => chainState[1] \in Blocks
      BY DEF ChainInv, TypeOK
    <3> QED
      BY <3>1, BlocksAssumption DEF BestHeight, Height
  <2>1. /\ start.number \in Nat /\ origin \in Nat
        /\ start.number = 0 => start.hash \in Blocks
    <3>1. CASE \E n \in 1..BestHeight : start = ByNumber(n)
      BY <3>1, <2>0 DEF ByNumber
    <3>2. CASE \E b \in Blocks : start = ByHash(b)
      BY <3>2, BlocksAssumption DEF ByHash, Height
    <3> QED
      BY <3>1, <3>2
  <2> HIDE DEF starts
  <2>2. CASE answer = <<>>
    BY <2>2 DEF answerGetBlockBodies, GetBodies
  <2>3. CASE answer # <<>>
    <3>1. /\ answer = [i \in answered |->
                          IF byHash(i) THEN start.hash ELSE HeaderAtHeight(height(i))]
          /\ \A i \in answered : IF byHash(i) THEN HeaderByMetadata(start.hash)
                                 ELSE getHeaderAtHeight(height(i)) = "found"
      BY <2>3 DEF answerGetBlockHeaders, GetHeaders
    <3>2. \A i \in 1..3 : height(i) = origin + i - 1
      BY <2>1
    <3>3. PICK n \in 1..3 : answered = 1..n
      <4> HIDE DEF height
      <4>1. CASE getHeaderAtHeight(height(2)) = "future"
        <5>1. answered = 1..1
          BY <4>1
        <5> QED
          BY <5>1
      <4>2. CASE /\ getHeaderAtHeight(height(2)) # "future"
                 /\ getHeaderAtHeight(height(3)) = "future"
        <5>1. answered = 1..2
          BY <4>2
        <5> QED
          BY <5>1
      <4>3. CASE /\ getHeaderAtHeight(height(2)) # "future"
                 /\ getHeaderAtHeight(height(3)) # "future"
        <5>1. \A i \in 2..3 : \A j \in 2..i : j = 2 \/ j = 3
          OBVIOUS
        <5>2. answered = 1..3
          BY <4>3, <5>1
        <5> QED
          BY <5>2
      <4> QED
        BY <4>1, <4>2, <4>3
    <3>4. ASSUME NEW i \in 1..n, i > 1 \/ CanonicalStart(start)
          PROVE  /\ getHeaderAtHeight(origin + i - 1) = "found"
                 /\ answer[i] = HeaderAtHeight(origin + i - 1)
      <4>1. i \in 1..3 /\ i \in answered /\ height(i) = origin + i - 1
        BY <3>2, <3>3
      <4>2. CASE ~byHash(i)
        <5>1. getHeaderAtHeight(height(i)) = "found" /\ answer[i] = HeaderAtHeight(height(i))
          BY <4>1, <4>2, <3>1
        <5> QED
          BY <4>1, <5>1
      <4>3. CASE byHash(i)
        <5>1. i = 1 /\ start.number = 0 /\ answer[i] = start.hash
          BY <4>1, <4>3, <3>1
        <5>2. /\ getHeaderAtHeight(Height(start.hash)) = "found"
              /\ HeaderAtHeight(Height(start.hash)) = start.hash
          BY <5>1, <3>4 DEF CanonicalStart
        <5>3. origin + i - 1 = Height(start.hash)
          BY <5>1, <2>1
        <5> QED
          BY <5>1, <5>2, <5>3
      <4> QED
        BY <4>2, <4>3
    <3>5. ASSUME NEW i \in 1..n PROVE answer[i] \in headers /\ answer[i] \in Blocks
      <4>0. headers \subseteq Blocks
        BY DEF ChainInv, TypeOK
      <4>1. CASE byHash(i)
        <5>1. i \in answered
          BY <3>3
        <5>2. answer[i] = start.hash /\ HeaderByMetadata(start.hash)
          BY <5>1, <4>1, <3>1
        <5> QED
          BY <5>2, <4>0 DEF HeaderByMetadata
      <4>2. CASE ~byHash(i)
        <5> DEFINE h == origin + i - 1
        <5>1. i > 1 \/ CanonicalStart(start)
          BY <4>2, <2>1 DEF CanonicalStart
        <5>2. h \in Nat /\ getHeaderAtHeight(h) = "found" /\ answer[i] = HeaderAtHeight(h)
          <6>1. getHeaderAtHeight(h) = "found" /\ answer[i] = HeaderAtHeight(h)
            BY <5>1, <3>4
          <6> HIDE DEF answer, origin
          <6> QED
            BY <6>1, <2>1
        <5> HIDE DEF h, answer
        <5> QED
          BY <5>2, FoundFacts
      <4> QED
        BY <4>1, <4>2
    <3>6. answer = [i \in 1..n |-> answer[i]]
      BY <3>1, <3>3
    <3> HIDE DEF answer, height, answered, byHash, origin
    <3>7. answer \in Seq(Blocks) /\ Len(answer) = n
      BY <3>3, <3>5, <3>6
    <3>8. ASSUME NEW i \in 1..(Len(answer) - 1), i > 1 \/ CanonicalStart(start)
          PROVE  IsAncestor(answer[i + 1], 1, answer[i])
      <4> DEFINE h == origin + i - 1
                 k == i + 1
      <4>1. i \in 1..n /\ k \in 1..n /\ k > 1 /\ origin + k - 1 = h + 1 /\ h \in Nat
        BY <2>1, <3>3, <3>7
      <4>2. getHeaderAtHeight(h) = "found" /\ answer[i] = HeaderAtHeight(h)
        BY <4>1, <3>4, <3>8
      <4> HIDE DEF h, k
      <4>3. getHeaderAtHeight(h + 1) = "found" /\ answer[k] = HeaderAtHeight(h + 1)
        BY <4>1, <3>4
      <4> QED
        BY <4>1, <4>2, <4>3, NeighboursLinked DEF k
    <3>9. (\A i \in 1..Len(answer) : answer[i] \notin named)
             => \A i \in 1..Len(answer) : answer[i] \in bodies
      BY <3>5, <3>7 DEF EntriesInv, StoredInv, EntriesComplete
    <3>10. (\A i \in 1..Len(answer) : answer[i] \notin named)
              => answerGetBlockBodies(answer) = answer
      BY <3>9 DEF answerGetBlockBodies, GetBodies
    <3> QED
      BY <3>8, <3>10 DEF answer
  <2> QED
    BY <2>2, <2>3
<1> QED
  BY ChainInvariant, EntriesInvariant, <1>1, PTL

-----------------------------------------------------------------------------
(* BlockRelay: what the handlers have in hand.                             *)

\* What a handler has in hand at each of its steps.
HandlerFits(h) ==
    /\ pc[h] \in {"validate", "add", "confirm"} => block[h] \in Seen
    /\ pc[h] = "broadcast" => block[h] \in Blocks
    /\ pc[h] = "mark" => newHeads[h].blocks # <<>>
    /\ pc[h] \in {"store", "reread", "merge"} => confirming[h].block \in Blocks

\* What was broadcast to the relays is in the history of the block processor.
RelayedProcessed == \A b \in Blocks : relayed[b] > 0 => b \in processed

HandlersFit == \A h \in Handlers : HandlerFits(h)

\* The inductive invariant.
HandlersInv == ChainInv /\ RelayInv /\ RelayedProcessed /\ HandlersFit

Heads == [count : Nat, blocks : Seq(Blocks)]
Confirms == [block : Blocks \cup {None}, entry : Metadata]

-----------------------------------------------------------------------------
(* What a handler reads from the chain.                                    *)

\* updateChainState counts new heads.
LEMMA AddedIsCount ==
    ASSUME NEW c \in Seq(Blocks), NEW hs, NEW b \in Blocks
    PROVE  updateChainState(c, hs, b).added \in Nat
<1>1. MaxReorg \in Nat /\ MinValidChain \in Nat
  BY ChainAssumption
<1>2. CASE c = <<>>
  BY <1>2 DEF updateChainState, Updated
<1>3. CASE c # <<>>
  <2> DEFINE gap == Gap(c, b)
             fork == ForkIndex(c, b)
  <2>1. gap \in Int /\ fork \in Nat
    BY <1>3, GapFacts, ForkIndexFacts
  <2> HIDE DEF gap, fork
  <2>2. ASSUME gap > 0 PROVE reorganize(c, hs, b).added \in Nat
    <3>1. gap + MaxReorg \in Nat /\ gap + fork \in Nat
      BY <1>1, <2>1, <2>2
    <3> QED
      BY <3>1 DEF reorganize, Updated, gap, fork
  <2>3. CASE gap <= 0
    BY <1>3, <2>3 DEF updateChainState, Updated, gap
  <2>4. CASE gap > 0
    <3>1. gap \in Nat
      BY <2>1, <2>4
    <3> QED
      BY <1>1, <1>3, <2>2, <2>4, <3>1 DEF updateChainState, Updated, gap
  <2> QED
    BY <2>1, <2>3, <2>4
<1> QED
  BY <1>2, <1>3

\* GetNewHeadsForBDN collects a beginning of the chain state, which starts with the head
\* unless that was sent or is not stored.
LEMMA NewHeadsArePrefix ==
    ASSUME TypeOK, NEW count \in Nat
    PROVE  \E n \in 0..Smaller(count, Len(chainState)) :
               /\ GetNewHeadsForBDN(count) = SubSeq(chainState, 1, n)
               /\ \A i \in 1..n : /\ metadata[chainState[i]] # None
                                  /\ ~metadata[chainState[i]].sentToBDN
               /\ n = 0 => \/ Smaller(count, Len(chainState)) = 0
                          \/ metadata[chainState[1]] = None
                          \/ metadata[chainState[1]].sentToBDN
                          \/ chainState[1] \notin headers \/ chainState[1] \notin bodies
<1> DEFINE fresh(b) == /\ metadata[b] # None /\ ~metadata[b].sentToBDN
                       /\ b \in headers /\ b \in bodies
           limit == Smaller(count, Len(chainState))
           Ends(n) == n = limit \/ ~fresh(chainState[n + 1])
           T == {n \in 0..limit : Ends(n)}
           Run(n) == (\A i \in 1..n : fresh(chainState[i])) /\ Ends(n)
           length == CHOOSE n \in 0..limit : Run(n)
<1>1. limit \in Nat
  BY DEF TypeOK, Smaller
<1>2. limit \in T /\ T \in SUBSET Nat
  BY <1>1
<1>3. PICK x \in T : \A y \in T : x <= y
  BY <1>2, LeastNat
<1>4. \A i \in 1..x : fresh(chainState[i])
  <2> SUFFICES ASSUME NEW i \in 1..x, ~fresh(chainState[i]) PROVE FALSE
    OBVIOUS
  <2>1. x \in 0..limit /\ i - 1 \in 0..limit /\ (i - 1) + 1 = i
    BY <1>1, <1>3
  <2>2. i - 1 \in T
    BY <2>1
  <2>3. x <= i - 1
    BY <1>3, <2>2
  <2> QED
    BY <2>1, <2>3
<1>5. x \in 0..limit /\ Run(x)
  BY <1>3, <1>4
<1>6. length \in 0..limit /\ Run(length)
  <2> HIDE DEF Run, limit
  <2> QED
    BY <1>5
<1>7. GetNewHeadsForBDN(count) = SubSeq(chainState, 1, length)
  BY DEF GetNewHeadsForBDN
<1>8. \A i \in 1..length : /\ metadata[chainState[i]] # None
                           /\ ~metadata[chainState[i]].sentToBDN
  BY <1>6
<1>9. length = 0 => limit = 0 \/ ~fresh(chainState[1])
  <2>1. length = limit \/ ~fresh(chainState[length + 1])
    BY <1>6
  <2> HIDE DEF length, limit, fresh
  <2>2. length = 0 => length + 1 = 1
    OBVIOUS
  <2> QED
    BY <2>1, <2>2
<1> HIDE DEF length
<1> QED
  BY <1>6, <1>7, <1>8, <1>9

\* They are blocks.
LEMMA NewHeadsAreBlocks ==
    ASSUME TypeOK, NEW count \in Nat
    PROVE  GetNewHeadsForBDN(count) \in Seq(Blocks)
<1>1. PICK n \in 0..Smaller(count, Len(chainState)) :
          GetNewHeadsForBDN(count) = SubSeq(chainState, 1, n)
  BY NewHeadsArePrefix
<1>2. chainState \in Seq(Blocks) /\ n \in 0..Len(chainState)
  BY <1>1 DEF TypeOK, Smaller
<1>3. SubSeq(chainState, 1, n) \in Seq(Blocks)
  BY <1>2, SubSeqProperties
<1> QED
  BY <1>1, <1>3

\* BlockAtDepth returns an entry of the chain state.
LEMMA DepthIsEntry ==
    ASSUME TypeOK, NEW depth \in Nat, BlockAtDepth(depth) # None
    PROVE  \E i \in 1..Len(chainState) : BlockAtDepth(depth) = chainState[i]
<1> DEFINE x == Height(chainState[depth + 1])
<1>1. chainState \in Seq(Blocks) /\ depth < Len(chainState) /\ getHeaderAtHeight(x) = "found"
  BY DEF BlockAtDepth, TypeOK
<1>2. chainState[depth + 1] \in Blocks /\ x \in Nat
  BY <1>1, BlocksAssumption DEF Height
<1> HIDE DEF x
<1>3. chainState # <<>> /\ BestHeight - x >= 0 /\ BestHeight - x < Len(chainState)
  <2>1. chainState # <<>>
    BY <1>1 DEF getHeaderAtHeight
  <2>2. BestHeight \in Nat
    <3>1. chainState[1] \in Blocks
      BY <1>1, <2>1
    <3> QED
      BY <2>1, <3>1, BlocksAssumption DEF BestHeight, Height
  <2> QED
    BY <1>1, <1>2, <2>1, <2>2 DEF getHeaderAtHeight
<1>4. BestHeight \in Nat
  <2>1. chainState[1] \in Blocks
    BY <1>1, <1>3
  <2> QED
    BY <1>3, <2>1, BlocksAssumption DEF BestHeight, Height
<1>5. BestHeight - x + 1 \in 1..Len(chainState)
  BY <1>1, <1>2, <1>3, <1>4
<1>6. BlockAtDepth(depth) = chainState[BestHeight - x + 1]
  BY DEF BlockAtDepth, HeaderAtHeight, x
<1> QED
  BY <1>5, <1>6
-----------------------------------------------------------------------------
(* The parts of the invariant.                                             *)

LocalTypes ==
    /\ pc \in [Handlers -> Steps]
    /\ block \in [Handlers -> Blocks \cup {None}]
    /\ newHeads \in [Handlers -> Heads]
    /\ confirming \in [Handlers -> Confirms]

ChannelsFit ==
    /\ bridge \in Seq(Blocks) /\ Len(bridge) <= BlockBacklog
    /\ confirmed \in Seq(Blocks) /\ Len(confirmed) <= BlockBacklog
    /\ forwarded \subseteq Blocks
    /\ processed \subseteq Blocks
    /\ relayed \in [Blocks -> Nat]
    /\ sent \subseteq Blocks
    /\ refused \subseteq Blocks
    /\ marked \subseteq Blocks
    /\ RelayedOnce
    /\ RelayedProcessed

\* HandlersInv is about the store, the handlers and what is between them and the
\* gateway.
LEMMA InvParts == HandlersInv <=> ChainInv /\ LocalTypes /\ HandlersFit /\ ChannelsFit
BY DEF HandlersInv, ChainInv, RelayInv, RelayTypeOK, LocalTypes, ChannelsFit, Heads, Confirms

\* The same after a step.
LEMMA InvFromParts ==
    ASSUME ChainInv', LocalTypes', HandlersFit', ChannelsFit'
    PROVE  HandlersInv'
BY DEF HandlersInv, ChainInv, RelayInv, RelayTypeOK, LocalTypes, ChannelsFit, Heads, Confirms

\* A step that leaves the store alone.
LEMMA ChainUnchanged ==
    ASSUME ChainInv, UNCHANGED vars
    PROVE  ChainInv'
BY DEF vars, ChainInv, TypeOK, BodiesHaveHeaders, HeadersStored, ChainLinked, EntriesNearHead

\* A step that touches metadata only.
LEMMA MetadataOnly ==
    ASSUME ChainInv, metadata' \in [Blocks -> Metadata \cup {None}],
           UNCHANGED <<chainState, headers, statusHeads, bodies, difficulties, named>>
    PROVE  ChainInv'
BY DEF ChainInv, TypeOK, BodiesHaveHeaders, HeadersStored, ChainLinked, EntriesNearHead

\* A step that leaves the channels alone.
LEMMA ChannelsUnchanged ==
    ASSUME ChannelsFit,
           UNCHANGED <<bridge, confirmed, forwarded, processed, relayed, sent, refused, marked>>
    PROVE  ChannelsFit'
BY DEF ChannelsFit, RelayedOnce, RelayedProcessed

\* A step that leaves the handlers alone.
LEMMA HandlersUnchanged ==
    ASSUME LocalTypes, HandlersFit, UNCHANGED <<pc, block, newHeads, confirming>>
    PROVE  LocalTypes' /\ HandlersFit'
BY DEF LocalTypes, HandlersFit, HandlerFits

\* A step of one handler: h goes on to p, with block x, heads n and confirmation c.
LEMMA OneHandler ==
    ASSUME LocalTypes, HandlersFit, NEW h \in Handlers,
           NEW p \in Steps, NEW x \in Blocks \cup {None}, NEW n \in Heads, NEW c \in Confirms,
           pc' = [pc EXCEPT ![h] = p], block' = [block EXCEPT ![h] = x],
           newHeads' = [newHeads EXCEPT ![h] = n],
           confirming' = [confirming EXCEPT ![h] = c],
           p \in {"validate", "add", "confirm"} => x \in Seen,
           p = "broadcast" => x \in Blocks,
           p = "mark" => n.blocks # <<>>,
           p \in {"store", "reread", "merge"} => c.block \in Blocks
    PROVE  LocalTypes' /\ HandlersFit'
<1>1. LocalTypes'
  BY DEF LocalTypes
<1>2. ASSUME NEW g \in Handlers PROVE HandlerFits(g)'
  <2>1. CASE g = h
    <3>1. pc'[g] = p /\ block'[g] = x /\ newHeads'[g] = n /\ confirming'[g] = c
      BY <2>1 DEF LocalTypes
    <3> QED
      BY <3>1 DEF HandlerFits
  <2>2. CASE g # h
    <3>1. /\ pc'[g] = pc[g] /\ block'[g] = block[g] /\ newHeads'[g] = newHeads[g]
          /\ confirming'[g] = confirming[g]
      BY <2>2 DEF LocalTypes
    <3>2. HandlerFits(g)
      BY DEF HandlersFit
    <3> QED
      BY <3>1, <3>2 DEF HandlerFits
  <2> QED
    BY <2>1, <2>2
<1>3. HandlersFit'
  BY <1>2 DEF HandlersFit
<1> QED
  BY <1>1, <1>3

\* An update with what was there changes nothing.
LEMMA Same ==
    ASSUME LocalTypes, NEW h \in Handlers
    PROVE  /\ pc = [pc EXCEPT ![h] = pc[h]]
           /\ block = [block EXCEPT ![h] = block[h]]
           /\ newHeads = [newHeads EXCEPT ![h] = newHeads[h]]
           /\ confirming = [confirming EXCEPT ![h] = confirming[h]]
           /\ pc[h] \in Steps /\ block[h] \in Blocks \cup {None}
           /\ newHeads[h] \in Heads /\ confirming[h] \in Confirms
BY DEF LocalTypes

-----------------------------------------------------------------------------
(* The steps.                                                              *)

\* Nothing is at work at the start.
LEMMA RelayInitInv == RelayInit => HandlersInv
<1> SUFFICES ASSUME RelayInit PROVE HandlersInv
  OBVIOUS
<1>1. ChainInv
  BY InitInv DEF RelayInit
<1>2. LocalTypes
  <2>1. NoHeads \in Heads /\ NotConfirming \in Confirms
    BY DEF NoHeads, NotConfirming, NoMetadata, Metadata, Heads, Confirms
  <2> QED
    BY <2>1 DEF RelayInit, LocalTypes, Steps
<1>3. HandlersFit
  BY DEF RelayInit, HandlersFit, HandlerFits
<1>4. ChannelsFit
  BY RelayAssumption DEF RelayInit, ChannelsFit, RelayedOnce, RelayedProcessed
<1> QED
  BY <1>1, <1>2, <1>3, <1>4, InvParts

\* The Status message of a handshake.
LEMMA StatusInv ==
    ASSUME HandlersInv, NEW h \in Handlers, NEW b \in PeerHeads, processStatus(h, b)
    PROVE  HandlersInv'
<1>1. ChainInv /\ LocalTypes /\ HandlersFit /\ ChannelsFit
  BY InvParts
<1>2. ChainInv'
  BY <1>1, MarkInv DEF processStatus
<1>3. UNCHANGED <<pc, block, newHeads, confirming, bridge, confirmed, forwarded, processed,
                  relayed, sent, refused, marked>>
  BY DEF processStatus, relayVars
<1>4. LocalTypes' /\ HandlersFit'
  BY <1>1, <1>3, HandlersUnchanged
<1>5. ChannelsFit'
  BY <1>1, <1>3, ChannelsUnchanged
<1> QED
  BY <1>2, <1>4, <1>5, InvFromParts

\* Messages that start a handler.
LEMMA MessageInv ==
    ASSUME HandlersInv, NEW h \in Handlers, NEW b \in Seen,
           \/ processBlockComponents(h, b)
           \/ processBlock(h, b)
           \/ processBlockAnnouncement(h, b)
           \/ processBlockHeaders(h, b)
    PROVE  HandlersInv'
<1>1. ChainInv /\ LocalTypes /\ HandlersFit /\ ChannelsFit
  BY InvParts
<1>2. b \in Blocks
  BY ChainAssumption
<1>3. ChainInv'
  <2>1. CASE UNCHANGED vars
    BY <1>1, <2>1, ChainUnchanged
  <2>2. CASE SetTotalDifficulty(b)
    BY <1>1, <2>2, MarkInv
  <2> QED
    BY <2>1, <2>2 DEF processBlockComponents, processBlock, processBlockAnnouncement,
        processBlockHeaders, StartConfirm, vars
<1>4. UNCHANGED <<newHeads, confirming, bridge, confirmed, forwarded, processed, relayed, sent,
                  refused, marked>>
  BY DEF processBlockComponents, processBlock, processBlockAnnouncement,
         processBlockHeaders, StartConfirm
<1>5. PICK p \in {"validate", "add", "confirm", "idle"}, x \in Blocks \cup {None} :
        /\ pc' = [pc EXCEPT ![h] = p] /\ block' = [block EXCEPT ![h] = x]
        /\ p # "idle" => x \in Seen
  <2>1. CASE processBlockComponents(h, b)
    BY <1>2, <2>1 DEF processBlockComponents, Goto
  <2>2. CASE processBlock(h, b)
    BY <1>2, <2>2 DEF processBlock, Goto
  <2>3. CASE processBlockAnnouncement(h, b) \/ processBlockHeaders(h, b)
    BY <1>2, <2>3 DEF processBlockAnnouncement, processBlockHeaders, StartConfirm, Goto
  <2> QED
    BY <2>1, <2>2, <2>3
<1>6. LocalTypes' /\ HandlersFit'
  <2>1. p \in Steps
    BY <1>5 DEF Steps
  <2>2. /\ newHeads' = [newHeads EXCEPT ![h] = newHeads[h]] /\ newHeads[h] \in Heads
        /\ confirming' = [confirming EXCEPT ![h] = confirming[h]] /\ confirming[h] \in Confirms
    BY <1>1, <1>4, Same
  <2>3. (p \in {"validate", "add", "confirm"} => x \in Seen) /\ p # "broadcast" /\ p # "mark"
        /\ p \notin {"store", "reread", "merge"}
    BY <1>5
  <2> QED
    BY <1>1, <1>5, <2>1, <2>2, <2>3, OneHandler
<1>7. ChannelsFit'
  BY <1>1, <1>4, ChannelsUnchanged
<1> QED
  BY <1>3, <1>6, <1>7, InvFromParts

\* AddBlock and ConfirmBlock, with the number of new heads.
LEMMA ChainCallInv ==
    ASSUME HandlersInv, NEW h \in Handlers, addBlock(h) \/ confirmBlock(h)
    PROVE  HandlersInv'
<1>1. ChainInv /\ LocalTypes /\ HandlersFit /\ ChannelsFit
  BY InvParts
<1>2. block[h] \in Seen /\ block[h] \in Blocks
  <2>1. pc[h] \in {"add", "confirm"}
    BY DEF addBlock, confirmBlock
  <2> QED
    BY <1>1, <2>1, ChainAssumption DEF HandlersFit, HandlerFits
<1>3. chainState \in Seq(Blocks)
  BY <1>1 DEF ChainInv, TypeOK
<1>4. ChainInv'
  <2>1. CASE addBlock(h)
    <3>1. AddBlock(block[h], "BSBlockchain") /\ "BSBlockchain" \in Sources
      BY <2>1 DEF addBlock, Sources
    <3> QED
      BY <1>1, <1>2, <3>1, AddBlockInv
  <2>2. CASE confirmBlock(h)
    <3>1. CASE metadata[block[h]] = None
      BY <1>1, <2>2, <3>1, ChainUnchanged DEF confirmBlock
    <3>2. CASE metadata[block[h]] # None
      <4>1. ConfirmBlock(block[h])
        BY <2>2, <3>2 DEF confirmBlock
      <4> QED
        BY <1>1, <1>2, <4>1, ConfirmBlockInv
    <3> QED
      BY <3>1, <3>2
  <2> QED
    BY <2>1, <2>2
<1>5. PICK x \in Blocks \cup {None}, k \in Nat :
        /\ pc' = [pc EXCEPT ![h] = "fetch"] /\ block' = [block EXCEPT ![h] = x]
        /\ newHeads' = [newHeads EXCEPT ![h] = [count |-> k, blocks |-> <<>>]]
  <2>1. CASE addBlock(h)
    <3> DEFINE k == updateChainState(chainState, headers', block[h]).added
    <3>1. k \in Nat
      BY <1>2, <1>3, AddedIsCount
    <3>2. newHeads' = [newHeads EXCEPT ![h] = [count |-> k, blocks |-> <<>>]]
      BY <2>1 DEF addBlock, CountNewHeads
    <3>3. pc' = [pc EXCEPT ![h] = "fetch"] /\ block' = block
      BY <2>1 DEF addBlock, Goto
    <3> QED
      BY <1>1, <3>1, <3>2, <3>3, Same
  <2>2. CASE confirmBlock(h)
    <3>1. updateChainState(chainState, headers, block[h]).added \in Nat
      BY <1>2, <1>3, AddedIsCount
    <3>2. PICK k \in Nat : CountNewHeads(h, k)
      BY <2>2, <3>1 DEF confirmBlock
    <3>3. pc' = [pc EXCEPT ![h] = "fetch"] /\ block' = [block EXCEPT ![h] = None]
      BY <2>2 DEF confirmBlock, Goto
    <3> QED
      BY <3>2, <3>3 DEF CountNewHeads
  <2> QED
    BY <2>1, <2>2
<1>6. UNCHANGED <<confirming, bridge, confirmed, forwarded, processed, relayed, sent, refused,
                  marked>>
  BY DEF addBlock, confirmBlock
<1>7. LocalTypes' /\ HandlersFit'
  <2>1. [count |-> k, blocks |-> <<>>] \in Heads /\ "fetch" \in Steps
    BY DEF Heads, Steps
  <2>2. confirming' = [confirming EXCEPT ![h] = confirming[h]] /\ confirming[h] \in Confirms
    BY <1>1, <1>6, Same
  <2> QED
    BY <1>1, <1>5, <2>1, <2>2, OneHandler
<1>8. ChannelsFit'
  BY <1>1, <1>6, ChannelsUnchanged
<1> QED
  BY <1>4, <1>7, <1>8, InvFromParts
\* What is left of the heads without the last one.
LEMMA HeadsLeft ==
    ASSUME NEW n \in Heads, n.blocks # <<>>
    PROVE  /\ [n EXCEPT !.blocks = SubSeq(@, 1, Len(@) - 1)] \in Heads
           /\ n.blocks[Len(n.blocks)] \in Blocks
<1>1. n.blocks \in Seq(Blocks) /\ Len(n.blocks) \in Nat \ {0}
  BY DEF Heads
<1>2. SubSeq(n.blocks, 1, Len(n.blocks) - 1) \in Seq(Blocks)
  BY <1>1, SubSeqProperties
<1> QED
  BY <1>1, <1>2 DEF Heads

\* The heads are read from the chain.
LEMMA FetchInv ==
    ASSUME HandlersInv, NEW h \in Handlers, fetchNewHeads(h)
    PROVE  HandlersInv'
<1>1. ChainInv /\ LocalTypes /\ HandlersFit /\ ChannelsFit
  BY InvParts
<1>2. ChainInv' /\ ChannelsFit'
  BY <1>1, ChainUnchanged, ChannelsUnchanged DEF fetchNewHeads
<1> DEFINE n == [count |-> 0, blocks |-> GetNewHeadsForBDN(newHeads[h].count)]
<1>3. n \in Heads /\ "send" \in Steps
  <2>1. newHeads[h].count \in Nat
    BY <1>1 DEF LocalTypes, Heads
  <2>2. GetNewHeadsForBDN(newHeads[h].count) \in Seq(Blocks)
    BY <1>1, <2>1, NewHeadsAreBlocks DEF ChainInv
  <2> QED
    BY <2>2 DEF Heads, Steps
<1>4. /\ pc' = [pc EXCEPT ![h] = "send"] /\ newHeads' = [newHeads EXCEPT ![h] = n]
      /\ UNCHANGED <<block, confirming>>
  BY DEF fetchNewHeads, Goto
<1>5. /\ block' = [block EXCEPT ![h] = block[h]] /\ block[h] \in Blocks \cup {None}
      /\ confirming' = [confirming EXCEPT ![h] = confirming[h]] /\ confirming[h] \in Confirms
  BY <1>1, <1>4, Same
<1> HIDE DEF n
<1>6. LocalTypes' /\ HandlersFit'
  BY <1>1, <1>3, <1>4, <1>5, OneHandler
<1> QED
  BY <1>2, <1>6, InvFromParts

\* A head goes onto the channel, or is lost when that is full.
LEMMA SendInv ==
    ASSUME HandlersInv, NEW h \in Handlers, sendNewHead(h)
    PROVE  HandlersInv'
<1>1. ChainInv /\ LocalTypes /\ HandlersFit /\ ChannelsFit
  BY InvParts
<1>2. ChainInv'
  BY <1>1, ChainUnchanged DEF sendNewHead
<1>3. /\ pc[h] = "send" /\ newHeads[h].blocks # <<>>
      /\ UNCHANGED <<block, confirming, confirmed, forwarded, processed, relayed, marked>>
  BY DEF sendNewHead
<1>4. /\ block' = [block EXCEPT ![h] = block[h]] /\ block[h] \in Blocks \cup {None}
      /\ confirming' = [confirming EXCEPT ![h] = confirming[h]] /\ confirming[h] \in Confirms
      /\ newHeads[h] \in Heads
  BY <1>1, <1>3, Same
<1>5. CASE ~BlockChannelFull
  <2>1. /\ bridge' = Append(bridge, LastHead(h)) /\ sent' = sent \cup {LastHead(h)}
        /\ pc' = [pc EXCEPT ![h] = "mark"] /\ newHeads' = newHeads /\ refused' = refused
    BY <1>5 DEF sendNewHead, Goto
  <2>2. LastHead(h) \in Blocks
    BY <1>3, <1>4, HeadsLeft DEF LastHead
  <2>3. /\ newHeads' = [newHeads EXCEPT ![h] = newHeads[h]] /\ newHeads[h].blocks # <<>>
        /\ pc' = [pc EXCEPT ![h] = "mark"] /\ "mark" \in Steps
    BY <1>1, <1>3, <2>1, Same DEF Steps
  <2>4. LocalTypes' /\ HandlersFit'
    BY <1>1, <1>4, <2>3, OneHandler
  <2>5. bridge' \in Seq(Blocks) /\ Len(bridge') <= BlockBacklog /\ sent' \subseteq Blocks
    <3>1. bridge \in Seq(Blocks) /\ sent \subseteq Blocks /\ BlockBacklog \in Nat
      BY <1>1, RelayAssumption DEF ChannelsFit
    <3> QED
      BY <3>1, <1>5, <2>1, <2>2 DEF BlockChannelFull
  <2>6. ChannelsFit'
    BY <1>1, <1>3, <2>1, <2>5 DEF ChannelsFit, RelayedOnce, RelayedProcessed
  <2> QED
    BY <1>2, <2>4, <2>6, InvFromParts
<1>6. CASE BlockChannelFull
  <2>1. UNCHANGED <<bridge, sent, pc>> /\ DropLastHead(h) /\ refused' = refused \cup {LastHead(h)}
    BY <1>6 DEF sendNewHead
  <2> DEFINE n == [newHeads[h] EXCEPT !.blocks = SubSeq(@, 1, Len(@) - 1)]
  <2>2. n \in Heads /\ newHeads' = [newHeads EXCEPT ![h] = n]
    <3>1. n \in Heads
      BY <1>3, <1>4, HeadsLeft
    <3>2. newHeads' = [newHeads EXCEPT ![h] = n]
      BY <1>1, <2>1 DEF DropLastHead, LocalTypes
    <3> QED
      BY <3>1, <3>2
  <2> HIDE DEF n
  <2>3. pc' = [pc EXCEPT ![h] = "send"] /\ "send" \in Steps
    BY <1>1, <1>3, <2>1, Same DEF Steps
  <2>4. LocalTypes' /\ HandlersFit'
    BY <1>1, <1>4, <2>2, <2>3, OneHandler
  <2>5. ChannelsFit'
    <3>1. LastHead(h) \in Blocks
      BY <1>3, <1>4, HeadsLeft DEF LastHead
    <3>2. refused' \subseteq Blocks
      BY <1>1, <2>1, <3>1 DEF ChannelsFit
    <3> QED
      BY <1>1, <1>3, <2>1, <3>2 DEF ChannelsFit, RelayedOnce, RelayedProcessed
  <2> QED
    BY <1>2, <2>4, <2>5, InvFromParts
<1> QED
  BY <1>5, <1>6

\* The head that was sent is marked, if a cleanup has left its metadata.
LEMMA MarkSentInv ==
    ASSUME HandlersInv, NEW h \in Handlers, markSentToBDN(h)
    PROVE  HandlersInv'
<1>1. ChainInv /\ LocalTypes /\ HandlersFit /\ ChannelsFit
  BY InvParts
<1>2. newHeads[h].blocks # <<>> /\ newHeads[h] \in Heads
  BY <1>1, Same DEF markSentToBDN, HandlersFit, HandlerFits
<1>3. LastHead(h) \in Blocks
  BY <1>2, HeadsLeft DEF LastHead
<1>4. ChainInv'
  <2>1. CASE metadata[LastHead(h)] = None
    BY <1>1, <2>1, ChainUnchanged DEF markSentToBDN
  <2>2. CASE metadata[LastHead(h)] # None
    <3>1. MarkSentToBDN(LastHead(h))
      BY <2>2 DEF markSentToBDN
    <3>2. metadata \in [Blocks -> Metadata \cup {None}]
      BY <1>1 DEF ChainInv, TypeOK
    <3>3. [metadata[LastHead(h)] EXCEPT !.sentToBDN = TRUE] \in Metadata
      <4>1. metadata[LastHead(h)] \in Metadata
        BY <1>3, <2>2, <3>2
      <4> QED
        BY <4>1 DEF Metadata
    <3>4. metadata' \in [Blocks -> Metadata \cup {None}]
      BY <1>3, <3>1, <3>2, <3>3 DEF MarkSentToBDN
    <3> QED
      BY <1>1, <3>1, <3>4, MetadataOnly DEF MarkSentToBDN
  <2> QED
    BY <2>1, <2>2
<1> DEFINE n == [newHeads[h] EXCEPT !.blocks = SubSeq(@, 1, Len(@) - 1)]
<1>5. n \in Heads /\ newHeads' = [newHeads EXCEPT ![h] = n]
  <2>1. n \in Heads
    BY <1>2, HeadsLeft
  <2>2. newHeads' = [newHeads EXCEPT ![h] = n]
    BY <1>1 DEF markSentToBDN, DropLastHead, LocalTypes
  <2> QED
    BY <2>1, <2>2
<1> HIDE DEF n
<1>6. /\ pc' = [pc EXCEPT ![h] = "send"] /\ "send" \in Steps
      /\ UNCHANGED <<block, confirming, bridge, confirmed, forwarded, processed, relayed, sent,
                     refused>>
      /\ marked' \subseteq marked \cup {LastHead(h)}
  BY DEF markSentToBDN, Goto, Steps
<1>7. /\ block' = [block EXCEPT ![h] = block[h]] /\ block[h] \in Blocks \cup {None}
      /\ confirming' = [confirming EXCEPT ![h] = confirming[h]] /\ confirming[h] \in Confirms
  BY <1>1, <1>6, Same
<1>8. LocalTypes' /\ HandlersFit'
  BY <1>1, <1>5, <1>6, <1>7, OneHandler
<1>9. ChannelsFit'
  <2>1. marked' \subseteq Blocks
    BY <1>1, <1>3, <1>6 DEF ChannelsFit
  <2> QED
    BY <1>1, <1>6, <2>1 DEF ChannelsFit, RelayedOnce, RelayedProcessed
<1> QED
  BY <1>4, <1>8, <1>9, InvFromParts
\* The end of sendConfirmedBlocksToBDN, with or without a confirm message.
LEMMA ConfirmInv ==
    ASSUME HandlersInv, NEW h \in Handlers, confirmToGateway(h)
    PROVE  HandlersInv'
<1>1. ChainInv /\ LocalTypes /\ HandlersFit /\ ChannelsFit
  BY InvParts
<1>2. ChainInv'
  BY <1>1, ChainUnchanged DEF confirmToGateway
<1>3. UNCHANGED <<block, newHeads, bridge, forwarded, processed, relayed, sent, refused, marked>>
  BY DEF confirmToGateway
<1>4. /\ block' = [block EXCEPT ![h] = block[h]] /\ block[h] \in Blocks \cup {None}
      /\ newHeads' = [newHeads EXCEPT ![h] = newHeads[h]] /\ newHeads[h] \in Heads
  BY <1>1, <1>3, Same
<1> DEFINE b == blockAtDepth(ConfirmationsCount)
           c == [block |-> b, entry |-> [metadata[b] EXCEPT !.sentToBDN = FALSE,
                                                            !.confirmedMsgSent = TRUE]]
           goes == b # None /\ metadata[b] # None /\ ~metadata[b].confirmedMsgSent
                   /\ ~ConfirmedChannelFull
<1>5. CASE goes
  <2>1. /\ confirmed' = Append(confirmed, b) /\ confirming' = [confirming EXCEPT ![h] = c]
        /\ pc' = [pc EXCEPT ![h] = "store"] /\ "store" \in Steps
    BY <1>5 DEF confirmToGateway, Goto, Steps
  <2>2. b \in Blocks
    <3>1. TypeOK /\ ConfirmationsCount \in Nat
      BY <1>1, RelayAssumption DEF ChainInv
    <3>2. b = BlockAtDepth(ConfirmationsCount) /\ b # None
      BY <1>5 DEF blockAtDepth
    <3>3. PICK i \in 1..Len(chainState) : b = chainState[i]
      BY <3>1, <3>2, DepthIsEntry
    <3> QED
      BY <3>1, <3>3 DEF TypeOK
  <2>3. c \in Confirms /\ c.block = b
    <3>1. metadata[b] \in Metadata
      BY <1>1, <1>5, <2>2 DEF ChainInv, TypeOK
    <3> QED
      BY <2>2, <3>1 DEF Metadata, Confirms
  <2>4. confirmed' \in Seq(Blocks) /\ Len(confirmed') <= BlockBacklog
    <3>1. confirmed \in Seq(Blocks) /\ BlockBacklog \in Nat
      BY <1>1, RelayAssumption DEF ChannelsFit
    <3> QED
      BY <3>1, <1>5, <2>1, <2>2 DEF ConfirmedChannelFull
  <2> HIDE DEF b, c, goes
  <2>5. LocalTypes' /\ HandlersFit'
    BY <1>1, <1>4, <2>1, <2>2, <2>3, OneHandler
  <2>6. ChannelsFit'
    BY <1>1, <1>3, <2>4 DEF ChannelsFit, RelayedOnce, RelayedProcessed
  <2> QED
    BY <1>2, <2>5, <2>6, InvFromParts
<1>6. CASE ~goes
  <2> DEFINE p == IF block[h] = None THEN "idle" ELSE "broadcast"
  <2>1. UNCHANGED <<confirmed, confirming>> /\ pc' = [pc EXCEPT ![h] = p]
    BY <1>6 DEF confirmToGateway, Finish, Goto
  <2>2. p \in Steps /\ (p = "broadcast" => block[h] \in Blocks) /\ p \in {"idle", "broadcast"}
    BY <1>4 DEF Steps
  <2>3. confirming' = [confirming EXCEPT ![h] = confirming[h]] /\ confirming[h] \in Confirms
    BY <1>1, <2>1, Same
  <2> HIDE DEF p, b, c, goes
  <2>4. LocalTypes' /\ HandlersFit'
    BY <1>1, <1>4, <2>1, <2>2, <2>3, OneHandler
  <2>5. ChannelsFit'
    BY <1>1, <1>3, <2>1, ChannelsUnchanged
  <2> QED
    BY <1>2, <2>4, <2>5, InvFromParts
<1> QED
  BY <1>5, <1>6

\* storeBlockMetadata without the lock: the entry is stored, ...
LEMMA StoreInv ==
    ASSUME HandlersInv, NEW h \in Handlers, StoreKeeps,
           pc[h] \in {"store", "merge"}, StoreEntry(h)
    PROVE  HandlersInv'
<1>1. ChainInv /\ LocalTypes /\ HandlersFit /\ ChannelsFit
  BY InvParts
<1>2. confirming[h].block \in Blocks /\ confirming[h].entry \in Metadata
  BY <1>1 DEF HandlersFit, HandlerFits, LocalTypes, Confirms
<1>3. ChainInv'
  <2>1. metadata \in [Blocks -> Metadata \cup {None}]
    BY <1>1 DEF ChainInv, TypeOK
  <2>2. metadata' \in [Blocks -> Metadata \cup {None}]
    BY <1>2, <2>1 DEF StoreEntry
  <2> QED
    BY <1>1, <2>2, MetadataOnly DEF StoreKeeps
<1> DEFINE p == IF block[h] = None THEN "idle" ELSE "broadcast"
<1>4. /\ pc' = [pc EXCEPT ![h] = p]
      /\ confirming' = [confirming EXCEPT ![h] = NotConfirming]
      /\ UNCHANGED <<block, newHeads, bridge, confirmed, forwarded, processed, relayed, sent,
                     refused, marked>>
  BY DEF StoreEntry, StoreKeeps, Finish, Goto
<1>5. /\ block' = [block EXCEPT ![h] = block[h]] /\ block[h] \in Blocks \cup {None}
      /\ newHeads' = [newHeads EXCEPT ![h] = newHeads[h]] /\ newHeads[h] \in Heads
  BY <1>1, <1>4, Same
<1>6. /\ p \in Steps /\ (p = "broadcast" => block[h] \in Blocks) /\ p \in {"idle", "broadcast"}
      /\ NotConfirming \in Confirms
  BY <1>5 DEF Steps, NotConfirming, NoMetadata, Metadata, Confirms
<1> HIDE DEF p
<1>7. LocalTypes' /\ HandlersFit'
  BY <1>1, <1>4, <1>5, <1>6, OneHandler
<1>8. ChannelsFit'
  BY <1>1, <1>4, ChannelsUnchanged
<1> QED
  BY <1>3, <1>7, <1>8, InvFromParts

\* What the handler finds when it reads the entry again, with its flag.
Reread(h) ==
    LET b    == confirming[h].block
        read == IF metadata[b] = None THEN NoMetadata ELSE metadata[b]
    IN  [read EXCEPT !.confirmed = read.confirmed \/ confirming[h].entry.confirmed,
                     !.confirmedMsgSent = TRUE]

\* It is metadata with the flag set, and a mark only if there was one.
LEMMA RereadFacts ==
    ASSUME TypeOK, LocalTypes, NEW h \in Handlers, confirming[h].block \in Blocks
    PROVE  /\ Reread(h) \in Metadata
           /\ Reread(h).confirmedMsgSent
           /\ Reread(h).sentToBDN <=> HasSentToBDN(confirming[h].block)
<1> DEFINE b == confirming[h].block
           read == IF metadata[b] = None THEN NoMetadata ELSE metadata[b]
           c == read.confirmed \/ confirming[h].entry.confirmed
<1>1. read \in Metadata /\ c \in BOOLEAN
  <2>1. NoMetadata \in Metadata
    BY DEF NoMetadata, Metadata
  <2>2. metadata[b] \in Metadata \cup {None} /\ confirming[h].entry \in Metadata
    BY DEF TypeOK, LocalTypes, Confirms
  <2>3. read \in Metadata
    BY <2>1, <2>2
  <2> HIDE DEF read
  <2> QED
    BY <2>2, <2>3 DEF Metadata
<1>2. read.sentToBDN <=> HasSentToBDN(b)
  BY DEF NoMetadata, HasSentToBDN
<1>3. Reread(h) = [read EXCEPT !.confirmed = c, !.confirmedMsgSent = TRUE]
  BY DEF Reread
<1> HIDE DEF read, c
<1>4. /\ Reread(h) \in Metadata /\ Reread(h).confirmedMsgSent
      /\ Reread(h).sentToBDN = read.sentToBDN
  BY <1>1, <1>3 DEF Metadata
<1> QED
  BY <1>2, <1>4

\* ... or, if there was one, it is read again and merged.
LEMMA RereadInv ==
    ASSUME HandlersInv, NEW h \in Handlers, NEW p \in {"reread", "merge"},
           pc[h] \in {"store", "reread"}, Goto(h, p), StoreKeeps, UNCHANGED metadata,
           confirming' = confirming \/ confirming' = [confirming EXCEPT ![h].entry = Reread(h)]
    PROVE  HandlersInv'
<1>1. ChainInv /\ LocalTypes /\ HandlersFit /\ ChannelsFit
  BY InvParts
<1>2. confirming[h].block \in Blocks /\ confirming[h] \in Confirms
  BY <1>1, Same DEF HandlersFit, HandlerFits
<1>3. ChainInv' /\ ChannelsFit'
  BY <1>1, ChainUnchanged, ChannelsUnchanged DEF StoreKeeps, vars
<1>4. /\ block' = [block EXCEPT ![h] = block[h]] /\ block[h] \in Blocks \cup {None}
      /\ newHeads' = [newHeads EXCEPT ![h] = newHeads[h]] /\ newHeads[h] \in Heads
      /\ p \in Steps /\ pc' = [pc EXCEPT ![h] = p]
  BY <1>1, Same DEF StoreKeeps, Steps, Goto
<1>5. PICK c \in Confirms : c.block \in Blocks /\ confirming' = [confirming EXCEPT ![h] = c]
  <2>1. CASE confirming' = confirming
    BY <1>1, <1>2, <2>1, Same
  <2>2. CASE confirming' = [confirming EXCEPT ![h].entry = Reread(h)]
    <3>1. Reread(h) \in Metadata
      BY <1>1, <1>2, RereadFacts DEF ChainInv
    <3> DEFINE c == [confirming[h] EXCEPT !.entry = Reread(h)]
    <3>2. c \in Confirms /\ c.block = confirming[h].block
      BY <1>2, <3>1 DEF Confirms
    <3>3. confirming' = [confirming EXCEPT ![h] = c]
      BY <1>1, <2>2 DEF LocalTypes
    <3> QED
      BY <1>2, <3>2, <3>3
  <2> QED
    BY <2>1, <2>2
<1>6. LocalTypes' /\ HandlersFit'
  BY <1>1, <1>4, <1>5, OneHandler
<1> QED
  BY <1>3, <1>6, InvFromParts

\* The block is handed to the other peers.
LEMMA ForwardInv ==
    ASSUME HandlersInv, NEW h \in Handlers, broadcastBlock(h)
    PROVE  HandlersInv'
<1>1. ChainInv /\ LocalTypes /\ HandlersFit /\ ChannelsFit
  BY InvParts
<1>2. ChainInv'
  BY <1>1, ChainUnchanged DEF broadcastBlock
<1>3. block[h] \in Blocks
  BY <1>1 DEF broadcastBlock, HandlersFit, HandlerFits
<1>4. /\ pc' = [pc EXCEPT ![h] = "idle"] /\ "idle" \in Steps
      /\ block' = [block EXCEPT ![h] = None]
      /\ UNCHANGED <<newHeads, confirming, bridge, confirmed, processed, relayed, sent, refused,
                     marked>>
      /\ forwarded' = forwarded \cup {block[h]}
  BY DEF broadcastBlock, Goto, Steps
<1>5. /\ newHeads' = [newHeads EXCEPT ![h] = newHeads[h]] /\ newHeads[h] \in Heads
      /\ confirming' = [confirming EXCEPT ![h] = confirming[h]] /\ confirming[h] \in Confirms
  BY <1>1, <1>4, Same
<1>6. LocalTypes' /\ HandlersFit'
  <2>1. None \in Blocks \cup {None} /\ pc' = [pc EXCEPT ![h] = "idle"] /\ "idle" \in Steps
        /\ block' = [block EXCEPT ![h] = None]
    BY <1>4
  <2> QED
    BY <1>1, <1>5, <2>1, OneHandler
<1>7. ChannelsFit'
  BY <1>1, <1>3, <1>4 DEF ChannelsFit, RelayedOnce, RelayedProcessed
<1> QED
  BY <1>2, <1>6, <1>7, InvFromParts

\* The gateway takes a block: one that it has processed goes out as a nil message.
LEMMA GatewayTakesInv ==
    ASSUME HandlersInv, processBlockFromBlockchain
    PROVE  HandlersInv'
<1>1. ChainInv /\ LocalTypes /\ HandlersFit /\ ChannelsFit
  BY InvParts
<1>2. UNCHANGED <<vars, pc, block, newHeads, confirming, confirmed, forwarded, sent, refused,
                  marked>>
  BY DEF processBlockFromBlockchain
<1>3. ChainInv'
  BY <1>1, <1>2, ChainUnchanged
<1>4. LocalTypes' /\ HandlersFit'
  BY <1>1, <1>2, HandlersUnchanged
<1> DEFINE b == Head(bridge)
<1>5. /\ bridge # <<>> /\ processed' = processed \cup {b} /\ bridge' = Tail(bridge)
      /\ relayed' = LET m == BxBlockToBroadcast(b)
                    IN  IF m = None THEN relayed ELSE [relayed EXCEPT ![m] = @ + 1]
  BY DEF processBlockFromBlockchain
<1>6. b \in Blocks /\ bridge' \in Seq(Blocks) /\ Len(bridge') <= BlockBacklog
  <2>1. bridge \in Seq(Blocks) /\ Len(bridge) <= BlockBacklog /\ BlockBacklog \in Nat
    BY <1>1, RelayAssumption DEF ChannelsFit
  <2>2. b \in Blocks /\ Tail(bridge) \in Seq(Blocks) /\ Len(Tail(bridge)) = Len(bridge) - 1
    BY <1>5, <2>1, HeadTailProperties
  <2> QED
    BY <1>5, <2>1, <2>2
<1> HIDE DEF b
<1>7. /\ relayed \in [Blocks -> Nat]
      /\ \A x \in Blocks : relayed[x] <= 1 /\ (relayed[x] > 0 => x \in processed)
  BY <1>1 DEF ChannelsFit, RelayedOnce, RelayedProcessed
<1>8. CASE BxBlockToBroadcast(b) = None
  <2>1. relayed' = relayed
    BY <1>5, <1>8
  <2> QED
    BY <1>1, <1>2, <1>3, <1>4, <1>5, <1>6, <1>7, <2>1, InvFromParts
       DEF ChannelsFit, RelayedOnce, RelayedProcessed
<1>9. CASE BxBlockToBroadcast(b) # None
  <2>1. relayed' = [relayed EXCEPT ![b] = @ + 1] /\ b \notin processed
    BY <1>5, <1>9 DEF BxBlockToBroadcast
  <2>2. relayed[b] = 0 /\ relayed'[b] = 1
    BY <1>6, <1>7, <2>1
  <2>3. /\ relayed' \in [Blocks -> Nat]
        /\ \A x \in Blocks : relayed'[x] <= 1 /\ (relayed'[x] > 0 => x \in processed')
    BY <1>5, <1>6, <1>7, <2>1, <2>2
  <2> QED
    BY <1>1, <1>2, <1>3, <1>4, <1>5, <1>6, <2>3, InvFromParts
       DEF ChannelsFit, RelayedOnce, RelayedProcessed
<1> QED
  BY <1>8, <1>9

\* A cleanup between any two steps of the handlers.
LEMMA CleanupInv ==
    ASSUME HandlersInv, cleanBlockStorage
    PROVE  HandlersInv'
<1>1. ChainInv /\ LocalTypes /\ HandlersFit /\ ChannelsFit
  BY InvParts
<1>2. ChainInv'
  BY <1>1, CleanInv DEF cleanBlockStorage
<1>3. UNCHANGED <<pc, block, newHeads, confirming, bridge, confirmed, forwarded, processed,
                  relayed, sent, refused, marked>>
  BY DEF cleanBlockStorage, relayVars
<1> QED
  BY <1>1, <1>2, <1>3, HandlersUnchanged, ChannelsUnchanged, InvFromParts

\* Every step of the relay.
LEMMA RelayStepInv ==
    ASSUME HandlersInv, [RelayNext]_allVars
    PROVE  HandlersInv'
<1>1. CASE UNCHANGED allVars
  <2>1. /\ UNCHANGED vars
        /\ UNCHANGED <<pc, block, newHeads, confirming, bridge, confirmed, forwarded,
                       processed, relayed, sent, refused, marked>>
    BY <1>1 DEF allVars, relayVars
  <2> QED
    BY <2>1, InvParts, ChainUnchanged, HandlersUnchanged, ChannelsUnchanged, InvFromParts
<1>2. ASSUME NEW h \in Handlers, HandlerStep(h) PROVE HandlersInv'
  <2>1. CASE pc[h] = "validate" /\ processBlock(h, block[h])
    <3>1. block[h] \in Seen
      BY <2>1, InvParts DEF HandlersFit, HandlerFits
    <3> QED
      BY <2>1, <3>1, MessageInv
  <2>2. CASE addBlock(h) \/ confirmBlock(h)
    BY <2>2, ChainCallInv
  <2>3. CASE fetchNewHeads(h)
    BY <2>3, FetchInv
  <2>4. CASE sendNewHead(h)
    BY <2>4, SendInv
  <2>5. CASE markSentToBDN(h)
    BY <2>5, MarkSentInv
  <2>6. CASE confirmToGateway(h)
    BY <2>6, ConfirmInv
  <2>7. CASE storeConfirmedMsgSent(h)
    BY <2>7, StoreInv, RereadInv DEF storeConfirmedMsgSent
  <2>8. CASE rereadMetadata(h)
    BY <2>8, RereadInv DEF rereadMetadata, Reread
  <2>9. CASE mergeMetadata(h)
    BY <2>9, StoreInv DEF mergeMetadata
  <2>10. CASE broadcastBlock(h)
    BY <2>10, ForwardInv
  <2> QED
    BY <1>2, <2>1, <2>2, <2>3, <2>4, <2>5, <2>6, <2>7, <2>8, <2>9, <2>10 DEF HandlerStep
<1>3. ASSUME NEW h \in Handlers, NEW b \in PeerHeads, processStatus(h, b) PROVE HandlersInv'
  BY <1>3, StatusInv
<1>4. ASSUME NEW h \in Handlers, NEW b \in Seen,
             \/ processBlockComponents(h, b) \/ processBlock(h, b)
             \/ processBlockAnnouncement(h, b) \/ processBlockHeaders(h, b)
      PROVE  HandlersInv'
  BY <1>4, MessageInv
<1>5. CASE processBlockFromBlockchain
  BY <1>5, GatewayTakesInv
<1>6. CASE cleanBlockStorage
  BY <1>6, CleanupInv
<1> QED
  BY <1>1, <1>2, <1>3, <1>4, <1>5, <1>6 DEF RelayNext

\* With any number of handlers between whose calls others and cleanups run: the store
\* stays consistent, no channel is overfull, and no block goes out to the relays twice.
THEOREM RelayInvariant == RelaySpec => [](RelayInv /\ ChainInv)
<1>1. HandlersInv /\ [RelayNext]_allVars => HandlersInv'
  BY RelayStepInv
<1>2. HandlersInv => RelayInv /\ ChainInv
  BY DEF HandlersInv
<1> QED
  BY RelayInitInv, <1>1, <1>2, PTL DEF RelaySpec
-----------------------------------------------------------------------------
(* The steps of the relay, as the store sees them.                         *)

\* A handler stores the flag of its confirm message, over an entry or for want of one.
Stores(h) ==
    /\ pc[h] \in {"store", "merge"} /\ StoreEntry(h) /\ StoreKeeps
    /\ confirming[h].block \in Blocks /\ confirming[h].entry \in Metadata
    /\ pc[h] = "store" => metadata[confirming[h].block] = None

\* Every step makes one call of the store, or none.
LEMMA StoreSteps ==
    ASSUME HandlersInv, [RelayNext]_allVars
    PROVE  \/ UNCHANGED vars
           \/ \E b \in Seen : \/ AddBlock(b, "BSBlockchain") \/ ConfirmBlock(b)
                              \/ SetTotalDifficulty(b)
           \/ \E b \in PeerHeads : InitializeDifficulty(b)
           \/ \E b \in Blocks : MarkSentToBDN(b)
           \/ \E h \in Handlers : Stores(h)
           \/ clean
<1>1. LocalTypes /\ HandlersFit
  BY InvParts
<1>2. CASE UNCHANGED allVars
  BY <1>2 DEF allVars
<1>3. ASSUME NEW h \in Handlers, NEW b \in PeerHeads, processStatus(h, b)
      PROVE  \E x \in PeerHeads : InitializeDifficulty(x)
  BY <1>3 DEF processStatus
<1>4. ASSUME NEW h \in Handlers, NEW b \in Seen,
             \/ processBlockComponents(h, b) \/ processBlock(h, b)
             \/ processBlockAnnouncement(h, b) \/ processBlockHeaders(h, b)
      PROVE  UNCHANGED vars \/ \E x \in Seen : SetTotalDifficulty(x)
  BY <1>4 DEF processBlockComponents, processBlock, processBlockAnnouncement,
     processBlockHeaders, StartConfirm, vars
<1>5. ASSUME NEW h \in Handlers, HandlerStep(h)
      PROVE  \/ UNCHANGED vars
             \/ \E b \in Seen : AddBlock(b, "BSBlockchain") \/ ConfirmBlock(b)
             \/ \E b \in Blocks : MarkSentToBDN(b)
             \/ Stores(h)
  <2>1. CASE pc[h] = "validate" /\ processBlock(h, block[h])
    BY <2>1 DEF processBlock, vars
  <2>2. CASE addBlock(h) \/ confirmBlock(h)
    <3>1. block[h] \in Seen
      BY <1>1, <2>2 DEF HandlersFit, HandlerFits, addBlock, confirmBlock
    <3> QED
      BY <2>2, <3>1 DEF addBlock, confirmBlock
  <2>3. CASE fetchNewHeads(h) \/ sendNewHead(h) \/ confirmToGateway(h) \/ broadcastBlock(h)
    BY <2>3 DEF fetchNewHeads, sendNewHead, confirmToGateway, broadcastBlock, vars
  <2>4. CASE markSentToBDN(h)
    <3>1. newHeads[h].blocks # <<>> /\ newHeads[h] \in Heads
      BY <1>1, <2>4, Same DEF markSentToBDN, HandlersFit, HandlerFits
    <3>2. LastHead(h) \in Blocks
      BY <3>1, HeadsLeft DEF LastHead
    <3> QED
      BY <2>4, <3>2 DEF markSentToBDN, vars
  <2>5. CASE storeConfirmedMsgSent(h) \/ mergeMetadata(h)
    <3>1. confirming[h].block \in Blocks /\ confirming[h].entry \in Metadata
      BY <1>1, <2>5 DEF storeConfirmedMsgSent, mergeMetadata, HandlersFit, HandlerFits,
                        LocalTypes, Confirms
    <3> QED
      BY <2>5, <3>1 DEF storeConfirmedMsgSent, mergeMetadata, Stores, StoreKeeps, vars
  <2>6. CASE rereadMetadata(h)
    BY <2>6 DEF rereadMetadata, StoreKeeps, vars
  <2> QED
    BY <1>5, <2>1, <2>2, <2>3, <2>4, <2>5, <2>6 DEF HandlerStep
<1>6. CASE processBlockFromBlockchain
  BY <1>6 DEF processBlockFromBlockchain, vars
<1>7. CASE cleanBlockStorage
  BY <1>7 DEF cleanBlockStorage
<1> QED
  BY <1>2, <1>3, <1>4, <1>5, <1>6, <1>7 DEF RelayNext

\* What a handler is about to store: what it was, what it took from the metadata with the
\* mark left out, or what it has just read again.
LEMMA ConfirmingSteps ==
    ASSUME HandlersInv, [RelayNext]_allVars, NEW g \in Handlers, pc'[g] \in {"store", "merge"}
    PROVE  \/ pc[g] = pc'[g] /\ confirming'[g] = confirming[g]
           \/ /\ pc'[g] = "store" /\ ~confirming'[g].entry.sentToBDN
              /\ confirming'[g].entry.confirmedMsgSent
           \/ /\ pc[g] = "reread" /\ confirming[g].block \in Blocks
              /\ confirming'[g].block = confirming[g].block
              /\ confirming'[g].entry = Reread(g)
              /\ UNCHANGED <<vars, marked, sent>>
<1>1. ChainInv /\ TypeOK /\ LocalTypes /\ HandlersFit
  BY InvParts DEF ChainInv
<1>2. CASE UNCHANGED <<pc, confirming>>
  BY <1>2
<1>3. ASSUME NEW h \in Handlers, NEW p, pc' = [pc EXCEPT ![h] = p], p \notin {"store", "merge"},
             \/ confirming' = confirming
             \/ \E c : confirming' = [confirming EXCEPT ![h] = c]
      PROVE  pc[g] = pc'[g] /\ confirming'[g] = confirming[g]
  BY <1>1, <1>3 DEF LocalTypes
<1>4. ASSUME NEW h \in Handlers, NEW b \in Seen,
             \/ processBlockComponents(h, b) \/ processBlock(h, b)
             \/ processBlockAnnouncement(h, b) \/ processBlockHeaders(h, b)
      PROVE  pc[g] = pc'[g] /\ confirming'[g] = confirming[g]
  <2>1. confirming' = confirming
    BY <1>4 DEF processBlockComponents, processBlock, processBlockAnnouncement,
       processBlockHeaders, StartConfirm
  <2>2. \E p \in {"validate", "add", "idle", "confirm"} : pc' = [pc EXCEPT ![h] = p]
    BY <1>4 DEF processBlockComponents, processBlock, processBlockAnnouncement,
       processBlockHeaders, StartConfirm, Goto
  <2> QED
    BY <1>3, <2>1, <2>2
<1>5. ASSUME NEW h \in Handlers,
             \/ addBlock(h) \/ confirmBlock(h) \/ fetchNewHeads(h) \/ sendNewHead(h)
             \/ markSentToBDN(h) \/ broadcastBlock(h)
      PROVE  pc[g] = pc'[g] /\ confirming'[g] = confirming[g]
  <2>1. confirming' = confirming
    BY <1>5 DEF addBlock, confirmBlock, fetchNewHeads, sendNewHead, markSentToBDN,
       broadcastBlock
  <2>2. UNCHANGED pc \/ \E p \in {"fetch", "send", "mark", "idle"} : pc' = [pc EXCEPT ![h] = p]
    BY <1>5 DEF addBlock, confirmBlock, fetchNewHeads, sendNewHead, markSentToBDN,
       broadcastBlock, Goto
  <2> QED
    BY <1>3, <2>1, <2>2
<1>6. ASSUME NEW h \in Handlers, confirmToGateway(h)
      PROVE  \/ pc[g] = pc'[g] /\ confirming'[g] = confirming[g]
             \/ /\ pc'[g] = "store" /\ ~confirming'[g].entry.sentToBDN
                /\ confirming'[g].entry.confirmedMsgSent
  <2> DEFINE b == blockAtDepth(ConfirmationsCount)
             goes == b # None /\ metadata[b] # None /\ ~metadata[b].confirmedMsgSent
                     /\ ~ConfirmedChannelFull
             e == [metadata[b] EXCEPT !.sentToBDN = FALSE, !.confirmedMsgSent = TRUE]
  <2>1. CASE ~goes
    <3>1. UNCHANGED confirming /\ \E p \in {"idle", "broadcast"} : pc' = [pc EXCEPT ![h] = p]
      BY <1>6, <2>1 DEF confirmToGateway, Finish, Goto
    <3> QED
      BY <1>3, <3>1
  <2>2. CASE goes
    <3>1. /\ confirming' = [confirming EXCEPT ![h] = [block |-> b, entry |-> e]]
          /\ pc' = [pc EXCEPT ![h] = "store"]
      BY <1>6, <2>2 DEF confirmToGateway, Goto
    <3>2. b \in Blocks
      <4>1. ConfirmationsCount \in Nat /\ b = BlockAtDepth(ConfirmationsCount) /\ b # None
        BY <2>2, RelayAssumption DEF blockAtDepth
      <4>2. PICK i \in 1..Len(chainState) : b = chainState[i]
        BY <1>1, <4>1, DepthIsEntry
      <4> QED
        BY <1>1, <4>2 DEF TypeOK
    <3>3. ~e.sentToBDN /\ e.confirmedMsgSent
      <4>1. metadata[b] \in Metadata
        BY <1>1, <2>2, <3>2 DEF TypeOK
      <4> QED
        BY <4>1 DEF Metadata
    <3> HIDE DEF e, b
    <3> QED
      BY <1>1, <3>1, <3>3 DEF LocalTypes
  <2> QED
    BY <2>1, <2>2
<1>7. ASSUME NEW h \in Handlers, pc[h] \in {"store", "merge"}, StoreEntry(h)
      PROVE  pc[g] = pc'[g] /\ confirming'[g] = confirming[g]
  <2>1. \E p \in {"idle", "broadcast"} : pc' = [pc EXCEPT ![h] = p]
    BY <1>7 DEF StoreEntry, Finish, Goto
  <2>2. confirming' = [confirming EXCEPT ![h] = NotConfirming]
    BY <1>7 DEF StoreEntry
  <2> QED
    BY <1>3, <2>1, <2>2
<1>8. ASSUME NEW h \in Handlers, rereadMetadata(h)
      PROVE  \/ pc[g] = pc'[g] /\ confirming'[g] = confirming[g]
             \/ /\ pc[g] = "reread" /\ confirming[g].block \in Blocks
                /\ confirming'[g].block = confirming[g].block
                /\ confirming'[g].entry = Reread(g)
                /\ UNCHANGED <<vars, marked, sent>>
  <2>1. /\ pc[h] = "reread" /\ pc' = [pc EXCEPT ![h] = "merge"]
        /\ confirming' = [confirming EXCEPT ![h].entry = Reread(h)]
        /\ UNCHANGED <<vars, marked, sent>>
    BY <1>8 DEF rereadMetadata, Reread, Goto, StoreKeeps, vars
  <2>2. confirming[h].block \in Blocks /\ confirming[h] \in Confirms
    BY <1>1, <2>1, Same DEF HandlersFit, HandlerFits
  <2>3. confirming'[h].block = confirming[h].block /\ confirming'[h].entry = Reread(h)
    BY <1>1, <2>1, <2>2 DEF LocalTypes, Confirms
  <2>4. g # h => pc'[g] = pc[g] /\ confirming'[g] = confirming[g]
    BY <1>1, <2>1 DEF LocalTypes
  <2> QED
    BY <2>1, <2>2, <2>3, <2>4
<1>9. ASSUME NEW h \in Handlers, storeConfirmedMsgSent(h)
      PROVE  pc[g] = pc'[g] /\ confirming'[g] = confirming[g]
  <2>1. CASE metadata[confirming[h].block] = None
    BY <1>7, <1>9, <2>1 DEF storeConfirmedMsgSent
  <2>2. CASE metadata[confirming[h].block] # None
    <3>1. UNCHANGED confirming /\ pc' = [pc EXCEPT ![h] = "reread"]
      BY <1>9, <2>2 DEF storeConfirmedMsgSent, Goto
    <3> QED
      BY <1>3, <3>1
  <2> QED
    BY <2>1, <2>2
<1>10. ASSUME NEW h \in Handlers, HandlerStep(h), block[h] \in Seen \/ pc[h] # "validate"
       PROVE  \/ pc[g] = pc'[g] /\ confirming'[g] = confirming[g]
              \/ /\ pc'[g] = "store" /\ ~confirming'[g].entry.sentToBDN
                 /\ confirming'[g].entry.confirmedMsgSent
              \/ /\ pc[g] = "reread" /\ confirming[g].block \in Blocks
                 /\ confirming'[g].block = confirming[g].block
                 /\ confirming'[g].entry = Reread(g)
                 /\ UNCHANGED <<vars, marked, sent>>
  <2>1. CASE pc[h] = "validate" /\ processBlock(h, block[h])
    BY <1>4, <1>10, <2>1
  <2>2. CASE mergeMetadata(h)
    BY <1>7, <2>2 DEF mergeMetadata
  <2> QED
    BY <1>5, <1>6, <1>8, <1>9, <1>10, <2>1, <2>2 DEF HandlerStep
<1>11. ASSUME NEW h \in Handlers PROVE block[h] \in Seen \/ pc[h] # "validate"
  BY <1>1 DEF HandlersFit, HandlerFits
<1>12. CASE UNCHANGED allVars \/ cleanBlockStorage \/ processBlockFromBlockchain
            \/ \E h \in Handlers, b \in PeerHeads : processStatus(h, b)
  BY <1>2, <1>12 DEF allVars, relayVars, cleanBlockStorage, processBlockFromBlockchain,
     processStatus
<1> QED
  BY <1>4, <1>10, <1>11, <1>12 DEF RelayNext

-----------------------------------------------------------------------------
(* What is stored, with any number of handlers.                            *)

\* Storing an entry keeps the others.
LEMMA StoresFacts ==
    ASSUME TypeOK, NEW h \in Handlers, Stores(h)
    PROVE  /\ metadata'[confirming[h].block] = confirming[h].entry
           /\ confirming[h].entry # None
           /\ \A x \in Blocks : x # confirming[h].block => metadata'[x] = metadata[x]
           /\ UNCHANGED <<chainState, headers, statusHeads, bodies, named>>
<1>1. metadata \in [Blocks -> Metadata \cup {None}]
  BY DEF TypeOK
<1>2. metadata' = [metadata EXCEPT ![confirming[h].block] = confirming[h].entry]
  BY DEF Stores, StoreEntry
<1>3. confirming[h].entry # None
  BY ChainAssumption DEF Stores
<1>4. UNCHANGED <<chainState, headers, statusHeads, bodies, named>>
  BY DEF Stores, StoreKeeps
<1> QED
  BY <1>1, <1>2, <1>3, <1>4 DEF Stores

\* The calls that do not lower a flag.
LEMMA CallsRise ==
    ASSUME ChainInv, StoredInv,
           \/ UNCHANGED vars
           \/ \E b \in Seen : \/ AddBlock(b, "BSBlockchain") \/ ConfirmBlock(b)
                              \/ SetTotalDifficulty(b)
           \/ \E b \in PeerHeads : InitializeDifficulty(b)
           \/ \E b \in Blocks : MarkSentToBDN(b)
    PROVE  MetadataRises /\ StoredInv' /\ named \subseteq named'
<1>1. TypeOK /\ Seen \subseteq Blocks /\ PeerHeads \subseteq Blocks /\ "BSBlockchain" \in Sources
  BY ChainAssumption DEF ChainInv, Sources
<1>2. CASE UNCHANGED vars
  <2>1. MetadataRises /\ UNCHANGED <<headers, bodies, named, statusHeads>>
    BY <1>2 DEF vars, MetadataRises
  <2> QED
    BY <1>1, <2>1, RisesStored
<1>3. ASSUME NEW b \in Seen, AddBlock(b, "BSBlockchain")
      PROVE  MetadataRises /\ StoredInv' /\ named \subseteq named'
  BY <1>1, <1>3, AddBlockStored
<1>4. ASSUME NEW b \in Seen, ConfirmBlock(b)
      PROVE  MetadataRises /\ StoredInv' /\ named \subseteq named'
  <2>1. MetadataRises
    BY <1>1, <1>4, ConfirmRises
  <2> QED
    BY <1>1, <1>4, <2>1, RisesStored DEF ConfirmBlock
<1>5. ASSUME NEW b \in Seen, SetTotalDifficulty(b)
      PROVE  MetadataRises /\ StoredInv' /\ named \subseteq named'
  <2>1. MetadataRises
    BY <1>5 DEF SetTotalDifficulty, MetadataRises
  <2> QED
    BY <1>1, <1>5, <2>1, RisesStored DEF SetTotalDifficulty
<1>6. ASSUME NEW b \in PeerHeads, InitializeDifficulty(b)
      PROVE  MetadataRises /\ StoredInv' /\ named \subseteq named'
  <2>1. MetadataRises
    BY <1>1, <1>6, StoreMetadataRises DEF InitializeDifficulty
  <2> QED
    BY <1>1, <1>6, <2>1, RisesStored DEF InitializeDifficulty
<1>7. ASSUME NEW b \in Blocks, MarkSentToBDN(b)
      PROVE  MetadataRises /\ StoredInv' /\ named \subseteq named'
  <2>1. MetadataRises
    BY <1>1, <1>7, MarkRises
  <2> QED
    BY <1>1, <1>7, <2>1, RisesStored DEF MarkSentToBDN
<1> QED
  BY <1>2, <1>3, <1>4, <1>5, <1>6, <1>7

\* A stored header has metadata and body whatever the handlers write back.
LEMMA StoredStep ==
    ASSUME HandlersInv, StoredInv, [RelayNext]_allVars
    PROVE  StoredInv' /\ named \subseteq named'
<1>1. ChainInv /\ TypeOK
  BY InvParts DEF ChainInv
<1>2. ASSUME NEW h \in Handlers, Stores(h) PROVE StoredInv' /\ named \subseteq named'
  <2>1. /\ \A x \in Blocks : metadata[x] # None => metadata'[x] # None
        /\ UNCHANGED <<headers, statusHeads, bodies, named>>
    BY <1>1, <1>2, StoresFacts
  <2> QED
    BY <1>1, <2>1 DEF StoredInv, Filed, EntriesComplete, TypeOK
<1>3. CASE clean
  BY <1>1, <1>3, CleanStored DEF clean
<1> QED
  BY <1>1, <1>2, <1>3, StoreSteps, CallsRise

\* What a handler is about to store says that the block was confirmed.
StoresConfirmed ==
    \A h \in Handlers : pc[h] \in {"store", "merge"} => confirming[h].entry.confirmedMsgSent

\* Metadata that clean does not find is of a confirmed block.
LEMMA LeakStep ==
    ASSUME HandlersInv, StoredInv, LeakedOnlyConfirmed, StoresConfirmed, [RelayNext]_allVars
    PROVE  LeakedOnlyConfirmed' /\ StoresConfirmed'
<1>1. ChainInv /\ TypeOK /\ LocalTypes /\ HandlersFit
  BY InvParts DEF ChainInv
<1>2. StoresConfirmed'
  <2> SUFFICES ASSUME NEW g \in Handlers, pc'[g] \in {"store", "merge"}
               PROVE  confirming'[g].entry.confirmedMsgSent
    BY DEF StoresConfirmed
  <2>1. CASE pc[g] = pc'[g] /\ confirming'[g] = confirming[g]
    BY <2>1 DEF StoresConfirmed
  <2>2. CASE confirming[g].block \in Blocks /\ confirming'[g].entry = Reread(g)
    BY <1>1, <2>2, RereadFacts
  <2> QED
    BY <2>1, <2>2, ConfirmingSteps
<1>3. LeakedOnlyConfirmed'
  <2> SUFFICES ASSUME NEW x \in Blocks, metadata'[x] # None, x \notin headers' \cup statusHeads'
               PROVE  metadata'[x].confirmedMsgSent
    BY DEF LeakedOnlyConfirmed
  <2>1. ASSUME NEW h \in Handlers, Stores(h) PROVE metadata'[x].confirmedMsgSent
    <3>1. CASE x = confirming[h].block
      BY <1>1, <2>1, <3>1, StoresFacts DEF StoresConfirmed, Stores
    <3>2. CASE x # confirming[h].block
      BY <1>1, <2>1, <3>2, StoresFacts DEF LeakedOnlyConfirmed
    <3> QED
      BY <3>1, <3>2
  <2>2. ASSUME \/ UNCHANGED vars
               \/ \E b \in Seen : \/ AddBlock(b, "BSBlockchain") \/ ConfirmBlock(b)
                                  \/ SetTotalDifficulty(b)
               \/ \E b \in PeerHeads : InitializeDifficulty(b)
               \/ \E b \in Blocks : MarkSentToBDN(b)
               \/ clean
        PROVE  metadata'[x].confirmedMsgSent
    <3>1. Seen \subseteq Blocks /\ "BSBlockchain" \in Sources
      BY ChainAssumption DEF Sources
    <3>2. metadata[x] # None /\ x \notin headers \cup statusHeads
      BY <1>1, <2>2, <3>1, ReachableStep
    <3>3. metadata[x].confirmedMsgSent
      BY <3>2 DEF LeakedOnlyConfirmed
    <3>4. CASE clean
      <4>1. metadata'[x] = metadata[x]
        BY <3>4 DEF clean, pruneHash
      <4> QED
        BY <3>3, <4>1
    <3>5. CASE MetadataRises
      BY <3>2, <3>3, <3>5 DEF MetadataRises
    <3> QED
      BY <1>1, <2>2, <3>4, <3>5, CallsRise
  <2> QED
    BY <2>1, <2>2, StoreSteps
<1> QED
  BY <1>2, <1>3

\* With any number of handlers, the only metadata that a cleanup cannot find is what a
\* handler brought back with its confirm flag.
THEOREM LeaksOnlyConfirmed == RelaySpec => []LeakedOnlyConfirmed
<1>1. RelayInit => StoredInv /\ LeakedOnlyConfirmed /\ StoresConfirmed
  BY DEF RelayInit, Init, StoredInv, Filed, EntriesComplete, LeakedOnlyConfirmed,
         StoresConfirmed
<1>2. HandlersInv /\ [RelayNext]_allVars => HandlersInv'
  BY RelayStepInv
<1>3. HandlersInv /\ StoredInv /\ [RelayNext]_allVars => StoredInv'
  BY StoredStep
<1>4. HandlersInv /\ StoredInv /\ LeakedOnlyConfirmed /\ StoresConfirmed
        /\ [RelayNext]_allVars => LeakedOnlyConfirmed' /\ StoresConfirmed'
  BY LeakStep
<1> QED
  BY RelayInitInv, <1>1, <1>2, <1>3, <1>4, PTL DEF RelaySpec
-----------------------------------------------------------------------------
(* What becomes of a mark.  A block that was marked stays marked, or is so *)
(* far below the head that no reorganization reaches it.                   *)

\* Not canonical, and too low to become canonical again.
Gone(b) ==
    /\ chainState # <<>> /\ Height(b) <= BestHeight - MaxReorg
    /\ \A i \in 1..Len(chainState) : chainState[i] # b

\* Blocks whose mark is there or no longer needed.
MarksSettled == \A b \in marked : b \notin named => HasSentToBDN(b) \/ Gone(b)

\* The metadata that a handler is about to write back carries the mark.
WritesMark(h) ==
    LET b == confirming[h].block
    IN  b \in marked /\ b \notin named => confirming[h].entry.sentToBDN \/ Gone(b)

WritersSettled == \A h \in Handlers : pc[h] = "merge" => WritesMark(h)

\* The inductive invariant.
MarksInv == MarksSettled /\ WritersSettled

-----------------------------------------------------------------------------
(* What updateChainState adds.                                             *)

\* A chain r made of c by adding new heads: nothing further than MaxReorg below the old
\* head is new.
Shape(c, r) ==
    c # <<>> => \A i \in 1..Len(r) : \/ Height(r[i]) > Height(c[1]) - MaxReorg
                                     \/ \E j \in 1..Len(c) : r[i] = c[j]

\* A path of n blocks in front of entries of c.
LEMMA PathShape ==
    ASSUME NEW c \in Seq(Blocks), c # <<>>, NEW b \in Blocks, NEW n \in Nat,
           \A k \in 0..(n - 1) : k <= Height(b) /\ Height(b) - k > Height(c[1]) - MaxReorg,
           NEW d \in Seq(Blocks),
           \A i \in 1..Len(d) : \/ Height(d[i]) > Height(c[1]) - MaxReorg
                                \/ \E j \in 1..Len(c) : d[i] = c[j]
    PROVE  Shape(c, Path(b, n) \o d)
<1> DEFINE p == Path(b, n)
           r == p \o d
<1>1. Height(b) \in Nat /\ \A k \in 0..(n - 1) : /\ Ancestor(b, k) \in Blocks
                                                 /\ Height(Ancestor(b, k)) = Height(b) - k
  <2>1. Height(b) \in Nat
    BY BlocksAssumption DEF Height
  <2>2. ASSUME NEW k \in 0..(n - 1)
        PROVE  Ancestor(b, k) \in Blocks /\ Height(Ancestor(b, k)) = Height(b) - k
    <3>1. k \in 0..Height(b)
      BY <2>1
    <3> QED
      BY <3>1, AncestorFacts
  <2> QED
    BY <2>1, <2>2
<1>2. p \in Seq(Blocks) /\ Len(p) = n /\ \A i \in 1..n : p[i] = Ancestor(b, i - 1)
  <2>1. \A i \in 1..n : i - 1 \in 0..(n - 1)
    OBVIOUS
  <2> QED
    BY <1>1, <2>1 DEF Path
<1> HIDE DEF p
<1>3. /\ Len(r) = n + Len(d) /\ Len(d) \in Nat
      /\ \A i \in 1..n : r[i] = p[i]
      /\ \A i \in 1..Len(d) : r[n + i] = d[i]
  <2>1. Len(r) = n + Len(d)
    BY <1>2, ConcatFacts
  <2>2. Len(d) \in Nat
    OBVIOUS
  <2>3. \A i \in 1..n : r[i] = p[i]
    BY <1>2, ConcatFacts
  <2>4. \A i \in 1..Len(d) : r[n + i] = d[i]
    BY <1>2, ConcatFacts
  <2> QED
    BY <2>1, <2>2, <2>3, <2>4
<1> HIDE DEF r
<1>4. \A i \in 1..n : Height(r[i]) = Height(b) - (i - 1)
  <2> SUFFICES ASSUME NEW i \in 1..n PROVE Height(r[i]) = Height(b) - (i - 1)
    OBVIOUS
  <2>1. i - 1 \in 0..(n - 1)
    OBVIOUS
  <2> QED
    BY <2>1, <1>1, <1>2, <1>3
<1>6. ASSUME NEW i \in 1..Len(r)
      PROVE  \/ Height(r[i]) > Height(c[1]) - MaxReorg
             \/ \E j \in 1..Len(c) : r[i] = c[j]
  <2>1. CASE i <= n
    <3>1. i \in 1..n /\ i - 1 \in 0..(n - 1)
      BY <2>1
    <3> QED
      BY <3>1, <1>4
  <2>2. CASE i > n
    <3>1. i - n \in 1..Len(d) /\ n + (i - n) = i
      BY <1>3, <2>2
    <3>2. r[i] = d[i - n]
      BY <1>3, <3>1
    <3> QED
      BY <3>1, <3>2
  <2> QED
    BY <2>1, <2>2
<1> QED
  BY <1>6 DEF Shape, r, p

\* Nothing added.
LEMMA SameShape ==
    ASSUME NEW c \in Seq(Blocks)
    PROVE  Shape(c, c)
BY DEF Shape

\* A path that is the whole chain.
LEMMA PathAlone ==
    ASSUME NEW c \in Seq(Blocks), c # <<>>, NEW b \in Blocks, NEW n \in Nat,
           \A k \in 0..(n - 1) : k <= Height(b) /\ Height(b) - k > Height(c[1]) - MaxReorg
    PROVE  Shape(c, Path(b, n))
<1>1. Path(b, n) \in Seq(Blocks)
  <2>1. \A i \in 1..n : i - 1 \in 0..Height(b)
    BY BlocksAssumption DEF Height
  <2>2. \A i \in 1..n : Ancestor(b, i - 1) \in Blocks
    BY <2>1, AncestorFacts
  <2> QED
    BY <2>2 DEF Path
<1>2. Path(b, n) \o <<>> = Path(b, n)
  BY <1>1, ConcatEmptySeq
<1>3. <<>> \in Seq(Blocks) /\ Len(<<>>) = 0
  OBVIOUS
<1>4. Shape(c, Path(b, n) \o <<>>)
  <2> DEFINE d == <<>>
  <2>1. d \in Seq(Blocks) /\ \A i \in 1..Len(d) : FALSE
    BY <1>3
  <2> HIDE DEF d
  <2>2. Shape(c, Path(b, n) \o d)
    BY <2>1, PathShape
  <2> QED
    BY <2>2 DEF d
<1> QED
  BY <1>2, <1>4

\* A reorganization reaches no further than MaxReorg below the old head.
LEMMA ReorganizeShape ==
    ASSUME NEW hs \in SUBSET Blocks, NEW c \in Seq(Blocks), c # <<>>,
           NEW b \in Blocks, Gap(c, b) > 0,
           \A k \in 0..(Gap(c, b) - 1) : StoredAncestor(hs, b, k)
    PROVE  Shape(c, reorganize(c, hs, b).chain)
<1> DEFINE gap == Gap(c, b)
           fork == ForkIndex(c, b)
           missing == \E j \in 0..(Smaller(fork, MaxReorg) - 1) : ~StoredAncestor(hs, b, gap + j)
<1>1. /\ gap \in Nat \ {0} /\ Height(b) \in Nat /\ Height(c[1]) \in Nat
      /\ Height(c[1]) = Height(b) - gap /\ Len(c) \in Nat /\ MaxReorg \in Nat \ {0}
  BY SMTT(20), GapFacts, ChainAssumption
<1>2. fork \in 0..Len(c)
  BY ForkIndexFacts
<1>3. ASSUME ~missing, NEW m \in Nat, m <= fork, m <= MaxReorg, NEW k \in 0..((gap + m) - 1)
      PROVE  k <= Height(b) /\ Height(b) - k > Height(c[1]) - MaxReorg
  <2>1. StoredAncestor(hs, b, k)
    <3>1. CASE k < gap
      <4>1. k \in 0..(gap - 1)
        BY <1>1, <3>1
      <4> QED
        BY <4>1
    <3>2. CASE k >= gap
      <4>1. k - gap \in 0..(Smaller(fork, MaxReorg) - 1) /\ gap + (k - gap) = k
        BY <1>1, <1>2, <1>3, <3>2, SMTT(20) DEF Smaller
      <4> QED
        BY <4>1, <1>3
    <3> QED
      BY <1>1, <3>1, <3>2
  <2>2. k <= Height(b)
    BY <2>1 DEF StoredAncestor
  <2> QED
    BY <2>2, <1>1, <1>3
<1>4. CASE missing
  <2>1. reorganize(c, hs, b) = Updated(c, 0)
    BY <1>4 DEF reorganize
  <2> QED
    BY <2>1, SameShape DEF Updated
<1>5. CASE ~missing /\ fork >= MaxReorg
  <2>1. reorganize(c, hs, b) = Updated(Path(b, gap + MaxReorg), gap + MaxReorg)
    BY <1>5 DEF reorganize
  <2>2. gap + MaxReorg \in Nat /\ MaxReorg \in Nat /\ MaxReorg <= fork
    BY <1>1, <1>2, <1>5
  <2>3. \A k \in 0..((gap + MaxReorg) - 1) :
            k <= Height(b) /\ Height(b) - k > Height(c[1]) - MaxReorg
    BY <1>3, <1>5, <2>2
  <2> HIDE DEF gap, fork, missing
  <2> DEFINE n == gap + MaxReorg
  <2>4. n \in Nat /\ \A k \in 0..(n - 1) :
            k <= Height(b) /\ Height(b) - k > Height(c[1]) - MaxReorg
    BY <2>2, <2>3
  <2> HIDE DEF n
  <2>5. Shape(c, Path(b, n))
    BY <2>4, PathAlone
  <2> QED
    BY <2>1, <2>5 DEF Updated, n
<1>6. CASE ~missing /\ ~(fork >= MaxReorg)
  <2> DEFINE d == SubSeq(c, fork + 1, Len(c))
  <2>1. reorganize(c, hs, b) = Updated(Path(b, gap + fork) \o d, gap + fork)
    BY <1>6 DEF reorganize
  <2>2. gap + fork \in Nat /\ fork \in Nat /\ fork <= MaxReorg
    BY <1>1, <1>2, <1>6
  <2>3. \A k \in 0..((gap + fork) - 1) :
            k <= Height(b) /\ Height(b) - k > Height(c[1]) - MaxReorg
    BY <1>3, <1>6, <2>2
  <2>4. d \in Seq(Blocks) /\ \A i \in 1..Len(d) : \E j \in 1..Len(c) : d[i] = c[j]
    <3>1. fork + 1 \in 1..(Len(c) + 1) /\ \A i \in (fork + 1)..Len(c) : c[i] \in Blocks
      BY <1>1, <1>2
    <3>2. d \in Seq(Blocks) /\ Len(d) = Len(c) - fork /\ \A i \in 1..Len(d) : d[i] = c[fork + i]
      BY SMTT(20), <1>1, <1>2, <3>1, SubSeqProperties
    <3>3. ASSUME NEW i \in 1..Len(d) PROVE \E j \in 1..Len(c) : d[i] = c[j]
      <4>1. i \in 1..(Len(c) - fork)
        BY <3>2
      <4>2. fork + i \in 1..Len(c)
        BY <1>1, <1>2, <4>1
      <4> QED
        BY <3>2, <4>2
    <3> QED
      BY <3>2, <3>3
  <2> HIDE DEF gap, fork, missing
  <2> DEFINE n == gap + fork
  <2>5. n \in Nat /\ \A k \in 0..(n - 1) :
            k <= Height(b) /\ Height(b) - k > Height(c[1]) - MaxReorg
    BY <2>2, <2>3
  <2> HIDE DEF n, d
  <2>6. Shape(c, Path(b, n) \o d)
    BY <2>4, <2>5, PathShape
  <2> QED
    BY <2>1, <2>6 DEF Updated, n
<1> QED
  BY <1>4, <1>5, <1>6

\* Every branch of updateChainState.
LEMMA UpdateShape ==
    ASSUME NEW hs \in SUBSET Blocks, NEW c \in Seq(Blocks), NEW b \in Blocks
    PROVE  Shape(c, updateChainState(c, hs, b).chain)
<1>1. CASE c = <<>>
  <2>1. updateChainState(c, hs, b) = Updated(<<b>>, 1)
    BY <1>1 DEF updateChainState
  <2> QED
    BY <1>1, <2>1 DEF Updated, Shape
<1>2. CASE c # <<>>
  <2> DEFINE gap == Gap(c, b)
             base == IF IsAncestor(b, 1, c[1]) THEN <<b>> \o c ELSE c
             missing == \E k \in 0..(Smaller(gap, MinValidChain) - 1) : ~StoredAncestor(hs, b, k)
  <2>1. /\ gap \in Int /\ Height(b) \in Nat /\ Height(c[1]) \in Nat
        /\ Height(c[1]) = Height(b) - gap /\ Len(c) \in Nat \ {0} /\ c[1] \in Blocks
        /\ MaxReorg \in Nat \ {0} /\ MinValidChain \in Nat \ {0}
    BY <1>2, GapFacts, ChainAssumption
  <2>2. CASE gap <= 0
    <3>1. updateChainState(c, hs, b) = Updated(c, 0)
      BY <1>2, <2>2 DEF updateChainState
    <3> QED
      BY <3>1, SameShape DEF Updated
  <2>3. ASSUME gap > 0
        PROVE  /\ base \in Seq(Blocks)
               /\ \A i \in 1..Len(base) : \/ Height(base[i]) > Height(c[1]) - MaxReorg
                                          \/ \E j \in 1..Len(c) : base[i] = c[j]
    <3>1. CASE IsAncestor(b, 1, c[1])
      <4>1. base = <<b>> \o c /\ <<b>> \in Seq(Blocks) /\ Len(<<b>>) = 1
        BY <3>1
      <4>2. /\ base \in Seq(Blocks) /\ Len(base) = 1 + Len(c) /\ base[1] = b
            /\ \A i \in 1..Len(c) : base[1 + i] = c[i]
        BY <4>1
      <4>3. Height(b) > Height(c[1]) - MaxReorg
        BY <2>1, <2>3
      <4>4. ASSUME NEW i \in 1..Len(base)
            PROVE  \/ Height(base[i]) > Height(c[1]) - MaxReorg
                   \/ \E j \in 1..Len(c) : base[i] = c[j]
        <5>1. CASE i = 1
          BY <4>2, <4>3, <5>1
        <5>2. CASE i # 1
          <6>1. i - 1 \in 1..Len(c) /\ 1 + (i - 1) = i
            BY <4>2, <5>2, <2>1
          <6> QED
            BY <4>2, <6>1
        <5> QED
          BY <5>1, <5>2
      <4> QED
        BY <4>2, <4>4
    <3>2. CASE ~IsAncestor(b, 1, c[1])
      BY <3>2
    <3> QED
      BY <3>1, <3>2
  <2>4. ASSUME gap > 0, ~missing, NEW n \in Nat, n <= gap, n <= MinValidChain
        PROVE  \A k \in 0..(n - 1) : /\ k <= Height(b)
                                     /\ Height(b) - k > Height(c[1]) - MaxReorg
    <3> SUFFICES ASSUME NEW k \in 0..(n - 1)
                 PROVE  k <= Height(b) /\ Height(b) - k > Height(c[1]) - MaxReorg
      OBVIOUS
    <3>1. k \in 0..(Smaller(gap, MinValidChain) - 1)
      BY <2>1, <2>4 DEF Smaller
    <3>2. k <= Height(b)
      BY <2>4, <3>1 DEF StoredAncestor
    <3> QED
      BY <2>1, <2>4, <3>2
  <2>5. CASE gap > 0 /\ missing
    <3>1. updateChainState(c, hs, b) = Updated(base, 0)
      BY <1>2, <2>1, <2>5 DEF updateChainState
    <3> HIDE DEF base
    <3>2. Shape(c, base)
      BY <2>3, <2>5 DEF Shape
    <3> QED
      BY <3>1, <3>2 DEF Updated
  <2>6. CASE gap > 0 /\ ~missing /\ gap >= MinValidChain
    <3>1. updateChainState(c, hs, b) = Updated(Path(b, MinValidChain), MinValidChain)
      BY <1>2, <2>1, <2>6 DEF updateChainState
    <3>2. \A k \in 0..(MinValidChain - 1) :
              k <= Height(b) /\ Height(b) - k > Height(c[1]) - MaxReorg
      BY <2>1, <2>4, <2>6
    <3>3. Shape(c, Path(b, MinValidChain))
      BY <1>2, <2>1, <3>2, PathAlone
    <3> QED
      BY <3>1, <3>3 DEF Updated
  <2>7. CASE gap > 0 /\ ~missing /\ ~(gap >= MinValidChain) /\ IsAncestor(b, gap, c[1])
    <3>1. updateChainState(c, hs, b) = Updated(Path(b, gap) \o base, gap)
      BY <1>2, <2>1, <2>7 DEF updateChainState
    <3>2. gap \in Nat /\ gap <= MinValidChain
      BY <2>1, <2>7
    <3>3. \A k \in 0..(gap - 1) : k <= Height(b) /\ Height(b) - k > Height(c[1]) - MaxReorg
      BY <2>1, <2>4, <2>7, <3>2
    <3>4. /\ base \in Seq(Blocks)
          /\ \A i \in 1..Len(base) : \/ Height(base[i]) > Height(c[1]) - MaxReorg
                                     \/ \E j \in 1..Len(c) : base[i] = c[j]
      BY <2>3, <2>7
    <3> HIDE DEF base, gap, missing
    <3>5. Shape(c, Path(b, gap) \o base)
      BY <1>2, <3>2, <3>3, <3>4, PathShape
    <3> QED
      BY <3>1, <3>5 DEF Updated
  <2>8. CASE gap > 0 /\ ~missing /\ ~(gap >= MinValidChain) /\ ~IsAncestor(b, gap, c[1])
    <3>1. updateChainState(c, hs, b) = reorganize(c, hs, b)
      BY <1>2, <2>1, <2>8 DEF updateChainState
    <3>2. \A k \in 0..(gap - 1) : StoredAncestor(hs, b, k)
      BY <2>1, <2>8 DEF Smaller
    <3> QED
      BY <1>2, <2>8, <3>1, <3>2, ReorganizeShape
  <2> QED
    BY <2>1, <2>2, <2>5, <2>6, <2>7, <2>8
<1> QED
  BY <1>1, <1>2
-----------------------------------------------------------------------------
(* What a step leaves of the marks.                                        *)

\* The heights that Gone compares.
LEMMA HeightFacts ==
    ASSUME TypeOK
    PROVE  /\ \A x \in Blocks : Height(x) \in Nat
           /\ BestHeight \in Nat
           /\ MaxReorg \in Nat \ {0} /\ MaxSize \in Nat \ {0}
<1>1. \A x \in Blocks : Height(x) \in Nat
  BY BlocksAssumption DEF Height
<1>2. BestHeight \in Nat
  <2>1. CASE chainState = <<>>
    BY <2>1 DEF BestHeight
  <2>2. CASE chainState # <<>>
    <3>1. chainState[1] \in Blocks
      BY <2>2 DEF TypeOK
    <3> QED
      BY <1>1, <2>2, <3>1 DEF BestHeight
  <2> QED
    BY <2>1, <2>2
<1> QED
  BY <1>1, <1>2, ChainAssumption

\* A block out of reach stays there.
StaysGone == \A x \in Blocks : Gone(x) => Gone(x)'

\* The chain is as it was.
LEMMA SameGone ==
    ASSUME chainState' = chainState
    PROVE  StaysGone
BY DEF StaysGone, Gone, BestHeight

\* The chain is updated.
LEMMA ShapeGone ==
    ASSUME TypeOK, TypeOK', Shape(chainState, chainState'),
           BestHeight' >= BestHeight, chainState # <<>> => chainState' # <<>>
    PROVE  StaysGone
<1> SUFFICES ASSUME NEW x \in Blocks, Gone(x) PROVE Gone(x)'
  BY DEF StaysGone
<1>1. BestHeight \in Nat /\ BestHeight' \in Nat /\ Height(x) \in Nat /\ MaxReorg \in Nat
  <2>1. BestHeight' \in Nat
    <3>1. CASE chainState' = <<>>
      BY <3>1 DEF BestHeight
    <3>2. CASE chainState' # <<>>
      <4>1. chainState'[1] \in Blocks
        BY <3>2 DEF TypeOK
      <4> QED
        BY <3>2, <4>1, HeightFacts DEF BestHeight
    <3> QED
      BY <3>1, <3>2
  <2> QED
    BY <2>1, HeightFacts
<1>2. /\ chainState # <<>> /\ Height(x) <= BestHeight - MaxReorg
      /\ \A i \in 1..Len(chainState) : chainState[i] # x
  BY DEF Gone
<1>3. chainState' # <<>> /\ Height(x) <= BestHeight' - MaxReorg
  BY <1>1, <1>2
<1>4. ASSUME NEW i \in 1..Len(chainState'), chainState'[i] = x PROVE FALSE
  <2>1. \/ Height(chainState'[i]) > Height(chainState[1]) - MaxReorg
        \/ \E j \in 1..Len(chainState) : chainState'[i] = chainState[j]
    BY <1>2 DEF Shape
  <2>2. BestHeight = Height(chainState[1])
    BY <1>2 DEF BestHeight
  <2> QED
    BY <1>1, <1>2, <1>4, <2>1, <2>2
<1> QED
  BY <1>3, <1>4 DEF Gone

\* AddBlock and ConfirmBlock.
LEMMA ChainCallGone ==
    ASSUME ChainInv, NEW b \in Seen, AddBlock(b, "BSBlockchain") \/ ConfirmBlock(b)
    PROVE  StaysGone
<1>1. b \in Blocks /\ TypeOK /\ chainState \in Seq(Blocks) /\ "BSBlockchain" \in Sources
  BY ChainAssumption DEF ChainInv, TypeOK, Sources
<1>2. ChainInv'
  BY <1>1, AddBlockInv, ConfirmBlockInv
<1>3. TypeOK' /\ headers \in SUBSET Blocks /\ headers' \in SUBSET Blocks
  BY <1>1, <1>2 DEF ChainInv, TypeOK
<1>4. BestHeight' >= BestHeight /\ (chainState # <<>> => chainState' # <<>>)
  <2>1. Next
    BY <1>1 DEF Next
  <2> QED
    BY <2>1, StepInv
<1>5. chainState' = chainState \/ Shape(chainState, chainState')
  <2>1. CASE AddBlock(b, "BSBlockchain")
    <3>1. chainState' = updateChainState(chainState, headers', b).chain
      BY <2>1 DEF AddBlock
    <3> QED
      BY <1>1, <1>3, <3>1, UpdateShape
  <2>2. CASE ConfirmBlock(b)
    <3>1. chainState' = chainState \/ chainState' = updateChainState(chainState, headers, b).chain
      BY <2>2 DEF ConfirmBlock
    <3> QED
      BY <1>1, <1>3, <3>1, UpdateShape
  <2> QED
    BY <2>1, <2>2
<1> QED
  BY <1>1, <1>3, <1>4, <1>5, SameGone, ShapeGone

\* clean drops what is MaxSize below the head, which a reorganization does not reach.
LEMMA CleanGone ==
    ASSUME ChainInv, StoredInv, clean
    PROVE  /\ StaysGone
           /\ \A x \in Blocks : x \notin named => HasSentToBDN(x)' \/ Gone(x)' \/ ~HasSentToBDN(x)
<1>1. /\ ChainInv' /\ chainState # <<>> /\ chainState' # <<>>
      /\ chainState'[1] = chainState[1] /\ TypeOK /\ TypeOK'
  BY CleanInv DEF ChainInv
<1>2. BestHeight' = BestHeight /\ BestHeight = Height(chainState[1])
  BY <1>1 DEF BestHeight
<1>3. ASSUME NEW x \in Blocks, x \notin named, metadata'[x] # metadata[x] PROVE Gone(x)'
  <2>1. x \in Evicted
    BY <1>3 DEF clean, pruneHash
  <2>2. x \in headers /\ Height(x) < minHeight
    BY <1>3, <2>1 DEF Evicted, StoredInv, Filed
  <2>3. /\ Height(x) \in Nat /\ BestHeight \in Nat /\ MaxReorg \in Nat /\ MaxSize \in Nat
        /\ minHeight = BestHeight - MaxSize + 1 /\ MaxReorg <= MaxSize
    BY <1>1, <1>2, HeightFacts, RelayAssumption DEF minHeight
  <2>4. Height(x) <= BestHeight' - MaxReorg
    BY <1>2, <2>2, <2>3
  <2>5. x \notin headers'
    BY <2>2, <2>3 DEF clean
  <2>6. \A i \in 1..Len(chainState') : chainState'[i] # x
    BY <1>1, <2>5 DEF ChainInv, HeadersStored
  <2> QED
    BY <1>1, <2>4, <2>6 DEF Gone
<1>4. ASSUME NEW x \in Blocks, Gone(x) PROVE Gone(x)'
  <2>1. \A i \in 1..Len(chainState') : \E j \in 1..Len(chainState) : chainState'[i] = chainState[j]
    <3> DEFINE k == Smaller(Len(chainState), MaxSize)
    <3>1. chainState \in Seq(Blocks) /\ Len(chainState) \in Nat /\ k \in 0..Len(chainState)
      BY <1>1, HeightFacts DEF TypeOK, Smaller
    <3>2. chainState' = SubSeq(chainState, 1, k)
      BY DEF clean, Truncate
    <3> HIDE DEF k
    <3>3. Len(chainState') = k /\ \A i \in 1..k : chainState'[i] = chainState[i]
      BY <3>1, <3>2
    <3> QED
      BY <3>1, <3>3
  <2> QED
    BY <1>1, <1>2, <1>4, <2>1 DEF Gone
<1>5. StaysGone
  BY <1>4 DEF StaysGone
<1> QED
  BY <1>3, <1>5 DEF HasSentToBDN

\* Every step of the relay keeps what is out of reach there.
LEMMA GoneStep ==
    ASSUME HandlersInv, StoredInv, [RelayNext]_allVars
    PROVE  StaysGone
<1>1. ChainInv /\ TypeOK
  BY InvParts DEF ChainInv
<1>2. CASE clean
  BY <1>1, <1>2, CleanGone
<1>3. ASSUME NEW b \in Seen, AddBlock(b, "BSBlockchain") \/ ConfirmBlock(b) PROVE StaysGone
  BY <1>1, <1>3, ChainCallGone
<1>4. CASE chainState' = chainState
  BY <1>4, SameGone
<1> QED
  BY <1>1, <1>2, <1>3, <1>4, StoreSteps, StoresFacts
     DEF vars, SetTotalDifficulty, InitializeDifficulty, MarkSentToBDN

\* Who adds to marked: a handler that marks a block which nobody is about to write back.
LEMMA MarkedSteps ==
    ASSUME HandlersInv, [RelayNext]_allVars
    PROVE  \/ marked' = marked
           \/ \E x \in Blocks : /\ marked' = marked \cup {x} /\ MarkSentToBDN(x)
                                /\ ~WritingBack(x)
                                /\ UNCHANGED confirming
                                /\ \A g \in Handlers : pc'[g] = "merge" => pc[g] = "merge"
<1>1. LocalTypes /\ HandlersFit
  BY InvParts
<1>2. ASSUME NEW h \in Handlers, markSentToBDN(h)
      PROVE  \/ marked' = marked
             \/ \E x \in Blocks : /\ marked' = marked \cup {x} /\ MarkSentToBDN(x)
                                  /\ ~WritingBack(x)
                                  /\ UNCHANGED confirming
                                  /\ \A g \in Handlers : pc'[g] = "merge" => pc[g] = "merge"
  <2>1. newHeads[h].blocks # <<>> /\ newHeads[h] \in Heads
    BY <1>1, <1>2, Same DEF markSentToBDN, HandlersFit, HandlerFits
  <2>2. LastHead(h) \in Blocks
    BY <2>1, HeadsLeft DEF LastHead
  <2>3. UNCHANGED confirming /\ \A g \in Handlers : pc'[g] = "merge" => pc[g] = "merge"
    BY <1>1, <1>2 DEF markSentToBDN, Goto, LocalTypes
  <2>4. \/ marked' = marked
        \/ /\ marked' = marked \cup {LastHead(h)} /\ MarkSentToBDN(LastHead(h))
           /\ ~WritingBack(LastHead(h))
    BY <1>2 DEF markSentToBDN
  <2> QED
    BY <2>2, <2>3, <2>4
<1>3. ASSUME NEW h \in Handlers, HandlerStep(h), ~markSentToBDN(h) PROVE marked' = marked
  BY <1>3 DEF HandlerStep, processBlock, addBlock, confirmBlock, fetchNewHeads, sendNewHead,
     confirmToGateway, storeConfirmedMsgSent, rereadMetadata, mergeMetadata, StoreKeeps,
     broadcastBlock
<1>4. ASSUME NEW h \in Handlers, NEW b \in Seen,
             \/ processBlockComponents(h, b) \/ processBlock(h, b)
             \/ processBlockAnnouncement(h, b) \/ processBlockHeaders(h, b)
      PROVE  marked' = marked
  BY <1>4 DEF processBlockComponents, processBlock, processBlockAnnouncement,
     processBlockHeaders, StartConfirm
<1>5. CASE UNCHANGED allVars \/ cleanBlockStorage \/ processBlockFromBlockchain
           \/ \E h \in Handlers, b \in PeerHeads : processStatus(h, b)
  BY <1>5 DEF allVars, relayVars, cleanBlockStorage, processBlockFromBlockchain, processStatus
<1> QED
  BY <1>2, <1>3, <1>4, <1>5 DEF RelayNext

\* A marked block stays marked, or goes out of reach.
LEMMA MarksStep ==
    ASSUME HandlersInv, StoredInv, MarksInv, [RelayNext]_allVars
    PROVE  MarksInv'
<1>1. ChainInv /\ TypeOK /\ LocalTypes /\ ChannelsFit
  BY InvParts DEF ChainInv
<1>2. StaysGone /\ named \subseteq named' /\ marked \subseteq Blocks
  BY <1>1, GoneStep, StoredStep DEF ChannelsFit
<1>3. ASSUME NEW b \in marked, b \notin named' PROVE HasSentToBDN(b)' \/ Gone(b)'
  <2>1. b \in Blocks /\ b \notin named /\ (HasSentToBDN(b) \/ Gone(b))
    BY <1>2, <1>3 DEF MarksInv, MarksSettled
  <2>2. CASE Gone(b)
    BY <1>2, <2>1, <2>2 DEF StaysGone
  <2>3. CASE HasSentToBDN(b)
    <3>1. ASSUME NEW h \in Handlers, Stores(h) PROVE HasSentToBDN(b)' \/ Gone(b)'
      <4>1. CASE b # confirming[h].block
        BY <1>1, <2>1, <2>3, <3>1, <4>1, StoresFacts DEF HasSentToBDN
      <4>2. CASE b = confirming[h].block
        <5>1. pc[h] = "merge"
          BY <2>3, <3>1, <4>2 DEF Stores, HasSentToBDN
        <5>2. confirming[h].entry.sentToBDN \/ Gone(b)
          BY <1>3, <2>1, <4>2, <5>1 DEF MarksInv, WritersSettled, WritesMark
        <5>3. metadata'[b] = confirming[h].entry /\ confirming[h].entry # None
          BY <1>1, <3>1, <4>2, StoresFacts
        <5> QED
          BY <2>2, <5>2, <5>3 DEF HasSentToBDN
      <4> QED
        BY <4>1, <4>2
    <3>2. CASE clean
      BY <1>1, <2>1, <2>3, <3>2, CleanGone
    <3>3. CASE MetadataRises
      BY <2>1, <2>3, <3>3 DEF MetadataRises, HasSentToBDN
    <3> QED
      BY <1>1, <3>1, <3>2, <3>3, StoreSteps, CallsRise
  <2> QED
    BY <2>1, <2>2, <2>3
<1>4. MarksSettled'
  <2> SUFFICES ASSUME NEW b \in marked', b \notin named' PROVE HasSentToBDN(b)' \/ Gone(b)'
    BY DEF MarksSettled
  <2>1. ASSUME NEW x \in Blocks, MarkSentToBDN(x) PROVE HasSentToBDN(x)'
    BY <1>1, <2>1, MarkRises DEF HasSentToBDN
  <2> QED
    BY <1>3, <2>1, MarkedSteps
<1>5. WritersSettled'
  <2> SUFFICES ASSUME NEW g \in Handlers, NEW y, pc'[g] = "merge", y = confirming'[g].block,
                      y \in marked', y \notin named'
               PROVE  confirming'[g].entry.sentToBDN \/ Gone(y)'
    BY DEF WritersSettled, WritesMark
  <2>1. CASE pc[g] = "merge" /\ confirming'[g] = confirming[g]
    <3>1. y \in marked /\ y = confirming[g].block
      BY <2>1, MarkedSteps DEF WritingBack
    <3>2. confirming[g].entry.sentToBDN \/ Gone(y)
      BY <1>2, <2>1, <3>1 DEF MarksInv, WritersSettled, WritesMark
    <3>3. Gone(y) => Gone(y)'
      BY <1>2, <3>1 DEF StaysGone
    <3> QED
      BY <2>1, <3>2, <3>3
  <2>2. CASE /\ pc[g] = "reread" /\ confirming[g].block \in Blocks
             /\ confirming'[g].block = confirming[g].block
             /\ confirming'[g].entry = Reread(g)
             /\ UNCHANGED <<vars, marked, sent>>
    <3>1. HasSentToBDN(y) \/ Gone(y)
      BY <2>2 DEF vars, MarksInv, MarksSettled
    <3>2. CASE HasSentToBDN(y)
      BY <1>1, <2>2, <3>2, RereadFacts
    <3>3. CASE Gone(y)
      BY <1>2, <2>2, <3>3 DEF StaysGone
    <3> QED
      BY <3>1, <3>2, <3>3
  <2> QED
    BY <2>1, <2>2, ConfirmingSteps
<1> QED
  BY <1>4, <1>5 DEF MarksInv

\* What is read from the chain is neither marked nor out of reach.
LEMMA FetchUnmarked ==
    ASSUME HandlersInv, MarksInv, [RelayNext]_allVars, NEW h \in Handlers,
           pc[h] = "fetch", pc'[h] # "fetch"
    PROVE  NoneMarkedBefore(newHeads'[h].blocks)
<1>1. ChainInv /\ TypeOK /\ LocalTypes /\ newHeads[h].count \in Nat
  BY InvParts DEF ChainInv, LocalTypes, Heads
<1>2. fetchNewHeads(h)
  <2>1. ASSUME NEW g \in Handlers, NEW p, pc' = [pc EXCEPT ![g] = p], pc[g] # "fetch" PROVE FALSE
    BY <1>1, <2>1 DEF LocalTypes
  <2>2. ASSUME UNCHANGED pc PROVE FALSE
    BY <2>2
  <2>3. CASE UNCHANGED allVars \/ cleanBlockStorage \/ processBlockFromBlockchain
             \/ \E g \in Handlers, b \in PeerHeads : processStatus(g, b)
    BY <2>2, <2>3 DEF allVars, relayVars, cleanBlockStorage, processBlockFromBlockchain,
       processStatus
  <2>4. ASSUME NEW g \in Handlers, NEW b \in Seen,
               \/ processBlockComponents(g, b) \/ processBlock(g, b)
               \/ processBlockAnnouncement(g, b) \/ processBlockHeaders(g, b)
        PROVE  FALSE
    BY <2>1, <2>4 DEF processBlockComponents, processBlock, processBlockAnnouncement,
       processBlockHeaders, StartConfirm, Goto
  <2>5. ASSUME NEW g \in Handlers, HandlerStep(g) PROVE fetchNewHeads(g)
    BY <2>1, <2>2, <2>5 DEF HandlerStep, processBlock, addBlock, confirmBlock, sendNewHead,
       markSentToBDN, confirmToGateway, storeConfirmedMsgSent, rereadMetadata, mergeMetadata,
       StoreEntry, broadcastBlock, Finish, Goto
  <2>6. ASSUME NEW g \in Handlers, fetchNewHeads(g) PROVE g = h
    BY <1>1, <2>6 DEF fetchNewHeads, Goto, LocalTypes
  <2> QED
    BY <2>3, <2>4, <2>5, <2>6 DEF RelayNext
<1>3. PICK n \in 0..Smaller(newHeads[h].count, Len(chainState)) :
        /\ GetNewHeadsForBDN(newHeads[h].count) = SubSeq(chainState, 1, n)
        /\ \A i \in 1..n : /\ metadata[chainState[i]] # None
                           /\ ~metadata[chainState[i]].sentToBDN
  BY <1>1, NewHeadsArePrefix
<1>4. /\ chainState \in Seq(Blocks) /\ Len(chainState) \in Nat /\ n \in Nat
      /\ n <= Len(chainState)
  BY <1>1, <1>3 DEF TypeOK, Smaller
<1> DEFINE B == newHeads'[h].blocks
<1>5. Len(B) = n /\ \A i \in 1..n : B[i] = chainState[i]
  <2>1. B = SubSeq(chainState, 1, n)
    BY <1>1, <1>2, <1>3 DEF fetchNewHeads, LocalTypes
  <2> QED
    BY <1>4, <2>1
<1>6. ASSUME NEW i \in 1..n PROVE chainState[i] \notin marked \ named
  <2>1. i \in 1..Len(chainState) /\ ~HasSentToBDN(chainState[i])
    BY <1>3, <1>4 DEF HasSentToBDN
  <2> QED
    BY <2>1 DEF MarksInv, MarksSettled, Gone
<1> HIDE DEF B
<1>7. NoneMarkedBefore(B)
  BY <1>5, <1>6 DEF NoneMarkedBefore
<1> QED
  BY <1>7 DEF B

\* MarkSentToBDN, "so it does not need to be sent again in the future": with any number of
\* handlers, reorganizations and cleanups that forget the mark, no handler reads a marked
\* block back to send it.  clean keeps at least as many heights as a reorganization may go
\* back (500 and 20 in chain.go), which is what makes forgetting harmless.
THEOREM MarkedBlocksNotResent == RelaySpec => MarkedNotResent
<1>1. RelayInit => StoredInv /\ MarksInv
  BY DEF RelayInit, Init, StoredInv, Filed, EntriesComplete, MarksInv, MarksSettled,
         WritersSettled
<1>2. HandlersInv /\ [RelayNext]_allVars => HandlersInv'
  BY RelayStepInv
<1>3. HandlersInv /\ StoredInv /\ [RelayNext]_allVars => StoredInv'
  BY StoredStep
<1>4. HandlersInv /\ StoredInv /\ MarksInv /\ [RelayNext]_allVars => MarksInv'
  BY MarksStep
<1>5. HandlersInv /\ MarksInv /\ [RelayNext]_allVars
        => [\A h \in Handlers : pc[h] = "fetch" /\ pc'[h] # "fetch"
                                   => NoneMarkedBefore(newHeads'[h].blocks)]_allVars
  BY FetchUnmarked
<1> QED
  BY RelayInitInv, <1>1, <1>2, <1>3, <1>4, <1>5, PTL DEF RelaySpec, MarkedNotResent
-----------------------------------------------------------------------------
(* The head.  A handler that made a new head has counted it, and whoever   *)
(* reads the chain after that finds the head of that moment.               *)

\* The handler will read the head, or has it in hand.
Pending(h) ==
    \/ pc[h] = "fetch" /\ newHeads[h].count > 0
    \/ /\ pc[h] \in {"send", "mark"} /\ newHeads[h].blocks # <<>>
       /\ newHeads[h].blocks[1] = chainState[1]

\* The block was put on the channel to the BDN, or that was full.
Tried(b) == b \in sent \/ b \in refused

HeadOnItsWay ==
    chainState # <<>> /\ chainState[1] \notin named
        => Tried(chainState[1]) \/ \E h \in Handlers : Pending(h)

\* Nothing is marked that was not sent.
MarkedWereSent ==
    /\ \A x \in Blocks : HasSentToBDN(x) => x \in sent
    /\ \A h \in Handlers : pc[h] = "mark" => LastHead(h) \in sent

\* Nor is a mark written back that was not.
WrittenWereSent ==
    \A h \in Handlers : pc[h] \in {"store", "merge"} /\ confirming[h].entry.sentToBDN
                           => confirming[h].block \in sent

\* The inductive invariant.
HeadInv == MarkedWereSent /\ HeadOnItsWay

NoNewMarks == \A x \in Blocks : HasSentToBDN(x)' => HasSentToBDN(x) \/ x \in sent

\* A new head is counted.
LEMMA NewHeadCounted ==
    ASSUME NEW c \in Seq(Blocks), NEW hs \in SUBSET Blocks, NEW b \in Blocks, b \in hs
    PROVE  \/ updateChainState(c, hs, b).added > 0
           \/ updateChainState(c, hs, b).chain = c
<1>1. CASE c = <<>>
  BY <1>1 DEF updateChainState, Updated
<1>2. CASE c # <<>>
  <2> DEFINE gap == Gap(c, b)
             fork == ForkIndex(c, b)
             base == IF IsAncestor(b, 1, c[1]) THEN <<b>> \o c ELSE c
             missing == \E k \in 0..(Smaller(gap, MinValidChain) - 1) : ~StoredAncestor(hs, b, k)
             u == updateChainState(c, hs, b)
  <2>1. /\ gap \in Int /\ fork \in Nat
        /\ MaxReorg \in Nat \ {0} /\ MinValidChain \in Nat \ {0}
    BY <1>2, GapFacts, ForkIndexFacts, ChainAssumption
  <2>2. CASE gap <= 0
    <3>1. u = Updated(c, 0)
      BY <1>2, <2>2 DEF updateChainState
    <3> QED
      BY <3>1 DEF Updated
  <2>3. CASE gap > 0 /\ missing
    <3>1. u = Updated(base, 0)
      BY <1>2, <2>1, <2>3 DEF updateChainState
    <3>2. PICK k \in 0..(Smaller(gap, MinValidChain) - 1) : ~StoredAncestor(hs, b, k)
      BY <2>3
    <3>3. k # 0
      <4>1. StoredAncestor(hs, b, 0)
        <5>1. Height(b) \in Nat /\ Ancestor(b, 0) = b
          BY AncestorZero, BlocksAssumption DEF Height
        <5> QED
          BY <5>1 DEF StoredAncestor
      <4> QED
        BY <3>2, <4>1
    <3>4. gap # 1
      BY <2>1, <3>2, <3>3 DEF Smaller
    <3>5. ~IsAncestor(b, 1, c[1])
      <4> SUFFICES ASSUME IsAncestor(b, 1, c[1]) PROVE gap = 1
        BY <3>4
      <4>1. Height(b) \in Nat /\ 1 \in 0..Height(b) /\ c[1] = Ancestor(b, 1)
        BY BlocksAssumption DEF IsAncestor, Height
      <4>2. Height(c[1]) = Height(b) - 1
        BY <4>1, AncestorFacts
      <4> QED
        BY <4>1, <4>2 DEF Gap
    <3> QED
      BY <3>1, <3>5 DEF Updated
  <2>4. CASE gap > 0 /\ ~missing /\ gap >= MinValidChain
    <3>1. u = Updated(Path(b, MinValidChain), MinValidChain)
      BY <1>2, <2>1, <2>4 DEF updateChainState
    <3> QED
      BY <2>1, <3>1 DEF Updated
  <2>5. CASE gap > 0 /\ ~missing /\ ~(gap >= MinValidChain) /\ IsAncestor(b, gap, c[1])
    <3>1. u = Updated(Path(b, gap) \o base, gap)
      BY <1>2, <2>1, <2>5 DEF updateChainState
    <3> QED
      BY <2>5, <3>1 DEF Updated
  <2>6. CASE gap > 0 /\ ~missing /\ ~(gap >= MinValidChain) /\ ~IsAncestor(b, gap, c[1])
    <3>1. u = reorganize(c, hs, b)
      BY <1>2, <2>1, <2>6 DEF updateChainState
    <3>2. gap + MaxReorg > 0 /\ gap + fork > 0
      BY <2>1, <2>6
    <3>3. \/ reorganize(c, hs, b) = Updated(c, 0)
          \/ \E r : \/ reorganize(c, hs, b) = Updated(r, gap + MaxReorg)
                   \/ reorganize(c, hs, b) = Updated(r, gap + fork)
      BY Zenon DEF reorganize
    <3> HIDE DEF u, gap, fork
    <3> QED
      BY <3>1, <3>2, <3>3 DEF Updated, u
  <2> QED
    BY <2>1, <2>2, <2>3, <2>4, <2>5, <2>6
<1> QED
  BY <1>1, <1>2

\* storeBlockMetadata and ConfirmBlock mark nothing as sent.
LEMMA StoreMarksNothing ==
    ASSUME TypeOK, NEW b \in Blocks, NEW n \in Nat, NEW f \in BOOLEAN, NEW g \in BOOLEAN,
           metadata' = storeBlockMetadata(metadata, b, n, f, g)
    PROVE  NoNewMarks
<1> DEFINE v == IF metadata[b] = None
                THEN [height |-> n, sentToBDN |-> FALSE, confirmed |-> f,
                      confirmedMsgSent |-> g]
                ELSE [metadata[b] EXCEPT !.confirmed = metadata[b].confirmed \/ f,
                         !.confirmedMsgSent = metadata[b].confirmedMsgSent \/ g]
<1>1. metadata \in [Blocks -> Metadata \cup {None}]
  BY DEF TypeOK
<1>2. metadata' = [metadata EXCEPT ![b] = v]
  BY DEF storeBlockMetadata
<1>3. v.sentToBDN => metadata[b] # None /\ metadata[b].sentToBDN
  <2>1. CASE metadata[b] = None
    BY <2>1
  <2>2. CASE metadata[b] # None
    <3>1. metadata[b] \in Metadata
      BY <1>1, <2>2
    <3> QED
      BY <2>2, <3>1 DEF Metadata
  <2> QED
    BY <2>1, <2>2
<1> HIDE DEF v
<1> QED
  BY <1>1, <1>2, <1>3 DEF NoNewMarks, HasSentToBDN

\* The flag of ConfirmBlock is another one.
LEMMA ConfirmMarksNothing ==
    ASSUME TypeOK, NEW b \in Blocks, ConfirmBlock(b)
    PROVE  NoNewMarks
<1> DEFINE v == [metadata[b] EXCEPT !.confirmed = TRUE]
<1>1. metadata \in [Blocks -> Metadata \cup {None}] /\ metadata[b] \in Metadata
  BY DEF TypeOK, ConfirmBlock
<1>2. v.sentToBDN = metadata[b].sentToBDN /\ metadata' = [metadata EXCEPT ![b] = v]
  BY <1>1 DEF ConfirmBlock, Metadata
<1>3. metadata[b] # None
  BY DEF ConfirmBlock
<1> HIDE DEF v
<1> QED
  BY <1>1, <1>2, <1>3 DEF NoNewMarks, HasSentToBDN

\* What is sent stays so.
LEMMA SentStays ==
    ASSUME [RelayNext]_allVars
    PROVE  sent \subseteq sent'
<1>1. ASSUME NEW h \in Handlers, HandlerStep(h) PROVE sent \subseteq sent'
  BY <1>1 DEF HandlerStep, processBlock, addBlock, confirmBlock, fetchNewHeads, sendNewHead,
     markSentToBDN, confirmToGateway, storeConfirmedMsgSent, rereadMetadata, mergeMetadata,
     StoreKeeps, broadcastBlock
<1>2. ASSUME NEW h \in Handlers, NEW b \in Seen,
             \/ processBlockComponents(h, b) \/ processBlock(h, b)
             \/ processBlockAnnouncement(h, b) \/ processBlockHeaders(h, b)
      PROVE  sent \subseteq sent'
  BY <1>2 DEF processBlockComponents, processBlock, processBlockAnnouncement,
     processBlockHeaders, StartConfirm
<1>3. CASE UNCHANGED allVars \/ cleanBlockStorage \/ processBlockFromBlockchain
           \/ \E h \in Handlers, b \in PeerHeads : processStatus(h, b)
  BY <1>3 DEF allVars, relayVars, cleanBlockStorage, processBlockFromBlockchain, processStatus
<1> QED
  BY <1>1, <1>2, <1>3 DEF RelayNext

\* What is read to be written back was marked, and so was sent.
LEMMA WrittenStep ==
    ASSUME HandlersInv, HeadInv, WrittenWereSent, [RelayNext]_allVars
    PROVE  WrittenWereSent'
<1> SUFFICES ASSUME NEW g \in Handlers, pc'[g] \in {"store", "merge"},
                    confirming'[g].entry.sentToBDN
             PROVE  confirming'[g].block \in sent'
  BY DEF WrittenWereSent
<1>1. TypeOK /\ LocalTypes /\ sent \subseteq sent'
  BY InvParts, SentStays DEF ChainInv
<1>2. CASE pc[g] = pc'[g] /\ confirming'[g] = confirming[g]
  BY <1>1, <1>2 DEF WrittenWereSent
<1>3. CASE /\ confirming[g].block \in Blocks /\ confirming'[g].block = confirming[g].block
           /\ confirming'[g].entry = Reread(g)
  <2>1. HasSentToBDN(confirming[g].block)
    BY <1>1, <1>3, RereadFacts
  <2> QED
    BY <1>1, <1>3, <2>1 DEF HeadInv, MarkedWereSent
<1> QED
  BY <1>2, <1>3, ConfirmingSteps

\* A step after which the same head is as far on its way as before, or a new one is.
LEMMA WayKept ==
    ASSUME HeadInv, NoNewMarks, UNCHANGED <<sent, refused>>, named \subseteq named',
           \A g \in Handlers : pc'[g] = "mark" => pc[g] = "mark" /\ newHeads'[g] = newHeads[g],
           \/ /\ chainState' # <<>> => chainState # <<>> /\ chainState'[1] = chainState[1]
              /\ \A g \in Handlers : Pending(g) =>
                    pc'[g] = pc[g] /\ newHeads'[g] = newHeads[g]
           \/ \E g \in Handlers : Pending(g)'
    PROVE  HeadInv'
<1>1. MarkedWereSent'
  BY DEF HeadInv, MarkedWereSent, NoNewMarks, LastHead
<1>2. HeadOnItsWay'
  BY DEF HeadInv, HeadOnItsWay, Tried, Pending
<1> QED
  BY <1>1, <1>2 DEF HeadInv

\* Steps that leave the chain, what was sent and the heads in hand alone; a handler that
\* moves on had no head to send.
LEMMA QuietWay ==
    ASSUME LocalTypes, HeadInv, NoNewMarks, NEW h \in Handlers, NEW p,
           pc' = [pc EXCEPT ![h] = p], p # "mark", newHeads' = newHeads,
           ~Pending(h) \/ p = pc[h], named \subseteq named',
           UNCHANGED <<sent, refused, chainState>>
    PROVE  HeadInv'
<1>1. \A g \in Handlers : pc'[g] = IF g = h THEN p ELSE pc[g]
  BY DEF LocalTypes
<1>2. \A g \in Handlers : Pending(g) => pc'[g] = pc[g] /\ newHeads'[g] = newHeads[g]
  BY <1>1
<1>3. \A g \in Handlers : pc'[g] = "mark" => pc[g] = "mark" /\ newHeads'[g] = newHeads[g]
  BY <1>1
<1> QED
  BY <1>2, <1>3, WayKept

\* Nothing is marked when the store stays as it is.
LEMMA SameMarks ==
    ASSUME UNCHANGED vars
    PROVE  NoNewMarks /\ UNCHANGED <<chainState, metadata, named>>
BY DEF vars, NoNewMarks, HasSentToBDN

\* Messages that start a handler, and the forwarding at the end.
LEMMA OutsideWay ==
    ASSUME HandlersInv, HeadInv, NEW h \in Handlers,
           \/ \E b \in PeerHeads : processStatus(h, b)
           \/ \E b \in Seen : \/ processBlockComponents(h, b) \/ processBlock(h, b)
                              \/ processBlockAnnouncement(h, b) \/ processBlockHeaders(h, b)
           \/ confirmToGateway(h)
           \/ broadcastBlock(h)
    PROVE  HeadInv'
<1>1. ChainInv /\ LocalTypes /\ TypeOK
  BY InvParts DEF ChainInv
<1>2. PeerHeads \subseteq Blocks
  BY ChainAssumption
<1>3. NoNewMarks /\ UNCHANGED chainState /\ named \subseteq named'
  <2>1. CASE UNCHANGED vars
    BY <2>1, SameMarks
  <2>2. ASSUME NEW b \in PeerHeads, InitializeDifficulty(b)
        PROVE  NoNewMarks /\ UNCHANGED chainState /\ named \subseteq named'
    <3>1. NoNewMarks
      BY <1>1, <1>2, <2>2, StoreMarksNothing DEF InitializeDifficulty
    <3> QED
      BY <2>2, <3>1 DEF InitializeDifficulty
  <2>3. ASSUME NEW b \in Seen, SetTotalDifficulty(b)
        PROVE  NoNewMarks /\ UNCHANGED chainState /\ named \subseteq named'
    BY <2>3 DEF SetTotalDifficulty, NoNewMarks, HasSentToBDN
  <2> QED
    BY <2>1, <2>2, <2>3 DEF processStatus, processBlockComponents, processBlock,
       processBlockAnnouncement, processBlockHeaders, StartConfirm, confirmToGateway,
       broadcastBlock
<1>4. UNCHANGED <<sent, refused, newHeads>>
  BY DEF processStatus, relayVars, processBlockComponents, processBlock,
     processBlockAnnouncement, processBlockHeaders, StartConfirm, confirmToGateway,
     broadcastBlock
<1>5. ~Pending(h) \/ UNCHANGED pc
  BY DEF Pending, processStatus, processBlockComponents, processBlock, relayVars,
     processBlockAnnouncement, processBlockHeaders, StartConfirm, confirmToGateway,
     broadcastBlock
<1>6. UNCHANGED pc \/ \E p \in Steps : p # "mark" /\ pc' = [pc EXCEPT ![h] = p]
  BY DEF processStatus, processBlockComponents, processBlock, relayVars, Goto, Finish, Steps,
     processBlockAnnouncement, processBlockHeaders, StartConfirm, confirmToGateway,
     broadcastBlock
<1>7. CASE UNCHANGED pc
  BY <1>3, <1>4, <1>7, WayKept
<1>8. CASE ~Pending(h) /\ \E p \in Steps : p # "mark" /\ pc' = [pc EXCEPT ![h] = p]
  BY <1>1, <1>3, <1>4, <1>8, QuietWay
<1> QED
  BY <1>5, <1>6, <1>7, <1>8

\* The flag of the confirm message, stored without the lock.
LEMMA StoreWay ==
    ASSUME HandlersInv, HeadInv, WrittenWereSent, NEW h \in Handlers,
           storeConfirmedMsgSent(h) \/ rereadMetadata(h) \/ mergeMetadata(h)
    PROVE  HeadInv'
<1>1. LocalTypes /\ HandlersFit /\ TypeOK /\ pc[h] \in {"store", "reread", "merge"}
  BY InvParts DEF ChainInv, storeConfirmedMsgSent, rereadMetadata, mergeMetadata
<1>2. confirming[h].block \in Blocks
  BY <1>1 DEF HandlersFit, HandlerFits
<1>3. NoNewMarks
  <2>1. CASE StoreEntry(h) /\ pc[h] \in {"store", "merge"}
    <3>1. /\ metadata \in [Blocks -> Metadata \cup {None}]
          /\ metadata' = [metadata EXCEPT ![confirming[h].block] = confirming[h].entry]
      BY <1>1, <2>1 DEF StoreEntry, TypeOK
    <3>2. confirming[h].entry.sentToBDN => confirming[h].block \in sent
      BY <2>1 DEF WrittenWereSent
    <3> QED
      BY <1>2, <3>1, <3>2 DEF NoNewMarks, HasSentToBDN
  <2>2. CASE UNCHANGED metadata
    BY <2>2 DEF NoNewMarks, HasSentToBDN
  <2> QED
    BY <2>1, <2>2 DEF storeConfirmedMsgSent, rereadMetadata, mergeMetadata
<1>4. UNCHANGED <<chainState, named, sent, refused, newHeads>>
  BY DEF storeConfirmedMsgSent, rereadMetadata, mergeMetadata, StoreKeeps
<1>5. PICK p \in {"idle", "broadcast", "reread", "merge"} : pc' = [pc EXCEPT ![h] = p]
  BY DEF storeConfirmedMsgSent, rereadMetadata, mergeMetadata, StoreEntry, Finish, Goto
<1>6. ~Pending(h) /\ p # "mark"
  BY <1>1, <1>5 DEF Pending
<1> QED
  BY <1>1, <1>3, <1>4, <1>5, <1>6, QuietWay

\* The gateway takes a block off the channel, clean keeps the head.
LEMMA BackgroundWay ==
    ASSUME HandlersInv, HeadInv,
           cleanBlockStorage \/ processBlockFromBlockchain \/ UNCHANGED allVars
    PROVE  HeadInv'
<1>1. ChainInv
  BY InvParts
<1>2. CASE cleanBlockStorage
  <2>1. clean /\ UNCHANGED <<pc, newHeads, sent, refused>>
    BY <1>2 DEF cleanBlockStorage, relayVars
  <2>2. chainState # <<>> /\ chainState'[1] = chainState[1] /\ named' = named
    BY <1>1, <2>1, CleanInv DEF clean
  <2>3. NoNewMarks
    BY <2>1 DEF clean, pruneHash, NoNewMarks, HasSentToBDN
  <2> QED
    BY <2>1, <2>2, <2>3, WayKept
<1>3. CASE processBlockFromBlockchain \/ UNCHANGED allVars
  <2>1. UNCHANGED vars /\ UNCHANGED <<pc, newHeads, sent, refused>>
    BY <1>3 DEF processBlockFromBlockchain, allVars, relayVars
  <2>2. NoNewMarks /\ UNCHANGED <<chainState, named>>
    BY <2>1, SameMarks
  <2> QED
    BY <2>1, <2>2, WayKept
<1> QED
  BY <1>2, <1>3

\* AddBlock and ConfirmBlock: the head stays, or a new one is counted.
LEMMA ChainCallWay ==
    ASSUME HandlersInv, HeadInv, NEW h \in Handlers, addBlock(h) \/ confirmBlock(h)
    PROVE  HeadInv'
<1>1. ChainInv /\ LocalTypes /\ HandlersFit /\ TypeOK
  BY InvParts DEF ChainInv
<1>2. block[h] \in Seen /\ block[h] \in Blocks /\ pc[h] \in {"add", "confirm"}
  <2>1. pc[h] \in {"add", "confirm"}
    BY DEF addBlock, confirmBlock
  <2> QED
    BY <1>1, <2>1, ChainAssumption DEF HandlersFit, HandlerFits
<1>3. PICK b \in Seen : b = block[h] /\ b \in Blocks /\ Height(b) \in Nat
  BY <1>2, BlocksAssumption DEF Height
<1>4. /\ chainState \in Seq(Blocks) /\ headers \in SUBSET Blocks
      /\ UNCHANGED <<sent, refused, named>> /\ pc' = [pc EXCEPT ![h] = "fetch"]
      /\ \A g \in Handlers : g # h => newHeads'[g] = newHeads[g]
  BY <1>1 DEF TypeOK, addBlock, AddBlock, confirmBlock, ConfirmBlock, Goto, CountNewHeads,
              LocalTypes, vars
<1>5. /\ \A g \in Handlers : pc'[g] = "mark" => pc[g] = "mark" /\ newHeads'[g] = newHeads[g]
      /\ pc'[h] = "fetch"
  BY <1>1, <1>4 DEF LocalTypes
<1>6. ASSUME chainState' = chainState
      PROVE  \A g \in Handlers : Pending(g) => pc'[g] = pc[g] /\ newHeads'[g] = newHeads[g]
  BY <1>1, <1>2, <1>4 DEF Pending, LocalTypes
<1>7. CASE addBlock(h)
  <2> DEFINE u == updateChainState(chainState, headers', b)
  <2>1. AddBlock(b, "BSBlockchain") /\ "BSBlockchain" \in Sources
    BY <1>3, <1>7 DEF addBlock, Sources
  <2>2. ChainInv'
    BY <1>1, <2>1, AddBlockInv
  <2>3. NoNewMarks
    BY <1>1, <1>3, <2>1, StoreMarksNothing DEF AddBlock
  <2>4. headers' \in SUBSET Blocks /\ b \in headers'
    <3>1. headers' \in SUBSET Blocks
      BY <2>2 DEF ChainInv, TypeOK
    <3>2. b \in headers'
      <4>1. CASE HasBlock(b)
        BY <1>1, <2>1, <4>1 DEF AddBlock, HasBlock, ChainInv, BodiesHaveHeaders
      <4>2. CASE ~HasBlock(b)
        BY <2>1, <4>2 DEF AddBlock, storeBlock
      <4> QED
        BY <4>1, <4>2
    <3> QED
      BY <3>1, <3>2
  <2>5. u.added > 0 \/ u.chain = chainState
    BY <1>3, <1>4, <2>4, NewHeadCounted
  <2>6. chainState' = u.chain /\ newHeads'[h].count = u.added
    BY <1>1, <1>3, <1>7, <2>1 DEF AddBlock, addBlock, CountNewHeads, LocalTypes
  <2>7. chainState' = chainState \/ newHeads'[h].count > 0
    BY <2>5, <2>6
  <2>8. CASE newHeads'[h].count > 0
    <3>1. Pending(h)'
      BY <1>5, <2>8 DEF Pending
    <3> QED
      BY <1>4, <1>5, <2>2, <2>3, <3>1, WayKept
  <2>9. CASE chainState' = chainState
    BY <1>4, <1>5, <1>6, <2>2, <2>3, <2>9, WayKept
  <2> QED
    BY <2>7, <2>8, <2>9
<1>8. CASE confirmBlock(h)
  <2> DEFINE u == updateChainState(chainState, headers, b)
             moves == metadata[b] # None /\ metadata[b].height = Height(b) /\ b \in headers
  <2>1. NoNewMarks
    <3>1. CASE metadata[b] = None
      <4>1. UNCHANGED vars
        BY <1>3, <1>8, <3>1 DEF confirmBlock
      <4> QED
        BY <4>1, SameMarks
    <3>2. CASE metadata[b] # None
      <4>1. ConfirmBlock(b)
        BY <1>3, <1>8, <3>2 DEF confirmBlock
      <4> QED
        BY <1>1, <1>3, <4>1, ConfirmMarksNothing
    <3> QED
      BY <3>1, <3>2
  <2>2. chainState' = chainState \/ newHeads'[h].count > 0
    <3>1. CASE moves
      <4>1. chainState' = u.chain /\ newHeads'[h].count = u.added
        BY <1>1, <1>3, <1>8, <3>1 DEF confirmBlock, ConfirmBlock, CountNewHeads, LocalTypes
      <4>2. u.added > 0 \/ u.chain = chainState
        BY <1>3, <1>4, <3>1, NewHeadCounted
      <4> QED
        BY <4>1, <4>2
    <3>2. CASE ~moves
      BY <1>3, <1>8, <3>2 DEF confirmBlock, ConfirmBlock, vars
    <3> QED
      BY <3>1, <3>2
  <2>3. CASE newHeads'[h].count > 0
    <3>1. Pending(h)'
      BY <1>5, <2>3 DEF Pending
    <3> QED
      BY <1>4, <1>5, <2>1, <3>1, WayKept
  <2>4. CASE chainState' = chainState
    BY <1>4, <1>5, <1>6, <2>1, <2>4, WayKept
  <2> QED
    BY <2>2, <2>3, <2>4
<1> QED
  BY <1>7, <1>8

\* The handler that reads the chain finds its head, or a head that was sent.
LEMMA FetchWay ==
    ASSUME HandlersInv, StoredInv, HeadInv, NEW h \in Handlers, fetchNewHeads(h)
    PROVE  HeadInv'
<1>1. ChainInv /\ LocalTypes /\ TypeOK /\ pc[h] = "fetch" /\ newHeads[h].count \in Nat
  BY InvParts DEF ChainInv, fetchNewHeads, LocalTypes, Heads
<1>2. /\ UNCHANGED <<sent, refused, vars>> /\ pc' = [pc EXCEPT ![h] = "send"]
      /\ newHeads' = [newHeads EXCEPT ![h] =
             [count |-> 0, blocks |-> GetNewHeadsForBDN(newHeads[h].count)]]
  BY DEF fetchNewHeads, Goto
<1>3. NoNewMarks /\ UNCHANGED <<chainState, metadata, named>>
  BY <1>2, SameMarks
<1>4. /\ \A g \in Handlers : g # h => pc'[g] = pc[g] /\ newHeads'[g] = newHeads[g]
      /\ pc'[h] = "send" /\ newHeads'[h].blocks = GetNewHeadsForBDN(newHeads[h].count)
  BY <1>1, <1>2 DEF LocalTypes
<1>5. MarkedWereSent'
  BY <1>2, <1>3, <1>4 DEF HeadInv, MarkedWereSent, NoNewMarks, LastHead
<1>6. ASSUME chainState # <<>>, chainState[1] \notin named, newHeads[h].count > 0
      PROVE  chainState[1] \in sent \/ Pending(h)'
  <2>1. PICK n \in 0..Smaller(newHeads[h].count, Len(chainState)) :
          /\ GetNewHeadsForBDN(newHeads[h].count) = SubSeq(chainState, 1, n)
          /\ n = 0 => \/ Smaller(newHeads[h].count, Len(chainState)) = 0
                      \/ metadata[chainState[1]] = None
                      \/ metadata[chainState[1]].sentToBDN
                      \/ chainState[1] \notin headers \/ chainState[1] \notin bodies
    BY <1>1, NewHeadsArePrefix
  <2>2. /\ chainState \in Seq(Blocks) /\ Len(chainState) \in Nat \ {0}
        /\ n \in 0..Len(chainState) /\ Smaller(newHeads[h].count, Len(chainState)) # 0
        /\ chainState[1] \in Blocks
    BY <1>1, <1>6, <2>1 DEF TypeOK, Smaller
  <2>3. CASE n = 0
    <3>1. /\ chainState[1] \in headers /\ metadata[chainState[1]] # None
          /\ chainState[1] \in bodies
      BY <1>1, <1>6, <2>2, CanonicalEntries DEF Stored
    <3>2. HasSentToBDN(chainState[1])
      BY <2>1, <2>2, <2>3, <3>1 DEF HasSentToBDN
    <3> QED
      BY <2>2, <3>2 DEF HeadInv, MarkedWereSent
  <2>4. CASE n # 0
    <3>1. newHeads'[h].blocks = SubSeq(chainState, 1, n)
      BY <1>4, <2>1
    <3>2. newHeads'[h].blocks # <<>> /\ newHeads'[h].blocks[1] = chainState[1]
      BY <2>2, <2>4, <3>1
    <3> QED
      BY <1>3, <1>4, <3>2 DEF Pending
  <2> QED
    BY <2>3, <2>4
<1>7. HeadOnItsWay'
  <2> SUFFICES ASSUME chainState # <<>>, chainState[1] \notin named, ~Tried(chainState[1])
               PROVE  \E g \in Handlers : Pending(g)'
    BY <1>2, <1>3 DEF HeadOnItsWay, Tried
  <2>1. PICK g \in Handlers : Pending(g)
    BY DEF HeadInv, HeadOnItsWay
  <2>2. CASE g = h
    BY <1>1, <1>6, <2>1, <2>2 DEF Pending, Tried
  <2>3. CASE g # h
    BY <1>3, <1>4, <2>1, <2>3 DEF Pending
  <2> QED
    BY <2>2, <2>3
<1> QED
  BY <1>2, <1>3, <1>5, <1>7 DEF HeadInv

\* Without its last element a sequence of several still starts with the first.
LEMMA FrontFacts ==
    ASSUME NEW s \in Seq(Blocks), Len(s) # 0, Len(s) # 1
    PROVE  SubSeq(s, 1, Len(s) - 1) # <<>> /\ SubSeq(s, 1, Len(s) - 1)[1] = s[1]
<1>1. Len(s) \in Nat
  OBVIOUS
<1>2. PICK n \in Nat : n = Len(s) /\ n # 0 /\ n # 1
  BY <1>1
<1>3. n - 1 >= 1 /\ n - 1 <= n /\ n - 1 \in 1..n
  BY <1>2
<1>4. Len(SubSeq(s, 1, n - 1)) = n - 1 /\ SubSeq(s, 1, n - 1)[1] = s[1]
  BY <1>2, <1>3
<1>5. SubSeq(s, 1, n - 1) # <<>>
  BY <1>3, <1>4
<1> QED
  BY <1>2, <1>4, <1>5

\* A head goes onto the channel, or is refused and the heads above it stay in hand.
LEMMA SendWay ==
    ASSUME HandlersInv, HeadInv, NEW h \in Handlers, sendNewHead(h)
    PROVE  HeadInv'
<1>1. LocalTypes
  BY InvParts
<1>2. NoNewMarks /\ UNCHANGED <<chainState, named>>
  BY SameMarks DEF sendNewHead
<1>3. pc[h] = "send" /\ newHeads[h] \in Heads /\ newHeads[h].blocks # <<>>
  BY <1>1, Same DEF sendNewHead
<1>4. CASE ~BlockChannelFull
  <2>1. /\ sent' = sent \cup {LastHead(h)} /\ refused' = refused
        /\ pc' = [pc EXCEPT ![h] = "mark"] /\ newHeads' = newHeads
    BY <1>4 DEF sendNewHead, Goto
  <2>6. \A g \in Handlers : /\ LastHead(g)' = LastHead(g)
                            /\ pc'[g] = IF g = h THEN "mark" ELSE pc[g]
    BY <1>1, <2>1 DEF LastHead, LocalTypes
  <2>7. MarkedWereSent'
    <3>1. ASSUME NEW x \in Blocks, HasSentToBDN(x)' PROVE x \in sent'
      BY <1>2, <2>1, <3>1 DEF HeadInv, MarkedWereSent, NoNewMarks
    <3>2. \A g \in Handlers : pc'[g] = "mark" => LastHead(g)' \in sent'
      BY <2>1, <2>6 DEF HeadInv, MarkedWereSent
    <3> QED
      BY <3>1, <3>2 DEF MarkedWereSent
  <2>8. HeadOnItsWay'
    <3> SUFFICES ASSUME chainState # <<>>, chainState[1] \notin named, ~Tried(chainState[1])
                 PROVE  \E g \in Handlers : Pending(g)'
      BY <1>2, <2>1 DEF HeadOnItsWay, Tried
    <3>1. PICK g \in Handlers : Pending(g)
      BY DEF HeadInv, HeadOnItsWay
    <3>2. Pending(g)'
      BY <1>2, <1>3, <2>1, <2>6, <3>1 DEF Pending
    <3> QED
      BY <3>2
  <2> QED
    BY <1>2, <2>7, <2>8 DEF HeadInv
<1>5. CASE BlockChannelFull
  <2> DEFINE n == Len(newHeads[h].blocks)
             B == SubSeq(newHeads[h].blocks, 1, n - 1)
  <2>1. /\ UNCHANGED <<sent, pc>> /\ DropLastHead(h)
        /\ refused' = refused \cup {LastHead(h)}
    BY <1>5 DEF sendNewHead
  <2>2. /\ newHeads'[h].blocks = B
        /\ \A g \in Handlers : g # h => newHeads'[g] = newHeads[g]
    BY <1>1, <1>3, <2>1 DEF DropLastHead, LocalTypes, Heads
  <2>3. MarkedWereSent'
    BY <1>2, <1>3, <2>1, <2>2 DEF HeadInv, MarkedWereSent, NoNewMarks, LastHead
  <2>4. HeadOnItsWay'
    <3> SUFFICES ASSUME chainState # <<>>, chainState[1] \notin named, ~Tried(chainState[1]),
                        chainState[1] # LastHead(h)
                 PROVE  \E g \in Handlers : Pending(g)'
      BY <1>2, <2>1 DEF HeadOnItsWay, Tried
    <3>1. PICK g \in Handlers : Pending(g)
      BY DEF HeadInv, HeadOnItsWay
    <3>2. CASE g = h
      <4>1. newHeads[h].blocks[1] = chainState[1] /\ newHeads[h].blocks \in Seq(Blocks)
        BY <1>3, <3>1, <3>2 DEF Pending, Heads
      <4>2. n # 0 /\ n # 1
        BY <1>3, <4>1 DEF LastHead
      <4>3. B # <<>> /\ B[1] = newHeads[h].blocks[1]
        BY <4>1, <4>2, FrontFacts
      <4> HIDE DEF B
      <4>4. Pending(h)'
        BY <1>2, <1>3, <2>1, <2>2, <4>1, <4>3 DEF Pending
      <4> QED
        BY <4>4
    <3>3. CASE g # h
      BY <1>2, <2>1, <2>2, <3>1, <3>3 DEF Pending
    <3> QED
      BY <3>2, <3>3
  <2> QED
    BY <1>2, <2>3, <2>4 DEF HeadInv
<1> QED
  BY <1>4, <1>5

\* What was sent is marked, and the heads above it stay in hand.
LEMMA MarkWay ==
    ASSUME HandlersInv, HeadInv, NEW h \in Handlers, markSentToBDN(h)
    PROVE  HeadInv'
<1>1. LocalTypes /\ HandlersFit /\ TypeOK /\ pc[h] = "mark"
  BY InvParts DEF ChainInv, markSentToBDN
<1>2. newHeads[h].blocks # <<>> /\ newHeads[h] \in Heads
  BY <1>1, Same DEF HandlersFit, HandlerFits
<1>3. LastHead(h) \in Blocks /\ LastHead(h) \in sent
  BY <1>1, <1>2, HeadsLeft DEF LastHead, HeadInv, MarkedWereSent
<1>4. /\ UNCHANGED <<chainState, named>>
      /\ \A x \in Blocks : HasSentToBDN(x)' => HasSentToBDN(x) \/ x \in sent
  <2>1. CASE metadata[LastHead(h)] = None
    BY <2>1, SameMarks DEF markSentToBDN, NoNewMarks
  <2>2. CASE metadata[LastHead(h)] # None
    <3>1. MarkSentToBDN(LastHead(h))
      BY <2>2 DEF markSentToBDN
    <3>2. \A x \in Blocks : x # LastHead(h) => metadata'[x] = metadata[x]
      BY <1>1, <3>1 DEF MarkSentToBDN, TypeOK
    <3> QED
      BY <1>3, <3>1, <3>2 DEF MarkSentToBDN, HasSentToBDN
  <2> QED
    BY <2>1, <2>2
<1> DEFINE n == Len(newHeads[h].blocks)
           B == SubSeq(newHeads[h].blocks, 1, n - 1)
<1>5. /\ UNCHANGED <<sent, refused>> /\ pc'[h] = "send" /\ newHeads'[h].blocks = B
      /\ \A g \in Handlers : g # h => pc'[g] = pc[g] /\ newHeads'[g] = newHeads[g]
  BY <1>1, <1>2 DEF markSentToBDN, DropLastHead, Goto, LocalTypes, Heads
<1>6. MarkedWereSent'
  <2>1. ASSUME NEW x \in Blocks, HasSentToBDN(x)' PROVE x \in sent'
    BY <1>4, <1>5, <2>1 DEF HeadInv, MarkedWereSent
  <2>2. \A g \in Handlers : pc'[g] = "mark" => LastHead(g)' \in sent'
    BY <1>5 DEF HeadInv, MarkedWereSent, LastHead
  <2> QED
    BY <2>1, <2>2 DEF MarkedWereSent
<1>7. HeadOnItsWay'
  <2> SUFFICES ASSUME chainState # <<>>, chainState[1] \notin named, ~Tried(chainState[1])
               PROVE  \E g \in Handlers : Pending(g)'
    BY <1>4, <1>5 DEF HeadOnItsWay, Tried
  <2>1. PICK g \in Handlers : Pending(g)
    BY DEF HeadInv, HeadOnItsWay
  <2>2. CASE g = h
    <3>1. newHeads[h].blocks[1] = chainState[1] /\ n \in Nat \ {0}
      BY <1>1, <1>2, <2>1, <2>2 DEF Pending, Heads
    <3>2. n # 1
      BY <1>3, <3>1 DEF LastHead, Tried
    <3>3. B # <<>> /\ B[1] = newHeads[h].blocks[1]
      <4>1. newHeads[h].blocks \in Seq(Blocks)
        BY <1>2 DEF Heads
      <4> QED
        BY <3>1, <3>2, <4>1, FrontFacts
    <3> HIDE DEF B
    <3>4. Pending(h)'
      BY <1>4, <1>5, <3>1, <3>3 DEF Pending
    <3> QED
      BY <3>4
  <2>3. CASE g # h
    BY <1>4, <1>5, <2>1, <2>3 DEF Pending
  <2> QED
    BY <2>2, <2>3
<1> QED
  BY <1>4, <1>5, <1>6, <1>7 DEF HeadInv

\* Every step.
LEMMA WayStep ==
    ASSUME HandlersInv, StoredInv, HeadInv, WrittenWereSent, [RelayNext]_allVars
    PROVE  HeadInv'
<1>1. CASE cleanBlockStorage \/ processBlockFromBlockchain \/ UNCHANGED allVars
  BY <1>1, BackgroundWay
<1>2. ASSUME NEW h \in Handlers, NEW b \in PeerHeads, processStatus(h, b) PROVE HeadInv'
  BY <1>2, OutsideWay
<1>3. ASSUME NEW h \in Handlers, NEW b \in Seen,
             \/ processBlockComponents(h, b) \/ processBlock(h, b)
             \/ processBlockAnnouncement(h, b) \/ processBlockHeaders(h, b)
      PROVE  HeadInv'
  BY <1>3, OutsideWay
<1>4. ASSUME NEW h \in Handlers, HandlerStep(h) PROVE HeadInv'
  <2>1. CASE pc[h] = "validate" /\ processBlock(h, block[h])
    <3>1. block[h] \in Seen
      BY <2>1, InvParts DEF HandlersFit, HandlerFits
    <3> QED
      BY <1>3, <2>1, <3>1
  <2>2. CASE addBlock(h) \/ confirmBlock(h)
    BY <2>2, ChainCallWay
  <2>3. CASE fetchNewHeads(h)
    BY <2>3, FetchWay
  <2>4. CASE sendNewHead(h)
    BY <2>4, SendWay
  <2>5. CASE markSentToBDN(h)
    BY <2>5, MarkWay
  <2>6. CASE confirmToGateway(h) \/ broadcastBlock(h)
    BY <2>6, OutsideWay
  <2>7. CASE storeConfirmedMsgSent(h) \/ rereadMetadata(h) \/ mergeMetadata(h)
    BY <2>7, StoreWay
  <2> QED
    BY <1>4, <2>1, <2>2, <2>3, <2>4, <2>5, <2>6, <2>7 DEF HandlerStep
<1> QED
  BY <1>1, <1>2, <1>3, <1>4 DEF RelayNext

\* Any number of handlers may replace the head and read the chain back in any order, and
\* a handler may read a head that another one made: when all are done, the head of the
\* canonical chain has been sent or its channel was full, unless a Status message named it.
THEOREM HeadIsSent == RelaySpec => []HeadSent
<1>1. RelayInit => StoredInv /\ HeadInv /\ WrittenWereSent
  BY DEF RelayInit, Init, StoredInv, Filed, EntriesComplete, HeadInv, MarkedWereSent,
         HasSentToBDN, HeadOnItsWay, WrittenWereSent
<1>2. HandlersInv /\ [RelayNext]_allVars => HandlersInv'
  BY RelayStepInv
<1>3. HandlersInv /\ StoredInv /\ [RelayNext]_allVars => StoredInv'
  BY StoredStep
<1>4. HandlersInv /\ StoredInv /\ HeadInv /\ WrittenWereSent /\ [RelayNext]_allVars
        => HeadInv' /\ WrittenWereSent'
  BY WayStep, WrittenStep
<1>5. HeadInv => HeadSent
  BY DEF HeadInv, HeadOnItsWay, Tried, HeadSent, Pending
<1> QED
  BY RelayInitInv, <1>1, <1>2, <1>3, <1>4, <1>5, PTL DEF RelaySpec
==============================================================================
