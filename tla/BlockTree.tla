------------------------------ MODULE BlockTree ------------------------------
(***************************************************************************)
(* The Ethereum blocks that reach the gateway.  A block hash commits to    *)
(* the whole ancestry of its block, so a block is identified with the      *)
(* sequence of fork choices that leads to it from the genesis block <<>>:  *)
(* its number is the length of the sequence, and its parent is the         *)
(* sequence without the last choice.  ethtypes.Block and ethtypes.Header   *)
(* are go-ethereum types; they are modelled from the accessors this        *)
(* repository calls on them (Hash, NumberU64, ParentHash).                 *)
(***************************************************************************)
EXTENDS Integers, Sequences

CONSTANT Blocks     \* every block of every fork, the genesis block included

ASSUME BlocksAssumption ==
    /\ Blocks \subseteq Seq(Nat)
    /\ \A b \in Blocks : \A n \in 0..Len(b) : SubSeq(b, 1, n) \in Blocks

\* block.NumberU64()
Height(b) == Len(b)

\* The hash reached from b by following ParentHash k times, k <= Height(b).
Ancestor(b, k) == SubSeq(b, 1, Len(b) - k)

\* "following ParentHash k times from b leads to x"
IsAncestor(b, k, x) == k <= Height(b) /\ Ancestor(b, k) = x

\* b and its n - 1 nearest ancestors, newest first.
Path(b, n) == [i \in 1..n |-> Ancestor(b, i - 1)]
==============================================================================
