------------------------------ MODULE TxRegistry ------------------------------
(***************************************************************************)
(* What the gateway relies on when it uses the transaction store: a        *)
(* transaction is forwarded when Add reports its content as new, so the    *)
(* store must announce the content of a transaction at most once for each  *)
(* time it has taken the transaction in.                                   *)
(***************************************************************************)
EXTENDS Naturals

CONSTANT Hashes

VARIABLES
    live,       \* the transactions in the store
    stays,      \* how often each was taken in
    announced   \* how often the content of each was reported as new

registryVars == <<live, stays, announced>>

RegistryInit ==
    /\ live = {}
    /\ stays = [h \in Hashes |-> 0]
    /\ announced = [h \in Hashes |-> 0]

Insert(h) ==
    /\ h \notin live
    /\ live' = live \cup {h}
    /\ stays' = [stays EXCEPT ![h] = @ + 1]
    /\ UNCHANGED announced

\* The announcement may come late: the transaction may be gone by then.
Announce(h) ==
    /\ announced[h] < stays[h]
    /\ announced' = [announced EXCEPT ![h] = @ + 1]
    /\ UNCHANGED <<live, stays>>

Drop(S) ==
    /\ live' = live \ S
    /\ UNCHANGED <<stays, announced>>

RegistryNext ==
    \/ \E h \in Hashes : Insert(h) \/ Announce(h)
    \/ \E S \in SUBSET Hashes : Drop(S)

RegistrySpec == RegistryInit /\ [][RegistryNext]_registryVars
===============================================================================
