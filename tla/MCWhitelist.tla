----------------------------- MODULE MCWhitelist -----------------------------
(***************************************************************************)
(* Lists that a creator changes between the calls, one of them             *)
(* with a wallet that has two caps and a place in two registries.          *)
(***************************************************************************)
EXTENDS Whitelist, TLC

Wallet(account, registryIndex, cap) ==
    [account |-> account, registryIndex |-> registryIndex, depositCap |-> cap]

Ann == Wallet("a", 0, 1)
AnnRaised == Wallet("a", 0, 2)
AnnElsewhere == Wallet("a", 1, 1)
Bob == Wallet("b", 0, 1)
Cid == Wallet("c", 0, 1)
Dan == Wallet("d", 0, 2)

\* Neither the order of the accounts nor that of the caps.
SampleRank ==
    Ann :> 4 @@ AnnRaised :> 2 @@ AnnElsewhere :> 7
    @@ Bob :> 1 @@ Cid :> 6 @@ Dan :> 3

\* Short lists that differ in the order, a repetition or a cap, and a longer one
\* with a wallet that has two caps and a place in two registries.
SampleLists ==
    {<<Ann, Bob, Cid>>, <<Bob, Ann, Ann, Cid>>, <<AnnRaised, Bob, Cid>>,
     <<Dan, AnnElsewhere, Ann, Bob, AnnRaised>>}

\* A tree of five leaves has layers of five, three and two.
TreeSizes == {4, 5}
=============================================================================
