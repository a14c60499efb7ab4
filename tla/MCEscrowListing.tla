--------------------------- MODULE MCEscrowListing ---------------------------
(***************************************************************************)
(* Two buyers of a presale of two registries, listed in chunks of two.     *)
(***************************************************************************)
EXTENDS EscrowListing, TLC

ListedRegistry ==
    [presaleSupply |-> 2, totalDeposit |-> 0, totalDepositFee |-> 0,
     buyerMinimumDepositCap |-> 1, buyerMaximumDepositCap |-> 1,
     depositFeeBps |-> 0]

TwoRegistries == {0, 1}

\* Open all the time of a run whose clock stands at 0.
ListedPresale ==
    [presaleMode |-> "Fcfs", qPrice |-> 3,
     disableWithdraw |-> FALSE,
     disableEarlierPresaleEndOnceCapReached |-> FALSE,
     presaleMaximumCap |-> 5, presaleMinimumCap |-> 2,
     presaleStartTime |-> 0, presaleEndTime |-> 1,
     lockDuration |-> 0, vestDuration |-> 0, vestingStartTime |-> 1,
     immediateReleaseBps |-> 0, immediateReleaseTimestamp |-> 0,
     presaleSupply |-> 4, totalDeposit |-> 0, totalDepositFee |-> 0,
     hasCreatorWithdrawn |-> FALSE, depositFeeCollected |-> FALSE,
     isUnsoldTokenActionPerformed |-> FALSE,
     presaleRegistries |-> [i \in TwoRegistries |-> ListedRegistry]]

ListedPresales == {ListedPresale}
Symmetry == Permutations(Owners)
=============================================================================
