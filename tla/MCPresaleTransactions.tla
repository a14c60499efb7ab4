----------------------- MODULE MCPresaleTransactions -----------------------
(***************************************************************************)
(* One buyer and the creator, with three transactions built at a time:     *)
(* enough for one to wrap, one to unwrap and one to be paid in between.    *)
(***************************************************************************)
EXTENDS PresaleTransactions, TLC

ARegistry ==
    [presaleSupply |-> 4, totalDeposit |-> 0, totalDepositFee |-> 0,
     buyerMinimumDepositCap |-> 1, buyerMaximumDepositCap |-> 3,
     depositFeeBps |-> 3]

OneRegistry == {0}

\* Open for the second 0.  The pro rata presale can be oversubscribed, the fixed
\* price presale takes part of what is asked for; both can fail.
APresale(mode) ==
    [presaleMode |-> mode, qPrice |-> 3,
     disableWithdraw |-> FALSE,
     disableEarlierPresaleEndOnceCapReached |-> TRUE,
     presaleMaximumCap |-> 2, presaleMinimumCap |-> 2,
     presaleStartTime |-> 0, presaleEndTime |-> 1,
     lockDuration |-> 0, vestDuration |-> 0, vestingStartTime |-> 1,
     immediateReleaseBps |-> 0, immediateReleaseTimestamp |-> 0,
     presaleSupply |-> 4, totalDeposit |-> 0, totalDepositFee |-> 0,
     hasCreatorWithdrawn |-> FALSE, depositFeeCollected |-> FALSE,
     isUnsoldTokenActionPerformed |-> FALSE,
     presaleRegistries |-> [i \in OneRegistry |-> ARegistry]]

SomePresales == {APresale("Prorata"), APresale("FixedPrice")}
=============================================================================
