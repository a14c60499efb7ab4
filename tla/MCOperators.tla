----------------------------- MODULE MCOperators -----------------------------
(***************************************************************************)
(* One buyer and two registries; two candidates, whose servers list the    *)
(* buyer for different registries and caps, one of them too high.          *)
(***************************************************************************)
EXTENDS Operators

TwoRegistries == {0, 1}

OpenRegistry ==
    [presaleSupply |-> 2, totalDeposit |-> 0, totalDepositFee |-> 0,
     buyerMinimumDepositCap |-> 1, buyerMaximumDepositCap |-> 3,
     depositFeeBps |-> 0]

\* Open all the time of a run whose clock stands at 0.
OpenPresale ==
    [presaleMode |-> "Prorata", qPrice |-> 3,
     disableWithdraw |-> FALSE,
     disableEarlierPresaleEndOnceCapReached |-> FALSE,
     presaleMaximumCap |-> 4, presaleMinimumCap |-> 2,
     presaleStartTime |-> 0, presaleEndTime |-> 1,
     lockDuration |-> 0, vestDuration |-> 0, vestingStartTime |-> 1,
     immediateReleaseBps |-> 0, immediateReleaseTimestamp |-> 0,
     presaleSupply |-> 4, totalDeposit |-> 0, totalDepositFee |-> 0,
     hasCreatorWithdrawn |-> FALSE, depositFeeCollected |-> FALSE,
     isUnsoldTokenActionPerformed |-> FALSE,
     presaleRegistries |-> [i \in TwoRegistries |-> OpenRegistry]]

OpenPresales == {OpenPresale}

Wallet(account, registryIndex, depositCap) ==
    [account |-> account, registryIndex |-> registryIndex,
     depositCap |-> depositCap]

Buyer == "buyer"
Buyers == {Buyer}
TwoCandidates == {"op1", "op2"}
Lists ==
    [o \in TwoCandidates |->
        IF o = "op1" THEN {Wallet(Buyer, 0, 2), Wallet(Buyer, 1, 1)}
                     ELSE {Wallet(Buyer, 0, 1), Wallet(Buyer, 1, 5)}]
=============================================================================
