--------------------------- MODULE MCPresaleClient ---------------------------
(***************************************************************************)
(* One buyer and two callers of one Presale object: enough for two reads   *)
(* or transactions to overtake each other and the ledger.                  *)
(***************************************************************************)
EXTENDS PresaleClient, TLC

ClientRegistry ==
    [presaleSupply |-> 4, totalDeposit |-> 0, totalDepositFee |-> 0,
     buyerMinimumDepositCap |-> 1, buyerMaximumDepositCap |-> 2,
     depositFeeBps |-> 4]

OneRegistry == {0}

\* Open for the second 0, with a minimum that takes both amounts or the larger.
\* The fixed price presale ends early at its cap.
ClientPresale(mode) ==
    [presaleMode |-> mode, qPrice |-> 3,
     disableWithdraw |-> FALSE,
     disableEarlierPresaleEndOnceCapReached |-> FALSE,
     presaleMaximumCap |-> 2, presaleMinimumCap |-> 2,
     presaleStartTime |-> 0, presaleEndTime |-> 1,
     lockDuration |-> 0, vestDuration |-> 0, vestingStartTime |-> 1,
     immediateReleaseBps |-> 0, immediateReleaseTimestamp |-> 0,
     presaleSupply |-> 4, totalDeposit |-> 0, totalDepositFee |-> 0,
     hasCreatorWithdrawn |-> FALSE, depositFeeCollected |-> FALSE,
     isUnsoldTokenActionPerformed |-> FALSE,
     presaleRegistries |-> [i \in OneRegistry |-> ClientRegistry]]

ClientPresales == {ClientPresale("Prorata"), ClientPresale("FixedPrice")}

Symmetry == Permutations(Callers)
=============================================================================
