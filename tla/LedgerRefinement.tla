-------------------------- MODULE LedgerRefinement --------------------------
(***************************************************************************)
(* The ledger of a presale implements the abstract Sale: every instruction *)
(* and every second that passes is a step of a sale or changes nothing of  *)
(* it.                                                                     *)
(***************************************************************************)
EXTENDS PresaleLedger

SaleOutcome ==
    IF Progress \in {"NotStarted", "Ongoing"} THEN "Open" ELSE Progress

SaleStake(k) ==
    IF ~Exists(k)
    THEN [deposit |-> 0, fee |-> 0, got |-> 0, refunded |-> FALSE]
    ELSE [deposit |-> escrows[k].totalDeposit,
          fee |-> escrows[k].totalDepositFee,
          got |-> escrows[k].totalClaimedToken,
          refunded |-> escrows[k].isRemainingQuoteWithdrawn]

SaleStakes == [k \in EscrowKeys |-> SaleStake(k)]

SaleTaken ==
    (IF presale.hasCreatorWithdrawn THEN {"proceeds"} ELSE {})
    \cup (IF presale.depositFeeCollected THEN {"fees"} ELSE {})
    \cup (IF presale.isUnsoldTokenActionPerformed THEN {"unsold"} ELSE {})

ASale == INSTANCE Sale WITH
            Buyers <- EscrowKeys,
            goal <- presale.presaleMinimumCap,
            outcome <- SaleOutcome,
            stakes <- SaleStakes,
            taken <- SaleTaken,
            raised <- presale.totalDeposit,
            fees <- presale.totalDepositFee,
            pot <- quoteVault,
            stock <- baseVault

\* The presale keeps the promises of a sale: it is decided once and by the
\* deposits that are there, a buyer's stake stands still from then on, tokens
\* are delivered and money is refunded only where the outcome says so, every
\* payment is made once and out of what is there, and a failed presale pays back
\* every lamport, fee included.
ImplementsSale == ASale!SaleSpec
=============================================================================
