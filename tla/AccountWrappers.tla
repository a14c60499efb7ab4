--------------------------- MODULE AccountWrappers ---------------------------
(***************************************************************************)
(* The read-only view the SDK gives of the accounts of a presale: the      *)
(* presale and its registries (presale_wrapper.ts,                         *)
(* presale_registry_wrapper.ts) and a buyer's escrow (escrow_wrapper.ts).  *)
(*                                                                         *)
(* p is a presale account, e an escrow account of p, t the time in whole   *)
(* seconds the code reads: Date.now() for the progress state, the on-chain *)
(* clock for the pending claim.  They are different clocks, so every       *)
(* operator takes the time it reads as a parameter of its own.             *)
(***************************************************************************)
EXTENDS ModeHandlers

\* getPresaleProgressState
PresaleProgressState(p, t) ==
    CASE t < p.presaleStartTime -> "NotStarted"
      [] p.presaleStartTime <= t /\ t < p.presaleEndTime -> "Ongoing"
      [] OTHER -> IF p.totalDeposit >= p.presaleMinimumCap
                  THEN "Completed"
                  ELSE "Failed"

---------------------------------------------------------------------------
(* PresaleWrapper *)

\* Mutant: the end of the presale is not looked at.
CanDepositUntilCap(p, t) ==
    /\ t >= p.presaleStartTime
    /\ p.presaleMode = "Prorata" \/ p.totalDeposit < p.presaleMaximumCap

CanDeposit(p, t) ==
    /\ PresaleProgressState(p, t) = "Ongoing"
    /\ p.presaleMode = "Prorata" \/ p.totalDeposit < p.presaleMaximumCap

\* Mutant: the mode alone decides.
CanWithdrawAnytime(p, t) == ModeSupportsWithdraw(p)

CanWithdraw(p, t) ==
    ModeSupportsWithdraw(p) /\ PresaleProgressState(p, t) = "Ongoing"

CanWithdrawRemainingQuote(p, t) ==
    \/ PresaleProgressState(p, t) = "Completed" /\ p.presaleMode = "Prorata"
    \/ PresaleProgressState(p, t) = "Failed"

CanClaim(p, t) ==
    PresaleProgressState(p, t) = "Completed" /\ t >= p.vestingStartTime

CanCreatorWithdraw(p, t) ==
    /\ PresaleProgressState(p, t) \in {"Completed", "Failed"}
    /\ ~p.hasCreatorWithdrawn

\* Mutant: the creator is offered the oversubscribed part too.
CreatorTakesAll(p, t) ==
    CASE PresaleProgressState(p, t) = "Completed" ->
            [amount |-> p.totalDeposit, isBaseToken |-> FALSE]
      [] PresaleProgressState(p, t) = "Failed" ->
            [amount |-> p.presaleSupply, isBaseToken |-> TRUE]
      [] OTHER -> [amount |-> 0, isBaseToken |-> FALSE]

\* Mutant: the two caps confused.
CreatorTakesMinimum(p, t) ==
    CASE PresaleProgressState(p, t) = "Completed" ->
            [amount |-> Least(p.totalDeposit, p.presaleMinimumCap),
             isBaseToken |-> FALSE]
      [] PresaleProgressState(p, t) = "Failed" ->
            [amount |-> p.presaleSupply, isBaseToken |-> TRUE]
      [] OTHER -> [amount |-> 0, isBaseToken |-> FALSE]

\* getCreatorWithdrawableToken, whatever hasCreatorWithdrawn says.
CreatorWithdrawableToken(p, t) ==
    CASE PresaleProgressState(p, t) = "Completed" ->
            [amount |-> Least(p.totalDeposit, p.presaleMaximumCap),
             isBaseToken |-> FALSE]
      [] PresaleProgressState(p, t) = "Failed" ->
            [amount |-> p.presaleSupply, isBaseToken |-> TRUE]
      [] OTHER -> [amount |-> 0, isBaseToken |-> FALSE]

\* The code compares with the fraction of the second too: it says yes within the
\* second of the end, this operator from the next one on.
CanCreatorCollectFee(p, t) ==
    /\ PresaleProgressState(p, t) # "Failed"
    /\ ~p.depositFeeCollected
    /\ t > p.presaleEndTime

---------------------------------------------------------------------------
(* PresaleRegistryWrapper.getWithdrawableRemainingQuote and the presale's  *)
(* getWithdrawableRemainingRawQuoteAmount                                  *)

\* Mutant: the fee on the surplus kept.
RegistryRefundWithoutFee(p, i) ==
    LET surplus == Greatest(p.totalDeposit - p.presaleMaximumCap, 0)
    IN  IF p.totalDeposit = 0
        THEN 0
        ELSE (surplus * p.presaleRegistries[i].totalDeposit) \div p.totalDeposit

RegistryWithdrawableRemainingQuote(p, i) ==
    LET presaleRemainingQuote == p.totalDeposit - p.presaleMaximumCap
        deposit == p.presaleRegistries[i].totalDeposit
        registryRemainingQuote ==
            (presaleRemainingQuote * deposit) \div p.totalDeposit
        registryRefundFee ==
            (registryRemainingQuote * p.totalDepositFee) \div p.totalDeposit
    IN  IF \/ p.presaleMode # "Prorata"
           \/ presaleRemainingQuote <= 0
           \/ deposit = 0
        THEN 0
        ELSE registryRemainingQuote + registryRefundFee

WithdrawableRemainingRawQuoteAmount(p, t) ==
    CASE p.presaleMode # "Prorata" -> 0
      [] p.presaleMode = "Prorata" /\ PresaleProgressState(p, t) = "Failed" ->
            p.totalDeposit + p.totalDepositFee
      [] OTHER ->
            SumFunction([i \in InitializedRegistries(p) |->
                            RegistryWithdrawableRemainingQuote(p, i)])

---------------------------------------------------------------------------
(* EscrowWrapper: deposits *)

EscrowRegistry(p, e) == p.presaleRegistries[e.registryIndex]

\* Mutant: what the buyer has deposited already is not taken off.
RemainingDepositWholeCap(p, e) ==
    Least(RegistryRemainingDepositQuota(p, e.registryIndex), e.depositMaxCap)

RemainingDepositAmount(p, e) ==
    Least(RegistryRemainingDepositQuota(p, e.registryIndex),
          e.depositMaxCap - e.totalDeposit)

SuggestDepositAmount(p, e, maxAmount) ==
    HandlerSuggestDepositAmount(p, maxAmount, RemainingDepositAmount(p, e))

SuggestWithdrawAmount(p, e, maxAmount) ==
    HandlerSuggestWithdrawAmount(p, Least(maxAmount, e.totalDeposit))

---------------------------------------------------------------------------
(* EscrowWrapper: bought tokens *)

\* Mutant: the share rounded up.
TotalClaimableRoundedUp(p, e) ==
    IF e.totalDeposit = 0
    THEN 0
    ELSE CeilDiv(
            e.totalDeposit * RegistryTotalBaseTokenSold(p, e.registryIndex),
            EscrowRegistry(p, e).totalDeposit)

TotalClaimableRawAmount(p, e) ==
    IF e.totalDeposit = 0
    THEN 0
    ELSE (e.totalDeposit * RegistryTotalBaseTokenSold(p, e.registryIndex))
            \div EscrowRegistry(p, e).totalDeposit

\* Mutant: the vesting counted from the second after its start.
DrippedOneSecondLate(p, vestedAmount, t) ==
    LET elapsedSeconds == Least(t - p.vestingStartTime - 1, p.vestDuration)
    IN  CASE t <= p.vestingStartTime -> 0
          [] t > p.vestingStartTime /\ p.vestDuration = 0 -> vestedAmount
          [] OTHER -> (vestedAmount * elapsedSeconds) \div p.vestDuration

\* calculateUserDrippedToken before it is divided among the depositors.
DrippedToken(p, vestedAmount, t) ==
    LET elapsedSeconds == Least(t - p.vestingStartTime, p.vestDuration)
    IN  CASE t < p.vestingStartTime -> 0
          [] t >= p.vestingStartTime /\ p.vestDuration = 0 -> vestedAmount
          [] OTHER -> (vestedAmount * elapsedSeconds) \div p.vestDuration

\* Mutant: the immediate share no longer counted once the vesting has started.
ImmediateThenDripped(p, e, dripTotal, t) ==
    LET sold == RegistryTotalBaseTokenSold(p, e.registryIndex)
        immediate == IF t >= p.immediateReleaseTimestamp /\ t < p.vestingStartTime
                     THEN ImmediateReleasedAmount(sold, p.immediateReleaseBps)
                     ELSE 0
        dripped == DrippedToken(p, VestedAmount(sold, p.immediateReleaseBps), t)
    IN  (immediate * e.totalDeposit) \div EscrowRegistry(p, e).totalDeposit
            + (dripped * e.totalDeposit) \div dripTotal

\* What an escrow has earned by time t, were the dripped tokens of its registry
\* divided among the depositors of `dripTotal` quote lamports.
CumulativeClaimable(p, e, dripTotal, t) ==
    LET sold == RegistryTotalBaseTokenSold(p, e.registryIndex)
        immediate == IF t >= p.immediateReleaseTimestamp
                     THEN ImmediateReleasedAmount(sold, p.immediateReleaseBps)
                     ELSE 0
        dripped == DrippedToken(p, VestedAmount(sold, p.immediateReleaseBps), t)
    IN  (immediate * e.totalDeposit) \div EscrowRegistry(p, e).totalDeposit
            + (dripped * e.totalDeposit) \div dripTotal

\* getPendingClaimableRawAmount: progress is read from the local clock `local`,
\* the drip from the `t` passed in. The immediate share is divided by the
\* registry's deposit, the dripped share by the whole presale's.
PendingClaimableRawAmount(p, e, local, t) ==
    IF \/ EscrowRegistry(p, e).totalDeposit = 0
       \/ PresaleProgressState(p, local) # "Completed"
    THEN 0
    ELSE CumulativeClaimable(p, e, p.totalDeposit, t) - e.totalClaimedToken

---------------------------------------------------------------------------
(* EscrowWrapper: refunds and closing *)

\* Mutant: the escrow not asked whether it was refunded already.
CanWithdrawRemainingQuoteAgain(p, e, t) == CanWithdrawRemainingQuote(p, t)

CanWithdrawRemainingQuoteAmount(p, e, t) ==
    ~e.isRemainingQuoteWithdrawn /\ CanWithdrawRemainingQuote(p, t)

\* Mutant: every registry's buyers share the surplus of the whole presale.
SurplusNotSplitByRegistry(p, e) ==
    LET r == EscrowRegistry(p, e)
        remainingQuote == Greatest(p.totalDeposit - p.presaleMaximumCap, 0)
        registryRefundFee ==
            (r.totalDepositFee * remainingQuote) \div r.totalDeposit
    IN  [quote |-> (remainingQuote * e.totalDeposit) \div r.totalDeposit,
         fee   |-> (registryRefundFee * e.totalDeposit) \div r.totalDeposit]

\* The else branch of getWithdrawableRemainingQuoteAmount: an escrow's share of
\* an oversubscribed presale's surplus, and of the fee paid on it.
EscrowSurplusShare(p, e) ==
    LET r == EscrowRegistry(p, e)
        remainingQuote == Greatest(p.totalDeposit - p.presaleMaximumCap, 0)
        registryRemainingQuote ==
            (remainingQuote * r.totalDeposit) \div p.totalDeposit
        registryRefundFee ==
            (r.totalDepositFee * registryRemainingQuote) \div r.totalDeposit
    IN  [quote |-> (registryRemainingQuote * e.totalDeposit) \div r.totalDeposit,
         fee   |-> (registryRefundFee * e.totalDeposit) \div r.totalDeposit]

WithdrawableRemainingQuoteAmount(p, e, t) ==
    CASE ~CanWithdrawRemainingQuoteAmount(p, e, t) -> 0
      [] /\ CanWithdrawRemainingQuoteAmount(p, e, t)
         /\ PresaleProgressState(p, t) = "Failed" ->
            e.totalDeposit + e.totalDepositFee
      [] OTHER -> IF EscrowRegistry(p, e).totalDeposit = 0
                  THEN 0
                  ELSE EscrowSurplusShare(p, e).quote
                        + EscrowSurplusShare(p, e).fee

\* Mutant: the refund of an oversubscribed presale forgotten.
CanCloseBeforeRefund(p, e, t) ==
    LET progress == PresaleProgressState(p, t)
        empty == e.totalDeposit = 0 /\ e.totalDepositFee = 0
    IN  \/ progress = "Ongoing" /\ empty
        \/ progress = "Failed" /\ (e.isRemainingQuoteWithdrawn \/ empty)
        \/ /\ progress = "Completed"
           /\ TotalClaimableRawAmount(p, e) = e.totalClaimedToken

\* canClose. It returns undefined before the presale starts.
CanClose(p, e, t) ==
    LET progress == PresaleProgressState(p, t)
        empty == e.totalDeposit = 0 /\ e.totalDepositFee = 0
    IN  \/ progress = "Ongoing" /\ empty
        \/ progress = "Failed" /\ (e.isRemainingQuoteWithdrawn \/ empty)
        \/ /\ progress = "Completed"
           /\ \/ p.presaleMode # "Prorata"
              \/ WithdrawableRemainingQuoteAmount(p, e, t) = 0
              \/ e.isRemainingQuoteWithdrawn
           /\ TotalClaimableRawAmount(p, e) = e.totalClaimedToken

---------------------------------------------------------------------------
(* Presale accounts *)

PresaleRegistry ==
    [presaleSupply : Nat, totalDeposit : Nat, totalDepositFee : Nat,
     buyerMinimumDepositCap : Nat, buyerMaximumDepositCap : Nat,
     depositFeeBps : 0..(BpsBase - 1)]

PresaleAccounts ==
    [presaleMode : PresaleMode, qPrice : Nat \ {0},
     disableWithdraw : BOOLEAN,
     disableEarlierPresaleEndOnceCapReached : BOOLEAN,
     presaleMaximumCap : Nat, presaleMinimumCap : Nat,
     presaleStartTime : Nat, presaleEndTime : Nat,
     lockDuration : Nat, vestDuration : Nat, vestingStartTime : Nat,
     immediateReleaseBps : 0..BpsBase, immediateReleaseTimestamp : Nat,
     presaleSupply : Nat, totalDeposit : Nat, totalDepositFee : Nat,
     hasCreatorWithdrawn : BOOLEAN, depositFeeCollected : BOOLEAN,
     isUnsoldTokenActionPerformed : BOOLEAN,
     presaleRegistries : [RegistryIndex -> PresaleRegistry]]

\* toIdlLockedVestingParams of a presale created without lock and vesting.
NoLockedVesting ==
    [lockDuration |-> 0, vestDuration |-> 0,
     immediateReleaseBps |-> 0, immediateReleaseTimestamp |-> 0]

\* A presale as the initialize instruction leaves it.
IsFresh(p) ==
    /\ p.totalDeposit = 0 /\ p.totalDepositFee = 0
    /\ p.vestingStartTime = p.presaleEndTime + p.lockDuration
    /\ p.presaleStartTime < p.presaleEndTime
    /\ p.immediateReleaseBps > 0
            => p.presaleEndTime <= p.immediateReleaseTimestamp
    /\ 0 < p.presaleMinimumCap /\ p.presaleMinimumCap <= p.presaleMaximumCap
    /\ ~p.hasCreatorWithdrawn /\ ~p.depositFeeCollected
    /\ ~p.isUnsoldTokenActionPerformed
    /\ p.presaleSupply = SumFunction([i \in RegistryIndex |->
                                         p.presaleRegistries[i].presaleSupply])
    /\ \A i \in RegistryIndex :
            /\ p.presaleRegistries[i].totalDeposit = 0
            /\ p.presaleRegistries[i].totalDepositFee = 0
=============================================================================
