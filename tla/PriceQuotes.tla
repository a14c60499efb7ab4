---------------------------- MODULE PriceQuotes ----------------------------
(***************************************************************************)
(* A caller of math.ts and token2022.ts: an integrator who sets up a fixed *)
(* price presale at some UI price and asks the helpers for caps, costs and *)
(* fees, amount after amount.  The answers are pure functions of the       *)
(* inputs, so the state is the inputs and the properties compare each      *)
(* answer with what its caller relies on.                                  *)
(***************************************************************************)
EXTENDS TransferFees, UiPrices

CONSTANTS
    MaxPrice,       \* bound of a price, in units of its last digit
    MaxDecimals,    \* bound of the decimals of a price
    MaxFee,         \* bound of the maximum of a transfer fee
    MaxAmount       \* bound of the amounts asked for

ASSUME MaxPriceAssumption == MaxPrice \in Nat /\ MaxDecimals \in Nat
ASSUME MaxFeeAssumption == MaxFee \in Nat
ASSUME MaxAmountAssumption == MaxAmount \in Nat

VARIABLES
    num,        \* the price is num / 10^decimals quote lamports
    decimals,   \* per base lamport
    rounding,   \* how it is rounded to a q-price
    feeBps,     \* the deposit fee of the registry
    amount      \* the amount or supply asked for

vars == <<num, decimals, rounding, feeBps, amount>>

\* The q-price the presale is created with.
QPrice == UiPriceToQPrice(num, decimals, rounding)

\* A q-price of 0 is refused when the presale is created, and a fee of 100%
\* would leave nothing to deposit.
Init ==
    /\ num \in 1..MaxPrice
    /\ decimals \in 0..MaxDecimals
    /\ rounding \in Rounding
    /\ QPrice \in Nat \ {0}
    /\ feeBps \in 0..(BpsBase - 1)
    /\ amount = 0

AskNextAmount ==
    /\ amount < MaxAmount
    /\ amount' = amount + 1
    /\ UNCHANGED <<num, decimals, rounding, feeBps>>

Next == AskNextAmount

Spec == Init /\ [][Next]_vars

TypeOK ==
    /\ num \in Nat \ {0}
    /\ decimals \in Nat
    /\ rounding \in Rounding
    /\ QPrice \in Nat \ {0}
    /\ feeBps \in 0..(BpsBase - 1)
    /\ amount \in Nat

---------------------------------------------------------------------------
(* What the callers rely on *)

\* Raising the suggested cap sells no token the presale does not have, and one
\* more quote lamport would sell too many unless the supply is sold out.
CapNeverOversells ==
    LET cap == MaxPresaleCap(amount, QPrice)
    IN  /\ BaseBought(cap, QPrice) <= amount
        /\ \/ BaseBought(cap, QPrice) = amount
           \/ BaseBought(cap + 1, QPrice) > amount

\* The supply left over at that cap costs one quote lamport at most.
LittleIsLeftAtTheCap ==
    /\ RemainingPresaleSupply(amount, QPrice) >= 0
    /\ QuoteCost(RemainingPresaleSupply(amount, QPrice), QPrice) <= 1

\* The amount suggested instead of `amount` buys the same tokens, and no
\* smaller amount does: suggestions cost the buyer nothing and leave no
\* surplus.
SuggestionIsCheapest ==
    LET suggested == CalculateQuoteTokenWithoutSurplus(amount, QPrice)
        bought == BaseBought(amount, QPrice)
    IN  /\ suggested <= amount
        /\ BaseBought(suggested, QPrice) = bought
        /\ \A less \in 0..(suggested - 1) : BaseBought(less, QPrice) < bought

\* The fee-included amount is the least that leaves `amount` after the fee.
FeeIncludedIsLeast ==
    LET gross == CalculateDepositFeeIncludedAmount(amount, feeBps, "Up")
    IN  /\ gross * (BpsBase - feeBps) >= amount * BpsBase
        /\ \A less \in 0..(gross - 1) :
                less * (BpsBase - feeBps) < amount * BpsBase

\* What is to be sent for `amount` to arrive leaves exactly that in the same
\* epoch, and nothing less does: the fee of the sum is rounded and limited as the
\* fee that was added, before and after the rate of the mint rises to everything.
TransferFeeIncludedIsLeast ==
    \A maximumFee \in 0..MaxFee : \A epoch \in 0..1 :
        LET config == [older |-> [basisPoints |-> feeBps, maximumFee |-> maximumFee],
                       newer |-> [basisPoints |-> BpsBase, maximumFee |-> maximumFee],
                       newerFrom |-> 1]
            sent == CalculateTransferFeeIncludedAmount(config, amount, epoch)
        IN  /\ CalculateTransferFeeExcludedAmount(config, sent, epoch) = amount
            /\ \A less \in 0..(sent - 1) :
                    CalculateTransferFeeExcludedAmount(config, less, epoch) < amount

\* The minimum quote amount buys a base lamport, and nothing below it does.
MinimumQuoteIsLeast ==
    LET least == CalculateMinimumQuoteAmountForBaseLamport(QPrice)
    IN  /\ BaseBought(least, QPrice) >= 1
        /\ \A less \in 0..(least - 1) : BaseBought(less, QPrice) = 0

\* A price rounded up is not below what was asked for, one rounded down not above
\* it, but for half a unit in the last of the digits that a Decimal keeps, and on
\* the other side there is less than one q-unit more: the first rounding comes
\* before the second and does not know its direction (math.ts:18-21).
PriceNearItsSide ==
    LET exact == num * Scale
        q == QPrice * 10^decimals
        parts == 2 * 10^(Digits - 1)
        tooLow(by) == (q + by) * parts < exact * (parts - 1)
        tooHigh(by) == (q - by) * parts > exact * (parts + 1)
    IN  IF rounding = "Up" THEN ~tooLow(0) /\ ~tooHigh(10^decimals)
                           ELSE ~tooLow(10^decimals) /\ ~tooHigh(0)
=============================================================================
