---------------------------- MODULE PresaleMath ----------------------------
(***************************************************************************)
(* The fixed-point arithmetic of math.ts and of the fixed price handler.   *)
(*                                                                         *)
(* A q-price is a price in quote lamports per base lamport, scaled by      *)
(* Scale (2^64 in the code).  Fees and release shares are in basis points  *)
(* of BpsBase (10000 in the code).  Both are constants, so that TLC checks *)
(* small instances and the theorems hold for the code's values.  BN is     *)
(* unbounded, hence plain naturals.  How a q-price is made from a UI price *)
(* is UiPrices.                                                            *)
(***************************************************************************)
EXTENDS Integers

CONSTANTS
    Scale,      \* SCALE_MULTIPLIER
    BpsBase     \* the 10000 of every basis point computation

ASSUME ScaleAssumption == Scale \in Nat \ {0}
ASSUME BpsAssumption == BpsBase \in Nat \ {0}

Rounding == {"Up", "Down"}

Least(a, b) == IF a <= b THEN a ELSE b
Greatest(a, b) == IF a >= b THEN a ELSE b

\* Integer division rounding up, written in the code as add(y - 1).div(y) and
\* as divmod with one added when the remainder is not zero.
CeilDiv(x, y) == (x + y - 1) \div y

---------------------------------------------------------------------------
(* q-prices *)

\* What type.ts calls U128_MAX is U64_MAX squared.
U128Max == (Scale - 1) * (Scale - 1)

\* The base lamports that `quote` buys at q-price q, and the quote lamports,
\* rounded up, that `base` costs.
BaseBought(quote, q) == (quote * Scale) \div q
QuoteCost(base, q) == CeilDiv(base * q, Scale)

CalculateMinimumQuoteAmountForBaseLamport(q) == CeilDiv(q, Scale)

\* Mutants: the lamport too many is kept; the cap is always rounded down.
CapNotCorrected(supply, q) == QuoteCost(supply, q)
CapRoundedDown(supply, q) == Greatest((supply * q) \div Scale - 1, 0)

\* calculateMaximumQuoteAmountForPresaleSupply: the cap, and the supply that
\* stays unsold when the cap is reached.
MaxPresaleCap(supply, q) ==
    LET cap == QuoteCost(supply, q)
    IN  IF BaseBought(cap, q) > supply THEN cap - 1 ELSE cap

RemainingPresaleSupply(supply, q) ==
    supply - BaseBought(MaxPresaleCap(supply, q), q)

\* Mutant: the bought tokens rounded up.
SurplusRoundedUp(amount, q) == QuoteCost(CeilDiv(amount * Scale, q), q)

\* calculateQuoteTokenWithoutSurplus (fixed_price.ts): the quote lamports that
\* the base lamports bought with `amount` really cost.
CalculateQuoteTokenWithoutSurplus(amount, q) ==
    QuoteCost(BaseBought(amount, q), q)

---------------------------------------------------------------------------
(* Fees, immediate release and vesting *)

\* Mutant: the fee taken of the net amount.
FeeOfNetAmount(amount, feeBps, rounding) ==
    IF rounding = "Up"
    THEN amount + CeilDiv(amount * feeBps, BpsBase)
    ELSE amount + (amount * feeBps) \div BpsBase

\* calculateDepositFeeIncludedAmount: what to send so that `amount` is left
\* after a fee of feeBps.
CalculateDepositFeeIncludedAmount(amount, feeBps, rounding) ==
    IF feeBps = 0
    THEN amount
    ELSE LET denominator == BpsBase - feeBps
         IN  IF rounding = "Up"
             THEN CeilDiv(amount * BpsBase, denominator)
             ELSE (amount * BpsBase) \div denominator

\* calculateImmediateReleaseToken
ImmediateReleasedAmount(sold, bps) == (sold * bps) \div BpsBase
\* Mutant: the immediate share is not taken off the vested one.
VestedWholeAmount(sold, bps) == sold
VestedAmount(sold, bps) == sold - ImmediateReleasedAmount(sold, bps)

\* calculateLockAndVestDurationFromTimestamps, for the timestamps that pass its
\* two invariants: presaleEnd <= lockEnd <= vestEnd.
LockAndVestDuration(presaleEnd, lockEnd, vestEnd) ==
    [lockDuration |-> lockEnd - presaleEnd, vestDuration |-> vestEnd - lockEnd]
=============================================================================
