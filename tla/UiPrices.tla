------------------------------ MODULE UiPrices ------------------------------
(***************************************************************************)
(* uiPriceToQPrice of math.ts: a price becomes a q-price.                  *)
(*                                                                         *)
(* The price is num / 10^decimals quote lamports per base lamport, the     *)
(* number that `new Decimal(lamportPrice)` holds.  How far the product of  *)
(* doubles before it, price * Math.pow(10, ...), is from the price that    *)
(* was meant is not modelled: the model starts from what it came to.       *)
(*                                                                         *)
(* A Decimal keeps Digits significant digits of a product (20, the default *)
(* of decimal.js, which the code leaves as it is) and rounds halves up.    *)
(* The product with Scale is rounded so before it is rounded up or down.   *)
(***************************************************************************)
EXTENDS PresaleMath

CONSTANT Digits     \* the precision of a Decimal

ASSUME DigitsAssumption == Digits \in Nat \ {0}

\* How many digits n has; 0 has none.
NumberOfDigits(n) == CHOOSE k \in 0..n : n < 10^k /\ \A j \in 0..(k - 1) : 10^j <= n

\* A number to Digits significant digits.
ToPrecision(n) ==
    LET unit == 10^Greatest(NumberOfDigits(n) - Digits, 0)
    IN  ((2 * n + unit) \div (2 * unit)) * unit

\* Mutant: the two roundings exchanged.
QPriceRoundingsSwapped(num, decimals, rounding) ==
    LET product == ToPrecision(num * Scale)
    IN  IF rounding = "Down" THEN CeilDiv(product, 10^decimals)
                             ELSE product \div 10^decimals

\* uiPriceToQPrice: 0 stands for a price the program cannot represent.
UiPriceToQPrice(num, decimals, rounding) ==
    LET product == ToPrecision(num * Scale)
        q == IF rounding = "Up" THEN CeilDiv(product, 10^decimals)
                                ELSE product \div 10^decimals
    IN  IF q < 1 \/ q > U128Max THEN 0 ELSE q
=============================================================================
