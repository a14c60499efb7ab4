------------------------- MODULE PriceQuotesProofs -------------------------
(***************************************************************************)
(* The answers of math.ts are what their callers rely on for every price,  *)
(* fee, supply and amount, and for every scale of the q-prices: the        *)
(* theorems behind the run of PriceQuotes.                                 *)
(***************************************************************************)
EXTENDS PriceQuotes, PresaleMathProofs

---------------------------------------------------------------------------
(* The inputs *)

\* The inputs stay prices the presale can be created with.
LEMMA InputsOK == Spec => []TypeOK
<1>1. Init => TypeOK
  <2> SUFFICES ASSUME Init PROVE TypeOK
    OBVIOUS
  <2>1. num \in Nat \ {0} /\ decimals \in Nat
    BY MaxPriceAssumption DEF Init
  <2> QED
    BY <2>1 DEF Init, TypeOK
<1>2. TypeOK /\ [Next]_vars => TypeOK'
  BY DEF TypeOK, Next, AskNextAmount, vars, QPrice
<1> QED
  BY <1>1, <1>2, PTL DEF Spec

---------------------------------------------------------------------------
(* The cap of a fixed price presale *)

\* What the largest cap buys, in its two cases.
LEMMA MaxPresaleCapProperty ==
    ASSUME NEW s \in Nat, NEW q \in Nat \ {0}
    PROVE  /\ MaxPresaleCap(s, q) \in Nat
           /\ BaseBought(MaxPresaleCap(s, q), q) <= s
           /\ \/ BaseBought(MaxPresaleCap(s, q), q) = s
              \/ BaseBought(MaxPresaleCap(s, q) + 1, q) > s
<1> DEFINE c == QuoteCost(s, q)
<1>1. c \in Nat /\ s <= BaseBought(c, q)
  BY QuoteCostProperty, QuoteCostBuys
<1>2. BaseBought(c, q) \in Nat
  BY <1>1, BaseBoughtProperty
<1>3. CASE BaseBought(c, q) <= s
  <2>1. MaxPresaleCap(s, q) = c
    BY <1>1, <1>2, <1>3 DEF MaxPresaleCap
  <2> HIDE DEF c
  <2> QED
    BY <2>1, <1>1, <1>2, <1>3
<1>4. CASE BaseBought(c, q) > s
  <2>1. MaxPresaleCap(s, q) = c - 1
    BY <1>4 DEF MaxPresaleCap
  <2>2. c # 0
    <3>1. BaseBought(0, q) * q <= 0 /\ BaseBought(0, q) \in Nat
      BY BaseBoughtProperty, ScalePositive
    <3>2. BaseBought(0, q) = 0
      BY <3>1
    <3> HIDE DEF c
    <3> QED
      BY <3>2, <1>4
  <2>3. c - 1 \in Nat /\ c - 1 < c /\ (c - 1) + 1 = c
    <3> HIDE DEF c
    <3> QED
      BY <1>1, <2>2
  <2>4. BaseBought(c - 1, q) < s
    BY <2>3, LessThanCostBuysFewer
  <2>5. BaseBought(c - 1, q) \in Nat
    BY <2>3, BaseBoughtProperty
  <2> HIDE DEF c
  <2> QED
    BY <2>1, <2>3, <2>4, <2>5, <1>4
<1> QED
  BY <1>2, <1>3, <1>4

\* What is left of the supply at that cap costs at most one lamport.
LEMMA RemainingSupplyProperty ==
    ASSUME NEW s \in Nat, NEW q \in Nat \ {0}
    PROVE  /\ RemainingPresaleSupply(s, q) >= 0
           /\ QuoteCost(RemainingPresaleSupply(s, q), q) <= 1
<1> DEFINE c == MaxPresaleCap(s, q)
           b == BaseBought(c, q)
           more == BaseBought(c + 1, q)
           left == s - b
<1>1. c \in Nat /\ b <= s /\ (b = s \/ more > s)
  BY MaxPresaleCapProperty
<1>2. /\ b \in Nat
      /\ c * Scale < b * q + q
      /\ more \in Nat
      /\ more * q <= (c + 1) * Scale
  <2>1. c \in Nat /\ c + 1 \in Nat
    BY <1>1
  <2> HIDE DEF c
  <2> QED
    BY <2>1, BaseBoughtProperty
<1>3. RemainingPresaleSupply(s, q) = left
  BY DEF RemainingPresaleSupply
<1> HIDE DEF c, b, more
<1>4. left \in Nat
  BY <1>1, <1>2
<1>5. left * q <= 1 * Scale
  <2>1. CASE b = s
    BY <2>1, <1>2, ScalePositive
  <2>2. CASE more > s
    <3>1. (s + 1) * q <= more * q
      BY <2>2, <1>2, ProductMonotone
    <3>2. s * q + q <= c * Scale + Scale
      BY <3>1, <1>1, <1>2, ScalePositive
    <3>3. left * q = s * q - b * q
      BY <1>2
    <3>4. s * q \in Nat /\ b * q \in Nat /\ c * Scale \in Nat
      BY <1>1, <1>2, ScalePositive
    <3> QED
      BY <3>2, <3>3, <3>4, <1>2, ScalePositive
  <2> QED
    BY <2>1, <2>2, <1>1
<1>6. QuoteCost(left, q) <= 1
  <2> HIDE DEF left
  <2> QED
    BY <1>4, <1>5, CostAtMost
<1> QED
  BY <1>3, <1>4, <1>6

\* calculateMaximumQuoteAmountForPresaleSupply never oversells.
THEOREM CapNeverOversellsTheorem == Spec => []CapNeverOversells
<1>1. TypeOK => CapNeverOversells
  BY MaxPresaleCapProperty DEF TypeOK, CapNeverOversells
<1> QED
  BY <1>1, InputsOK, PTL

\* And leaves next to nothing of the supply unsold.
THEOREM LittleIsLeftTheorem == Spec => []LittleIsLeftAtTheCap
<1>1. TypeOK => LittleIsLeftAtTheCap
  BY RemainingSupplyProperty DEF TypeOK, LittleIsLeftAtTheCap
<1> QED
  BY <1>1, InputsOK, PTL

---------------------------------------------------------------------------
(* Suggestions and deposit fees *)

\* calculateQuoteTokenWithoutSurplus returns the least amount that buys the
\* same tokens.
THEOREM SuggestionIsCheapestTheorem == Spec => []SuggestionIsCheapest
<1>1. TypeOK => SuggestionIsCheapest
  <2> SUFFICES ASSUME TypeOK PROVE SuggestionIsCheapest
    OBVIOUS
  <2> DEFINE q == QPrice
             b == BaseBought(amount, q)
             n == CalculateQuoteTokenWithoutSurplus(amount, q)
  <2>1. amount \in Nat /\ q \in Nat \ {0}
    BY DEF TypeOK
  <2> HIDE DEF q
  <2>2. n \in Nat /\ n <= amount /\ n = QuoteCost(b, q)
    BY <2>1, WithoutSurplusAtMost DEF CalculateQuoteTokenWithoutSurplus
  <2>3. b \in Nat
    BY <2>1, BaseBoughtProperty
  <2>4. BaseBought(n, q) = b
    <3>1. b <= BaseBought(n, q)
      BY <2>1, <2>2, <2>3, QuoteCostBuys
    <3>2. BaseBought(n, q) <= b
      BY <2>1, <2>2, BaseBoughtMonotone
    <3>3. BaseBought(n, q) \in Nat
      BY <2>1, <2>2, BaseBoughtProperty
    <3> QED
      BY <3>1, <3>2, <3>3, <2>3
  <2>5. ASSUME NEW less \in 0..(n - 1) PROVE BaseBought(less, q) < b
    <3>1. less \in Nat /\ less < n
      BY <2>2
    <3> QED
      BY <3>1, <2>1, <2>2, <2>3, LessThanCostBuysFewer
  <2> QED
    BY <2>2, <2>4, <2>5 DEF SuggestionIsCheapest, q
<1> QED
  BY <1>1, InputsOK, PTL

\* calculateDepositFeeIncludedAmount returns the least sufficient amount.
THEOREM FeeIncludedIsLeastTheorem == Spec => []FeeIncludedIsLeast
<1>1. TypeOK => FeeIncludedIsLeast
  <2> SUFFICES ASSUME TypeOK PROVE FeeIncludedIsLeast
    OBVIOUS
  <2> DEFINE net == BpsBase - feeBps
             x == amount * BpsBase
             gross == CalculateDepositFeeIncludedAmount(amount, feeBps, "Up")
  <2>1. net \in Nat \ {0} /\ x \in Nat /\ feeBps \in Nat /\ amount \in Nat
    BY BpsAssumption DEF TypeOK
  <2>2. CASE feeBps = 0
    <3>1. gross = amount /\ net = BpsBase
      BY <2>2, BpsAssumption DEF CalculateDepositFeeIncludedAmount
    <3>2. ASSUME NEW less \in 0..(gross - 1) PROVE less * net < x
      <4>1. less \in Nat /\ less + 1 \in Nat /\ less + 1 <= amount
        BY <3>1, <2>1
      <4>2. (less + 1) * BpsBase <= amount * BpsBase
        BY <4>1, <2>1, BpsAssumption, ProductMonotone
      <4>3. less * BpsBase < amount * BpsBase
        BY <4>1, <4>2, <2>1, BpsAssumption
      <4> QED
        BY <4>3, <3>1
    <3>3. gross * net >= x
      BY <3>1, <2>1, BpsAssumption
    <3> QED
      BY <3>2, <3>3 DEF FeeIncludedIsLeast
  <2>3. CASE feeBps # 0
    <3>1. gross = CeilDiv(x, net)
      BY <2>3 DEF CalculateDepositFeeIncludedAmount
    <3> HIDE DEF net, x, gross
    <3>2. gross \in Nat /\ x <= gross * net
      BY <3>1, <2>1, CeilProperty
    <3>3. ASSUME NEW less \in 0..(gross - 1) PROVE less * net < x
      <4>1. less \in Nat /\ less < gross
        BY <3>2
      <4> QED
        BY <4>1, <3>1, <2>1, BelowCeil
    <3>4. gross * net >= x
      BY <3>2, <2>1
    <3> QED
      BY <3>3, <3>4 DEF FeeIncludedIsLeast, net, x, gross
  <2> QED
    BY <2>2, <2>3
<1> QED
  BY <1>1, InputsOK, PTL

---------------------------------------------------------------------------
(* Transfer fees *)

\* What a rate leaves of an amount, its fee rounded up and not limited.
LEMMA RateLeaves ==
    ASSUME NEW s \in Nat, NEW r \in 0..BpsBase
    PROVE  /\ CeilDiv(s * r, BpsBase) \in Nat
           /\ (s - CeilDiv(s * r, BpsBase)) * BpsBase <= s * (BpsBase - r)
           /\ s * (BpsBase - r) < (s - CeilDiv(s * r, BpsBase)) * BpsBase + BpsBase
<1> DEFINE c == CeilDiv(s * r, BpsBase)
<1>1. s * r \in Nat /\ r \in Nat /\ BpsBase \in Nat \ {0}
  BY BpsAssumption
<1>2. c \in Nat /\ s * r <= c * BpsBase /\ c * BpsBase < s * r + BpsBase
  BY <1>1, CeilProperty
<1> HIDE DEF c
<1>3. /\ (s - c) * BpsBase = s * BpsBase - c * BpsBase
      /\ s * (BpsBase - r) = s * BpsBase - s * r
  BY <1>1, <1>2
<1>4. s * BpsBase \in Nat /\ c * BpsBase \in Nat
  BY <1>1, <1>2
<1>5. (s - c) * BpsBase <= s * (BpsBase - r)
  BY <1>1, <1>2, <1>3, <1>4
<1>6. s * (BpsBase - r) < (s - c) * BpsBase + BpsBase
  BY <1>1, <1>2, <1>3, <1>4
<1> QED
  BY <1>2, <1>5, <1>6 DEF c

\* A multiple of BpsBase below another.
LEMMA MultiplesInOrder ==
    ASSUME NEW a \in Int, NEW b \in Int, a * BpsBase < b * BpsBase
    PROVE  a < b
<1>1. ASSUME b <= a PROVE FALSE
  <2>1. PICK d \in Nat : a = b + d
    <3>1. a - b \in Nat /\ a = b + (a - b)
      BY <1>1
    <3> QED
      BY <3>1
  <2>2. a * BpsBase = b * BpsBase + d * BpsBase
    BY <2>1, BpsAssumption
  <2>3. d * BpsBase \in Nat /\ b * BpsBase \in Int
    BY <2>1, BpsAssumption
  <2> QED
    BY <2>2, <2>3
<1> QED
  BY <1>1

\* An amount below the one whose rate leaves x leaves less.
LEMMA BelowLeavesLess ==
    ASSUME NEW x \in Nat, NEW r \in 0..BpsBase, NEW s \in Nat,
           s * (BpsBase - r) < x * BpsBase
    PROVE  s - CeilDiv(s * r, BpsBase) < x
<1> DEFINE c == CeilDiv(s * r, BpsBase)
<1>1. c \in Nat /\ (s - c) * BpsBase <= s * (BpsBase - r)
  BY RateLeaves
<1> HIDE DEF c
<1>2. (s - c) * BpsBase < x * BpsBase
  <2>1. (s - c) * BpsBase \in Int /\ s * (BpsBase - r) \in Int /\ x * BpsBase \in Int
    BY <1>1, BpsAssumption
  <2> QED
    BY <2>1, <1>1
<1> QED
  BY <1>1, <1>2, MultiplesInOrder DEF c

\* A rate between nothing and everything.
LEMMA PreFeeAmountIsLeast ==
    ASSUME NEW x \in Nat \ {0}, NEW r \in 1..(BpsBase - 1), NEW m \in Nat,
           NEW fee, fee = [basisPoints |-> r, maximumFee |-> m]
    PROVE  \E sent \in Nat :
                /\ sent = x + CalculateInverseFee(fee, x)
                /\ sent - CalculateFee(fee, sent) = x
                /\ \A less \in 0..(sent - 1) : less - CalculateFee(fee, less) < x
<1> DEFINE net == BpsBase - r
           raw == CeilDiv(x * BpsBase, net)
           C(s) == CeilDiv(s * r, BpsBase)
           pre == Least(raw, x + m)
<1>1. /\ BpsBase \in Nat \ {0} /\ r \in Nat /\ r # 0 /\ r # BpsBase
      /\ r \in 0..BpsBase
      /\ net \in Nat \ {0} /\ net <= BpsBase /\ x * BpsBase \in Nat
  BY BpsAssumption
<1>2. fee.basisPoints = r /\ fee.maximumFee = m
  OBVIOUS
<1>3. \A s \in Nat : C(s) \in Nat /\ CalculateFee(fee, s) = Least(C(s), m)
  BY <1>1, <1>2, RateLeaves DEF CalculateFee
<1>4. CalculatePreFeeAmount(fee, x) = pre
  BY <1>1, <1>2 DEF CalculatePreFeeAmount
<1>5. raw \in Nat /\ x * BpsBase <= raw * net /\ raw * net < x * BpsBase + net
  BY <1>1, CeilProperty
<1>6. pre \in Nat
  BY <1>5 DEF Least
<1>7. CalculateInverseFee(fee, x) = Least(C(pre), m)
  BY <1>3, <1>4, <1>6 DEF CalculateInverseFee
<1>8. ASSUME NEW s \in Nat, s < raw PROVE s - C(s) < x
  <2>1. s * net < x * BpsBase
    BY <1>1, <1>8, BelowCeil
  <2> QED
    BY <2>1, <1>1, BelowLeavesLess
<1>9. \A s \in Nat :
        /\ (s - C(s)) * BpsBase <= s * net
        /\ s * net < (s - C(s)) * BpsBase + BpsBase
  BY <1>1, RateLeaves
<1> HIDE DEF net, raw, C
<1>10. x + Least(C(pre), m) = pre /\ Least(C(pre), m) = pre - x
  <2>1. CASE raw < x + m
    <3>1. pre = raw
      BY <2>1, <1>5 DEF Least
    <3> DEFINE d == raw - C(raw)
    <3>2. d \in Int /\ d * BpsBase <= raw * net /\ raw * net < d * BpsBase + BpsBase
      BY <1>3, <1>5, <1>9
    <3> HIDE DEF d
    <3>3. /\ d * BpsBase \in Int /\ raw * net \in Int
          /\ (d + 1) * BpsBase = d * BpsBase + BpsBase
          /\ (x + 1) * BpsBase = x * BpsBase + BpsBase
      BY <3>2, <1>1, <1>5
    <3>4. d * BpsBase < (x + 1) * BpsBase
      BY <3>2, <3>3, <1>1, <1>5
    <3>5. x * BpsBase < (d + 1) * BpsBase
      BY <3>2, <3>3, <1>1, <1>5
    <3>6. d < x + 1 /\ x < d + 1
      BY <3>2, <3>4, <3>5, MultiplesInOrder
    <3>7. C(raw) = raw - x
      BY <3>6, <3>2, <1>3, <1>5 DEF d
    <3> QED
      BY <3>1, <3>7, <2>1, <1>5 DEF Least
  <2>2. CASE raw >= x + m
    <3>1. pre = x + m
      BY <2>2, <1>5 DEF Least
    <3>2. C(pre) \in Nat
      BY <1>3, <1>6
    <3>3. ASSUME C(pre) < m PROVE FALSE
      <4>1. pre - 1 \in Nat /\ pre - 1 < raw
        BY <3>1, <3>2, <3>3, <2>2, <1>5
      <4>2. (pre - 1) * net < x * BpsBase
        BY <4>1, <1>1, BelowCeil DEF raw
      <4>3. pre * net = (pre - 1) * net + net
        BY <1>1, <1>6
      <4>4. pre * net < x * BpsBase + BpsBase
        <5>1. (pre - 1) * net \in Int
          BY <1>1, <1>6
        <5> QED
          BY <5>1, <4>2, <4>3, <1>1
      <4>5. (pre - C(pre)) * BpsBase <= pre * net
        BY <1>6, <1>9
      <4> DEFINE d == pre - C(pre)
      <4>6. d \in Int /\ d >= x + 1
        BY <3>1, <3>2, <3>3, <1>6
      <4> HIDE DEF d
      <4>7. d * BpsBase < (x + 1) * BpsBase
        <5>1. d * BpsBase \in Int /\ pre * net \in Int
              /\ (x + 1) * BpsBase = x * BpsBase + BpsBase
          BY <4>6, <1>1, <1>6
        <5> QED
          BY <5>1, <4>4, <4>5, <1>1 DEF d
      <4> QED
        BY <4>6, <4>7, MultiplesInOrder
    <3> QED
      BY <3>1, <3>2, <3>3 DEF Least
  <2> QED
    BY <2>1, <2>2, <1>5
<1>11. x + CalculateInverseFee(fee, x) = pre
  BY <1>7, <1>10
<1>12. pre - CalculateFee(fee, pre) = x
  BY <1>3, <1>6, <1>10
<1>13. ASSUME NEW less \in 0..(pre - 1) PROVE less - CalculateFee(fee, less) < x
  <2>1. less \in Nat /\ less < raw /\ less < x + m
    BY <1>5, <1>6 DEF Least
  <2>2. C(less) \in Nat /\ less - C(less) < x
    BY <2>1, <1>3, <1>8
  <2>3. less - Least(C(less), m) < x
    BY <2>1, <2>2 DEF Least
  <2> QED
    BY <2>1, <2>3, <1>3
<1> HIDE DEF pre
<1> QED
  BY <1>6, <1>11, <1>12, <1>13

\* All rates, a rate of everything and of nothing included.
LEMMA SentIsLeast ==
    ASSUME NEW x \in Nat, NEW r \in 0..BpsBase, NEW m \in Nat,
           NEW config, NEW epoch,
           GetEpochFee(config, epoch) = [basisPoints |-> r, maximumFee |-> m]
    PROVE  LET sent == CalculateTransferFeeIncludedAmount(config, x, epoch)
           IN  /\ CalculateTransferFeeExcludedAmount(config, sent, epoch) = x
               /\ \A less \in 0..(sent - 1) :
                     CalculateTransferFeeExcludedAmount(config, less, epoch) < x
<1> DEFINE fee == GetEpochFee(config, epoch)
           sent == CalculateTransferFeeIncludedAmount(config, x, epoch)
<1>1. fee.basisPoints = r /\ fee.maximumFee = m
  OBVIOUS
<1>2. \A s : CalculateTransferFeeExcludedAmount(config, s, epoch)
                = s - CalculateFee(fee, s)
  BY DEF CalculateTransferFeeExcludedAmount
<1>3. BpsBase \in Nat \ {0} /\ r \in Nat
  BY BpsAssumption
<1>4. \A s \in Nat : /\ CeilDiv(s * r, BpsBase) \in Nat
                     /\ r # 0 => CalculateFee(fee, s)
                                    = Least(CeilDiv(s * r, BpsBase), m)
                     /\ r = 0 => CalculateFee(fee, s) = 0
  BY <1>1, RateLeaves DEF CalculateFee
<1>5. CASE x = 0
  <2>1. sent = 0
    BY <1>5 DEF CalculateTransferFeeIncludedAmount
  <2>2. CeilDiv(0 * r, BpsBase) <= 0
    BY <1>3, CeilIsLeast
  <2>3. CalculateFee(fee, 0) = 0
    BY <2>2, <1>4 DEF Least
  <2> QED
    BY <2>1, <2>3, <1>2, <1>5
<1>6. CASE x # 0 /\ r = BpsBase
  <2>1. sent = x + m
    BY <1>6, <1>1 DEF CalculateTransferFeeIncludedAmount
  <2>2. ASSUME NEW s \in Nat PROVE CalculateFee(fee, s) = Least(s, m)
    <3>1. CeilDiv(s * BpsBase, BpsBase) <= s
      <4>1. s * BpsBase \in Nat
        BY <1>3
      <4> QED
        BY <4>1, <1>3, CeilIsLeast
    <3>2. CeilDiv(s * BpsBase, BpsBase) >= s
      <4>1. s * BpsBase \in Nat
        BY <1>3
      <4>2. /\ CeilDiv(s * BpsBase, BpsBase) \in Nat
            /\ s * BpsBase <= CeilDiv(s * BpsBase, BpsBase) * BpsBase
        BY <4>1, <1>3, CeilProperty
      <4> QED
        BY <4>2, <1>3, ProductCancels
    <3>3. CeilDiv(s * BpsBase, BpsBase) \in Nat
      <4>1. s * BpsBase \in Nat
        BY <1>3
      <4> QED
        BY <4>1, <1>3, CeilProperty
    <3>4. CeilDiv(s * BpsBase, BpsBase) = s
      BY <3>1, <3>2, <3>3
    <3>5. CalculateFee(fee, s) = Least(CeilDiv(s * BpsBase, BpsBase), m)
      BY <1>3, <1>4, <1>6
    <3> QED
      BY <3>4, <3>5
  <2>3. \A s \in 0..(x + m) : s - CalculateFee(fee, s) = IF s <= m THEN 0 ELSE s - m
    BY <2>2 DEF Least
  <2> QED
    BY <2>1, <2>3, <1>2, <1>6
<1>7. CASE x # 0 /\ r = 0
  <2>1. CalculateInverseFee(fee, x) = 0
    BY <1>7, <1>1 DEF CalculateInverseFee, CalculateFee
  <2>2. sent = x
    BY <2>1, <1>1, <1>3, <1>7 DEF CalculateTransferFeeIncludedAmount
  <2>3. \A s \in 0..x : s - CalculateFee(fee, s) = s
    BY <1>4, <1>7
  <2> QED
    BY <2>2, <2>3, <1>2
<1>8. CASE x # 0 /\ r \in 1..(BpsBase - 1)
  <2>1. sent = x + CalculateInverseFee(fee, x)
    BY <1>8, <1>1, <1>3 DEF CalculateTransferFeeIncludedAmount
  <2>2. x \in Nat \ {0} /\ r \in 1..(BpsBase - 1)
        /\ fee = [basisPoints |-> r, maximumFee |-> m]
    BY <1>8
  <2> HIDE DEF fee
  <2>3. PICK s \in Nat :
            /\ s = x + CalculateInverseFee(fee, x)
            /\ s - CalculateFee(fee, s) = x
            /\ \A less \in 0..(s - 1) : less - CalculateFee(fee, less) < x
    BY <2>2, PreFeeAmountIsLeast
  <2>4. sent = s
    BY <2>1, <2>3
  <2> QED
    BY <2>3, <2>4, <1>2
<1> QED
  BY <1>3, <1>5, <1>6, <1>7, <1>8

\* calculateTransferFeeIncludedAmount returns the least sum of which the amount
\* arrives.
THEOREM TransferFeeIncludedIsLeastTheorem == Spec => []TransferFeeIncludedIsLeast
<1>1. TypeOK => TransferFeeIncludedIsLeast
  <2> SUFFICES ASSUME TypeOK, NEW maximumFee \in 0..MaxFee, NEW epoch \in 0..1
               PROVE  LET config == [older |-> [basisPoints |-> feeBps,
                                                maximumFee |-> maximumFee],
                                     newer |-> [basisPoints |-> BpsBase,
                                                maximumFee |-> maximumFee],
                                     newerFrom |-> 1]
                          sent == CalculateTransferFeeIncludedAmount(
                                    config, amount, epoch)
                      IN  /\ CalculateTransferFeeExcludedAmount(
                                config, sent, epoch) = amount
                          /\ \A less \in 0..(sent - 1) :
                                CalculateTransferFeeExcludedAmount(
                                    config, less, epoch) < amount
    BY Zenon DEF TransferFeeIncludedIsLeast
  <2> DEFINE config == [older |-> [basisPoints |-> feeBps,
                                   maximumFee |-> maximumFee],
                        newer |-> [basisPoints |-> BpsBase,
                                   maximumFee |-> maximumFee],
                        newerFrom |-> 1]
  <2>1. amount \in Nat /\ maximumFee \in Nat /\ feeBps \in 0..BpsBase
        /\ BpsBase \in 0..BpsBase
    BY MaxFeeAssumption, BpsAssumption DEF TypeOK
  <2>2. PICK r \in 0..BpsBase :
            GetEpochFee(config, epoch) = [basisPoints |-> r,
                                          maximumFee |-> maximumFee]
    BY <2>1 DEF GetEpochFee
  <2> HIDE DEF config
  <2> QED
    BY <2>1, <2>2, SentIsLeast, Zenon DEF config
<1> QED
  BY <1>1, InputsOK, PTL

---------------------------------------------------------------------------
(* The minimum amount *)

\* calculateMinimumQuoteAmountForBaseLamport returns the least amount that buys
\* anything.
THEOREM MinimumQuoteIsLeastTheorem == Spec => []MinimumQuoteIsLeast
<1>1. TypeOK => MinimumQuoteIsLeast
  <2> SUFFICES ASSUME TypeOK PROVE MinimumQuoteIsLeast
    OBVIOUS
  <2> DEFINE q == QPrice
             m == CeilDiv(q, Scale)
  <2>1. q \in Nat \ {0}
    BY DEF TypeOK
  <2> HIDE DEF q
  <2>2. m \in Nat /\ q <= m * Scale
    BY <2>1, ScalePositive, CeilProperty
  <2>3. BaseBought(m, q) >= 1
    <3> HIDE DEF m
    <3>1. m * Scale \in Nat /\ 1 * q <= m * Scale
      BY <2>1, <2>2, ScalePositive
    <3>2. 1 <= BaseBought(m, q)
      BY <3>1, <2>1, FloorIsGreatest DEF BaseBought
    <3>3. BaseBought(m, q) \in Nat
      BY <2>1, <2>2, BaseBoughtProperty
    <3> QED
      BY <3>2, <3>3
  <2>4. ASSUME NEW less \in 0..(m - 1) PROVE BaseBought(less, q) = 0
    <3>1. less \in Nat /\ less < m
      BY <2>2
    <3>2. less * Scale < q
      BY <3>1, <2>1, ScalePositive, BelowCeil
    <3>3. less * Scale \in Nat /\ less * Scale < 1 * q
      BY <3>1, <3>2, <2>1, ScalePositive
    <3>4. BaseBought(less, q) < 1
      BY <3>3, <2>1, FloorIsBelow DEF BaseBought
    <3>5. BaseBought(less, q) \in Nat
      BY <3>1, <2>1, BaseBoughtProperty
    <3> QED
      BY <3>4, <3>5
  <2> QED
    BY <2>3, <2>4
      DEF MinimumQuoteIsLeast, CalculateMinimumQuoteAmountForBaseLamport, q
<1> QED
  BY <1>1, InputsOK, PTL
=============================================================================
