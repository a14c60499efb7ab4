---------------------------- MODULE ModeHandlers ----------------------------
(***************************************************************************)
(* The three presale mode handlers (presale_mode_handler/): how much may   *)
(* still be deposited, how many base tokens a registry has sold, which     *)
(* amounts are suggested to a buyer.                                       *)
(*                                                                         *)
(* p is a presale account (a record with the field names of the IDL, see   *)
(* PresaleAccounts), i the index of one of its registries.  The mode's raw *)
(* data are decoded into the fields qPrice, disableWithdraw and            *)
(* disableEarlierPresaleEndOnceCapReached of p.                            *)
(***************************************************************************)
EXTENDS PresaleMath, FiniteSetsExt

CONSTANTS
    RegistryIndex,  \* indices of the presale_registries array (0..4)
    U64Max          \* type.ts U64_MAX, the pro rata handler's "no quota"

ASSUME RegistryIndexAssumption ==
    RegistryIndex \subseteq Nat /\ IsFiniteSet(RegistryIndex)
ASSUME U64MaxAssumption == U64Max \in Nat

PresaleMode == {"FixedPrice", "Prorata", "Fcfs"}

\* PresaleRegistryWrapper.isInitialized
IsInitialized(r) ==
    \/ r.presaleSupply # 0
    \/ r.buyerMaximumDepositCap # 0
    \/ r.buyerMinimumDepositCap # 0
    \/ r.depositFeeBps > 0

\* getAllPresaleRegistries. getPresaleRegistry(i) returns a registry exactly
\* for the members of this set, undefined for every other index.
InitializedRegistries(p) ==
    {i \in RegistryIndex : IsInitialized(p.presaleRegistries[i])}

---------------------------------------------------------------------------
(* Base tokens sold *)

\* getBaseTokenSoldByDynamicPrice
BaseTokenSoldByDynamicPrice(totalDeposit, presaleSupply) ==
    IF totalDeposit = 0 \/ presaleSupply = 0 THEN 0 ELSE presaleSupply

\* FixedPricePresaleHandler.getRegistryTotalBaseTokenSold
FixedPriceBaseTokenSold(totalDeposit, presaleSupply, qPrice) ==
    IF totalDeposit = 0 \/ presaleSupply = 0
    THEN 0
    ELSE Least(BaseBought(totalDeposit, qPrice), presaleSupply)

\* Mutant: the supply of the presale instead of the registry's.
SoldOfPresaleSupply(p, i) ==
    LET r == p.presaleRegistries[i]
    IN  IF p.presaleMode = "FixedPrice"
        THEN FixedPriceBaseTokenSold(r.totalDeposit, p.presaleSupply, p.qPrice)
        ELSE BaseTokenSoldByDynamicPrice(r.totalDeposit, p.presaleSupply)

RegistryTotalBaseTokenSold(p, i) ==
    LET r == p.presaleRegistries[i]
    IN  IF p.presaleMode = "FixedPrice"
        THEN FixedPriceBaseTokenSold(r.totalDeposit, r.presaleSupply, p.qPrice)
        ELSE BaseTokenSoldByDynamicPrice(r.totalDeposit, r.presaleSupply)

TotalBaseTokenSold(p) ==
    SumFunction([i \in InitializedRegistries(p) |->
                    RegistryTotalBaseTokenSold(p, i)])

---------------------------------------------------------------------------
(* Deposit quotas *)

GlobalRemainingQuota(p) == p.presaleMaximumCap - p.totalDeposit

\* Mutant: the global quota forgotten.
FixedPriceQuotaOfRegistryOnly(p, i) ==
    QuoteCost(p.presaleRegistries[i].presaleSupply
                - RegistryTotalBaseTokenSold(p, i), p.qPrice)

\* Mutant: what the registry has sold already is not taken off.
FixedPriceQuotaOfWholeSupply(p, i) ==
    Least(GlobalRemainingQuota(p),
          QuoteCost(p.presaleRegistries[i].presaleSupply, p.qPrice))

\* Mutant: the price of what is left rounded down.
FixedPriceQuotaRoundedDown(p, i) ==
    Least(GlobalRemainingQuota(p),
          ((p.presaleRegistries[i].presaleSupply
                - RegistryTotalBaseTokenSold(p, i)) * p.qPrice) \div Scale)

\* FixedPricePresaleHandler.getRegistryRemainingDepositQuota
FixedPriceRegistryQuota(p, i) ==
    LET remainingBaseToken ==
            p.presaleRegistries[i].presaleSupply
                - RegistryTotalBaseTokenSold(p, i)
    IN  Least(GlobalRemainingQuota(p), QuoteCost(remainingBaseToken, p.qPrice))

\* Mutant: the global quota forgotten.
FcfsQuotaOfRegistryOnly(p, i) == p.presaleRegistries[i].buyerMaximumDepositCap

\* FcfsHandler.getRegistryRemainingDepositQuota
FcfsRegistryQuota(p, i) ==
    Least(GlobalRemainingQuota(p),
          p.presaleRegistries[i].buyerMaximumDepositCap)

RegistryRemainingDepositQuota(p, i) ==
    CASE p.presaleMode = "FixedPrice" -> FixedPriceRegistryQuota(p, i)
      [] p.presaleMode = "Prorata"    -> U64Max
      [] p.presaleMode = "Fcfs"       -> FcfsRegistryQuota(p, i)

\* getRemainingDepositQuota: the fixed price handler adds up the registries'
\* quotas, each already limited by the global one.
RemainingDepositQuota(p) ==
    CASE p.presaleMode = "FixedPrice" ->
            SumFunction([i \in InitializedRegistries(p) |->
                            FixedPriceRegistryQuota(p, i)])
      [] p.presaleMode = "Prorata"    -> U64Max
      [] p.presaleMode = "Fcfs"       -> GlobalRemainingQuota(p)

---------------------------------------------------------------------------
(* Withdrawing before the end, suggested amounts, early end *)

ModeSupportsWithdraw(p) ==
    \/ p.presaleMode = "Prorata"
    \/ p.presaleMode = "FixedPrice" /\ ~p.disableWithdraw

HandlerSuggestDepositAmount(p, maxAmount, remainingDepositAmount) ==
    LET amount == Least(maxAmount, remainingDepositAmount)
    IN  IF p.presaleMode = "FixedPrice"
        THEN CalculateQuoteTokenWithoutSurplus(amount, p.qPrice)
        ELSE amount

HandlerSuggestWithdrawAmount(p, maxAmount) ==
    CASE p.presaleMode = "FixedPrice" ->
            CalculateQuoteTokenWithoutSurplus(maxAmount, p.qPrice)
      [] p.presaleMode = "Prorata"    -> maxAmount
      [] p.presaleMode = "Fcfs"       -> 0

EarlierEndOnceCapReached(p) ==
    /\ p.presaleMode \in {"FixedPrice", "Fcfs"}
    /\ ~p.disableEarlierPresaleEndOnceCapReached
=============================================================================
