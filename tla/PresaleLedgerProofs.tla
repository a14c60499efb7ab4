------------------------- MODULE PresaleLedgerProofs -------------------------
(***************************************************************************)
(* The ledger keeps its types, its caps and its prices for every presale,  *)
(* every set of buyers and registries, every scale and every clock.        *)
(*                                                                         *)
(* The types are not inductive on their own: a withdrawal leaves a natural *)
(* in the totals of the registry and of the presale only because they add  *)
(* up what the buyers deposited, which is what TotalsAddUp says.           *)
(*                                                                         *)
(* The invariant leads on to the steps: the outcome of a presale is final, *)
(* a fixed price registry is overpaid by less than the price of one token, *)
(* nobody claims more than was bought, or in the end a lamport less, and   *)
(* no closed escrow is owed anything.                                      *)
(*                                                                         *)
(* The vaults cover what the wrappers promise, in every order of payments, *)
(* and keep nothing but rounding when everyone has been paid.  Until the   *)
(* outcome is decided the quote vault holds exactly what the accounts say  *)
(* has been deposited (Untouched).  What the wrappers promise from then on *)
(* is at most that, and less by the roundings only: a surplus divided      *)
(* among the registries and then among the buyers of each.  Every payment  *)
(* takes out of the vault what it takes off the promises (Covered).        *)
(*                                                                         *)
(* From all of it, step by step: the ledger implements the abstract Sale.  *)
(***************************************************************************)
EXTENDS LedgerRefinement, PresaleMathProofs

---------------------------------------------------------------------------
(* Escrows, registries and presale: three levels of totals *)

\* What the buyers of each registry have together.
OfRegistry(part) ==
    [i \in RegistryIndex |-> SumFunction([o \in Owners |-> part[<<o, i>>]])]

TwoLevels(part, subtotal, total) ==
    /\ \A i \in RegistryIndex : OfRegistry(part)[i] <= subtotal[i]
    /\ SumFunction(subtotal) = total

Deposits ==
    [k \in EscrowKeys |-> IF Exists(k) THEN escrows[k].totalDeposit ELSE 0]
Fees ==
    [k \in EscrowKeys |-> IF Exists(k) THEN escrows[k].totalDepositFee ELSE 0]
RegistryDeposits ==
    [i \in RegistryIndex |-> presale.presaleRegistries[i].totalDeposit]
RegistryFees ==
    [i \in RegistryIndex |-> presale.presaleRegistries[i].totalDepositFee]

TotalsAddUp ==
    /\ TwoLevels(Deposits, RegistryDeposits, presale.totalDeposit)
    /\ TwoLevels(Fees, RegistryFees, presale.totalDepositFee)

\* The parts of one registry's buyers, as a function of the buyer.
LEMMA ColumnTypes ==
    ASSUME NEW part \in [EscrowKeys -> Nat], NEW i \in RegistryIndex
    PROVE  /\ [o \in Owners |-> part[<<o, i>>]] \in [Owners -> Nat]
           /\ [o \in Owners |-> part[<<o, i>>]] \in [Owners -> Int]
           /\ OfRegistry(part)[i] = SumFunction([o \in Owners |-> part[<<o, i>>]])
           /\ OfRegistry(part)[i] \in Nat
           /\ \A o \in Owners : part[<<o, i>>] <= OfRegistry(part)[i]
<1> DEFINE column == [o \in Owners |-> part[<<o, i>>]]
<1>1. column \in [Owners -> Nat] /\ column \in [Owners -> Int]
  BY DEF EscrowKeys
<1>2. OfRegistry(part)[i] = SumFunction(column)
  BY DEF OfRegistry
<1>3. \A o \in Owners : column[o] = part[<<o, i>>]
  OBVIOUS
<1> HIDE DEF column
<1>4. SumFunction(column) \in Nat /\ \A o \in Owners : column[o] <= SumFunction(column)
  BY <1>1, OwnersAssumption, SumPart
<1>5. /\ OfRegistry(part)[i] \in Nat
      /\ \A o \in Owners : part[<<o, i>>] <= OfRegistry(part)[i]
  BY <1>2, <1>3, <1>4
<1> QED
  BY <1>1, <1>2, <1>5 DEF column

\* What one buyer has more, the registry's buyers have more together.
LEMMA ColumnChange ==
    ASSUME NEW part \in [EscrowKeys -> Nat], NEW new \in [EscrowKeys -> Nat],
           NEW k \in EscrowKeys, NEW d \in Int,
           \A b \in EscrowKeys : new[b] = IF b = k THEN part[b] + d ELSE part[b]
    PROVE  \A i \in RegistryIndex :
              OfRegistry(new)[i] = IF i = k[2] THEN OfRegistry(part)[i] + d
                                   ELSE OfRegistry(part)[i]
<1> SUFFICES ASSUME NEW i \in RegistryIndex
             PROVE  OfRegistry(new)[i] = IF i = k[2] THEN OfRegistry(part)[i] + d
                                         ELSE OfRegistry(part)[i]
  OBVIOUS
<1> DEFINE old == [o \in Owners |-> part[<<o, i>>]]
           col == [o \in Owners |-> new[<<o, i>>]]
<1>1. /\ old \in [Owners -> Int] /\ col \in [Owners -> Int]
      /\ OfRegistry(part)[i] = SumFunction(old)
      /\ OfRegistry(new)[i] = SumFunction(col)
      /\ OfRegistry(part)[i] \in Nat
  BY ColumnTypes
<1>2. k[1] \in Owners /\ k[2] \in RegistryIndex /\ k = <<k[1], k[2]>>
  BY DEF EscrowKeys
<1>3. \A b \in EscrowKeys : new[b] = IF b = k THEN part[b] + d ELSE part[b]
  OBVIOUS
<1>4. CASE i = k[2]
  <2>1. /\ \A o \in Owners : o # k[1] => col[o] = old[o]
        /\ col[k[1]] = old[k[1]] + d /\ old[k[1]] \in Int
    BY <1>1, <1>2, <1>3, <1>4 DEF EscrowKeys
  <2> HIDE DEF old, col
  <2>2. SumFunction(col) = SumFunction(old) + (col[k[1]] - old[k[1]])
    BY <1>1, <1>2, <2>1, OwnersAssumption, SumChange
  <2> QED
    BY <1>1, <1>4, <2>1, <2>2
<1>5. CASE i # k[2]
  <2>1. \A o \in Owners : new[<<o, i>>] = part[<<o, i>>]
    BY <1>2, <1>3, <1>5 DEF EscrowKeys
  <2>2. col = old
    BY <2>1
  <2> QED
    BY <1>1, <1>5, <2>2
<1> QED
  BY <1>4, <1>5

\* All three levels change together and keep adding up.
LEMMA TwoLevelsChange ==
    ASSUME NEW part \in [EscrowKeys -> Nat], NEW subtotal \in [RegistryIndex -> Nat],
           NEW total \in Nat, TwoLevels(part, subtotal, total),
           NEW k \in EscrowKeys, NEW d \in Int, part[k] + d >= 0
    PROVE  /\ part[k] <= subtotal[k[2]]
           /\ subtotal[k[2]] + d \in Nat
           /\ total + d \in Nat
           /\ TwoLevels([part EXCEPT ![k] = @ + d],
                        [subtotal EXCEPT ![k[2]] = @ + d], total + d)
<1> DEFINE i == k[2]
           newPart == [part EXCEPT ![k] = @ + d]
           newSubtotal == [subtotal EXCEPT ![i] = @ + d]
<1>1. k[1] \in Owners /\ i \in RegistryIndex /\ k = <<k[1], i>>
  BY DEF EscrowKeys
<1>2. newPart \in [EscrowKeys -> Nat] /\ part[k] \in Nat
  OBVIOUS
<1>3. \A r \in RegistryIndex :
        /\ OfRegistry(part)[r] \in Nat
        /\ OfRegistry(part)[r] <= subtotal[r]
        /\ OfRegistry(newPart)[r] = IF r = i THEN OfRegistry(part)[r] + d
                                    ELSE OfRegistry(part)[r]
  <2> TAKE r \in RegistryIndex
  <2>1. OfRegistry(part)[r] \in Nat
    BY ColumnTypes
  <2>2. OfRegistry(part)[r] <= subtotal[r]
    BY DEF TwoLevels
  <2>3. \A b \in EscrowKeys :
          newPart[b] = IF b = k THEN part[b] + d ELSE part[b]
    OBVIOUS
  <2> HIDE DEF newPart
  <2>4. OfRegistry(newPart)[r] = IF r = k[2] THEN OfRegistry(part)[r] + d
                                 ELSE OfRegistry(part)[r]
    BY <1>2, <2>3, ColumnChange
  <2> QED
    BY <2>1, <2>2, <2>4
<1>4. part[k] <= OfRegistry(part)[i]
  BY <1>1, ColumnTypes
<1>5. subtotal[i] \in Nat /\ part[k] <= subtotal[i] /\ subtotal[i] + d \in Nat
  BY <1>1, <1>2, <1>3, <1>4
<1>6. newSubtotal \in [RegistryIndex -> Nat]
  BY <1>1, <1>5
<1>7. /\ newSubtotal[i] = subtotal[i] + d
      /\ \A r \in RegistryIndex : r # i => newSubtotal[r] = subtotal[r]
  BY <1>1
<1>8. SumFunction(newSubtotal) = SumFunction(subtotal) + d
  <2> HIDE DEF newSubtotal, i
  <2>1. subtotal \in [RegistryIndex -> Int] /\ newSubtotal \in [RegistryIndex -> Int]
    BY <1>6
  <2>2. SumFunction(newSubtotal) = SumFunction(subtotal)
                                    + (newSubtotal[i] - subtotal[i])
    BY <1>1, <1>7, <2>1, RegistryIndexAssumption, SumChange
  <2> QED
    BY <1>5, <1>7, <2>2
<1>9. SumFunction(newSubtotal) = total + d /\ total + d \in Nat
  <2>1. SumFunction(newSubtotal) \in Nat
    BY <1>6, RegistryIndexAssumption, SumPart
  <2> QED
    BY <1>8, <2>1 DEF TwoLevels
<1>10. \A r \in RegistryIndex : OfRegistry(newPart)[r] <= newSubtotal[r]
  <2> HIDE DEF newPart, newSubtotal, i
  <2> QED
    BY <1>3, <1>5, <1>7
<1> QED
  BY <1>5, <1>9, <1>10 DEF TwoLevels

---------------------------------------------------------------------------
(* The amounts of the wrappers *)

\* The escrow at an address belongs to the registry of the address.
AddressesMatch ==
    \A k \in EscrowKeys : Exists(k) => escrows[k].registryIndex = k[2]

\* The inductive invariant of the ledger.
LedgerInv ==
    /\ TypeOK
    /\ TotalsAddUp
    /\ AddressesMatch
    /\ CapNeverExceeded
    /\ BuyerCapRespected

\* The types of what an address holds.
LEMMA EscrowTypes ==
    ASSUME TypeOK, NEW k \in EscrowKeys
    PROVE  /\ Exists(k) => escrows[k] \in EscrowAccount
           /\ k[2] \in RegistryIndex
           /\ presale.presaleRegistries[k[2]] \in PresaleRegistry
BY Zenon DEF TypeOK, Exists, EscrowKeys, PresaleAccounts

\* A fixed price registry sells no more than its supply and only what has been
\* paid for.
LEMMA FixedPriceSold ==
    ASSUME NEW deposit \in Nat, NEW supply \in Nat, NEW q \in Nat \ {0}
    PROVE  /\ FixedPriceBaseTokenSold(deposit, supply, q) \in 0..supply
           /\ FixedPriceBaseTokenSold(deposit, supply, q) * q <= deposit * Scale
           /\ \/ deposit * Scale < FixedPriceBaseTokenSold(deposit, supply, q) * q + q
              \/ FixedPriceBaseTokenSold(deposit, supply, q) = supply
<1> SUFFICES ASSUME NEW sold, sold = FixedPriceBaseTokenSold(deposit, supply, q)
             PROVE  /\ sold \in 0..supply
                    /\ sold * q <= deposit * Scale
                    /\ deposit * Scale < sold * q + q \/ sold = supply
  OBVIOUS
<1> DEFINE bought == BaseBought(deposit, q)
<1>1. /\ bought \in Nat /\ bought * q <= deposit * Scale
      /\ deposit * Scale < bought * q + q
  BY BaseBoughtProperty
<1>2. deposit * Scale \in Nat
  BY ScalePositive
<1>3. CASE deposit = 0 \/ supply = 0
  <2>1. sold = 0
    BY <1>3 DEF FixedPriceBaseTokenSold
  <2> QED
    BY <2>1, <1>2, <1>3, ScalePositive
<1>4. CASE ~(deposit = 0 \/ supply = 0)
  <2>1. sold = IF bought <= supply THEN bought ELSE supply
    BY <1>4, Zenon DEF FixedPriceBaseTokenSold, Least
  <2> HIDE DEF bought
  <2>2. CASE bought <= supply
    BY <2>1, <2>2, <1>1, <1>2
  <2>3. CASE ~(bought <= supply)
    <3>1. sold = supply /\ supply <= bought
      BY <2>1, <2>3, <1>1
    <3>2. supply * q <= bought * q
      BY <3>1, <1>1, ProductMonotone
    <3>3. supply * q \in Nat /\ bought * q \in Nat
      BY <1>1
    <3> QED
      BY <3>1, <3>2, <3>3, <1>1, <1>2
  <2> QED
    BY <2>2, <2>3
<1> QED
  BY <1>3, <1>4

\* e is the escrow at address k, or one that can be opened there.
Holds(k, e) ==
    /\ e \in EscrowAccount
    /\ e.registryIndex = k[2]
    /\ e.totalDeposit = Deposits[k]
    /\ e.totalDepositFee = Fees[k]
    /\ e.totalDeposit <= e.depositMaxCap

\* A suggested deposit fits under every cap there is.
LEMMA SuggestedDeposit ==
    ASSUME LedgerInv, NEW k \in EscrowKeys, NEW e, Holds(k, e),
           NEW maxAmount \in Nat
    PROVE  LET amount == SuggestDepositAmount(presale, e, maxAmount)
               r == presale.presaleRegistries[k[2]]
           IN  /\ amount \in Nat /\ amount <= maxAmount
               /\ e.totalDeposit + amount <= e.depositMaxCap
               /\ presale.presaleMode # "Prorata" =>
                     presale.totalDeposit + amount <= presale.presaleMaximumCap
               /\ presale.presaleMode = "FixedPrice" =>
                     amount <= QuoteCost(r.presaleSupply
                        - FixedPriceBaseTokenSold(r.totalDeposit,
                            r.presaleSupply, presale.qPrice), presale.qPrice)
<1> DEFINE p == presale
           r == p.presaleRegistries[k[2]]
           mode == p.presaleMode
           q == p.qPrice
           left == r.presaleSupply
                    - FixedPriceBaseTokenSold(r.totalDeposit, r.presaleSupply, q)
           global == p.presaleMaximumCap - p.totalDeposit
           quota == RegistryRemainingDepositQuota(p, k[2])
           own == e.depositMaxCap - e.totalDeposit
           remaining == RemainingDepositAmount(p, e)
           x == Least(maxAmount, remaining)
           amount == SuggestDepositAmount(p, e, maxAmount)
<1>1. /\ e \in EscrowAccount /\ r \in PresaleRegistry /\ e.registryIndex = k[2]
      /\ p \in PresaleAccounts
  BY EscrowTypes DEF LedgerInv, TypeOK, Holds
<1>2. /\ q \in Nat \ {0} /\ mode \in PresaleMode
      /\ p.presaleMaximumCap \in Nat /\ p.totalDeposit \in Nat
      /\ e.depositMaxCap \in Nat /\ e.totalDeposit \in Nat
      /\ r.totalDeposit \in Nat /\ r.presaleSupply \in Nat
      /\ r.buyerMaximumDepositCap \in Nat
  BY <1>1 DEF PresaleAccounts, EscrowAccount, PresaleRegistry
<1>3. own \in Nat
  BY <1>2 DEF Holds
<1>4. mode # "Prorata" => global \in Nat
  BY <1>2 DEF LedgerInv, CapNeverExceeded
<1>5. left \in Nat
  <2>1. FixedPriceBaseTokenSold(r.totalDeposit, r.presaleSupply, q)
            \in 0..r.presaleSupply
    <3> HIDE DEF r, q
    <3> QED
      BY <1>2, FixedPriceSold
  <2> QED
    BY <2>1, <1>2
<1>6. /\ quota \in Nat
      /\ mode # "Prorata" => quota <= global
      /\ mode = "FixedPrice" => quota <= QuoteCost(left, q)
  <2>1. CASE mode = "FixedPrice"
    <3>1. RegistryTotalBaseTokenSold(p, k[2])
            = FixedPriceBaseTokenSold(r.totalDeposit, r.presaleSupply, q)
      BY <2>1 DEF RegistryTotalBaseTokenSold
    <3>2. quota = Least(global, QuoteCost(left, q))
      BY <2>1, <3>1
        DEF RegistryRemainingDepositQuota, FixedPriceRegistryQuota, GlobalRemainingQuota
    <3>3. QuoteCost(left, q) \in Nat
      BY <1>2, <1>5, QuoteCostProperty
    <3> HIDE DEF quota, global, left, q, mode
    <3> QED
      BY <2>1, <3>2, <3>3, <1>4 DEF Least
  <2>2. CASE mode = "Prorata"
    BY <2>2, U64MaxAssumption DEF RegistryRemainingDepositQuota
  <2>3. CASE mode = "Fcfs"
    <3>1. quota = Least(global, r.buyerMaximumDepositCap)
      BY <2>3 DEF RegistryRemainingDepositQuota, FcfsRegistryQuota, GlobalRemainingQuota
    <3> HIDE DEF quota, global, mode
    <3> QED
      BY <2>3, <3>1, <1>2, <1>4 DEF Least
  <2> QED
    BY <2>1, <2>2, <2>3, <1>2 DEF PresaleMode
<1>7. remaining = Least(quota, own)
  BY <1>1 DEF RemainingDepositAmount
<1>8. /\ amount = IF mode = "FixedPrice"
                  THEN CalculateQuoteTokenWithoutSurplus(x, q) ELSE x
  BY DEF SuggestDepositAmount, HandlerSuggestDepositAmount
<1> HIDE DEF quota, own, global, left, q, mode, remaining, amount
<1>9. x \in Nat /\ x <= quota /\ x <= own /\ x <= maxAmount
  BY <1>3, <1>6, <1>7 DEF Least
<1> HIDE DEF x
<1>10. amount \in Nat /\ amount <= x
  BY <1>8, <1>9, <1>2, WithoutSurplusAtMost
<1>11. /\ amount <= own
       /\ mode # "Prorata" => amount <= global
       /\ mode = "FixedPrice" => amount <= QuoteCost(left, q)
  BY <1>2, <1>3, <1>4, <1>5, <1>6, <1>9, <1>10, QuoteCostProperty
<1>12. /\ e.totalDeposit + amount <= e.depositMaxCap
       /\ mode # "Prorata" => p.totalDeposit + amount <= p.presaleMaximumCap
  BY <1>2, <1>3, <1>4, <1>10, <1>11 DEF own, global
<1>13. amount <= maxAmount
  BY <1>9, <1>10
<1> QED
  BY <1>10, <1>11, <1>12, <1>13 DEF amount, mode, left, q

---------------------------------------------------------------------------
(* Crediting an amount, in or out *)

\* What no deposit and no withdrawal changes of a presale.
SameSettings(p, q) ==
    /\ p.presaleMode = q.presaleMode
    /\ p.presaleMaximumCap = q.presaleMaximumCap
    /\ p.presaleMinimumCap = q.presaleMinimumCap
    /\ p.presaleStartTime = q.presaleStartTime
    /\ p.presaleSupply = q.presaleSupply
    /\ p.qPrice = q.qPrice
    /\ p.hasCreatorWithdrawn = q.hasCreatorWithdrawn
    /\ p.depositFeeCollected = q.depositFeeCollected
    /\ p.isUnsoldTokenActionPerformed = q.isUnsoldTokenActionPerformed
    /\ \A r \in RegistryIndex :
         /\ p.presaleRegistries[r].presaleSupply
                = q.presaleRegistries[r].presaleSupply
         /\ IsInitialized(p.presaleRegistries[r])
                = IsInitialized(q.presaleRegistries[r])

\* The parts of a presale that an amount and its fee are credited to.
LEMMA CreditedFields ==
    ASSUME NEW p \in PresaleAccounts, NEW i \in RegistryIndex,
           NEW a \in Int, NEW f \in Int,
           p.totalDeposit + a \in Nat, p.totalDepositFee + f \in Nat,
           p.presaleRegistries[i].totalDeposit + a \in Nat,
           p.presaleRegistries[i].totalDepositFee + f \in Nat
    PROVE  LET new == Credited(p, i, a, f)
           IN  /\ new \in PresaleAccounts
               /\ new.totalDeposit = p.totalDeposit + a
               /\ new.totalDepositFee = p.totalDepositFee + f
               /\ new.presaleEndTime = p.presaleEndTime
               /\ SameSettings(new, p)
               /\ \A r \in RegistryIndex :
                    /\ new.presaleRegistries[r].totalDeposit =
                          IF r = i THEN p.presaleRegistries[r].totalDeposit + a
                          ELSE p.presaleRegistries[r].totalDeposit
                    /\ new.presaleRegistries[r].totalDepositFee =
                          IF r = i THEN p.presaleRegistries[r].totalDepositFee + f
                          ELSE p.presaleRegistries[r].totalDepositFee
<1> DEFINE registry == CreditedAccount(p.presaleRegistries[i], a, f)
           registries == [p.presaleRegistries EXCEPT ![i] = registry]
           new == [p EXCEPT !.totalDeposit = p.totalDeposit + a,
                            !.totalDepositFee = p.totalDepositFee + f,
                            !.presaleRegistries = registries]
<1>1. p.presaleRegistries \in [RegistryIndex -> PresaleRegistry]
  BY DEF PresaleAccounts
<1>2. /\ registry \in PresaleRegistry
      /\ registry.totalDeposit = p.presaleRegistries[i].totalDeposit + a
      /\ registry.totalDepositFee = p.presaleRegistries[i].totalDepositFee + f
      /\ registry.presaleSupply = p.presaleRegistries[i].presaleSupply
      /\ IsInitialized(registry) = IsInitialized(p.presaleRegistries[i])
  BY <1>1 DEF CreditedAccount, PresaleRegistry, IsInitialized
<1>3. Credited(p, i, a, f) = new
  BY DEF Credited, PresaleAccounts
<1> HIDE DEF registry
<1>4. registries \in [RegistryIndex -> PresaleRegistry]
  BY <1>1, <1>2
<1>5. \A r \in RegistryIndex :
        registries[r] = IF r = i THEN registry ELSE p.presaleRegistries[r]
  BY <1>1
<1> HIDE DEF registries
<1>6. new \in PresaleAccounts
  BY <1>4 DEF PresaleAccounts
<1>7. /\ new.totalDeposit = p.totalDeposit + a
      /\ new.totalDepositFee = p.totalDepositFee + f
      /\ new.presaleEndTime = p.presaleEndTime
      /\ new.presaleRegistries = registries
  BY DEF PresaleAccounts
<1>8. SameSettings(new, p)
  BY <1>2, <1>5 DEF PresaleAccounts, SameSettings
<1> HIDE DEF new
<1> QED
  BY <1>2, <1>3, <1>5, <1>6, <1>7, <1>8

\* Ending early changes the times of a presale and nothing else.
LEMMA EndedEarlyFields ==
    ASSUME NEW p \in PresaleAccounts, clock \in Nat
    PROVE  LET new == EndedEarly(p)
           IN  /\ new \in PresaleAccounts
               /\ new.totalDeposit = p.totalDeposit
               /\ new.totalDepositFee = p.totalDepositFee
               /\ new.presaleEndTime \in {p.presaleEndTime, clock}
               /\ new.presaleRegistries = p.presaleRegistries
               /\ SameSettings(new, p)
<1> DEFINE start == clock + p.lockDuration
           ended == [p EXCEPT !.presaleEndTime = clock,
                              !.vestingStartTime = start]
<1>1. EndedEarly(p) \in {p, ended} /\ start \in Nat
  BY DEF EndedEarly, PresaleAccounts
<1> HIDE DEF start
<1>2. /\ ended \in PresaleAccounts
      /\ ended.totalDeposit = p.totalDeposit
      /\ ended.totalDepositFee = p.totalDepositFee
      /\ ended.presaleEndTime = clock
      /\ ended.presaleRegistries = p.presaleRegistries
      /\ SameSettings(ended, p)
  BY <1>1 DEF PresaleAccounts, SameSettings
<1> HIDE DEF ended
<1>3. SameSettings(p, p)
  BY DEF SameSettings
<1> QED
  BY <1>1, <1>2, <1>3

\* The sums that the invariant is about are functions into the naturals.
LEMMA SumTypes ==
    ASSUME TypeOK
    PROVE  /\ Deposits \in [EscrowKeys -> Nat]
           /\ Fees \in [EscrowKeys -> Nat]
           /\ RegistryDeposits \in [RegistryIndex -> Nat]
           /\ RegistryFees \in [RegistryIndex -> Nat]
           /\ presale \in PresaleAccounts
           /\ presale.presaleRegistries \in [RegistryIndex -> PresaleRegistry]
           /\ presale.totalDeposit \in Nat
           /\ presale.totalDepositFee \in Nat
           /\ clock \in Nat
<1>1. \A k \in EscrowKeys : Exists(k) =>
        escrows[k].totalDeposit \in Nat /\ escrows[k].totalDepositFee \in Nat
  BY EscrowTypes DEF EscrowAccount
<1>2. presale \in PresaleAccounts
  BY DEF TypeOK
<1>3. presale.presaleRegistries \in [RegistryIndex -> PresaleRegistry]
  BY <1>2 DEF PresaleAccounts
<1>4. clock \in Nat
  BY MaxTimeAssumption DEF TypeOK
<1>5. presale.totalDeposit \in Nat /\ presale.totalDepositFee \in Nat
  BY <1>2 DEF PresaleAccounts
<1>6. RegistryDeposits \in [RegistryIndex -> Nat] /\ RegistryFees \in [RegistryIndex -> Nat]
  BY <1>3 DEF RegistryDeposits, RegistryFees, PresaleRegistry
<1>7. Deposits \in [EscrowKeys -> Nat] /\ Fees \in [EscrowKeys -> Nat]
  BY <1>1 DEF Deposits, Fees
<1> QED
  BY <1>2, <1>3, <1>4, <1>5, <1>6, <1>7

\* The step that has moved `a` into (or, negative, out of) the escrow e of k.
Moved(k, e, a) ==
    /\ presale'.totalDeposit = presale.totalDeposit + a
    /\ presale'.presaleMode = presale.presaleMode
    /\ presale'.presaleMaximumCap = presale.presaleMaximumCap
    /\ presale'.qPrice = presale.qPrice
    /\ \A r \in RegistryIndex :
         /\ presale'.presaleRegistries[r].totalDeposit =
               IF r = k[2] THEN presale.presaleRegistries[r].totalDeposit + a
               ELSE presale.presaleRegistries[r].totalDeposit
         /\ presale'.presaleRegistries[r].presaleSupply
               = presale.presaleRegistries[r].presaleSupply
    /\ \A b \in EscrowKeys :
         /\ Exists(b)' <=> b = k \/ Exists(b)
         /\ b # k => escrows'[b] = escrows[b]
    /\ escrows'[k].totalDeposit = e.totalDeposit + a
    /\ escrows'[k].depositMaxCap = e.depositMaxCap
    /\ escrows'[k].totalClaimedToken = e.totalClaimedToken

\* And the fee `f` with it.
Charged(k, e, f) ==
    /\ presale'.totalDepositFee = presale.totalDepositFee + f
    /\ \A r \in RegistryIndex :
         presale'.presaleRegistries[r].totalDepositFee =
               IF r = k[2] THEN presale.presaleRegistries[r].totalDepositFee + f
               ELSE presale.presaleRegistries[r].totalDepositFee
    /\ escrows'[k].totalDepositFee = e.totalDepositFee + f
    /\ escrows'[k].isRemainingQuoteWithdrawn = e.isRemainingQuoteWithdrawn
    /\ presale'.presaleEndTime \in {presale.presaleEndTime, clock}
    /\ SameSettings(presale', presale)

\* An amount and its fee that an escrow gains or has to lose are credited to
\* escrow, registry and presale without leaving their types.
LEMMA MoveOK ==
    ASSUME LedgerInv, NEW k \in EscrowKeys, NEW e, Holds(k, e),
           NEW a \in Int, NEW f \in Int,
           e.totalDeposit + a \in Nat,
           e.totalDepositFee + f \in Nat,
           UNCHANGED clock,
           presale' \in {Credited(presale, k[2], a, f),
                         EndedEarly(Credited(presale, k[2], a, f))},
           escrows' = [escrows EXCEPT ![k] = CreditedAccount(e, a, f)]
    PROVE  /\ TypeOK'
           /\ TotalsAddUp'
           /\ AddressesMatch'
           /\ Moved(k, e, a)
           /\ Charged(k, e, f)
<1> USE DEF LedgerInv
<1> DEFINE credited == Credited(presale, k[2], a, f)
           moved == CreditedAccount(e, a, f)
<1>1. e \in EscrowAccount /\ k[2] \in RegistryIndex
  BY EscrowTypes DEF Holds
<1>2. /\ moved \in EscrowAccount /\ moved # NoEscrow
      /\ moved.totalDeposit = e.totalDeposit + a
      /\ moved.totalDepositFee = e.totalDepositFee + f
      /\ moved.registryIndex = e.registryIndex
      /\ moved.depositMaxCap = e.depositMaxCap
      /\ moved.totalClaimedToken = e.totalClaimedToken
      /\ moved.isRemainingQuoteWithdrawn = e.isRemainingQuoteWithdrawn
  BY <1>1, NoEscrowAssumption DEF EscrowAccount, CreditedAccount
<1>3. escrows' = [escrows EXCEPT ![k] = moved]
  OBVIOUS
<1> HIDE DEF moved
<1>4. escrows \in [EscrowKeys -> EscrowAccount \cup {NoEscrow}]
  BY DEF TypeOK
<1>5. /\ escrows' \in [EscrowKeys -> EscrowAccount \cup {NoEscrow}]
      /\ escrows'[k] = moved
      /\ \A b \in EscrowKeys : b # k => escrows'[b] = escrows[b]
  BY <1>2, <1>3, <1>4
<1>6. \A b \in EscrowKeys : Exists(b)' <=> b = k \/ Exists(b)
  BY <1>2, <1>5 DEF Exists
<1>7. /\ Deposits' = [Deposits EXCEPT ![k] = @ + a]
      /\ Fees' = [Fees EXCEPT ![k] = @ + f]
      /\ Deposits[k] = e.totalDeposit /\ Fees[k] = e.totalDepositFee
  <2>1. Deposits[k] = e.totalDeposit /\ Fees[k] = e.totalDepositFee
    BY DEF Holds
  <2>2. /\ \A b \in EscrowKeys :
              /\ Deposits'[b] = IF b = k THEN Deposits[b] + a ELSE Deposits[b]
              /\ Fees'[b] = IF b = k THEN Fees[b] + f ELSE Fees[b]
        /\ Deposits' = [b \in EscrowKeys |-> Deposits'[b]]
        /\ Fees' = [b \in EscrowKeys |-> Fees'[b]]
    BY <1>2, <1>5, <1>6, <2>1 DEF Deposits, Fees
  <2>3. DOMAIN Deposits = EscrowKeys /\ DOMAIN Fees = EscrowKeys
    BY DEF Deposits, Fees
  <2> QED
    BY <2>1, <2>2, <2>3
<1>8. /\ RegistryDeposits[k[2]] + a \in Nat /\ presale.totalDeposit + a \in Nat
      /\ TwoLevels(Deposits', [RegistryDeposits EXCEPT ![k[2]] = @ + a],
                   presale.totalDeposit + a)
  <2>1. /\ Deposits[k] + a >= 0
        /\ TwoLevels(Deposits, RegistryDeposits, presale.totalDeposit)
    BY <1>7 DEF TotalsAddUp
  <2> QED
    BY <2>1, <1>7, SumTypes, TwoLevelsChange
<1>9. /\ RegistryFees[k[2]] + f \in Nat /\ presale.totalDepositFee + f \in Nat
      /\ TwoLevels(Fees', [RegistryFees EXCEPT ![k[2]] = @ + f],
                   presale.totalDepositFee + f)
  <2>1. /\ Fees[k] + f >= 0
        /\ TwoLevels(Fees, RegistryFees, presale.totalDepositFee)
    BY <1>7 DEF TotalsAddUp
  <2> QED
    BY <2>1, <1>7, SumTypes, TwoLevelsChange
<1>10. /\ credited \in PresaleAccounts
       /\ credited.totalDeposit = presale.totalDeposit + a
       /\ credited.totalDepositFee = presale.totalDepositFee + f
       /\ credited.presaleEndTime = presale.presaleEndTime
       /\ SameSettings(credited, presale)
       /\ \A r \in RegistryIndex :
            /\ credited.presaleRegistries[r].totalDeposit =
                  IF r = k[2] THEN presale.presaleRegistries[r].totalDeposit + a
                  ELSE presale.presaleRegistries[r].totalDeposit
            /\ credited.presaleRegistries[r].totalDepositFee =
                  IF r = k[2] THEN presale.presaleRegistries[r].totalDepositFee + f
                  ELSE presale.presaleRegistries[r].totalDepositFee
  BY <1>1, <1>8, <1>9, SumTypes, CreditedFields DEF RegistryDeposits, RegistryFees
<1>11. presale' \in {credited, EndedEarly(credited)}
  OBVIOUS
<1> HIDE DEF credited
<1>12. /\ presale' \in PresaleAccounts
       /\ presale'.totalDeposit = credited.totalDeposit
       /\ presale'.totalDepositFee = credited.totalDepositFee
       /\ presale'.presaleEndTime \in {presale.presaleEndTime, clock}
       /\ presale'.presaleRegistries = credited.presaleRegistries
       /\ SameSettings(presale', presale)
  <2>1. CASE presale' = credited
    BY <2>1, <1>10
  <2>2. CASE presale' = EndedEarly(credited)
    <3>1. /\ presale' \in PresaleAccounts
          /\ presale'.totalDeposit = credited.totalDeposit
          /\ presale'.totalDepositFee = credited.totalDepositFee
          /\ presale'.presaleEndTime \in {credited.presaleEndTime, clock}
          /\ presale'.presaleRegistries = credited.presaleRegistries
          /\ SameSettings(presale', credited)
      BY <2>2, <1>10, SumTypes, EndedEarlyFields
    <3>2. SameSettings(presale', presale)
      BY <1>10, <3>1 DEF SameSettings
    <3> QED
      BY <1>10, <3>1, <3>2
  <2> QED
    BY <1>11, <2>1, <2>2
<1>13. TypeOK'
  BY <1>5, <1>12 DEF TypeOK
<1>14. /\ RegistryDeposits' = [RegistryDeposits EXCEPT ![k[2]] = @ + a]
       /\ RegistryFees' = [RegistryFees EXCEPT ![k[2]] = @ + f]
  <2>1. \A r \in RegistryIndex :
          /\ RegistryDeposits'[r] = IF r = k[2] THEN RegistryDeposits[r] + a
                                    ELSE RegistryDeposits[r]
          /\ RegistryFees'[r] = IF r = k[2] THEN RegistryFees[r] + f
                                ELSE RegistryFees[r]
    BY <1>10, <1>12 DEF RegistryDeposits, RegistryFees
  <2>2. /\ RegistryDeposits' = [r \in RegistryIndex |-> RegistryDeposits'[r]]
        /\ RegistryFees' = [r \in RegistryIndex |-> RegistryFees'[r]]
        /\ DOMAIN RegistryDeposits = RegistryIndex
        /\ DOMAIN RegistryFees = RegistryIndex
    BY DEF RegistryDeposits, RegistryFees
  <2> QED
    BY <2>1, <2>2, <1>1
<1>15. TotalsAddUp'
  BY <1>8, <1>9, <1>10, <1>12, <1>14 DEF TotalsAddUp
<1>16. AddressesMatch'
  BY <1>2, <1>5, <1>6 DEF AddressesMatch, Holds
<1>17. Moved(k, e, a)
  BY <1>2, <1>5, <1>6, <1>10, <1>12 DEF Moved, SameSettings
<1>18. Charged(k, e, f)
  BY <1>2, <1>5, <1>10, <1>12 DEF Charged
<1> QED
  BY <1>13, <1>15, <1>16, <1>17, <1>18

---------------------------------------------------------------------------
(* What is released *)

\* A registry sells a natural number of tokens.
LEMMA SoldNat ==
    ASSUME NEW p \in PresaleAccounts, NEW i \in RegistryIndex
    PROVE  RegistryTotalBaseTokenSold(p, i) \in Nat
<1> DEFINE r == p.presaleRegistries[i]
<1>1. /\ r.totalDeposit \in Nat /\ r.presaleSupply \in Nat
      /\ p.qPrice \in Nat \ {0}
  BY DEF PresaleAccounts, PresaleRegistry
<1> HIDE DEF r
<1>2. FixedPriceBaseTokenSold(r.totalDeposit, r.presaleSupply, p.qPrice)
        \in 0..r.presaleSupply
  BY <1>1, FixedPriceSold
<1>3. BaseTokenSoldByDynamicPrice(r.totalDeposit, r.presaleSupply) \in Nat
  BY <1>1 DEF BaseTokenSoldByDynamicPrice
<1> QED
  BY <1>1, <1>2, <1>3 DEF RegistryTotalBaseTokenSold, r

\* The immediate and the dripped share, each divided among the depositors on
\* its own, do not exceed the buyer's whole share.
LEMMA ReleasedBound ==
    ASSUME NEW p \in PresaleAccounts, NEW e \in EscrowAccount, NEW t \in Nat,
           0 < e.totalDeposit,
           e.totalDeposit <= EscrowRegistry(p, e).totalDeposit
    PROVE  /\ Released(p, e, t) \in Nat
           /\ TotalClaimableRawAmount(p, e) \in Nat
           /\ Released(p, e, t) <= TotalClaimableRawAmount(p, e)
<1> DEFINE i == e.registryIndex
           d == e.totalDeposit
           D == EscrowRegistry(p, e).totalDeposit
           sold == RegistryTotalBaseTokenSold(p, i)
           bps == p.immediateReleaseBps
           atOnce == ImmediateReleasedAmount(sold, bps)
           vested == VestedAmount(sold, bps)
           immediate == IF t >= p.immediateReleaseTimestamp THEN atOnce ELSE 0
           dripped == DrippedToken(p, vested, t)
<1>1. /\ i \in RegistryIndex /\ d \in Nat /\ D \in Nat \ {0} /\ d <= D
      /\ bps \in 0..BpsBase /\ p.vestDuration \in Nat
      /\ p.vestingStartTime \in Nat
  BY DEF EscrowAccount, PresaleAccounts, PresaleRegistry, EscrowRegistry
<1>2. sold \in Nat
  BY <1>1, SoldNat
<1>3. atOnce \in 0..sold /\ vested \in Nat /\ atOnce + vested = sold
  <2> HIDE DEF sold, bps
  <2>1. (sold * bps) \div BpsBase \in 0..sold
    BY <1>1, <1>2, BpsAssumption, ShareAtMost
  <2> QED
    BY <2>1, <1>2 DEF ImmediateReleasedAmount, VestedAmount
<1> HIDE DEF i, d, D, sold, bps, atOnce, vested
<1>4. dripped \in 0..vested
  <2> DEFINE elapsed == Least(t - p.vestingStartTime, p.vestDuration)
  <2>1. CASE t < p.vestingStartTime
    BY <2>1, <1>1, <1>3 DEF DrippedToken
  <2>2. CASE t >= p.vestingStartTime /\ p.vestDuration = 0
    BY <2>2, <1>1, <1>3 DEF DrippedToken
  <2>3. CASE t >= p.vestingStartTime /\ p.vestDuration # 0
    <3>1. dripped = (vested * elapsed) \div p.vestDuration
      BY <2>3, <1>1 DEF DrippedToken
    <3>2. elapsed \in Nat /\ elapsed <= p.vestDuration
      BY <2>3, <1>1 DEF Least
    <3> HIDE DEF elapsed
    <3>3. (vested * elapsed) \div p.vestDuration \in 0..vested
      BY <3>2, <2>3, <1>1, <1>3, ShareAtMost
    <3> QED
      BY <3>1, <3>3
  <2> QED
    BY <2>1, <2>2, <2>3, <1>1
<1>5. immediate \in Nat /\ immediate + dripped <= sold /\ dripped \in Nat
  BY <1>2, <1>3, <1>4
<1>6. Released(p, e, t) = (immediate * d) \div D + (dripped * d) \div D
  BY DEF Released, CumulativeClaimable, i, d, D, sold, bps, atOnce, vested
<1>7. TotalClaimableRawAmount(p, e) = (d * sold) \div D
  BY <1>1 DEF TotalClaimableRawAmount, i, d, D, sold
<1> HIDE DEF immediate, dripped
<1>8. /\ immediate * d \in Nat /\ dripped * d \in Nat /\ d * sold \in Nat
      /\ immediate * d + dripped * d <= d * sold
  <2>1. (immediate + dripped) * d <= sold * d
    BY <1>1, <1>2, <1>5, ProductMonotone
  <2>2. /\ immediate * d \in Nat /\ dripped * d \in Nat /\ d * sold \in Nat
        /\ (immediate + dripped) * d = immediate * d + dripped * d
        /\ sold * d = d * sold
    BY <1>1, <1>2, <1>5
  <2> QED
    BY <2>1, <2>2
<1>9. /\ (immediate * d) \div D \in Nat /\ (dripped * d) \div D \in Nat
      /\ (d * sold) \div D \in Nat
  BY <1>1, <1>8, FloorProperty
<1>10. (immediate * d) \div D + (dripped * d) \div D
            <= (immediate * d + dripped * d) \div D
  BY <1>1, <1>8, FloorOfSum
<1>11. (immediate * d + dripped * d) \div D <= (d * sold) \div D
  BY <1>1, <1>8, FloorMonotone
<1>12. (immediate * d + dripped * d) \div D \in Nat
  BY <1>1, <1>8, FloorProperty
<1> QED
  BY <1>6, <1>7, <1>9, <1>10, <1>11, <1>12

---------------------------------------------------------------------------
(* Every step keeps the invariant *)

\* A step that moves no deposit: no total changes and no buyer's part grows.
LEMMA NoMoveOK ==
    ASSUME LedgerInv,
           clock' \in 0..MaxTime,
           presale' \in PresaleAccounts,
           presale'.totalDeposit = presale.totalDeposit,
           presale'.totalDepositFee = presale.totalDepositFee,
           presale'.presaleMode = presale.presaleMode,
           presale'.presaleMaximumCap = presale.presaleMaximumCap,
           presale'.presaleRegistries = presale.presaleRegistries,
           escrows' \in [EscrowKeys -> EscrowAccount \cup {NoEscrow}],
           \A k \in EscrowKeys : Exists(k)' =>
                /\ escrows'[k].registryIndex = k[2]
                /\ escrows'[k].totalDeposit <= escrows'[k].depositMaxCap
                /\ escrows'[k].totalDeposit <= Deposits[k]
                /\ escrows'[k].totalDepositFee <= Fees[k]
    PROVE  LedgerInv'
<1> USE DEF LedgerInv
<1>1. TypeOK' /\ AddressesMatch' /\ CapNeverExceeded' /\ BuyerCapRespected'
  BY DEF TypeOK, AddressesMatch, CapNeverExceeded, BuyerCapRespected, OpenEscrows
<1>2. /\ RegistryDeposits' = RegistryDeposits
      /\ RegistryFees' = RegistryFees
  BY DEF RegistryDeposits, RegistryFees
<1>3. /\ Deposits' \in [EscrowKeys -> Nat] /\ Fees' \in [EscrowKeys -> Nat]
      /\ Deposits \in [EscrowKeys -> Nat] /\ Fees \in [EscrowKeys -> Nat]
      /\ \A k \in EscrowKeys : Deposits'[k] <= Deposits[k] /\ Fees'[k] <= Fees[k]
  <2>1. \A k \in EscrowKeys : Exists(k)' => escrows'[k] \in EscrowAccount
    BY Zenon DEF Exists
  <2>2. Deposits \in [EscrowKeys -> Nat] /\ Fees \in [EscrowKeys -> Nat]
    BY SumTypes
  <2>3. Deposits' \in [EscrowKeys -> Nat] /\ Fees' \in [EscrowKeys -> Nat]
    BY <2>1 DEF Deposits, Fees, EscrowAccount
  <2>4. ASSUME NEW k \in EscrowKeys
        PROVE  Deposits'[k] <= Deposits[k] /\ Fees'[k] <= Fees[k]
    <3>1. Deposits[k] \in Nat /\ Fees[k] \in Nat
      BY <2>2
    <3>2. /\ Deposits'[k] = IF Exists(k)' THEN escrows'[k].totalDeposit ELSE 0
          /\ Fees'[k] = IF Exists(k)' THEN escrows'[k].totalDepositFee ELSE 0
      BY DEF Deposits, Fees
    <3> QED
      BY <3>1, <3>2
  <2> QED
    BY <2>2, <2>3, <2>4
<1>4. ASSUME NEW old \in [EscrowKeys -> Nat], NEW new \in [EscrowKeys -> Nat],
             \A k \in EscrowKeys : new[k] <= old[k],
             NEW subtotal \in [RegistryIndex -> Nat], NEW total \in Nat,
             TwoLevels(old, subtotal, total)
      PROVE  TwoLevels(new, subtotal, total)
  <2> SUFFICES ASSUME NEW i \in RegistryIndex
               PROVE  OfRegistry(new)[i] <= OfRegistry(old)[i]
    <3>1. \A i \in RegistryIndex : /\ OfRegistry(old)[i] <= subtotal[i]
                                   /\ OfRegistry(old)[i] \in Nat
                                   /\ OfRegistry(new)[i] \in Nat
                                   /\ subtotal[i] \in Nat
      BY <1>4, ColumnTypes DEF TwoLevels
    <3>2. SumFunction(subtotal) = total
      BY <1>4 DEF TwoLevels
    <3> QED
      BY <3>1, <3>2 DEF TwoLevels
  <2> DEFINE more == [o \in Owners |-> old[<<o, i>>]]
             less == [o \in Owners |-> new[<<o, i>>]]
  <2>1. /\ more \in [Owners -> Int] /\ less \in [Owners -> Int]
        /\ OfRegistry(old)[i] = SumFunction(more)
        /\ OfRegistry(new)[i] = SumFunction(less)
    BY ColumnTypes
  <2>2. \A o \in Owners : less[o] <= more[o]
    BY <1>4 DEF EscrowKeys
  <2> HIDE DEF more, less
  <2> QED
    BY <2>1, <2>2, OwnersAssumption, SumMonotone
<1>5. TotalsAddUp'
  <2>1. /\ TwoLevels(Deposits', RegistryDeposits, presale.totalDeposit)
        /\ TwoLevels(Fees', RegistryFees, presale.totalDepositFee)
    BY <1>3, <1>4, SumTypes DEF TotalsAddUp
  <2> QED
    BY <2>1, <1>2 DEF TotalsAddUp
<1> QED
  BY <1>1, <1>5

\* A fresh presale without escrows.
LEMMA InitOK == Init => LedgerInv
<1> SUFFICES ASSUME Init PROVE LedgerInv
  OBVIOUS
<1>1. presale \in PresaleAccounts /\ IsFresh(presale)
  BY PresalesAssumption DEF Init
<1>2. TypeOK
  BY <1>1, MaxTimeAssumption DEF Init, TypeOK
<1>3. \A k \in EscrowKeys : ~Exists(k)
  BY DEF Init, Exists
<1>4. AddressesMatch /\ BuyerCapRespected
  BY <1>3 DEF AddressesMatch, BuyerCapRespected, OpenEscrows
<1>5. CapNeverExceeded
  BY <1>1 DEF CapNeverExceeded, IsFresh, PresaleAccounts
<1>6. /\ \A k \in EscrowKeys : Deposits[k] = 0 /\ Fees[k] = 0
      /\ \A i \in RegistryIndex : RegistryDeposits[i] = 0 /\ RegistryFees[i] = 0
  BY <1>1, <1>3 DEF Deposits, Fees, RegistryDeposits, RegistryFees, IsFresh
<1>7. ASSUME NEW part \in [EscrowKeys -> Nat], \A k \in EscrowKeys : part[k] = 0,
             NEW subtotal \in [RegistryIndex -> Nat],
             \A i \in RegistryIndex : subtotal[i] = 0
      PROVE  TwoLevels(part, subtotal, 0)
  <2>1. SumFunction(subtotal) = 0
    <3>1. subtotal \in [RegistryIndex -> Int]
      OBVIOUS
    <3> QED
      BY <1>7, <3>1, RegistryIndexAssumption, SumZero
  <2>2. ASSUME NEW i \in RegistryIndex
        PROVE  OfRegistry(part)[i] <= subtotal[i]
    <3> DEFINE none == [o \in Owners |-> part[<<o, i>>]]
    <3>1. /\ none \in [Owners -> Int] /\ OfRegistry(part)[i] = SumFunction(none)
      BY ColumnTypes
    <3>2. \A o \in Owners : none[o] = 0
      BY <1>7 DEF EscrowKeys
    <3> HIDE DEF none
    <3>3. SumFunction(none) = 0
      BY <3>1, <3>2, OwnersAssumption, SumZero
    <3> QED
      BY <1>7, <3>1, <3>3
  <2> QED
    BY <2>1, <2>2 DEF TwoLevels
<1>8. TotalsAddUp
  <2>1. presale.totalDeposit = 0 /\ presale.totalDepositFee = 0
    BY <1>1 DEF IsFresh
  <2> QED
    BY <2>1, <1>2, <1>6, <1>7, SumTypes DEF TotalsAddUp
<1> QED
  BY <1>2, <1>4, <1>5, <1>8 DEF LedgerInv

\* What an escrow holds, as NoMoveOK asks for it.
LEMMA EscrowHolds ==
    ASSUME LedgerInv, NEW k \in EscrowKeys, Exists(k)
    PROVE  /\ escrows[k] \in EscrowAccount
           /\ escrows[k].registryIndex = k[2]
           /\ escrows[k].totalDeposit \in Nat
           /\ escrows[k].totalDepositFee \in Nat
           /\ escrows[k].depositMaxCap \in Nat
           /\ escrows[k].totalDeposit <= escrows[k].depositMaxCap
           /\ escrows[k].totalDeposit = Deposits[k]
           /\ escrows[k].totalDepositFee = Fees[k]
           /\ Holds(k, escrows[k])
<1>1. escrows[k] \in EscrowAccount
  BY EscrowTypes DEF LedgerInv
<1> QED
  BY <1>1 DEF LedgerInv, AddressesMatch, BuyerCapRespected, OpenEscrows,
              EscrowAccount, Deposits, Fees, Holds

\* An address without an account holds nothing, nor does a new escrow.
LEMMA NewEscrowHolds ==
    ASSUME LedgerInv, NEW k \in EscrowKeys, ~Exists(k), NEW e \in NewEscrows(k)
    PROVE  /\ Holds(k, e) /\ e.totalClaimedToken = 0
           /\ ~e.isRemainingQuoteWithdrawn
<1> DEFINE r == presale.presaleRegistries[k[2]]
           fresh(cap) ==
               [registryIndex |-> k[2], depositMaxCap |-> cap,
                totalDeposit |-> 0, totalDepositFee |-> 0,
                totalClaimedToken |-> 0, isRemainingQuoteWithdrawn |-> FALSE]
<1>1. PICK cap \in {r.buyerMaximumDepositCap} \cup WhitelistCaps : e = fresh(cap)
  BY DEF NewEscrows
<1>2. cap \in Nat /\ k[2] \in RegistryIndex
  BY EscrowTypes, WhitelistCapsAssumption DEF LedgerInv, PresaleRegistry
<1>3. Deposits[k] = 0 /\ Fees[k] = 0
  BY DEF Deposits, Fees
<1> QED
  BY <1>1, <1>2, <1>3 DEF EscrowAccount, Holds

\* A buyer's deposit is part of the registry's.
LEMMA DepositPart ==
    ASSUME LedgerInv, NEW k \in EscrowKeys, Exists(k)
    PROVE  /\ EscrowRegistry(presale, escrows[k])
                    = presale.presaleRegistries[k[2]]
           /\ escrows[k].totalDeposit
                    <= EscrowRegistry(presale, escrows[k]).totalDeposit
<1>1. /\ escrows[k].registryIndex = k[2] /\ k[2] \in RegistryIndex
      /\ escrows[k].totalDeposit = Deposits[k] /\ Deposits[k] \in Nat
  BY EscrowHolds, EscrowTypes, SumTypes DEF LedgerInv
<1>2. TwoLevels(Deposits, RegistryDeposits, presale.totalDeposit)
  BY DEF LedgerInv, TotalsAddUp
<1>3. 0 \in Int /\ Deposits[k] + 0 >= 0
  BY <1>1
<1>4. Deposits[k] <= RegistryDeposits[k[2]]
  BY <1>1, <1>2, <1>3, SumTypes, TwoLevelsChange DEF LedgerInv
<1>5. RegistryDeposits[k[2]] = presale.presaleRegistries[k[2]].totalDeposit
  BY <1>1 DEF RegistryDeposits
<1> QED
  BY <1>1, <1>4, <1>5 DEF EscrowRegistry

\* The presale and its escrows, as NoMoveOK asks for them.
LEMMA KeptPresale ==
    ASSUME LedgerInv
    PROVE  /\ clock \in 0..MaxTime
           /\ presale \in PresaleAccounts
           /\ escrows \in [EscrowKeys -> EscrowAccount \cup {NoEscrow}]
           /\ \A k \in EscrowKeys : Exists(k) =>
                /\ escrows[k].registryIndex = k[2]
                /\ escrows[k].totalDeposit <= escrows[k].depositMaxCap
                /\ escrows[k].totalDeposit <= Deposits[k]
                /\ escrows[k].totalDepositFee <= Fees[k]
<1>1. \A k \in EscrowKeys : Exists(k) =>
        /\ escrows[k].registryIndex = k[2]
        /\ escrows[k].totalDeposit <= escrows[k].depositMaxCap
        /\ escrows[k].totalDeposit <= Deposits[k]
        /\ escrows[k].totalDepositFee <= Fees[k]
  BY EscrowHolds
<1> QED
  BY <1>1 DEF LedgerInv, TypeOK

\* A step that replaces one escrow by another of no larger deposit.
LEMMA ReplaceOK ==
    ASSUME LedgerInv, NEW k \in EscrowKeys, NEW e \in EscrowAccount,
           UNCHANGED <<clock, presale>>,
           escrows' = [escrows EXCEPT ![k] = e],
           e.registryIndex = k[2],
           e.totalDeposit <= e.depositMaxCap,
           e.totalDeposit <= Deposits[k],
           e.totalDepositFee <= Fees[k]
    PROVE  LedgerInv'
<1>1. /\ escrows' \in [EscrowKeys -> EscrowAccount \cup {NoEscrow}]
      /\ escrows'[k] = e
      /\ \A b \in EscrowKeys : b # k => escrows'[b] = escrows[b]
  BY KeptPresale
<1>2. \A b \in EscrowKeys : Exists(b)' =>
            /\ escrows'[b].registryIndex = b[2]
            /\ escrows'[b].totalDeposit <= escrows'[b].depositMaxCap
            /\ escrows'[b].totalDeposit <= Deposits[b]
            /\ escrows'[b].totalDepositFee <= Fees[b]
  BY <1>1, KeptPresale DEF Exists
<1> QED
  BY <1>1, <1>2, KeptPresale, NoMoveOK

LEMMA InitializeEscrowOK ==
    ASSUME LedgerInv, NEW k \in EscrowKeys, InitializeEscrow(k)
    PROVE  LedgerInv'
<1>1. /\ CanOpen(k) /\ UNCHANGED <<clock, presale>>
      /\ \E e \in NewEscrows(k) : escrows' = [escrows EXCEPT ![k] = e]
  BY DEF InitializeEscrow
<1>2. PICK e \in NewEscrows(k) : escrows' = [escrows EXCEPT ![k] = e]
  BY <1>1
<1>3. Holds(k, e)
  BY <1>1, NewEscrowHolds DEF CanOpen
<1>4. /\ e \in EscrowAccount
      /\ e.registryIndex = k[2]
      /\ e.totalDeposit <= e.depositMaxCap
      /\ e.totalDeposit <= Deposits[k]
      /\ e.totalDepositFee <= Fees[k]
  BY <1>3, SumTypes DEF LedgerInv, Holds
<1> QED
  BY <1>1, <1>2, <1>4, ReplaceOK

\* The price of the tokens a fixed price registry has left.
WhatIsLeft(r) ==
    QuoteCost(r.presaleSupply
                - FixedPriceBaseTokenSold(r.totalDeposit, r.presaleSupply,
                                          presale.qPrice), presale.qPrice)

\* A deposit moves a positive amount, within the caps of buyer and presale and
\* within what the registry has left.
LEMMA DepositMoves ==
    ASSUME LedgerInv, NEW k \in EscrowKeys, NEW e, Holds(k, e),
           NEW maxAmount \in Nat, DepositInto(k, e, maxAmount)
    PROVE  \E a \in Nat \ {0} :
              /\ TypeOK' /\ TotalsAddUp' /\ AddressesMatch' /\ Moved(k, e, a)
              /\ e.totalDeposit + a <= e.depositMaxCap
              /\ presale.presaleMode # "Prorata" =>
                    presale.totalDeposit + a <= presale.presaleMaximumCap
              /\ presale.presaleMode = "FixedPrice" =>
                    a <= WhatIsLeft(presale.presaleRegistries[k[2]])
              /\ \E f \in Nat : Charged(k, e, f) /\ quoteVault' = quoteVault + a + f
<1> DEFINE amount == SuggestDepositAmount(presale, e, maxAmount)
           fee == DepositFee(presale, k[2], amount)
<1>1. UNCHANGED clock /\ quoteVault' = quoteVault + amount + fee
  BY DEF DepositInto
<1>2. /\ amount \in Nat
      /\ e.totalDeposit + amount <= e.depositMaxCap
      /\ presale.presaleMode # "Prorata" =>
            presale.totalDeposit + amount <= presale.presaleMaximumCap
      /\ presale.presaleMode = "FixedPrice" =>
            amount <= WhatIsLeft(presale.presaleRegistries[k[2]])
  BY SuggestedDeposit DEF WhatIsLeft
<1>3. /\ presale' = EndedEarly(Credited(presale, k[2], amount, fee))
      /\ escrows' = [escrows EXCEPT ![k] = CreditedAccount(e, amount, fee)]
      /\ amount > 0
  BY DEF DepositInto
<1> HIDE DEF amount
<1>4. fee \in Nat
  <2>1. presale.presaleRegistries[k[2]].depositFeeBps \in 0..(BpsBase - 1)
    BY EscrowTypes DEF LedgerInv, PresaleRegistry
  <2> QED
    BY <2>1, <1>2, FeeIncludedAtLeast DEF DepositFee
<1> HIDE DEF fee
<1>5. /\ amount \in Int /\ fee \in Int
      /\ e.totalDeposit + amount \in Nat
      /\ e.totalDepositFee + fee \in Nat
      /\ presale' \in {Credited(presale, k[2], amount, fee),
                       EndedEarly(Credited(presale, k[2], amount, fee))}
  <2>1. e.totalDeposit \in Nat /\ e.totalDepositFee \in Nat
    BY DEF Holds, EscrowAccount
  <2> QED
    BY <2>1, <1>2, <1>3, <1>4
<1>6. /\ TypeOK' /\ TotalsAddUp' /\ AddressesMatch'
      /\ Moved(k, e, amount) /\ Charged(k, e, fee)
  BY <1>1, <1>3, <1>5, MoveOK
<1>7. amount \in Nat \ {0}
  BY <1>2, <1>3
<1> QED
  BY <1>1, <1>2, <1>4, <1>6, <1>7

\* The two ways to deposit: into the escrow there is or into a new one.
LEMMA DepositTarget ==
    ASSUME LedgerInv, NEW k \in EscrowKeys, NEW maxAmount \in Nat,
           Deposit(k, maxAmount) \/ OpenAndDeposit(k, maxAmount)
    PROVE  \E e : /\ Holds(k, e) /\ DepositInto(k, e, maxAmount)
                  /\ IF Exists(k) THEN e = escrows[k]
                     ELSE /\ CanOpen(k) /\ e.totalClaimedToken = 0
                          /\ ~e.isRemainingQuoteWithdrawn
<1>1. CASE Deposit(k, maxAmount)
  BY <1>1, EscrowHolds DEF Deposit
<1>2. CASE OpenAndDeposit(k, maxAmount)
  <2>1. CanOpen(k) /\ \E e \in NewEscrows(k) : DepositInto(k, e, maxAmount)
    BY <1>2 DEF OpenAndDeposit
  <2>2. PICK e \in NewEscrows(k) : DepositInto(k, e, maxAmount)
    BY <2>1
  <2>3. /\ Holds(k, e) /\ e.totalClaimedToken = 0 /\ ~e.isRemainingQuoteWithdrawn
        /\ CanOpen(k) /\ ~Exists(k)
    BY <2>1, NewEscrowHolds DEF CanOpen
  <2> QED
    BY <2>2, <2>3
<1> QED
  BY <1>1, <1>2

LEMMA DepositOK ==
    ASSUME LedgerInv, NEW k \in EscrowKeys, NEW maxAmount \in Nat,
           Deposit(k, maxAmount) \/ OpenAndDeposit(k, maxAmount)
    PROVE  LedgerInv'
<1>1. PICK e : Holds(k, e) /\ DepositInto(k, e, maxAmount)
  BY DepositTarget
<1>2. PICK a \in Nat \ {0} :
          /\ TypeOK' /\ TotalsAddUp' /\ AddressesMatch' /\ Moved(k, e, a)
          /\ e.totalDeposit + a <= e.depositMaxCap
          /\ presale.presaleMode # "Prorata" =>
                presale.totalDeposit + a <= presale.presaleMaximumCap
  BY <1>1, DepositMoves
<1>3. CapNeverExceeded'
  BY <1>2 DEF CapNeverExceeded, Moved
<1>4. BuyerCapRespected'
  BY <1>2 DEF BuyerCapRespected, OpenEscrows, LedgerInv, Moved
<1> QED
  BY <1>2, <1>3, <1>4 DEF LedgerInv

\* A withdrawal moves an amount out that the escrow has.
LEMMA WithdrawMoves ==
    ASSUME LedgerInv, NEW k \in EscrowKeys, NEW maxAmount \in Nat,
           Withdraw(k, maxAmount)
    PROVE  \E a \in Nat \ {0} :
              /\ TypeOK' /\ TotalsAddUp' /\ AddressesMatch' /\ Moved(k, escrows[k], -a)
              /\ a <= escrows[k].totalDeposit
              /\ \E f \in Nat : /\ Charged(k, escrows[k], -f)
                               /\ quoteVault' = quoteVault - a - f
<1> DEFINE e == escrows[k]
           suggested == SuggestWithdrawAmount(presale, e, maxAmount)
           low(amount) == (e.totalDepositFee * amount) \div e.totalDeposit
           high(amount) == CeilDiv(e.totalDepositFee * amount, e.totalDeposit)
<1>1. /\ Exists(k) /\ UNCHANGED clock /\ maxAmount <= e.totalDeposit
      /\ \E amount \in {maxAmount, suggested} \ {0} :
         \E fee \in {low(amount), high(amount)} :
            /\ presale' = Credited(presale, k[2], -amount, -fee)
            /\ escrows' = [escrows EXCEPT ![k] =
                                CreditedAccount(escrows[k], -amount, -fee)]
            /\ quoteVault' = quoteVault - amount - fee
  BY DEF Withdraw
<1>2. PICK amount \in {maxAmount, suggested} \ {0} :
        \E fee \in {low(amount), high(amount)} :
            /\ presale' = Credited(presale, k[2], -amount, -fee)
            /\ escrows' = [escrows EXCEPT ![k] =
                                CreditedAccount(escrows[k], -amount, -fee)]
            /\ quoteVault' = quoteVault - amount - fee
  BY <1>1
<1>3. PICK fee \in {low(amount), high(amount)} :
            /\ presale' = Credited(presale, k[2], -amount, -fee)
            /\ escrows' = [escrows EXCEPT ![k] =
                                CreditedAccount(escrows[k], -amount, -fee)]
            /\ quoteVault' = quoteVault - amount - fee
  BY <1>2
<1>4. /\ e \in EscrowAccount /\ e.totalDeposit \in Nat /\ e.totalDepositFee \in Nat
      /\ e.depositMaxCap \in Nat /\ e.totalDeposit <= e.depositMaxCap
  BY <1>1, EscrowHolds
<1>5. suggested \in Nat /\ suggested <= e.totalDeposit
  <2>1. presale.qPrice \in Nat \ {0} /\ presale.presaleMode \in PresaleMode
    BY SumTypes DEF LedgerInv, PresaleAccounts
  <2> DEFINE most == Least(maxAmount, e.totalDeposit)
  <2>2. most \in Nat /\ most <= e.totalDeposit
    BY <1>4 DEF Least
  <2>3. suggested \in {CalculateQuoteTokenWithoutSurplus(most, presale.qPrice),
                       most, 0}
    BY <2>1 DEF SuggestWithdrawAmount, HandlerSuggestWithdrawAmount, PresaleMode
  <2> HIDE DEF most
  <2>4. /\ CalculateQuoteTokenWithoutSurplus(most, presale.qPrice) \in Nat
        /\ CalculateQuoteTokenWithoutSurplus(most, presale.qPrice) <= most
    BY <2>1, <2>2, WithoutSurplusAtMost
  <2> HIDE DEF suggested
  <2> QED
    BY <2>2, <2>3, <2>4, <1>4
<1>6. amount \in Nat /\ 0 < amount /\ amount <= e.totalDeposit
  BY <1>1, <1>2, <1>4, <1>5
<1>7. fee \in Nat /\ fee <= e.totalDepositFee
  <2>1. e.totalDeposit \in Nat \ {0}
    BY <1>4, <1>6
  <2> HIDE DEF e
  <2>2. /\ low(amount) \in 0..e.totalDepositFee
        /\ high(amount) \in 0..e.totalDepositFee
    BY <1>4, <1>6, <2>1, ShareAtMost, Zenon
  <2>3. fee \in {low(amount), high(amount)}
    BY <1>3
  <2> HIDE DEF low, high
  <2> QED
    BY <1>4, <2>2, <2>3
<1> HIDE DEF low, high, suggested
<1>8. /\ -amount \in Int /\ -fee \in Int
      /\ escrows[k].totalDeposit + (-amount) \in Nat
      /\ escrows[k].totalDepositFee + (-fee) \in Nat
      /\ presale' \in {Credited(presale, k[2], -amount, -fee),
                       EndedEarly(Credited(presale, k[2], -amount, -fee))}
  BY <1>3, <1>4, <1>6, <1>7
<1>9. /\ TypeOK' /\ TotalsAddUp' /\ AddressesMatch'
      /\ Moved(k, escrows[k], -amount) /\ Charged(k, escrows[k], -fee)
  BY <1>1, <1>3, <1>8, EscrowHolds, MoveOK
<1>10. amount \in Nat \ {0}
  BY <1>6
<1> QED
  BY <1>3, <1>6, <1>7, <1>9, <1>10

LEMMA WithdrawOK ==
    ASSUME LedgerInv, NEW k \in EscrowKeys, NEW maxAmount \in Nat,
           Withdraw(k, maxAmount)
    PROVE  LedgerInv'
<1>1. PICK a \in Nat \ {0} :
          /\ TypeOK' /\ TotalsAddUp' /\ AddressesMatch' /\ Moved(k, escrows[k], -a)
          /\ a <= escrows[k].totalDeposit
  BY WithdrawMoves
<1>2. Exists(k)
  BY DEF Withdraw
<1>3. CapNeverExceeded'
  <2>1. presale.totalDeposit \in Nat /\ presale.presaleMaximumCap \in Nat
    BY SumTypes DEF LedgerInv, PresaleAccounts
  <2> QED
    BY <2>1, <1>1 DEF CapNeverExceeded, LedgerInv, Moved
<1>4. BuyerCapRespected'
  <2>1. /\ escrows[k].totalDeposit \in Nat /\ escrows[k].depositMaxCap \in Nat
        /\ escrows[k].totalDeposit <= escrows[k].depositMaxCap
    BY <1>2, EscrowHolds
  <2> QED
    BY <2>1, <1>1 DEF BuyerCapRespected, OpenEscrows, LedgerInv, Moved
<1> QED
  BY <1>1, <1>3, <1>4 DEF LedgerInv

\* An escrow that changes in a flag or in what has been claimed.
LEMMA ClaimOK ==
    ASSUME LedgerInv, NEW k \in EscrowKeys, Claim(k)
    PROVE  LedgerInv'
<1> DEFINE released == Released(presale, escrows[k], clock)
           e == [escrows[k] EXCEPT !.totalClaimedToken = released]
<1>1. /\ Exists(k) /\ UNCHANGED <<clock, presale>>
      /\ 0 < escrows[k].totalDeposit
      /\ escrows' = [escrows EXCEPT ![k].totalClaimedToken = released]
  <2>1. escrows[k].totalDeposit > 0
    BY DEF Claim
  <2> QED
    BY <2>1 DEF Claim
<1>2. /\ escrows[k] \in EscrowAccount
      /\ escrows[k].registryIndex = k[2]
      /\ escrows[k].totalDeposit <= escrows[k].depositMaxCap
      /\ escrows[k].totalDeposit = Deposits[k]
      /\ escrows[k].totalDepositFee = Fees[k]
      /\ Deposits[k] \in Nat /\ Fees[k] \in Nat
  BY <1>1, EscrowHolds, SumTypes DEF LedgerInv
<1>3. released \in Nat
  BY <1>1, <1>2, DepositPart, SumTypes, ReleasedBound DEF LedgerInv
<1> HIDE DEF released
<1>4. escrows' = [escrows EXCEPT ![k] = e]
  BY <1>1
<1>5. /\ e \in EscrowAccount
      /\ e.registryIndex = k[2]
      /\ e.totalDeposit <= e.depositMaxCap
      /\ e.totalDeposit <= Deposits[k]
      /\ e.totalDepositFee <= Fees[k]
  BY <1>2, <1>3 DEF EscrowAccount
<1> HIDE DEF e
<1> QED
  BY <1>1, <1>4, <1>5, ReplaceOK

LEMMA WithdrawRemainingQuoteOK ==
    ASSUME LedgerInv, NEW k \in EscrowKeys, WithdrawRemainingQuote(k)
    PROVE  LedgerInv'
<1> DEFINE e == [escrows[k] EXCEPT !.isRemainingQuoteWithdrawn = TRUE]
<1>1. /\ Exists(k) /\ UNCHANGED <<clock, presale>>
      /\ escrows' = [escrows EXCEPT ![k] = e]
  BY DEF WithdrawRemainingQuote
<1>2. /\ escrows[k] \in EscrowAccount
      /\ escrows[k].registryIndex = k[2]
      /\ escrows[k].totalDeposit <= escrows[k].depositMaxCap
      /\ escrows[k].totalDeposit = Deposits[k]
      /\ escrows[k].totalDepositFee = Fees[k]
      /\ Deposits[k] \in Nat /\ Fees[k] \in Nat
  BY <1>1, EscrowHolds, SumTypes DEF LedgerInv
<1>3. /\ e \in EscrowAccount
      /\ e.registryIndex = escrows[k].registryIndex
      /\ e.depositMaxCap = escrows[k].depositMaxCap
      /\ e.totalDeposit = escrows[k].totalDeposit
      /\ e.totalDepositFee = escrows[k].totalDepositFee
  <2>1. escrows[k] \in EscrowAccount
    BY <1>2
  <2> QED
    BY <2>1 DEF EscrowAccount
<1> HIDE DEF e
<1>4. /\ e.registryIndex = k[2]
      /\ e.totalDeposit <= e.depositMaxCap
      /\ e.totalDeposit <= Deposits[k]
      /\ e.totalDepositFee <= Fees[k]
  BY <1>2, <1>3
<1> QED
  BY <1>1, <1>3, <1>4, ReplaceOK

LEMMA CloseEscrowOK ==
    ASSUME LedgerInv, NEW k \in EscrowKeys, CloseEscrow(k)
    PROVE  LedgerInv'
<1>1. /\ UNCHANGED <<clock, presale>>
      /\ escrows' = [escrows EXCEPT ![k] = NoEscrow]
  BY DEF CloseEscrow
<1>2. /\ escrows' \in [EscrowKeys -> EscrowAccount \cup {NoEscrow}]
      /\ \A b \in EscrowKeys : Exists(b)' => b # k /\ escrows'[b] = escrows[b]
  BY <1>1, KeptPresale DEF Exists
<1>3. \A b \in EscrowKeys : Exists(b)' =>
            /\ escrows'[b].registryIndex = b[2]
            /\ escrows'[b].totalDeposit <= escrows'[b].depositMaxCap
            /\ escrows'[b].totalDeposit <= Deposits[b]
            /\ escrows'[b].totalDepositFee <= Fees[b]
  BY <1>2, KeptPresale DEF Exists
<1> QED
  BY <1>1, <1>2, <1>3, KeptPresale, NoMoveOK

\* The creator's instructions set a flag, time moves the clock.
LEMMA PresaleStepOK ==
    ASSUME LedgerInv,
           \/ CreatorWithdraw \/ CreatorCollectFee
           \/ PerformUnsoldBaseTokenAction \/ Tick
    PROVE  LedgerInv'
<1>1. /\ UNCHANGED escrows
      /\ presale' \in {presale,
                       [presale EXCEPT !.hasCreatorWithdrawn = TRUE],
                       [presale EXCEPT !.depositFeeCollected = TRUE],
                       [presale EXCEPT !.isUnsoldTokenActionPerformed = TRUE]}
  BY DEF CreatorWithdraw, CreatorCollectFee, PerformUnsoldBaseTokenAction, Tick
<1>2. clock' \in 0..MaxTime
  BY KeptPresale, MaxTimeAssumption
     DEF CreatorWithdraw, CreatorCollectFee, PerformUnsoldBaseTokenAction, Tick
<1>3. /\ presale' \in PresaleAccounts
      /\ presale'.totalDeposit = presale.totalDeposit
      /\ presale'.totalDepositFee = presale.totalDepositFee
      /\ presale'.presaleMode = presale.presaleMode
      /\ presale'.presaleMaximumCap = presale.presaleMaximumCap
      /\ presale'.presaleRegistries = presale.presaleRegistries
  BY <1>1, KeptPresale DEF PresaleAccounts
<1>4. \A k \in EscrowKeys : Exists(k)' =>
            /\ escrows'[k].registryIndex = k[2]
            /\ escrows'[k].totalDeposit <= escrows'[k].depositMaxCap
            /\ escrows'[k].totalDeposit <= Deposits[k]
            /\ escrows'[k].totalDepositFee <= Fees[k]
  BY <1>1, KeptPresale DEF Exists
<1> QED
  BY <1>1, <1>2, <1>3, <1>4, KeptPresale, NoMoveOK

\* The amounts the buyers ask for are natural numbers.
LEMMA AmountsNat ==
    ASSUME NEW amount \in Amounts
    PROVE  amount \in Nat
BY AmountsAssumption

LEMMA StepOK == LedgerInv /\ [Next]_vars => LedgerInv'
<1> SUFFICES ASSUME LedgerInv, [Next]_vars PROVE LedgerInv'
  OBVIOUS
<1>1. ASSUME NEW k \in EscrowKeys, InitializeEscrow(k) PROVE LedgerInv'
  BY <1>1, InitializeEscrowOK
<1>2. ASSUME NEW k \in EscrowKeys, NEW amount \in Amounts,
             Deposit(k, amount) \/ OpenAndDeposit(k, amount)
      PROVE  LedgerInv'
  BY <1>2, AmountsNat, DepositOK
<1>3. ASSUME NEW k \in EscrowKeys, NEW amount \in Amounts, Withdraw(k, amount)
      PROVE  LedgerInv'
  BY <1>3, AmountsNat, WithdrawOK
<1>4. ASSUME NEW k \in EscrowKeys, Claim(k) PROVE LedgerInv'
  BY <1>4, ClaimOK
<1>5. ASSUME NEW k \in EscrowKeys, WithdrawRemainingQuote(k) PROVE LedgerInv'
  BY <1>5, WithdrawRemainingQuoteOK
<1>6. ASSUME NEW k \in EscrowKeys, CloseEscrow(k) PROVE LedgerInv'
  BY <1>6, CloseEscrowOK
<1>7. CASE CreatorWithdraw \/ CreatorCollectFee
           \/ PerformUnsoldBaseTokenAction \/ Tick
  BY <1>7, PresaleStepOK
<1>8. CASE UNCHANGED vars
  BY <1>8 DEF vars, LedgerInv, TypeOK, TotalsAddUp, AddressesMatch,
              CapNeverExceeded, BuyerCapRespected, OpenEscrows, Exists,
              Deposits, Fees, RegistryDeposits, RegistryFees
<1> QED
  BY <1>1, <1>2, <1>3, <1>4, <1>5, <1>6, <1>7, <1>8 DEF Next

\* LedgerInv is an invariant of the ledger.
LEMMA LedgerInvariant == Spec => []LedgerInv
BY InitOK, StepOK, PTL DEF Spec

---------------------------------------------------------------------------
(* The invariants the runs check *)

\* Type correctness: in particular no total of a presale, a registry or an
\* escrow is ever negative, whatever is withdrawn (withdraw, refunds of fees).
THEOREM TypeOKTheorem == Spec => []TypeOK
<1>1. LedgerInv => TypeOK
  BY DEF LedgerInv
<1> QED
  BY <1>1, LedgerInvariant, PTL

\* A fixed price or first-come presale never takes more than its cap
\* (getRemainingDepositQuota, suggestDepositAmount).
THEOREM CapNeverExceededTheorem == Spec => []CapNeverExceeded
<1>1. LedgerInv => CapNeverExceeded
  BY DEF LedgerInv
<1> QED
  BY <1>1, LedgerInvariant, PTL

\* No escrow holds more than its cap (getRemainingDepositAmount).
THEOREM BuyerCapRespectedTheorem == Spec => []BuyerCapRespected
<1>1. LedgerInv => BuyerCapRespected
  BY DEF LedgerInv
<1> QED
  BY <1>1, LedgerInvariant, PTL

---------------------------------------------------------------------------
(* The outcome *)

\* A decided presale is past its start and its end.
LEMMA DecidedIsOver ==
    ASSUME LedgerInv, Decided
    PROVE  presale.presaleStartTime <= clock /\ presale.presaleEndTime <= clock
<1>1. /\ clock \in Nat /\ presale.presaleStartTime \in Nat
      /\ presale.presaleEndTime \in Nat
  BY SumTypes DEF LedgerInv, PresaleAccounts
<1> QED
  BY <1>1 DEF Decided, Progress, PresaleProgressState

\* The outcome then depends on the deposit and the minimum cap only.
LEMMA OverProgress ==
    ASSUME NEW p, NEW t \in Nat, p.presaleStartTime \in Nat,
           p.presaleEndTime \in Nat,
           p.presaleStartTime <= t, p.presaleEndTime <= t
    PROVE  PresaleProgressState(p, t) =
              IF p.totalDeposit >= p.presaleMinimumCap
              THEN "Completed" ELSE "Failed"
BY DEF PresaleProgressState

\* The fields on which the progress and the claims of a presale depend.
SameTerms(p, q) ==
    /\ p.presaleStartTime = q.presaleStartTime
    /\ p.presaleEndTime = q.presaleEndTime
    /\ p.presaleMinimumCap = q.presaleMinimumCap
    /\ p.totalDeposit = q.totalDeposit
    /\ p.presaleMode = q.presaleMode
    /\ p.qPrice = q.qPrice
    /\ p.presaleRegistries = q.presaleRegistries

\* The steps that move deposits.
Moves(k, amount) ==
    Deposit(k, amount) \/ OpenAndDeposit(k, amount) \/ Withdraw(k, amount)

\* Nobody deposits or withdraws once the outcome is decided, and the other
\* instructions change none of these fields.
LEMMA TermsKept ==
    ASSUME LedgerInv, Next,
           \/ Decided
           \/ \A k \in EscrowKeys : \A amount \in Amounts : ~Moves(k, amount)
    PROVE  SameTerms(presale', presale) /\ clock' \in Nat /\ clock <= clock'
<1>1. presale \in PresaleAccounts /\ clock \in Nat /\ MaxTime \in Nat
  BY SumTypes, MaxTimeAssumption DEF LedgerInv
<1>2. ASSUME NEW k \in EscrowKeys, NEW amount \in Amounts
      PROVE  ~Moves(k, amount)
  <2>1. Moves(k, amount) => Progress = "Ongoing"
    BY DEF Moves, Deposit, OpenAndDeposit, DepositInto, Withdraw, CanDeposit,
           CanWithdraw, Progress
  <2> QED
    BY <2>1, <1>2 DEF Decided
<1>3. CASE Tick
  BY <1>1, <1>3 DEF Tick, SameTerms
<1>4. ASSUME NEW k \in EscrowKeys,
             \/ InitializeEscrow(k) \/ Claim(k)
             \/ WithdrawRemainingQuote(k) \/ CloseEscrow(k)
      PROVE  SameTerms(presale', presale) /\ clock' = clock
  BY <1>4 DEF InitializeEscrow, Claim, WithdrawRemainingQuote, CloseEscrow, SameTerms
<1>5. CASE CreatorWithdraw
  <2>1. presale' = [presale EXCEPT !.hasCreatorWithdrawn = TRUE] /\ clock' = clock
    BY <1>5 DEF CreatorWithdraw
  <2> QED
    BY <1>1, <2>1 DEF PresaleAccounts, SameTerms
<1>6. CASE CreatorCollectFee
  <2>1. presale' = [presale EXCEPT !.depositFeeCollected = TRUE] /\ clock' = clock
    BY <1>6 DEF CreatorCollectFee
  <2> QED
    BY <1>1, <2>1 DEF PresaleAccounts, SameTerms
<1>7. CASE PerformUnsoldBaseTokenAction
  <2>1. /\ presale' = [presale EXCEPT !.isUnsoldTokenActionPerformed = TRUE]
        /\ clock' = clock
    BY <1>7 DEF PerformUnsoldBaseTokenAction
  <2> QED
    BY <1>1, <2>1 DEF PresaleAccounts, SameTerms
<1> QED
  BY <1>1, <1>2, <1>3, <1>4, <1>5, <1>6, <1>7 DEF Next, Moves

\* The fees of the registries never change.
LEMMA FeesKept ==
    ASSUME LedgerInv, [Next]_vars, NEW i \in RegistryIndex
    PROVE  presale'.presaleRegistries[i].depositFeeBps
                = presale.presaleRegistries[i].depositFeeBps
<1>1. /\ presale \in PresaleAccounts
      /\ presale.presaleRegistries \in [RegistryIndex -> PresaleRegistry]
      /\ clock \in Nat
  BY SumTypes DEF LedgerInv
<1>2. ASSUME NEW k \in EscrowKeys, NEW a, NEW f
      PROVE  Credited(presale, k[2], a, f).presaleRegistries[i].depositFeeBps
                = presale.presaleRegistries[i].depositFeeBps
  BY <1>1 DEF Credited, CreditedAccount, PresaleAccounts, PresaleRegistry
<1>3. ASSUME NEW k \in EscrowKeys, NEW a, NEW f
      PROVE  EndedEarly(Credited(presale, k[2], a, f)).presaleRegistries[i].depositFeeBps
                = presale.presaleRegistries[i].depositFeeBps
  <2>1. EndedEarly(Credited(presale, k[2], a, f)).presaleRegistries
            = Credited(presale, k[2], a, f).presaleRegistries
    BY <1>1 DEF EndedEarly, Credited, PresaleAccounts
  <2> QED
    BY <1>2, <2>1
<1>4. ASSUME NEW k \in EscrowKeys, NEW amount \in Amounts, Moves(k, amount)
      PROVE  presale'.presaleRegistries[i].depositFeeBps
                = presale.presaleRegistries[i].depositFeeBps
  <2>1. \E a, f : presale' \in {Credited(presale, k[2], a, f),
                                EndedEarly(Credited(presale, k[2], a, f))}
    BY <1>4 DEF Moves, Deposit, OpenAndDeposit, DepositInto, Withdraw
  <2> QED
    BY <1>2, <1>3, <2>1
<1>5. CASE UNCHANGED vars
  BY <1>5 DEF vars
<1>6. CASE Next /\ \A k \in EscrowKeys : \A amount \in Amounts : ~Moves(k, amount)
  BY <1>6, TermsKept DEF SameTerms
<1> QED
  BY <1>4, <1>5, <1>6

LEMMA OutcomeKept ==
    ASSUME LedgerInv, [Next]_vars, Decided
    PROVE  Progress' = Progress
<1>1. /\ clock \in Nat /\ presale.presaleStartTime \in Nat
      /\ presale.presaleEndTime \in Nat
  BY SumTypes DEF LedgerInv, PresaleAccounts
<1>2. presale.presaleStartTime <= clock /\ presale.presaleEndTime <= clock
  BY DecidedIsOver
<1>3. CASE Next
  <2>1. SameTerms(presale', presale) /\ clock' \in Nat /\ clock <= clock'
    BY <1>3, TermsKept
  <2>2. /\ presale'.presaleStartTime \in Nat /\ presale'.presaleEndTime \in Nat
        /\ presale'.presaleStartTime <= clock' /\ presale'.presaleEndTime <= clock'
    BY <1>1, <1>2, <2>1 DEF SameTerms
  <2>3. PresaleProgressState(presale', clock')
            = IF presale'.totalDeposit >= presale'.presaleMinimumCap
              THEN "Completed" ELSE "Failed"
    BY <2>1, <2>2, OverProgress
  <2>4. PresaleProgressState(presale, clock)
            = IF presale.totalDeposit >= presale.presaleMinimumCap
              THEN "Completed" ELSE "Failed"
    BY <1>1, <1>2, OverProgress
  <2> QED
    BY <2>1, <2>3, <2>4 DEF Progress, SameTerms
<1>4. CASE UNCHANGED vars
  BY <1>4 DEF vars, Progress
<1> QED
  BY <1>3, <1>4

\* No instruction and no passing of time turns a completed presale into a
\* failed or an ongoing one (getPresaleProgressState).
THEOREM OutcomeIsFinalTheorem == Spec => OutcomeIsFinal
<1>1. LedgerInv /\ [Next]_vars => [Decided => Progress' = Progress]_vars
  BY OutcomeKept
<1> QED
  BY <1>1, LedgerInvariant, PTL DEF Spec, OutcomeIsFinal

---------------------------------------------------------------------------
(* Overpayment *)

\* What a registry took and a deposit within what it has left together cost no
\* more than its supply and one token.
LEMMA LastDepositBound ==
    ASSUME NEW d \in Nat, NEW a \in Nat \ {0}, NEW supply \in Nat, NEW q \in Nat \ {0},
           a <= QuoteCost(supply - FixedPriceBaseTokenSold(d, supply, q), q)
    PROVE  d + a <= QuoteCost(supply, q) + QuoteCost(1, q)
<1> DEFINE sold == FixedPriceBaseTokenSold(d, supply, q)
           left == supply - sold
<1>1. /\ sold \in 0..supply
      /\ d * Scale < sold * q + q \/ sold = supply
  BY FixedPriceSold
<1>2. a <= QuoteCost(left, q)
  OBVIOUS
<1> HIDE DEF sold
<1>3. left \in Nat /\ sold + left = supply
  BY <1>1
<1> HIDE DEF left
<1>4. left # 0
  BY <1>2, QuoteCostZero
<1>5. d * Scale < sold * q + q
  BY <1>1, <1>3, <1>4
<1> DEFINE cl == QuoteCost(left, q)
           cs == QuoteCost(supply, q)
           c1 == QuoteCost(1, q)
<1>6. /\ cl \in Nat /\ cl * Scale < left * q + Scale
      /\ cs \in Nat /\ supply * q <= cs * Scale
      /\ c1 \in Nat /\ 1 * q <= c1 * Scale
  BY <1>3, QuoteCostProperty
<1>7. a <= cl
  BY <1>2
<1> HIDE DEF cl, cs, c1
<1>8. Scale \in Nat \ {0}
  BY ScalePositive
<1>9. a * Scale <= cl * Scale
  BY <1>6, <1>7, <1>8, ProductMonotone
<1>10. supply * q = sold * q + left * q
  BY <1>1, <1>3
<1>11. (d + a) * Scale = d * Scale + a * Scale
  BY <1>8
<1>12. (cs + c1 + 1) * Scale = cs * Scale + c1 * Scale + Scale
  BY <1>6, <1>8
<1>13. /\ d * Scale \in Nat /\ a * Scale \in Nat /\ cl * Scale \in Nat
       /\ cs * Scale \in Nat /\ c1 * Scale \in Nat /\ left * q \in Nat
       /\ sold * q \in Nat /\ supply * q \in Nat /\ 1 * q = q
  BY <1>1, <1>3, <1>6, <1>8
<1> DEFINE dS == d * Scale  aS == a * Scale  clS == cl * Scale  csS == cs * Scale
           c1S == c1 * Scale  lq == left * q  sq == sold * q  uq == supply * q
           all == (d + a) * Scale
           bound == (cs + c1 + 1) * Scale
<1>14. all < bound
  <2>1. /\ dS < sq + q /\ clS < lq + Scale /\ uq <= csS /\ q <= c1S /\ aS <= clS
        /\ uq = sq + lq /\ all = dS + aS /\ bound = csS + c1S + Scale
        /\ dS \in Nat /\ aS \in Nat /\ clS \in Nat /\ csS \in Nat /\ c1S \in Nat
        /\ lq \in Nat /\ sq \in Nat /\ uq \in Nat
    BY <1>5, <1>6, <1>9, <1>10, <1>11, <1>12, <1>13
  <2> HIDE DEF dS, aS, clS, csS, c1S, lq, sq, uq, all, bound
  <2> QED
    BY <2>1, <1>8
<1>15. d + a < cs + c1 + 1
  BY <1>6, <1>8, <1>14, ProductCancels
<1> QED
  BY <1>6, <1>15 DEF cs, c1

\* OverpaymentBounded of every registry, used or not.
OverpaymentInv ==
    presale.presaleMode = "FixedPrice" =>
        \A i \in RegistryIndex :
            presale.presaleRegistries[i].totalDeposit
                <= QuoteCost(presale.presaleRegistries[i].presaleSupply,
                             presale.qPrice)
                     + QuoteCost(1, presale.qPrice)

LEMMA OverpaymentInit == Init => OverpaymentInv
<1> SUFFICES ASSUME Init, NEW i \in RegistryIndex
             PROVE  presale.presaleRegistries[i].totalDeposit
                        <= QuoteCost(presale.presaleRegistries[i].presaleSupply,
                                     presale.qPrice)
                             + QuoteCost(1, presale.qPrice)
  BY DEF OverpaymentInv
<1>1. presale \in PresaleAccounts /\ IsFresh(presale)
  BY PresalesAssumption DEF Init
<1>2. /\ presale.presaleRegistries[i].presaleSupply \in Nat
      /\ presale.presaleRegistries[i].totalDeposit = 0
      /\ presale.qPrice \in Nat \ {0}
  BY <1>1 DEF PresaleAccounts, PresaleRegistry, IsFresh
<1>3. /\ QuoteCost(presale.presaleRegistries[i].presaleSupply, presale.qPrice) \in Nat
      /\ QuoteCost(1, presale.qPrice) \in Nat
  BY <1>2, QuoteCostProperty
<1> QED
  BY <1>2, <1>3

LEMMA OverpaymentStep ==
    ASSUME LedgerInv, OverpaymentInv, [Next]_vars
    PROVE  OverpaymentInv'
<1>1. presale.qPrice \in Nat \ {0}
  BY SumTypes DEF LedgerInv, PresaleAccounts
<1>2. \A i \in RegistryIndex :
          /\ presale.presaleRegistries[i].totalDeposit \in Nat
          /\ presale.presaleRegistries[i].presaleSupply \in Nat
  BY SumTypes DEF LedgerInv, PresaleRegistry
<1>3. ASSUME NEW k \in EscrowKeys, NEW amount \in Amounts,
             Deposit(k, amount) \/ OpenAndDeposit(k, amount)
      PROVE  OverpaymentInv'
  <2>0. PICK e : Holds(k, e) /\ DepositInto(k, e, amount)
    BY <1>3, AmountsNat, DepositTarget
  <2>1. PICK a \in Nat \ {0} :
            /\ Moved(k, e, a)
            /\ presale.presaleMode = "FixedPrice" =>
                  a <= WhatIsLeft(presale.presaleRegistries[k[2]])
    BY <2>0, AmountsNat, DepositMoves
  <2>2. k[2] \in RegistryIndex
    BY EscrowTypes DEF LedgerInv
  <2> DEFINE r == presale.presaleRegistries[k[2]]
  <2>3. presale.presaleMode = "FixedPrice" =>
            r.totalDeposit + a <= QuoteCost(r.presaleSupply, presale.qPrice)
                                    + QuoteCost(1, presale.qPrice)
    BY <1>1, <1>2, <2>1, <2>2, LastDepositBound DEF WhatIsLeft
  <2> QED
    BY <2>1, <2>2, <2>3 DEF OverpaymentInv, Moved
<1>4. ASSUME NEW k \in EscrowKeys, NEW amount \in Amounts, Withdraw(k, amount)
      PROVE  OverpaymentInv'
  <2>1. PICK a \in Nat \ {0} : Moved(k, escrows[k], -a)
    BY <1>4, AmountsNat, WithdrawMoves
  <2> SUFFICES ASSUME presale.presaleMode = "FixedPrice", NEW i \in RegistryIndex
               PROVE  presale'.presaleRegistries[i].totalDeposit
                        <= QuoteCost(presale.presaleRegistries[i].presaleSupply,
                                     presale.qPrice)
                             + QuoteCost(1, presale.qPrice)
    BY <2>1 DEF OverpaymentInv, Moved
  <2>2. presale'.presaleRegistries[i].totalDeposit
            <= presale.presaleRegistries[i].totalDeposit
    BY <1>2, <2>1 DEF Moved
  <2>3. /\ QuoteCost(presale.presaleRegistries[i].presaleSupply, presale.qPrice) \in Nat
        /\ QuoteCost(1, presale.qPrice) \in Nat
    BY <1>1, <1>2, QuoteCostProperty
  <2>4. presale.presaleRegistries[i].totalDeposit
            <= QuoteCost(presale.presaleRegistries[i].presaleSupply, presale.qPrice)
                 + QuoteCost(1, presale.qPrice)
    BY DEF OverpaymentInv
  <2>5. /\ presale.presaleRegistries[i].totalDeposit \in Nat
        /\ presale'.presaleRegistries[i].totalDeposit \in Int
    BY <1>2, <2>1 DEF Moved
  <2> QED
    BY <2>2, <2>3, <2>4, <2>5
<1>5. CASE \A k \in EscrowKeys : \A amount \in Amounts : ~Moves(k, amount)
  <2>1. CASE Next
    BY <1>5, <2>1, TermsKept DEF SameTerms, OverpaymentInv
  <2>2. CASE UNCHANGED vars
    BY <2>2 DEF vars, OverpaymentInv
  <2> QED
    BY <2>1, <2>2
<1> QED
  BY <1>3, <1>4, <1>5 DEF Moves

\* A fixed price registry takes at most the price of its supply and of one
\* more token (getRegistryRemainingDepositQuota, suggestDepositAmount).
THEOREM OverpaymentBoundedTheorem == Spec => []OverpaymentBounded
<1>1. LedgerInv /\ OverpaymentInv /\ [Next]_vars => OverpaymentInv'
  BY OverpaymentStep
<1>2. OverpaymentInv => OverpaymentBounded
  BY DEF OverpaymentInv, OverpaymentBounded, InitializedRegistries
<1> QED
  BY <1>1, <1>2, OverpaymentInit, LedgerInvariant, PTL DEF Spec

\* The share of a deposit in what a registry sold, when all deposits together are
\* at most the price of that and of one more token.
LEMMA DilutedShare ==
    ASSUME NEW d \in Nat \ {0}, NEW total \in Nat, NEW sold \in Nat,
           NEW q \in Nat \ {0},
           d <= total, total <= QuoteCost(sold, q) + QuoteCost(1, q)
    PROVE  d <= QuoteCost((d * sold) \div total + 1, q) + QuoteCost(1, q)
<1> DEFINE share == (d * sold) \div total
           paid == QuoteCost(sold, q)
           next == QuoteCost(share + 1, q)
           one == QuoteCost(1, q)
<1>1. Scale \in Nat \ {0} /\ total \in Nat \ {0}
  BY ScalePositive
<1>2. share \in Nat /\ d * sold < (share + 1) * total
  <2>1. d * sold \in Nat
    OBVIOUS
  <2>2. share \in Nat /\ d * sold < share * total + total
    BY <1>1, <2>1, FloorProperty
  <2> HIDE DEF share
  <2> QED
    BY <2>2
<1> HIDE DEF share
<1>3. /\ paid \in Nat /\ paid * Scale < sold * q + Scale
      /\ next \in Nat /\ (share + 1) * q <= next * Scale
      /\ one \in Nat
  <2>1. paid \in Nat /\ paid * Scale < sold * q + Scale
    BY QuoteCostProperty
  <2>2. share + 1 \in Nat
    BY <1>2
  <2>3. next \in Nat /\ (share + 1) * q <= next * Scale
    BY <2>2, QuoteCostProperty
  <2>4. one \in Nat
    BY QuoteCostProperty
  <2> HIDE DEF paid, next, one
  <2> QED
    BY <2>1, <2>3, <2>4
<1>4. total <= paid + one
  OBVIOUS
<1> HIDE DEF paid, next, one
\* What was paid for the tokens sold, as far as this deposit shares in it.
<1>5. (d * paid) * Scale <= (d * sold) * q + d * Scale
  <2>1. (paid * Scale) * d <= (sold * q + Scale) * d
    BY <1>1, <1>3, ProductMonotone
  <2>2. /\ (paid * Scale) * d = (d * paid) * Scale
        /\ (sold * q + Scale) * d = (d * sold) * q + d * Scale
    BY <1>1, <1>3
  <2> QED
    BY <2>1, <2>2
<1>6. (d * sold) * q < (next * total) * Scale
  <2>1. (d * sold) * q + q <= ((share + 1) * total) * q
    <3>1. (d * sold + 1) * q <= ((share + 1) * total) * q
      BY <1>1, <1>2, ProductMonotone
    <3> QED
      BY <3>1
  <2>2. ((share + 1) * q) * total <= (next * Scale) * total
    BY <1>1, <1>2, <1>3, ProductMonotone
  <2>3. /\ ((share + 1) * q) * total = ((share + 1) * total) * q
        /\ (next * Scale) * total = (next * total) * Scale
    BY <1>1, <1>2, <1>3
  <2>4. (d * sold) * q + q <= (next * total) * Scale
    <3> DEFINE a == (d * sold) * q + q
               b == ((share + 1) * total) * q
               c == (next * total) * Scale
    <3>1. a \in Nat /\ b \in Nat /\ c \in Nat /\ a <= b /\ b <= c
      BY <1>1, <1>2, <1>3, <2>1, <2>2, <2>3
    <3> HIDE DEF a, b, c
    <3>2. a <= c
      BY <3>1
    <3> QED
      BY <3>2 DEF a, c
  <2> DEFINE x == (d * sold) * q
             y == (next * total) * Scale
  <2>5. x \in Nat /\ y \in Nat /\ x + q <= y
    BY <1>1, <1>3, <2>4
  <2> HIDE DEF x, y
  <2>6. x < y
    BY <2>5
  <2> QED
    BY <2>6 DEF x, y
<1>7. d * paid < next * total + d
  <2> DEFINE x == d * paid
             y == next * total + d
  <2>1. x * Scale < y * Scale
    <3> DEFINE a == (d * paid) * Scale
               b == (d * sold) * q
               c == (next * total) * Scale
               w == d * Scale
    <3>1. /\ a \in Nat /\ b \in Nat /\ c \in Nat /\ w \in Nat
          /\ a <= b + w /\ b < c
      BY <1>1, <1>3, <1>5, <1>6
    <3>2. x * Scale = a /\ y * Scale = c + w
      BY <1>1, <1>3
    <3> HIDE DEF a, b, c, w, x, y
    <3> QED
      BY <3>1, <3>2
  <2>2. x \in Nat /\ y \in Nat
    BY <1>1, <1>3
  <2> HIDE DEF x, y
  <2>3. y <= x => y * Scale <= x * Scale
    BY <1>1, <2>2, ProductMonotone
  <2>4. x * Scale \in Nat /\ y * Scale \in Nat
    BY <1>1, <2>2
  <2>5. x < y
    BY <2>1, <2>2, <2>3, <2>4
  <2> QED
    BY <2>5 DEF x, y
\* The whole deposit: the token too many is shared as well.
<1>8. total * d <= (paid + one) * d
  BY <1>3, <1>4, ProductMonotone
<1>9. d * one <= total * one
  BY <1>3, ProductMonotone
<1>10. d * total < (next + 1 + one) * total
  <2> DEFINE x == d * total
             y == d * paid
             z == d * one
             v == next * total
             w == total * one
  <2>1. /\ x \in Nat /\ y \in Nat /\ z \in Nat /\ v \in Nat /\ w \in Nat
        /\ x <= y + z /\ y < v + d /\ z <= w /\ d <= total
    <3>1. total * d = x /\ (paid + one) * d = y + z
      BY <1>3
    <3> QED
      BY <1>3, <1>7, <1>8, <1>9, <3>1
  <2>2. (next + 1 + one) * total = v + total + w
    BY <1>3
  <2> HIDE DEF x, y, z, v, w
  <2>3. x < v + total + w
    BY <2>1
  <2> QED
    BY <2>2, <2>3 DEF x
<1>11. next + 1 + one <= d => (next + 1 + one) * total <= d * total
  <2>1. next + 1 + one \in Nat
    BY <1>3
  <2> QED
    BY <2>1, ProductMonotone
<1>12. d < next + 1 + one
  <2>1. d * total \in Nat /\ (next + 1 + one) * total \in Nat /\ next + 1 + one \in Nat
    BY <1>3
  <2> QED
    BY <1>10, <1>11, <2>1
<1>13. d <= next + one
  BY <1>3, <1>12
<1> QED
  BY <1>13 DEF next, one, share

\* Whatever a registry has sold, the deposits are at most the price of it and of
\* one more token.
LEMMA DepositsBoughtAllButOne ==
    ASSUME NEW total \in Nat, NEW supply \in Nat, NEW q \in Nat \ {0},
           total <= QuoteCost(supply, q) + QuoteCost(1, q)
    PROVE  LET sold == FixedPriceBaseTokenSold(total, supply, q)
           IN  sold \in Nat /\ total <= QuoteCost(sold, q) + QuoteCost(1, q)
<1> DEFINE sold == FixedPriceBaseTokenSold(total, supply, q)
<1>1. /\ sold \in Nat
      /\ total * Scale < sold * q + q \/ sold = supply
  BY FixedPriceSold
<1> HIDE DEF sold
<1>2. CASE sold = supply
  BY <1>1, <1>2 DEF sold
<1>3. CASE total * Scale < sold * q + q
  <2> DEFINE paid == QuoteCost(sold, q)
             one == QuoteCost(1, q)
  <2>1. /\ paid \in Nat /\ sold * q <= paid * Scale
        /\ one \in Nat /\ 1 * q <= one * Scale
    BY <1>1, QuoteCostProperty
  <2> HIDE DEF paid, one
  <2>2. total * Scale <= (paid + one) * Scale
    <3> DEFINE a == total * Scale
               b == sold * q
               c == paid * Scale
               o == one * Scale
    <3>1. /\ a \in Nat /\ b \in Nat /\ c \in Nat /\ o \in Nat
          /\ a < b + q /\ b <= c /\ q <= o
      BY <1>1, <1>3, <2>1, ScalePositive
    <3>2. (paid + one) * Scale = c + o
      BY <2>1, ScalePositive
    <3> HIDE DEF a, b, c, o
    <3>3. a <= c + o
      BY <3>1
    <3> QED
      BY <3>2, <3>3 DEF a
  <2>3. total <= paid + one
    <3>1. paid + one \in Nat
      BY <2>1
    <3> QED
      BY <2>2, <3>1, ScalePositive, ProductCancels
  <2> QED
    BY <1>1, <2>3 DEF paid, one, sold
<1> QED
  BY <1>1, <1>2, <1>3

\* However many buyers join a registry of a fixed price presale after one of them,
\* the one pays for no more than the share, one token and the price of another
\* (getTotalClaimableRawAmount, getRegistryRemainingDepositQuota).
THEOREM NobodyIsDilutedTheorem == Spec => []NobodyIsDiluted
<1>1. LedgerInv /\ OverpaymentInv => NobodyIsDiluted
  <2> SUFFICES ASSUME LedgerInv, OverpaymentInv, presale.presaleMode = "FixedPrice",
                      NEW k \in OpenEscrows
               PROVE  escrows[k].totalDeposit
                        <= QuoteCost(TotalClaimableRawAmount(presale, escrows[k]) + 1,
                                     presale.qPrice)
                             + QuoteCost(1, presale.qPrice)
    BY DEF NobodyIsDiluted
  <2> DEFINE e == escrows[k]
             r == presale.presaleRegistries[k[2]]
             q == presale.qPrice
             d == e.totalDeposit
             total == r.totalDeposit
             sold == FixedPriceBaseTokenSold(total, r.presaleSupply, q)
  <2>1. k \in EscrowKeys /\ Exists(k)
    BY DEF OpenEscrows
  <2>2. /\ e.registryIndex = k[2] /\ k[2] \in RegistryIndex /\ d \in Nat
        /\ EscrowRegistry(presale, e) = r /\ d <= total
    BY <2>1, EscrowHolds, EscrowTypes, DepositPart DEF LedgerInv, EscrowAccount
  <2>3. total \in Nat /\ r.presaleSupply \in Nat /\ q \in Nat \ {0}
    BY <2>2, SumTypes DEF LedgerInv, PresaleAccounts, PresaleRegistry
  <2>4. total <= QuoteCost(r.presaleSupply, q) + QuoteCost(1, q)
    BY <2>2 DEF OverpaymentInv
  <2>5. sold \in Nat /\ total <= QuoteCost(sold, q) + QuoteCost(1, q)
    BY <2>3, <2>4, DepositsBoughtAllButOne
  <2>6. TotalClaimableRawAmount(presale, e) =
            IF d = 0 THEN 0 ELSE (d * sold) \div total
    BY <2>2 DEF TotalClaimableRawAmount, RegistryTotalBaseTokenSold
  <2> HIDE DEF sold
  <2>7. CASE d = 0
    <3>1. TotalClaimableRawAmount(presale, e) + 1 = 1
      BY <2>6, <2>7
    <3>2. QuoteCost(1, q) \in Nat
      BY <2>3, QuoteCostProperty
    <3> QED
      BY <2>7, <3>1, <3>2
  <2>8. CASE d # 0
    <3>1. d <= QuoteCost((d * sold) \div total + 1, q) + QuoteCost(1, q)
      BY <2>2, <2>3, <2>5, <2>8, DilutedShare
    <3> QED
      BY <2>6, <2>8, <3>1
  <2> QED
    BY <2>7, <2>8
<1>2. LedgerInv /\ OverpaymentInv /\ [Next]_vars => OverpaymentInv'
  BY OverpaymentStep
<1> QED
  BY <1>1, <1>2, OverpaymentInit, LedgerInvariant, PTL DEF Spec

---------------------------------------------------------------------------
(* Claims *)

\* What a buyer has bought depends on the terms and on the buyer's deposit.
LEMMA ClaimableKept ==
    ASSUME NEW p, NEW q, NEW e, NEW f, SameTerms(p, q),
           e.registryIndex = f.registryIndex, e.totalDeposit = f.totalDeposit
    PROVE  TotalClaimableRawAmount(p, e) = TotalClaimableRawAmount(q, f)
BY DEF SameTerms, TotalClaimableRawAmount, RegistryTotalBaseTokenSold, EscrowRegistry

\* Deposits and withdrawals leave what has been claimed.
LEMMA MovesKeepClaims ==
    ASSUME LedgerInv, NEW b \in EscrowKeys, NEW amount \in Amounts,
           Moves(b, amount), NEW k \in EscrowKeys, Exists(k)'
    PROVE  \/ /\ Exists(k)
              /\ escrows'[k].totalClaimedToken = escrows[k].totalClaimedToken
           \/ escrows'[k].totalClaimedToken = 0
<1>1. \A a \in Nat : a \in Int /\ -a \in Int
  OBVIOUS
<1>2. PICK e : /\ \E a \in Int : Moved(b, e, a)
               /\ IF Exists(b) THEN e = escrows[b] ELSE e.totalClaimedToken = 0
  <2>1. CASE Deposit(b, amount) \/ OpenAndDeposit(b, amount)
    <3>1. PICK e : /\ Holds(b, e) /\ DepositInto(b, e, amount)
                   /\ IF Exists(b) THEN e = escrows[b]
                      ELSE e.totalClaimedToken = 0
      BY <2>1, AmountsNat, DepositTarget
    <3>2. \E a \in Nat : Moved(b, e, a)
      BY <3>1, AmountsNat, DepositMoves
    <3> QED
      BY <1>1, <3>1, <3>2
  <2>2. CASE Withdraw(b, amount)
    <3>1. Exists(b) /\ \E a \in Nat : Moved(b, escrows[b], -a)
      BY <2>2, AmountsNat, WithdrawMoves DEF Withdraw
    <3> QED
      BY <1>1, <3>1
  <2> QED
    BY <2>1, <2>2 DEF Moves
<1> QED
  BY <1>2 DEF Moved

\* One buyer's part of ClaimsWithinEntitlement.
Entitled(p, e, progress) ==
    e.totalClaimedToken > 0 =>
        /\ progress = "Completed"
        /\ e.totalClaimedToken <= TotalClaimableRawAmount(p, e)

LEMMA ClaimsStep ==
    ASSUME LedgerInv, ClaimsWithinEntitlement, [Next]_vars
    PROVE  ClaimsWithinEntitlement'
<1> SUFFICES ASSUME NEW k \in EscrowKeys, Exists(k)'
             PROVE  Entitled(presale', escrows'[k], Progress')
  BY DEF ClaimsWithinEntitlement, OpenEscrows, Entitled
<1>1. Exists(k) => Entitled(presale, escrows[k], Progress)
  BY DEF ClaimsWithinEntitlement, OpenEscrows, Entitled
<1>2. \A b \in EscrowKeys : Exists(b) => escrows[b].totalClaimedToken \in Nat
  BY EscrowTypes DEF LedgerInv, EscrowAccount
<1>3. ASSUME NEW b \in EscrowKeys, NEW amount \in Amounts, Moves(b, amount)
      PROVE  Entitled(presale', escrows'[k], Progress')
  <2>1. Progress = "Ongoing"
    BY <1>3 DEF Moves, Deposit, OpenAndDeposit, DepositInto, Withdraw, CanDeposit,
                CanWithdraw, Progress
  <2>3. \/ Exists(k) /\ escrows'[k].totalClaimedToken = escrows[k].totalClaimedToken
        \/ escrows'[k].totalClaimedToken = 0
    BY <1>3, MovesKeepClaims
  <2> QED
    BY <1>1, <2>1, <2>3 DEF Entitled
<1>4. ASSUME Next, \A b \in EscrowKeys : \A amount \in Amounts :
                        ~Moves(b, amount)
      PROVE  Entitled(presale', escrows'[k], Progress')
  <2>1. SameTerms(presale', presale)
    BY <1>4, TermsKept
  <2>2. Progress = "Completed" => Progress' = "Completed"
    BY OutcomeKept DEF Decided
  <2>3. ASSUME Exists(k),
               escrows'[k].registryIndex = escrows[k].registryIndex,
               escrows'[k].totalDeposit = escrows[k].totalDeposit,
               escrows'[k].totalClaimedToken = escrows[k].totalClaimedToken
        PROVE  Entitled(presale', escrows'[k], Progress')
    <3>1. TotalClaimableRawAmount(presale', escrows'[k])
            = TotalClaimableRawAmount(presale, escrows[k])
      BY <2>1, <2>3, ClaimableKept
    <3> QED
      BY <1>1, <2>2, <2>3, <3>1 DEF Entitled
  <2>4. CASE UNCHANGED escrows
    BY <2>3, <2>4 DEF Exists
  <2>5. ASSUME NEW b \in EscrowKeys, InitializeEscrow(b)
        PROVE  Entitled(presale', escrows'[k], Progress')
    <3>1. CASE k = b
      <4>1. escrows'[k].totalClaimedToken = 0
        <5>1. CanOpen(b) /\ \E e \in NewEscrows(b) :
                    escrows' = [escrows EXCEPT ![b] = e]
          BY <2>5 DEF InitializeEscrow
        <5> QED
          BY <3>1, <5>1, NewEscrowHolds, KeptPresale DEF CanOpen
      <4> QED
        BY <4>1 DEF Entitled
    <3>2. CASE k # b
      <4>1. escrows'[k] = escrows[k]
        BY <2>5, <3>2, KeptPresale DEF InitializeEscrow
      <4> QED
        BY <4>1, <2>3 DEF Exists
    <3> QED
      BY <3>1, <3>2
  <2>6. ASSUME NEW b \in EscrowKeys, CloseEscrow(b)
        PROVE  Entitled(presale', escrows'[k], Progress')
    <3>1. escrows'[k] = escrows[k]
      BY <2>6, KeptPresale DEF CloseEscrow, Exists
    <3> QED
      BY <3>1, <2>3 DEF Exists
  <2>7. ASSUME NEW b \in EscrowKeys, WithdrawRemainingQuote(b)
        PROVE  Entitled(presale', escrows'[k], Progress')
    <3>1. /\ Exists(b)
          /\ escrows' = [escrows EXCEPT ![b] =
                [escrows[b] EXCEPT !.isRemainingQuoteWithdrawn = TRUE]]
      BY <2>7 DEF WithdrawRemainingQuote
    <3>2. escrows[b] \in EscrowAccount
      BY <3>1, EscrowHolds
    <3>3. CASE k = b
      BY <3>1, <3>2, <3>3, <2>3, KeptPresale DEF EscrowAccount
    <3>4. CASE k # b
      <4>1. escrows'[k] = escrows[k]
        BY <3>1, <3>4, KeptPresale
      <4> QED
        BY <4>1, <2>3 DEF Exists
    <3> QED
      BY <3>3, <3>4
  <2>8. ASSUME NEW b \in EscrowKeys, Claim(b)
        PROVE  Entitled(presale', escrows'[k], Progress')
    <3> DEFINE released == Released(presale, escrows[b], clock)
    <3>1. /\ Exists(b) /\ Progress = "Completed" /\ 0 < escrows[b].totalDeposit
          /\ escrows' = [escrows EXCEPT ![b] =
                [escrows[b] EXCEPT !.totalClaimedToken = released]]
      <4>1. escrows[b].totalDeposit > 0
        BY <2>8 DEF Claim
      <4> QED
        BY <4>1, <2>8 DEF Claim
    <3>2. escrows[b] \in EscrowAccount
      BY <3>1, EscrowHolds
    <3>3. released <= TotalClaimableRawAmount(presale, escrows[b])
      BY <3>1, <3>2, DepositPart, SumTypes, ReleasedBound DEF LedgerInv
    <3> HIDE DEF released
    <3>4. CASE k = b
      <4>1. /\ escrows'[k].totalClaimedToken = released
            /\ escrows'[k].registryIndex = escrows[b].registryIndex
            /\ escrows'[k].totalDeposit = escrows[b].totalDeposit
        BY <3>1, <3>2, <3>4, KeptPresale DEF EscrowAccount
      <4>2. TotalClaimableRawAmount(presale', escrows'[k])
                = TotalClaimableRawAmount(presale, escrows[b])
        BY <2>1, <4>1, ClaimableKept
      <4> QED
        BY <2>2, <3>1, <3>3, <4>1, <4>2 DEF Entitled
    <3>5. CASE k # b
      <4>1. escrows'[k] = escrows[k]
        BY <3>1, <3>5, KeptPresale
      <4> QED
        BY <4>1, <2>3 DEF Exists
    <3> QED
      BY <3>4, <3>5
  <2>9. UNCHANGED escrows \/ \E b \in EscrowKeys :
            InitializeEscrow(b) \/ CloseEscrow(b)
                \/ WithdrawRemainingQuote(b) \/ Claim(b)
    BY <1>4 DEF Next, Moves, Tick, CreatorWithdraw, CreatorCollectFee,
                PerformUnsoldBaseTokenAction
  <2> QED
    BY <2>4, <2>5, <2>6, <2>7, <2>8, <2>9
<1>5. CASE UNCHANGED vars
  BY <1>1, <1>5 DEF vars, Exists, Progress, Entitled
<1> QED
  BY <1>3, <1>4, <1>5

\* Nobody claims before completion or more than what
\* getTotalClaimableRawAmount announces, however often and at whatever times
\* the claims are made (claim, getPendingClaimableRawAmount).
THEOREM ClaimsWithinEntitlementTheorem == Spec => []ClaimsWithinEntitlement
<1>1. Init => ClaimsWithinEntitlement
  BY DEF Init, ClaimsWithinEntitlement, OpenEscrows, Exists
<1>2. LedgerInv /\ ClaimsWithinEntitlement /\ [Next]_vars => ClaimsWithinEntitlement'
  BY ClaimsStep
<1> QED
  BY <1>1, <1>2, LedgerInvariant, PTL DEF Spec

---------------------------------------------------------------------------
(* The end of the vesting *)

\* After both releases the two shares of what a registry has sold are divided
\* among its depositors, whole.
LEMMA ReleasedInTheEnd ==
    ASSUME NEW p \in PresaleAccounts, NEW e \in EscrowAccount, NEW t \in Nat,
           0 < e.totalDeposit,
           e.totalDeposit <= EscrowRegistry(p, e).totalDeposit,
           t >= p.immediateReleaseTimestamp,
           t >= p.vestingStartTime + p.vestDuration
    PROVE  TotalClaimableRawAmount(p, e) <= Released(p, e, t) + 1
<1> DEFINE i == e.registryIndex
           d == e.totalDeposit
           D == EscrowRegistry(p, e).totalDeposit
           sold == RegistryTotalBaseTokenSold(p, i)
           bps == p.immediateReleaseBps
           atOnce == ImmediateReleasedAmount(sold, bps)
           vested == VestedAmount(sold, bps)
<1>1. /\ i \in RegistryIndex /\ d \in Nat /\ D \in Nat \ {0}
      /\ bps \in 0..BpsBase /\ p.vestDuration \in Nat
      /\ p.vestingStartTime \in Nat
  BY DEF EscrowAccount, PresaleAccounts, PresaleRegistry, EscrowRegistry
<1>2. sold \in Nat
  BY <1>1, SoldNat
<1>3. atOnce \in 0..sold /\ vested \in Nat /\ atOnce + vested = sold
  <2> HIDE DEF sold, bps
  <2>1. (sold * bps) \div BpsBase \in 0..sold
    BY <1>1, <1>2, BpsAssumption, ShareAtMost
  <2> QED
    BY <2>1, <1>2 DEF ImmediateReleasedAmount, VestedAmount
<1> HIDE DEF i, d, D, sold, bps, atOnce, vested
<1>4. DrippedToken(p, vested, t) = vested
  <2>1. CASE p.vestDuration = 0
    BY <2>1, <1>1 DEF DrippedToken
  <2>2. CASE p.vestDuration # 0
    <3>1. /\ t >= p.vestingStartTime
          /\ Least(t - p.vestingStartTime, p.vestDuration) = p.vestDuration
      BY <1>1 DEF Least
    <3>2. DrippedToken(p, vested, t) = (vested * p.vestDuration) \div p.vestDuration
      BY <2>2, <3>1, <1>1 DEF DrippedToken
    <3>3. /\ vested * p.vestDuration \in Nat
          /\ vested * p.vestDuration < (vested + 1) * p.vestDuration
          /\ vested + 1 \in Nat
      BY <2>2, <1>1, <1>3
    <3>4. /\ vested <= (vested * p.vestDuration) \div p.vestDuration
          /\ (vested * p.vestDuration) \div p.vestDuration < vested + 1
          /\ (vested * p.vestDuration) \div p.vestDuration \in Nat
      BY <2>2, <3>3, <1>1, <1>3, FloorIsGreatest, FloorIsBelow, FloorProperty
    <3> QED
      BY <3>2, <3>4, <1>3
  <2> QED
    BY <2>1, <2>2
<1>5. Released(p, e, t) = (atOnce * d) \div D + (vested * d) \div D
  BY <1>4 DEF Released, CumulativeClaimable, i, d, D, sold, bps, atOnce, vested
<1>6. TotalClaimableRawAmount(p, e) = (d * sold) \div D
  BY <1>1 DEF TotalClaimableRawAmount, i, d, D, sold
<1>7. /\ atOnce * d \in Nat /\ vested * d \in Nat
      /\ d * sold = atOnce * d + vested * d
  BY <1>1, <1>2, <1>3
<1> QED
  BY <1>1, <1>5, <1>6, <1>7, FloorOfSumAtMost

\* When immediate release and vesting are over, no rounding of shares and drips
\* has kept more than a lamport from a buyer (calculateUserDrippedToken,
\* getPendingClaimableRawAmount).
THEOREM VestingReleasesEverythingTheorem == Spec => []VestingReleasesEverything
<1>1. ASSUME LedgerInv, NEW k \in OpenEscrows, escrows[k].totalDeposit > 0,
             clock >= presale.immediateReleaseTimestamp,
             clock >= presale.vestingStartTime + presale.vestDuration
      PROVE  TotalClaimableRawAmount(presale, escrows[k])
                <= Released(presale, escrows[k], clock) + 1
  <2>1. k \in EscrowKeys /\ Exists(k)
    BY <1>1 DEF OpenEscrows
  <2>2. escrows[k] \in EscrowAccount /\ 0 < escrows[k].totalDeposit
    BY <1>1, <2>1, EscrowHolds
  <2> QED
    BY <1>1, <2>1, <2>2, DepositPart, SumTypes, ReleasedInTheEnd DEF LedgerInv
<1>2. LedgerInv => VestingReleasesEverything
  BY <1>1 DEF VestingReleasesEverything
<1> QED
  BY <1>2, LedgerInvariant, PTL

---------------------------------------------------------------------------
(* Closing *)

LEMMA OnlyCloseCloses ==
    ASSUME LedgerInv, [Next]_vars, NEW k \in EscrowKeys, Exists(k), ~Exists(k)'
    PROVE  CloseEscrow(k)
<1>1. ASSUME NEW b \in EscrowKeys, NEW amount \in Amounts, Moves(b, amount)
      PROVE  FALSE
  <2>1. ASSUME NEW e, NEW a, Moved(b, e, a)
        PROVE  Exists(k)'
    BY <2>1 DEF Moved
  <2>2. CASE Deposit(b, amount) \/ OpenAndDeposit(b, amount)
    <3>1. PICK e : Holds(b, e) /\ DepositInto(b, e, amount)
      BY <2>2, AmountsNat, DepositTarget
    <3> QED
      BY <2>1, <3>1, AmountsNat, DepositMoves
  <2>3. CASE Withdraw(b, amount)
    BY <2>1, <2>3, AmountsNat, WithdrawMoves
  <2> QED
    BY <1>1, <2>2, <2>3 DEF Moves
<1>2. ASSUME NEW b \in EscrowKeys, NEW e \in EscrowAccount,
             escrows' = [escrows EXCEPT ![b] = e]
      PROVE  FALSE
  BY <1>2, KeptPresale, NoEscrowAssumption DEF Exists
<1>3. ASSUME NEW b \in EscrowKeys,
             InitializeEscrow(b) \/ Claim(b) \/ WithdrawRemainingQuote(b)
      PROVE  FALSE
  <2>1. CASE InitializeEscrow(b)
    <3>1. CanOpen(b) /\ \E e \in NewEscrows(b) : escrows' = [escrows EXCEPT ![b] = e]
      BY <2>1 DEF InitializeEscrow
    <3> QED
      BY <1>2, <3>1, NewEscrowHolds DEF Holds, CanOpen
  <2>2. CASE Claim(b)
    <3> DEFINE released == Released(presale, escrows[b], clock)
    <3>1. /\ Exists(b) /\ escrows[b].totalDeposit > 0
          /\ escrows' = [escrows EXCEPT ![b] =
                [escrows[b] EXCEPT !.totalClaimedToken = released]]
      BY <2>2 DEF Claim
    <3>2. escrows[b] \in EscrowAccount /\ 0 < escrows[b].totalDeposit
      BY <3>1, EscrowHolds
    <3>3. released \in Nat
      BY <3>1, <3>2, DepositPart, SumTypes, ReleasedBound DEF LedgerInv
    <3> HIDE DEF released
    <3>4. [escrows[b] EXCEPT !.totalClaimedToken = released] \in EscrowAccount
      BY <3>2, <3>3 DEF EscrowAccount
    <3> QED
      BY <1>2, <3>1, <3>4
  <2>3. CASE WithdrawRemainingQuote(b)
    <3>1. /\ Exists(b)
          /\ escrows' = [escrows EXCEPT ![b] =
                [escrows[b] EXCEPT !.isRemainingQuoteWithdrawn = TRUE]]
      BY <2>3 DEF WithdrawRemainingQuote
    <3>2. escrows[b] \in EscrowAccount
      BY <3>1, EscrowHolds
    <3>3. [escrows[b] EXCEPT !.isRemainingQuoteWithdrawn = TRUE] \in EscrowAccount
      BY <3>2 DEF EscrowAccount
    <3> QED
      BY <1>2, <3>1, <3>3
  <2> QED
    BY <1>3, <2>1, <2>2, <2>3
<1>4. ASSUME NEW b \in EscrowKeys, CloseEscrow(b)
      PROVE  b = k
  <2>1. escrows' = [escrows EXCEPT ![b] = NoEscrow]
    BY <1>4 DEF CloseEscrow
  <2> QED
    BY <2>1, KeptPresale DEF Exists
<1>5. ~UNCHANGED escrows
  BY DEF Exists
<1>6. \E b \in EscrowKeys : CloseEscrow(b)
  BY <1>1, <1>3, <1>5 DEF Next, Moves, Tick, CreatorWithdraw, CreatorCollectFee,
     PerformUnsoldBaseTokenAction, vars
<1> QED
  BY <1>4, <1>6

\* canClose lets go of an escrow only when nothing is owed to it.
LEMMA CloseOwesNothing ==
    ASSUME LedgerInv, NEW k \in EscrowKeys, CloseEscrow(k)
    PROVE  /\ WithdrawableRemainingQuoteAmount(presale, escrows[k], clock) = 0
           /\ Progress = "Ongoing" => escrows[k].totalDeposit = 0
           /\ Progress = "Completed" =>
                 TotalClaimableRawAmount(presale, escrows[k])
                   = escrows[k].totalClaimedToken
<1> DEFINE e == escrows[k]
<1>1. CanClose(presale, e, clock) /\ Exists(k)
  BY DEF CloseEscrow
<1>2. e.totalDeposit \in Nat /\ e.totalDepositFee \in Nat
  BY <1>1, EscrowHolds
<1> HIDE DEF e
<1>3. CASE Progress = "Ongoing"
  BY <1>1, <1>3 DEF CanClose, Progress, WithdrawableRemainingQuoteAmount,
     CanWithdrawRemainingQuoteAmount, CanWithdrawRemainingQuote, e
<1>4. CASE Progress = "Failed"
  BY <1>1, <1>2, <1>4 DEF CanClose, Progress, WithdrawableRemainingQuoteAmount,
     CanWithdrawRemainingQuoteAmount, CanWithdrawRemainingQuote, e
<1>5. CASE Progress = "Completed"
  BY <1>1, <1>5 DEF CanClose, Progress, WithdrawableRemainingQuoteAmount,
     CanWithdrawRemainingQuoteAmount, CanWithdrawRemainingQuote, e
<1> QED
  BY <1>1, <1>3, <1>4, <1>5 DEF CanClose, Progress

\* No way of closing an escrow gives up a refund or a claim (closeEscrow,
\* canClose).
THEOREM ClosedEscrowIsOwedNothingTheorem == Spec => ClosedEscrowIsOwedNothing
<1> DEFINE Owed(k) ==
        /\ WithdrawableRemainingQuoteAmount(presale, escrows[k], clock) = 0
        /\ Progress = "Ongoing" => escrows[k].totalDeposit = 0
        /\ Progress = "Completed" =>
              TotalClaimableRawAmount(presale, escrows[k])
                = escrows[k].totalClaimedToken
<1>1. ASSUME LedgerInv, [Next]_vars, NEW k \in EscrowKeys, Exists(k), ~Exists(k)'
      PROVE  Owed(k)
  BY <1>1, OnlyCloseCloses, CloseOwesNothing
<1>2. LedgerInv /\ [Next]_vars =>
        [\A k \in EscrowKeys : Exists(k) /\ ~Exists(k)' => Owed(k)]_vars
  BY <1>1
<1> QED
  BY <1>2, LedgerInvariant, PTL DEF Spec, ClosedEscrowIsOwedNothing

---------------------------------------------------------------------------
(* Dividing an amount in proportion *)

\* The shares of an amount c, each rounded down, of parts w that together are
\* no more than d: they do not add up to more than c.
LEMMA SharesAtMost ==
    ASSUME NEW S, IsFiniteSet(S), NEW w \in [S -> Nat], NEW g \in [S -> Int],
           NEW c \in Nat, NEW d \in Nat, SumFunction(w) <= d,
           \A x \in S : g[x] = IF d = 0 THEN 0 ELSE (c * w[x]) \div d
    PROVE  /\ g \in [S -> Nat]
           /\ SumFunction(g) \in Nat
           /\ SumFunction(g) <= c
<1>1. ASSUME NEW x \in S PROVE g[x] \in Nat /\ d * g[x] <= c * w[x]
  <2>1. CASE d = 0
    BY <2>1
  <2>2. CASE d # 0
    <3>1. c * w[x] \in Nat /\ d \in Nat \ {0}
      BY <2>2
    <3>2. /\ (c * w[x]) \div d \in Nat
          /\ ((c * w[x]) \div d) * d <= c * w[x]
      BY <3>1, FloorProperty
    <3>3. g[x] = (c * w[x]) \div d
      BY <2>2
    <3> QED
      BY <3>2, <3>3
  <2> QED
    BY <2>1, <2>2
<1>2. g \in [S -> Nat] /\ w \in [S -> Int]
  BY <1>1
<1>3. SumFunction(g) \in Nat /\ SumFunction(w) \in Nat
  BY <1>2, SumPart
<1>4. CASE d = 0
  <2>1. SumFunction(g) = 0
    BY <1>4, SumZero
  <2> QED
    BY <1>2, <2>1
<1>5. CASE d # 0
  <2> DEFINE dg == [x \in S |-> d * g[x]]
             cw == [x \in S |-> c * w[x]]
  <2>1. /\ dg \in [S -> Int] /\ cw \in [S -> Int]
        /\ \A x \in S : dg[x] = d * g[x] /\ cw[x] = c * w[x] /\ dg[x] <= cw[x]
    BY <1>1
  <2> HIDE DEF dg, cw
  <2>2. SumFunction(dg) = d * SumFunction(g) /\ SumFunction(cw) = c * SumFunction(w)
    BY <1>2, <2>1, SumScaled
  <2>3. SumFunction(dg) <= SumFunction(cw)
    BY <2>1, SumMonotone
  <2>4. SumFunction(w) * c <= d * c
    BY <1>3, ProductMonotone
  <2>5. SumFunction(g) * d <= c * d
    BY <1>3, <2>2, <2>3, <2>4
  <2>6. SumFunction(g) <= c
    BY <1>3, <1>5, <2>5, ProductCancels
  <2> QED
    BY <1>2, <1>3, <2>6
<1> QED
  BY <1>4, <1>5

\* And when the parts are all of d, less than one is lost for every part.
LEMMA SharesAtLeast ==
    ASSUME NEW S, IsFiniteSet(S), NEW w \in [S -> Nat], NEW g \in [S -> Int],
           NEW c \in Nat, NEW d \in Nat \ {0}, SumFunction(w) = d,
           \A x \in S : g[x] = (c * w[x]) \div d
    PROVE  c + 1 <= SumFunction(g) + Cardinality(S)
<1> DEFINE m == Cardinality(S)
           low == [x \in S |-> c * w[x] + 1]
           high == [x \in S |-> d * (g[x] + 1)]
           cw == [x \in S |-> c * w[x]]
           next == [x \in S |-> g[x] + 1]
           one == [x \in S |-> 1]
<1>1. m \in Nat
  BY FS_CardinalityType
<1>2. \A x \in S : g[x] \in Nat /\ c * w[x] + 1 <= d * (g[x] + 1)
  <2> TAKE x \in S
  <2>1. c * w[x] \in Nat
    OBVIOUS
  <2>2. /\ (c * w[x]) \div d \in Nat
        /\ c * w[x] < ((c * w[x]) \div d) * d + d
    BY <2>1, FloorProperty
  <2>3. g[x] \in Nat /\ c * w[x] < g[x] * d + d
    BY <2>2
  <2>4. g[x] * d + d = d * (g[x] + 1)
    BY <2>3
  <2> QED
    BY <2>1, <2>3, <2>4
<1>3. /\ low \in [S -> Int] /\ high \in [S -> Int] /\ cw \in [S -> Int]
      /\ next \in [S -> Int] /\ one \in [S -> Int]
      /\ \A x \in S : /\ low[x] = cw[x] + one[x] /\ low[x] <= high[x]
                      /\ cw[x] = c * w[x] /\ one[x] = 1
                      /\ next[x] = g[x] + one[x] /\ high[x] = d * next[x]
  BY <1>2
<1> HIDE DEF low, high, cw, next, one, m
<1>4. SumFunction(one) = m
  <2>1. one \in [S -> Int] /\ 1 \in Int /\ \A x \in S : one[x] = 1
    BY <1>3
  <2>2. SumFunction(one) = 1 * Cardinality(S)
    BY <2>1, SumConstant
  <2> QED
    BY <2>2, <1>1 DEF m
<1>5. SumFunction(low) = SumFunction(cw) + SumFunction(one)
  BY <1>3, SumPlus
<1>6. SumFunction(next) = SumFunction(g) + SumFunction(one)
  BY <1>3, SumPlus
<1>7. w \in [S -> Int] /\ SumFunction(w) \in Int /\ SumFunction(g) \in Int
  BY SumInt
<1>8. SumFunction(cw) = c * d
  <2>1. cw \in [S -> Int] /\ c \in Int /\ \A x \in S : cw[x] = c * w[x]
    BY <1>3
  <2>2. ASSUME NEW v \in [S -> Int], \A x \in S : cw[x] = c * v[x]
        PROVE  SumFunction(cw) = c * SumFunction(v)
    BY <2>1, <2>2, SumScaled
  <2> QED
    BY <1>7, <2>1, <2>2
<1>9. SumFunction(high) = d * SumFunction(next)
  <2>1. /\ next \in [S -> Int] /\ high \in [S -> Int] /\ d \in Int
        /\ \A x \in S : high[x] = d * next[x]
    BY <1>3
  <2> QED
    BY <2>1, SumScaled
<1>10. SumFunction(low) <= SumFunction(high)
  BY <1>3, SumMonotone
<1>11. c * d + m <= d * (SumFunction(g) + m)
  BY <1>1, <1>4, <1>5, <1>6, <1>8, <1>9, <1>10
<1>12. ASSUME SumFunction(g) + m <= c PROVE FALSE
  <2> DEFINE s == SumFunction(g) + m
  <2>1. s \in Nat
    <3>1. g \in [S -> Nat]
      BY <1>2
    <3>2. SumFunction(g) \in Nat
      BY <3>1, SumPart
    <3> QED
      BY <1>1, <3>2
  <2> HIDE DEF s
  <2>2. s * d <= c * d
    BY <1>12, <2>1, ProductMonotone DEF s
  <2>3. m = 0
    BY <1>1, <1>11, <2>1, <2>2 DEF s
  <2>4. S = {}
    BY <2>3, FS_EmptySet DEF m
  <2>5. SumFunction(w) = 0
    BY <1>7, <2>4, SumZero
  <2> QED
    BY <2>5
<1> QED
  BY <1>1, <1>7, <1>12 DEF m

\* Where a function is zero it adds nothing.
LEMMA SumOutside ==
    ASSUME NEW S, IsFiniteSet(S), NEW I \in SUBSET S, NEW f \in [S -> Int],
           \A x \in S : x \notin I => f[x] = 0
    PROVE  SumFunction(f) = SumFunction([x \in I |-> f[x]])
<1> DEFINE fI == [x \in I |-> f[x]]
<1>1. fI \in [I -> Int] /\ \A x \in S : f[x] = IF x \in I THEN fI[x] ELSE 0
  OBVIOUS
<1> HIDE DEF fI
<1>2. SumFunction(f) = SumFunction(fI)
  BY <1>1, SumSupport
<1> QED
  BY <1>2 DEF fI

\* The shares of c in proportion to w.
SharesOf(S, w, c, d) ==
    [x \in S |-> IF d = 0 THEN 0 ELSE (c * w[x]) \div d]

LEMMA SharesOfAll ==
    ASSUME NEW S, IsFiniteSet(S), NEW w \in [S -> Nat],
           NEW c \in Nat, NEW d \in Nat, SumFunction(w) <= d
    PROVE  /\ SumFunction(SharesOf(S, w, c, d)) \in Nat
           /\ SumFunction(SharesOf(S, w, c, d)) <= c
<1> DEFINE g == SharesOf(S, w, c, d)
<1>1. \A x \in S : g[x] = IF d = 0 THEN 0 ELSE (c * w[x]) \div d
  BY DEF SharesOf
<1>2. g \in [S -> Int]
  <2>1. \A x \in S : g[x] \in Int
    <3> TAKE x \in S
    <3>1. c * w[x] \in Nat
      OBVIOUS
    <3>2. d # 0 => (c * w[x]) \div d \in Nat
      BY <3>1, FloorProperty
    <3> QED
      BY <1>1, <3>2
  <2>2. g = [x \in S |-> g[x]]
    BY DEF SharesOf
  <2> QED
    BY <2>1, <2>2
<1> HIDE DEF g
<1>3. SumFunction(g) \in Nat /\ SumFunction(g) <= c
  BY <1>1, <1>2, SharesAtMost
<1> QED
  BY <1>3 DEF g

\* Parts that are zero outside I count for nothing.
LEMMA SharesOfSome ==
    ASSUME NEW S, IsFiniteSet(S), NEW I \in SUBSET S,
           NEW w \in [S -> Nat], NEW c \in Nat, NEW d \in Nat \ {0},
           SumFunction(w) = d, \A x \in S : x \notin I => w[x] = 0
    PROVE  c + 1 <= SumFunction(SharesOf(S, w, c, d)) + Cardinality(I)
<1> DEFINE g == SharesOf(S, w, c, d)
           wI == [x \in I |-> w[x]]
           gI == [x \in I |-> g[x]]
<1>1. IsFiniteSet(I)
  BY FS_Subset
<1>2. \A x \in S : c * w[x] \in Nat /\ g[x] = (c * w[x]) \div d /\ g[x] \in Nat
  <2> TAKE x \in S
  <2>1. c * w[x] \in Nat
    OBVIOUS
  <2>2. (c * w[x]) \div d \in Nat
    BY <2>1, FloorProperty
  <2> QED
    BY <2>1, <2>2 DEF SharesOf
<1>3. \A x \in S : x \notin I => g[x] = 0
  <2> SUFFICES ASSUME NEW x \in S, x \notin I PROVE g[x] = 0
    OBVIOUS
  <2>1. c * w[x] = 0 /\ g[x] = (c * w[x]) \div d
    BY <1>2
  <2>2. 0 \div d = 0
    OBVIOUS
  <2> QED
    BY <2>1, <2>2
<1>4. g \in [S -> Int]
  <2>1. g = [x \in S |-> g[x]]
    BY DEF SharesOf
  <2> QED
    BY <1>2, <2>1
<1>5. /\ wI \in [I -> Nat] /\ wI \in [I -> Int] /\ gI \in [I -> Int]
      /\ w \in [S -> Int]
  BY <1>4
<1>6. \A x \in I : gI[x] = (c * wI[x]) \div d
  BY <1>2
<1> HIDE DEF g
<1>7. SumFunction(w) = SumFunction(wI)
  BY <1>5, SumOutside
<1>8. SumFunction(g) = SumFunction(gI)
  BY <1>3, <1>4, SumOutside
<1> HIDE DEF wI, gI
<1>9. SumFunction(wI) = d
  BY <1>7
<1>10. c + 1 <= SumFunction(gI) + Cardinality(I)
  BY <1>1, <1>5, <1>6, <1>9, SharesAtLeast
<1> QED
  BY <1>8, <1>10 DEF g

---------------------------------------------------------------------------
(* Dividing among the buyers of every registry *)

LEMMA EscrowKeysFinite == IsFiniteSet(EscrowKeys)
BY OwnersAssumption, RegistryIndexAssumption, FS_Product DEF EscrowKeys

\* A grid of buyers and registries is added up registry by registry.
LEMMA GridSum ==
    ASSUME NEW part \in [EscrowKeys -> Int],
           OfRegistry(part) \in [RegistryIndex -> Int]
    PROVE  SumFunction(part) = SumFunction(OfRegistry(part))
<1>1. part \in [Owners \X RegistryIndex -> Int]
  BY DEF EscrowKeys
<1>2. \A i \in RegistryIndex :
        OfRegistry(part)[i] = SumFunction([o \in Owners |-> part[<<o, i>>]])
  BY DEF OfRegistry
<1>3. IsFiniteSet(Owners) /\ IsFiniteSet(RegistryIndex)
  BY OwnersAssumption, RegistryIndexAssumption
<1> QED
  BY <1>1, <1>2, <1>3, SumByColumn

\* What is lost at most in every place of I is lost at most so often.
LEMMA LostInEach ==
    ASSUME NEW S, IsFiniteSet(S), NEW I \in SUBSET S, NEW m \in Nat,
           NEW f \in [S -> Int], NEW g \in [S -> Int],
           \A i \in S : i \notin I => f[i] = 0 /\ g[i] = 0,
           \A i \in I : f[i] + 1 <= g[i] + m
    PROVE  SumFunction(f) + Cardinality(I) <= SumFunction(g) + m * Cardinality(I)
<1> DEFINE fI == [i \in I |-> f[i]]
           gI == [i \in I |-> g[i]]
           one == [i \in I |-> 1]
           ms == [i \in I |-> m]
           low == [i \in I |-> f[i] + 1]
           high == [i \in I |-> g[i] + m]
<1>1. IsFiniteSet(I) /\ Cardinality(I) \in Nat
  BY FS_Subset, FS_CardinalityType
<1>2. /\ fI \in [I -> Int] /\ gI \in [I -> Int] /\ one \in [I -> Int]
      /\ low \in [I -> Int] /\ ms \in [I -> Int] /\ high \in [I -> Int]
  OBVIOUS
<1>3. /\ \A i \in I : low[i] = fI[i] + one[i]
      /\ \A i \in I : high[i] = gI[i] + ms[i]
      /\ \A i \in I : low[i] <= high[i]
      /\ \A i \in I : one[i] = 1
      /\ \A i \in I : ms[i] = m
      /\ \A i \in S : f[i] = IF i \in I THEN fI[i] ELSE 0
      /\ \A i \in S : g[i] = IF i \in I THEN gI[i] ELSE 0
  OBVIOUS
<1> HIDE DEF fI, gI, one, ms, low, high
<1>4. SumFunction(f) = SumFunction(fI) /\ SumFunction(g) = SumFunction(gI)
  <2>1. fI \in [I -> Int] /\ \A i \in S : f[i] = IF i \in I THEN fI[i] ELSE 0
    BY <1>2, <1>3
  <2>2. gI \in [I -> Int] /\ \A i \in S : g[i] = IF i \in I THEN gI[i] ELSE 0
    BY <1>2, <1>3
  <2>3. SumFunction(f) = SumFunction(fI)
    BY <2>1, SumSupport
  <2>4. SumFunction(g) = SumFunction(gI)
    BY <2>2, SumSupport
  <2> QED
    BY <2>3, <2>4
<1>5. SumFunction(low) = SumFunction(fI) + SumFunction(one)
  <2>1. /\ fI \in [I -> Int] /\ one \in [I -> Int] /\ low \in [I -> Int]
        /\ \A i \in I : low[i] = fI[i] + one[i]
    BY <1>2, <1>3
  <2> QED
    BY <1>1, <2>1, SumPlus
<1>6. SumFunction(high) = SumFunction(gI) + SumFunction(ms)
  <2>1. /\ gI \in [I -> Int] /\ ms \in [I -> Int] /\ high \in [I -> Int]
        /\ \A i \in I : high[i] = gI[i] + ms[i]
    BY <1>2, <1>3
  <2> QED
    BY <1>1, <2>1, SumPlus
<1>7. SumFunction(low) <= SumFunction(high)
  BY <1>1, <1>2, <1>3, SumMonotone
<1>8. SumFunction(one) = 1 * Cardinality(I)
  <2>1. one \in [I -> Int] /\ 1 \in Int /\ \A i \in I : one[i] = 1
    BY <1>2, <1>3
  <2> QED
    BY <1>1, <2>1, SumConstant
<1>9. SumFunction(ms) = m * Cardinality(I)
  <2>1. ms \in [I -> Int] /\ m \in Int /\ \A i \in I : ms[i] = m
    BY <1>2, <1>3
  <2> QED
    BY <1>1, <2>1, SumConstant
<1>10. /\ SumFunction(fI) \in Int /\ SumFunction(gI) \in Int
       /\ m * Cardinality(I) \in Int
  BY <1>1, <1>2, SumInt
<1> QED
  BY <1>1, <1>4, <1>5, <1>6, <1>7, <1>8, <1>9, <1>10

\* An amount c[i] for every registry i, divided in proportion to the buyers'
\* parts of sub[i].
Portions(part, sub, c) ==
    [k \in EscrowKeys |-> IF sub[k[2]] = 0 THEN 0
                          ELSE (c[k[2]] * part[k]) \div sub[k[2]]]

LEMMA PortionTypes ==
    ASSUME NEW part \in [EscrowKeys -> Nat], NEW sub \in [RegistryIndex -> Nat],
           NEW c \in [RegistryIndex -> Nat], NEW get, get = Portions(part, sub, c)
    PROVE  /\ get \in [EscrowKeys -> Int]
           /\ \A k \in EscrowKeys :
                get[k] = IF sub[k[2]] = 0 THEN 0
                         ELSE (c[k[2]] * part[k]) \div sub[k[2]]
<1>1. \A k \in EscrowKeys :
        /\ get[k] = IF sub[k[2]] = 0 THEN 0
                    ELSE (c[k[2]] * part[k]) \div sub[k[2]]
        /\ get[k] \in Int
  <2> TAKE k \in EscrowKeys
  <2>1. k[2] \in RegistryIndex
    BY DEF EscrowKeys
  <2>2. sub[k[2]] \in Nat /\ c[k[2]] * part[k] \in Nat
    BY <2>1
  <2>3. sub[k[2]] # 0 => (c[k[2]] * part[k]) \div sub[k[2]] \in Nat
    BY <2>2, FloorProperty
  <2> QED
    BY <2>3 DEF Portions
<1>2. get = [k \in EscrowKeys |-> get[k]]
  BY DEF Portions
<1> QED
  BY <1>1, <1>2

\* The buyers get no more than the amounts.
LEMMA DividedAtMost ==
    ASSUME NEW part \in [EscrowKeys -> Nat], NEW sub \in [RegistryIndex -> Nat],
           \A i \in RegistryIndex : OfRegistry(part)[i] <= sub[i],
           NEW c \in [RegistryIndex -> Nat],
           NEW get, get = Portions(part, sub, c)
    PROVE  /\ get \in [EscrowKeys -> Nat]
           /\ \A i \in RegistryIndex : OfRegistry(get)[i] <= c[i]
           /\ SumFunction(get) = SumFunction(OfRegistry(get))
           /\ OfRegistry(get) \in [RegistryIndex -> Nat]
           /\ SumFunction(get) \in Nat
           /\ SumFunction(get) <= SumFunction(c)
<1>0. /\ get \in [EscrowKeys -> Int]
      /\ \A k \in EscrowKeys :
            get[k] = IF sub[k[2]] = 0 THEN 0
                     ELSE (c[k[2]] * part[k]) \div sub[k[2]]
  BY PortionTypes
<1>1. ASSUME NEW i \in RegistryIndex
      PROVE  /\ \A o \in Owners : get[<<o, i>>] \in Nat
             /\ OfRegistry(get)[i] \in Nat
             /\ OfRegistry(get)[i] <= c[i]
  <2> DEFINE w == [o \in Owners |-> part[<<o, i>>]]
             g == [o \in Owners |-> get[<<o, i>>]]
  <2>1. w \in [Owners -> Nat] /\ SumFunction(w) <= sub[i]
    <3>1. OfRegistry(part)[i] = SumFunction(w) /\ w \in [Owners -> Nat]
      BY ColumnTypes
    <3> QED
      BY <3>1
  <2>2. /\ g \in [Owners -> Int]
        /\ \A o \in Owners :
              g[o] = IF sub[i] = 0 THEN 0 ELSE (c[i] * w[o]) \div sub[i]
    BY <1>0 DEF EscrowKeys
  <2>3. OfRegistry(get)[i] = SumFunction(g) /\ \A o \in Owners : g[o] = get[<<o, i>>]
    BY DEF OfRegistry
  <2>4. c[i] \in Nat /\ sub[i] \in Nat
    OBVIOUS
  <2> HIDE DEF w, g
  <2>5. g \in [Owners -> Nat] /\ SumFunction(g) \in Nat /\ SumFunction(g) <= c[i]
    BY <2>1, <2>2, <2>4, OwnersAssumption, SharesAtMost
  <2> QED
    BY <2>3, <2>5
<1>2. get \in [EscrowKeys -> Nat]
  BY <1>0, <1>1 DEF EscrowKeys
<1>3. OfRegistry(get) \in [RegistryIndex -> Nat]
  BY <1>1 DEF OfRegistry
<1>4. SumFunction(get) = SumFunction(OfRegistry(get))
  <2>1. OfRegistry(get) \in [RegistryIndex -> Int]
    BY <1>3
  <2> QED
    BY <1>0, <2>1, GridSum
<1>5. SumFunction(OfRegistry(get)) <= SumFunction(c)
  <2>1. OfRegistry(get) \in [RegistryIndex -> Int] /\ c \in [RegistryIndex -> Int]
    BY <1>3
  <2> QED
    BY <1>1, <2>1, RegistryIndexAssumption, SumMonotone
<1>6. SumFunction(get) \in Nat
  BY <1>2, EscrowKeysFinite, SumPart
<1> QED
  BY <1>1, <1>2, <1>3, <1>4, <1>5, <1>6

\* And when the parts of the registries in I are all there is, less than one
\* is lost for every buyer of a registry.
LEMMA DividedAtLeast ==
    ASSUME NEW part \in [EscrowKeys -> Nat], NEW sub \in [RegistryIndex -> Nat],
           \A i \in RegistryIndex : OfRegistry(part)[i] = sub[i],
           NEW c \in [RegistryIndex -> Nat],
           NEW get, get = Portions(part, sub, c),
           NEW I \in SUBSET RegistryIndex,
           \A i \in RegistryIndex : sub[i] = 0 => c[i] = 0,
           \A i \in RegistryIndex \ I : sub[i] = 0,
           \E i \in RegistryIndex : sub[i] # 0
    PROVE  SumFunction(c) + Cardinality(I)
                <= SumFunction(get) + Cardinality(Owners) * Cardinality(I)
<1>0. /\ get \in [EscrowKeys -> Int]
      /\ \A k \in EscrowKeys :
            get[k] = IF sub[k[2]] = 0 THEN 0
                     ELSE (c[k[2]] * part[k]) \div sub[k[2]]
  BY PortionTypes
<1> DEFINE m == Cardinality(Owners)
           n == Cardinality(I)
<1>1. IsFiniteSet(I) /\ m \in Nat /\ n \in Nat
  BY OwnersAssumption, RegistryIndexAssumption, FS_Subset, FS_CardinalityType
<1>2. /\ get \in [EscrowKeys -> Nat]
      /\ \A i \in RegistryIndex : OfRegistry(get)[i] <= c[i]
      /\ SumFunction(get) = SumFunction(OfRegistry(get))
      /\ OfRegistry(get) \in [RegistryIndex -> Nat]
  <2>1. \A i \in RegistryIndex : OfRegistry(part)[i] <= sub[i]
    OBVIOUS
  <2> QED
    BY <2>1, DividedAtMost
<1>3. m >= 1
  <2>1. PICK i \in RegistryIndex : sub[i] # 0
    OBVIOUS
  <2>2. ASSUME m = 0 PROVE FALSE
    <3>1. Owners = {}
      BY <2>2, OwnersAssumption, FS_EmptySet
    <3> DEFINE w == [o \in Owners |-> part[<<o, i>>]]
    <3>2. w \in [Owners -> Int] /\ SumFunction(w) = sub[i]
      <4>1. OfRegistry(part)[i] = SumFunction(w) /\ w \in [Owners -> Int]
        BY ColumnTypes
      <4> QED
        BY <4>1
    <3> HIDE DEF w
    <3>3. SumFunction(w) = 0
      BY <3>1, <3>2, OwnersAssumption, SumZero
    <3> QED
      BY <2>1, <3>2, <3>3
  <2> QED
    BY <1>1, <2>2
<1>4. ASSUME NEW i \in RegistryIndex
      PROVE  c[i] + 1 <= OfRegistry(get)[i] + m
  <2> DEFINE w == [o \in Owners |-> part[<<o, i>>]]
             g == [o \in Owners |-> get[<<o, i>>]]
  <2>1. CASE sub[i] = 0
    <3>1. c[i] = 0 /\ OfRegistry(get)[i] \in Nat
      BY <2>1, <1>2
    <3> QED
      BY <3>1, <1>1, <1>3
  <2>2. CASE sub[i] # 0
    <3>1. w \in [Owners -> Nat] /\ SumFunction(w) = sub[i]
      <4>1. OfRegistry(part)[i] = SumFunction(w) /\ w \in [Owners -> Nat]
        BY ColumnTypes
      <4> QED
        BY <4>1
    <3>2. /\ g \in [Owners -> Int]
          /\ \A o \in Owners : g[o] = (c[i] * w[o]) \div sub[i]
      BY <1>0, <2>2 DEF EscrowKeys
    <3>3. OfRegistry(get)[i] = SumFunction(g)
      BY DEF OfRegistry
    <3>4. c[i] \in Nat /\ sub[i] \in Nat \ {0}
      BY <2>2
    <3> HIDE DEF w, g
    <3>5. c[i] + 1 <= SumFunction(g) + Cardinality(Owners)
      BY <3>1, <3>2, <3>4, OwnersAssumption, SharesAtLeast
    <3> QED
      BY <3>3, <3>5
  <2> QED
    BY <2>1, <2>2
<1>5. \A i \in RegistryIndex : i \notin I => c[i] = 0 /\ OfRegistry(get)[i] = 0
  <2> SUFFICES ASSUME NEW i \in RegistryIndex, i \notin I
               PROVE  c[i] = 0 /\ OfRegistry(get)[i] = 0
    OBVIOUS
  <2>1. c[i] = 0 /\ OfRegistry(get)[i] \in Nat /\ OfRegistry(get)[i] <= c[i]
    BY <1>2
  <2> QED
    BY <2>1
<1>6. c \in [RegistryIndex -> Int] /\ OfRegistry(get) \in [RegistryIndex -> Int]
  BY <1>2
<1>7. SumFunction(c) + n <= SumFunction(OfRegistry(get)) + m * n
  <2>1. \A i \in I : c[i] + 1 <= OfRegistry(get)[i] + m
    BY <1>4
  <2> HIDE DEF m
  <2> QED
    BY <1>1, <1>5, <1>6, <2>1, RegistryIndexAssumption, LostInEach
<1> QED
  BY <1>2, <1>7

---------------------------------------------------------------------------
(* The invariant of the vaults *)

\* What the initialize instruction leaves in place, and where deposits can be.
Settings ==
    /\ 0 < presale.presaleMinimumCap
    /\ presale.presaleStartTime <= presale.presaleEndTime
    /\ presale.presaleSupply = SumFunction([i \in RegistryIndex |->
                                    presale.presaleRegistries[i].presaleSupply])
    /\ \A k \in EscrowKeys :
            Exists(k) => k[2] \in InitializedRegistries(presale)
    /\ \A i \in RegistryIndex \ InitializedRegistries(presale) :
            RegistryDeposits[i] = 0 /\ RegistryFees[i] = 0

\* Nobody has been paid and nobody has left: the vaults hold what the presale
\* account says, and the accounts of every level say the same.
Untouched ==
    /\ quoteVault = presale.totalDeposit + presale.totalDepositFee
    /\ baseVault = presale.presaleSupply
    /\ ~presale.hasCreatorWithdrawn
    /\ ~presale.depositFeeCollected
    /\ ~presale.isUnsoldTokenActionPerformed
    /\ \A k \in EscrowKeys : Exists(k) =>
            /\ escrows[k].totalClaimedToken = 0
            /\ ~escrows[k].isRemainingQuoteWithdrawn
    /\ \A i \in RegistryIndex :
            /\ OfRegistry(Deposits)[i] = RegistryDeposits[i]
            /\ OfRegistry(Fees)[i] = RegistryFees[i]

Dust == 2 * Cardinality(Owners \X InitializedRegistries(presale))

\* The promises are covered, with no more than rounding left over.
Covered ==
    /\ quoteVault \in Int /\ baseVault \in Int
    /\ QuotePromised <= quoteVault
    /\ quoteVault <= QuotePromised + Dust
    /\ BasePromised <= baseVault
    /\ Progress = "Failed" => baseVault = BasePromised

VaultInv == Settings /\ (Untouched \/ (Decided /\ Covered))

\* What the presale and its registries are worth, as numbers.
LEMMA PresaleTypes ==
    ASSUME LedgerInv, Settings
    PROVE  /\ presale \in PresaleAccounts
           /\ presale.totalDeposit \in Nat /\ presale.totalDepositFee \in Nat
           /\ presale.presaleMaximumCap \in Nat
           /\ presale.presaleMinimumCap \in Nat \ {0}
           /\ presale.presaleSupply \in Nat
           /\ presale.presaleMode \in PresaleMode
           /\ presale.presaleStartTime \in Nat /\ presale.presaleEndTime \in Nat
           /\ clock \in Nat
           /\ InitializedRegistries(presale) \in SUBSET RegistryIndex
           /\ IsFiniteSet(InitializedRegistries(presale))
           /\ Cardinality(InitializedRegistries(presale)) \in Nat
           /\ RegistryDeposits \in [RegistryIndex -> Nat]
           /\ RegistryFees \in [RegistryIndex -> Nat]
           /\ SumFunction(RegistryDeposits) = presale.totalDeposit
           /\ SumFunction(RegistryFees) = presale.totalDepositFee
           /\ Deposits \in [EscrowKeys -> Nat] /\ Fees \in [EscrowKeys -> Nat]
           /\ \A i \in RegistryIndex :
                /\ OfRegistry(Deposits)[i] <= RegistryDeposits[i]
                /\ OfRegistry(Fees)[i] <= RegistryFees[i]
                /\ presale.presaleRegistries[i].totalDeposit = RegistryDeposits[i]
                /\ presale.presaleRegistries[i].totalDepositFee = RegistryFees[i]
<1>1. presale \in PresaleAccounts /\ clock \in Nat
  BY SumTypes DEF LedgerInv
<1>2. /\ presale.totalDeposit \in Nat /\ presale.totalDepositFee \in Nat
      /\ presale.presaleMaximumCap \in Nat
      /\ presale.presaleMinimumCap \in Nat \ {0}
      /\ presale.presaleSupply \in Nat
      /\ presale.presaleMode \in PresaleMode
      /\ presale.presaleStartTime \in Nat /\ presale.presaleEndTime \in Nat
  BY <1>1 DEF Settings, PresaleAccounts
<1>3. /\ InitializedRegistries(presale) \in SUBSET RegistryIndex
      /\ IsFiniteSet(InitializedRegistries(presale))
      /\ Cardinality(InitializedRegistries(presale)) \in Nat
  <2>1. InitializedRegistries(presale) \in SUBSET RegistryIndex
    BY DEF InitializedRegistries
  <2> QED
    BY <2>1, RegistryIndexAssumption, FS_Subset, FS_CardinalityType
<1>4. /\ RegistryDeposits \in [RegistryIndex -> Nat]
      /\ RegistryFees \in [RegistryIndex -> Nat]
      /\ Deposits \in [EscrowKeys -> Nat] /\ Fees \in [EscrowKeys -> Nat]
  BY SumTypes DEF LedgerInv
<1>5. /\ SumFunction(RegistryDeposits) = presale.totalDeposit
      /\ SumFunction(RegistryFees) = presale.totalDepositFee
      /\ \A i \in RegistryIndex :
            /\ OfRegistry(Deposits)[i] <= RegistryDeposits[i]
            /\ OfRegistry(Fees)[i] <= RegistryFees[i]
  BY DEF LedgerInv, TotalsAddUp, TwoLevels
<1>6. \A i \in RegistryIndex :
        /\ presale.presaleRegistries[i].totalDeposit = RegistryDeposits[i]
        /\ presale.presaleRegistries[i].totalDepositFee = RegistryFees[i]
  BY DEF RegistryDeposits, RegistryFees
<1> QED
  BY <1>1, <1>2, <1>3, <1>4, <1>5, <1>6

---------------------------------------------------------------------------
(* The surplus *)

Surplus == Greatest(presale.totalDeposit - presale.presaleMaximumCap, 0)

\* The parts of the surplus and of the fees on it that fall to the registries.
QuoteShares ==
    SharesOf(RegistryIndex, RegistryDeposits, Surplus, presale.totalDeposit)
FeeShares ==
    [i \in RegistryIndex |-> IF RegistryDeposits[i] = 0 THEN 0
        ELSE (RegistryFees[i] * QuoteShares[i]) \div RegistryDeposits[i]]

Oversubscribable == Progress = "Completed" /\ presale.presaleMode = "Prorata"

\* The registries divide the surplus up to one lamport each, and no registry
\* gives back more than its buyers paid.
LEMMA RegistryShares ==
    ASSUME LedgerInv, Settings, presale.totalDeposit # 0
    PROVE  /\ Surplus \in Nat /\ Surplus <= presale.totalDeposit
           /\ Least(presale.totalDeposit, presale.presaleMaximumCap)
                = presale.totalDeposit - Surplus
           /\ QuoteShares \in [RegistryIndex -> Nat]
           /\ FeeShares \in [RegistryIndex -> Nat]
           /\ \A i \in RegistryIndex :
                /\ QuoteShares[i] = (Surplus * RegistryDeposits[i])
                                        \div presale.totalDeposit
                /\ QuoteShares[i] <= RegistryDeposits[i]
                /\ FeeShares[i] <= RegistryFees[i]
                /\ RegistryDeposits[i] = 0 =>
                        QuoteShares[i] = 0 /\ FeeShares[i] = 0
           /\ SumFunction(QuoteShares) \in Nat
           /\ SumFunction(QuoteShares) <= Surplus
           /\ Surplus + 1 <= SumFunction(QuoteShares)
                                + Cardinality(InitializedRegistries(presale))
           /\ SumFunction(FeeShares) \in Nat
           /\ SumFunction(FeeShares) <= presale.totalDepositFee
<1> DEFINE D == presale.totalDeposit
           cap == presale.presaleMaximumCap
           I == InitializedRegistries(presale)
<1>1. /\ D \in Nat \ {0} /\ cap \in Nat
      /\ I \in SUBSET RegistryIndex
      /\ RegistryDeposits \in [RegistryIndex -> Nat]
      /\ RegistryFees \in [RegistryIndex -> Nat]
      /\ SumFunction(RegistryDeposits) = D
      /\ SumFunction(RegistryFees) = presale.totalDepositFee
  BY PresaleTypes
<1>2. Surplus \in Nat /\ Surplus <= D /\ Least(D, cap) = D - Surplus
  BY <1>1 DEF Surplus, Least, Greatest
<1>3. /\ QuoteShares = [i \in RegistryIndex |-> QuoteShares[i]]
      /\ \A i \in RegistryIndex :
            QuoteShares[i] = (Surplus * RegistryDeposits[i]) \div D
  BY <1>1 DEF QuoteShares, SharesOf
<1>4. ASSUME NEW i \in RegistryIndex
      PROVE  /\ QuoteShares[i] \in Nat /\ QuoteShares[i] <= RegistryDeposits[i]
             /\ FeeShares[i] \in Nat /\ FeeShares[i] <= RegistryFees[i]
             /\ RegistryDeposits[i] = 0 => QuoteShares[i] = 0 /\ FeeShares[i] = 0
  <2> DEFINE r == RegistryDeposits[i]
             f == RegistryFees[i]
             q == QuoteShares[i]
  <2>1. r \in Nat /\ f \in Nat /\ q = (Surplus * r) \div D /\ Surplus * r = r * Surplus
    BY <1>1, <1>2, <1>3
  <2>2. FeeShares[i] = IF r = 0 THEN 0 ELSE (f * q) \div r
    BY DEF FeeShares
  <2> HIDE DEF r, f, q
  <2>3. q \in 0..r
    <3>1. (r * Surplus) \div D \in 0..r
      BY <1>1, <1>2, <2>1, ShareAtMost
    <3> QED
      BY <2>1, <3>1
  <2>4. CASE r = 0
    <3>1. q = 0 /\ FeeShares[i] = 0
      BY <2>2, <2>3, <2>4
    <3> QED
      BY <2>1, <2>3, <2>4, <3>1 DEF q, r, f
  <2>5. CASE r # 0
    <3>1. r \in Nat \ {0} /\ q \in Nat /\ q <= r
      BY <2>1, <2>3, <2>5
    <3>2. (f * q) \div r \in 0..f
      BY <2>1, <3>1, ShareAtMost
    <3>3. FeeShares[i] \in 0..f
      BY <2>2, <2>5, <3>2
    <3> QED
      BY <2>1, <2>3, <2>5, <3>3 DEF q, r, f
  <2> QED
    BY <2>4, <2>5
<1>5. QuoteShares \in [RegistryIndex -> Nat] /\ FeeShares \in [RegistryIndex -> Nat]
  <2>1. FeeShares = [i \in RegistryIndex |-> FeeShares[i]]
    BY DEF FeeShares
  <2> QED
    BY <1>3, <1>4, <2>1
<1>6. SumFunction(QuoteShares) \in Nat /\ SumFunction(QuoteShares) <= Surplus
  <2>1. D \in Nat /\ SumFunction(RegistryDeposits) <= D
    BY <1>1
  <2> HIDE DEF D
  <2> QED
    BY <1>1, <1>2, <2>1, RegistryIndexAssumption, SharesOfAll DEF QuoteShares, D
<1>7. Surplus + 1 <= SumFunction(QuoteShares) + Cardinality(I)
  <2>1. \A i \in RegistryIndex : i \notin I => RegistryDeposits[i] = 0
    BY DEF Settings
  <2> HIDE DEF I, D
  <2>2. Surplus + 1 <= SumFunction(SharesOf(RegistryIndex, RegistryDeposits,
                                            Surplus, D)) + Cardinality(I)
    BY <1>1, <1>2, <2>1, RegistryIndexAssumption, SharesOfSome
  <2> QED
    BY <2>2 DEF QuoteShares, D
<1>8. /\ SumFunction(FeeShares) \in Nat
      /\ SumFunction(FeeShares) <= presale.totalDepositFee
  <2>1. FeeShares \in [RegistryIndex -> Int] /\ RegistryFees \in [RegistryIndex -> Int]
    BY <1>1, <1>5
  <2>2. SumFunction(FeeShares) <= SumFunction(RegistryFees)
    BY <1>4, <2>1, RegistryIndexAssumption, SumMonotone
  <2>3. SumFunction(FeeShares) \in Nat
    BY <1>5, RegistryIndexAssumption, SumPart
  <2> QED
    BY <1>1, <2>2, <2>3
<1> QED
  BY <1>2, <1>3, <1>4, <1>5, <1>6, <1>7, <1>8

---------------------------------------------------------------------------
(* The refunds *)

QuotePart == Portions(Deposits, RegistryDeposits, QuoteShares)
FeePart == Portions(Deposits, RegistryDeposits, FeeShares)

\* What each buyer is owed back when the outcome is decided, and what each is
\* still offered.
FullRefund ==
    [k \in EscrowKeys |->
        IF Progress = "Failed" THEN Deposits[k] + Fees[k]
        ELSE IF Oversubscribable THEN QuotePart[k] + FeePart[k] ELSE 0]
RefundAt ==
    [k \in EscrowKeys |->
        IF Exists(k)
        THEN WithdrawableRemainingQuoteAmount(presale, escrows[k], clock) ELSE 0]

LEMMA CompletedDeposit ==
    ASSUME LedgerInv, Settings, Progress = "Completed"
    PROVE  /\ presale.totalDeposit # 0
           /\ presale.totalDeposit >= presale.presaleMinimumCap
BY PresaleTypes DEF Progress, PresaleProgressState

LEMMA PartTypes ==
    ASSUME LedgerInv, Settings, presale.totalDeposit # 0
    PROVE  /\ QuotePart \in [EscrowKeys -> Nat] /\ FeePart \in [EscrowKeys -> Nat]
           /\ \A k \in EscrowKeys :
                /\ QuotePart[k] = IF RegistryDeposits[k[2]] = 0 THEN 0
                                  ELSE (QuoteShares[k[2]] * Deposits[k])
                                            \div RegistryDeposits[k[2]]
                /\ FeePart[k] = IF RegistryDeposits[k[2]] = 0 THEN 0
                                ELSE (FeeShares[k[2]] * Deposits[k])
                                            \div RegistryDeposits[k[2]]
           /\ SumFunction(QuotePart) \in Nat /\ SumFunction(FeePart) \in Nat
           /\ SumFunction(QuotePart) <= SumFunction(QuoteShares)
           /\ SumFunction(FeePart) <= SumFunction(FeeShares)
<1>1. /\ Deposits \in [EscrowKeys -> Nat]
      /\ RegistryDeposits \in [RegistryIndex -> Nat]
      /\ \A i \in RegistryIndex : OfRegistry(Deposits)[i] <= RegistryDeposits[i]
      /\ QuoteShares \in [RegistryIndex -> Nat] /\ FeeShares \in [RegistryIndex -> Nat]
  BY PresaleTypes, RegistryShares
<1>2. ASSUME NEW c \in [RegistryIndex -> Nat], NEW part,
             part = Portions(Deposits, RegistryDeposits, c)
      PROVE  /\ part \in [EscrowKeys -> Nat]
             /\ SumFunction(part) \in Nat /\ SumFunction(part) <= SumFunction(c)
  BY <1>1, <1>2, DividedAtMost
<1>3. ASSUME NEW k \in EscrowKeys
      PROVE  /\ QuotePart[k] = IF RegistryDeposits[k[2]] = 0 THEN 0
                               ELSE (QuoteShares[k[2]] * Deposits[k])
                                         \div RegistryDeposits[k[2]]
             /\ FeePart[k] = IF RegistryDeposits[k[2]] = 0 THEN 0
                             ELSE (FeeShares[k[2]] * Deposits[k])
                                         \div RegistryDeposits[k[2]]
  BY DEF QuotePart, FeePart, Portions
<1> QED
  BY <1>1, <1>2, <1>3 DEF QuotePart, FeePart

\* An escrow without an account is owed nothing, another what
\* getWithdrawableRemainingQuoteAmount says, once.
LEMMA RefundValue ==
    ASSUME LedgerInv, Settings, Decided
    PROVE  /\ FullRefund \in [EscrowKeys -> Nat]
           /\ \A k \in EscrowKeys : ~Exists(k) => FullRefund[k] = 0
           /\ \A k \in EscrowKeys : Exists(k) =>
                WithdrawableRemainingQuoteAmount(presale, escrows[k], clock) =
                    IF escrows[k].isRemainingQuoteWithdrawn THEN 0
                    ELSE FullRefund[k]
<1>1. Deposits \in [EscrowKeys -> Nat] /\ Fees \in [EscrowKeys -> Nat]
  BY PresaleTypes
<1>2. CASE Progress = "Failed"
  <2>1. FullRefund = [k \in EscrowKeys |-> Deposits[k] + Fees[k]]
    BY <1>2 DEF FullRefund
  <2>2. ASSUME NEW k \in EscrowKeys, Exists(k)
        PROVE  WithdrawableRemainingQuoteAmount(presale, escrows[k], clock) =
                    IF escrows[k].isRemainingQuoteWithdrawn THEN 0
                    ELSE Deposits[k] + Fees[k]
    <3>1. escrows[k].totalDeposit = Deposits[k] /\ escrows[k].totalDepositFee = Fees[k]
      BY <2>2, EscrowHolds
    <3> QED
      BY <1>2, <3>1 DEF WithdrawableRemainingQuoteAmount, Progress,
         CanWithdrawRemainingQuoteAmount, CanWithdrawRemainingQuote
  <2>3. \A k \in EscrowKeys : ~Exists(k) => Deposits[k] = 0 /\ Fees[k] = 0
    BY DEF Deposits, Fees
  <2> QED
    BY <1>1, <2>1, <2>2, <2>3
<1>3. CASE Progress = "Completed" /\ presale.presaleMode # "Prorata"
  <2>1. FullRefund = [k \in EscrowKeys |-> 0]
    BY <1>3 DEF FullRefund, Oversubscribable
  <2>2. ASSUME NEW k \in EscrowKeys
        PROVE  WithdrawableRemainingQuoteAmount(presale, escrows[k], clock) = 0
    BY <1>3 DEF WithdrawableRemainingQuoteAmount, Progress,
       CanWithdrawRemainingQuoteAmount, CanWithdrawRemainingQuote
  <2> QED
    BY <2>1, <2>2
<1>4. CASE Progress = "Completed" /\ presale.presaleMode = "Prorata"
  <2>1. FullRefund = [k \in EscrowKeys |-> QuotePart[k] + FeePart[k]]
    BY <1>4 DEF FullRefund, Oversubscribable
  <2>2. presale.totalDeposit # 0
    BY <1>4, CompletedDeposit
  <2>3. /\ QuotePart \in [EscrowKeys -> Nat] /\ FeePart \in [EscrowKeys -> Nat]
        /\ \A k \in EscrowKeys :
             /\ QuotePart[k] = IF RegistryDeposits[k[2]] = 0 THEN 0
                               ELSE (QuoteShares[k[2]] * Deposits[k])
                                         \div RegistryDeposits[k[2]]
             /\ FeePart[k] = IF RegistryDeposits[k[2]] = 0 THEN 0
                             ELSE (FeeShares[k[2]] * Deposits[k])
                                         \div RegistryDeposits[k[2]]
    BY <2>2, PartTypes
  <2>4. ASSUME NEW k \in EscrowKeys, ~Exists(k)
        PROVE  QuotePart[k] + FeePart[k] = 0
    <3>1. /\ Deposits[k] = 0 /\ k[2] \in RegistryIndex
      BY <2>4 DEF Deposits, EscrowKeys
    <3>2. /\ RegistryDeposits[k[2]] \in Nat
          /\ QuoteShares[k[2]] \in Nat /\ FeeShares[k[2]] \in Nat
      BY <2>2, <3>1, PresaleTypes, RegistryShares
    <3>3. QuoteShares[k[2]] * Deposits[k] = 0 /\ FeeShares[k[2]] * Deposits[k] = 0
      BY <3>1, <3>2
    <3>4. RegistryDeposits[k[2]] # 0 => 0 \div RegistryDeposits[k[2]] = 0
      BY <3>2
    <3> QED
      BY <2>3, <3>3, <3>4
  <2>5. ASSUME NEW k \in EscrowKeys, Exists(k)
        PROVE  WithdrawableRemainingQuoteAmount(presale, escrows[k], clock) =
                    IF escrows[k].isRemainingQuoteWithdrawn THEN 0
                    ELSE QuotePart[k] + FeePart[k]
    <3> DEFINE e == escrows[k]
               i == k[2]
    <3>1. e.totalDeposit = Deposits[k] /\ i \in RegistryIndex
      BY <2>5, EscrowHolds, EscrowTypes DEF LedgerInv
    <3>2. /\ EscrowRegistry(presale, e).totalDeposit = RegistryDeposits[i]
          /\ EscrowRegistry(presale, e).totalDepositFee = RegistryFees[i]
      BY <2>5, <3>1, DepositPart, PresaleTypes
    <3>3. WithdrawableRemainingQuoteAmount(presale, e, clock) =
            IF e.isRemainingQuoteWithdrawn \/ RegistryDeposits[i] = 0 THEN 0
            ELSE EscrowSurplusShare(presale, e).quote
                    + EscrowSurplusShare(presale, e).fee
      BY <1>4, <3>2 DEF WithdrawableRemainingQuoteAmount, Progress,
         CanWithdrawRemainingQuoteAmount, CanWithdrawRemainingQuote
    <3>4. QuoteShares[i] = (Surplus * RegistryDeposits[i]) \div presale.totalDeposit
      BY <2>2, <3>1, RegistryShares
    <3>5. ASSUME RegistryDeposits[i] # 0
          PROVE  /\ EscrowSurplusShare(presale, e).quote = QuotePart[k]
                 /\ EscrowSurplusShare(presale, e).fee = FeePart[k]
      <4>1. FeeShares[i] = (RegistryFees[i] * QuoteShares[i]) \div RegistryDeposits[i]
        BY <3>1, <3>5 DEF FeeShares
      <4>2. /\ EscrowSurplusShare(presale, e).quote =
                    (QuoteShares[i] * Deposits[k]) \div RegistryDeposits[i]
            /\ EscrowSurplusShare(presale, e).fee =
                    (FeeShares[i] * Deposits[k]) \div RegistryDeposits[i]
        BY <3>1, <3>2, <3>4, <4>1, Zenon DEF EscrowSurplusShare, Surplus
      <4> QED
        BY <2>3, <3>5, <4>2
    <3>6. RegistryDeposits[i] = 0 => QuotePart[k] + FeePart[k] = 0
      BY <2>3
    <3> HIDE DEF e, i
    <3>7. WithdrawableRemainingQuoteAmount(presale, e, clock) =
                    IF e.isRemainingQuoteWithdrawn THEN 0
                    ELSE QuotePart[k] + FeePart[k]
      BY <3>3, <3>5, <3>6
    <3> QED
      BY <3>7 DEF e
  <2> QED
    BY <2>1, <2>3, <2>4, <2>5
<1> QED
  BY <1>2, <1>3, <1>4 DEF Decided

\* The offers, buyer by buyer.
LEMMA RefundsGrid ==
    ASSUME LedgerInv, Settings, Decided
    PROVE  /\ RefundAt \in [EscrowKeys -> Nat]
           /\ RefundsOffered = SumFunction(RefundAt)
           /\ SumFunction(RefundAt) \in Nat
           /\ \A k \in EscrowKeys : RefundAt[k] <= FullRefund[k]
           /\ SumFunction(RefundAt) <= SumFunction(FullRefund)
           /\ Untouched => RefundAt = FullRefund
<1> DEFINE f == [k \in OpenEscrows |->
                    WithdrawableRemainingQuoteAmount(presale, escrows[k], clock)]
<1>1. ASSUME NEW k \in EscrowKeys
      PROVE  /\ RefundAt[k] = IF Exists(k)
                              THEN IF escrows[k].isRemainingQuoteWithdrawn THEN 0
                                   ELSE FullRefund[k]
                              ELSE 0
             /\ FullRefund[k] \in Nat
             /\ ~Exists(k) => FullRefund[k] = 0
  BY RefundValue DEF RefundAt
<1>2. /\ RefundAt = [k \in EscrowKeys |-> RefundAt[k]]
      /\ FullRefund = [k \in EscrowKeys |-> FullRefund[k]]
  BY DEF RefundAt, FullRefund
<1>3. RefundAt \in [EscrowKeys -> Nat] /\ FullRefund \in [EscrowKeys -> Nat]
  BY <1>1, <1>2
<1>4. /\ OpenEscrows \in SUBSET EscrowKeys
      /\ \A k \in EscrowKeys : RefundAt[k] = IF k \in OpenEscrows THEN f[k] ELSE 0
  BY DEF OpenEscrows, RefundAt
<1>5. f \in [OpenEscrows -> Int]
  <2>1. \A k \in OpenEscrows : f[k] \in Int
    BY <1>3, <1>4
  <2> QED
    BY <2>1
<1>6. RefundsOffered = SumFunction(f)
  BY DEF RefundsOffered
<1> HIDE DEF f
<1>7. RefundsOffered = SumFunction(RefundAt)
  <2>1. RefundAt \in [EscrowKeys -> Int]
    BY <1>3
  <2> QED
    BY <1>4, <1>5, <1>6, <2>1, EscrowKeysFinite, SumSupport
<1>8. SumFunction(RefundAt) \in Nat
  BY <1>3, EscrowKeysFinite, SumPart
<1>9. \A k \in EscrowKeys : RefundAt[k] <= FullRefund[k]
  BY <1>1
<1>10. SumFunction(RefundAt) <= SumFunction(FullRefund)
  <2>1. RefundAt \in [EscrowKeys -> Int] /\ FullRefund \in [EscrowKeys -> Int]
    BY <1>3
  <2> QED
    BY <1>9, <2>1, EscrowKeysFinite, SumMonotone
<1>11. Untouched => RefundAt = FullRefund
  <2> SUFFICES ASSUME Untouched, NEW k \in EscrowKeys
               PROVE  RefundAt[k] = FullRefund[k]
    BY <1>2, Zenon
  <2>1. Exists(k) => ~escrows[k].isRemainingQuoteWithdrawn
    BY DEF Untouched
  <2> QED
    BY <1>1, <2>1
<1> QED
  BY <1>3, <1>7, <1>8, <1>9, <1>10, <1>11

\* All that the deposits and fees of the buyers add up to.
LEMMA DepositsGrid ==
    ASSUME LedgerInv, Settings
    PROVE  /\ SumFunction(Deposits) \in Nat /\ SumFunction(Fees) \in Nat
           /\ SumFunction(Deposits) <= presale.totalDeposit
           /\ SumFunction(Fees) <= presale.totalDepositFee
           /\ Untouched => /\ SumFunction(Deposits) = presale.totalDeposit
                           /\ SumFunction(Fees) = presale.totalDepositFee
<1>1. ASSUME NEW part \in [EscrowKeys -> Nat],
             NEW sub \in [RegistryIndex -> Nat],
             \A i \in RegistryIndex : OfRegistry(part)[i] <= sub[i]
      PROVE  /\ SumFunction(part) \in Nat
             /\ SumFunction(part) <= SumFunction(sub)
             /\ (\A i \in RegistryIndex : OfRegistry(part)[i] = sub[i])
                    => SumFunction(part) = SumFunction(sub)
  <2>1. OfRegistry(part) \in [RegistryIndex -> Int]
    <3>1. ASSUME NEW i \in RegistryIndex PROVE OfRegistry(part)[i] \in Int
      <4>1. OfRegistry(part)[i] \in Nat
        BY ColumnTypes
      <4> QED
        BY <4>1
    <3>2. OfRegistry(part) = [i \in RegistryIndex |-> OfRegistry(part)[i]]
      BY DEF OfRegistry
    <3> QED
      BY <3>1, <3>2
  <2>2. /\ part \in [EscrowKeys -> Int] /\ sub \in [RegistryIndex -> Int]
    OBVIOUS
  <2>3. SumFunction(part) = SumFunction(OfRegistry(part))
    BY <2>1, <2>2, GridSum
  <2>4. SumFunction(OfRegistry(part)) <= SumFunction(sub)
    BY <1>1, <2>1, <2>2, RegistryIndexAssumption, SumMonotone
  <2>5. SumFunction(part) \in Nat
    BY EscrowKeysFinite, SumPart
  <2>6. (\A i \in RegistryIndex : OfRegistry(part)[i] = sub[i])
            => OfRegistry(part) = sub
    BY <2>1, <2>2
  <2> QED
    BY <2>3, <2>4, <2>5, <2>6
<1>2. /\ SumFunction(Deposits) \in Nat
      /\ SumFunction(Deposits) <= SumFunction(RegistryDeposits)
      /\ (\A i \in RegistryIndex : OfRegistry(Deposits)[i] = RegistryDeposits[i])
            => SumFunction(Deposits) = SumFunction(RegistryDeposits)
  BY <1>1, PresaleTypes
<1>3. /\ SumFunction(Fees) \in Nat
      /\ SumFunction(Fees) <= SumFunction(RegistryFees)
      /\ (\A i \in RegistryIndex : OfRegistry(Fees)[i] = RegistryFees[i])
            => SumFunction(Fees) = SumFunction(RegistryFees)
  BY <1>1, PresaleTypes
<1>4. /\ SumFunction(RegistryDeposits) = presale.totalDeposit
      /\ SumFunction(RegistryFees) = presale.totalDepositFee
  BY PresaleTypes
<1> QED
  BY <1>2, <1>3, <1>4 DEF Untouched

\* The buyers of a presale of n registries are owed back no more than the
\* surplus and the fees on it, and no less than that up to the rounding.
LEMMA FullRefundSum ==
    ASSUME LedgerInv, Settings, Decided
    PROVE  /\ Progress = "Failed" =>
                /\ SumFunction(FullRefund)
                        <= presale.totalDeposit + presale.totalDepositFee
                /\ Untouched => SumFunction(FullRefund)
                        = presale.totalDeposit + presale.totalDepositFee
           /\ Oversubscribable =>
                /\ SumFunction(FullRefund)
                        <= SumFunction(QuoteShares) + SumFunction(FeeShares)
                /\ Untouched => Surplus + SumFunction(FeeShares)
                        <= SumFunction(FullRefund) + Dust
           /\ Progress = "Completed" /\ ~Oversubscribable =>
                SumFunction(FullRefund) = 0
<1> DEFINE I == InitializedRegistries(presale)
           m == Cardinality(Owners)
           n == Cardinality(I)
<1>1. FullRefund \in [EscrowKeys -> Nat] /\ FullRefund \in [EscrowKeys -> Int]
  BY RefundValue
<1>2. ASSUME Progress = "Failed"
      PROVE  SumFunction(FullRefund) = SumFunction(Deposits) + SumFunction(Fees)
  <2>1. /\ Deposits \in [EscrowKeys -> Int] /\ Fees \in [EscrowKeys -> Int]
        /\ \A k \in EscrowKeys : FullRefund[k] = Deposits[k] + Fees[k]
    BY <1>2, PresaleTypes DEF FullRefund
  <2> QED
    BY <1>1, <2>1, EscrowKeysFinite, SumPlus
<1>3. ASSUME Oversubscribable
      PROVE  /\ SumFunction(FullRefund) = SumFunction(QuotePart) + SumFunction(FeePart)
             /\ presale.totalDeposit # 0
  <2>1. presale.totalDeposit # 0 /\ Progress # "Failed"
    BY <1>3, CompletedDeposit DEF Oversubscribable
  <2>2. /\ QuotePart \in [EscrowKeys -> Int] /\ FeePart \in [EscrowKeys -> Int]
    BY <2>1, PartTypes
  <2>3. \A k \in EscrowKeys : FullRefund[k] = QuotePart[k] + FeePart[k]
    BY <1>3, <2>1 DEF FullRefund
  <2>4. SumFunction(FullRefund) = SumFunction(QuotePart) + SumFunction(FeePart)
    BY <1>1, <2>2, <2>3, EscrowKeysFinite, SumPlus
  <2> QED
    BY <2>1, <2>4
<1>4. ASSUME Oversubscribable, Untouched
      PROVE  Surplus + SumFunction(FeeShares) <= SumFunction(FullRefund) + Dust
  <2>1. presale.totalDeposit # 0
    BY <1>3, <1>4
  <2>2. /\ Deposits \in [EscrowKeys -> Nat]
        /\ RegistryDeposits \in [RegistryIndex -> Nat]
        /\ \A i \in RegistryIndex : OfRegistry(Deposits)[i] = RegistryDeposits[i]
        /\ QuoteShares \in [RegistryIndex -> Nat] /\ FeeShares \in [RegistryIndex -> Nat]
        /\ I \in SUBSET RegistryIndex /\ n \in Nat /\ m \in Nat
    BY <1>4, <2>1, PresaleTypes, RegistryShares, OwnersAssumption, FS_CardinalityType
       DEF Untouched
  <2>3. /\ \A i \in RegistryIndex \ I : RegistryDeposits[i] = 0
        /\ \E i \in RegistryIndex : RegistryDeposits[i] # 0
    <3>1. ASSUME \A i \in RegistryIndex : RegistryDeposits[i] = 0 PROVE FALSE
      <4>1. RegistryDeposits \in [RegistryIndex -> Int]
        BY <2>2
      <4>2. SumFunction(RegistryDeposits) = 0
        BY <3>1, <4>1, RegistryIndexAssumption, SumZero
      <4> QED
        BY <2>1, <4>2, PresaleTypes
    <3> QED
      BY <3>1 DEF Settings
  <2> HIDE DEF I
  <2>4. ASSUME NEW c \in [RegistryIndex -> Nat], NEW part,
               part = Portions(Deposits, RegistryDeposits, c),
               \A i \in RegistryIndex : RegistryDeposits[i] = 0 => c[i] = 0
        PROVE  SumFunction(c) + n <= SumFunction(part) + m * n
    BY <2>2, <2>3, <2>4, DividedAtLeast
  <2>5. \A i \in RegistryIndex : RegistryDeposits[i] = 0 =>
            QuoteShares[i] = 0 /\ FeeShares[i] = 0
    BY <2>1, RegistryShares
  <2>6. SumFunction(QuoteShares) + n <= SumFunction(QuotePart) + m * n
    BY <2>2, <2>4, <2>5 DEF QuotePart
  <2>7. SumFunction(FeeShares) + n <= SumFunction(FeePart) + m * n
    BY <2>2, <2>4, <2>5 DEF FeePart
  <2>8. Surplus + 1 <= SumFunction(QuoteShares) + n
    BY <2>1, RegistryShares DEF I
  <2>9. Dust = 2 * (m * n)
    <3>1. IsFiniteSet(I)
      BY PresaleTypes DEF I
    <3>2. Cardinality(Owners \X I) = m * n
      BY <3>1, OwnersAssumption, FS_Product
    <3> QED
      BY <3>2 DEF Dust, I
  <2>10. /\ SumFunction(QuoteShares) \in Nat /\ SumFunction(FeeShares) \in Nat
         /\ SumFunction(QuotePart) \in Nat /\ SumFunction(FeePart) \in Nat
         /\ Surplus \in Nat /\ m * n \in Nat
    BY <2>1, <2>2, RegistryShares, PartTypes
  <2> HIDE DEF m, n
  <2> QED
    BY <1>3, <1>4, <2>2, <2>6, <2>7, <2>8, <2>9, <2>10
<1>5. ASSUME Oversubscribable
      PROVE  SumFunction(FullRefund) <= SumFunction(QuoteShares) + SumFunction(FeeShares)
  <2>1. /\ SumFunction(QuotePart) \in Nat /\ SumFunction(FeePart) \in Nat
        /\ SumFunction(QuotePart) <= SumFunction(QuoteShares)
        /\ SumFunction(FeePart) <= SumFunction(FeeShares)
        /\ SumFunction(QuoteShares) \in Nat /\ SumFunction(FeeShares) \in Nat
    BY <1>3, <1>5, PartTypes, RegistryShares
  <2> QED
    BY <1>3, <1>5, <2>1
<1>6. ASSUME Progress = "Completed", ~Oversubscribable
      PROVE  SumFunction(FullRefund) = 0
  <2>1. \A k \in EscrowKeys : FullRefund[k] = 0
    BY <1>6 DEF FullRefund
  <2> QED
    BY <1>1, <2>1, EscrowKeysFinite, SumZero
<1>7. ASSUME Progress = "Failed"
      PROVE  /\ SumFunction(FullRefund)
                    <= presale.totalDeposit + presale.totalDepositFee
             /\ Untouched => SumFunction(FullRefund)
                    = presale.totalDeposit + presale.totalDepositFee
  BY <1>2, <1>7, DepositsGrid, PresaleTypes
<1> QED
  BY <1>4, <1>5, <1>6, <1>7

---------------------------------------------------------------------------
(* The promises in quote tokens *)

ProceedsDue ==
    IF Progress = "Completed" /\ ~presale.hasCreatorWithdrawn
    THEN Least(presale.totalDeposit, presale.presaleMaximumCap) ELSE 0
FeesDue ==
    IF Progress = "Completed" /\ ~presale.depositFeeCollected
    THEN CollectableFee(presale) ELSE 0

\* The creator collects the fees that are not given back.
LEMMA CollectableValue ==
    ASSUME LedgerInv, Settings, Progress = "Completed"
    PROVE  /\ CollectableFee(presale) \in Nat
           /\ CollectableFee(presale) <= presale.totalDepositFee
           /\ CollectableFee(presale) = presale.totalDepositFee
                - IF Oversubscribable THEN SumFunction(FeeShares) ELSE 0
<1> DEFINE I == InitializedRegistries(presale)
           back == [i \in I |-> RegistryRefundFee(presale, i)]
<1>1. /\ presale.totalDeposit # 0 /\ presale.totalDepositFee \in Nat
      /\ I \in SUBSET RegistryIndex /\ IsFiniteSet(I)
  BY CompletedDeposit, PresaleTypes
<1>2. CollectableFee(presale) = presale.totalDepositFee - SumFunction(back)
  BY DEF CollectableFee
<1>3. CASE ~Oversubscribable
  <2>1. back \in [I -> Int] /\ \A i \in I : back[i] = 0
    BY <1>3 DEF RegistryRefundFee, Oversubscribable
  <2> HIDE DEF back, I
  <2>2. SumFunction(back) = 0
    BY <1>1, <2>1, SumZero
  <2> QED
    BY <1>1, <1>2, <1>3, <2>2
<1>4. CASE Oversubscribable
  <2>1. \A i \in I : RegistryRefundFee(presale, i) = FeeShares[i]
    <3> TAKE i \in I
    <3>1. /\ i \in RegistryIndex
          /\ presale.presaleRegistries[i].totalDeposit = RegistryDeposits[i]
          /\ presale.presaleRegistries[i].totalDepositFee = RegistryFees[i]
      BY <1>1, PresaleTypes
    <3>2. QuoteShares[i] = (Surplus * RegistryDeposits[i]) \div presale.totalDeposit
      BY <1>1, <3>1, RegistryShares
    <3>3. FeeShares[i] = IF RegistryDeposits[i] = 0 THEN 0
            ELSE (RegistryFees[i] * QuoteShares[i]) \div RegistryDeposits[i]
      BY <3>1 DEF FeeShares
    <3>4. RegistryRefundFee(presale, i) = IF RegistryDeposits[i] = 0 THEN 0
            ELSE (RegistryFees[i] * QuoteShares[i]) \div RegistryDeposits[i]
      BY <1>4, <3>1, <3>2 DEF RegistryRefundFee, Surplus, Oversubscribable
    <3> QED
      BY <3>3, <3>4
  <2>2. back = [i \in I |-> FeeShares[i]]
    BY <2>1
  <2>3. /\ FeeShares \in [RegistryIndex -> Int]
        /\ \A i \in RegistryIndex : i \notin I => FeeShares[i] = 0
        /\ SumFunction(FeeShares) \in Nat
        /\ SumFunction(FeeShares) <= presale.totalDepositFee
    BY <1>1, RegistryShares DEF Settings
  <2> HIDE DEF back, I
  <2>4. /\ back \in [I -> Int] /\ FeeShares \in [RegistryIndex -> Int]
        /\ \A i \in RegistryIndex : FeeShares[i] = IF i \in I THEN back[i] ELSE 0
    BY <1>1, <2>2, <2>3
  <2>5. SumFunction(FeeShares) = SumFunction(back)
    <3>1. I \in SUBSET RegistryIndex /\ IsFiniteSet(RegistryIndex)
      BY <1>1, RegistryIndexAssumption
    <3> HIDE DEF Settings, LedgerInv
    <3> QED
      BY <3>1, <2>4, SumSupport
  <2> QED
    BY <1>1, <1>2, <1>4, <2>3, <2>5
<1> QED
  BY <1>3, <1>4

LEMMA QuotePromise ==
    ASSUME LedgerInv, Settings, Decided
    PROVE  /\ QuotePromised = ProceedsDue + FeesDue + SumFunction(RefundAt)
           /\ ProceedsDue \in Nat /\ FeesDue \in Nat
           /\ SumFunction(RefundAt) \in Nat
<1>1. ProceedsDue = IF CanCreatorWithdraw(presale, clock)
                        /\ ~CreatorWithdrawableToken(presale, clock).isBaseToken
                    THEN CreatorWithdrawableToken(presale, clock).amount ELSE 0
  BY DEF ProceedsDue, CanCreatorWithdraw, CreatorWithdrawableToken, Decided, Progress
<1>2. RefundsOffered = SumFunction(RefundAt) /\ SumFunction(RefundAt) \in Nat
  BY RefundsGrid
<1>3. ProceedsDue \in Nat
  BY PresaleTypes DEF ProceedsDue, Least
<1>4. FeesDue \in Nat
  BY CollectableValue DEF FeesDue
<1> QED
  BY <1>1, <1>2, <1>3, <1>4 DEF QuotePromised, FeesDue

---------------------------------------------------------------------------
(* The promises in base tokens *)

SoldBy == [i \in RegistryIndex |-> RegistryTotalBaseTokenSold(presale, i)]
ClaimPart == Portions(Deposits, RegistryDeposits, SoldBy)
ClaimAt ==
    [k \in EscrowKeys |->
        IF Exists(k)
        THEN TotalClaimableRawAmount(presale, escrows[k])
                - escrows[k].totalClaimedToken
        ELSE 0]

\* No mode sells more than there is.
LEMMA SoldSum ==
    ASSUME LedgerInv, Settings
    PROVE  /\ SoldBy \in [RegistryIndex -> Nat]
           /\ SumFunction(SoldBy) \in Nat
           /\ TotalBaseTokenSold(presale) = SumFunction(SoldBy)
           /\ UnsoldBaseToken(presale) = presale.presaleSupply - SumFunction(SoldBy)
           /\ UnsoldBaseToken(presale) \in Nat
<1> DEFINE I == InitializedRegistries(presale)
           supply == [i \in RegistryIndex |-> presale.presaleRegistries[i].presaleSupply]
<1>1. /\ presale \in PresaleAccounts /\ presale.presaleSupply \in Nat
      /\ I \in SUBSET RegistryIndex
      /\ presale.presaleSupply = SumFunction(supply)
  BY PresaleTypes DEF Settings
<1>2. ASSUME NEW i \in RegistryIndex
      PROVE  /\ SoldBy[i] \in Nat /\ supply[i] \in Nat /\ SoldBy[i] <= supply[i]
             /\ RegistryDeposits[i] = 0 => SoldBy[i] = 0
  <2> DEFINE r == presale.presaleRegistries[i]
  <2>1. /\ r.totalDeposit \in Nat /\ r.presaleSupply \in Nat
        /\ r.totalDeposit = RegistryDeposits[i]
        /\ presale.qPrice \in Nat \ {0}
        /\ SoldBy[i] = RegistryTotalBaseTokenSold(presale, i)
    BY <1>1, PresaleTypes DEF PresaleAccounts, PresaleRegistry, SoldBy
  <2>2. RegistryTotalBaseTokenSold(presale, i) =
            IF presale.presaleMode = "FixedPrice"
            THEN FixedPriceBaseTokenSold(r.totalDeposit, r.presaleSupply, presale.qPrice)
            ELSE BaseTokenSoldByDynamicPrice(r.totalDeposit, r.presaleSupply)
    BY DEF RegistryTotalBaseTokenSold
  <2> HIDE DEF r
  <2>3. FixedPriceBaseTokenSold(r.totalDeposit, r.presaleSupply, presale.qPrice)
            \in 0..r.presaleSupply
    BY <2>1, FixedPriceSold
  <2>4. BaseTokenSoldByDynamicPrice(r.totalDeposit, r.presaleSupply)
            \in 0..r.presaleSupply
    BY <2>1 DEF BaseTokenSoldByDynamicPrice
  <2>5. RegistryDeposits[i] = 0 => RegistryTotalBaseTokenSold(presale, i) = 0
    BY <2>1, <2>2 DEF FixedPriceBaseTokenSold, BaseTokenSoldByDynamicPrice
  <2> QED
    BY <2>1, <2>2, <2>3, <2>4, <2>5 DEF r
<1>3. SoldBy \in [RegistryIndex -> Nat] /\ supply \in [RegistryIndex -> Int]
  <2>1. SoldBy = [i \in RegistryIndex |-> SoldBy[i]]
    BY DEF SoldBy
  <2> QED
    BY <1>2, <2>1
<1>4. SoldBy \in [RegistryIndex -> Int]
  BY <1>3
<1>5. SumFunction(SoldBy) \in Nat
  BY <1>3, RegistryIndexAssumption, SumPart
<1>6. TotalBaseTokenSold(presale) = SumFunction(SoldBy)
  <2>1. \A i \in RegistryIndex : i \notin I => SoldBy[i] = 0
    BY <1>2 DEF Settings
  <2> DEFINE sold == [i \in I |-> RegistryTotalBaseTokenSold(presale, i)]
  <2>2. \A i \in I : sold[i] = SoldBy[i]
    BY <1>1 DEF SoldBy
  <2>3. TotalBaseTokenSold(presale) = SumFunction(sold)
    BY DEF TotalBaseTokenSold
  <2> HIDE DEF sold, I
  <2>4. /\ sold \in [I -> Int]
        /\ \A i \in RegistryIndex : SoldBy[i] = IF i \in I THEN sold[i] ELSE 0
    <3>1. sold = [i \in I |-> sold[i]]
      BY DEF sold
    <3> QED
      BY <1>1, <1>4, <2>1, <2>2, <3>1
  <2>5. SumFunction(SoldBy) = SumFunction(sold)
    <3>1. I \in SUBSET RegistryIndex /\ IsFiniteSet(RegistryIndex)
      BY <1>1, RegistryIndexAssumption
    <3> QED
      BY <1>4, <2>4, <3>1, SumSupport
  <2> QED
    BY <2>3, <2>5
<1>7. SumFunction(SoldBy) <= SumFunction(supply)
  <2>1. \A i \in RegistryIndex : SoldBy[i] <= supply[i]
    BY <1>2
  <2> HIDE DEF supply
  <2> QED
    BY <1>3, <1>4, <2>1, RegistryIndexAssumption, SumMonotone
<1> HIDE DEF supply
<1>8. UnsoldBaseToken(presale) = presale.presaleSupply - SumFunction(SoldBy)
  BY <1>6 DEF UnsoldBaseToken
<1> QED
  BY <1>1, <1>3, <1>5, <1>6, <1>7, <1>8

\* The claims, buyer by buyer, fit into what the registries have sold.
LEMMA ClaimsGrid ==
    ASSUME LedgerInv, Settings, ClaimsWithinEntitlement
    PROVE  /\ ClaimAt \in [EscrowKeys -> Nat]
           /\ SumFunction([k \in OpenEscrows |->
                              TotalClaimableRawAmount(presale, escrows[k])
                                - escrows[k].totalClaimedToken])
                = SumFunction(ClaimAt)
           /\ SumFunction(ClaimAt) \in Nat
           /\ SumFunction(ClaimAt) <= SumFunction(SoldBy)
<1> DEFINE f == [k \in OpenEscrows |-> TotalClaimableRawAmount(presale, escrows[k])
                                            - escrows[k].totalClaimedToken]
<1>1. /\ Deposits \in [EscrowKeys -> Nat]
      /\ RegistryDeposits \in [RegistryIndex -> Nat]
      /\ \A i \in RegistryIndex : OfRegistry(Deposits)[i] <= RegistryDeposits[i]
      /\ SoldBy \in [RegistryIndex -> Nat]
  BY PresaleTypes, SoldSum
<1>2. /\ ClaimPart \in [EscrowKeys -> Nat]
      /\ SumFunction(ClaimPart) <= SumFunction(SoldBy)
  BY <1>1, DividedAtMost DEF ClaimPart
<1>3. ASSUME NEW k \in EscrowKeys, Exists(k)
      PROVE  TotalClaimableRawAmount(presale, escrows[k]) = ClaimPart[k]
  <2> DEFINE e == escrows[k]
             i == k[2]
             d == Deposits[k]
             R == RegistryDeposits[i]
  <2>1. /\ e.totalDeposit = d /\ i \in RegistryIndex /\ e.registryIndex = i
        /\ d \in Nat /\ R \in Nat /\ SoldBy[i] \in Nat
        /\ SoldBy[i] = RegistryTotalBaseTokenSold(presale, i)
    BY <1>1, <1>3, EscrowHolds, EscrowTypes DEF LedgerInv, SoldBy
  <2>2. /\ EscrowRegistry(presale, e).totalDeposit = R /\ d <= R
    BY <1>3, <2>1, DepositPart, PresaleTypes
  <2>3. TotalClaimableRawAmount(presale, e) =
            IF d = 0 THEN 0 ELSE (d * SoldBy[i]) \div R
    BY <2>1, <2>2 DEF TotalClaimableRawAmount
  <2>4. ClaimPart[k] = IF R = 0 THEN 0 ELSE (SoldBy[i] * d) \div R
    BY DEF ClaimPart, Portions
  <2> HIDE DEF e, i, d, R
  <2>5. d * SoldBy[i] = SoldBy[i] * d /\ SoldBy[i] * 0 = 0
    BY <2>1
  <2>6. R # 0 => 0 \div R = 0
    BY <2>1
  <2>7. TotalClaimableRawAmount(presale, e) = ClaimPart[k]
    <3>1. CASE d = 0
      BY <2>3, <2>4, <2>5, <2>6, <3>1
    <3>2. CASE d # 0
      <4>1. R # 0
        BY <2>1, <2>2, <3>2
      <4> QED
        BY <2>3, <2>4, <2>5, <3>2, <4>1
    <3> QED
      BY <3>1, <3>2
  <2> QED
    BY <2>7 DEF e
<1>4. ASSUME NEW k \in EscrowKeys
      PROVE  ClaimAt[k] \in Nat /\ ClaimAt[k] <= ClaimPart[k]
  <2>1. CASE ~Exists(k)
    BY <1>2, <2>1 DEF ClaimAt
  <2>2. CASE Exists(k)
    <3>1. escrows[k].totalClaimedToken \in Nat
      BY <2>2, EscrowHolds DEF EscrowAccount
    <3>2. escrows[k].totalClaimedToken > 0 =>
            escrows[k].totalClaimedToken <= ClaimPart[k]
      BY <1>3, <2>2 DEF ClaimsWithinEntitlement, OpenEscrows
    <3>3. ClaimAt[k] = ClaimPart[k] - escrows[k].totalClaimedToken
      BY <1>3, <2>2 DEF ClaimAt
    <3>4. ClaimPart[k] \in Nat
      BY <1>2
    <3> QED
      BY <3>1, <3>2, <3>3, <3>4
  <2> QED
    BY <2>1, <2>2
<1>5. ClaimAt \in [EscrowKeys -> Nat]
  <2>1. ClaimAt = [k \in EscrowKeys |-> ClaimAt[k]]
    BY DEF ClaimAt
  <2> QED
    BY <1>4, <2>1
<1>6. SumFunction(ClaimAt) \in Nat
  BY <1>5, EscrowKeysFinite, SumPart
<1>7. SumFunction(ClaimAt) <= SumFunction(ClaimPart)
  <2>1. ClaimAt \in [EscrowKeys -> Int] /\ ClaimPart \in [EscrowKeys -> Int]
    BY <1>2, <1>5
  <2> QED
    BY <1>4, <2>1, EscrowKeysFinite, SumMonotone
<1>8. SumFunction(f) = SumFunction(ClaimAt)
  <2>1. /\ OpenEscrows \in SUBSET EscrowKeys
        /\ \A k \in EscrowKeys : ClaimAt[k] = IF k \in OpenEscrows THEN f[k] ELSE 0
    BY DEF OpenEscrows, ClaimAt
  <2>2. f \in [OpenEscrows -> Int]
    <3>1. \A k \in OpenEscrows : f[k] \in Int
      BY <1>5, <2>1
    <3> QED
      BY <3>1
  <2> HIDE DEF f
  <2>3. ClaimAt \in [EscrowKeys -> Int]
    BY <1>5
  <2> QED
    BY <2>1, <2>2, <2>3, EscrowKeysFinite, SumSupport
<1>9. SumFunction(ClaimPart) \in Nat /\ SumFunction(SoldBy) \in Nat
  BY <1>2, EscrowKeysFinite, SumPart, SoldSum
<1> QED
  BY <1>2, <1>5, <1>6, <1>7, <1>8, <1>9

UnsoldDue ==
    IF presale.isUnsoldTokenActionPerformed THEN 0 ELSE UnsoldBaseToken(presale)

LEMMA BasePromise ==
    ASSUME LedgerInv, Settings, ClaimsWithinEntitlement, Decided
    PROVE  /\ Progress = "Completed" =>
                BasePromised = SumFunction(ClaimAt) + UnsoldDue
           /\ Progress = "Failed" =>
                BasePromised = IF presale.hasCreatorWithdrawn THEN 0
                               ELSE presale.presaleSupply
           /\ BasePromised \in Nat
           /\ SumFunction(ClaimAt) \in Nat /\ UnsoldDue \in Nat
           /\ UnsoldDue <= presale.presaleSupply - SumFunction(SoldBy)
<1>1. /\ SumFunction(ClaimAt) \in Nat
      /\ UnsoldBaseToken(presale) \in Nat
      /\ UnsoldBaseToken(presale) = presale.presaleSupply - SumFunction(SoldBy)
      /\ presale.presaleSupply \in Nat /\ SumFunction(SoldBy) \in Nat
  BY ClaimsGrid, SoldSum, PresaleTypes
<1>2. UnsoldDue \in Nat /\ UnsoldDue <= presale.presaleSupply - SumFunction(SoldBy)
  BY <1>1 DEF UnsoldDue
<1>3. CASE Progress = "Completed"
  <2>1. Greatest(UnsoldBaseToken(presale), 0) = UnsoldBaseToken(presale)
    BY <1>1 DEF Greatest
  <2>2. BasePromised = SumFunction(ClaimAt) + UnsoldDue
    BY <1>3, <2>1, ClaimsGrid DEF BasePromised, UnsoldDue
  <2> QED
    BY <1>1, <1>2, <1>3, <2>2
<1>4. CASE Progress = "Failed"
  <2>1. BasePromised = IF presale.hasCreatorWithdrawn THEN 0 ELSE presale.presaleSupply
    BY <1>4 DEF BasePromised, CanCreatorWithdraw, Progress
  <2> QED
    BY <1>1, <1>2, <1>4, <2>1
<1> QED
  BY <1>3, <1>4 DEF Decided

---------------------------------------------------------------------------
(* Until the outcome is decided *)

\* A fresh presale has nothing to pay.
LEMMA VaultInit == Init => VaultInv
<1> SUFFICES ASSUME Init PROVE Settings /\ Untouched
  BY DEF VaultInv
<1>1. presale \in PresaleAccounts /\ IsFresh(presale)
  BY PresalesAssumption DEF Init
<1>2. LedgerInv
  BY InitOK
<1>3. \A k \in EscrowKeys : ~Exists(k)
  BY DEF Init, Exists
<1>4. \A i \in RegistryIndex : RegistryDeposits[i] = 0 /\ RegistryFees[i] = 0
  BY <1>1 DEF IsFresh, RegistryDeposits, RegistryFees
<1>5. Settings
  BY <1>1, <1>3, <1>4 DEF Settings, IsFresh, PresaleAccounts, InitializedRegistries
<1>6. \A i \in RegistryIndex :
        /\ OfRegistry(Deposits)[i] = RegistryDeposits[i]
        /\ OfRegistry(Fees)[i] = RegistryFees[i]
  <2>1. /\ Deposits \in [EscrowKeys -> Nat] /\ Fees \in [EscrowKeys -> Nat]
        /\ \A i \in RegistryIndex : /\ OfRegistry(Deposits)[i] <= RegistryDeposits[i]
                                    /\ OfRegistry(Fees)[i] <= RegistryFees[i]
    BY <1>2, <1>5, PresaleTypes
  <2> TAKE i \in RegistryIndex
  <2>2. OfRegistry(Deposits)[i] \in Nat /\ OfRegistry(Fees)[i] \in Nat
    BY <2>1, ColumnTypes
  <2> QED
    BY <1>4, <2>1, <2>2
<1>7. Untouched
  BY <1>1, <1>3, <1>6 DEF Untouched, Init, IsFresh
<1> QED
  BY <1>5, <1>7

\* The vaults and the accounts stay in step when an amount and its fee are
\* moved into or out of an escrow.
LEMMA MovedStaysUntouched ==
    ASSUME LedgerInv, TypeOK', Settings, Untouched,
           presale.presaleStartTime <= clock,
           NEW k \in EscrowKeys, k[2] \in InitializedRegistries(presale),
           NEW e, Holds(k, e), e.totalClaimedToken = 0,
           ~e.isRemainingQuoteWithdrawn,
           NEW a \in Int, NEW f \in Int, Moved(k, e, a), Charged(k, e, f),
           quoteVault' = quoteVault + a + f, UNCHANGED baseVault
    PROVE  Settings' /\ Untouched'
<1>1. /\ SameSettings(presale', presale)
      /\ presale' \in PresaleAccounts /\ presale \in PresaleAccounts
      /\ presale'.presaleEndTime \in {presale.presaleEndTime, clock}
      /\ k[2] \in RegistryIndex
  BY SumTypes, EscrowTypes DEF Charged, TypeOK, LedgerInv
<1>2. InitializedRegistries(presale') = InitializedRegistries(presale)
  BY <1>1 DEF InitializedRegistries, SameSettings
<1>3. \A i \in RegistryIndex :
        /\ RegistryDeposits'[i] = IF i = k[2] THEN RegistryDeposits[i] + a
                                  ELSE RegistryDeposits[i]
        /\ RegistryFees'[i] = IF i = k[2] THEN RegistryFees[i] + f
                              ELSE RegistryFees[i]
  BY DEF RegistryDeposits, RegistryFees, Moved, Charged
<1>4. Settings'
  <2>1. \A b \in EscrowKeys :
            Exists(b)' => b[2] \in InitializedRegistries(presale')
    BY <1>2 DEF Settings, Moved
  <2>2. \A i \in RegistryIndex \ InitializedRegistries(presale') :
            RegistryDeposits'[i] = 0 /\ RegistryFees'[i] = 0
    BY <1>2, <1>3 DEF Settings
  <2>3. [i \in RegistryIndex |-> presale'.presaleRegistries[i].presaleSupply]
            = [i \in RegistryIndex |-> presale.presaleRegistries[i].presaleSupply]
    BY <1>1 DEF SameSettings
  <2>4. presale'.presaleSupply = SumFunction(
            [i \in RegistryIndex |-> presale'.presaleRegistries[i].presaleSupply])
    BY <1>1, <2>3 DEF SameSettings, Settings
  <2>5. /\ 0 < presale'.presaleMinimumCap
        /\ presale'.presaleStartTime <= presale'.presaleEndTime
    BY <1>1 DEF SameSettings, Settings
  <2> QED
    BY <2>1, <2>2, <2>4, <2>5 DEF Settings
<1>5. \A b \in EscrowKeys :
        /\ Deposits'[b] = IF b = k THEN Deposits[b] + a ELSE Deposits[b]
        /\ Fees'[b] = IF b = k THEN Fees[b] + f ELSE Fees[b]
  BY DEF Deposits, Fees, Moved, Charged, Holds
<1>6. /\ Deposits \in [EscrowKeys -> Nat] /\ Fees \in [EscrowKeys -> Nat]
      /\ Deposits' \in [EscrowKeys -> Nat] /\ Fees' \in [EscrowKeys -> Nat]
  <2>1. \A b \in EscrowKeys : Exists(b)' => escrows'[b] \in EscrowAccount
    BY Zenon DEF TypeOK, Exists
  <2>2. Deposits' \in [EscrowKeys -> Nat] /\ Fees' \in [EscrowKeys -> Nat]
    BY <2>1 DEF Deposits, Fees, EscrowAccount
  <2> QED
    BY <2>2, PresaleTypes
<1>7. \A i \in RegistryIndex :
        /\ OfRegistry(Deposits')[i] = IF i = k[2] THEN OfRegistry(Deposits)[i] + a
                                      ELSE OfRegistry(Deposits)[i]
        /\ OfRegistry(Fees')[i] = IF i = k[2] THEN OfRegistry(Fees)[i] + f
                                  ELSE OfRegistry(Fees)[i]
  <2>1. ASSUME NEW part \in [EscrowKeys -> Nat], NEW new \in [EscrowKeys -> Nat],
               NEW d \in Int,
               \A b \in EscrowKeys : new[b] = IF b = k THEN part[b] + d ELSE part[b],
               NEW i \in RegistryIndex
        PROVE  OfRegistry(new)[i] = IF i = k[2] THEN OfRegistry(part)[i] + d
                                    ELSE OfRegistry(part)[i]
    BY <2>1, ColumnChange
  <2>2. \A b \in EscrowKeys :
            Deposits'[b] = IF b = k THEN Deposits[b] + a ELSE Deposits[b]
    BY <1>5
  <2>3. \A b \in EscrowKeys : Fees'[b] = IF b = k THEN Fees[b] + f ELSE Fees[b]
    BY <1>5
  <2> TAKE i \in RegistryIndex
  <2>4. OfRegistry(Deposits')[i] = IF i = k[2] THEN OfRegistry(Deposits)[i] + a
                                   ELSE OfRegistry(Deposits)[i]
    BY <1>6, <2>1, <2>2
  <2>5. OfRegistry(Fees')[i] = IF i = k[2] THEN OfRegistry(Fees)[i] + f
                               ELSE OfRegistry(Fees)[i]
    <3>1. Fees \in [EscrowKeys -> Nat] /\ Fees' \in [EscrowKeys -> Nat]
      BY <1>6
    <3> HIDE DEF LedgerInv, Settings, Untouched, Moved, Charged
    <3> QED
      BY <2>1, <2>3, <3>1
  <2> QED
    BY <2>4, <2>5
<1>8. \A i \in RegistryIndex :
        /\ OfRegistry(Deposits')[i] = RegistryDeposits'[i]
        /\ OfRegistry(Fees')[i] = RegistryFees'[i]
  BY <1>3, <1>7 DEF Untouched
<1>9. quoteVault' = presale'.totalDeposit + presale'.totalDepositFee
  BY PresaleTypes DEF Untouched, Moved, Charged
<1>10. \A b \in EscrowKeys : Exists(b)' =>
            /\ escrows'[b].totalClaimedToken = 0
            /\ ~escrows'[b].isRemainingQuoteWithdrawn
  BY DEF Untouched, Moved, Charged
<1>11. Untouched'
  BY <1>1, <1>8, <1>9, <1>10 DEF Untouched, SameSettings
<1> QED
  BY <1>4, <1>11

\* A buyer deposits into an open escrow or opens one, or takes a deposit back.
LEMMA DepositStaysUntouched ==
    ASSUME LedgerInv, Settings, Untouched,
           NEW k \in EscrowKeys, NEW amount \in Amounts,
           Deposit(k, amount) \/ OpenAndDeposit(k, amount)
    PROVE  Settings' /\ Untouched'
<1>1. PICK e : /\ Holds(k, e) /\ DepositInto(k, e, amount)
               /\ IF Exists(k) THEN e = escrows[k]
                  ELSE /\ CanOpen(k) /\ e.totalClaimedToken = 0
                       /\ ~e.isRemainingQuoteWithdrawn
  BY AmountsNat, DepositTarget
<1>2. PICK a \in Nat \ {0}, f \in Nat :
          /\ TypeOK' /\ Moved(k, e, a) /\ Charged(k, e, f)
          /\ quoteVault' = quoteVault + a + f
  BY <1>1, AmountsNat, DepositMoves
<1>3. /\ k[2] \in InitializedRegistries(presale)
      /\ e.totalClaimedToken = 0 /\ ~e.isRemainingQuoteWithdrawn
  BY <1>1 DEF Settings, Untouched, CanOpen
<1>4. Progress = "Ongoing" /\ UNCHANGED baseVault
  BY <1>1 DEF DepositInto, CanDeposit, Progress
<1>5. presale.presaleStartTime <= clock
  BY <1>4, PresaleTypes DEF Progress, PresaleProgressState
<1>6. a \in Int /\ f \in Int
  BY <1>2
<1> QED
  BY <1>1, <1>2, <1>3, <1>4, <1>5, <1>6, MovedStaysUntouched

LEMMA WithdrawStaysUntouched ==
    ASSUME LedgerInv, Settings, Untouched,
           NEW k \in EscrowKeys, NEW amount \in Amounts, Withdraw(k, amount)
    PROVE  Settings' /\ Untouched'
<1> DEFINE e == escrows[k]
<1>1. PICK a \in Nat \ {0}, f \in Nat :
          /\ TypeOK' /\ Moved(k, e, -a) /\ Charged(k, e, -f)
          /\ quoteVault' = quoteVault - a - f
  BY AmountsNat, WithdrawMoves
<1>2. /\ Exists(k) /\ Progress = "Ongoing" /\ UNCHANGED baseVault
  BY DEF Withdraw, CanWithdraw, Progress
<1>3. Holds(k, e)
  BY <1>2, EscrowHolds
<1>4. /\ k[2] \in InitializedRegistries(presale)
      /\ e.totalClaimedToken = 0 /\ ~e.isRemainingQuoteWithdrawn
  BY <1>2 DEF Settings, Untouched
<1>5. presale.presaleStartTime <= clock
  BY <1>2, PresaleTypes DEF Progress, PresaleProgressState
<1> HIDE DEF e
<1>6. /\ -a \in Int /\ -f \in Int
      /\ quoteVault' = quoteVault + (-a) + (-f)
  <2>1. quoteVault \in Int
    BY PresaleTypes DEF Untouched
  <2> QED
    BY <1>1, <2>1
<1> QED
  BY <1>1, <1>2, <1>3, <1>4, <1>5, <1>6, MovedStaysUntouched

\* Opening and closing escrows that hold nothing, and time, change nothing.
LEMMA OtherStaysUntouched ==
    ASSUME LedgerInv, Settings, Untouched, ~Decided,
           UNCHANGED <<presale, quoteVault, baseVault>>,
           \A b \in EscrowKeys : Exists(b)' =>
                /\ b[2] \in InitializedRegistries(presale)
                /\ escrows'[b].totalClaimedToken = 0
                /\ ~escrows'[b].isRemainingQuoteWithdrawn,
           \A b \in EscrowKeys : Deposits'[b] = Deposits[b] /\ Fees'[b] = Fees[b]
    PROVE  Settings' /\ Untouched'
<1>1. /\ RegistryDeposits' = RegistryDeposits /\ RegistryFees' = RegistryFees
      /\ presale' = presale
  BY DEF RegistryDeposits, RegistryFees
<1>2. Deposits' = Deposits /\ Fees' = Fees
  <2>1. /\ Deposits' = [b \in EscrowKeys |-> Deposits'[b]]
        /\ Fees' = [b \in EscrowKeys |-> Fees'[b]]
        /\ Deposits = [b \in EscrowKeys |-> Deposits[b]]
        /\ Fees = [b \in EscrowKeys |-> Fees[b]]
    BY DEF Deposits, Fees
  <2> QED
    BY <2>1
<1>3. Settings'
  BY <1>1 DEF Settings
<1>4. Untouched'
  <2>1. \A i \in RegistryIndex :
            /\ OfRegistry(Deposits')[i] = RegistryDeposits'[i]
            /\ OfRegistry(Fees')[i] = RegistryFees'[i]
    BY <1>1, <1>2 DEF Untouched
  <2> QED
    BY <1>1, <2>1 DEF Untouched
<1> QED
  BY <1>3, <1>4

LEMMA OpenStaysUntouched ==
    ASSUME LedgerInv, Settings, Untouched, ~Decided,
           NEW k \in EscrowKeys, InitializeEscrow(k)
    PROVE  Settings' /\ Untouched'
<1>1. PICK e \in NewEscrows(k) :
        /\ CanOpen(k) /\ escrows' = [escrows EXCEPT ![k] = e]
        /\ UNCHANGED <<presale, quoteVault, baseVault>>
  BY DEF InitializeEscrow
<1>2. Holds(k, e) /\ e.totalClaimedToken = 0 /\ ~e.isRemainingQuoteWithdrawn
  BY <1>1, NewEscrowHolds DEF CanOpen
<1>3. /\ k[2] \in InitializedRegistries(presale) /\ ~Exists(k)
      /\ e.totalDeposit = Deposits[k] /\ e.totalDepositFee = Fees[k]
  BY <1>1, <1>2 DEF CanOpen, Holds
<1>4. /\ escrows'[k] = e
      /\ \A b \in EscrowKeys : b # k => escrows'[b] = escrows[b]
  BY <1>1, KeptPresale
<1>5. e # NoEscrow
  BY <1>2, NoEscrowAssumption DEF Holds
<1>6. \A b \in EscrowKeys : Exists(b)' =>
            /\ b[2] \in InitializedRegistries(presale)
            /\ escrows'[b].totalClaimedToken = 0
            /\ ~escrows'[b].isRemainingQuoteWithdrawn
  BY <1>2, <1>3, <1>4 DEF Exists, Settings, Untouched
<1>7. \A b \in EscrowKeys : Deposits'[b] = Deposits[b] /\ Fees'[b] = Fees[b]
  BY <1>3, <1>4, <1>5 DEF Exists, Deposits, Fees
<1> QED
  BY <1>1, <1>6, <1>7, OtherStaysUntouched

LEMMA CloseStaysUntouched ==
    ASSUME LedgerInv, Settings, Untouched, ~Decided,
           NEW k \in EscrowKeys, CloseEscrow(k)
    PROVE  Settings' /\ Untouched'
<1>1. /\ Exists(k) /\ CanClose(presale, escrows[k], clock)
      /\ escrows' = [escrows EXCEPT ![k] = NoEscrow]
      /\ UNCHANGED <<presale, quoteVault, baseVault>>
  BY DEF CloseEscrow
<1>2. escrows[k].totalDeposit = 0 /\ escrows[k].totalDepositFee = 0
  BY <1>1 DEF CanClose, Decided, Progress
<1>3. /\ escrows'[k] = NoEscrow
      /\ \A b \in EscrowKeys : b # k => escrows'[b] = escrows[b]
  BY <1>1, KeptPresale
<1>4. \A b \in EscrowKeys : Exists(b)' =>
            /\ b[2] \in InitializedRegistries(presale)
            /\ escrows'[b].totalClaimedToken = 0
            /\ ~escrows'[b].isRemainingQuoteWithdrawn
  BY <1>3 DEF Exists, Settings, Untouched
<1>5. \A b \in EscrowKeys : Deposits'[b] = Deposits[b] /\ Fees'[b] = Fees[b]
  BY <1>2, <1>3 DEF Exists, Deposits, Fees
<1> QED
  BY <1>1, <1>4, <1>5, OtherStaysUntouched

\* Nothing is paid out before the outcome is decided.
LEMMA UndecidedStep ==
    ASSUME LedgerInv, Settings, Untouched, ~Decided, Next
    PROVE  Settings' /\ Untouched'
<1>1. ~CreatorWithdraw /\ ~PerformUnsoldBaseTokenAction
  BY DEF CreatorWithdraw, CanCreatorWithdraw, PerformUnsoldBaseTokenAction,
         Decided, Progress
<1>2. ~CreatorCollectFee
  <2> SUFFICES ASSUME CanCreatorCollectFee(presale, clock) PROVE FALSE
    BY DEF CreatorCollectFee
  <2>1. Progress # "Failed" /\ clock > presale.presaleEndTime
    BY DEF CanCreatorCollectFee, Progress
  <2>2. Progress \in {"Completed", "Failed"}
    BY <2>1, PresaleTypes DEF Settings, Progress, PresaleProgressState
  <2> QED
    BY <2>2 DEF Decided
<1>3. \A k \in EscrowKeys : ~Claim(k) /\ ~WithdrawRemainingQuote(k)
  BY DEF Claim, WithdrawRemainingQuote, CanWithdrawRemainingQuoteAmount,
         CanWithdrawRemainingQuote, Decided, Progress
<1>4. CASE Tick
  <2>1. UNCHANGED <<presale, escrows, quoteVault, baseVault>>
    BY <1>4 DEF Tick
  <2>2. \A b \in EscrowKeys : Deposits'[b] = Deposits[b] /\ Fees'[b] = Fees[b]
    BY <2>1 DEF Exists, Deposits, Fees
  <2>3. \A b \in EscrowKeys : Exists(b)' =>
            /\ b[2] \in InitializedRegistries(presale)
            /\ escrows'[b].totalClaimedToken = 0
            /\ ~escrows'[b].isRemainingQuoteWithdrawn
    BY <2>1 DEF Exists, Settings, Untouched
  <2> QED
    BY <2>1, <2>2, <2>3, OtherStaysUntouched
<1> QED
  BY <1>1, <1>2, <1>3, <1>4, DepositStaysUntouched, WithdrawStaysUntouched,
     OpenStaysUntouched, CloseStaysUntouched DEF Next

---------------------------------------------------------------------------
(* When the outcome has just been decided *)

LEMMA DustNat ==
    ASSUME LedgerInv, Settings
    PROVE  Dust \in Nat
<1>1. IsFiniteSet(Owners \X InitializedRegistries(presale))
  BY PresaleTypes, OwnersAssumption, FS_Product
<1>2. Cardinality(Owners \X InitializedRegistries(presale)) \in Nat
  BY <1>1, FS_CardinalityType
<1> QED
  BY <1>2 DEF Dust

\* Vaults that nobody has touched cover the promises, with less than a lamport
\* left for every division.
LEMMA Settle ==
    ASSUME LedgerInv, Settings, ClaimsWithinEntitlement, Untouched, Decided
    PROVE  Covered
<1> DEFINE refunds == SumFunction(RefundAt)
<1>1. /\ QuotePromised = ProceedsDue + FeesDue + refunds
      /\ ProceedsDue \in Nat /\ FeesDue \in Nat /\ refunds \in Nat
  BY QuotePromise
<1>2. refunds = SumFunction(FullRefund)
  BY RefundsGrid
<1>3. /\ presale.totalDeposit \in Nat /\ presale.totalDepositFee \in Nat
      /\ presale.presaleSupply \in Nat /\ Dust \in Nat
      /\ quoteVault = presale.totalDeposit + presale.totalDepositFee
      /\ baseVault = presale.presaleSupply
  BY PresaleTypes, DustNat DEF Untouched
<1> HIDE DEF refunds
<1>4. QuotePromised <= quoteVault /\ quoteVault <= QuotePromised + Dust
  <2>1. CASE Progress = "Failed"
    <3>1. ProceedsDue = 0 /\ FeesDue = 0
      BY <2>1 DEF ProceedsDue, FeesDue
    <3>2. refunds = presale.totalDeposit + presale.totalDepositFee
      BY <1>2, <2>1, FullRefundSum
    <3> QED
      BY <1>1, <1>3, <3>1, <3>2
  <2>2. CASE Progress = "Completed"
    <3>1. /\ ProceedsDue = Least(presale.totalDeposit, presale.presaleMaximumCap)
          /\ FeesDue = CollectableFee(presale)
      BY <2>2 DEF ProceedsDue, FeesDue, Untouched
    <3>2. CASE Oversubscribable
      <4>1. /\ Surplus \in Nat /\ SumFunction(QuoteShares) \in Nat
            /\ SumFunction(QuoteShares) <= Surplus
            /\ SumFunction(FeeShares) \in Nat
            /\ Least(presale.totalDeposit, presale.presaleMaximumCap)
                    = presale.totalDeposit - Surplus
        BY <2>2, CompletedDeposit, RegistryShares
      <4>2. CollectableFee(presale)
                = presale.totalDepositFee - SumFunction(FeeShares)
        BY <2>2, <3>2, CollectableValue
      <4>3. /\ refunds <= SumFunction(QuoteShares) + SumFunction(FeeShares)
            /\ Surplus + SumFunction(FeeShares) <= refunds + Dust
        BY <1>2, <3>2, FullRefundSum
      <4> QED
        BY <1>1, <1>3, <3>1, <4>1, <4>2, <4>3
    <3>3. CASE ~Oversubscribable
      <4>1. CollectableFee(presale) = presale.totalDepositFee
        <5>1. CollectableFee(presale) = presale.totalDepositFee - 0
          BY <2>2, <3>3, CollectableValue
        <5> QED
          BY <1>3, <5>1
      <4>2. Least(presale.totalDeposit, presale.presaleMaximumCap)
                = presale.totalDeposit
        BY <2>2, <3>3 DEF Oversubscribable, LedgerInv, CapNeverExceeded, Least
      <4>3. refunds = 0
        BY <1>2, <2>2, <3>3, FullRefundSum
      <4> QED
        BY <1>1, <1>3, <3>1, <4>1, <4>2, <4>3
    <3> QED
      BY <3>2, <3>3
  <2> QED
    BY <2>1, <2>2 DEF Decided
<1>5. BasePromised <= baseVault /\ (Progress = "Failed" => baseVault = BasePromised)
  <2>1. CASE Progress = "Failed"
    <3>1. BasePromised = presale.presaleSupply
      BY <2>1, BasePromise DEF Untouched
    <3> QED
      BY <1>3, <3>1
  <2>2. CASE Progress = "Completed"
    <3>1. /\ BasePromised = SumFunction(ClaimAt) + UnsoldDue
          /\ SumFunction(ClaimAt) \in Nat /\ UnsoldDue \in Nat
          /\ UnsoldDue <= presale.presaleSupply - SumFunction(SoldBy)
      BY <2>2, BasePromise
    <3>2. SumFunction(SoldBy) \in Nat /\ SumFunction(ClaimAt) <= SumFunction(SoldBy)
      BY SoldSum, ClaimsGrid
    <3> QED
      BY <1>3, <2>2, <3>1, <3>2
  <2> QED
    BY <2>1, <2>2 DEF Decided
<1> QED
  BY <1>3, <1>4, <1>5 DEF Covered

---------------------------------------------------------------------------
(* When the outcome is decided *)

\* The fields on which the promises depend, the flags of what is paid aside.
SameBooks(p, q) ==
    /\ SameTerms(p, q)
    /\ p.presaleMaximumCap = q.presaleMaximumCap
    /\ p.presaleSupply = q.presaleSupply
    /\ p.totalDepositFee = q.totalDepositFee

LEMMA BooksKept ==
    ASSUME LedgerInv, Decided, Next
    PROVE  SameBooks(presale', presale)
<1>1. SameTerms(presale', presale) /\ presale \in PresaleAccounts
  BY TermsKept, SumTypes DEF LedgerInv
<1>2. ASSUME NEW k \in EscrowKeys, NEW amount \in Amounts
      PROVE  ~Deposit(k, amount) /\ ~OpenAndDeposit(k, amount) /\ ~Withdraw(k, amount)
  BY DEF Deposit, OpenAndDeposit, DepositInto, Withdraw, CanDeposit,
         CanWithdraw, Progress, Decided
<1>3. presale' \in {presale,
                    [presale EXCEPT !.hasCreatorWithdrawn = TRUE],
                    [presale EXCEPT !.depositFeeCollected = TRUE],
                    [presale EXCEPT !.isUnsoldTokenActionPerformed = TRUE]}
  BY <1>2 DEF Next, Tick, InitializeEscrow, Claim, WithdrawRemainingQuote,
     CloseEscrow, CreatorWithdraw, CreatorCollectFee, PerformUnsoldBaseTokenAction
<1>4. /\ presale'.presaleMaximumCap = presale.presaleMaximumCap
      /\ presale'.presaleSupply = presale.presaleSupply
      /\ presale'.totalDepositFee = presale.totalDepositFee
  BY <1>1, <1>3 DEF PresaleAccounts
<1> QED
  BY <1>1, <1>4 DEF SameBooks

\* What an escrow is offered depends on them and on what it holds.
LEMMA RefundKept ==
    ASSUME NEW p, NEW q, NEW e, NEW f, NEW t, NEW u, SameBooks(p, q),
           PresaleProgressState(p, t) = PresaleProgressState(q, u),
           e.registryIndex = f.registryIndex, e.totalDeposit = f.totalDeposit,
           e.totalDepositFee = f.totalDepositFee,
           e.isRemainingQuoteWithdrawn = f.isRemainingQuoteWithdrawn
    PROVE  WithdrawableRemainingQuoteAmount(p, e, t)
                = WithdrawableRemainingQuoteAmount(q, f, u)
BY DEF SameBooks, SameTerms, WithdrawableRemainingQuoteAmount,
   CanWithdrawRemainingQuoteAmount, CanWithdrawRemainingQuote,
   EscrowSurplusShare, EscrowRegistry

LEMMA CreatorPartsKept ==
    ASSUME NEW p, NEW q, SameBooks(p, q)
    PROVE  /\ CollectableFee(p) = CollectableFee(q)
           /\ UnsoldBaseToken(p) = UnsoldBaseToken(q)
           /\ InitializedRegistries(p) = InitializedRegistries(q)
<1>1. InitializedRegistries(p) = InitializedRegistries(q)
  BY DEF SameBooks, SameTerms, InitializedRegistries
<1>2. [i \in InitializedRegistries(p) |-> RegistryRefundFee(p, i)]
        = [i \in InitializedRegistries(q) |-> RegistryRefundFee(q, i)]
  BY <1>1 DEF SameBooks, SameTerms, RegistryRefundFee
<1>3. [i \in InitializedRegistries(p) |-> RegistryTotalBaseTokenSold(p, i)]
        = [i \in InitializedRegistries(q) |-> RegistryTotalBaseTokenSold(q, i)]
  BY <1>1 DEF SameBooks, SameTerms, RegistryTotalBaseTokenSold
<1> QED
  BY <1>1, <1>2, <1>3 DEF SameBooks, CollectableFee, UnsoldBaseToken,
     TotalBaseTokenSold

\* The promises by their parts.
Promises ==
    /\ QuotePromised = ProceedsDue + FeesDue + SumFunction(RefundAt)
    /\ Progress = "Completed" => BasePromised = SumFunction(ClaimAt) + UnsoldDue
    /\ Progress = "Failed" =>
            BasePromised = IF presale.hasCreatorWithdrawn THEN 0
                           ELSE presale.presaleSupply
    /\ ProceedsDue \in Nat /\ FeesDue \in Nat /\ SumFunction(RefundAt) \in Nat
    /\ SumFunction(ClaimAt) \in Nat /\ UnsoldDue \in Nat
    /\ RefundAt \in [EscrowKeys -> Nat] /\ ClaimAt \in [EscrowKeys -> Nat]
    /\ presale.presaleSupply \in Nat

PromiseInv == LedgerInv /\ Settings /\ ClaimsWithinEntitlement /\ Decided

LEMMA PromisesByParts == PromiseInv => Promises
<1> SUFFICES ASSUME PromiseInv PROVE Promises
  OBVIOUS
<1> USE DEF PromiseInv
<1>1. QuotePromised = ProceedsDue + FeesDue + SumFunction(RefundAt)
  BY QuotePromise
<1>2. /\ Progress = "Completed" => BasePromised = SumFunction(ClaimAt) + UnsoldDue
      /\ Progress = "Failed" =>
            BasePromised = IF presale.hasCreatorWithdrawn THEN 0
                           ELSE presale.presaleSupply
      /\ SumFunction(ClaimAt) \in Nat /\ UnsoldDue \in Nat
  BY BasePromise
<1>3. ProceedsDue \in Nat /\ FeesDue \in Nat /\ SumFunction(RefundAt) \in Nat
  BY QuotePromise
<1>4. /\ RefundAt \in [EscrowKeys -> Nat] /\ ClaimAt \in [EscrowKeys -> Nat]
      /\ presale.presaleSupply \in Nat
  BY RefundsGrid, ClaimsGrid, PresaleTypes
<1> QED
  BY <1>1, <1>2, <1>3, <1>4 DEF Promises

LEMMA PromisesByPartsNext == PromiseInv' => Promises'
BY PromisesByParts, PTL

LEMMA SettingsKept ==
    ASSUME LedgerInv, Settings, Decided, Next
    PROVE  /\ Settings'
           /\ \A b \in EscrowKeys : Exists(b)' => Exists(b)
<1>1. SameBooks(presale', presale)
  BY BooksKept
<1>2. /\ RegistryDeposits' = RegistryDeposits /\ RegistryFees' = RegistryFees
      /\ InitializedRegistries(presale') = InitializedRegistries(presale)
  BY <1>1, CreatorPartsKept
     DEF RegistryDeposits, RegistryFees, SameBooks, SameTerms
<1>3. \A b \in EscrowKeys : Exists(b)' => Exists(b)
  <2>1. ASSUME NEW k \in EscrowKeys, NEW amount \in Amounts
        PROVE  /\ ~Deposit(k, amount) /\ ~OpenAndDeposit(k, amount)
               /\ ~Withdraw(k, amount) /\ ~InitializeEscrow(k)
    BY DEF Deposit, OpenAndDeposit, DepositInto, Withdraw, CanDeposit,
           CanWithdraw, Progress, Decided, InitializeEscrow
  <2>2. ASSUME NEW k \in EscrowKeys, NEW e,
               escrows' = [escrows EXCEPT ![k] = e], Exists(k),
               NEW b \in EscrowKeys, Exists(b)'
        PROVE  Exists(b)
    BY <2>2, KeptPresale DEF Exists
  <2>3. UNCHANGED escrows \/ \E k \in EscrowKeys : \E e :
            escrows' = [escrows EXCEPT ![k] = e] /\ Exists(k)
    <3>0. \A k \in EscrowKeys : \A amount \in Amounts :
               /\ ~Deposit(k, amount) /\ ~OpenAndDeposit(k, amount)
               /\ ~Withdraw(k, amount)
      BY <2>1
    <3>1. ~\E k \in EscrowKeys : InitializeEscrow(k)
      BY DEF InitializeEscrow, Decided
    <3>2. ASSUME NEW k \in EscrowKeys, Claim(k) \/ WithdrawRemainingQuote(k)
                                        \/ CloseEscrow(k)
          PROVE  Exists(k) /\ \E e : escrows' = [escrows EXCEPT ![k] = e]
      <4>1. Exists(k)
        BY <3>2 DEF Claim, WithdrawRemainingQuote, CloseEscrow
      <4>2. CASE Claim(k)
        <5>1. escrows' = [escrows EXCEPT ![k] = [escrows[k] EXCEPT
                    !.totalClaimedToken = Released(presale, escrows[k], clock)]]
          BY <4>2 DEF Claim
        <5> QED
          BY <4>1, <5>1
      <4>3. CASE WithdrawRemainingQuote(k)
        <5>1. escrows' = [escrows EXCEPT ![k] = [escrows[k] EXCEPT
                    !.isRemainingQuoteWithdrawn = TRUE]]
          BY <4>3 DEF WithdrawRemainingQuote
        <5> QED
          BY <4>1, <5>1
      <4>4. CASE CloseEscrow(k)
        BY <4>1, <4>4 DEF CloseEscrow
      <4> QED
        BY <3>2, <4>2, <4>3, <4>4
    <3>3. CASE Tick \/ CreatorWithdraw \/ CreatorCollectFee
               \/ PerformUnsoldBaseTokenAction
      BY <3>3 DEF Tick, CreatorWithdraw, CreatorCollectFee,
                  PerformUnsoldBaseTokenAction
    <3> QED
      BY <3>0, <3>1, <3>2, <3>3, Zenon DEF Next
  <2> QED
    BY <2>2, <2>3 DEF Exists
<1>4. Settings'
  <2>1. presale'.presaleSupply = SumFunction(
            [i \in RegistryIndex |-> presale'.presaleRegistries[i].presaleSupply])
    BY <1>1 DEF SameBooks, SameTerms, Settings
  <2>2. /\ 0 < presale'.presaleMinimumCap
        /\ presale'.presaleStartTime <= presale'.presaleEndTime
    BY <1>1 DEF SameBooks, SameTerms, Settings
  <2>3. /\ \A b \in EscrowKeys :
                Exists(b)' => b[2] \in InitializedRegistries(presale')
        /\ \A i \in RegistryIndex \ InitializedRegistries(presale') :
                RegistryDeposits'[i] = 0 /\ RegistryFees'[i] = 0
    BY <1>2, <1>3 DEF Settings
  <2> QED
    BY <2>1, <2>2, <2>3 DEF Settings
<1> QED
  BY <1>3, <1>4

\* What a decided step leaves alone of the promises.
LEMMA PartsKept ==
    ASSUME LedgerInv, Decided, Next
    PROVE  /\ Progress' = Progress
           /\ presale'.presaleSupply = presale.presaleSupply
           /\ presale'.hasCreatorWithdrawn = presale.hasCreatorWithdrawn
                => ProceedsDue' = ProceedsDue
           /\ presale'.depositFeeCollected = presale.depositFeeCollected
                => FeesDue' = FeesDue
           /\ presale'.isUnsoldTokenActionPerformed
                    = presale.isUnsoldTokenActionPerformed
                => UnsoldDue' = UnsoldDue
           /\ \A b \in EscrowKeys : escrows'[b] = escrows[b] =>
                RefundAt'[b] = RefundAt[b] /\ ClaimAt'[b] = ClaimAt[b]
<1>1. SameBooks(presale', presale) /\ Progress' = Progress
  BY BooksKept, OutcomeKept
<1>2. /\ CollectableFee(presale') = CollectableFee(presale)
      /\ UnsoldBaseToken(presale') = UnsoldBaseToken(presale)
  BY <1>1, CreatorPartsKept
<1>3. presale'.hasCreatorWithdrawn = presale.hasCreatorWithdrawn
                => ProceedsDue' = ProceedsDue
  BY <1>1 DEF ProceedsDue, SameBooks, SameTerms
<1>4. presale'.depositFeeCollected = presale.depositFeeCollected
                => FeesDue' = FeesDue
  BY <1>1, <1>2 DEF FeesDue
<1>5. presale'.isUnsoldTokenActionPerformed = presale.isUnsoldTokenActionPerformed
                => UnsoldDue' = UnsoldDue
  BY <1>2 DEF UnsoldDue
<1>6. ASSUME NEW b \in EscrowKeys, escrows'[b] = escrows[b]
      PROVE  RefundAt'[b] = RefundAt[b] /\ ClaimAt'[b] = ClaimAt[b]
  <2>1. WithdrawableRemainingQuoteAmount(presale', escrows'[b], clock')
            = WithdrawableRemainingQuoteAmount(presale, escrows[b], clock)
    BY <1>1, <1>6, RefundKept DEF Progress
  <2>2. TotalClaimableRawAmount(presale', escrows'[b])
            = TotalClaimableRawAmount(presale, escrows[b])
    BY <1>1, <1>6, ClaimableKept DEF SameBooks
  <2> QED
    BY <1>6, <2>1, <2>2 DEF RefundAt, ClaimAt, Exists
<1>7. presale'.presaleSupply = presale.presaleSupply
  BY <1>1 DEF SameBooks
<1> QED
  BY <1>1, <1>3, <1>4, <1>5, <1>6, <1>7

\* The vaults without what is promised of them.
Balanced ==
    /\ quoteVault' \in Int /\ baseVault' \in Int
    /\ quoteVault' + QuotePromised = quoteVault + QuotePromised'
    /\ baseVault' + BasePromised = baseVault + BasePromised'

\* An instruction of the creator pays one promise and none of the buyers'.
LEMMA CreatorStepBalances ==
    ASSUME PromiseInv, Promises, Promises', Next,
           quoteVault \in Int, baseVault \in Int,
           Tick \/ CreatorWithdraw \/ CreatorCollectFee
                \/ PerformUnsoldBaseTokenAction
    PROVE  Balanced
<1> USE DEF PromiseInv
<1>0. presale \in PresaleAccounts
  BY PresaleTypes
<1>1. UNCHANGED escrows
  BY DEF Tick, CreatorWithdraw, CreatorCollectFee, PerformUnsoldBaseTokenAction
<1>2. RefundAt' = RefundAt /\ ClaimAt' = ClaimAt
  <2>1. \A b \in EscrowKeys : RefundAt'[b] = RefundAt[b] /\ ClaimAt'[b] = ClaimAt[b]
    BY <1>1, PartsKept
  <2>2. /\ RefundAt' = [b \in EscrowKeys |-> RefundAt'[b]]
        /\ RefundAt = [b \in EscrowKeys |-> RefundAt[b]]
        /\ ClaimAt' = [b \in EscrowKeys |-> ClaimAt'[b]]
        /\ ClaimAt = [b \in EscrowKeys |-> ClaimAt[b]]
    BY DEF RefundAt, ClaimAt
  <2> QED
    BY <2>1, <2>2
<1>3. SumFunction(RefundAt)' = SumFunction(RefundAt)
      /\ SumFunction(ClaimAt)' = SumFunction(ClaimAt)
  BY <1>2
<1> DEFINE refunds == SumFunction(RefundAt)
           claims == SumFunction(ClaimAt)
<1>4. /\ QuotePromised = ProceedsDue + FeesDue + refunds
      /\ QuotePromised' = ProceedsDue' + FeesDue' + refunds
      /\ Progress' = Progress /\ Progress \in {"Completed", "Failed"}
      /\ Progress = "Completed" => /\ BasePromised = claims + UnsoldDue
                                   /\ BasePromised' = claims + UnsoldDue'
      /\ Progress = "Failed" =>
            /\ BasePromised = IF presale.hasCreatorWithdrawn THEN 0
                              ELSE presale.presaleSupply
            /\ BasePromised' = IF presale'.hasCreatorWithdrawn THEN 0
                               ELSE presale.presaleSupply
      /\ ProceedsDue \in Nat /\ FeesDue \in Nat /\ refunds \in Nat
      /\ ProceedsDue' \in Nat /\ FeesDue' \in Nat
      /\ claims \in Nat /\ UnsoldDue \in Nat /\ UnsoldDue' \in Nat
      /\ presale.presaleSupply \in Nat
  BY <1>3, PartsKept DEF Promises, Decided
<1> HIDE DEF refunds, claims
<1>5. CASE Tick
  <2>1. UNCHANGED <<presale, quoteVault, baseVault>>
    BY <1>5 DEF Tick
  <2>2. ProceedsDue' = ProceedsDue /\ FeesDue' = FeesDue /\ UnsoldDue' = UnsoldDue
    BY <2>1, PartsKept
  <2> QED
    BY <1>4, <2>1, <2>2 DEF Balanced
<1>6. CASE CreatorWithdraw
  <2> DEFINE token == CreatorWithdrawableToken(presale, clock)
  <2>1. /\ ~presale.hasCreatorWithdrawn
        /\ presale' = [presale EXCEPT !.hasCreatorWithdrawn = TRUE]
        /\ quoteVault' = IF token.isBaseToken THEN quoteVault
                         ELSE quoteVault - token.amount
        /\ baseVault' = IF token.isBaseToken THEN baseVault - token.amount
                        ELSE baseVault
    BY <1>6 DEF CreatorWithdraw, CanCreatorWithdraw
  <2>2. /\ presale'.hasCreatorWithdrawn
        /\ presale'.depositFeeCollected = presale.depositFeeCollected
        /\ presale'.isUnsoldTokenActionPerformed
                = presale.isUnsoldTokenActionPerformed
    BY <1>0, <2>1 DEF PresaleAccounts
  <2>3. FeesDue' = FeesDue /\ UnsoldDue' = UnsoldDue /\ ProceedsDue' = 0
    BY <2>2, PartsKept DEF ProceedsDue
  <2>4. CASE Progress = "Completed"
    <3>1. ~token.isBaseToken /\ token.amount = ProceedsDue
      BY <2>1, <2>4 DEF CreatorWithdrawableToken, ProceedsDue, Progress
    <3> QED
      BY <1>4, <2>1, <2>3, <2>4, <3>1 DEF Balanced
  <2>5. CASE Progress = "Failed"
    <3>1. token.isBaseToken /\ token.amount = presale.presaleSupply
      BY <2>5 DEF CreatorWithdrawableToken, Progress
    <3>2. ProceedsDue = 0
      BY <2>5 DEF ProceedsDue
    <3> QED
      BY <1>4, <2>1, <2>2, <2>3, <2>5, <3>1, <3>2 DEF Balanced
  <2> QED
    BY <1>4, <2>4, <2>5
<1>7. CASE CreatorCollectFee
  <2>1. /\ ~presale.depositFeeCollected /\ Progress # "Failed"
        /\ presale' = [presale EXCEPT !.depositFeeCollected = TRUE]
        /\ quoteVault' = quoteVault - CollectableFee(presale)
        /\ UNCHANGED baseVault
    BY <1>7 DEF CreatorCollectFee, CanCreatorCollectFee, Progress
  <2>2. /\ presale'.depositFeeCollected
        /\ presale'.hasCreatorWithdrawn = presale.hasCreatorWithdrawn
        /\ presale'.isUnsoldTokenActionPerformed
                = presale.isUnsoldTokenActionPerformed
    BY <1>0, <2>1 DEF PresaleAccounts
  <2>3. /\ FeesDue' = 0 /\ UnsoldDue' = UnsoldDue /\ ProceedsDue' = ProceedsDue
        /\ FeesDue = CollectableFee(presale) /\ Progress = "Completed"
    BY <1>4, <2>1, <2>2, PartsKept DEF FeesDue
  <2> QED
    BY <1>4, <2>1, <2>3 DEF Balanced
<1>8. CASE PerformUnsoldBaseTokenAction
  <2>1. /\ ~presale.isUnsoldTokenActionPerformed /\ Progress = "Completed"
        /\ presale' = [presale EXCEPT !.isUnsoldTokenActionPerformed = TRUE]
        /\ baseVault' = baseVault - UnsoldBaseToken(presale)
        /\ UNCHANGED quoteVault
    BY <1>8 DEF PerformUnsoldBaseTokenAction
  <2>2. /\ presale'.isUnsoldTokenActionPerformed
        /\ presale'.hasCreatorWithdrawn = presale.hasCreatorWithdrawn
        /\ presale'.depositFeeCollected = presale.depositFeeCollected
    BY <1>0, <2>1 DEF PresaleAccounts
  <2>3. /\ FeesDue' = FeesDue /\ ProceedsDue' = ProceedsDue /\ UnsoldDue' = 0
        /\ UnsoldDue = UnsoldBaseToken(presale)
    BY <2>1, <2>2, PartsKept DEF UnsoldDue
  <2> QED
    BY <1>4, <2>1, <2>3 DEF Balanced
<1> QED
  BY <1>5, <1>6, <1>7, <1>8

\* An instruction of a buyer pays what one escrow is promised.
LEMMA BuyerStepBalances ==
    ASSUME PromiseInv, Promises, Promises', Next,
           quoteVault \in Int, baseVault \in Int, UNCHANGED presale,
           NEW k \in EscrowKeys,
           \A b \in EscrowKeys : b # k => escrows'[b] = escrows[b],
           quoteVault' = quoteVault - (RefundAt[k] - RefundAt'[k]),
           Progress = "Completed" =>
                baseVault' = baseVault - (ClaimAt[k] - ClaimAt'[k]),
           Progress = "Failed" => UNCHANGED baseVault
    PROVE  Balanced
<1> USE DEF PromiseInv
<1>1. /\ RefundAt \in [EscrowKeys -> Int] /\ RefundAt' \in [EscrowKeys -> Int]
      /\ ClaimAt \in [EscrowKeys -> Int] /\ ClaimAt' \in [EscrowKeys -> Int]
      /\ RefundAt[k] \in Int /\ RefundAt'[k] \in Int
      /\ ClaimAt[k] \in Int /\ ClaimAt'[k] \in Int
  BY DEF Promises
<1>2. \A b \in EscrowKeys : b # k =>
            RefundAt'[b] = RefundAt[b] /\ ClaimAt'[b] = ClaimAt[b]
  BY PartsKept
<1>3. SumFunction(RefundAt') = SumFunction(RefundAt) + (RefundAt'[k] - RefundAt[k])
  <2>1. \A b \in EscrowKeys : b # k => RefundAt'[b] = RefundAt[b]
    BY <1>2
  <2> QED
    BY <1>1, <2>1, EscrowKeysFinite, SumChange
<1>4. SumFunction(ClaimAt') = SumFunction(ClaimAt) + (ClaimAt'[k] - ClaimAt[k])
  <2>1. \A b \in EscrowKeys : b # k => ClaimAt'[b] = ClaimAt[b]
    BY <1>2
  <2> QED
    BY <1>1, <2>1, EscrowKeysFinite, SumChange
<1>5. ProceedsDue' = ProceedsDue /\ FeesDue' = FeesDue /\ UnsoldDue' = UnsoldDue
      /\ Progress' = Progress
  BY PartsKept
<1>6. /\ QuotePromised = ProceedsDue + FeesDue + SumFunction(RefundAt)
      /\ QuotePromised' = ProceedsDue + FeesDue + SumFunction(RefundAt')
      /\ ProceedsDue \in Nat /\ FeesDue \in Nat /\ SumFunction(RefundAt) \in Nat
  BY <1>5 DEF Promises
<1>7. quoteVault' \in Int /\ quoteVault' + QuotePromised = quoteVault + QuotePromised'
  BY <1>1, <1>3, <1>6
<1>8. baseVault' \in Int /\ baseVault' + BasePromised = baseVault + BasePromised'
  <2>1. CASE Progress = "Completed"
    <3>1. /\ BasePromised = SumFunction(ClaimAt) + UnsoldDue
          /\ BasePromised' = SumFunction(ClaimAt') + UnsoldDue
          /\ SumFunction(ClaimAt) \in Nat /\ UnsoldDue \in Nat
      BY <1>5, <2>1 DEF Promises
    <3> QED
      BY <1>1, <1>4, <2>1, <3>1
  <2>2. CASE Progress = "Failed"
    <3>1. BasePromised' = BasePromised
      BY <1>5, <2>2 DEF Promises
    <3>2. BasePromised \in Int
      BY <2>2 DEF Promises
    <3> QED
      BY <2>2, <3>1, <3>2
  <2> QED
    BY <2>1, <2>2 DEF Decided
<1> QED
  BY <1>7, <1>8 DEF Balanced

LEMMA DecidedStepBalances ==
    ASSUME PromiseInv, Promises, Promises', Next,
           quoteVault \in Int, baseVault \in Int
    PROVE  Balanced
<1> USE DEF PromiseInv
<1>1. ASSUME NEW k \in EscrowKeys, NEW amount \in Amounts
      PROVE  /\ ~Deposit(k, amount) /\ ~OpenAndDeposit(k, amount)
             /\ ~Withdraw(k, amount)
  BY DEF Deposit, OpenAndDeposit, DepositInto, Withdraw, CanDeposit,
         CanWithdraw, Progress, Decided
<1>2. \A k \in EscrowKeys : ~InitializeEscrow(k)
  BY DEF InitializeEscrow, Decided
<1>3. ASSUME NEW k \in EscrowKeys, Claim(k) PROVE Balanced
  <2> DEFINE e == escrows[k]
             released == Released(presale, e, clock)
             after == [e EXCEPT !.totalClaimedToken = released]
  <2>1. /\ Exists(k) /\ Progress = "Completed"
        /\ escrows' = [escrows EXCEPT ![k] = after]
        /\ baseVault' = baseVault - (released - e.totalClaimedToken)
        /\ UNCHANGED <<clock, presale, quoteVault>>
        /\ 0 < e.totalDeposit
    <3>1. e.totalDeposit > 0
      BY <1>3 DEF Claim
    <3> QED
      BY <1>3, <3>1 DEF Claim
  <2>2. e \in EscrowAccount
    BY <2>1, EscrowHolds
  <2>3. released \in Nat
    BY <2>1, <2>2, DepositPart, SumTypes, ReleasedBound DEF LedgerInv
  <2> HIDE DEF released
  <2>4. /\ after.registryIndex = e.registryIndex
        /\ after.totalDeposit = e.totalDeposit
        /\ after.totalDepositFee = e.totalDepositFee
        /\ after.isRemainingQuoteWithdrawn = e.isRemainingQuoteWithdrawn
        /\ after.totalClaimedToken = released
        /\ after \in EscrowAccount /\ e.totalClaimedToken \in Nat
    BY <2>2, <2>3 DEF EscrowAccount
  <2> HIDE DEF after
  <2>5. /\ escrows'[k] = after /\ Exists(k)'
        /\ \A b \in EscrowKeys : b # k => escrows'[b] = escrows[b]
    BY <2>1, <2>4, KeptPresale, NoEscrowAssumption DEF Exists
  <2>6. SameBooks(presale', presale) /\ Progress' = Progress
    BY BooksKept, OutcomeKept
  <2>7. RefundAt'[k] = RefundAt[k]
    <3>1. WithdrawableRemainingQuoteAmount(presale', after, clock')
            = WithdrawableRemainingQuoteAmount(presale, e, clock)
      BY <2>4, <2>6, RefundKept DEF Progress
    <3> QED
      BY <2>1, <2>5, <3>1 DEF RefundAt
  <2>8. ClaimAt[k] - ClaimAt'[k] = released - e.totalClaimedToken
    <3>1. TotalClaimableRawAmount(presale', after)
            = TotalClaimableRawAmount(presale, e)
      BY <2>4, <2>6, ClaimableKept DEF SameBooks
    <3>2. /\ ClaimAt[k] = TotalClaimableRawAmount(presale, e) - e.totalClaimedToken
          /\ ClaimAt'[k] = TotalClaimableRawAmount(presale, e) - released
      BY <2>1, <2>4, <2>5, <3>1 DEF ClaimAt
    <3>3. TotalClaimableRawAmount(presale, e) \in Int
      BY <2>1, <2>2, DepositPart, SumTypes, ReleasedBound DEF LedgerInv
    <3> QED
      BY <2>3, <2>4, <3>2, <3>3
  <2>9. RefundAt[k] \in Int
    BY DEF Promises
  <2> QED
    BY <2>1, <2>5, <2>7, <2>8, <2>9, BuyerStepBalances
<1>4. ASSUME NEW k \in EscrowKeys, WithdrawRemainingQuote(k) PROVE Balanced
  <2> DEFINE e == escrows[k]
             after == [e EXCEPT !.isRemainingQuoteWithdrawn = TRUE]
  <2>1. /\ Exists(k)
        /\ escrows' = [escrows EXCEPT ![k] = after]
        /\ quoteVault' = quoteVault
                - WithdrawableRemainingQuoteAmount(presale, e, clock)
        /\ UNCHANGED <<clock, presale, baseVault>>
    BY <1>4 DEF WithdrawRemainingQuote
  <2>2. e \in EscrowAccount
    BY <2>1, EscrowHolds
  <2>3. /\ after.registryIndex = e.registryIndex
        /\ after.totalDeposit = e.totalDeposit
        /\ after.totalClaimedToken = e.totalClaimedToken
        /\ after.isRemainingQuoteWithdrawn
        /\ after \in EscrowAccount
    BY <2>2 DEF EscrowAccount
  <2> HIDE DEF after
  <2>4. /\ escrows'[k] = after /\ Exists(k)'
        /\ \A b \in EscrowKeys : b # k => escrows'[b] = escrows[b]
    BY <2>1, <2>3, KeptPresale, NoEscrowAssumption DEF Exists
  <2>5. RefundAt'[k] = 0
    BY <2>3, <2>4 DEF RefundAt, WithdrawableRemainingQuoteAmount,
       CanWithdrawRemainingQuoteAmount
  <2>6. RefundAt[k] = WithdrawableRemainingQuoteAmount(presale, e, clock)
    BY <2>1 DEF RefundAt
  <2>7. ClaimAt'[k] = ClaimAt[k]
    <3>1. SameTerms(presale', presale)
      BY BooksKept DEF SameBooks
    <3>2. TotalClaimableRawAmount(presale', after)
            = TotalClaimableRawAmount(presale, e)
      BY <2>3, <3>1, ClaimableKept
    <3> QED
      BY <2>1, <2>3, <2>4, <3>2 DEF ClaimAt
  <2>8. RefundAt[k] \in Int /\ ClaimAt[k] \in Int
    BY DEF Promises
  <2>9. /\ quoteVault' = quoteVault - (RefundAt[k] - RefundAt'[k])
        /\ baseVault' = baseVault - (ClaimAt[k] - ClaimAt'[k])
    BY <2>1, <2>5, <2>6, <2>7, <2>8
  <2> QED
    BY <2>1, <2>4, <2>9, BuyerStepBalances
<1>5. ASSUME NEW k \in EscrowKeys, CloseEscrow(k) PROVE Balanced
  <2>1. /\ Exists(k)
        /\ escrows' = [escrows EXCEPT ![k] = NoEscrow]
        /\ UNCHANGED <<clock, presale, quoteVault, baseVault>>
    BY <1>5 DEF CloseEscrow
  <2>2. /\ ~Exists(k)'
        /\ \A b \in EscrowKeys : b # k => escrows'[b] = escrows[b]
    BY <2>1, KeptPresale DEF Exists
  <2>3. RefundAt[k] = 0 /\ RefundAt'[k] = 0
    BY <1>5, <2>2, CloseOwesNothing DEF RefundAt
  <2>4. Progress = "Completed" => ClaimAt[k] = 0 /\ ClaimAt'[k] = 0
    <3> SUFFICES ASSUME Progress = "Completed"
                 PROVE  ClaimAt[k] = 0 /\ ClaimAt'[k] = 0
      OBVIOUS
    <3>1. TotalClaimableRawAmount(presale, escrows[k])
                = escrows[k].totalClaimedToken
      BY <1>5, CloseOwesNothing
    <3>2. escrows[k].totalClaimedToken \in Int
      BY <2>1, EscrowHolds DEF EscrowAccount
    <3> QED
      BY <2>1, <2>2, <3>1, <3>2 DEF ClaimAt
  <2>5. /\ quoteVault' = quoteVault - (RefundAt[k] - RefundAt'[k])
        /\ Progress = "Completed" =>
                baseVault' = baseVault - (ClaimAt[k] - ClaimAt'[k])
    BY <2>1, <2>3, <2>4
  <2> QED
    BY <2>1, <2>2, <2>5, BuyerStepBalances
<1> QED
  BY <1>1, <1>2, <1>3, <1>4, <1>5, CreatorStepBalances DEF Next

LEMMA PromisesAreInts ==
    ASSUME Promises, Decided
    PROVE  QuotePromised \in Int /\ BasePromised \in Int
BY DEF Promises, Decided

\* A step that leaves the differences alone leaves the vaults covered.
LEMMA BalancedStaysCovered ==
    ASSUME Covered, Balanced,
           QuotePromised \in Int, BasePromised \in Int,
           QuotePromised' \in Int, BasePromised' \in Int,
           Dust \in Int, Dust' = Dust, Progress' = Progress
    PROVE  Covered'
<1>1. /\ quoteVault \in Int /\ baseVault \in Int
      /\ quoteVault' \in Int /\ baseVault' \in Int
      /\ QuotePromised <= quoteVault /\ quoteVault <= QuotePromised + Dust
      /\ BasePromised <= baseVault
      /\ Progress = "Failed" => baseVault = BasePromised
      /\ quoteVault' + QuotePromised = quoteVault + QuotePromised'
      /\ baseVault' + BasePromised = baseVault + BasePromised'
  BY DEF Covered, Balanced
<1>2. QuotePromised' <= quoteVault' /\ quoteVault' <= QuotePromised' + Dust
  <2>1. ASSUME NEW vault \in Int, NEW promised \in Int, NEW d \in Int,
               NEW vaultNext \in Int, NEW promisedNext \in Int,
               vaultNext + promised = vault + promisedNext,
               vault <= promised + d
        PROVE  vaultNext <= promisedNext + d
    BY <2>1
  <2>2. quoteVault' <= QuotePromised' + Dust
    <3>1. /\ quoteVault \in Int /\ quoteVault' \in Int
          /\ quoteVault' + QuotePromised = quoteVault + QuotePromised'
          /\ quoteVault <= QuotePromised + Dust
      BY <1>1
    <3> QED
      BY <2>1, <3>1
  <2>3. QuotePromised' <= quoteVault'
    BY <1>1
  <2> QED
    BY <2>2, <2>3
<1>3. BasePromised' <= baseVault'
  BY <1>1
<1>4. Progress' = "Failed" => baseVault' = BasePromised'
  BY <1>1
<1> QED
  BY <1>1, <1>2, <1>3, <1>4 DEF Covered

LEMMA DecidedStep ==
    ASSUME PromiseInv, Covered, Next, PromiseInv'
    PROVE  Covered'
<1> USE DEF PromiseInv
<1>1. Promises /\ Promises'
  BY PromisesByParts, PromisesByPartsNext
<1>2. quoteVault \in Int /\ baseVault \in Int
  BY DEF Covered
<1>3. Balanced
  BY <1>1, <1>2, DecidedStepBalances
<1>4. /\ QuotePromised \in Int /\ BasePromised \in Int
      /\ QuotePromised' \in Int /\ BasePromised' \in Int
  <2>1. QuotePromised \in Int /\ BasePromised \in Int
    BY <1>1, PromisesAreInts
  <2>2. QuotePromised' \in Int /\ BasePromised' \in Int
    BY <1>1 DEF Promises, Decided
  <2> QED
    BY <2>1, <2>2
<1>5. Dust' = Dust /\ Dust \in Int /\ Progress' = Progress
  BY BooksKept, CreatorPartsKept, DustNat, PartsKept DEF Dust
<1> QED
  BY <1>3, <1>4, <1>5, BalancedStaysCovered

LEMMA VaultStep ==
    ASSUME LedgerInv, ClaimsWithinEntitlement, VaultInv, [Next]_vars
    PROVE  VaultInv'
<1>1. CASE UNCHANGED vars
  <2>1. /\ Deposits' = Deposits /\ Fees' = Fees /\ RegistryDeposits' = RegistryDeposits
        /\ RegistryFees' = RegistryFees /\ \A k \in EscrowKeys : Exists(k)' = Exists(k)
    BY <1>1 DEF vars, Deposits, Fees, RegistryDeposits, RegistryFees, Exists
  <2>2. Settings' = Settings
    BY <1>1, <2>1 DEF vars, Settings
  <2>3. Untouched' = Untouched
    BY <1>1, <2>1 DEF vars, Untouched
  <2>4. Decided' = Decided /\ Progress' = Progress
    BY <1>1 DEF vars, Decided, Progress
  <2>5. OpenEscrows' = OpenEscrows
    BY <2>1 DEF OpenEscrows
  <2>6. RefundsOffered' = RefundsOffered /\ QuotePromised' = QuotePromised
    BY <1>1, <2>4, <2>5 DEF vars, RefundsOffered, QuotePromised
  <2>7. BasePromised' = BasePromised
    BY <1>1, <2>4, <2>5 DEF vars, BasePromised
  <2>8. Covered' = Covered
    BY <1>1, <2>4, <2>6, <2>7 DEF vars, Covered, Dust
  <2> QED
    BY <2>2, <2>3, <2>4, <2>8 DEF VaultInv
<1>2. CASE Next /\ ~Decided
  BY <1>2, UndecidedStep DEF VaultInv
<1>3. CASE Next /\ Decided
  <2>1. Covered /\ Settings
    BY <1>3, Settle DEF VaultInv
  <2>2. Settings' /\ LedgerInv' /\ ClaimsWithinEntitlement'
    BY <1>3, <2>1, SettingsKept, StepOK, ClaimsStep
  <2>3. Decided'
    BY <1>3, OutcomeKept DEF Decided
  <2>4. Covered'
    BY <1>3, <2>1, <2>2, <2>3, DecidedStep DEF PromiseInv
  <2> QED
    BY <2>2, <2>3, <2>4 DEF VaultInv
<1> QED
  BY <1>1, <1>2, <1>3

LEMMA VaultInvariant == Spec => [](LedgerInv /\ ClaimsWithinEntitlement /\ VaultInv)
<1>1. LedgerInv /\ ClaimsWithinEntitlement /\ VaultInv /\ [Next]_vars => VaultInv'
  BY VaultStep
<1> QED
  BY <1>1, VaultInit, LedgerInvariant, ClaimsWithinEntitlementTheorem, PTL DEF Spec

---------------------------------------------------------------------------
(* What the runs check *)

\* Once the outcome is decided the promises are covered, touched or not.
LEMMA DecidedIsCovered ==
    ASSUME LedgerInv, ClaimsWithinEntitlement, VaultInv, Decided
    PROVE  Covered
BY Settle DEF VaultInv

\* The quote vault covers the creator's capital and fees and all the refunds,
\* in whatever order they are paid (getCreatorWithdrawableToken,
\* getWithdrawableRemainingQuoteAmount, creatorCollectFee).
THEOREM QuoteVaultCoversPromisesTheorem == Spec => []QuoteVaultCoversPromises
<1>1. LedgerInv /\ ClaimsWithinEntitlement /\ VaultInv => QuoteVaultCoversPromises
  BY DecidedIsCovered DEF QuoteVaultCoversPromises, Covered
<1> QED
  BY <1>1, VaultInvariant, PTL

\* The base vault covers all the claims and the unsold tokens, or the supply
\* that goes back to the creator (getTotalClaimableRawAmount,
\* performUnsoldBaseTokenAction).
THEOREM BaseVaultCoversPromisesTheorem == Spec => []BaseVaultCoversPromises
<1>1. LedgerInv /\ ClaimsWithinEntitlement /\ VaultInv => BaseVaultCoversPromises
  BY DecidedIsCovered DEF BaseVaultCoversPromises, Covered
<1> QED
  BY <1>1, VaultInvariant, PTL

\* No rounding of shares and fees keeps more than two lamports for every buyer
\* of a registry (getWithdrawableRemainingQuoteAmount).
THEOREM OnlyDustIsStrandedTheorem == Spec => []OnlyDustIsStranded
<1>1. ASSUME LedgerInv, ClaimsWithinEntitlement, VaultInv, Decided, QuotePromised = 0
      PROVE  quoteVault <= Dust
  <2>1. Covered /\ Dust \in Int
    BY <1>1, DecidedIsCovered, DustNat DEF VaultInv
  <2> QED
    BY <1>1, <2>1 DEF Covered
<1>2. LedgerInv /\ ClaimsWithinEntitlement /\ VaultInv => OnlyDustIsStranded
  BY <1>1 DEF OnlyDustIsStranded, Dust
<1> QED
  BY <1>2, VaultInvariant, PTL

---------------------------------------------------------------------------
(* Presales of one registry *)

\* The one registry has taken all that the presale has.
LEMMA OnlyRegistry ==
    ASSUME LedgerInv, Settings, SingleRegistry(presale)
    PROVE  \E i \in RegistryIndex :
              /\ InitializedRegistries(presale) = {i}
              /\ RegistryDeposits[i] = presale.totalDeposit
              /\ RegistryFees[i] = presale.totalDepositFee
              /\ \A j \in RegistryIndex : j # i =>
                    RegistryDeposits[j] = 0 /\ RegistryFees[j] = 0
<1>1. PICK i : InitializedRegistries(presale) = {i}
  BY PresaleTypes, FS_Singleton DEF SingleRegistry
<1>2. i \in RegistryIndex
  BY <1>1, PresaleTypes
<1>3. \A j \in RegistryIndex : j # i => RegistryDeposits[j] = 0 /\ RegistryFees[j] = 0
  BY <1>1 DEF Settings
<1>4. /\ RegistryDeposits \in [RegistryIndex -> Int]
      /\ RegistryFees \in [RegistryIndex -> Int]
      /\ SumFunction(RegistryDeposits) = presale.totalDeposit
      /\ SumFunction(RegistryFees) = presale.totalDepositFee
  BY PresaleTypes
<1>a. RegistryDeposits \in [RegistryIndex -> Int]
  BY <1>4
<1>b. RegistryFees \in [RegistryIndex -> Int]
  BY <1>4
<1>c. \A j \in RegistryIndex : j # i => RegistryDeposits[j] = 0
  BY <1>3
<1>d. \A j \in RegistryIndex : j # i => RegistryFees[j] = 0
  BY <1>3
<1>5. SumFunction(RegistryDeposits) = RegistryDeposits[i]
  BY <1>2, <1>a, <1>c, RegistryIndexAssumption, SumOne
<1>6. SumFunction(RegistryFees) = RegistryFees[i]
  BY <1>2, <1>b, <1>d, RegistryIndexAssumption, SumOne
<1> QED
  BY <1>1, <1>2, <1>3, <1>4, <1>5, <1>6

\* getWithdrawableRemainingQuote and the shares of the escrows agree on what
\* one registry gives back.
LEMMA AnnouncedShares ==
    ASSUME LedgerInv, Settings, SingleRegistry(presale), Oversubscribable
    PROVE  /\ WithdrawableRemainingRawQuoteAmount(presale, clock) \in Int
           /\ SumFunction(QuoteShares) + SumFunction(FeeShares)
                <= WithdrawableRemainingRawQuoteAmount(presale, clock)
<1> DEFINE D == presale.totalDeposit
           F == presale.totalDepositFee
           announced == [j \in InitializedRegistries(presale) |->
                            RegistryWithdrawableRemainingQuote(presale, j)]
<1>1. PICK i \in RegistryIndex :
         /\ InitializedRegistries(presale) = {i}
         /\ RegistryDeposits[i] = D /\ RegistryFees[i] = F
         /\ \A j \in RegistryIndex : j # i =>
                RegistryDeposits[j] = 0 /\ RegistryFees[j] = 0
  BY OnlyRegistry
<1>2. /\ D \in Nat \ {0} /\ F \in Nat /\ presale.presaleMaximumCap \in Nat
      /\ presale.presaleRegistries[i].totalDeposit = D
  BY <1>1, PresaleTypes, CompletedDeposit DEF Oversubscribable
<1>3. /\ QuoteShares \in [RegistryIndex -> Nat] /\ FeeShares \in [RegistryIndex -> Nat]
      /\ \A j \in RegistryIndex : j # i => QuoteShares[j] = 0 /\ FeeShares[j] = 0
      /\ QuoteShares[i] = (Surplus * D) \div D
      /\ SumFunction(QuoteShares) <= Surplus /\ Surplus \in Nat
      /\ SumFunction(QuoteShares) \in Nat
  BY <1>1, <1>2, RegistryShares
<1>4. FeeShares[i] = (F * QuoteShares[i]) \div D
  BY <1>1, <1>2 DEF FeeShares
<1>5. SumFunction(QuoteShares) = QuoteShares[i] /\ SumFunction(FeeShares) = FeeShares[i]
  <2>1. QuoteShares \in [RegistryIndex -> Int] /\ FeeShares \in [RegistryIndex -> Int]
    BY <1>3
  <2>2. \A j \in RegistryIndex : j # i => QuoteShares[j] = 0
    BY <1>3
  <2>3. \A j \in RegistryIndex : j # i => FeeShares[j] = 0
    BY <1>3
  <2> HIDE DEF D, F
  <2>4. SumFunction(QuoteShares) = QuoteShares[i]
    BY <2>1, <2>2, RegistryIndexAssumption, SumOne
  <2>5. SumFunction(FeeShares) = FeeShares[i]
    BY <2>1, <2>3, RegistryIndexAssumption, SumOne
  <2> QED
    BY <2>4, <2>5
<1>6. WithdrawableRemainingRawQuoteAmount(presale, clock) = SumFunction(announced)
  BY DEF WithdrawableRemainingRawQuoteAmount, Oversubscribable, Progress
<1>7. announced[i] \in Int /\ QuoteShares[i] + FeeShares[i] <= announced[i]
  <2>1. announced[i] = RegistryWithdrawableRemainingQuote(presale, i)
    BY <1>1
  <2>2. CASE D - presale.presaleMaximumCap <= 0
    <3>1. announced[i] = 0
      BY <1>2, <2>1, <2>2 DEF RegistryWithdrawableRemainingQuote
    <3>2. Surplus = 0
      BY <1>2, <2>2 DEF Surplus, Greatest
    <3>3. QuoteShares[i] = 0
      BY <1>3, <1>5, <3>2
    <3>4. F * 0 = 0 /\ 0 \div D = 0
      BY <1>2
    <3>5. FeeShares[i] = 0
      BY <1>4, <3>3, <3>4
    <3> QED
      BY <3>1, <3>3, <3>5
  <2>3. CASE ~(D - presale.presaleMaximumCap <= 0)
    <3>1. Surplus = D - presale.presaleMaximumCap
      BY <1>2, <2>3 DEF Surplus, Greatest
    <3>2. announced[i] = QuoteShares[i] + (QuoteShares[i] * F) \div D
      BY <1>2, <1>3, <2>1, <2>3, <3>1
         DEF RegistryWithdrawableRemainingQuote, Oversubscribable
    <3>3. QuoteShares[i] \in Nat /\ FeeShares[i] \in Nat
      BY <1>3
    <3>4. QuoteShares[i] * F = F * QuoteShares[i]
      BY <1>2, <3>3
    <3>5. announced[i] = QuoteShares[i] + FeeShares[i]
      BY <1>4, <3>2, <3>4
    <3> QED
      BY <3>3, <3>5
  <2> QED
    BY <2>2, <2>3
<1>8. SumFunction(announced) = announced[i]
  <2>1. IsFiniteSet({i}) /\ i \in {i}
    BY FS_Singleton
  <2>2. announced \in [{i} -> Int]
    <3>1. announced = [j \in {i} |-> announced[j]]
      BY <1>1
    <3> QED
      BY <1>7, <3>1
  <2>3. \A j \in {i} : j # i => announced[j] = 0
    OBVIOUS
  <2> HIDE DEF announced, D, F
  <2> QED
    BY <2>1, <2>2, <2>3, SumOne
<1> QED
  BY <1>5, <1>6, <1>7, <1>8

\* The buyers of a pro rata presale of one registry are offered no more than
\* the presale announces (getWithdrawableRemainingRawQuoteAmount of
\* PresaleWrapper and getWithdrawableRemainingQuoteAmount of EscrowWrapper).
THEOREM RefundsWithinAnnouncedTheorem == Spec => []RefundsWithinAnnounced
<1>1. ASSUME LedgerInv, Settings, Decided, presale.presaleMode = "Prorata",
             SingleRegistry(presale)
      PROVE  RefundsOffered <= WithdrawableRemainingRawQuoteAmount(presale, clock)
  <2>1. /\ RefundsOffered \in Nat /\ RefundsOffered <= SumFunction(FullRefund)
        /\ SumFunction(FullRefund) \in Nat
    BY <1>1, RefundsGrid, RefundValue, EscrowKeysFinite, SumPart
  <2>2. CASE Progress = "Failed"
    <3>1. WithdrawableRemainingRawQuoteAmount(presale, clock)
            = presale.totalDeposit + presale.totalDepositFee
      BY <1>1, <2>2 DEF WithdrawableRemainingRawQuoteAmount, Progress
    <3>2. SumFunction(FullRefund) <= presale.totalDeposit + presale.totalDepositFee
      BY <1>1, <2>2, FullRefundSum
    <3>3. presale.totalDeposit \in Nat /\ presale.totalDepositFee \in Nat
      BY <1>1, PresaleTypes
    <3> QED
      BY <2>1, <3>1, <3>2, <3>3
  <2>3. CASE Progress = "Completed"
    <3>1. Oversubscribable
      BY <1>1, <2>3 DEF Oversubscribable
    <3> DEFINE shares == SumFunction(QuoteShares) + SumFunction(FeeShares)
    <3>2. SumFunction(FullRefund) <= shares
      BY <1>1, <3>1, FullRefundSum
    <3>3. shares \in Int
      BY <1>1, <2>3, CompletedDeposit, RegistryShares
    <3>4. /\ WithdrawableRemainingRawQuoteAmount(presale, clock) \in Int
          /\ shares <= WithdrawableRemainingRawQuoteAmount(presale, clock)
      BY <1>1, <3>1, AnnouncedShares
    <3> HIDE DEF shares
    <3> QED
      BY <2>1, <3>2, <3>3, <3>4
  <2> QED
    BY <1>1, <2>2, <2>3 DEF Decided
<1>2. LedgerInv /\ VaultInv => RefundsWithinAnnounced
  BY <1>1 DEF RefundsWithinAnnounced, VaultInv
<1> QED
  BY <1>2, VaultInvariant, PTL

---------------------------------------------------------------------------
(* The pending claim *)

\* The two shares of a buyer only grow with time.
LEMMA DrippedGrows ==
    ASSUME NEW p \in PresaleAccounts, NEW vested \in Nat,
           NEW t \in Nat, NEW u \in Nat, t <= u
    PROVE  /\ DrippedToken(p, vested, t) \in Nat
           /\ DrippedToken(p, vested, u) \in Nat
           /\ DrippedToken(p, vested, t) <= DrippedToken(p, vested, u)
<1> DEFINE V == p.vestDuration
           start == p.vestingStartTime
           elapsed(s) == Least(s - start, V)
<1>1. V \in Nat /\ start \in Nat
  BY DEF PresaleAccounts
<1>2. ASSUME NEW s \in Nat
      PROVE  DrippedToken(p, vested, s) =
                IF s < start THEN 0
                ELSE IF V = 0 THEN vested ELSE (vested * elapsed(s)) \div V
  BY <1>1, <1>2 DEF DrippedToken
<1>3. ASSUME NEW s \in Nat, start <= s, V # 0
      PROVE  /\ elapsed(s) \in Nat /\ vested * elapsed(s) \in Nat
             /\ (vested * elapsed(s)) \div V \in Nat
  <2>1. elapsed(s) \in Nat
    BY <1>1, <1>3 DEF Least
  <2> HIDE DEF elapsed
  <2>2. vested * elapsed(s) \in Nat
    BY <2>1
  <2> DEFINE product == vested * elapsed(s)
  <2>3. product \in Nat
    BY <2>2
  <2> HIDE DEF product
  <2>4. product \div V \in Nat
    BY <1>1, <1>3, <2>3, FloorProperty
  <2> QED
    BY <2>1, <2>2, <2>4 DEF product
<1>4. ASSUME start <= t, V # 0
      PROVE  (vested * elapsed(t)) \div V <= (vested * elapsed(u)) \div V
  <2>1. elapsed(t) <= elapsed(u)
    BY <1>1, <1>4 DEF Least
  <2>2. /\ elapsed(t) \in Nat /\ elapsed(u) \in Nat
        /\ vested * elapsed(t) \in Nat /\ vested * elapsed(u) \in Nat
    BY <1>1, <1>3, <1>4
  <2> HIDE DEF elapsed
  <2>3. elapsed(t) * vested <= elapsed(u) * vested
    BY <2>1, <2>2, ProductMonotone
  <2>4. vested * elapsed(t) <= vested * elapsed(u)
    BY <2>2, <2>3
  <2> QED
    BY <1>1, <1>4, <2>2, <2>4, FloorMonotone
<1> DEFINE atT == (vested * elapsed(t)) \div V
           atU == (vested * elapsed(u)) \div V
<1>5. start <= t /\ V # 0 => atT \in Nat /\ atU \in Nat /\ atT <= atU
  BY <1>1, <1>3, <1>4
<1>6. start <= u /\ V # 0 => atU \in Nat
  BY <1>1, <1>3
<1>7. /\ DrippedToken(p, vested, t) = IF t < start THEN 0
            ELSE IF V = 0 THEN vested ELSE atT
      /\ DrippedToken(p, vested, u) = IF u < start THEN 0
            ELSE IF V = 0 THEN vested ELSE atU
  BY <1>2
<1> HIDE DEF atT, atU, elapsed, V, start
<1>8. CASE u < start
  BY <1>1, <1>7, <1>8
<1>9. CASE start <= u /\ V = 0
  BY <1>1, <1>7, <1>9
<1>10. CASE start <= u /\ V # 0 /\ t < start
  BY <1>1, <1>6, <1>7, <1>10
<1>11. CASE start <= t /\ V # 0
  <2>1. ~(t < start) /\ ~(u < start)
    BY <1>1, <1>11
  <2>2. DrippedToken(p, vested, t) = atT /\ DrippedToken(p, vested, u) = atU
    BY <1>7, <1>11, <2>1
  <2>3. atT \in Nat /\ atU \in Nat /\ atT <= atU
    BY <1>5, <1>11
  <2> QED
    BY <2>2, <2>3
<1> QED
  BY <1>1, <1>8, <1>9, <1>10, <1>11

LEMMA ReleasedGrows ==
    ASSUME NEW p \in PresaleAccounts, NEW e \in EscrowAccount,
           NEW t \in Nat, NEW u \in Nat, t <= u,
           EscrowRegistry(p, e).totalDeposit # 0
    PROVE  /\ Released(p, e, t) \in Nat
           /\ Released(p, e, u) \in Nat
           /\ Released(p, e, t) <= Released(p, e, u)
<1> DEFINE i == e.registryIndex
           d == e.totalDeposit
           D == EscrowRegistry(p, e).totalDeposit
           sold == RegistryTotalBaseTokenSold(p, i)
           bps == p.immediateReleaseBps
           atOnce == ImmediateReleasedAmount(sold, bps)
           vested == VestedAmount(sold, bps)
           immediate(s) == IF s >= p.immediateReleaseTimestamp THEN atOnce ELSE 0
           dripped(s) == DrippedToken(p, vested, s)
<1>1. /\ i \in RegistryIndex /\ d \in Nat /\ D \in Nat \ {0}
      /\ bps \in 0..BpsBase /\ p.immediateReleaseTimestamp \in Nat
  BY DEF EscrowAccount, PresaleAccounts, PresaleRegistry, EscrowRegistry
<1>2. sold \in Nat
  BY <1>1, SoldNat
<1>3. atOnce \in 0..sold /\ vested \in Nat
  <2> HIDE DEF sold, bps
  <2>1. (sold * bps) \div BpsBase \in 0..sold
    BY <1>1, <1>2, BpsAssumption, ShareAtMost
  <2> QED
    BY <2>1, <1>2 DEF ImmediateReleasedAmount, VestedAmount
<1>4. \A s : Released(p, e, s) = (immediate(s) * d) \div D + (dripped(s) * d) \div D
  BY DEF Released, CumulativeClaimable
<1> HIDE DEF i, d, D, sold, bps, atOnce, vested
<1>5. /\ immediate(t) \in Nat /\ immediate(u) \in Nat /\ immediate(t) <= immediate(u)
  BY <1>1, <1>2, <1>3
<1>6. /\ dripped(t) \in Nat /\ dripped(u) \in Nat /\ dripped(t) <= dripped(u)
  BY <1>3, DrippedGrows
<1> HIDE DEF immediate, dripped
<1>7. ASSUME NEW a \in Nat, NEW b \in Nat, a <= b
      PROVE  /\ (a * d) \div D \in Nat /\ (b * d) \div D \in Nat
             /\ (a * d) \div D <= (b * d) \div D
  <2>1. a * d \in Nat /\ b * d \in Nat /\ a * d <= b * d
    BY <1>1, <1>7, ProductMonotone
  <2> QED
    BY <1>1, <2>1, FloorProperty, FloorMonotone
<1> DEFINE x(s) == (immediate(s) * d) \div D
           y(s) == (dripped(s) * d) \div D
<1>8. x(t) \in Nat /\ x(u) \in Nat /\ x(t) <= x(u)
  BY <1>5, <1>7
<1>9. y(t) \in Nat /\ y(u) \in Nat /\ y(t) <= y(u)
  BY <1>6, <1>7
<1>10. Released(p, e, t) = x(t) + y(t) /\ Released(p, e, u) = x(u) + y(u)
  BY <1>4
<1> HIDE DEF x, y
<1> QED
  BY <1>8, <1>9, <1>10

\* What a buyer has claimed was released at the time.
ClaimedWasReleased ==
    \A k \in EscrowKeys :
        Exists(k) /\ escrows[k].totalClaimedToken > 0 =>
            /\ EscrowRegistry(presale, escrows[k]).totalDeposit # 0
            /\ escrows[k].totalClaimedToken
                    <= Released(presale, escrows[k], clock)

\* The fields on which the release depends, besides those of SameTerms.
SameSchedule(p, q) ==
    /\ p.immediateReleaseBps = q.immediateReleaseBps
    /\ p.immediateReleaseTimestamp = q.immediateReleaseTimestamp
    /\ p.vestingStartTime = q.vestingStartTime
    /\ p.vestDuration = q.vestDuration

LEMMA ReleasedKept ==
    ASSUME NEW p, NEW q, NEW e, NEW f, NEW t, SameTerms(p, q), SameSchedule(p, q),
           e.registryIndex = f.registryIndex, e.totalDeposit = f.totalDeposit
    PROVE  /\ Released(p, e, t) = Released(q, f, t)
           /\ EscrowRegistry(p, e).totalDeposit = EscrowRegistry(q, f).totalDeposit
BY DEF SameTerms, SameSchedule, Released, CumulativeClaimable, DrippedToken,
       RegistryTotalBaseTokenSold, EscrowRegistry

\* A buyer who has claimed something after a step either claimed it in that
\* step or had claimed it before, with the same deposit.
LEMMA ClaimedBefore ==
    ASSUME LedgerInv, ClaimsWithinEntitlement, Next, NEW k \in EscrowKeys,
           Exists(k)', escrows'[k].totalClaimedToken > 0
    PROVE  /\ Exists(k) /\ Progress = "Completed"
           /\ escrows'[k].registryIndex = escrows[k].registryIndex
           /\ escrows'[k].totalDeposit = escrows[k].totalDeposit
           /\ \/ /\ escrows'[k].totalClaimedToken = escrows[k].totalClaimedToken
                 /\ escrows[k].totalClaimedToken > 0
              \/ /\ escrows[k].totalDeposit > 0
                 /\ escrows'[k].totalClaimedToken
                        = Released(presale, escrows[k], clock)
<1>1. Exists(k) /\ escrows[k].totalClaimedToken > 0 => Progress = "Completed"
  BY DEF ClaimsWithinEntitlement, OpenEscrows
<1>2. CASE \E b \in EscrowKeys : \E amount \in Amounts : Moves(b, amount)
  <2>1. PICK b \in EscrowKeys, amount \in Amounts : Moves(b, amount)
    BY <1>2
  <2>2. Progress = "Ongoing"
    BY <2>1 DEF Moves, Deposit, OpenAndDeposit, DepositInto, Withdraw, CanDeposit,
                CanWithdraw, Progress
  <2>3. \/ Exists(k) /\ escrows'[k].totalClaimedToken = escrows[k].totalClaimedToken
        \/ escrows'[k].totalClaimedToken = 0
    BY <2>1, MovesKeepClaims
  <2> QED
    BY <1>1, <2>2, <2>3
<1>3. CASE UNCHANGED escrows
  BY <1>1, <1>3 DEF Exists
<1>4. ASSUME NEW b \in EscrowKeys, InitializeEscrow(b)
      PROVE  k # b /\ escrows'[k] = escrows[k]
  <2>1. CanOpen(b) /\ \E e \in NewEscrows(b) : escrows' = [escrows EXCEPT ![b] = e]
    BY <1>4 DEF InitializeEscrow
  <2>2. \A e \in NewEscrows(b) : e.totalClaimedToken = 0
    BY <2>1, NewEscrowHolds DEF CanOpen
  <2> QED
    BY <2>1, <2>2, KeptPresale
<1>5. ASSUME NEW b \in EscrowKeys, CloseEscrow(b)
      PROVE  escrows'[k] = escrows[k]
  BY <1>5, KeptPresale DEF CloseEscrow, Exists
<1>6. ASSUME NEW b \in EscrowKeys, WithdrawRemainingQuote(b)
      PROVE  /\ Exists(k)
             /\ escrows'[k].registryIndex = escrows[k].registryIndex
             /\ escrows'[k].totalDeposit = escrows[k].totalDeposit
             /\ escrows'[k].totalClaimedToken = escrows[k].totalClaimedToken
  <2>1. /\ Exists(b)
        /\ escrows' = [escrows EXCEPT ![b] =
              [escrows[b] EXCEPT !.isRemainingQuoteWithdrawn = TRUE]]
    BY <1>6 DEF WithdrawRemainingQuote
  <2>2. escrows[b] \in EscrowAccount
    BY <2>1, EscrowHolds
  <2> QED
    BY <2>1, <2>2, KeptPresale DEF Exists, EscrowAccount
<1>7. ASSUME NEW b \in EscrowKeys, Claim(b)
      PROVE  IF k = b
             THEN /\ Exists(k) /\ Progress = "Completed"
                  /\ escrows[k].totalDeposit > 0
                  /\ escrows'[k].registryIndex = escrows[k].registryIndex
                  /\ escrows'[k].totalDeposit = escrows[k].totalDeposit
                  /\ escrows'[k].totalClaimedToken
                        = Released(presale, escrows[k], clock)
             ELSE escrows'[k] = escrows[k]
  <2> DEFINE released == Released(presale, escrows[b], clock)
  <2>1. /\ Exists(b) /\ Progress = "Completed" /\ escrows[b].totalDeposit > 0
        /\ escrows' = [escrows EXCEPT ![b] =
              [escrows[b] EXCEPT !.totalClaimedToken = released]]
    <3>1. escrows[b].totalDeposit > 0
      BY <1>7 DEF Claim
    <3> QED
      BY <3>1, <1>7 DEF Claim
  <2>2. escrows[b] \in EscrowAccount
    BY <2>1, EscrowHolds
  <2> HIDE DEF released
  <2>3. CASE k = b
    <3>1. /\ escrows'[k].registryIndex = escrows[k].registryIndex
          /\ escrows'[k].totalDeposit = escrows[k].totalDeposit
          /\ escrows'[k].totalClaimedToken = released
      BY <2>1, <2>2, <2>3, KeptPresale DEF EscrowAccount
    <3> QED
      BY <2>1, <2>3, <3>1 DEF released
  <2>4. CASE k # b
    BY <2>1, <2>4, KeptPresale
  <2> QED
    BY <2>3, <2>4
<1>8. \/ UNCHANGED escrows
      \/ \E b \in EscrowKeys : \E amount \in Amounts : Moves(b, amount)
      \/ \E b \in EscrowKeys :
            InitializeEscrow(b) \/ CloseEscrow(b)
                \/ WithdrawRemainingQuote(b) \/ Claim(b)
  BY DEF Next, Moves, Tick, CreatorWithdraw, CreatorCollectFee,
         PerformUnsoldBaseTokenAction
<1>9. CASE escrows'[k] = escrows[k]
  BY <1>1, <1>9 DEF Exists
<1>10. ASSUME NEW b \in EscrowKeys, InitializeEscrow(b) \/ CloseEscrow(b)
       PROVE  escrows'[k] = escrows[k]
  BY <1>4, <1>5, <1>10
<1>11. CASE \E b \in EscrowKeys : WithdrawRemainingQuote(b)
  BY <1>1, <1>6, <1>11
<1>12. CASE \E b \in EscrowKeys : Claim(b)
  BY <1>7, <1>9, <1>12
<1> QED
  BY <1>2, <1>3, <1>8, <1>9, <1>10, <1>11, <1>12

\* From the moment something is claimable the schedule stays as it is.
LEMMA ScheduleKept ==
    ASSUME LedgerInv, Next, Decided
    PROVE  SameSchedule(presale', presale) /\ SameTerms(presale', presale)
<1>1. \A b \in EscrowKeys : \A amount \in Amounts : ~Moves(b, amount)
  BY DEF Moves, Deposit, OpenAndDeposit, DepositInto, Withdraw, CanDeposit,
         CanWithdraw, Progress, Decided
<1>2. presale \in PresaleAccounts
  BY SumTypes DEF LedgerInv
<1>3. \/ UNCHANGED presale
      \/ presale' = [presale EXCEPT !.hasCreatorWithdrawn = TRUE]
      \/ presale' = [presale EXCEPT !.depositFeeCollected = TRUE]
      \/ presale' = [presale EXCEPT !.isUnsoldTokenActionPerformed = TRUE]
  BY <1>1 DEF Next, Moves, Tick, InitializeEscrow, Claim, WithdrawRemainingQuote,
              CloseEscrow, CreatorWithdraw, CreatorCollectFee,
              PerformUnsoldBaseTokenAction
<1>4. SameSchedule(presale', presale)
  BY <1>2, <1>3 DEF SameSchedule, PresaleAccounts
<1> QED
  BY <1>4, TermsKept

LEMMA ClaimedWasReleasedStep ==
    ASSUME LedgerInv, ClaimsWithinEntitlement, ClaimedWasReleased, [Next]_vars
    PROVE  ClaimedWasReleased'
<1>1. CASE Next
  <2> SUFFICES ASSUME NEW k \in EscrowKeys, Exists(k)',
                      escrows'[k].totalClaimedToken > 0
               PROVE  /\ EscrowRegistry(presale', escrows'[k]).totalDeposit # 0
                      /\ escrows'[k].totalClaimedToken
                            <= Released(presale', escrows'[k], clock')
    BY DEF ClaimedWasReleased
  <2> DEFINE e == escrows[k]
  <2>1. /\ Exists(k) /\ Progress = "Completed"
        /\ escrows'[k].registryIndex = e.registryIndex
        /\ escrows'[k].totalDeposit = e.totalDeposit
        /\ \/ /\ escrows'[k].totalClaimedToken = e.totalClaimedToken
              /\ e.totalClaimedToken > 0
           \/ /\ e.totalDeposit > 0
              /\ escrows'[k].totalClaimedToken = Released(presale, e, clock)
    BY <1>1, ClaimedBefore
  <2>2. Decided
    BY <2>1 DEF Decided
  <2>3. /\ SameTerms(presale', presale) /\ SameSchedule(presale', presale)
        /\ clock' \in Nat /\ clock <= clock'
    BY <1>1, <2>2, ScheduleKept, TermsKept
  <2>4. /\ Released(presale', escrows'[k], clock') = Released(presale, e, clock')
        /\ EscrowRegistry(presale', escrows'[k]).totalDeposit
                = EscrowRegistry(presale, e).totalDeposit
    BY <2>1, <2>3, ReleasedKept
  <2>5. /\ e \in EscrowAccount /\ presale \in PresaleAccounts /\ clock \in Nat
        /\ e.totalDeposit \in Nat /\ e.totalClaimedToken \in Nat
        /\ e.totalDeposit <= EscrowRegistry(presale, e).totalDeposit
        /\ EscrowRegistry(presale, e).totalDeposit \in Nat
    BY <2>1, EscrowHolds, DepositPart, SumTypes
       DEF LedgerInv, EscrowAccount, PresaleRegistry
  <2>6. /\ EscrowRegistry(presale, e).totalDeposit # 0
        /\ escrows'[k].totalClaimedToken <= Released(presale, e, clock)
        /\ escrows'[k].totalClaimedToken \in Int
    <3>1. CASE /\ escrows'[k].totalClaimedToken = e.totalClaimedToken
               /\ e.totalClaimedToken > 0
      BY <2>1, <2>5, <3>1 DEF ClaimedWasReleased
    <3>2. CASE /\ e.totalDeposit > 0
               /\ escrows'[k].totalClaimedToken = Released(presale, e, clock)
      <4>1. EscrowRegistry(presale, e).totalDeposit # 0
        BY <2>5, <3>2
      <4>2. Released(presale, e, clock) \in Nat
        BY <2>5, <4>1, ReleasedGrows
      <4> QED
        BY <3>2, <4>1, <4>2
    <3> QED
      BY <2>1, <3>1, <3>2
  <2>7. /\ Released(presale, e, clock) \in Nat
        /\ Released(presale, e, clock') \in Nat
        /\ Released(presale, e, clock) <= Released(presale, e, clock')
    BY <2>3, <2>5, <2>6, ReleasedGrows
  <2> HIDE DEF e
  <2> QED
    BY <2>4, <2>6, <2>7
<1>2. CASE UNCHANGED vars
  BY <1>2 DEF vars, ClaimedWasReleased, Exists
<1> QED
  BY <1>1, <1>2

\* What has been claimed never exceeds what has been released, at any time.
LEMMA ClaimedWasReleasedInvariant == Spec => []ClaimedWasReleased
<1>1. Init => ClaimedWasReleased
  BY DEF Init, ClaimedWasReleased, Exists
<1>2. LedgerInv /\ ClaimsWithinEntitlement /\ ClaimedWasReleased /\ [Next]_vars
        => ClaimedWasReleased'
  BY ClaimedWasReleasedStep
<1> QED
  BY <1>1, <1>2, VaultInvariant, PTL DEF Spec

\* The pending claim that a buyer of a presale of one registry reads is never
\* negative, whenever it is read (getPendingClaimableRawAmount): what has been
\* claimed was released by then, and the release only grows.
THEOREM PendingNeverNegativeTheorem == Spec => []PendingNeverNegative
<1>1. ASSUME LedgerInv, Settings, ClaimedWasReleased, SingleRegistry(presale),
             NEW k \in EscrowKeys, Exists(k)
      PROVE  PendingClaimableRawAmount(presale, escrows[k], clock, clock) >= 0
  <2> DEFINE e == escrows[k]
             D == EscrowRegistry(presale, e).totalDeposit
             pending == PendingClaimableRawAmount(presale, e, clock, clock)
  <2>1. PICK i \in RegistryIndex :
           /\ InitializedRegistries(presale) = {i}
           /\ RegistryDeposits[i] = presale.totalDeposit
    BY <1>1, OnlyRegistry
  <2>2. /\ e \in EscrowAccount /\ presale \in PresaleAccounts /\ clock \in Nat
        /\ e.totalClaimedToken \in Nat
    BY <1>1, EscrowHolds, SumTypes DEF LedgerInv, EscrowAccount
  <2>3. D = presale.totalDeposit
    <3>1. k[2] = i
      BY <1>1, <2>1 DEF Settings
    <3>2. EscrowRegistry(presale, e) = presale.presaleRegistries[i]
      BY <1>1, <3>1, DepositPart
    <3> QED
      BY <2>1, <3>2, <1>1, PresaleTypes
  <2>4. \/ pending = 0
        \/ D # 0 /\ pending = Released(presale, e, clock) - e.totalClaimedToken
    BY <2>3 DEF PendingClaimableRawAmount, Released
  <2>5. D # 0 => /\ Released(presale, e, clock) \in Nat
                 /\ e.totalClaimedToken <= Released(presale, e, clock)
    <3>1. D # 0 => Released(presale, e, clock) \in Nat
      BY <2>2, ReleasedGrows
    <3>2. e.totalClaimedToken > 0
            => e.totalClaimedToken <= Released(presale, e, clock)
      BY <1>1 DEF ClaimedWasReleased
    <3> HIDE DEF D, e
    <3> QED
      BY <2>2, <3>1, <3>2
  <2> HIDE DEF pending, D
  <2>6. pending >= 0
    BY <2>2, <2>4, <2>5
  <2> QED
    BY <2>6 DEF pending
<1>2. LedgerInv /\ VaultInv /\ ClaimedWasReleased => PendingNeverNegative
  BY <1>1 DEF PendingNeverNegative, VaultInv, OpenEscrows
<1> QED
  BY <1>2, VaultInvariant, ClaimedWasReleasedInvariant, PTL

---------------------------------------------------------------------------
(* The announced quota *)

\* Whoever pays for all the tokens that are left gets them all.
LEMMA PayingTheRestSellsOut ==
    ASSUME NEW d \in Nat, NEW supply \in Nat, NEW q \in Nat \ {0},
           NEW a \in Nat,
           a = CalculateQuoteTokenWithoutSurplus(
                  QuoteCost(supply - FixedPriceBaseTokenSold(d, supply, q), q), q)
    PROVE  FixedPriceBaseTokenSold(d + a, supply, q) = supply
<1> DEFINE sold == FixedPriceBaseTokenSold(d, supply, q)
           left == supply - sold
           cost == QuoteCost(left, q)
           bought == BaseBought(cost, q)
<1>1. /\ sold \in 0..supply /\ sold * q <= d * Scale
      /\ a = QuoteCost(bought, q)
  BY FixedPriceSold DEF CalculateQuoteTokenWithoutSurplus
<1>2. sold \in Nat /\ left \in Nat /\ sold + left = supply
  BY <1>1
<1> HIDE DEF sold, left
<1>3. cost \in Nat /\ left <= bought
  BY <1>2, QuoteCostProperty, QuoteCostBuys
<1> HIDE DEF cost
<1>4. bought \in Nat
  BY <1>3, BaseBoughtProperty
<1> HIDE DEF bought
<1>5. left * q <= a * Scale
  <2>1. bought * q <= a * Scale
    BY <1>1, <1>4, QuoteCostProperty
  <2>2. left * q <= bought * q
    BY <1>2, <1>3, <1>4, ProductMonotone
  <2>3. left * q \in Int /\ bought * q \in Int /\ a * Scale \in Int
    BY <1>2, <1>4, ScalePositive
  <2> QED
    BY <2>1, <2>2, <2>3
<1>6. supply * q <= (d + a) * Scale
  <2>1. /\ supply * q = sold * q + left * q
        /\ (d + a) * Scale = d * Scale + a * Scale
    BY <1>2, ScalePositive
  <2>2. /\ sold * q \in Int /\ left * q \in Int
        /\ d * Scale \in Int /\ a * Scale \in Int
    BY <1>2, ScalePositive
  <2> QED
    BY <1>1, <1>5, <2>1, <2>2
<1>7. CASE supply = 0
  BY <1>7 DEF FixedPriceBaseTokenSold
<1>8. CASE supply # 0
  <2>1. d + a # 0
    <3>1. supply * q > 0
      BY <1>8
    <3>2. supply * q \in Int /\ (d + a) * Scale \in Int
      BY ScalePositive
    <3>3. (d + a) * Scale # 0
      BY <1>6, <3>1, <3>2
    <3>4. 0 * Scale = 0
      BY ScalePositive
    <3> QED
      BY <3>3, <3>4
  <2>2. supply <= BaseBought(d + a, q) /\ BaseBought(d + a, q) \in Nat
    <3>1. d + a \in Nat /\ (d + a) * Scale \in Nat
      BY ScalePositive
    <3>2. supply <= ((d + a) * Scale) \div q
      BY <1>6, <3>1, FloorIsGreatest
    <3> QED
      BY <3>1, <3>2, BaseBoughtProperty DEF BaseBought
  <2> QED
    BY <1>8, <2>1, <2>2 DEF FixedPriceBaseTokenSold, Least
<1> QED
  BY <1>7, <1>8

\* What is left of an amount after buying with it does not buy another token.
LEMMA SurplusBuysNothing ==
    ASSUME NEW x \in Nat, NEW q \in Nat \ {0}
    PROVE  BaseBought(x - CalculateQuoteTokenWithoutSurplus(x, q), q) = 0
<1> DEFINE b == BaseBought(x, q)
           a == QuoteCost(b, q)
<1>1. b \in Nat /\ x * Scale < b * q + q
  BY BaseBoughtProperty
<1>2. a = CalculateQuoteTokenWithoutSurplus(x, q) /\ a \in Nat /\ a <= x
  BY WithoutSurplusAtMost DEF CalculateQuoteTokenWithoutSurplus
<1> HIDE DEF b
<1>3. b * q <= a * Scale
  BY <1>1, QuoteCostProperty
<1> HIDE DEF a
<1>4. x - a \in Nat /\ (x - a) * Scale \in Nat
  BY <1>2, ScalePositive
<1>5. (x - a) * Scale < 1 * q
  <2>1. x * Scale = (x - a) * Scale + a * Scale
    BY <1>2, ScalePositive
  <2>2. x * Scale \in Int /\ a * Scale \in Int /\ b * q \in Int
    BY <1>1, <1>2, ScalePositive
  <2> QED
    BY <1>1, <1>3, <1>4, <2>1, <2>2
<1>6. ((x - a) * Scale) \div q < 1
  BY <1>4, <1>5, FloorIsBelow
<1>7. ((x - a) * Scale) \div q \in Nat
  BY <1>4, FloorProperty
<1> QED
  BY <1>2, <1>6, <1>7 DEF BaseBought

\* The sums of the mode handler over a single registry.
LEMMA SingleSum ==
    ASSUME NEW i, NEW v \in Int
    PROVE  SumFunction([j \in {i} |-> v]) = v
<1> DEFINE f == [j \in {i} |-> v]
<1>1. IsFiniteSet({i}) /\ i \in {i} /\ f \in [{i} -> Int] /\ f[i] = v
  BY FS_Singleton
<1>2. \A j \in {i} : j # i => f[j] = 0
  OBVIOUS
<1> HIDE DEF f
<1>3. SumFunction(f) = f[i]
  BY <1>1, <1>2, SumOne
<1> QED
  BY <1>1, <1>3 DEF f

\* A buyer who pays the announced quota of a fixed price presale of one
\* registry (getRemainingDepositQuota, suggestDepositAmount of fixed_price.ts)
\* gets all the tokens left or leaves less room than a token costs.
THEOREM QuotaBuysAllThatIsLeftTheorem == Spec => []QuotaBuysAllThatIsLeft
<1>1. ASSUME LedgerInv, Settings, SingleRegistry(presale),
             presale.presaleMode = "FixedPrice",
             NEW i \in InitializedRegistries(presale),
             NEW quota, quota = RemainingDepositQuota(presale),
             NEW amount, amount = HandlerSuggestDepositAmount(presale, quota, quota),
             NEW after, after = Credited(presale, i, amount, 0)
      PROVE  \/ TotalBaseTokenSold(after)
                    = presale.presaleRegistries[i].presaleSupply
             \/ BaseBought(GlobalRemainingQuota(after), presale.qPrice) = 0
  <2> DEFINE r == presale.presaleRegistries[i]
             d == r.totalDeposit
             supply == r.presaleSupply
             q == presale.qPrice
             room == presale.presaleMaximumCap - d
             sold == FixedPriceBaseTokenSold(d, supply, q)
             cost == QuoteCost(supply - sold, q)
  <2>1. /\ presale \in PresaleAccounts /\ i \in RegistryIndex
        /\ r \in PresaleRegistry
        /\ d \in Nat /\ supply \in Nat /\ q \in Nat \ {0}
        /\ presale.presaleMaximumCap \in Nat
    BY <1>1, PresaleTypes DEF PresaleAccounts, PresaleRegistry
  <2>2. InitializedRegistries(presale) = {i} /\ presale.totalDeposit = d
    BY <1>1, OnlyRegistry, PresaleTypes
  <2>3. sold \in 0..supply /\ supply - sold \in Nat
    BY <2>1, FixedPriceSold
  <2>4. room \in Nat /\ cost \in Nat
    <3>1. d <= presale.presaleMaximumCap
      BY <1>1, <2>2 DEF LedgerInv, CapNeverExceeded
    <3>2. room \in Nat
      BY <2>1, <3>1
    <3> HIDE DEF q, sold
    <3> QED
      BY <2>1, <2>3, <3>2, QuoteCostProperty
  <2>5. quota = Least(room, cost)
    <3>1. FixedPriceRegistryQuota(presale, i) = Least(room, cost)
      BY <1>1, <2>2 DEF FixedPriceRegistryQuota, GlobalRemainingQuota,
                        RegistryTotalBaseTokenSold
    <3>2. Least(room, cost) \in Int
      BY <2>4 DEF Least
    <3>3. RemainingDepositQuota(presale)
            = SumFunction([j \in {i} |-> FixedPriceRegistryQuota(presale, i)])
      <4>1. [j \in {i} |-> FixedPriceRegistryQuota(presale, j)]
              = [j \in {i} |-> FixedPriceRegistryQuota(presale, i)]
        OBVIOUS
      <4> QED
        BY <1>1, <2>2, <4>1 DEF RemainingDepositQuota
    <3> QED
      BY <1>1, <3>1, <3>2, <3>3, SingleSum
  <2> HIDE DEF room, cost
  <2>6. /\ quota \in Nat
        /\ amount = CalculateQuoteTokenWithoutSurplus(quota, q)
    BY <1>1, <2>4, <2>5 DEF Least, HandlerSuggestDepositAmount
  <2>7. amount \in Nat /\ amount <= quota
    BY <2>1, <2>6, WithoutSurplusAtMost
  <2>8. /\ after.presaleMaximumCap = presale.presaleMaximumCap
        /\ after.totalDeposit = d + amount
        /\ after.presaleMode = "FixedPrice" /\ after.qPrice = q
        /\ after.presaleRegistries[i].totalDeposit = d + amount
        /\ after.presaleRegistries[i].presaleSupply = supply
        /\ InitializedRegistries(after) = InitializedRegistries(presale)
    BY <1>1, <2>1, <2>2, <2>7
       DEF Credited, CreditedAccount, PresaleAccounts, PresaleRegistry,
           InitializedRegistries, IsInitialized
  <2>9. CASE quota = cost
    <3>1. FixedPriceBaseTokenSold(d + amount, supply, q) = supply
      <4> HIDE DEF d, supply, q
      <4> QED
        BY <2>1, <2>6, <2>7, <2>9, PayingTheRestSellsOut DEF cost, sold
    <3>2. RegistryTotalBaseTokenSold(after, i) = supply
      BY <2>8, <3>1 DEF RegistryTotalBaseTokenSold
    <3>3. TotalBaseTokenSold(after) = SumFunction([j \in {i} |-> supply])
      <4>1. [j \in {i} |-> RegistryTotalBaseTokenSold(after, j)]
              = [j \in {i} |-> supply]
        BY <3>2
      <4> QED
        BY <2>2, <2>8, <4>1 DEF TotalBaseTokenSold
    <3>4. supply \in Int
      BY <2>1
    <3> HIDE DEF supply
    <3>5. TotalBaseTokenSold(after) = supply
      BY <3>3, <3>4, SingleSum
    <3> QED
      BY <3>5 DEF supply
  <2>10. CASE quota = room
    <3>1. GlobalRemainingQuota(after) = room - amount
      <4> HIDE DEF d
      <4> QED
        BY <2>1, <2>7, <2>8 DEF GlobalRemainingQuota, room
    <3> QED
      BY <2>1, <2>4, <2>6, <2>10, <3>1, SurplusBuysNothing
  <2> QED
    BY <2>5, <2>9, <2>10 DEF Least
<1>2. LedgerInv /\ VaultInv => QuotaBuysAllThatIsLeft
  BY <1>1 DEF QuotaBuysAllThatIsLeft, VaultInv
<1> QED
  BY <1>2, VaultInvariant, PTL

---------------------------------------------------------------------------
(* The ledger implements the abstract Sale *)

\* The caps of a presale never change, and the goal is below the maximum.
CapsOrdered == presale.presaleMinimumCap <= presale.presaleMaximumCap

LEMMA CapsKept ==
    ASSUME LedgerInv, [Next]_vars
    PROVE  /\ presale'.presaleMinimumCap = presale.presaleMinimumCap
           /\ presale'.presaleMaximumCap = presale.presaleMaximumCap
<1>1. ASSUME NEW k \in EscrowKeys, NEW amount \in Amounts, Moves(k, amount)
      PROVE  SameSettings(presale', presale)
  <2>1. CASE Deposit(k, amount) \/ OpenAndDeposit(k, amount)
    BY <2>1, AmountsNat, DepositTarget, DepositMoves DEF Charged
  <2>2. CASE Withdraw(k, amount)
    BY <2>2, AmountsNat, WithdrawMoves DEF Charged
  <2> QED
    BY <1>1, <2>1, <2>2 DEF Moves
<1>2. presale \in PresaleAccounts
  BY SumTypes DEF LedgerInv
<1>3. \/ \E k \in EscrowKeys : \E amount \in Amounts : Moves(k, amount)
      \/ UNCHANGED presale
      \/ presale' = [presale EXCEPT !.hasCreatorWithdrawn = TRUE]
      \/ presale' = [presale EXCEPT !.depositFeeCollected = TRUE]
      \/ presale' = [presale EXCEPT !.isUnsoldTokenActionPerformed = TRUE]
  BY DEF Next, Moves, Tick, InitializeEscrow, Claim, WithdrawRemainingQuote,
         CloseEscrow, CreatorWithdraw, CreatorCollectFee,
         PerformUnsoldBaseTokenAction, vars
<1> QED
  BY <1>1, <1>2, <1>3 DEF SameSettings, PresaleAccounts

LEMMA CapsOrderedInvariant == Spec => []CapsOrdered
<1>1. Init => CapsOrdered
  BY PresalesAssumption DEF Init, IsFresh, CapsOrdered
<1>2. LedgerInv /\ CapsOrdered /\ [Next]_vars => CapsOrdered'
  BY CapsKept DEF CapsOrdered
<1> QED
  BY <1>1, <1>2, LedgerInvariant, PTL DEF Spec

\* What a buyer's stake is made of.
LEMMA StakeFields ==
    ASSUME NEW k \in EscrowKeys
    PROVE  SaleStakes[k] =
                [deposit |-> Deposits[k], fee |-> Fees[k],
                 got |-> IF Exists(k) THEN escrows[k].totalClaimedToken ELSE 0,
                 refunded |-> IF Exists(k) THEN escrows[k].isRemainingQuoteWithdrawn
                              ELSE FALSE]
BY DEF SaleStake, SaleStakes, Deposits, Fees

\* The stakes of the buyers whose escrows stay as they are do not change.
LEMMA OneStakeChanges ==
    ASSUME NEW k \in EscrowKeys,
           \A b \in EscrowKeys : b # k => escrows'[b] = escrows[b]
    PROVE  SaleStakes' = [SaleStakes EXCEPT ![k] = SaleStakes'[k]]
<1>1. \A b \in EscrowKeys : b # k => SaleStake(b)' = SaleStake(b)
  BY DEF SaleStake, Exists
<1>2. \A b \in EscrowKeys : b # k => SaleStakes'[b] = SaleStakes[b]
  BY <1>1 DEF SaleStakes
<1>3. /\ SaleStakes' = [b \in EscrowKeys |-> SaleStakes'[b]]
      /\ SaleStakes = [b \in EscrowKeys |-> SaleStakes[b]]
  BY DEF SaleStakes
<1> QED
  BY <1>2, <1>3

LEMMA SameStakes ==
    ASSUME UNCHANGED escrows
    PROVE  SaleStakes' = SaleStakes
BY DEF SaleStakes, SaleStake, Exists

\* The outcome of the sale is open exactly as long as it is not decided.
LEMMA SaleOutcomeValue ==
    /\ SaleOutcome = IF Decided THEN Progress ELSE "Open"
    /\ Progress \in {"NotStarted", "Ongoing", "Completed", "Failed"}
<1>1. Progress \in {"NotStarted", "Ongoing", "Completed", "Failed"}
  BY DEF Progress, PresaleProgressState
<1> QED
  BY <1>1 DEF SaleOutcome, Decided

LEMMA SaleOutcomeNext ==
    /\ SaleOutcome' = IF Decided' THEN Progress' ELSE "Open"
    /\ Progress' \in {"NotStarted", "Ongoing", "Completed", "Failed"}
<1>1. Progress' \in {"NotStarted", "Ongoing", "Completed", "Failed"}
  BY DEF Progress, PresaleProgressState
<1> QED
  BY <1>1 DEF SaleOutcome, Decided

\* What is moved into or out of an escrow is a trade of its buyer.
LEMMA MovedIsTrade ==
    ASSUME LedgerInv, ~Decided, quoteVault \in Int,
           NEW k \in EscrowKeys, NEW e, Holds(k, e),
           IF Exists(k) THEN e = escrows[k]
           ELSE e.totalClaimedToken = 0 /\ ~e.isRemainingQuoteWithdrawn,
           NEW a \in Int, NEW f \in Int, Moved(k, e, a), Charged(k, e, f),
           quoteVault' = quoteVault + a + f, UNCHANGED baseVault,
           Decided' => Progress' = "Completed"
                        /\ presale'.totalDeposit >= presale'.presaleMinimumCap
    PROVE  ASale!Trade(k)
<1>1. /\ SaleOutcome = "Open"
      /\ SaleOutcome' # SaleOutcome =>
            /\ SaleOutcome' = "Completed"
            /\ presale'.totalDeposit >= presale'.presaleMinimumCap
  BY SaleOutcomeValue, SaleOutcomeNext
<1>2. /\ Deposits[k] \in Nat /\ Fees[k] \in Nat
      /\ presale.totalDeposit \in Nat /\ presale.totalDepositFee \in Nat
  BY SumTypes DEF LedgerInv
<1>3. /\ Exists(k)'
      /\ Deposits'[k] = Deposits[k] + a /\ Fees'[k] = Fees[k] + f
      /\ escrows'[k].totalClaimedToken = e.totalClaimedToken
      /\ escrows'[k].isRemainingQuoteWithdrawn = e.isRemainingQuoteWithdrawn
  BY DEF Moved, Charged, Holds, Deposits, Fees
<1> DEFINE got == IF Exists(k) THEN escrows[k].totalClaimedToken ELSE 0
           refunded == IF Exists(k) THEN escrows[k].isRemainingQuoteWithdrawn
                       ELSE FALSE
<1>4. SaleStakes[k] = [deposit |-> Deposits[k], fee |-> Fees[k],
                       got |-> got, refunded |-> refunded]
  BY StakeFields
<1>5. SaleStakes'[k] = [deposit |-> Deposits[k] + a, fee |-> Fees[k] + f,
                        got |-> got, refunded |-> refunded]
  <2>1. SaleStakes'[k] =
            [deposit |-> Deposits'[k], fee |-> Fees'[k],
             got |-> IF Exists(k)' THEN escrows'[k].totalClaimedToken ELSE 0,
             refunded |-> IF Exists(k)' THEN escrows'[k].isRemainingQuoteWithdrawn
                          ELSE FALSE]
    BY DEF SaleStakes, SaleStake, Deposits, Fees
  <2>2. (IF Exists(k)' THEN escrows'[k].totalClaimedToken ELSE 0) = got
    BY <1>3
  <2>3. e.isRemainingQuoteWithdrawn \in BOOLEAN
    BY DEF Holds, EscrowAccount
  <2>4. (IF Exists(k)' THEN escrows'[k].isRemainingQuoteWithdrawn ELSE FALSE)
            = refunded
    BY <1>3, <2>3, Zenon
  <2> QED
    BY <1>3, <2>1, <2>2, <2>4
<1> HIDE DEF got, refunded
<1>6. SaleStakes' =
        [SaleStakes EXCEPT ![k] = [@ EXCEPT !.deposit = SaleStakes'[k].deposit,
                                            !.fee = SaleStakes'[k].fee]]
  <2>1. SaleStakes' = [SaleStakes EXCEPT ![k] = SaleStakes'[k]]
    BY OneStakeChanges DEF Moved
  <2>2. SaleStakes'[k] = [SaleStakes[k] EXCEPT !.deposit = SaleStakes'[k].deposit,
                                               !.fee = SaleStakes'[k].fee]
    <3>1. /\ SaleStakes'[k].deposit = Deposits[k] + a
          /\ SaleStakes'[k].fee = Fees[k] + f
      BY <1>5
    <3>2. [SaleStakes[k] EXCEPT !.deposit = Deposits[k] + a, !.fee = Fees[k] + f]
            = [deposit |-> Deposits[k] + a, fee |-> Fees[k] + f,
               got |-> got, refunded |-> refunded]
      <4>1. [SaleStakes[k] EXCEPT !.deposit = Deposits[k] + a,
                                  !.fee = Fees[k] + f] =
            [[SaleStakes[k] EXCEPT !.deposit = Deposits[k] + a] EXCEPT
                                  !.fee = Fees[k] + f]
        OBVIOUS
      <4>2. [SaleStakes[k] EXCEPT !.deposit = Deposits[k] + a] =
                [deposit |-> Deposits[k] + a, fee |-> Fees[k],
                 got |-> got, refunded |-> refunded]
        BY <1>4
      <4>3. [[deposit |-> Deposits[k] + a, fee |-> Fees[k],
              got |-> got, refunded |-> refunded] EXCEPT !.fee = Fees[k] + f]
                = [deposit |-> Deposits[k] + a, fee |-> Fees[k] + f,
                   got |-> got, refunded |-> refunded]
        OBVIOUS
      <4> QED
        BY <4>1, <4>2, <4>3
    <3> QED
      BY <1>5, <3>1, <3>2, Zenon
  <2>3. SaleStakes = [b \in EscrowKeys |-> SaleStakes[b]]
    BY DEF SaleStakes
  <2> QED
    BY <2>1, <2>2, <2>3
<1>7. /\ presale'.totalDeposit = presale.totalDeposit + a
      /\ presale'.totalDepositFee = presale.totalDepositFee + f
      /\ presale'.presaleMinimumCap = presale.presaleMinimumCap
      /\ SaleTaken' = SaleTaken
  BY DEF Moved, Charged, SameSettings, SaleTaken
<1>8. /\ SaleStakes'[k].deposit = SaleStakes[k].deposit + a
      /\ SaleStakes'[k].fee = SaleStakes[k].fee + f
      /\ SaleStakes[k].deposit \in Int /\ SaleStakes[k].fee \in Int
  BY <1>2, <1>4, <1>5
<1>9. /\ presale'.totalDeposit
            = presale.totalDeposit + SaleStakes'[k].deposit - SaleStakes[k].deposit
      /\ presale'.totalDepositFee
            = presale.totalDepositFee + SaleStakes'[k].fee - SaleStakes[k].fee
  BY <1>2, <1>7, <1>8
<1>10. quoteVault' = quoteVault + (SaleStakes'[k].deposit + SaleStakes'[k].fee)
                                - (SaleStakes[k].deposit + SaleStakes[k].fee)
  BY <1>8
<1> QED
  BY <1>1, <1>6, <1>7, <1>9, <1>10 DEF ASale!Trade, ASale!Paid, ASale!GoalReached

\* A step that moves deposits decides the outcome only when the cap is reached,
\* and the goal with it.
LEMMA MovesDecideEarly ==
    ASSUME LedgerInv, TypeOK', CapsOrdered,
           NEW k \in EscrowKeys, NEW e, NEW a \in Int, NEW f \in Int,
           Moved(k, e, a), Charged(k, e, f), UNCHANGED clock, ~Decided,
           Progress = "Ongoing",
           \/ presale'.presaleEndTime = presale.presaleEndTime
           \/ presale'.totalDeposit >= presale'.presaleMaximumCap
    PROVE  Decided' => Progress' = "Completed"
                        /\ presale'.totalDeposit >= presale'.presaleMinimumCap
<1>1. /\ clock \in Nat /\ presale \in PresaleAccounts /\ presale' \in PresaleAccounts
  BY SumTypes DEF LedgerInv, TypeOK
<1>2. /\ presale.presaleStartTime \in Nat /\ presale.presaleEndTime \in Nat
      /\ presale.presaleStartTime <= clock /\ clock < presale.presaleEndTime
  BY <1>1 DEF PresaleAccounts, Progress, PresaleProgressState
<1>3. presale'.presaleStartTime = presale.presaleStartTime
      /\ presale'.presaleMaximumCap = presale.presaleMaximumCap
      /\ presale'.presaleMinimumCap = presale.presaleMinimumCap
  BY DEF Charged, SameSettings
<1>4. CASE presale'.presaleEndTime = presale.presaleEndTime
  <2>1. Progress' = "Ongoing"
    BY <1>2, <1>3, <1>4 DEF Progress, PresaleProgressState
  <2> QED
    BY <2>1 DEF Decided
<1>5. CASE presale'.totalDeposit >= presale'.presaleMaximumCap
  <2>1. /\ presale'.totalDeposit \in Nat /\ presale.presaleMaximumCap \in Nat
        /\ presale.presaleMinimumCap \in Nat
    BY <1>1 DEF PresaleAccounts
  <2>2. presale'.totalDeposit >= presale'.presaleMinimumCap
    BY <1>3, <1>5, <2>1 DEF CapsOrdered
  <2>3. Decided' => Progress' = "Completed"
    BY <2>2 DEF Decided, Progress, PresaleProgressState
  <2> QED
    BY <2>2, <2>3
<1> QED
  BY <1>4, <1>5

LEMMA DepositIsTrade ==
    ASSUME LedgerInv, Settings, Untouched, CapsOrdered,
           NEW k \in EscrowKeys, NEW amount \in Amounts,
           Deposit(k, amount) \/ OpenAndDeposit(k, amount)
    PROVE  ASale!Trade(k)
<1>1. PICK e : /\ Holds(k, e) /\ DepositInto(k, e, amount)
               /\ IF Exists(k) THEN e = escrows[k]
                  ELSE /\ CanOpen(k) /\ e.totalClaimedToken = 0
                       /\ ~e.isRemainingQuoteWithdrawn
  BY AmountsNat, DepositTarget
<1>2. PICK a \in Nat \ {0}, f \in Nat :
          /\ TypeOK' /\ Moved(k, e, a) /\ Charged(k, e, f)
          /\ quoteVault' = quoteVault + a + f
  BY <1>1, AmountsNat, DepositMoves
<1>3. /\ Progress = "Ongoing" /\ ~Decided /\ UNCHANGED <<clock, baseVault>>
      /\ quoteVault \in Int /\ a \in Int /\ f \in Int
  BY <1>1, <1>2, PresaleTypes DEF DepositInto, CanDeposit, Progress, Decided, Untouched
<1>4. \/ presale'.presaleEndTime = presale.presaleEndTime
      \/ presale'.totalDeposit >= presale'.presaleMaximumCap
  <2> DEFINE paid == SuggestDepositAmount(presale, e, amount)
             fee == DepositFee(presale, k[2], paid)
             credited == Credited(presale, k[2], paid, fee)
  <2>1. presale' = EndedEarly(credited)
    BY <1>1 DEF DepositInto
  <2>2. presale \in PresaleAccounts
    BY PresaleTypes
  <2> HIDE DEF paid, fee
  <2>3. /\ credited.presaleEndTime = presale.presaleEndTime
        /\ credited = [credited EXCEPT !.presaleEndTime = presale.presaleEndTime]
    BY <2>2 DEF Credited, PresaleAccounts
  <2> HIDE DEF credited
  <2> QED
    BY <2>1, <2>3 DEF EndedEarly
<1>5. Decided' => Progress' = "Completed"
                    /\ presale'.totalDeposit >= presale'.presaleMinimumCap
  BY <1>2, <1>3, <1>4, MovesDecideEarly
<1>6. IF Exists(k) THEN e = escrows[k]
      ELSE e.totalClaimedToken = 0 /\ ~e.isRemainingQuoteWithdrawn
  BY <1>1
<1> QED
  BY <1>1, <1>2, <1>3, <1>5, <1>6, MovedIsTrade

LEMMA WithdrawIsTrade ==
    ASSUME LedgerInv, Settings, Untouched, CapsOrdered,
           NEW k \in EscrowKeys, NEW amount \in Amounts, Withdraw(k, amount)
    PROVE  ASale!Trade(k)
<1> DEFINE e == escrows[k]
<1>1. PICK a \in Nat \ {0}, f \in Nat :
          /\ TypeOK' /\ Moved(k, e, -a) /\ Charged(k, e, -f)
          /\ quoteVault' = quoteVault - a - f
  BY AmountsNat, WithdrawMoves
<1>2. /\ Exists(k) /\ Progress = "Ongoing" /\ ~Decided
      /\ UNCHANGED <<clock, baseVault>>
      /\ quoteVault \in Int /\ -a \in Int /\ -f \in Int
  BY PresaleTypes DEF Withdraw, CanWithdraw, Progress, Decided, Untouched
<1>3. Holds(k, e)
  BY <1>2, EscrowHolds
<1>4. presale'.presaleEndTime = presale.presaleEndTime
  BY PresaleTypes DEF Withdraw, Credited, PresaleAccounts
<1> HIDE DEF e
<1>5. quoteVault' = quoteVault + (-a) + (-f)
  BY <1>1, <1>2
<1>6. Decided' => Progress' = "Completed"
                    /\ presale'.totalDeposit >= presale'.presaleMinimumCap
  BY <1>1, <1>2, <1>4, MovesDecideEarly
<1>7. IF Exists(k) THEN e = escrows[k]
      ELSE e.totalClaimedToken = 0 /\ ~e.isRemainingQuoteWithdrawn
  BY <1>2 DEF e
<1> QED
  BY <1>1, <1>2, <1>3, <1>5, <1>6, <1>7, MovedIsTrade

LEMMA CoveredWhenDecided ==
    LedgerInv /\ ClaimsWithinEntitlement /\ VaultInv /\ Decided => PromiseInv /\ Covered
BY DecidedIsCovered DEF PromiseInv, VaultInv

LEMMA DecidedIsCoveredNext ==
    (LedgerInv /\ ClaimsWithinEntitlement /\ VaultInv /\ Decided)'
        => (PromiseInv /\ Covered)'
BY CoveredWhenDecided, PTL

\* What a decided sale has left is never negative.
LEMMA VaultsHold == PromiseInv /\ Covered => quoteVault \in Nat /\ baseVault \in Nat
<1> SUFFICES ASSUME PromiseInv, Covered PROVE quoteVault \in Nat /\ baseVault \in Nat
  OBVIOUS
<1>1. Promises
  BY PromisesByParts
<1>2. QuotePromised \in Nat /\ BasePromised \in Nat
  BY <1>1 DEF Promises, PromiseInv, Decided
<1> QED
  BY <1>2 DEF Covered

LEMMA VaultsHoldNext ==
    (PromiseInv /\ Covered)' => (quoteVault \in Nat /\ baseVault \in Nat)'
BY VaultsHold, PTL

\* The books of a sale are closed when its outcome is decided.
LEMMA SaleDecided ==
    ASSUME LedgerInv, Decided, Next
    PROVE  /\ SaleOutcome = Progress /\ SaleOutcome' = SaleOutcome
           /\ SaleOutcome \in {"Completed", "Failed"}
           /\ presale'.presaleMinimumCap = presale.presaleMinimumCap
           /\ presale'.totalDeposit = presale.totalDeposit
           /\ presale'.totalDepositFee = presale.totalDepositFee
<1>1. Progress' = Progress
  BY OutcomeKept
<1>2. SaleOutcome = Progress /\ SaleOutcome' = SaleOutcome
  BY <1>1, SaleOutcomeValue, SaleOutcomeNext DEF Decided
<1> QED
  BY <1>2, BooksKept DEF Decided, SameBooks, SameTerms

LEMMA ClaimIsDelivery ==
    ASSUME LedgerInv, Decided, Next, NEW k \in EscrowKeys, Claim(k),
           baseVault \in Nat, baseVault' \in Nat
    PROVE  ASale!Deliver(k)
<1> DEFINE e == escrows[k]
           released == Released(presale, e, clock)
           after == [e EXCEPT !.totalClaimedToken = released]
<1>1. /\ Exists(k) /\ Progress = "Completed"
      /\ escrows' = [escrows EXCEPT ![k] = after]
      /\ baseVault' = baseVault - (released - e.totalClaimedToken)
      /\ UNCHANGED <<clock, presale, quoteVault>>
      /\ e.totalDeposit > 0 /\ released > e.totalClaimedToken
  BY DEF Claim
<1>2. e \in EscrowAccount /\ e.totalDeposit = Deposits[k]
  BY <1>1, EscrowHolds
<1>3. released \in Nat
  BY <1>1, <1>2, DepositPart, SumTypes, ReleasedBound DEF LedgerInv
<1> HIDE DEF released
<1>4. /\ after.totalDeposit = e.totalDeposit
      /\ after.totalDepositFee = e.totalDepositFee
      /\ after.isRemainingQuoteWithdrawn = e.isRemainingQuoteWithdrawn
      /\ after.totalClaimedToken = released
      /\ after \in EscrowAccount /\ e.totalClaimedToken \in Nat
  BY <1>2, <1>3 DEF EscrowAccount
<1> HIDE DEF after
<1>5. /\ escrows'[k] = after /\ Exists(k)'
      /\ \A b \in EscrowKeys : b # k => escrows'[b] = escrows[b]
  BY <1>1, <1>4, KeptPresale, NoEscrowAssumption DEF Exists
<1>6. SaleStakes[k] = [deposit |-> e.totalDeposit, fee |-> e.totalDepositFee,
                       got |-> e.totalClaimedToken,
                       refunded |-> e.isRemainingQuoteWithdrawn]
  BY <1>1 DEF SaleStakes, SaleStake
<1>7. SaleStakes'[k] = [deposit |-> e.totalDeposit, fee |-> e.totalDepositFee,
                        got |-> released,
                        refunded |-> e.isRemainingQuoteWithdrawn]
  <2>1. SaleStakes'[k] = [deposit |-> after.totalDeposit,
                          fee |-> after.totalDepositFee,
                          got |-> after.totalClaimedToken,
                          refunded |-> after.isRemainingQuoteWithdrawn]
    BY <1>5 DEF SaleStakes, SaleStake
  <2> QED
    BY <1>4, <2>1, Zenon
<1> HIDE DEF e
<1>8. /\ SaleStakes[k].deposit > 0
      /\ SaleStakes[k].got = e.totalClaimedToken /\ SaleStakes'[k].got = released
  BY <1>1, <1>6, <1>7
<1>9. SaleStakes' = [SaleStakes EXCEPT ![k].got = SaleStakes'[k].got]
  <2>1. SaleStakes' = [SaleStakes EXCEPT ![k] = SaleStakes'[k]]
    BY <1>5, OneStakeChanges
  <2>2. SaleStakes'[k] = [SaleStakes[k] EXCEPT !.got = SaleStakes'[k].got]
    BY <1>6, <1>7, <1>8
  <2>3. SaleStakes = [b \in EscrowKeys |-> SaleStakes[b]]
    BY DEF SaleStakes
  <2> QED
    BY <2>1, <2>2, <2>3
<1>10. SaleTaken' = SaleTaken
  BY <1>1 DEF SaleTaken
<1> QED
  BY <1>1, <1>8, <1>9, <1>10, SaleDecided DEF ASale!Deliver

\* A buyer gets back everything from a failed presale, and from a completed one
\* no more than the deposit and all the fees.
LEMMA RefundBounds ==
    ASSUME LedgerInv, Settings, Decided, NEW k \in EscrowKeys
    PROVE  /\ FullRefund[k] \in Nat
           /\ FullRefund[k] <= Deposits[k] + presale.totalDepositFee
           /\ Progress = "Failed" => FullRefund[k] = Deposits[k] + Fees[k]
<1>1. /\ Deposits \in [EscrowKeys -> Nat] /\ Fees \in [EscrowKeys -> Nat]
      /\ RegistryDeposits \in [RegistryIndex -> Nat]
      /\ RegistryFees \in [RegistryIndex -> Nat]
      /\ SumFunction(RegistryFees) = presale.totalDepositFee
      /\ presale.totalDepositFee \in Nat
      /\ k[2] \in RegistryIndex
  BY PresaleTypes, EscrowTypes DEF LedgerInv
<1>2. FullRefund[k] \in Nat
  BY RefundValue
<1>3. CASE Progress = "Failed"
  <2>1. FullRefund[k] = Deposits[k] + Fees[k]
    BY <1>3 DEF FullRefund
  <2>2. Fees[k] <= SumFunction(Fees) /\ SumFunction(Fees) <= presale.totalDepositFee
        /\ SumFunction(Fees) \in Nat
    BY <1>1, EscrowKeysFinite, SumPart, DepositsGrid
  <2> QED
    BY <1>1, <1>2, <2>1, <2>2
<1>4. CASE Progress = "Completed" /\ ~Oversubscribable
  <2>1. FullRefund[k] = 0
    BY <1>4 DEF FullRefund
  <2> QED
    BY <1>1, <1>4, <2>1
<1>5. CASE Progress = "Completed" /\ Oversubscribable
  <2> DEFINE i == k[2]
  <2>1. FullRefund[k] = QuotePart[k] + FeePart[k]
    BY <1>5 DEF FullRefund
  <2>2. presale.totalDeposit # 0
    BY <1>5, CompletedDeposit
  <2>3. /\ QuoteShares[i] \in Nat /\ FeeShares[i] \in Nat
        /\ QuoteShares[i] <= RegistryDeposits[i] /\ FeeShares[i] <= RegistryFees[i]
        /\ RegistryFees[i] <= presale.totalDepositFee
    BY <1>1, <2>2, RegistryShares, RegistryIndexAssumption, SumPart
  <2>4. /\ QuotePart[k] = IF RegistryDeposits[i] = 0 THEN 0
                          ELSE (QuoteShares[i] * Deposits[k]) \div RegistryDeposits[i]
        /\ FeePart[k] = IF RegistryDeposits[i] = 0 THEN 0
                        ELSE (FeeShares[i] * Deposits[k]) \div RegistryDeposits[i]
    BY <2>2, PartTypes
  <2>5. Deposits[k] <= RegistryDeposits[i]
    <3>1. \A o \in Owners : Deposits[<<o, i>>] <= OfRegistry(Deposits)[i]
      BY <1>1, ColumnTypes
    <3>2. OfRegistry(Deposits)[i] <= RegistryDeposits[i] /\ OfRegistry(Deposits)[i] \in Nat
      BY <1>1, PresaleTypes, ColumnTypes
    <3>3. k[1] \in Owners /\ k = <<k[1], i>>
      BY DEF EscrowKeys
    <3> QED
      BY <1>1, <3>1, <3>2, <3>3
  <2>6. Deposits[k] \in Nat /\ RegistryDeposits[i] \in Nat
        /\ RegistryFees[i] \in Nat
    BY <1>1
  <2> HIDE DEF i
  <2>7. CASE RegistryDeposits[i] = 0
    BY <1>1, <1>2, <1>5, <2>1, <2>4, <2>6, <2>7
  <2>8. CASE RegistryDeposits[i] # 0
    <3>1. RegistryDeposits[i] \in Nat \ {0}
      BY <2>6, <2>8
    <3>2. FeePart[k] \in 0..FeeShares[i]
      BY <2>3, <2>4, <2>5, <2>6, <3>1, ShareAtMost
    <3>3. QuotePart[k] \in 0..Deposits[k]
      <4>1. (Deposits[k] * QuoteShares[i]) \div RegistryDeposits[i] \in 0..Deposits[k]
        BY <2>3, <2>6, <3>1, ShareAtMost
      <4>2. Deposits[k] * QuoteShares[i] = QuoteShares[i] * Deposits[k]
        BY <2>3, <2>6
      <4> QED
        BY <2>4, <3>1, <4>1, <4>2
    <3> QED
      BY <1>1, <1>2, <1>5, <2>1, <2>3, <2>6, <3>2, <3>3
  <2> QED
    BY <2>7, <2>8
<1> QED
  BY <1>3, <1>4, <1>5 DEF Decided

LEMMA RefundIsRefund ==
    ASSUME LedgerInv, Settings, Decided, Next,
           NEW k \in EscrowKeys, WithdrawRemainingQuote(k),
           quoteVault \in Nat, quoteVault' \in Nat
    PROVE  ASale!Refund(k)
<1> DEFINE e == escrows[k]
           after == [e EXCEPT !.isRemainingQuoteWithdrawn = TRUE]
<1>1. /\ Exists(k) /\ ~e.isRemainingQuoteWithdrawn
      /\ escrows' = [escrows EXCEPT ![k] = after]
      /\ quoteVault' = quoteVault
                - WithdrawableRemainingQuoteAmount(presale, e, clock)
      /\ UNCHANGED <<clock, presale, baseVault>>
  BY DEF WithdrawRemainingQuote, CanWithdrawRemainingQuoteAmount
<1>2. /\ e \in EscrowAccount
      /\ e.totalDeposit = Deposits[k] /\ e.totalDepositFee = Fees[k]
  BY <1>1, EscrowHolds
<1>3. WithdrawableRemainingQuoteAmount(presale, e, clock) = FullRefund[k]
  BY <1>1, RefundValue
<1>4. /\ after.totalDeposit = e.totalDeposit
      /\ after.totalDepositFee = e.totalDepositFee
      /\ after.totalClaimedToken = e.totalClaimedToken
      /\ after.isRemainingQuoteWithdrawn = TRUE
      /\ after \in EscrowAccount
  BY <1>2 DEF EscrowAccount
<1> HIDE DEF after
<1>5. /\ escrows'[k] = after /\ Exists(k)'
      /\ \A b \in EscrowKeys : b # k => escrows'[b] = escrows[b]
  BY <1>1, <1>4, KeptPresale, NoEscrowAssumption DEF Exists
<1>6. SaleStakes[k] = [deposit |-> e.totalDeposit, fee |-> e.totalDepositFee,
                       got |-> e.totalClaimedToken,
                       refunded |-> e.isRemainingQuoteWithdrawn]
  BY <1>1 DEF SaleStakes, SaleStake
<1>7. SaleStakes'[k] = [deposit |-> e.totalDeposit, fee |-> e.totalDepositFee,
                        got |-> e.totalClaimedToken, refunded |-> TRUE]
  <2>1. SaleStakes'[k] = [deposit |-> after.totalDeposit,
                          fee |-> after.totalDepositFee,
                          got |-> after.totalClaimedToken,
                          refunded |-> after.isRemainingQuoteWithdrawn]
    BY <1>5 DEF SaleStakes, SaleStake
  <2> QED
    BY <1>4, <2>1, Zenon
<1>8. /\ ~SaleStakes[k].refunded
      /\ SaleStakes[k].deposit = Deposits[k] /\ SaleStakes[k].fee = Fees[k]
  BY <1>1, <1>2, <1>6
<1> HIDE DEF e
<1>9. SaleStakes' = [SaleStakes EXCEPT ![k].refunded = TRUE]
  <2>1. SaleStakes' = [SaleStakes EXCEPT ![k] = SaleStakes'[k]]
    BY <1>5, OneStakeChanges
  <2>2. SaleStakes'[k] = [SaleStakes[k] EXCEPT !.refunded = TRUE]
    <3>1. \A taken : [SaleStakes[k] EXCEPT !.refunded = taken] =
            [deposit |-> e.totalDeposit, fee |-> e.totalDepositFee,
             got |-> e.totalClaimedToken, refunded |-> taken]
      BY <1>6
    <3> QED
      BY <1>7, <3>1, Zenon
  <2>3. SaleStakes = [b \in EscrowKeys |-> SaleStakes[b]]
    BY DEF SaleStakes
  <2> QED
    BY <2>1, <2>2, <2>3
<1>10. SaleTaken' = SaleTaken
  BY <1>1 DEF SaleTaken
<1>11. /\ FullRefund[k] \in Nat
       /\ FullRefund[k] <= Deposits[k] + presale.totalDepositFee
       /\ Progress = "Failed" => FullRefund[k] = Deposits[k] + Fees[k]
  BY RefundBounds
<1>12. quoteVault - quoteVault' = FullRefund[k] /\ quoteVault' >= 0
  BY <1>1, <1>3, <1>11
<1>13. /\ 0 <= quoteVault - quoteVault'
       /\ quoteVault - quoteVault' <= SaleStakes[k].deposit + presale.totalDepositFee
       /\ SaleOutcome = "Failed" =>
            quoteVault - quoteVault' = SaleStakes[k].deposit + SaleStakes[k].fee
  <2>1. SaleOutcome = Progress
    BY SaleDecided
  <2>2. \A refund \in Nat : 0 <= refund
    OBVIOUS
  <2> QED
    BY <1>8, <1>11, <1>12, <2>1, <2>2, Zenon
<1>14. SaleOutcome # "Open"
  BY SaleDecided
<1> QED
  BY <1>1, <1>8, <1>9, <1>10, <1>12, <1>13, <1>14, SaleDecided
     DEF ASale!Refund, ASale!Paid

LEMMA CloseIsLeaving ==
    ASSUME LedgerInv, NEW k \in EscrowKeys, CloseEscrow(k)
    PROVE  ASale!Leave(k)
<1> DEFINE e == escrows[k]
<1>1. /\ Exists(k) /\ CanClose(presale, e, clock)
      /\ escrows' = [escrows EXCEPT ![k] = NoEscrow]
      /\ UNCHANGED <<clock, presale, quoteVault, baseVault>>
  BY DEF CloseEscrow
<1>2. /\ ~Exists(k)'
      /\ \A b \in EscrowKeys : b # k => escrows'[b] = escrows[b]
  BY <1>1, KeptPresale DEF Exists
<1>3. SaleStakes' = [SaleStakes EXCEPT ![k] = ASale!NoStake]
  <2>1. SaleStakes' = [SaleStakes EXCEPT ![k] = SaleStakes'[k]]
    BY <1>2, OneStakeChanges
  <2>2. SaleStakes'[k] = ASale!NoStake
    BY <1>2 DEF SaleStakes, SaleStake, ASale!NoStake
  <2> QED
    BY <2>1, <2>2
<1>4. SaleStakes[k] = [deposit |-> e.totalDeposit, fee |-> e.totalDepositFee,
                       got |-> e.totalClaimedToken,
                       refunded |-> e.isRemainingQuoteWithdrawn]
  BY <1>1 DEF SaleStakes, SaleStake
<1>5. Progress # "Completed" =>
        e.isRemainingQuoteWithdrawn \/ (e.totalDeposit = 0 /\ e.totalDepositFee = 0)
  BY <1>1 DEF CanClose, Progress
<1>6. SaleOutcome # "Completed" => Progress # "Completed"
  BY SaleOutcomeValue DEF Decided
<1> HIDE DEF e
<1>7. SaleOutcome # "Completed" =>
        SaleStakes[k].refunded \/ SaleStakes[k].deposit + SaleStakes[k].fee = 0
  BY <1>4, <1>5, <1>6
<1>8. SaleTaken' = SaleTaken /\ SaleOutcome' = SaleOutcome
  BY <1>1 DEF SaleTaken, SaleOutcome, Progress
<1> QED
  BY <1>1, <1>3, <1>7, <1>8 DEF ASale!Leave, ASale!Paid

\* The creator's three payments.
LEMMA CreatorTakes ==
    ASSUME PromiseInv, Covered, Next,
           quoteVault' \in Nat, baseVault' \in Nat,
           CreatorWithdraw \/ CreatorCollectFee \/ PerformUnsoldBaseTokenAction
    PROVE  ASale!TakeProceeds \/ ASale!TakeFees \/ ASale!TakeUnsold
<1> USE DEF PromiseInv
<1>1. /\ presale \in PresaleAccounts /\ UNCHANGED escrows
      /\ quoteVault \in Nat /\ baseVault \in Nat
  BY PresaleTypes, VaultsHold DEF CreatorWithdraw, CreatorCollectFee,
     PerformUnsoldBaseTokenAction
<1>2. SaleStakes' = SaleStakes
  BY <1>1, SameStakes
<1>3. /\ SaleOutcome = Progress /\ SaleOutcome' = SaleOutcome
      /\ SaleOutcome \in {"Completed", "Failed"}
      /\ presale'.presaleMinimumCap = presale.presaleMinimumCap
      /\ presale'.totalDeposit = presale.totalDeposit
      /\ presale'.totalDepositFee = presale.totalDepositFee
  BY SaleDecided
<1>4. CASE CreatorWithdraw
  <2> DEFINE token == CreatorWithdrawableToken(presale, clock)
  <2>1. /\ ~presale.hasCreatorWithdrawn
        /\ presale' = [presale EXCEPT !.hasCreatorWithdrawn = TRUE]
        /\ quoteVault' = IF token.isBaseToken THEN quoteVault
                         ELSE quoteVault - token.amount
        /\ baseVault' = IF token.isBaseToken THEN baseVault - token.amount
                        ELSE baseVault
    BY <1>4 DEF CreatorWithdraw, CanCreatorWithdraw
  <2>2. /\ presale'.hasCreatorWithdrawn
        /\ presale'.depositFeeCollected = presale.depositFeeCollected
        /\ presale'.isUnsoldTokenActionPerformed
                = presale.isUnsoldTokenActionPerformed
    BY <1>1, <2>1 DEF PresaleAccounts
  <2>3. "proceeds" \notin SaleTaken /\ SaleTaken' = SaleTaken \cup {"proceeds"}
    BY <2>1, <2>2 DEF SaleTaken
  <2>4. IF SaleOutcome = "Completed"
        THEN 0 <= quoteVault' /\ quoteVault' <= quoteVault /\ baseVault' = baseVault
        ELSE baseVault' = 0 /\ quoteVault' = quoteVault
    <3>1. CASE Progress = "Completed"
      <4>1. ~token.isBaseToken
            /\ token.amount = Least(presale.totalDeposit, presale.presaleMaximumCap)
        BY <3>1 DEF CreatorWithdrawableToken, Progress
      <4>2. Least(presale.totalDeposit, presale.presaleMaximumCap) \in Nat
        BY PresaleTypes DEF Least
      <4> QED
        BY <1>1, <1>3, <2>1, <3>1, <4>1, <4>2
    <3>2. CASE Progress = "Failed"
      <4>1. token.isBaseToken /\ token.amount = presale.presaleSupply
        BY <3>2 DEF CreatorWithdrawableToken, Progress
      <4>2. baseVault = presale.presaleSupply
        BY <2>1, <3>2, PromisesByParts DEF Covered, Promises
      <4> QED
        BY <1>1, <1>3, <2>1, <3>2, <4>1, <4>2
    <3> QED
      BY <1>3, <3>1, <3>2
  <2>5. SaleOutcome # "Open"
    BY <1>3
  <2> HIDE DEF token
  <2>6. ASale!TakeProceeds
    BY <1>2, <1>3, <2>3, <2>4, <2>5 DEF ASale!TakeProceeds
  <2> QED
    BY <2>6
<1>5. CASE CreatorCollectFee
  <2>1. /\ ~presale.depositFeeCollected /\ Progress # "Failed"
        /\ presale' = [presale EXCEPT !.depositFeeCollected = TRUE]
        /\ quoteVault' = quoteVault - CollectableFee(presale)
        /\ UNCHANGED baseVault
    BY <1>5 DEF CreatorCollectFee, CanCreatorCollectFee, Progress
  <2>2. /\ presale'.depositFeeCollected
        /\ presale'.hasCreatorWithdrawn = presale.hasCreatorWithdrawn
        /\ presale'.isUnsoldTokenActionPerformed
                = presale.isUnsoldTokenActionPerformed
    BY <1>1, <2>1 DEF PresaleAccounts
  <2>3. "fees" \notin SaleTaken /\ SaleTaken' = SaleTaken \cup {"fees"}
    BY <2>1, <2>2 DEF SaleTaken
  <2>4. SaleOutcome = "Completed" /\ CollectableFee(presale) \in Nat
    BY <1>3, <2>1, CollectableValue
  <2>5. 0 <= quoteVault' /\ quoteVault' <= quoteVault
    BY <1>1, <2>1, <2>4
  <2>6. ASale!TakeFees
    BY <1>2, <1>3, <2>1, <2>3, <2>4, <2>5 DEF ASale!TakeFees
  <2> QED
    BY <2>6
<1>6. CASE PerformUnsoldBaseTokenAction
  <2>1. /\ ~presale.isUnsoldTokenActionPerformed /\ Progress = "Completed"
        /\ presale' = [presale EXCEPT !.isUnsoldTokenActionPerformed = TRUE]
        /\ baseVault' = baseVault - UnsoldBaseToken(presale)
        /\ UNCHANGED quoteVault
    BY <1>6 DEF PerformUnsoldBaseTokenAction
  <2>2. /\ presale'.isUnsoldTokenActionPerformed
        /\ presale'.hasCreatorWithdrawn = presale.hasCreatorWithdrawn
        /\ presale'.depositFeeCollected = presale.depositFeeCollected
    BY <1>1, <2>1 DEF PresaleAccounts
  <2>3. "unsold" \notin SaleTaken /\ SaleTaken' = SaleTaken \cup {"unsold"}
    BY <2>1, <2>2 DEF SaleTaken
  <2>4. SaleOutcome = "Completed" /\ UnsoldBaseToken(presale) \in Nat
    BY <1>3, <2>1, PromisesByParts DEF Promises, UnsoldDue
  <2>5. 0 <= baseVault' /\ baseVault' <= baseVault
    BY <1>1, <2>1, <2>4
  <2>6. ASale!TakeUnsold
    BY <1>2, <1>3, <2>1, <2>3, <2>4, <2>5 DEF ASale!TakeUnsold
  <2> QED
    BY <2>6
<1> QED
  BY <1>4, <1>5, <1>6

\* Time decides an open sale or changes nothing of it.
LEMMA TickDecides ==
    ASSUME LedgerInv, Tick
    PROVE  ASale!Decide \/ UNCHANGED ASale!saleVars
<1>1. UNCHANGED <<presale, escrows, quoteVault, baseVault>>
  BY DEF Tick
<1>2. SaleStakes' = SaleStakes /\ SaleTaken' = SaleTaken
  BY <1>1, SameStakes DEF SaleTaken
<1>3. CASE Decided
  <2>1. SaleOutcome' = SaleOutcome
    BY <1>3, SaleDecided DEF Next
  <2> QED
    BY <1>1, <1>2, <2>1 DEF ASale!saleVars
<1>4. CASE ~Decided /\ ~Decided'
  <2>1. SaleOutcome' = SaleOutcome
    BY <1>4, SaleOutcomeValue, SaleOutcomeNext
  <2> QED
    BY <1>1, <1>2, <2>1 DEF ASale!saleVars
<1>5. CASE ~Decided /\ Decided'
  <2>1. SaleOutcome = "Open" /\ SaleOutcome' = Progress'
    BY <1>5, SaleOutcomeValue, SaleOutcomeNext
  <2>2. Progress' = IF presale.totalDeposit >= presale.presaleMinimumCap
                    THEN "Completed" ELSE "Failed"
    BY <1>1, <1>5 DEF Decided, Progress, PresaleProgressState
  <2> QED
    BY <1>1, <1>2, <2>1, <2>2 DEF ASale!Decide, ASale!GoalReached
<1> QED
  BY <1>3, <1>4, <1>5

\* An escrow that has just been opened is no stake yet.
LEMMA OpeningIsNothing ==
    ASSUME LedgerInv, NEW k \in EscrowKeys, InitializeEscrow(k)
    PROVE  UNCHANGED ASale!saleVars
<1>1. /\ ~Exists(k) /\ CanOpen(k) /\ UNCHANGED <<clock, presale, quoteVault, baseVault>>
      /\ \E e \in NewEscrows(k) : escrows' = [escrows EXCEPT ![k] = e]
  BY DEF InitializeEscrow, CanOpen
<1>2. PICK e \in NewEscrows(k) : escrows' = [escrows EXCEPT ![k] = e]
  BY <1>1
<1>3. /\ escrows'[k] = e
      /\ \A b \in EscrowKeys : b # k => escrows'[b] = escrows[b]
  BY <1>2, KeptPresale
<1>4. /\ e.totalDeposit = 0 /\ e.totalDepositFee = 0
      /\ e.totalClaimedToken = 0 /\ e.isRemainingQuoteWithdrawn = FALSE
  BY DEF NewEscrows
<1>5. SaleStakes' = SaleStakes
  <2>1. SaleStakes[k] = [deposit |-> 0, fee |-> 0, got |-> 0, refunded |-> FALSE]
    BY <1>1 DEF SaleStakes, SaleStake
  <2>2. SaleStakes'[k] = [deposit |-> 0, fee |-> 0, got |-> 0, refunded |-> FALSE]
    <3>1. SaleStakes'[k] = IF ~Exists(k)'
            THEN [deposit |-> 0, fee |-> 0, got |-> 0, refunded |-> FALSE]
            ELSE [deposit |-> e.totalDeposit, fee |-> e.totalDepositFee,
                  got |-> e.totalClaimedToken,
                  refunded |-> e.isRemainingQuoteWithdrawn]
      BY <1>3 DEF SaleStakes, SaleStake
    <3> QED
      BY <1>4, <3>1, Zenon
  <2>3. SaleStakes' = [SaleStakes EXCEPT ![k] = SaleStakes'[k]]
    BY <1>3, OneStakeChanges
  <2>4. SaleStakes = [b \in EscrowKeys |-> SaleStakes[b]]
    BY DEF SaleStakes
  <2> QED
    BY <2>1, <2>2, <2>3, <2>4
<1>6. SaleTaken' = SaleTaken /\ SaleOutcome' = SaleOutcome
  BY <1>1 DEF SaleTaken, SaleOutcome, Progress
<1> QED
  BY <1>1, <1>5, <1>6 DEF ASale!saleVars
\* The start of the ledger is the start of a sale.
LEMMA SaleStarts == Init => ASale!Start
<1> SUFFICES ASSUME Init PROVE ASale!Start
  OBVIOUS
<1>1. presale \in PresaleAccounts /\ IsFresh(presale)
  BY PresalesAssumption DEF Init
<1>2. presale.presaleSupply \in Nat /\ presale.presaleStartTime \in Nat
      /\ presale.presaleEndTime \in Nat
  BY <1>1 DEF PresaleAccounts
<1>3. SaleOutcome = "Open"
  <2>1. clock = 0 /\ 0 < presale.presaleEndTime
    BY <1>1, <1>2 DEF Init, IsFresh
  <2>2. Progress \in {"NotStarted", "Ongoing"}
    BY <1>2, <2>1 DEF Progress, PresaleProgressState
  <2> QED
    BY <2>2 DEF SaleOutcome
<1>4. SaleStakes = [k \in EscrowKeys |-> ASale!NoStake]
  <2>1. \A k \in EscrowKeys : ~Exists(k)
    BY DEF Init, Exists
  <2> QED
    BY <2>1 DEF SaleStakes, SaleStake, ASale!NoStake
<1>5. SaleTaken = {}
  BY <1>1 DEF SaleTaken, IsFresh
<1>6. /\ presale.totalDeposit = 0 /\ presale.totalDepositFee = 0
      /\ quoteVault = 0 /\ baseVault >= 0
  BY <1>1, <1>2 DEF Init, IsFresh
<1> QED
  BY <1>3, <1>4, <1>5, <1>6 DEF ASale!Start

LEMMA UndecidedSaleStep ==
    ASSUME LedgerInv, Settings, Untouched, CapsOrdered, ~Decided, Next
    PROVE  ASale!SaleNext \/ UNCHANGED ASale!saleVars
<1>1. ~CreatorWithdraw /\ ~PerformUnsoldBaseTokenAction /\ ~CreatorCollectFee
  BY PresaleTypes DEF CreatorWithdraw, CanCreatorWithdraw,
     PerformUnsoldBaseTokenAction, CreatorCollectFee, CanCreatorCollectFee, Settings,
     Decided, Progress, PresaleProgressState
<1>2. \A k \in EscrowKeys : ~Claim(k) /\ ~WithdrawRemainingQuote(k)
  BY DEF Claim, WithdrawRemainingQuote, CanWithdrawRemainingQuoteAmount,
         CanWithdrawRemainingQuote, Decided, Progress
<1>3. CASE Tick
  BY <1>3, TickDecides DEF ASale!SaleNext
<1>4. ASSUME NEW k \in EscrowKeys, InitializeEscrow(k)
      PROVE  UNCHANGED ASale!saleVars
  BY <1>4, OpeningIsNothing
<1>5. ASSUME NEW k \in EscrowKeys, NEW amount \in Amounts,
             Deposit(k, amount) \/ OpenAndDeposit(k, amount) \/ Withdraw(k, amount)
      PROVE  ASale!SaleNext
  <2>1. ASale!Trade(k)
    BY <1>5, DepositIsTrade, WithdrawIsTrade
  <2> QED
    BY <2>1 DEF ASale!SaleNext
<1>6. ASSUME NEW k \in EscrowKeys, CloseEscrow(k) PROVE ASale!SaleNext
  <2>1. ASale!Leave(k)
    BY <1>6, CloseIsLeaving
  <2> QED
    BY <2>1 DEF ASale!SaleNext
<1> QED
  BY <1>1, <1>2, <1>3, <1>4, <1>5, <1>6 DEF Next

LEMMA DecidedSaleStep ==
    ASSUME PromiseInv, Covered, Next, (PromiseInv /\ Covered)'
    PROVE  ASale!SaleNext \/ UNCHANGED ASale!saleVars
<1> USE DEF PromiseInv
<1>1. /\ quoteVault \in Nat /\ baseVault \in Nat
      /\ quoteVault' \in Nat /\ baseVault' \in Nat
  BY VaultsHold, VaultsHoldNext
<1>2. ASSUME NEW k \in EscrowKeys, NEW amount \in Amounts
      PROVE  /\ ~Deposit(k, amount) /\ ~OpenAndDeposit(k, amount)
             /\ ~Withdraw(k, amount) /\ ~InitializeEscrow(k)
  BY DEF InitializeEscrow, Deposit, OpenAndDeposit, DepositInto, Withdraw, CanDeposit,
         CanWithdraw, Progress, Decided
<1>3. \A k \in EscrowKeys : ~InitializeEscrow(k)
  BY DEF InitializeEscrow, Decided
<1>4. CASE Tick
  BY <1>4, TickDecides DEF ASale!SaleNext
<1>5. ASSUME NEW k \in EscrowKeys,
             Claim(k) \/ WithdrawRemainingQuote(k) \/ CloseEscrow(k)
      PROVE  ASale!SaleNext
  <2>1. ASale!Deliver(k) \/ ASale!Refund(k) \/ ASale!Leave(k)
    BY <1>1, <1>5, ClaimIsDelivery, RefundIsRefund, CloseIsLeaving
  <2> QED
    BY <2>1 DEF ASale!SaleNext
<1>6. CASE CreatorWithdraw \/ CreatorCollectFee \/ PerformUnsoldBaseTokenAction
  BY <1>1, <1>6, CreatorTakes DEF ASale!SaleNext
<1> QED
  BY <1>2, <1>3, <1>4, <1>5, <1>6 DEF Next

LEMMA SaleStep ==
    ASSUME LedgerInv, ClaimsWithinEntitlement, VaultInv, CapsOrdered, [Next]_vars,
           (LedgerInv /\ ClaimsWithinEntitlement /\ VaultInv)'
    PROVE  [ASale!SaleNext]_(ASale!saleVars)
<1>1. CASE UNCHANGED vars
  <2>1. SaleStakes' = SaleStakes
    BY <1>1, SameStakes DEF vars
  <2> QED
    BY <1>1, <2>1 DEF vars, ASale!saleVars, SaleTaken, SaleOutcome, Progress
<1>2. CASE Next /\ ~Decided
  BY <1>2, UndecidedSaleStep DEF VaultInv
<1>3. CASE Next /\ Decided
  <2>1. Covered /\ PromiseInv
    BY <1>3, DecidedIsCovered DEF VaultInv, PromiseInv
  <2>2. Decided'
    BY <1>3, OutcomeKept DEF Decided
  <2>3. (PromiseInv /\ Covered)'
    BY <2>2, DecidedIsCoveredNext
  <2> QED
    BY <1>3, <2>1, <2>3, DecidedSaleStep
<1> QED
  BY <1>1, <1>2, <1>3

\* Every instruction of the ledger and every second that passes is a step of the
\* abstract sale or none of it: what the SDK's buyers and creators can bring about
\* together is what a sale promises (PresaleWrapper.getPresaleProgressState,
\* EscrowWrapper, tests/utils/actions.ts).
THEOREM ImplementsSaleTheorem == Spec => ImplementsSale
<1>1. LedgerInv /\ ClaimsWithinEntitlement /\ VaultInv /\ CapsOrdered /\ [Next]_vars
        /\ (LedgerInv /\ ClaimsWithinEntitlement /\ VaultInv)'
        => [ASale!SaleNext]_(ASale!saleVars)
  BY SaleStep
<1> QED
  BY <1>1, SaleStarts, VaultInvariant, CapsOrderedInvariant, PTL
     DEF Spec, ImplementsSale, ASale!SaleSpec

=============================================================================
