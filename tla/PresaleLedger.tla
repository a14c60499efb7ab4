---------------------------- MODULE PresaleLedger ----------------------------
(***************************************************************************)
(* One presale on chain: the presale account, its buyers' escrow accounts  *)
(* and the two token vaults, driven by the instructions the SDK builds.    *)
(*                                                                         *)
(* The program is not part of the repository (tests/fixtures holds its     *)
(* binary), so its handlers are external.  They are modelled from the IDL  *)
(* (accounts and error codes), from the wrappers that mirror its           *)
(* preconditions and amounts, and from the balances the repository's tests *)
(* assert after every transaction.  Where these leave an amount open, the  *)
(* action chooses among all the amounts they allow.                        *)
(*                                                                         *)
(* The statistic counters of the accounts are left out: nothing reads      *)
(* them.  Flags are BOOLEAN.  SPL transfers are exact (no transfer fee).   *)
(***************************************************************************)
EXTENDS AccountWrappers

CONSTANTS
    Owners,         \* buyers
    Presales,       \* the freshly created presale accounts to start from
    WhitelistCaps,  \* deposit caps a whitelist may give a buyer
    Amounts,        \* amounts of quote tokens a buyer may ask for
    NoEscrow,       \* the value of an escrow address with no account
    MaxTime         \* bound of the clock

VARIABLES
    clock,          \* the on-chain unix timestamp
    presale,        \* the presale account
    escrows,        \* escrows[<<owner, registryIndex>>]: account or NoEscrow
    quoteVault,     \* tokens in the quote_token_vault
    baseVault       \* tokens in the base_token_vault

vars == <<clock, presale, escrows, quoteVault, baseVault>>

---------------------------------------------------------------------------
(* Accounts *)

\* deriveEscrow: the address is a function of presale, owner, registry index.
EscrowKeys == Owners \X RegistryIndex

EscrowAccount ==
    [registryIndex : RegistryIndex, depositMaxCap : Nat,
     totalDeposit : Nat, totalDepositFee : Nat, totalClaimedToken : Nat,
     isRemainingQuoteWithdrawn : BOOLEAN]

ASSUME OwnersAssumption == IsFiniteSet(Owners)
ASSUME NoEscrowAssumption == NoEscrow \notin EscrowAccount
ASSUME PresalesAssumption ==
    /\ Presales \subseteq PresaleAccounts
    /\ \A p \in Presales : IsFresh(p)
ASSUME WhitelistCapsAssumption == WhitelistCaps \subseteq Nat
ASSUME AmountsAssumption == Amounts \subseteq Nat
ASSUME MaxTimeAssumption == MaxTime \in Nat

TypeOK ==
    /\ clock \in 0..MaxTime
    /\ presale \in PresaleAccounts
    /\ escrows \in [EscrowKeys -> EscrowAccount \cup {NoEscrow}]

Exists(k) == escrows[k] # NoEscrow
Progress == PresaleProgressState(presale, clock)

Init ==
    /\ clock = 0
    /\ presale \in Presales
    /\ escrows = [k \in EscrowKeys |-> NoEscrow]
    /\ quoteVault = 0
    /\ baseVault = presale.presaleSupply

---------------------------------------------------------------------------
(* Instructions *)

\* The escrows that can be opened at address k: create_permissionless_escrow
\* takes the registry's buyer cap, the two permissioned forms a personal cap
\* within the registry's range.
NewEscrows(k) ==
    LET r == presale.presaleRegistries[k[2]]
    IN  {[registryIndex |-> k[2], depositMaxCap |-> cap,
          totalDeposit |-> 0, totalDepositFee |-> 0, totalClaimedToken |-> 0,
          isRemainingQuoteWithdrawn |-> FALSE] :
            cap \in {r.buyerMaximumDepositCap} \cup
                    {c \in WhitelistCaps : /\ r.buyerMinimumDepositCap <= c
                                           /\ c <= r.buyerMaximumDepositCap}}

CanOpen(k) == ~Exists(k) /\ k[2] \in InitializedRegistries(presale)

InitializeEscrow(k) ==
    /\ CanOpen(k)
    /\ Progress = "Ongoing"
    /\ \E e \in NewEscrows(k) : escrows' = [escrows EXCEPT ![k] = e]
    /\ UNCHANGED <<clock, presale, quoteVault, baseVault>>

\* A registry or an escrow with `amount` and `fee` more (or, negative, less)
\* deposited in it, and the presale with that registry i.
CreditedAccount(account, amount, fee) ==
    [account EXCEPT !.totalDeposit = @ + amount, !.totalDepositFee = @ + fee]
Credited(p, i, amount, fee) ==
    [p EXCEPT !.totalDeposit = @ + amount,
              !.totalDepositFee = @ + fee,
              !.presaleRegistries[i] =
                    CreditedAccount(p.presaleRegistries[i], amount, fee)]

\* Reaching the cap ends the presale at once where the mode allows it; lock and
\* vesting start from the new end.
EndedEarly(p) ==
    IF EarlierEndOnceCapReached(p) /\ p.totalDeposit >= p.presaleMaximumCap
    THEN [p EXCEPT !.presaleEndTime = clock,
                   !.vestingStartTime = clock + p.lockDuration]
    ELSE p

DepositFee(p, i, amount) ==
    CalculateDepositFeeIncludedAmount(
        amount, p.presaleRegistries[i].depositFeeBps, "Up") - amount

\* deposit into the escrow e of address k: what is recorded is the suggested
\* amount and the fee on top of it (tests/utils/actions.ts:308-314).
DepositInto(k, e, maxAmount) ==
    LET amount == SuggestDepositAmount(presale, e, maxAmount)
        fee == DepositFee(presale, k[2], amount)
    IN  /\ CanDeposit(presale, clock)
        /\ amount > 0
        /\ e.totalDeposit + amount
                >= presale.presaleRegistries[k[2]].buyerMinimumDepositCap
        /\ presale' = EndedEarly(Credited(presale, k[2], amount, fee))
        /\ escrows' = [escrows EXCEPT ![k] = CreditedAccount(e, amount, fee)]
        /\ quoteVault' = quoteVault + amount + fee
        /\ UNCHANGED <<clock, baseVault>>

Deposit(k, maxAmount) == Exists(k) /\ DepositInto(k, escrows[k], maxAmount)

\* The transaction that Presale.deposit builds for a buyer without an escrow:
\* both instructions take effect or neither.
OpenAndDeposit(k, maxAmount) ==
    /\ CanOpen(k)
    /\ \E e \in NewEscrows(k) : DepositInto(k, e, maxAmount)

\* withdraw: takes out the amount asked for (tests/utils/actions.ts:235) or the
\* amount suggested for it.  The fee on it comes back in proportion; the
\* rounding is open, and an emptied escrow keeps none (canClose asks for zero).
Withdraw(k, maxAmount) ==
    LET e == escrows[k]
    IN  /\ Exists(k)
        /\ CanWithdraw(presale, clock)
        /\ maxAmount <= e.totalDeposit
        /\ \E amount \in {maxAmount,
                          SuggestWithdrawAmount(presale, e, maxAmount)} \ {0} :
           \E fee \in {(e.totalDepositFee * amount) \div e.totalDeposit,
                       CeilDiv(e.totalDepositFee * amount, e.totalDeposit)} :
              /\ presale' = Credited(presale, k[2], -amount, -fee)
              /\ escrows' = [escrows EXCEPT ![k] = CreditedAccount(e, -amount, -fee)]
              /\ quoteVault' = quoteVault - amount - fee
        /\ UNCHANGED <<clock, baseVault>>

\* What a buyer has been released by now: both shares divided among the
\* depositors of the buyer's own registry.
Released(p, e, t) == CumulativeClaimable(p, e, EscrowRegistry(p, e).totalDeposit, t)

\* claim: the claimed total catches up with what has been released.
Claim(k) ==
    LET e == escrows[k]
        released == Released(presale, e, clock)
    IN  /\ Exists(k)
        /\ Progress = "Completed"
        /\ e.totalDeposit > 0
        /\ released > e.totalClaimedToken
        /\ escrows' = [escrows EXCEPT ![k].totalClaimedToken = released]
        /\ baseVault' = baseVault - (released - e.totalClaimedToken)
        /\ UNCHANGED <<clock, presale, quoteVault>>

\* withdraw_remaining_quote
WithdrawRemainingQuote(k) ==
    LET e == escrows[k]
    IN  /\ Exists(k)
        /\ CanWithdrawRemainingQuoteAmount(presale, e, clock)
        /\ escrows' = [escrows EXCEPT ![k].isRemainingQuoteWithdrawn = TRUE]
        /\ quoteVault' = quoteVault
                - WithdrawableRemainingQuoteAmount(presale, e, clock)
        /\ UNCHANGED <<clock, presale, baseVault>>

\* creator_withdraw
CreatorWithdraw ==
    LET token == CreatorWithdrawableToken(presale, clock)
    IN  /\ CanCreatorWithdraw(presale, clock)
        /\ presale' = [presale EXCEPT !.hasCreatorWithdrawn = TRUE]
        /\ quoteVault' = IF token.isBaseToken THEN quoteVault
                         ELSE quoteVault - token.amount
        /\ baseVault' = IF token.isBaseToken THEN baseVault - token.amount
                        ELSE baseVault
        /\ UNCHANGED <<clock, escrows>>

\* The part of a registry's deposit fee that goes back with its surplus.
RegistryRefundFee(p, i) ==
    LET r == p.presaleRegistries[i]
        surplus == Greatest(p.totalDeposit - p.presaleMaximumCap, 0)
        registryShare == (surplus * r.totalDeposit) \div p.totalDeposit
    IN  IF p.presaleMode # "Prorata" \/ r.totalDeposit = 0 THEN 0
        ELSE (r.totalDepositFee * registryShare) \div r.totalDeposit

CollectableFee(p) ==
    p.totalDepositFee - SumFunction([i \in InitializedRegistries(p) |->
                                        RegistryRefundFee(p, i)])

\* creator_collect_fee: the fees that are not owed back to the buyers.
CreatorCollectFee ==
    /\ CanCreatorCollectFee(presale, clock)
    /\ presale' = [presale EXCEPT !.depositFeeCollected = TRUE]
    /\ quoteVault' = quoteVault - CollectableFee(presale)
    /\ UNCHANGED <<clock, escrows, baseVault>>

UnsoldBaseToken(p) == p.presaleSupply - TotalBaseTokenSold(p)

\* perform_unsold_base_token_action: burns or refunds, once.
PerformUnsoldBaseTokenAction ==
    /\ Progress = "Completed"
    /\ ~presale.isUnsoldTokenActionPerformed
    /\ UnsoldBaseToken(presale) > 0
    /\ presale' = [presale EXCEPT !.isUnsoldTokenActionPerformed = TRUE]
    /\ baseVault' = baseVault - UnsoldBaseToken(presale)
    /\ UNCHANGED <<clock, escrows, quoteVault>>

\* close_escrow
CloseEscrow(k) ==
    /\ Exists(k)
    /\ CanClose(presale, escrows[k], clock)
    /\ escrows' = [escrows EXCEPT ![k] = NoEscrow]
    /\ UNCHANGED <<clock, presale, quoteVault, baseVault>>

Tick ==
    /\ clock < MaxTime
    /\ clock' = clock + 1
    /\ UNCHANGED <<presale, escrows, quoteVault, baseVault>>

Next ==
    \/ Tick
    \/ \E k \in EscrowKeys : InitializeEscrow(k)
    \/ \E k \in EscrowKeys : \E amount \in Amounts : Deposit(k, amount)
    \/ \E k \in EscrowKeys : \E amount \in Amounts : OpenAndDeposit(k, amount)
    \/ \E k \in EscrowKeys : \E amount \in Amounts : Withdraw(k, amount)
    \/ \E k \in EscrowKeys : Claim(k)
    \/ \E k \in EscrowKeys : WithdrawRemainingQuote(k)
    \/ \E k \in EscrowKeys : CloseEscrow(k)
    \/ CreatorWithdraw
    \/ CreatorCollectFee
    \/ PerformUnsoldBaseTokenAction

Spec == Init /\ [][Next]_vars
---------------------------------------------------------------------------
(* What must hold *)

OpenEscrows == {k \in EscrowKeys : Exists(k)}
Decided == Progress \in {"Completed", "Failed"}
SingleRegistry(p) == Cardinality(InitializedRegistries(p)) = 1

\* A fixed price or first-come presale never takes more than its cap, whatever
\* the buyers deposit and withdraw in whatever registry: the quotas of the mode
\* handlers and the surplus-free rounding together bound every deposit.
CapNeverExceeded ==
    presale.presaleMode # "Prorata"
        => presale.totalDeposit <= presale.presaleMaximumCap

\* No sequence of suggested deposits and of withdrawals leaves a buyer with
\* more deposited than the cap of the buyer's escrow.
BuyerCapRespected ==
    \A k \in OpenEscrows : escrows[k].totalDeposit <= escrows[k].depositMaxCap

\* A buyer has claimed something only from a completed presale, and never more
\* than getTotalClaimableRawAmount says: the immediate and the dripped share,
\* each rounded on its own, do not add up to more than the whole share.
ClaimsWithinEntitlement ==
    \A k \in OpenEscrows :
        escrows[k].totalClaimedToken > 0 =>
            /\ Progress = "Completed"
            /\ escrows[k].totalClaimedToken
                    <= TotalClaimableRawAmount(presale, escrows[k])

\* A buyer may end up paying for tokens the registry no longer has, but never
\* more than the price of one of them: the last deposit into a fixed price
\* registry is limited by what is left of it, counted from the tokens sold.
OverpaymentBounded ==
    presale.presaleMode = "FixedPrice" =>
        \A i \in InitializedRegistries(presale) :
            LET r == presale.presaleRegistries[i]
            IN  r.totalDeposit <= QuoteCost(r.presaleSupply, presale.qPrice)
                                    + QuoteCost(1, presale.qPrice)

\* What the buyers of a registry overpay together is shared by all of them: the
\* share of a deposit shrinks with every later one, also of a buyer who has not
\* acted since.  Still nobody pays for two tokens more than the share, one to its
\* rounding and one that the registry no longer had.
NobodyIsDiluted ==
    presale.presaleMode = "FixedPrice" =>
        \A k \in OpenEscrows :
            LET claimable == TotalClaimableRawAmount(presale, escrows[k])
            IN  escrows[k].totalDeposit
                    <= QuoteCost(claimable + 1, presale.qPrice)
                         + QuoteCost(1, presale.qPrice)

\* In a fixed price presale of one registry, a buyer without a cap who deposits
\* what getRemainingDepositQuota announces gets every token that is left: then
\* the registry is sold out, or the cap leaves less than a token costs.
QuotaBuysAllThatIsLeft ==
    presale.presaleMode = "FixedPrice" /\ SingleRegistry(presale) =>
        \A i \in InitializedRegistries(presale) :
            LET quota == RemainingDepositQuota(presale)
                amount == HandlerSuggestDepositAmount(presale, quota, quota)
                after == Credited(presale, i, amount, 0)
            IN  \/ TotalBaseTokenSold(after)
                        = presale.presaleRegistries[i].presaleSupply
                \/ BaseBought(GlobalRemainingQuota(after), presale.qPrice) = 0

\* The refunds that the buyers are offered.
RefundsOffered ==
    SumFunction([k \in OpenEscrows |->
        WithdrawableRemainingQuoteAmount(presale, escrows[k], clock)])

\* What the wrappers still promise in quote tokens: to the creator the raised
\* capital and the fees, to every buyer the refund.
QuotePromised ==
    (IF CanCreatorWithdraw(presale, clock)
         /\ ~CreatorWithdrawableToken(presale, clock).isBaseToken
     THEN CreatorWithdrawableToken(presale, clock).amount ELSE 0)
    + (IF Progress = "Completed" /\ ~presale.depositFeeCollected
       THEN CollectableFee(presale) ELSE 0)
    + RefundsOffered

\* What they still promise in base tokens: to every buyer the unclaimed tokens,
\* to the unsold token action the unsold ones, to the creator of a failed
\* presale the whole supply.
BasePromised ==
    IF Progress = "Completed"
    THEN SumFunction([k \in OpenEscrows |->
                        TotalClaimableRawAmount(presale, escrows[k])
                            - escrows[k].totalClaimedToken])
         + (IF presale.isUnsoldTokenActionPerformed
            THEN 0 ELSE Greatest(UnsoldBaseToken(presale), 0))
    ELSE IF CanCreatorWithdraw(presale, clock) THEN presale.presaleSupply ELSE 0

\* Once the outcome is decided the vaults cover everything the wrappers still
\* promise, whoever was paid first: no order of refunds, claims, fee collection
\* and creator withdrawal makes a later one fail.
QuoteVaultCoversPromises == Decided => QuotePromised <= quoteVault
BaseVaultCoversPromises == Decided => BasePromised <= baseVault

\* The buyers of a decided pro rata presale with one registry are not offered
\* more refund than getWithdrawableRemainingRawQuoteAmount says of the presale.
RefundsWithinAnnounced ==
    Decided /\ presale.presaleMode = "Prorata" /\ SingleRegistry(presale) =>
        RefundsOffered <= WithdrawableRemainingRawQuoteAmount(presale, clock)

\* When everyone has been paid, all that is left in the vault is rounding: two
\* lamports for every buyer of a registry at most.
OnlyDustIsStranded ==
    Decided /\ QuotePromised = 0 =>
        quoteVault <= 2 * Cardinality(Owners \X InitializedRegistries(presale))

\* After the immediate release and the end of the vesting, the tokens released
\* to a buyer fall short of the buyer's total by one lamport at most.
VestingReleasesEverything ==
    \A k \in OpenEscrows :
        /\ Progress = "Completed"
        /\ escrows[k].totalDeposit > 0
        /\ clock >= presale.immediateReleaseTimestamp
        /\ clock >= presale.vestingStartTime + presale.vestDuration
        => TotalClaimableRawAmount(presale, escrows[k])
                <= Released(presale, escrows[k], clock) + 1

\* In a presale of one registry the pending claim is never negative, before or
\* after any claim: time only adds to what has been released.
PendingNeverNegative ==
    SingleRegistry(presale) =>
        \A k \in OpenEscrows :
            PendingClaimableRawAmount(presale, escrows[k], clock, clock) >= 0

(* What the documentation and the tests say and the code does not do *)

\* After the lock of a presale without vesting the pending claim is correct
\* (tests/sdk.test.ts:212): it is all that getTotalClaimableRawAmount says the
\* buyer has bought and not claimed, up to one lamport of rounding.
PendingAfterLock ==
    \A k \in OpenEscrows :
        /\ Progress = "Completed"
        /\ presale.vestDuration = 0
        /\ clock >= presale.vestingStartTime
        /\ clock >= presale.immediateReleaseTimestamp
        => TotalClaimableRawAmount(presale, escrows[k])
                - escrows[k].totalClaimedToken
            <= PendingClaimableRawAmount(presale, escrows[k], clock, clock) + 1

---------------------------------------------------------------------------
(* What no step may do *)

\* The outcome of a presale is final: after the end, also after an early end in
\* the middle of a second, no instruction turns a completed presale into a
\* failed or an ongoing one, on which all the refunds and claims depend.
OutcomeIsFinal == [][Decided => Progress' = Progress]_vars

\* canClose never gives up an escrow that is still owed something.
ClosedEscrowIsOwedNothing ==
    [][\A k \in EscrowKeys : Exists(k) /\ ~Exists(k)' =>
        /\ WithdrawableRemainingQuoteAmount(presale, escrows[k], clock) = 0
        /\ Progress = "Ongoing" => escrows[k].totalDeposit = 0
        /\ Progress = "Completed" =>
              TotalClaimableRawAmount(presale, escrows[k])
                = escrows[k].totalClaimedToken]_vars
=============================================================================
