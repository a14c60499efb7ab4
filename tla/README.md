# A TLA+ model of the presale SDK

The presale SDK is a TypeScript client of an on-chain presale program. It creates
presales, opens and funds the escrows of buyers, pays creators and buyers, and - the
larger part of it - *answers questions about accounts it has read*: may this user
deposit, how much of the amount asked for will be taken, what can be claimed now,
what comes back, may this escrow be closed. This directory models those answers, the
ledger they are answers about, and the parts of the SDK that talk to the network
while the ledger moves on.

Contents: 1 the system, 2 the modules, 3 the model-checking runs, 4 the proofs,
5 what the code does otherwise than documented, 6 assumptions and omissions,
7 what comes next.

To run it: `tlc -workers 2 -config MCLedger.cfg MCPresaleLedger` (each `MC*.cfg` of
section 3 with the module named there) and `tlapm PresaleLedgerProofs.tla` (each
module of section 4).

## 1. The system

### Components

| component | source | state it keeps | operations |
|---|---|---|---|
| presale arithmetic | `src/math.ts`, `src/type.ts` | none | `uiPriceToQPrice`, token and price conversions, `calculateMaximumQuoteAmountForPresaleSupply`, minimum quote amount, fee included and excluded, release schedule, lock and vest durations |
| mode handlers | `src/presale_mode_handler/*` | none (the mode's arguments in the presale account) | per mode: remaining quota, quota of a registry, tokens sold, suggested deposit and withdrawal |
| account wrappers | `src/accounts/*` | an immutable decoded account | progress, every `can...` predicate, claimed, claimable, refundable and suggested amounts |
| on-chain presale ledger | *not in the repository* (`tests/fixtures` holds a binary; IDL in `src/idl`) | presale, escrows, two vaults, clock | one instruction per builder in `src/instructions` |
| `Presale` object | `src/presale.ts` | the presale account cached last | `refetchState`, `getPresaleEscrowByOwner`, and one transaction builder per instruction |
| whitelist with Merkle proofs | `libs/merkle_tree/*`, `presale.ts` 530-735 | the caller's array of wallets, root configs on chain, responses on a server | root configs from a list, proofs from a list, escrow creation with a proof |
| account listings | `src/presale.ts`, `src/rpc.ts` 1-40 | replies in flight | `getEscrowsByPresale`, `getEscrowsByPresaleRegistry`, `getPresales`, chunked reads |
| escrow creation without proofs | `src/instructions/initialize_escrow`, `presale.ts` 660-830 and 1164-1215, the signing server of `examples/deposit/permissioned_with_authority_deposit.ts` | operators and server metadata on chain, a list on each server, calls under way | permissionless opening; operators appointed and revoked, servers announced and withdrawn, escrows opened by signature |
| transaction building | `src/rpc.ts` 41-81, `presale.ts` 191-228, `src/token.ts` | transactions built and not landed | account resolution, wrapping and unwrapping SOL, simulation, compute-unit limit, blockhash, landing or expiry |
| presale initialization | `src/instructions/initialize_presale/*`, `presale.ts` 293-445 | presales, fixed price arguments in accounts of their own | one creation per mode, closing of the arguments |
| instruction builders | `src/instructions` | none | name the accounts of an instruction |
| Token-2022, addresses, IDL | `src/token2022.ts`, `src/pda.ts`, `src/idl` | none | transfer fees, transfer hooks, addresses |

### How they interact

A `Presale` object reads accounts over RPC, wraps them (wrappers ask the mode handler,
the handler asks the arithmetic), and builds transactions. Nothing orders a
transaction against other users' transactions, nor a reply against other replies: the
methods of one object are `async` and share `this.presaleAccount`. The program applies
its own version of the wrappers' arithmetic to the accounts *of the moment the
transaction lands*. The whitelist's three calls - roots, proofs, escrow creation - are
made at different times by different people and agree only through a list, a tree size
and a version number. With operators, a deposit goes through four parties: the buyer's
object reads the announced server, the server consults its list and the chain and signs,
the buyer sends, and the program asks whether the signer is still an operator.

### What is hard in it, and what makes it correct

* **Sums of rounded parts.** Everything is a chain of floors and ceilings: price times
  scale, fee in basis points, share of a registry, share of a presale, vesting seconds.
  Paid in any order by different people, the parts must never exceed the whole, and
  must not leave more than dust. (`...VaultCoversPromises`, `OnlyDustIsStranded`,
  `RefundsWithinAnnounced`, `ClaimsWithinEntitlement`, `VestingReleasesEverything`)
* **Limits that every step moves.** The amount a buyer may still deposit depends on the
  cap of the presale, the supply of the registry and the cap of the buyer, all less what
  is there; withdrawals give it back. (`CapNeverExceeded`, `BuyerCapRespected`,
  `NobodyIsDiluted`, `OverpaymentBounded`, `QuotaBuysAllThatIsLeft`)
* **An outcome computed, not stored.** Completed or failed is a function of account and
  clock; a cap reached ends the presale within a second in which others deposit,
  withdraw and claim. (`OutcomeIsFinal`, `ClosedEscrowIsOwedNothing`, `ImplementsSale`)
* **Stale reads.** The object decides from a cached account what goes into a
  transaction. (`DecidedCacheIsRight`, `ViewIsConsistent`, `WrappedSolCoversDeposit`)
* **Accounts that come and go.** Every deposit of SOL closes the token account that
  other transactions, already built, pay into. (`OnlyTheLedgerRefuses`,
  `DepositReturnsTheRest`)
* **Retries.** Whatever is built may land late, twice under other terms, or never, and
  is then called again. (`TermsOfOneCall`, `SupplyTakenOnce`, `CreatorGetsThePresale`,
  `CallerGetsThrough`)
* **Signatures that outlive what they rest on.** A server signs for an operator who may
  be revoked before the transaction lands. (`DepositsWithinListing`,
  `ListedBuyersGetIn`)
* **Two-step reads.** Addresses are listed, then read in chunks, beside a ledger that
  opens and closes escrows. (`PairsWereThere`, `ListingIsComplete`)
* **Separately computed halves.** Proofs must fit roots computed by another call.
  (`ListedWalletsAreAdmitted`, `EscrowsWereListed`)

`PROJECT.json` lists every hazard at its line with the properties that would catch it.

## 2. The modules

| module | models | extends |
|---|---|---|
| `PresaleMath` | `math.ts`: floors, ceilings, prices, fees, release schedule | - |
| `ModeHandlers` | the three handlers: quotas, tokens sold, suggestions | `PresaleMath` |
| `AccountWrappers` | the presale accounts; presale, registry and escrow wrappers as operators over them | `ModeHandlers` |
| `PresaleLedger` | the accounts, the vaults, the clock; one action per instruction | `AccountWrappers` |
| `Sale` | the abstract promise of a sale, without modes, prices or clock | - |
| `LedgerRefinement` | the ledger read as a `Sale` | `PresaleLedger`, instance of `Sale` |
| `TransferFees` | transfer fees of Token-2022 mints | `PresaleMath` |
| `UiPrices` | `uiPriceToQPrice` with the precision of a `Decimal` | `PresaleMath` |
| `PriceQuotes` | one call of each pricing and fee helper over enumerated inputs | `TransferFees`, `UiPrices` |
| `PresaleInitialization` | creation of presales, their fixed price arguments, retries | `AccountWrappers` |
| `Operators` | operators, their servers, signed transactions beside the ledger | `PresaleLedger` |
| `InstructionAccounts` | the accounts of every instruction and those its builder names | - |
| `TransactionBuilding` | a method call from its accounts to landing, with failing requests | `InstructionAccounts` |
| `PresaleClient` | one `Presale` object with overlapping calls beside the ledger | `PresaleLedger` |
| `MerkleTree` | `libs/merkle_tree`: leaves, layers, proofs, verification | - |
| `Whitelist` | list, root configs, responses, escrows with proofs | `MerkleTree` |
| `PresaleTransactions` | the transactions the object builds, their signers' token accounts, and the moment they land | `PresaleLedger` |
| `EscrowListing` | addresses, chunked reads, decoding, beside the ledger | `PresaleLedger` |
| `MC...` | accounts and lists for TLC | the module of that name |
| `...Proofs` | theorems, section 4 | what they are about |

**State and code.** `presale` and `escrows[k]` are the decoded accounts with the IDL's
field names; the address `k` of an escrow is its seeds, owner and registry index
(`deriveEscrow`). `NoEscrow` is an address without account. `quoteVault` and
`baseVault` are the balances of the two vaults. The statistic counters nothing reads
are left out. BN has no width: numbers are unbounded, and `2^64` is the constant
`Scale`, 10000 basis points the constant `BpsBase`. `U64Max` is only the answer "no
limit" of a handler.

**Actions and code.** Every action of `PresaleLedger` is one instruction (or, for
`OpenAndDeposit`, the one transaction that holds two): the guard is the wrapper's
predicate, the amount is the wrapper's amount, and the bookkeeping is what the tests of
the repository assert after that transaction. Where the repository leaves an amount open
- the fee that comes back with a withdrawal - the action chooses among all roundings. An
early end is part of the deposit that causes it. In `PresaleClient`, an `async` method
is two actions, one per side of its `await`; what runs between a reply and the next
`await` is one action: `LookUpEscrow` asks for the escrow, `BuildDeposit` wraps what the
account cached by then asks for. A transaction is built in one action and lands in another, any
time later or never (`Lose`). In `PresaleTransactions` every builder is an action; what
it built is a sequence of instructions that `LandTransaction` executes as one, on the
token accounts of its signer, around the ledger's own action. In `EscrowListing`, the
read of each chunk is an action, in any order, or fails and with it the listing. In
`Whitelist`, creating the configs, landing each, closing one, serving responses and
opening an escrow are actions of their own. In `PresaleInitialization` the instructions
of a transaction are folded over the accounts and take effect together or not at all. In
`Operators` a call of `deposit` is a small machine per escrow address: look up the
escrow, fetch the metadata, the server's two steps around its own lookup and blockhash;
each may be the last. In `TransactionBuilding` the control of one call is the variable
`stage`, and the accounts of an instruction are found one at a time from those already
known, as Anchor does.

**The abstract sale.** `Sale` says what a presale owes to whom and nothing of how it is
computed: paid in while open, decided once and by the deposits that are there, delivered
and refunded only as the outcome says, every payment made once and out of what is there,
everything paid back if it failed. A buyer of a completed sale gets back at most the
deposit and what is in the buyers' fees, not at most the own payment: fees are pooled
(section 5). `LedgerRefinement` maps the progress computed from account and clock to its
outcome, escrows to stakes, the creator's three flags to what was taken and the vaults
to pot and stock; `ImplementsSale` is checked as a property of the ledger's run, and
proved.

**Mutants.** Next to a definition there may be a second one marked `Mutant:`; it is
that definition with a plausible mistake. No specification uses it. `PROJECT.json`
names, for every property of every passing run, the mutant that breaks it: each
property has been seen to fail for a reason.

## 3. The model-checking runs

### Runs that pass

| cfg | module | checks | states |
|---|---|---|---|
| `MCLedger` | `MCPresaleLedger` | `TypeOK`, fourteen properties of the ledger, `ImplementsSale` | 646,521 |
| `MCPriceQuotes` | `PriceQuotes` | six properties of the roundings of the pricing and fee helpers | 7,800 |
| `MCClient` | `MCPresaleClient` | `DecidedCacheIsRight`, `ViewIsConsistent`, `WrappedSolCoversDeposit` | 991,533 |
| `MCWhitelist` | `MCWhitelist` | `ListedWalletsAreAdmitted`, `EscrowsWereListed` | 441,655 |
| `MCTransactions` | `MCPresaleTransactions` | `OnlyTheLedgerRefuses`, `DepositReturnsTheRest` | 279,930 |
| `MCListing` | `MCEscrowListing` | `PairsWereThere`, `ListingIsComplete` | 509,362 |
| `MCBuilding` | `MCTransactionBuilding` | `ThrowsHaveACause`, `CallerGetsThrough` | 28,116 |
| `MCInitialization` | `MCPresaleInitialization` | `InitializedIsFresh`, `SupplyTakenOnce`, `TermsOfOneCall`, `CreatorGetsThePresale` | 18,495 |
| `MCOperators` | `MCOperators` | `DepositsWithinListing`, `ListedBuyersGetIn` | 50,904 |

The type invariant of the ledger is checked and proved. Those of the other modules
(`ClientTypeOK`, `OperatorsTypeOK`, `TypeOK`) say what their variables hold and are no
properties of the runs.

**What they show, and why the bounds are enough.**

*`MCLedger`.* Nine presales with one registry in use: six with a fixed price (3/4, 5/4 and 11/4
of a quote lamport per base lamport; with and without early end, withdrawal, lock and
vesting; one whose cap is above the price of its supply), two first-come (with and
without early end), one pro rata that may be oversubscribed, completed or failed. The
scale of 4 keeps every rounding of the code: prices on both sides of one, prices and
fees (1/10, 3/10) that do not divide the amounts. Two buyers, because every quantity
shared is either the presale's or one buyer's share of it: a second buyer is what a
first can be first of. Amounts go up to 8, so that each handler clips what is asked for
by the quota, by the buyer's cap and not at all; the price 11/4, under caps of 15 and
30, is sold out by several deposits. The clock runs from before the start (0) over the
sale (1), end and immediate release (2), lock (until 3) to the end of the vesting (5).
A personal cap of 2 stands beside the registry's own.

To these come a pro rata and a fixed price presale over two registries with different
fees, supplies and caps, for everything that is a sum over registries or a share of one;
and a pro rata presale with a small cap, where many deposits of one, each with its fee
rounded up to one, and a large one share the surplus fees by deposit.

*`MCPriceQuotes`.* Every price up to 16 or, in tenths, up to 1.6, both roundings, every fee
up to 6/10 and every amount up to 12 at scale 16: the price helpers against their
definitions by least and greatest; and every transfer fee rate with every maximum,
before and after an epoch that raises the rate to 100%. A decimal has two digits here
and 20 in the code, so that the product of price and scale, as there, mostly has more
digits than are kept: it is rounded first to the nearest and then up or down. Without
the half unit that `PriceNearItsSide` allows it would fail, with the roundings exchanged
it fails. The theorems of section 4 lift all bounds of the other five.

*`MCClient`.* Two callers are enough for any two calls to overtake one another, and
for a transaction to be built by one before and landed after what the other does. The
other users of the ledger (`Others`) make any step of it at any moment. One buyer,
because the object treats owners alike. The presales are open for one second with a
minimum one deposit may or may not reach, so both outcomes happen after any read.

*`MCTransactions`.* Up to three built transactions at a time, of one buyer and the
creator: enough for a deposit to unwrap, and so close, the token account that a
withdrawal built before it is going to need, with a third payment in between; and for
a deposit to be clipped to less than it wrapped by another of the same buyer. The quote
token is wrapped SOL or another. A fee of 3/10 makes the two roundings of a deposit -
what the object wraps, what the program takes - fall apart in every way they can. Time
runs past the end, so that the fee can be collected, unsold tokens be given back and
both outcomes be paid. `OnlyTheLedgerRefuses` asks of each built transaction, in every
state it may land in, that the token accounts bear it: whoever has the money is
refused by the program's rules or not at all.

*`MCWhitelist`.* Lists that differ in order, in a repetition and in one cap, and a list
of five with a wallet that has two caps and a place in two registries. Trees of at most
four or five: a tree of five has layers of 5, 3 and 2, so that the unpaired last
element climbs two levels; of the list of five, a tree of four leaves a tree of one.
Hashes are symbolic (equal only if made from equal things) and compare by an arbitrary
order `SampleRank` that agrees neither with the accounts nor with the caps.

*`MCListing`.* Two buyers, two registries and so up to four escrows in chunks of two: two
chunks read in either order, or a partial one, while escrows are opened, funded, emptied
and closed, for a listing of everything or of one registry. The clock stands: time
changes nothing a listing looks at.

*`MCBuilding`.* Every method but `closeMerkleRootConfig` (section 5), over mints of the
token program. Compute units in tens of thousands: a cost below and one above what one
instruction has by default, one that needs the simulation, and one so near the maximum
that the tenth on top is cut. Two changes, of the cost or the outcome by others or of the
switch by the caller, let an estimate be too small, be made anew and be too small again,
or a creator withdrawal be called before the end, again after it, and once more with an
older account in the cache.

*`MCInitialization`.* Two base keys, so that closing the arguments of one must not touch
the other's; four terms, of which two differ in the price, one has the price 0 that
`uiPriceToQPrice` answers for unrepresentable ones, and one is pro rata without lock;
funds for two presales and no third; two transactions under way, so that any two calls
overtake each other.

*`MCOperators`.* One buyer, two registries and two candidates whose lists differ in cap
and registry, one cap above what the registry allows; two calls or transactions under
way, so that one is signed while another lands, and the escrow is opened, funded, emptied,
closed and opened by the other operator. The clock stands while the presale is open.

Deadlock is checked in `MCWhitelist`, `MCListing`, `MCInitialization` and `MCOperators`.
In the ledger, client and transaction runs it is not, for a presale may really be over:
everyone is paid, every escrow closed, and the bounded clock stands; a quote is a single
call, and a landed transaction is the end of its building. Symmetry is over the buyers of
the ledger and the callers of the object; no property names one.

**Fairness.** The SDK acts when its caller does: it has no scheduler, retry or timer. In
the ledger, client, transaction, whitelist and listing runs there is nothing to be fair
to and no liveness is claimed; what would be liveness elsewhere ("the last buyer can
still be paid") is safety: the vault covers all that is promised, in every state. Three
liveness properties are claimed of a *persistent caller*, who calls again whenever a call
threw or a transaction expired:

* `CallerGetsThrough`: the method's transaction lands. Fair are the caller, the steps of
  a call that wait for nothing (`WF`), and the simulation and the landing, of which not
  all are lost (`SF`); a built transaction lands or expires (`WF` of `Lapse`, the
  blockhash has a last valid height). Assumed in the formula: the optimization stays on,
  requests stop failing, and for a creator withdrawal it stays so that the presale is
  decided (`HasOutcome`), without which its builder throws.
* `CreatorGetsThePresale`: the presale the creator wants exists in the end, however many
  leftover arguments or expired calls are in the way, unless someone makes arguments
  anew for ever.
* `ListedBuyersGetIn`: a listed buyer gets an escrow once it stays so that the announced
  server is that of an operator. The example's caller is one call; the property is about
  repeating it.

Strong fairness is needed because a lost request or an expired transaction disables the
step until it is called again. No fairness is assumed of the creator's appointments, of
revocations, of other users or of the clock.

### Runs that end in a violation

Each checks a sentence of the repository's documentation or tests against what the code
does; see section 5.

| cfg | module | property |
|---|---|---|
| `MCDocPending` | `MCPresaleLedger` | `PendingAfterLock` |
| `MCDocListing` | `MCEscrowListing` | `ListingResolves` |
| `MCDocBuilders` | `MCTransactionBuilding` | `ThrowsHaveACause` |

## 4. The proofs

All proved by TLAPS, for every value of the constants that satisfies the named
assumptions: any scale and basis, any finite sets of buyers and of registries, any
presales that are fresh (`IsFresh`: as initialization leaves them), any amounts and caps
in `Nat`. That presales are fresh is an assumption of the ledger and a theorem of the
initialization (`InitializedIsFreshTheorem`).

**Arithmetic (`PresaleMathProofs`).** Floors and ceilings, prices, fees; and sums.
`SumFunction` recurs over the subsets of its domain; what it does is proved once by
induction over finite sets in first-order form (`SubsetInduction`: a set of subsets that
has the empty one and every subset whose smaller ones it has is all of them, because the
strict subset ordering is well founded). From it follows that sums exist, split, change
with one part, scale, are monotone, and can be taken by column (`SumByColumn`).

**The ledger (`PresaleLedgerProofs`).** `TypeOK` is not inductive: a withdrawal
subtracts from the totals of registry and presale, which stay in `Nat` only because they
cover the escrows' deposits; and the price of a registry is only kept because each
deposit is the suggested one. `LedgerInv` adds that the parts add up on three levels
(`TotalsAddUp`: buyers within their registry, registries exactly to the presale; a
closed escrow's deposit stays in the totals), that no escrow is above its cap, that the
cap of the presale holds, and that fixed price registries hold no more than their tokens
cost. There is one lemma per action, on top of lemmas about what a suggested deposit can
be (`SuggestedDeposit`) and about floors and ceilings. From it: `TypeOKTheorem`,
`CapNeverExceededTheorem`, `BuyerCapRespectedTheorem`. Then the outcome: a decided
presale is over for every guard that moves a deposit (`DecidedIsOver`), so its progress
cannot change (`OutcomeIsFinalTheorem`); the last deposit into a fixed price registry is
bounded by what is left of it (`OverpaymentBoundedTheorem`), so all deposits of the
registry together are at most the price of one token above what was sold for them, and
the share of each buyer, rounded down, is less than two of what the own deposit costs
(`NobodyIsDilutedTheorem`); the two released shares, each rounded down, never exceed the
one floor of the whole while claimable totals never shrink
(`ClaimsWithinEntitlementTheorem`); after the vesting they fall short of it by at most
one lamport (`VestingReleasesEverythingTheorem`, from the lemma on the floor of a sum);
and `canClose` leaves nothing behind (`ClosedEscrowIsOwedNothingTheorem`).

**The vaults (`PresaleLedgerProofs`, second part).** What a vault holds is a matter of
history, what it owes a sum of computed amounts; `VaultInv` relates them. Before the
outcome the vault holds exactly what the accounts record (`Untouched`). At the moment it
is decided, what is owed follows from shares of shares: an amount divided among the
registries and then among the buyers of each, rounded down at both levels, never adds up
to more (`DividedAtMost`) and falls short by less than one for every division
(`DividedAtLeast`; `Dust` counts two for each buyer and registry). From then on
`Covered` says that each vault holds what is owed to buyers and creator, the quote vault
at most dust besides and the base vault of a failed presale nothing, and it is kept
because every payment takes from the vault what it takes off the promises (`Balanced`:
one lemma for the creator's steps, one for the buyers', one for those of closed and
opened escrows). From it: `QuoteVaultCoversPromisesTheorem`,
`BaseVaultCoversPromisesTheorem`, `OnlyDustIsStrandedTheorem`. The other three
properties need less than that: `RefundsWithinAnnouncedTheorem` that rounding shares is
below rounding their sum; `PendingNeverNegativeTheorem` that what was claimed had been
released at some moment and that releases grow with the clock (`ClaimedWasReleased`);
`QuotaBuysAllThatIsLeftTheorem` that the quota of a fixed price registry is the cost of
what it has left.

**The refinement (`PresaleLedgerProofs`, last part).** `ImplementsSaleTheorem` is `Spec =>
ImplementsSale` with a lemma per kind of step: what moves a deposit is a `Trade`, and ends
the sale only with the goal reached because the caps of a presale are ordered
(`CapsOrdered`); a claim is a `Deliver`, which the stock covers because the vault does
(`VaultsHold`); a refund is the whole payment of a failed presale, and in a completed one
within deposit and pooled fees (`RefundBounds`); closing is a `Leave` with nothing owed;
the clock may `Decide`; opening an escrow changes nothing of the sale.

**Initialization (`PresaleInitializationProofs`).** The invariant is that the accounts
are good - every presale fresh, every vault the supply taken for it, and all of them
together with the fee payer's rest the funds there were - and that every call under way
sent the instructions its builder makes. A transaction's instructions are folded;
`FoldOne` and `FoldTwo` say what that gives for one and two, of which the creation of a
fixed price presale has two. From it `InitializedIsFreshTheorem`,
`SupplyTakenOnceTheorem`, and `TermsOfOneCallTheorem`: a presale has the terms of one
call, also when the arguments of an earlier one were there.

**Listings (`PresaleReadsProofs`, second part).** The invariant of a listing: what was
seen at an address begins with what the ledger held there, every address that has had an
escrow since the listing began is listed once, and what a chunk answered was seen at its
addresses. Lemmas on the chunks - every address is in exactly one place of one chunk, no
place is beyond the list - carry it over to the result: `PairsWereThereTheorem`,
`ListingIsCompleteTheorem`.

**Pricing (`PriceQuotesProofs`).** The suggested cap never oversells, and what it
leaves unsold costs at most one quote lamport; the surplus-free suggestion is the
cheapest deposit for its tokens; the fee-included amount and the minimum quote amount
(`MinimumQuoteIsLeast`, in no run) are the least that do. The inverse of a transfer fee, rounded twice and capped, is exact too (`TransferFeeIncludedIsLeastTheorem`): by
cases on which of rate and maximum decides for the amount and for its inverse.

**The object (`PresaleReadsProofs`, first part).** Its invariant says that every account in the
cache or in flight was read at some moment of the same ledger (`RightlyRead`: if it was
decided then, its outcome is that of now), that fees never change (`FeesRead`), that an
escrow read together with a presale is part of it (`PartOf`), and that a deposit wraps
what the fee of the ledger asks for. From it `ClientImplementsLedger`
(`ClientSpec => Spec`: beside any callers every ledger theorem holds) and the three
properties of `MCClient`.

**Transactions (`TransactionLandingProofs`, second part).** The instructions of a
transaction are folded over the wallet of its signer; `OneAfterTheOther` turns the fold
of at most four of them into the wallets in between, from which `TransferEffect` and
`WrappedTransferEffect` say what the two forms that builders make leave behind.
`TransactionsInv` adds to the ledger's invariants that token accounts hold amounts
(`WalletsHold`) and that what is built has the instructions of its method, a deposit of
SOL with exactly the wrapped amount the ledger asks for now (`AsBuilt`: kept because
fees never change, while accounts, balances and deposits do). From it
`TransactionsImplementLedger` (`TransactionsSpec => Spec`);
`OnlyTheLedgerRefusesTheorem`, because the fee-included amount grows with the amount
(`Charge`) and every account is created where it is missing; and
`DepositReturnsTheRestTheorem`, because nothing but a deposit fills the vault, which is
the vault invariant again (`OnlyDepositsFill`). Assumed of the constants: `NoAccount` is
no amount and `Refused` no wallet.

**Operators (`TransactionLandingProofs`, first part).** `OperatorsImplementLedger`:
every step is a step of the ledger or leaves it alone, so all theorems of the ledger
hold of presales with operators. `OperatorsInv` adds to `LedgerInv` that what was signed
is listed and that every open escrow has the cap its admitting operator lists for it;
from it `DepositsWithinListingTheorem`. Lists are constants: a server that changes its
list is a second candidate.

**The trees (`WhitelistProofs`, first part).** Two lemmas say that a proof works and that
nothing else does, for every list of wallets: `GetProofVerifies` - the proof of a listed
wallet leads from its leaf to the root - and `OnlyListedVerify` - a wallet that some proof,
of this tree or any other, leads to the root is a leaf of it, with its cap. What is
recursive in the code is a recursive function on an interval of numbers in `MerkleTree`,
and what such a function computes is proved by `IntervalInduction`, first-order induction
over the numbers up to a bound, from its first value and its step (`SortedSteps`,
`KeptSteps`, `LayerSteps`, `ClimbSteps`, `FoldSteps`). So: the sorted and deduplicated
leaves are those of the list and no others (`ElementsProperties`); layers halve, rounded up,
down to one root, and each element is the leaf pair or the unpaired element below it
(`GetLayersIsTree`). For completeness the fold over the proof met so far is the element of
the layer reached, whether there was a neighbour or not (`ClimbSteps`, `OneLayerUp`). For
soundness the fold is read backwards from the root: a combined node of the tree has its
two parts in the tree (`LeafOrPair`), so every value of the fold is a node, the first one
is the hash of a wallet, which is no combination, and so it is a leaf (`OnlyLeavesVerify`).

**The whitelist (`WhitelistProofs`, second part).** `EscrowsWereListed` and
`ListedWalletsAreAdmitted` do not carry themselves from step to step, for neither says
where a root came from. `WhitelistInv` does: a root transaction and a landed config hold
the root of one chunk of one list (`BuiltInv`, `ConfigsInv`), and the responses are the
proofs of one list (`ResponsesInv`), through every rebuilding, closing and emptying of
the array. `ChunkProperties` and `ProofsOfProperties` place every wallet in the chunk of
its version, from which the two theorems follow by the two lemmas on trees.

**Building (`TransactionBuildingProofs`).** `BuildingTypeTheorem`: the compute unit limit
stays within what a transaction may have. For `ThrowsHaveACauseTheorem` the invariant
`CallInv` says of a call under way that what its builder names of the first instruction is
known and that every instruction still to be built is one whose accounts are all found
from the named ones (`FindsAll`, proved builder by builder from the table). The hypothesis
`MethodsWork` leaves out the method and the mints of section 5, nothing else.

**Only model-checked.**

* All liveness (`CallerGetsThrough`, `CreatorGetsThePresale`, `ListedBuyersGetIn`):
  liveness under fairness is out of the prover's reach.
* That `closeMerkleRootConfig` and mints of another program do throw: the theorem on
  `ThrowsHaveACause` excludes them by its hypothesis, `MCDocBuilders` shows the first.
* `PriceNearItsSide`: it is about the digits of a number, that is about powers, which the
  prover does not compute with.

## 5. Where the code does otherwise than documented

Each is a run above and a finding of `PROJECT.json`.

1. *Pending claims with several registries.* `calculateUserDrippedToken` divides a
   registry's dripped tokens by the deposit of the whole presale; the immediate share
   and the claimable total divide by the registry's. (`escrow_wrapper.ts` 183)
2. *A listing throws* when an escrow is closed between its two reads.
   (`presale.ts` 1361)
3. *`closeMerkleRootConfig` cannot build its instruction*: the builder names no
   `rentReceiver`, and Anchor has nothing to find it from.
   (`close_merkle_root_config.ts` 24). `CloseMerkleRootConfig` of `Whitelist` is the
   program's instruction, however it is built.

Remarks, without a run:

* `canClaim` ignores the immediate release: between it and the start of the vesting a
  claim is pending that `canClaim` denies (`presale_wrapper.ts` 158).
* A creator withdrawal built from an account cached before the last deposits may name the
  base vault of a presale that has completed since (`creator_withdraw.ts` 41);
  `DecidedCacheIsRight` says when it is right.
* `createMerkleProofResponse` splices its caller's array until it is empty
  (`presale.ts` 625), where the root configs are made from a copy.
* `createFixedPricePresale` unpacks the mints without their program (`presale.ts` 372),
  which throws for Token-2022 mints, and takes the price through a float (391).
* `uiPriceToQPrice` multiplies in a `Decimal` of 20 digits, rounded to the nearest, before
  it rounds up or down: 6 rounded down is 110680464442257309700, above 6 * 2^64 =
  110680464442257309696 (`math.ts` 18). `PriceNearItsSide` says by how much at most.
* `creatorWithdraw` throws without a message while the account in the cache has no outcome
  (`creator_withdraw.ts` 57).
* `createOperator` ignores the switch of the compute-unit optimization.
* `createPermissionedEscrowWithAutoFetchMerkleProofFromMetadata` returns what the
  builder of an instruction returns, its neighbours a transaction.
* A simulation without units is not an error: the limit becomes 0 and the transaction
  fails; calling again mends it.
* A deposit in permissionless mode always opens the escrow of registry 0, whatever
  registry it names.
* The accounts of a transfer hook are read with the object and stay until `refetchState`.
* `canClose` of a completed presale asks that everything claimable was claimed.
  Released is a sum of two floors, claimable is one floor: a buyer may stay one lamport
  short (`VestingReleasesEverything` shows that it is never more), and that escrow
  never closes (`escrow_wrapper.ts` 411).
* Withdrawals and refunds in SOL stay wrapped in the buyer's token account; they come
  back as SOL with the buyer's next deposit, which closes the account.
* `performUnsoldBaseTokenAction` takes any payer, but has the creator pay for the
  creator's token account, so that the creator must sign too.
* `canDeposit` compares the total with the cap only: it stays true when what is left
  buys no token, or the supply is sold below the cap (`presale_wrapper.ts` 121).
* `canWithdrawRemainingQuote` is true for a failed presale of any mode, which is how
  buyers are refunded, although `README.md` 69 says "Only applicable to prorata".
* `refetchState` assigns an account that was read several awaits earlier, and may put
  back one older than a concurrent `getPresaleEscrowByOwner` has installed
  (`presale.ts` 848).
* The remaining quotas of several fixed price registries may add up to more than the
  presale's; each deposit is still limited by the lesser.
* The refund fee of a registry is computed from the presale's fees, that of an escrow
  from the registry's (`presale_registry_wrapper.ts` 178): announced and paid amounts
  differ by rounding and, with different fees, by more. `RefundsWithinAnnounced` is
  therefore stated for one registry.
* Fees are rounded up deposit by deposit and pooled in the registry; what a pro rata
  presale gives back of them is divided by deposits. A buyer of one large deposit may so
  be refunded more than was paid, out of the fees of those who made small ones
  (`escrow_wrapper.ts`, refundable amount). The vault covers it.
* A failed presale that is not pro rata announces no refundable total, though its
  escrows do.
* `U128_MAX` in `type.ts` is the square of `U64_MAX`, a little below the real limit.
* A wallet's response is kept under `address-registryIndex`, the doc says address.

## 6. Assumptions and omissions

* The program is external. Its handlers are modelled from the wrappers that mirror
  them, the IDL's error codes and the balances the tests assert. The properties of the
  ledger are thus about the SDK's arithmetic: if the program computes what the SDK
  says, then everyone can be paid.
* The host's clock agrees with the chain's to the second (`Date.now()` in the wrappers
  and builders). Without this `canX` answers are off by the skew.
* Transfers of the ledger are exact: the vaults hold mints without a Token-2022 transfer
  fee; the fee itself is `TransferFees`. The quote token of the client model is wrapped
  SOL, the one whose amount is fixed when the transaction is built.
* `uiPriceToQPrice` is modelled from the number its `Decimal` is made of. How far the
  product of doubles before it, `price * Math.pow(10, ...)`, is from the price that was
  meant is left out.
* Time is in whole seconds. `canCreatorCollectFee` compares with the fraction too and says
  yes up to a second earlier than here (`presale_wrapper.ts` 293).
* One fee payer pays for all creations, and the supply is taken from the fee payer's
  account (`payerPresaleToken`), whoever the creator is.
* In `Whitelist` and `PresaleTransactions` the lookup of an escrow is one step with what
  follows it; `PresaleClient` and `Operators` have it apart. Nothing else is opened by it:
  the program refuses an escrow that is there already and a proof that the config of the
  moment does not verify.
* In `PresaleTransactions` a creator withdrawal is built for either outcome, as an object
  with whatever cache would build it; when the cache is right is `DecidedCacheIsRight`.
* What `initialize_presale` demands of its terms is taken from the IDL's error codes, and
  what the signing server does from the repository's example; that an operator's account
  is asked for when an escrow is opened, from the instruction's accounts.
* Hashes do not collide: the hash of a wallet is a number of its own (`HashRank`), that of
  a pair of nodes is the pair. There are finitely many lists, none empty, of wallets with
  account, registry and cap and nothing else; a tree takes at least one wallet.
* Deposit fees are below 100%, prices above zero, as the program demands.
* A new batch of root configs gives up the unlanded ones of the batch before; the
  caller makes a new array only when the old one is used up; the result of a listing is
  looked at before the ledger's next step. Each only shortens what is remembered.
* Of a transaction only what moves tokens is modelled: rent and network fees are left
  out, and so are accounts that an instruction only names. Unsold tokens are given
  back; burning them moves nothing of the creator's. A registry's fee is read from the
  ledger when a deposit is built, for it never changes (`PresaleClient`, whose object
  reads it from its cache, proves that).
* `TransactionBuilding` leaves out what the program decides (that is the ledger's), and
  accounts with a fixed address, which Anchor always fills in.
* Not modelled: getters that return a field, UI amounts and percentages; the decoding of
  raw mode data; the lookup of transfer hook accounts, whose program is not here; who
  must sign an instruction; type definitions of the IDL beyond presales and their
  arguments; the other examples and the tests, which only call the SDK.

## 7. What comes next

1. Several registries in the client: the escrow that `deposit` opens without permission
   is always that of registry 0, whatever registry is deposited to.
2. The raw mode data of a presale, and transfer hooks as an account list that changes.
