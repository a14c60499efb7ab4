------------------------- MODULE PresaleTransactions -------------------------
(***************************************************************************)
(* The transactions that the methods of Presale build (presale.ts, the     *)
(* builders in instructions/, token.ts), with the token accounts of those  *)
(* who sign them, beside the ledger.                                       *)
(*                                                                         *)
(* A transaction is a sequence of instructions that take effect together   *)
(* or not at all: token accounts created, SOL wrapped, one instruction of  *)
(* the program (which an escrow creation may precede), SOL unwrapped.      *)
(* It is built at one moment and lands at another, after other             *)
(* transactions of the same user have created, filled or closed the same   *)
(* token account.                                                          *)
(*                                                                         *)
(* Left out are rent, network fees and everything an instruction only      *)
(* names.  What a registry charges is read from the ledger, not from the   *)
(* object's cache: the fee of a registry never changes.                    *)
(***************************************************************************)
EXTENDS PresaleLedger, SequencesExt

CONSTANTS
    Creator,        \* presaleAccount.owner
    NoAccount,      \* an associated token address with no account
    Refused,        \* what a transaction that fails leaves of a wallet
    MaxBuilt,       \* bound of the transactions built and not landed
    Sol             \* what a buyer has at first, in quote lamports

VARIABLES
    quoteIsNative,  \* whether the quote mint is NATIVE_MINT
    wallets,        \* wallets[u]: sol, and the associated token accounts
    built           \* transactions that were built and have not landed

walletVars == <<quoteIsNative, wallets, built>>
ledgerAndTransactions == <<clock, presale, escrows, quoteVault, baseVault,
             quoteIsNative, wallets, built>>

Users == Owners \cup {Creator}
Wallet == [sol : Nat, quote : Nat \cup {NoAccount}, base : Nat \cup {NoAccount}]

ASSUME NoAccountAssumption == NoAccount \notin Nat
ASSUME RefusedAssumption == Refused \notin Wallet
ASSUME CreatorAssumption == Creator \notin Owners
ASSUME BuiltAssumption == MaxBuilt \in Nat /\ Sol \in Nat

\* Buyers have their quote tokens as SOL, or in a token account if the quote
\* token is another.
TransactionsInit ==
    /\ Init
    /\ quoteIsNative \in BOOLEAN
    /\ wallets = [u \in Users |->
            [sol |-> IF quoteIsNative /\ u # Creator THEN Sol ELSE 0,
             quote |-> IF quoteIsNative \/ u = Creator THEN NoAccount ELSE Sol,
             base |-> NoAccount]]
    /\ built = {}

---------------------------------------------------------------------------
(* Instructions *)

\* Mutant: the account is created only if it is missing now.
CreateMissingAccount(user, token) ==
    IF wallets[user][token] = NoAccount
    THEN <<[kind |-> "create", token |-> token]>> ELSE <<>>

\* createAssociatedTokenAccountIdempotentInstruction
CreateTokenAccount(user, token) == <<[kind |-> "create", token |-> token]>>

WrapSOLInstruction(amount) == <<[kind |-> "wrap", amount |-> amount]>>
UnwrapSOLInstruction == <<[kind |-> "unwrap"]>>

\* The instruction of the program that pays into, or out of, an account.
Program(token) == <<[kind |-> "program", token |-> token]>>

\* Mutant: the fee not wrapped.
WrappedWithoutFee(k, amount) == amount

WrappedAmount(k, amount) ==
    CalculateDepositFeeIncludedAmount(
        amount, presale.presaleRegistries[k[2]].depositFeeBps, "Up")

\* Mutant: the rest left in the token account.
DepositWithoutUnwrap(k, amount) ==
    CreateTokenAccount(k[1], "quote")
    \o (IF quoteIsNative THEN WrapSOLInstruction(WrappedAmount(k, amount)) ELSE <<>>)
    \o Program("quote")

CreateDepositIx(k, amount) ==
    IF quoteIsNative
    THEN CreateTokenAccount(k[1], "quote")
         \o WrapSOLInstruction(WrappedAmount(k, amount))
         \o Program("quote") \o UnwrapSOLInstruction
    ELSE CreateTokenAccount(k[1], "quote") \o Program("quote")

CreateWithdrawIx(k) == CreateTokenAccount(k[1], "quote") \o Program("quote")
CreateWithdrawRemainingQuoteIx(k) ==
    CreateTokenAccount(k[1], "quote") \o Program("quote")
CreateClaimIx(k) == CreateTokenAccount(k[1], "base") \o Program("base")

\* The vault of the outcome is the one paid from.
CreateCreatorWithdrawIx(outcome) ==
    LET token == IF outcome = "Completed" THEN "quote" ELSE "base"
    IN  CreateTokenAccount(Creator, token) \o Program(token)
CreateCreatorCollectFeeIx ==
    CreateTokenAccount(Creator, "quote") \o Program("quote")
CreatePerformUnsoldBaseTokenActionIx ==
    CreateTokenAccount(Creator, "base") \o Program("base")

---------------------------------------------------------------------------
(* What instructions do to the wallet of their signer *)

\* `paid` is what the program pays to the user, below zero for a deposit.
AfterInstruction(w, ix, paid) ==
    IF w = Refused THEN Refused
    ELSE CASE ix.kind = "create" ->
                [w EXCEPT ![ix.token] = IF @ = NoAccount THEN 0 ELSE @]
           [] ix.kind = "wrap" ->
                IF w.quote = NoAccount \/ w.sol < ix.amount THEN Refused
                ELSE [w EXCEPT !.sol = @ - ix.amount, !.quote = @ + ix.amount]
           [] ix.kind = "program" ->
                IF w[ix.token] = NoAccount THEN Refused
                ELSE IF w[ix.token] + paid < 0 THEN Refused
                ELSE [w EXCEPT ![ix.token] = @ + paid]
           [] ix.kind = "unwrap" ->
                IF w.quote = NoAccount THEN Refused
                ELSE [w EXCEPT !.sol = @ + w.quote, !.quote = NoAccount]

AfterAll(w, instructions, paid) ==
    FoldLeft(LAMBDA v, ix : AfterInstruction(v, ix, paid), w, instructions)

---------------------------------------------------------------------------
(* Building *)

Build(tx) ==
    /\ Cardinality(built) < MaxBuilt
    /\ built' = built \cup {tx}
    /\ UNCHANGED <<vars, quoteIsNative, wallets>>

OfEscrow(method, k, amount, opens, instructions) ==
    [method |-> method, user |-> k[1], key |-> k, amount |-> amount,
     opens |-> opens, instructions |-> instructions]
OfCreator(method, instructions) ==
    [method |-> method, user |-> Creator, instructions |-> instructions]

\* deposit opens the escrow if it is not there now.
BuildDeposit(k, amount) ==
    Build(OfEscrow("deposit", k, amount, ~Exists(k), CreateDepositIx(k, amount)))
BuildWithdraw(k, amount) ==
    Build(OfEscrow("withdraw", k, amount, FALSE, CreateWithdrawIx(k)))
BuildClaim(k) == Build(OfEscrow("claim", k, 0, FALSE, CreateClaimIx(k)))
BuildWithdrawRemainingQuote(k) ==
    Build(OfEscrow("withdrawRemainingQuote", k, 0, FALSE,
                   CreateWithdrawRemainingQuoteIx(k)))
BuildCloseEscrow(k) == Build(OfEscrow("closeEscrow", k, 0, FALSE, <<>>))

\* The invariant of createCreatorWithdrawIx throws before the end.  The outcome is
\* that of the cached account, read at any earlier time: either one.
BuildCreatorWithdraw ==
    /\ Decided
    /\ \E outcome \in {"Completed", "Failed"} :
          Build(OfCreator("creatorWithdraw", CreateCreatorWithdrawIx(outcome)))
BuildCreatorCollectFee ==
    Build(OfCreator("creatorCollectFee", CreateCreatorCollectFeeIx))
BuildPerformUnsoldBaseTokenAction ==
    Build(OfCreator("performUnsoldBaseTokenAction",
                    CreatePerformUnsoldBaseTokenActionIx))

---------------------------------------------------------------------------
(* Landing *)

\* The step of the ledger that a transaction asks for.  A creator withdrawal that
\* names the vault of the other outcome is refused.
LedgerStep(tx) ==
    \/ /\ tx.method = "deposit"
       /\ IF tx.opens THEN OpenAndDeposit(tx.key, tx.amount)
                      ELSE Deposit(tx.key, tx.amount)
    \/ tx.method = "withdraw" /\ Withdraw(tx.key, tx.amount)
    \/ tx.method = "claim" /\ Claim(tx.key)
    \/ tx.method = "withdrawRemainingQuote" /\ WithdrawRemainingQuote(tx.key)
    \/ tx.method = "closeEscrow" /\ CloseEscrow(tx.key)
    \/ /\ tx.method = "creatorWithdraw"
       /\ tx.instructions = CreateCreatorWithdrawIx(Progress)
       /\ CreatorWithdraw
    \/ tx.method = "creatorCollectFee" /\ CreatorCollectFee
    \/ tx.method = "performUnsoldBaseTokenAction" /\ PerformUnsoldBaseTokenAction

\* A transaction pays from one vault: the sum is what that vault pays.  Unsold
\* tokens are given back, not burned.
LandTransaction(tx) ==
    LET paid == (quoteVault - quoteVault') + (baseVault - baseVault')
        after == AfterAll(wallets[tx.user], tx.instructions, paid)
    IN  /\ LedgerStep(tx)
        /\ after # Refused
        /\ wallets' = [wallets EXCEPT ![tx.user] = after]
        /\ built' = built \ {tx}
        /\ UNCHANGED quoteIsNative

\* A transaction is refused, expires or is never sent.
Drop(tx) ==
    /\ built' = built \ {tx}
    /\ UNCHANGED <<vars, quoteIsNative, wallets>>

TransactionsNext ==
    \/ Tick /\ UNCHANGED walletVars
    \/ \E k \in EscrowKeys :
        \/ \E amount \in Amounts : BuildDeposit(k, amount)
        \/ \E amount \in Amounts : BuildWithdraw(k, amount)
        \/ BuildClaim(k)
        \/ BuildWithdrawRemainingQuote(k)
        \/ BuildCloseEscrow(k)
    \/ BuildCreatorWithdraw
    \/ BuildCreatorCollectFee
    \/ BuildPerformUnsoldBaseTokenAction
    \/ \E tx \in built : LandTransaction(tx)
    \/ \E tx \in built : Drop(tx)

TransactionsSpec == TransactionsInit /\ [][TransactionsNext]_ledgerAndTransactions

---------------------------------------------------------------------------
(* What must hold *)

\* What the program would pay if the transaction landed now: zero for payments
\* to the user, whose amount no account can refuse; for a deposit, less what the
\* ledger records.
Payment(tx) ==
    IF tx.method # "deposit" THEN {0}
    ELSE LET charge(e) ==
                LET amount == SuggestDepositAmount(presale, e, tx.amount)
                IN  amount + DepositFee(presale, tx.key[2], amount)
         IN  {-charge(e) : e \in IF Exists(tx.key) THEN {escrows[tx.key]}
                                                   ELSE NewEscrows(tx.key)}

\* The buyer still has what was there to be deposited when the transaction was
\* built.
Funded(tx, payment) ==
    LET w == wallets[tx.user]
    IN  IF quoteIsNative
        THEN \A i \in DOMAIN tx.instructions :
                tx.instructions[i].kind = "wrap"
                    => tx.instructions[i].amount <= w.sol
        ELSE w.quote # NoAccount /\ w.quote + payment >= 0

\* A built transaction finds every token account it needs and enough in it,
\* whenever it lands and whatever landed before it: nobody is refused by
\* anything but the program or an empty wallet.
OnlyTheLedgerRefuses ==
    \A tx \in built : \A payment \in Payment(tx) :
        tx.method # "deposit" \/ Funded(tx, payment)
            => AfterAll(wallets[tx.user], tx.instructions, payment) # Refused

\* A deposit takes from the buyer's SOL what the vault receives and leaves
\* nothing wrapped: neither the rest of what it wrapped, when less was taken
\* than asked for, nor what earlier payments left wrapped.
DepositReturnsTheRest ==
    [][quoteIsNative /\ quoteVault' > quoteVault =>
        \E tx \in built \ built' :
            LET w == wallets[tx.user]
                held == IF w.quote = NoAccount THEN 0 ELSE w.quote
            IN  /\ wallets'[tx.user].quote = NoAccount
                /\ wallets'[tx.user].sol
                        = w.sol + held - (quoteVault' - quoteVault)]_ledgerAndTransactions
=============================================================================
