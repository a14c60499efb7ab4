---------------------------- MODULE PresaleClient ----------------------------
(***************************************************************************)
(* One Presale object of the SDK (presale.ts) beside the ledger it reads   *)
(* and writes.                                                             *)
(*                                                                         *)
(* The object keeps the presale account it read last and decides from that *)
(* copy what to put into a transaction.  Every method awaits the network   *)
(* at least once, so calls overlap, replies are applied in any order, and  *)
(* a transaction lands later, or never, on a ledger that has moved on.     *)
(*                                                                         *)
(* A slot of `calls` is one caller of the object: it has a read on its way *)
(* back, or holds a transaction that has not landed yet.  The host's clock *)
(* is taken to agree with the chain's to the second; readAt is the second  *)
(* in which a reply was read, which the SDK itself does not keep.  The     *)
(* quote token is wrapped SOL.                                             *)
(***************************************************************************)
EXTENDS PresaleLedger

CONSTANTS
    Callers,        \* concurrent callers of the object
    Idle            \* the slot of a caller that awaits nothing

VARIABLES
    cache,          \* this.presaleAccount
    calls,          \* calls[c]: Idle, a read in flight or an unlanded transaction
    view            \* the escrow wrappers handed out last

clientVars == <<cache, calls, view>>
allVars == <<clock, presale, escrows, quoteVault, baseVault, cache, calls, view>>

---------------------------------------------------------------------------
(* State *)

Snapshots == [account : PresaleAccounts, readAt : 0..MaxTime]

PendingCalls ==
    [kind : {"refetch"}, read : Snapshots]
    \cup [kind : {"escrows"}, read : Snapshots, found : SUBSET EscrowAccount]
    \cup [kind : {"lookup"}, key : EscrowKeys, amount : Amounts, opens : BOOLEAN]
    \cup [kind : {"deposit"}, key : EscrowKeys, amount : Amounts,
          opens : BOOLEAN, wrapped : Nat]
    \cup [kind : {"creatorWithdraw"}, read : Snapshots, isBaseToken : BOOLEAN]

Wrappers == [read : Snapshots, escrow : EscrowAccount]

ASSUME IdleAssumption == Idle \notin PendingCalls

ClientTypeOK ==
    /\ cache \in Snapshots
    /\ calls \in [Callers -> PendingCalls \cup {Idle}]
    /\ view \subseteq Wrappers

InCall(c, kind) == calls[c] # Idle /\ calls[c].kind = kind
Snapshot == [account |-> presale, readAt |-> clock]
CachedProgress == PresaleProgressState(cache.account, clock)

\* Presale.create reads the account once.
ClientInit ==
    /\ Init
    /\ cache = Snapshot
    /\ calls = [c \in Callers |-> Idle]
    /\ view = {}

Start(c, call) ==
    /\ calls[c] = Idle
    /\ calls' = [calls EXCEPT ![c] = call]
Finish(c) == calls' = [calls EXCEPT ![c] = Idle]

---------------------------------------------------------------------------
(* Reads *)

\* refetchState: fetchAccountsForCache reads the presale account first, then
\* awaits the mints and their transfer hooks ...
RefetchRead(c) ==
    /\ Start(c, [kind |-> "refetch", read |-> Snapshot])
    /\ UNCHANGED <<vars, cache, view>>

\* ... and only then is the account assigned.
RefetchDone(c) ==
    /\ InCall(c, "refetch")
    /\ cache' = calls[c].read
    /\ Finish(c)
    /\ UNCHANGED <<vars, view>>

\* getPresaleEscrowByOwner: the presale and the owner's escrow at every
\* initialized registry of the cached presale, in one getMultipleAccountsInfo.
EscrowsRead(c, owner) ==
    LET addresses == {<<owner, i>> : i \in InitializedRegistries(cache.account)}
    IN  /\ Start(c, [kind |-> "escrows", read |-> Snapshot,
                     found |-> {escrows[k] : k \in {a \in addresses : Exists(a)}}])
        /\ UNCHANGED <<vars, cache, view>>

\* Mutant: the escrows wrapped with the account cached before the call.
CacheKept(c) == cache

\* updatePresaleCache
UpdatedCache(c) == calls[c].read

\* When the reply is there, the cache is replaced and the escrows are wrapped
\* with it before anything else can run.
EscrowsDone(c) ==
    /\ InCall(c, "escrows")
    /\ cache' = UpdatedCache(c)
    /\ view' = {[read |-> UpdatedCache(c), escrow |-> e] : e \in calls[c].found}
    /\ Finish(c)
    /\ UNCHANGED vars

---------------------------------------------------------------------------
(* Transactions *)

\* Mutant: the fee not wrapped.
WrappedWithoutFee(k, amount) == amount

\* createDepositIx wraps the amount and the registry's fee on it.
WrappedAmount(k, amount) ==
    CalculateDepositFeeIncludedAmount(
        amount, cache.account.presaleRegistries[k[2]].depositFeeBps, "Up")

\* deposit: the escrow is looked up first; the transaction opens it if it was not
\* there ...
LookUpEscrow(c, k, amount) ==
    /\ Start(c, [kind |-> "lookup", key |-> k, amount |-> amount, opens |-> ~Exists(k)])
    /\ UNCHANGED <<vars, cache, view>>

\* ... and wraps what the account cached when the lookup is answered asks for.
BuildDeposit(c) ==
    /\ InCall(c, "lookup")
    /\ LET call == calls[c]
       IN  calls' = [calls EXCEPT ![c] =
                [kind |-> "deposit", key |-> call.key, amount |-> call.amount,
                 opens |-> call.opens,
                 wrapped |-> WrappedAmount(call.key, call.amount)]]
    /\ UNCHANGED <<vars, cache, view>>

LandDeposit(c) ==
    /\ InCall(c, "deposit")
    /\ IF calls[c].opens
       THEN OpenAndDeposit(calls[c].key, calls[c].amount)
       ELSE Deposit(calls[c].key, calls[c].amount)
    /\ Finish(c)
    /\ UNCHANGED <<cache, view>>

\* creatorWithdraw refuses to build before the end it knows of, then names the
\* vault and the mint of the outcome it knows of.
BuildCreatorWithdraw(c) ==
    /\ CachedProgress \in {"Completed", "Failed"}
    /\ Start(c, [kind |-> "creatorWithdraw", read |-> cache,
                 isBaseToken |-> CachedProgress = "Failed"])
    /\ UNCHANGED <<vars, cache, view>>

\* Whether the accounts a built transaction names are those the program pays.
NamesRightVault(c) ==
    calls[c].isBaseToken = CreatorWithdrawableToken(presale, clock).isBaseToken

LandCreatorWithdraw(c) ==
    /\ InCall(c, "creatorWithdraw")
    /\ NamesRightVault(c)
    /\ CreatorWithdraw
    /\ Finish(c)
    /\ UNCHANGED <<cache, view>>

\* A transaction is refused, expires with its blockhash or is never sent; a read
\* throws.
Lose(c) ==
    /\ calls[c] # Idle
    /\ Finish(c)
    /\ UNCHANGED <<vars, cache, view>>

\* The other buyers, the creator and the clock do not wait for this object.
Others == Next /\ UNCHANGED clientVars

ClientNext ==
    \/ Others
    \/ \E c \in Callers :
        \/ RefetchRead(c)
        \/ RefetchDone(c)
        \/ \E owner \in Owners : EscrowsRead(c, owner)
        \/ EscrowsDone(c)
        \/ \E k \in EscrowKeys : \E amount \in Amounts : LookUpEscrow(c, k, amount)
        \/ BuildDeposit(c)
        \/ LandDeposit(c)
        \/ BuildCreatorWithdraw(c)
        \/ LandCreatorWithdraw(c)
        \/ Lose(c)

ClientSpec == ClientInit /\ [][ClientNext]_allVars

---------------------------------------------------------------------------
(* What must hold *)

DecidedWhenRead(s) ==
    PresaleProgressState(s.account, s.readAt) \in {"Completed", "Failed"}

\* An account read after the outcome was decided never has to be read again to
\* know the outcome, however long it stays in the cache and whatever happens on
\* chain; a creator withdrawal built from it names the vault that is paid.
DecidedCacheIsRight ==
    /\ DecidedWhenRead(cache) => CachedProgress = Progress
    /\ \A c \in Callers :
        /\ InCall(c, "creatorWithdraw")
        /\ DecidedWhenRead(calls[c].read)
        => NamesRightVault(c)

\* A wrapper handed out by getPresaleEscrowByOwner pairs an escrow with the
\* presale of the same moment: a buyer's share of the registry's deposit, fees
\* and tokens is never above the whole.
ViewIsConsistent ==
    \A w \in view :
        LET p == w.read.account
            r == EscrowRegistry(p, w.escrow)
        IN  /\ w.escrow.totalDeposit <= r.totalDeposit
            /\ w.escrow.totalDepositFee <= r.totalDepositFee
            /\ TotalClaimableRawAmount(p, w.escrow)
                    <= RegistryTotalBaseTokenSold(p, w.escrow.registryIndex)

Paid(k) ==
    IF Exists(k) THEN escrows[k].totalDeposit + escrows[k].totalDepositFee ELSE 0

\* A deposit never takes more than the SOL its transaction has wrapped, however
\* the presale and the escrow have changed between building and landing.
WrappedSolCoversDeposit ==
    [][\A c \in Callers : \A k \in EscrowKeys :
        /\ InCall(c, "deposit") /\ calls[c].key = k
        /\ calls'[c] = Idle
        => Paid(k)' <= Paid(k) + calls[c].wrapped]_allVars
=============================================================================
