------------------------------ MODULE Operators ------------------------------
(***************************************************************************)
(* Presales whose buyers are admitted by an operator: createOperator,      *)
(* revokeOperator, createPermissionedServerMetadata, its closing,          *)
(* createPermissionedEscrowWithCreator and deposit in the whitelist mode   *)
(* PermissionWithAuthority (presale.ts 748-830, 903-949, 1164-1215;        *)
(* instructions/initialize_escrow/create_permissioned_escrow_with_         *)
(* creator.ts), with the signing server of the repository's example        *)
(* (examples/deposit/permissioned_with_authority_deposit.ts) beside the    *)
(* ledger.                                                                 *)
(*                                                                         *)
(* The creator appoints and revokes operators and announces the server of  *)
(* one of them.  A buyer without an escrow gets from that server a         *)
(* transaction, signed by the operator, that opens the escrow with the     *)
(* listed cap and deposits.  It lands later: the operator may be revoked   *)
(* by then, the escrow opened by an earlier call, or closed again.         *)
(***************************************************************************)
EXTENDS PresaleLedger

CONSTANTS
    Candidates,     \* keys that may become operators, each with its server
    Listed,         \* Listed[o]: the whitelisted wallets on o's server
    NoServer,       \* no server metadata account
    MaxSent         \* bound of the calls and transactions under way

VARIABLES
    operators,      \* those with an operator account of the creator's
    server,         \* whose server the metadata account names, or NoServer
    calls,          \* calls[k]: where a call of deposit into address k is
    sent,           \* transactions that were built and have not landed
    admitted        \* admitted[k]: the operator by whom the escrow was opened

operatorVars == <<operators, server, calls, sent, admitted>>
allVars == <<clock, presale, escrows, quoteVault, baseVault,
             operators, server, calls, sent, admitted>>

\* WhitelistedWallet
ASSUME ListedAssumption ==
    Listed \in [Candidates -> SUBSET [account : Owners, registryIndex : RegistryIndex,
                                      depositCap : WhitelistCaps]]
ASSUME NoServerAssumption == NoServer \notin Candidates
ASSUME MaxSentAssumption == MaxSent \in Nat

Idle == [at |-> "idle"]

Transactions ==
    [kind : {"deposit"}, key : EscrowKeys, amount : Amounts]
    \cup [kind : {"openAndDeposit"}, key : EscrowKeys, amount : Amounts,
          operator : Candidates, cap : WhitelistCaps]
    \cup [kind : {"open"}, key : EscrowKeys,
          operator : Candidates, cap : WhitelistCaps]

Steps ==
    {Idle}
    \cup [at : {"metadata"}, amount : Amounts]
    \cup [at : {"request", "signing"}, amount : Amounts, operator : Candidates]

OperatorsTypeOK ==
    /\ TypeOK
    /\ operators \subseteq Candidates
    /\ server \in Candidates \cup {NoServer}
    /\ calls \in [EscrowKeys -> Steps]
    /\ sent \subseteq Transactions /\ Cardinality(sent) <= MaxSent
    /\ admitted \in [EscrowKeys -> Candidates \cup {NoServer}]

OperatorsInit ==
    /\ Init
    /\ operators = {}
    /\ server = NoServer
    /\ calls = [k \in EscrowKeys |-> Idle]
    /\ sent = {}
    /\ admitted = [k \in EscrowKeys |-> NoServer]

---------------------------------------------------------------------------
(* The creator *)

\* create_operator: the operator's address is a function of creator and key.
CreateOperator(o) ==
    /\ o \notin operators
    /\ operators' = operators \cup {o}
    /\ UNCHANGED <<vars, server, calls, sent, admitted>>

\* revoke_operator closes the operator account.
RevokeOperator(o) ==
    /\ o \in operators
    /\ operators' = operators \ {o}
    /\ UNCHANGED <<vars, server, calls, sent, admitted>>

\* There is one metadata account per presale.
CreatePermissionedServerMetadata(o) ==
    /\ server = NoServer
    /\ server' = o
    /\ UNCHANGED <<vars, operators, calls, sent, admitted>>

ClosePermissionedServerMetadata ==
    /\ server # NoServer
    /\ server' = NoServer
    /\ UNCHANGED <<vars, operators, calls, sent, admitted>>

---------------------------------------------------------------------------
(* The server *)

\* Mutant: the registry is not compared.
WalletsOfAccount(o, k) == {w \in Listed[o] : w.account = k[1]}

\* The wallets of o's list that match a request for address k; the first of them
\* is taken.
WhitelistedWallets(o, k) ==
    {w \in Listed[o] : w.account = k[1] /\ w.registryIndex = k[2]}

\* Mutant: registry 0 taken for a missing one.
RequestWithoutRegistryZero(o, k) == WhitelistedWallets(o, k) # {} /\ k[2] # 0

AnswersRequest(o, k) == WhitelistedWallets(o, k) # {}

---------------------------------------------------------------------------
(* deposit *)

GoOn(k, step) == calls' = [calls EXCEPT ![k] = step]
Answer(k, tx) == sent' = sent \cup {tx} /\ GoOn(k, Idle)
HasRoom == Cardinality(sent) + Cardinality({k \in EscrowKeys : calls[k] # Idle}) < MaxSent

\* fetchNullable of the escrow: it is there, and its deposit is built; or it is
\* not, and the call goes on with the server's metadata.
CallDeposit(k, amount) ==
    /\ calls[k] = Idle /\ HasRoom
    /\ IF Exists(k)
       THEN Answer(k, [kind |-> "deposit", key |-> k, amount |-> amount])
       ELSE /\ GoOn(k, [at |-> "metadata", amount |-> amount])
            /\ sent' = sent
    /\ UNCHANGED <<vars, operators, server, admitted>>

\* fetch of the metadata: throws if there is none.
RequestOfMetadata(k) ==
    IF server = NoServer THEN Idle
    ELSE [at |-> "request", amount |-> calls[k].amount, operator |-> server]

FetchMetadata(k) ==
    /\ calls[k].at = "metadata"
    /\ GoOn(k, RequestOfMetadata(k))
    /\ UNCHANGED <<vars, operators, server, sent, admitted>>

\* The server looks the buyer up in its list, then the escrow on chain: it answers
\* 404 or 400, or goes on to sign.
ServerReceives(k) ==
    /\ calls[k].at = "request"
    /\ GoOn(k, IF AnswersRequest(calls[k].operator, k) /\ ~Exists(k)
               THEN [calls[k] EXCEPT !.at = "signing"] ELSE Idle)
    /\ UNCHANGED <<vars, operators, server, sent, admitted>>

\* The blockhash is there: the server signs, the buyer gets the transaction.
ServerSigns(k) ==
    /\ calls[k].at = "signing"
    /\ \E w \in WhitelistedWallets(calls[k].operator, k) :
          Answer(k, [kind |-> "openAndDeposit", key |-> k,
                     amount |-> calls[k].amount,
                     operator |-> calls[k].operator, cap |-> w.depositCap])
    /\ UNCHANGED <<vars, operators, server, admitted>>

\* A request is lost.
CallFails(k) ==
    /\ calls[k] # Idle
    /\ GoOn(k, Idle)
    /\ UNCHANGED <<vars, operators, server, sent, admitted>>

\* createPermissionedEscrowWithCreator: an operator opens an escrow, without a
\* deposit, for a buyer on the operator's list.
CreatePermissionedEscrowWithCreator(o, k) ==
    /\ HasRoom
    /\ \E w \in WhitelistedWallets(o, k) :
          sent' = sent \cup {[kind |-> "open", key |-> k, operator |-> o,
                              cap |-> w.depositCap]}
    /\ UNCHANGED <<vars, operators, server, calls, admitted>>

---------------------------------------------------------------------------
(* Landing *)

\* The operator account that the transaction names is still there.
IsAuthorized(tx) == tx.operator \in operators

\* The escrow is opened with the cap the operator has signed, if the registry
\* allows that cap.
Opens(tx) ==
    /\ IsAuthorized(tx)
    /\ escrows'[tx.key] # NoEscrow
    /\ escrows'[tx.key].depositMaxCap = tx.cap
    /\ admitted' = [admitted EXCEPT ![tx.key] = tx.operator]

Land(tx) ==
    /\ \/ /\ tx.kind = "deposit"
          /\ Deposit(tx.key, tx.amount)
          /\ admitted' = admitted
       \/ /\ tx.kind = "openAndDeposit"
          /\ OpenAndDeposit(tx.key, tx.amount)
          /\ Opens(tx)
       \/ /\ tx.kind = "open"
          /\ InitializeEscrow(tx.key)
          /\ Opens(tx)
    /\ sent' = sent \ {tx}
    /\ UNCHANGED <<operators, server, calls>>

\* A transaction is refused, expires or is never sent.
Lapse(tx) ==
    /\ sent' = sent \ {tx}
    /\ UNCHANGED <<vars, operators, server, calls, admitted>>

\* The buyer takes deposits out again, and time passes.  What happens after the
\* end asks no operator and is left to the ledger.
Elsewhere ==
    /\ \/ Tick
       \/ \E k \in EscrowKeys : \E amount \in Amounts : Withdraw(k, amount)
    /\ UNCHANGED operatorVars

Close(k) ==
    /\ CloseEscrow(k)
    /\ admitted' = [admitted EXCEPT ![k] = NoServer]
    /\ UNCHANGED <<operators, server, calls, sent>>

OperatorsNext ==
    \/ \E o \in Candidates : CreateOperator(o)
    \/ \E o \in Candidates : RevokeOperator(o)
    \/ \E o \in Candidates : CreatePermissionedServerMetadata(o)
    \/ ClosePermissionedServerMetadata
    \/ \E k \in EscrowKeys : \E amount \in Amounts : CallDeposit(k, amount)
    \/ \E k \in EscrowKeys : FetchMetadata(k)
    \/ \E k \in EscrowKeys : ServerReceives(k)
    \/ \E k \in EscrowKeys : ServerSigns(k)
    \/ \E k \in EscrowKeys : CallFails(k)
    \/ \E o \in Candidates : \E k \in EscrowKeys :
            CreatePermissionedEscrowWithCreator(o, k)
    \/ \E tx \in sent : Land(tx)
    \/ \E tx \in sent : Lapse(tx)
    \/ \E k \in EscrowKeys : Close(k)
    \/ Elsewhere

OperatorsSpec == OperatorsInit /\ [][OperatorsNext]_allVars

\* A buyer calls deposit again and again; of the requests and of the transactions
\* that could succeed not all are lost, and a transaction lands or its blockhash
\* expires.
PersistentBuyer(k) ==
    /\ SF_allVars(\E amount \in Amounts : CallDeposit(k, amount))
    /\ SF_allVars(FetchMetadata(k))
    /\ SF_allVars(ServerReceives(k))
    /\ SF_allVars(ServerSigns(k))
    /\ SF_allVars(\E tx \in sent : tx.key = k /\ Land(tx))

Fairness ==
    /\ \A k \in EscrowKeys : PersistentBuyer(k)
    /\ WF_allVars(\E tx \in sent : Lapse(tx))

FairOperatorsSpec == OperatorsSpec /\ Fairness

---------------------------------------------------------------------------
(* What must hold *)

\* What a buyer has deposited was admitted by someone who was an operator: it is
\* within the cap that this operator's server lists for the buyer in that very
\* registry, however many calls were under way, whoever was appointed, revoked
\* or announced since, and however often the escrow was closed and opened.
DepositsWithinListing ==
    \A k \in OpenEscrows :
        \E w \in UNION {Listed[o] : o \in {admitted[k]} \cap Candidates} :
            /\ <<w.account, w.registryIndex>> = k
            /\ escrows[k].totalDeposit <= w.depositCap

\* A listed buyer who calls again and again gets in, once it stays so that the
\* server announced is that of an operator: whatever was signed by others, lost,
\* or refused before.
IsAnnounced(k) ==
    /\ server \in operators
    /\ \E w \in Listed[server] :
        LET r == presale.presaleRegistries[k[2]]
        IN  /\ <<w.account, w.registryIndex>> = k
            /\ r.buyerMinimumDepositCap <= w.depositCap
            /\ w.depositCap <= r.buyerMaximumDepositCap

ListedBuyersGetIn ==
    \A k \in EscrowKeys :
        <>[](IsAnnounced(k) /\ CanDeposit(presale, clock)) => <>Exists(k)
=============================================================================
