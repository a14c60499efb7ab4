----------------------- MODULE TransactionLandingProofs -----------------------
(***************************************************************************)
(* What becomes of transactions that were built off chain and land later,  *)
(* for any buyers, presales and number of transactions; every step is a    *)
(* step of the ledger or leaves it alone.  Operators: every escrow was     *)
(* opened by someone who was an operator, with a cap that operator lists,  *)
(* and holds no more than that.  Token accounts: nobody is refused by      *)
(* anything but the program or an empty wallet, and a deposit of SOL       *)
(* leaves nothing wrapped.                                                 *)
(***************************************************************************)
EXTENDS Operators, PresaleTransactions, SequenceTheorems, PresaleLedgerProofs

---------------------------------------------------------------------------
(* Operators: the invariant *)

\* o lists the owner of address k, in the registry of k, with this cap.
ListsWallet(o, k, cap) ==
    \E w \in Listed[o] : <<w.account, w.registryIndex>> = k /\ w.depositCap = cap

OperatorTypes ==
    /\ server \in Candidates \cup {NoServer}
    /\ calls \in [EscrowKeys -> Steps]
    /\ sent \subseteq Transactions
    /\ admitted \in [EscrowKeys -> Candidates \cup {NoServer}]

\* A signature stays good for what it says: lists do not change.
SignedAsListed ==
    \A tx \in sent : tx.kind # "deposit" => ListsWallet(tx.operator, tx.key, tx.cap)

AdmittedAsListed ==
    \A k \in EscrowKeys : Exists(k) =>
        /\ admitted[k] \in Candidates
        /\ ListsWallet(admitted[k], k, escrows[k].depositMaxCap)

OperatorsInv ==
    /\ LedgerInv
    /\ OperatorTypes
    /\ SignedAsListed
    /\ AdmittedAsListed

---------------------------------------------------------------------------
(* The steps are steps of the ledger *)

LEMMA OperatorsStepOfLedger ==
    ASSUME OperatorTypes, [OperatorsNext]_allVars
    PROVE  [Next]_vars
<1>1. ASSUME NEW tx \in sent, Land(tx)
      PROVE  Next
  <2>1. tx \in Transactions
    BY DEF OperatorTypes
  <2>2. CASE tx.kind = "deposit"
    <3>1. tx.key \in EscrowKeys /\ tx.amount \in Amounts
      BY <2>1, <2>2 DEF Transactions
    <3>2. Deposit(tx.key, tx.amount)
      BY <1>1, <2>2 DEF Land
    <3> QED
      BY <3>1, <3>2 DEF Next
  <2>3. CASE tx.kind = "openAndDeposit"
    <3>1. tx.key \in EscrowKeys /\ tx.amount \in Amounts
      BY <2>1, <2>3 DEF Transactions
    <3>2. OpenAndDeposit(tx.key, tx.amount)
      BY <1>1, <2>3 DEF Land
    <3> QED
      BY <3>1, <3>2 DEF Next
  <2>4. CASE tx.kind = "open"
    <3>1. tx.key \in EscrowKeys
      BY <2>1, <2>4 DEF Transactions
    <3>2. InitializeEscrow(tx.key)
      BY <1>1, <2>4 DEF Land
    <3> QED
      BY <3>1, <3>2 DEF Next
  <2> QED
    BY <1>1, <2>2, <2>3, <2>4 DEF Land
<1>2. ASSUME NEW k \in EscrowKeys, Close(k)
      PROVE  Next
  BY <1>2 DEF Close, Next
<1>3. ASSUME Elsewhere
      PROVE  Next
  BY <1>3 DEF Elsewhere, Next
<1>4. CASE OperatorsNext
  <2>1. ASSUME NEW o \in Candidates,
               CreateOperator(o) \/ RevokeOperator(o)
                   \/ CreatePermissionedServerMetadata(o)
                   \/ \E k \in EscrowKeys : CreatePermissionedEscrowWithCreator(o, k)
        PROVE  UNCHANGED vars
    BY <2>1 DEF CreateOperator, RevokeOperator, CreatePermissionedServerMetadata,
                CreatePermissionedEscrowWithCreator
  <2>2. ASSUME NEW k \in EscrowKeys,
               \/ \E amount \in Amounts : CallDeposit(k, amount)
               \/ FetchMetadata(k) \/ ServerReceives(k) \/ ServerSigns(k)
               \/ CallFails(k)
        PROVE  UNCHANGED vars
    BY <2>2 DEF CallDeposit, FetchMetadata, ServerReceives, ServerSigns, CallFails
  <2>3. ASSUME ClosePermissionedServerMetadata \/ \E tx \in sent : Lapse(tx)
        PROVE  UNCHANGED vars
    BY <2>3 DEF ClosePermissionedServerMetadata, Lapse
  <2> QED
    BY <1>1, <1>2, <1>3, <1>4, <2>1, <2>2, <2>3 DEF OperatorsNext
<1>5. CASE UNCHANGED allVars
  BY <1>5 DEF allVars, vars
<1> QED
  BY <1>4, <1>5

---------------------------------------------------------------------------
(* What a step does to the escrows *)

\* The escrow at an address is kept, with its cap and its admission.
Kept(k) ==
    /\ Exists(k)
    /\ escrows'[k].depositMaxCap = escrows[k].depositMaxCap
    /\ admitted'[k] = admitted[k]

\* It is opened by a transaction signed by an operator of that moment.
Opened(k) ==
    \E tx \in sent :
        /\ tx.kind # "deposit" /\ tx.key = k
        /\ tx.operator \in operators
        /\ escrows'[k].depositMaxCap = tx.cap
        /\ admitted'[k] = tx.operator

\* A change of one escrow's account that keeps its cap.
LEMMA OneChange ==
    ASSUME TypeOK, UNCHANGED admitted, NEW b \in EscrowKeys, Exists(b), NEW new,
           escrows' = [escrows EXCEPT ![b] = new],
           new.depositMaxCap = escrows[b].depositMaxCap,
           NEW k \in EscrowKeys, Exists(k)'
    PROVE  Kept(k)
<1>1. escrows \in [EscrowKeys -> EscrowAccount \cup {NoEscrow}]
  BY DEF TypeOK
<1>2. CASE k = b
  BY <1>1, <1>2 DEF Kept
<1>3. CASE k # b
  <2>1. escrows'[k] = escrows[k]
    BY <1>1, <1>3
  <2> QED
    BY <2>1 DEF Kept, Exists
<1> QED
  BY <1>2, <1>3

LEMMA CreditKeepsCap ==
    ASSUME NEW e \in EscrowAccount, NEW a, NEW f
    PROVE  CreditedAccount(e, a, f).depositMaxCap = e.depositMaxCap
BY DEF CreditedAccount, EscrowAccount

\* A transaction of an operator opens its own address and no other.
LEMMA LandOpens ==
    ASSUME TypeOK, NEW tx \in sent, tx.key \in EscrowKeys, tx.kind # "deposit",
           admitted \in [EscrowKeys -> Candidates \cup {NoServer}],
           tx.operator \in Candidates, Opens(tx), NEW new,
           escrows' = [escrows EXCEPT ![tx.key] = new],
           NEW k \in EscrowKeys, Exists(k)'
    PROVE  Kept(k) \/ Opened(k)
<1>1. escrows \in [EscrowKeys -> EscrowAccount \cup {NoEscrow}]
  BY DEF TypeOK
<1>2. CASE k = tx.key
  BY <1>2 DEF Opens, IsAuthorized, Opened
<1>3. CASE k # tx.key
  <2>1. escrows'[k] = escrows[k] /\ admitted'[k] = admitted[k]
    BY <1>1, <1>3 DEF Opens
  <2> QED
    BY <2>1 DEF Kept, Exists
<1> QED
  BY <1>2, <1>3

LEMMA EscrowsStep ==
    ASSUME TypeOK, OperatorTypes, [OperatorsNext]_allVars,
           NEW k \in EscrowKeys, Exists(k)'
    PROVE  Kept(k) \/ Opened(k)
<1>1. escrows \in [EscrowKeys -> EscrowAccount \cup {NoEscrow}]
  BY DEF TypeOK
<1>2. ASSUME NEW tx \in sent, Land(tx)
      PROVE  Kept(k) \/ Opened(k)
  <2>1. tx \in Transactions
    BY DEF OperatorTypes
  <2>2. CASE tx.kind = "deposit"
    <3>1. tx.key \in EscrowKeys
      BY <2>1, <2>2 DEF Transactions
    <3>2. Deposit(tx.key, tx.amount) /\ UNCHANGED admitted
      BY <1>2, <2>2 DEF Land
    <3>3. Exists(tx.key) /\ escrows[tx.key] \in EscrowAccount
      BY <1>1, <3>1, <3>2 DEF Deposit, Exists
    <3>4. PICK a, f : escrows' = [escrows EXCEPT ![tx.key] =
                                      CreditedAccount(escrows[tx.key], a, f)]
      BY <3>2 DEF Deposit, DepositInto
    <3> QED
      BY <3>1, <3>2, <3>3, <3>4, CreditKeepsCap, OneChange
  <2>3. CASE tx.kind # "deposit"
    <3>1. tx.key \in EscrowKeys /\ tx.operator \in Candidates
      BY <2>1, <2>3 DEF Transactions
    <3>2. /\ OpenAndDeposit(tx.key, tx.amount) \/ InitializeEscrow(tx.key)
          /\ Opens(tx)
      BY <1>2, <2>3 DEF Land
    <3>3. PICK new : escrows' = [escrows EXCEPT ![tx.key] = new]
      BY <3>2 DEF OpenAndDeposit, InitializeEscrow, DepositInto
    <3> QED
      BY <2>3, <3>1, <3>2, <3>3, LandOpens DEF OperatorTypes
  <2> QED
    BY <2>2, <2>3
<1>3. ASSUME NEW b \in EscrowKeys, Close(b)
      PROVE  Kept(k)
  <2>1. escrows' = [escrows EXCEPT ![b] = NoEscrow]
    BY <1>3 DEF Close, CloseEscrow
  <2>2. k # b /\ escrows'[k] = escrows[k]
    BY <1>1, <2>1 DEF Exists
  <2>3. admitted'[k] = admitted[k]
    BY <1>3, <2>2 DEF Close, OperatorTypes
  <2> QED
    BY <2>2, <2>3 DEF Kept, Exists
<1>4. ASSUME NEW b \in EscrowKeys, NEW amount \in Amounts, Withdraw(b, amount),
             UNCHANGED operatorVars
      PROVE  Kept(k)
  <2>1. Exists(b) /\ escrows[b] \in EscrowAccount
    BY <1>1, <1>4 DEF Withdraw, Exists
  <2>2. PICK a, f : escrows' = [escrows EXCEPT ![b] =
                                    CreditedAccount(escrows[b], a, f)]
    BY <1>4 DEF Withdraw
  <2> QED
    BY <1>4, <2>1, <2>2, CreditKeepsCap, OneChange DEF operatorVars
<1>5. ASSUME UNCHANGED <<escrows, admitted>>
      PROVE  Kept(k)
  BY <1>5 DEF Kept, Exists
<1>6. ASSUME OperatorsNext,
             ~(\E tx \in sent : Land(tx)), ~(\E b \in EscrowKeys : Close(b)),
             ~Elsewhere
      PROVE  UNCHANGED <<escrows, admitted>>
  BY <1>6 DEF OperatorsNext, CreateOperator, RevokeOperator,
     CreatePermissionedServerMetadata, ClosePermissionedServerMetadata, CallDeposit,
     FetchMetadata, ServerReceives, ServerSigns, CallFails,
     CreatePermissionedEscrowWithCreator, Lapse, vars
<1>7. ASSUME Elsewhere
      PROVE  Kept(k)
  BY <1>4, <1>5, <1>7 DEF Elsewhere, Tick, operatorVars
<1>8. ASSUME UNCHANGED allVars
      PROVE  Kept(k)
  BY <1>5, <1>8 DEF allVars
<1> QED
  BY <1>2, <1>3, <1>5, <1>6, <1>7, <1>8

---------------------------------------------------------------------------
(* Calls and transactions *)

\* A call that has got to the server names a candidate.
LEMMA StepTypes ==
    ASSUME NEW s \in Steps
    PROVE  /\ s # Idle => s.amount \in Amounts
           /\ s.at \in {"request", "signing"} =>
                 s.operator \in Candidates /\ s \in
                    [at : {"request", "signing"}, amount : Amounts, operator : Candidates]
BY DEF Steps, Idle

\* Every transaction is one that was there, or well formed and as its signer
\* lists it.
WellSigned(tx) ==
    /\ tx \in Transactions
    /\ tx.kind # "deposit" => ListsWallet(tx.operator, tx.key, tx.cap)

LEMMA SignedByList ==
    ASSUME NEW o \in Candidates, NEW k \in EscrowKeys, NEW w \in WhitelistedWallets(o, k)
    PROVE  ListsWallet(o, k, w.depositCap) /\ w.depositCap \in WhitelistCaps
<1>1. w \in [account : Owners, registryIndex : RegistryIndex, depositCap : WhitelistCaps]
  BY ListedAssumption DEF WhitelistedWallets
<1>2. w \in Listed[o] /\ <<w.account, w.registryIndex>> = k
  BY DEF WhitelistedWallets, EscrowKeys
<1> QED
  BY <1>1, <1>2 DEF ListsWallet

LEMMA NewSignatures ==
    ASSUME OperatorTypes, [OperatorsNext]_allVars, NEW tx \in sent', tx \notin sent
    PROVE  WellSigned(tx)
<1>1. ASSUME NEW k \in EscrowKeys, NEW amount \in Amounts, CallDeposit(k, amount)
      PROVE  WellSigned(tx)
  <2>1. tx = [kind |-> "deposit", key |-> k, amount |-> amount]
    BY <1>1 DEF CallDeposit, Answer, GoOn
  <2> QED
    BY <2>1 DEF WellSigned, Transactions
<1>2. ASSUME NEW k \in EscrowKeys, ServerSigns(k)
      PROVE  WellSigned(tx)
  <2>1. calls[k].operator \in Candidates /\ calls[k].amount \in Amounts
    BY <1>2, StepTypes DEF OperatorTypes, ServerSigns
  <2>2. PICK w \in WhitelistedWallets(calls[k].operator, k) :
            tx = [kind |-> "openAndDeposit", key |-> k, amount |-> calls[k].amount,
                  operator |-> calls[k].operator, cap |-> w.depositCap]
    BY <1>2 DEF ServerSigns, Answer
  <2> QED
    BY <2>1, <2>2, SignedByList DEF WellSigned, Transactions
<1>3. ASSUME NEW o \in Candidates, NEW k \in EscrowKeys,
             CreatePermissionedEscrowWithCreator(o, k)
      PROVE  WellSigned(tx)
  <2>1. PICK w \in WhitelistedWallets(o, k) :
            tx = [kind |-> "open", key |-> k, operator |-> o, cap |-> w.depositCap]
    BY <1>3 DEF CreatePermissionedEscrowWithCreator
  <2> QED
    BY <2>1, SignedByList DEF WellSigned, Transactions
<1> QED
  BY <1>1, <1>2, <1>3 DEF OperatorsNext, CreateOperator, RevokeOperator,
     CreatePermissionedServerMetadata, ClosePermissionedServerMetadata,
     FetchMetadata, ServerReceives, CallFails, Land, Lapse, Close, Elsewhere,
     operatorVars, allVars

LEMMA CallsStep ==
    ASSUME OperatorTypes, [OperatorsNext]_allVars
    PROVE  calls' \in [EscrowKeys -> Steps]
<1>1. Idle \in Steps
  BY DEF Steps
<1>2. ASSUME NEW k \in EscrowKeys, NEW s \in Steps, GoOn(k, s)
      PROVE  calls' \in [EscrowKeys -> Steps]
  BY <1>2 DEF GoOn, OperatorTypes
<1>3. ASSUME NEW k \in EscrowKeys, NEW amount \in Amounts, CallDeposit(k, amount)
      PROVE  calls' \in [EscrowKeys -> Steps]
  <2>1. [at |-> "metadata", amount |-> amount] \in Steps
    BY DEF Steps
  <2> QED
    BY <1>1, <1>2, <1>3, <2>1 DEF CallDeposit, Answer
<1>4. ASSUME NEW k \in EscrowKeys, FetchMetadata(k)
      PROVE  calls' \in [EscrowKeys -> Steps]
  <2>1. calls[k] \in Steps /\ calls[k] # Idle
    BY <1>4 DEF OperatorTypes, FetchMetadata, Idle
  <2>2. RequestOfMetadata(k) \in Steps
    BY <1>1, <2>1, StepTypes DEF RequestOfMetadata, OperatorTypes, Steps
  <2> QED
    BY <1>2, <1>4, <2>2 DEF FetchMetadata
<1>5. ASSUME NEW k \in EscrowKeys, ServerReceives(k)
      PROVE  calls' \in [EscrowKeys -> Steps]
  <2>1. calls[k] \in [at : {"request", "signing"}, amount : Amounts, operator : Candidates]
    BY <1>5, StepTypes DEF OperatorTypes, ServerReceives
  <2>2. [calls[k] EXCEPT !.at = "signing"] \in Steps
    BY <2>1 DEF Steps
  <2> QED
    BY <1>1, <1>2, <1>5, <2>2 DEF ServerReceives
<1>6. ASSUME NEW k \in EscrowKeys, ServerSigns(k) \/ CallFails(k)
      PROVE  calls' \in [EscrowKeys -> Steps]
  BY <1>1, <1>2, <1>6 DEF ServerSigns, CallFails, Answer
<1>7. CASE UNCHANGED calls
  BY <1>7 DEF OperatorTypes
<1> QED
  BY <1>3, <1>4, <1>5, <1>6, <1>7 DEF OperatorsNext, CreateOperator, RevokeOperator,
     CreatePermissionedServerMetadata, ClosePermissionedServerMetadata,
     CreatePermissionedEscrowWithCreator, Land, Lapse, Close, Elsewhere,
     operatorVars, allVars

LEMMA TypesStep ==
    ASSUME OperatorTypes, [OperatorsNext]_allVars
    PROVE  /\ server' \in Candidates \cup {NoServer}
           /\ admitted' \in [EscrowKeys -> Candidates \cup {NoServer}]
<1>1. server' \in Candidates \cup {NoServer}
  <2>1. \/ \E o \in Candidates : server' = o
        \/ server' = NoServer
        \/ server' = server
    BY DEF OperatorsNext, CreateOperator, RevokeOperator,
       CreatePermissionedServerMetadata, ClosePermissionedServerMetadata, CallDeposit,
       FetchMetadata, ServerReceives, ServerSigns, CallFails,
       CreatePermissionedEscrowWithCreator, Land, Lapse, Close, Elsewhere,
       operatorVars, allVars
  <2> QED
    BY <2>1 DEF OperatorTypes
<1>2. ASSUME NEW tx \in sent, Land(tx)
      PROVE  admitted' \in [EscrowKeys -> Candidates \cup {NoServer}]
  <2>1. tx.kind # "deposit" => tx.operator \in Candidates
    BY DEF OperatorTypes, Transactions
  <2> QED
    BY <1>2, <2>1 DEF OperatorTypes, Land, Opens
<1>3. ASSUME NEW k \in EscrowKeys, Close(k)
      PROVE  admitted' \in [EscrowKeys -> Candidates \cup {NoServer}]
  BY <1>3 DEF OperatorTypes, Close
<1>4. \/ UNCHANGED admitted
      \/ \E tx \in sent : Land(tx)
      \/ \E k \in EscrowKeys : Close(k)
  BY DEF OperatorsNext, CreateOperator, RevokeOperator,
     CreatePermissionedServerMetadata, ClosePermissionedServerMetadata, CallDeposit,
     FetchMetadata, ServerReceives, ServerSigns, CallFails,
     CreatePermissionedEscrowWithCreator, Lapse, Elsewhere, operatorVars, allVars
<1>5. CASE UNCHANGED admitted
  BY <1>1, <1>5 DEF OperatorTypes
<1> QED
  BY <1>1, <1>2, <1>3, <1>4, <1>5

---------------------------------------------------------------------------
(* The invariant holds *)

LEMMA OperatorsInitOK == OperatorsInit => OperatorsInv
<1> SUFFICES ASSUME OperatorsInit PROVE OperatorsInv
  OBVIOUS
<1>1. LedgerInv
  BY InitOK DEF OperatorsInit
<1>2. OperatorTypes /\ SignedAsListed
  BY DEF OperatorsInit, OperatorTypes, SignedAsListed, Steps
<1>3. AdmittedAsListed
  BY DEF OperatorsInit, Init, AdmittedAsListed, Exists
<1> QED
  BY <1>1, <1>2, <1>3 DEF OperatorsInv

LEMMA OperatorsStepOK ==
    OperatorsInv /\ [OperatorsNext]_allVars => OperatorsInv'
<1> SUFFICES ASSUME OperatorsInv, [OperatorsNext]_allVars PROVE OperatorsInv'
  OBVIOUS
<1>1. LedgerInv'
  BY OperatorsStepOfLedger, StepOK DEF OperatorsInv
<1>2. \A tx \in sent' : WellSigned(tx)
  BY NewSignatures DEF OperatorsInv, OperatorTypes, SignedAsListed, WellSigned
<1>3. OperatorTypes'
  BY <1>2, CallsStep, TypesStep DEF OperatorsInv, OperatorTypes, WellSigned
<1>4. SignedAsListed'
  BY <1>2 DEF SignedAsListed, WellSigned
<1>5. ASSUME NEW k \in EscrowKeys, Exists(k)'
      PROVE  /\ admitted'[k] \in Candidates
             /\ ListsWallet(admitted'[k], k, escrows'[k].depositMaxCap)
  <2>1. Kept(k) \/ Opened(k)
    BY <1>5, EscrowsStep DEF OperatorsInv, LedgerInv
  <2>2. CASE Kept(k)
    BY <2>2 DEF Kept, OperatorsInv, AdmittedAsListed
  <2>3. CASE Opened(k)
    <3>1. PICK tx \in sent :
            /\ tx.kind # "deposit" /\ tx.key = k
            /\ escrows'[k].depositMaxCap = tx.cap
            /\ admitted'[k] = tx.operator
      BY <2>3 DEF Opened
    <3>2. tx.operator \in Candidates
      BY <3>1 DEF OperatorsInv, OperatorTypes, Transactions
    <3> QED
      BY <3>1, <3>2 DEF OperatorsInv, SignedAsListed
  <2> QED
    BY <2>1, <2>2, <2>3
<1>6. AdmittedAsListed'
  BY <1>5 DEF AdmittedAsListed
<1> QED
  BY <1>1, <1>3, <1>4, <1>6 DEF OperatorsInv

LEMMA OperatorsInvariant == OperatorsSpec => []OperatorsInv
<1> QED
  BY OperatorsInitOK, OperatorsStepOK, PTL DEF OperatorsSpec

---------------------------------------------------------------------------
(* The theorems *)

\* Whatever operators, servers and buyers do through createOperator, deposit and
\* the other calls is a behaviour of the ledger: all that is proved of the ledger
\* holds of it.
THEOREM OperatorsImplementLedger == OperatorsSpec => Spec
<1>1. OperatorsInit => Init
  BY DEF OperatorsInit
<1>2. OperatorsInv /\ [OperatorsNext]_allVars => [Next]_vars
  BY OperatorsStepOfLedger DEF OperatorsInv
<1> QED
  BY <1>1, <1>2, OperatorsInvariant, PTL DEF OperatorsSpec, Spec

\* What a buyer has deposited is within what the operator who admitted the buyer
\* lists for that registry (the server of the example, deposit).
THEOREM DepositsWithinListingTheorem == OperatorsSpec => []DepositsWithinListing
<1>1. ASSUME OperatorsInv, NEW k \in OpenEscrows
      PROVE  \E w \in UNION {Listed[o] : o \in {admitted[k]} \cap Candidates} :
                /\ <<w.account, w.registryIndex>> = k
                /\ escrows[k].totalDeposit <= w.depositCap
  <2>1. /\ k \in EscrowKeys /\ Exists(k)
        /\ escrows[k].totalDeposit <= escrows[k].depositMaxCap
    BY <1>1 DEF OpenEscrows, OperatorsInv, LedgerInv, BuyerCapRespected
  <2>2. admitted[k] \in Candidates
    BY <1>1, <2>1 DEF OperatorsInv, AdmittedAsListed
  <2>3. PICK w \in Listed[admitted[k]] :
            /\ <<w.account, w.registryIndex>> = k
            /\ w.depositCap = escrows[k].depositMaxCap
    BY <1>1, <2>1 DEF OperatorsInv, AdmittedAsListed, ListsWallet
  <2>4. w \in UNION {Listed[o] : o \in {admitted[k]} \cap Candidates}
    BY <2>2
  <2> QED
    BY <2>1, <2>3, <2>4
<1>2. OperatorsInv => DepositsWithinListing
  BY <1>1 DEF DepositsWithinListing
<1> QED
  BY <1>2, OperatorsInvariant, PTL

---------------------------------------------------------------------------
(* Token accounts: the instructions of a transaction, one after the other *)

\* The wallet passes through a state after each of at most four instructions.
LEMMA OneAfterTheOther ==
    ASSUME NEW w, NEW seq, NEW paid, NEW n \in 0..4, DOMAIN seq = 1..n
    PROVE  \E after : /\ after[0] = w
                      /\ \A i \in 1..n :
                            after[i] = AfterInstruction(after[i - 1], seq[i], paid)
                      /\ AfterAll(w, seq, paid) = after[n]
<1> DEFINE D == 1..n
           pick(U) == Max(U)
           step(it) == [U \in SUBSET D |->
                IF U = {} THEN w
                ELSE AfterInstruction(it[U \ {pick(U)}], seq[pick(U)], paid)]
           iter == CHOOSE it : it = step(it)
           done(i, v, U) ==
                IF i \in U THEN AfterInstruction(v, seq[i], paid) ELSE v
           one(U) == done(1, w, U)
           two(U) == done(2, one(U), U)
           three(U) == done(3, two(U), U)
           four(U) == done(4, three(U), U)
           ours == [U \in SUBSET D |-> four(U)]
<1>1. AfterAll(w, seq, paid) = iter[D]
  BY DEF AfterAll, FoldLeft, MapThenFoldSet
<1>2. ASSUME NEW U \in SUBSET D, NEW i \in U, \A j \in U : j <= i
      PROVE  pick(U) = i
  <2>1. \A j \in U : j \in Int
    OBVIOUS
  <2>2. pick(U) \in U /\ \A j \in U : pick(U) >= j
    BY <1>2, <2>1 DEF Max
  <2> HIDE DEF pick, D
  <2>3. pick(U) <= i /\ pick(U) >= i /\ pick(U) \in Int /\ i \in Int
    BY <1>2, <2>1, <2>2
  <2> QED
    BY <2>3
<1> HIDE DEF pick
<1>3. ASSUME NEW U \in SUBSET D, U # {}
      PROVE  \E i \in U : /\ i \in 1..4 /\ pick(U) = i
                          /\ \A j \in U : j <= i
  <2>1. \E i \in U : \A j \in U : j <= i
    <3>1. CASE 4 \in U
      BY <3>1
    <3>2. CASE 4 \notin U /\ 3 \in U
      BY <3>2
    <3>3. CASE 4 \notin U /\ 3 \notin U /\ 2 \in U
      BY <3>3
    <3>4. CASE 4 \notin U /\ 3 \notin U /\ 2 \notin U
      <4>1. \A j \in U : j = 1
        BY <3>4
      <4> HIDE DEF D
      <4>2. PICK i \in U : TRUE
        BY <1>3
      <4>3. i = 1 /\ \A j \in U : j <= i
        BY <4>1, <4>2
      <4> QED
        BY <4>3
    <3> QED
      BY <3>1, <3>2, <3>3, <3>4
  <2>2. PICK i \in U : \A j \in U : j <= i
    BY <2>1
  <2>3. pick(U) = i
    BY <1>2, <2>2
  <2> QED
    BY <2>2, <2>3
<1>4. ours = step(ours)
  <2>1. ASSUME NEW U \in SUBSET D
        PROVE  ours[U] = IF U = {} THEN w
                         ELSE AfterInstruction(ours[U \ {pick(U)}], seq[pick(U)], paid)
    <3>1. CASE U = {}
      BY <3>1
    <3>2. ASSUME NEW i \in U, i \in 1..4, pick(U) = i, \A j \in U : j <= i
          PROVE  ours[U] = AfterInstruction(ours[U \ {i}], seq[i], paid)
      <4> DEFINE V == U \ {i}
      <4>1. V \in SUBSET D /\ \A j \in 1..4 : j \in V <=> j \in U /\ j < i
        BY <3>2
      <4>2. \A j \in 1..4 : j \in U => j <= i
        BY <3>2
      <4> HIDE DEF V
      <4>3. i \in U
        OBVIOUS
      <4>4. CASE i = 1
        <5>1. 1 \in U /\ 2 \notin U /\ 3 \notin U /\ 4 \notin U
              /\ 1 \notin V /\ 2 \notin V /\ 3 \notin V /\ 4 \notin V
          BY <4>1, <4>2, <4>3, <4>4
        <5>2. four(V) = w /\ four(U) = AfterInstruction(w, seq[1], paid)
          BY <5>1
        <5> QED
          BY <4>1, <4>4, <5>2 DEF V
      <4>5. CASE i = 2
        <5>1. 2 \in U /\ 3 \notin U /\ 4 \notin U /\ (1 \in V <=> 1 \in U)
              /\ 2 \notin V /\ 3 \notin V /\ 4 \notin V
          BY <4>1, <4>2, <4>3, <4>5
        <5>2. four(V) = one(U) /\ four(U) = AfterInstruction(one(U), seq[2], paid)
          BY <5>1
        <5> QED
          BY <4>1, <4>5, <5>2 DEF V
      <4>6. CASE i = 3
        <5>1. 3 \in U /\ 4 \notin U /\ (1 \in V <=> 1 \in U) /\ (2 \in V <=> 2 \in U)
              /\ 3 \notin V /\ 4 \notin V
          BY <4>1, <4>2, <4>3, <4>6
        <5>2. four(V) = two(U) /\ four(U) = AfterInstruction(two(U), seq[3], paid)
          BY <5>1
        <5> QED
          BY <4>1, <4>6, <5>2 DEF V
      <4>7. CASE i = 4
        <5>1. 4 \in U /\ (1 \in V <=> 1 \in U) /\ (2 \in V <=> 2 \in U)
              /\ (3 \in V <=> 3 \in U) /\ 4 \notin V
          BY <4>1, <4>2, <4>3, <4>7
        <5>2. four(V) = three(U) /\ four(U) = AfterInstruction(three(U), seq[4], paid)
          BY <5>1
        <5> QED
          BY <4>1, <4>7, <5>2 DEF V
      <4> QED
        BY <3>2, <4>4, <4>5, <4>6, <4>7
    <3> HIDE DEF ours
    <3> QED
      BY <1>3, <3>1, <3>2
  <2>2. ours = [U \in SUBSET D |-> ours[U]]
    OBVIOUS
  <2> HIDE DEF ours
  <2> QED
    BY <2>1, <2>2
<1> HIDE DEF ours
<1>5. iter = step(iter)
  <2> HIDE DEF step
  <2> QED
    BY <1>4
<1> HIDE DEF iter
<1>6. \A U \in SUBSET D :
        iter[U] = IF U = {} THEN w
                  ELSE AfterInstruction(iter[U \ {pick(U)}], seq[pick(U)], paid)
  BY <1>5
<1> DEFINE after == [i \in 0..n |-> iter[1..i]]
<1>7. after[0] = w
  <2>1. 1..0 = {} /\ 0 \in 0..n /\ {} \in SUBSET D
    OBVIOUS
  <2>2. iter[{}] = w
    BY <1>6, <2>1
  <2> QED
    BY <2>1, <2>2
<1>8. ASSUME NEW i \in 1..n
      PROVE  after[i] = AfterInstruction(after[i - 1], seq[i], paid)
  <2> DEFINE U == 1..i
  <2>1. /\ U \in SUBSET D /\ U # {} /\ i \in U /\ \A j \in U : j <= i
        /\ U \ {i} = 1..(i - 1) /\ i \in 0..n /\ i - 1 \in 0..n
    OBVIOUS
  <2>2. pick(U) = i
    <3> HIDE DEF U
    <3> QED
      BY <1>2, <2>1
  <2>3. iter[U] = AfterInstruction(iter[U \ {pick(U)}], seq[pick(U)], paid)
    <3> HIDE DEF U
    <3> QED
      BY <1>6, <2>1, Zenon
  <2> QED
    BY <2>1, <2>2, <2>3
<1>9. AfterAll(w, seq, paid) = after[n]
  BY <1>1
<1> HIDE DEF after
<1> QED
  BY <1>7, <1>8, <1>9

\* The two lengths that builders make.
LEMMA TwoInstructions ==
    ASSUME NEW w, NEW seq, NEW paid, DOMAIN seq = 1..2
    PROVE  LET one == AfterInstruction(w, seq[1], paid)
           IN  AfterAll(w, seq, paid) = AfterInstruction(one, seq[2], paid)
<1>1. 2 \in 0..4
  OBVIOUS
<1>2. PICK after : /\ after[0] = w
                   /\ \A i \in 1..2 :
                        after[i] = AfterInstruction(after[i - 1], seq[i], paid)
                   /\ AfterAll(w, seq, paid) = after[2]
  BY <1>1, OneAfterTheOther
<1>3. 1 \in 1..2 /\ 2 \in 1..2 /\ 1 - 1 = 0 /\ 2 - 1 = 1
  OBVIOUS
<1> QED
  BY <1>2, <1>3

LEMMA FourInstructions ==
    ASSUME NEW w, NEW seq, NEW paid, DOMAIN seq = 1..4
    PROVE  LET one == AfterInstruction(w, seq[1], paid)
               two == AfterInstruction(one, seq[2], paid)
               three == AfterInstruction(two, seq[3], paid)
           IN  AfterAll(w, seq, paid) = AfterInstruction(three, seq[4], paid)
<1>1. 4 \in 0..4
  OBVIOUS
<1>2. PICK after : /\ after[0] = w
                   /\ \A i \in 1..4 :
                        after[i] = AfterInstruction(after[i - 1], seq[i], paid)
                   /\ AfterAll(w, seq, paid) = after[4]
  BY <1>1, OneAfterTheOther
<1>3. /\ 1 \in 1..4 /\ 2 \in 1..4 /\ 3 \in 1..4 /\ 4 \in 1..4
      /\ 1 - 1 = 0 /\ 2 - 1 = 1 /\ 3 - 1 = 2 /\ 4 - 1 = 3
  OBVIOUS
<1>4. /\ after[1] = AfterInstruction(w, seq[1], paid)
      /\ after[2] = AfterInstruction(after[1], seq[2], paid)
      /\ after[3] = AfterInstruction(after[2], seq[3], paid)
      /\ AfterAll(w, seq, paid) = AfterInstruction(after[3], seq[4], paid)
  BY <1>2, <1>3
<1> QED
  BY <1>4

---------------------------------------------------------------------------
(* What a transaction makes of a wallet *)

Held(w, token) == IF w[token] = NoAccount THEN 0 ELSE w[token]

Tokens == {"quote", "base"}

LEMMA HeldNat ==
    ASSUME NEW w \in Wallet, NEW token \in Tokens
    PROVE  /\ Held(w, token) \in Nat
           /\ w[token] # NoAccount => w[token] = Held(w, token)
           /\ w # Refused
<1>1. w.quote \in Nat \cup {NoAccount} /\ w.base \in Nat \cup {NoAccount}
  BY DEF Wallet
<1>2. w[token] \in Nat \cup {NoAccount}
  BY <1>1 DEF Tokens
<1> QED
  BY <1>2, RefusedAssumption DEF Held

LEMMA CreateEffect ==
    ASSUME NEW w \in Wallet, NEW token \in Tokens, NEW paid
    PROVE  AfterInstruction(w, [kind |-> "create", token |-> token], paid)
                = [w EXCEPT ![token] = Held(w, token)]
<1>1. w # Refused
  BY RefusedAssumption
<1> QED
  BY <1>1 DEF AfterInstruction, Held

LEMMA ProgramEffect ==
    ASSUME NEW w \in Wallet, NEW token \in Tokens, w[token] # NoAccount, NEW paid
    PROVE  AfterInstruction(w, [kind |-> "program", token |-> token], paid)
                = IF w[token] + paid < 0 THEN Refused
                  ELSE [w EXCEPT ![token] = w[token] + paid]
<1>1. w # Refused
  BY RefusedAssumption
<1> QED
  BY <1>1 DEF AfterInstruction

LEMMA WrapEffect ==
    ASSUME NEW w \in Wallet, w.quote # NoAccount, NEW amount, NEW paid
    PROVE  AfterInstruction(w, [kind |-> "wrap", amount |-> amount], paid)
                = IF w.sol < amount THEN Refused
                  ELSE [w EXCEPT !.sol = w.sol - amount, !.quote = w.quote + amount]
<1>1. w # Refused
  BY RefusedAssumption
<1> QED
  BY <1>1 DEF AfterInstruction

LEMMA UnwrapEffect ==
    ASSUME NEW w \in Wallet, w.quote # NoAccount, NEW paid
    PROVE  AfterInstruction(w, [kind |-> "unwrap"], paid)
                = [w EXCEPT !.sol = w.sol + w.quote, !.quote = NoAccount]
<1>1. w # Refused
  BY RefusedAssumption
<1> QED
  BY <1>1 DEF AfterInstruction

LEMMA OnceRefused ==
    ASSUME NEW ix, NEW paid
    PROVE  AfterInstruction(Refused, ix, paid) = Refused
BY DEF AfterInstruction

LEMMA TokensSet ==
    ASSUME NEW w \in Wallet, NEW token \in Tokens,
           NEW amount \in Nat \cup {NoAccount}
    PROVE  /\ [w EXCEPT ![token] = amount] \in Wallet
           /\ [w EXCEPT ![token] = amount][token] = amount
           /\ [w EXCEPT ![token] = amount].sol = w.sol
<1>1. CASE token = "quote"
  BY <1>1 DEF Wallet
<1>2. CASE token = "base"
  BY <1>2 DEF Wallet
<1> QED
  BY <1>1, <1>2 DEF Tokens

\* A token account made sure of, and a payment into or out of it.
Transfer(token) ==
    <<[kind |-> "create", token |-> token], [kind |-> "program", token |-> token]>>

\* SOL wrapped, paid, and what is left of it unwrapped.
WrappedTransfer(amount) ==
    <<[kind |-> "create", token |-> "quote"], [kind |-> "wrap", amount |-> amount],
      [kind |-> "program", token |-> "quote"], [kind |-> "unwrap"]>>

LEMMA NothingDone ==
    ASSUME NEW w, NEW paid
    PROVE  AfterAll(w, <<>>, paid) = w
<1>1. DOMAIN << >> = 1..0 /\ 0 \in 0..4
  OBVIOUS
<1> QED
  BY <1>1, OneAfterTheOther

LEMMA TransferEffect ==
    ASSUME NEW w \in Wallet, NEW token \in Tokens, NEW paid \in Int
    PROVE  AfterAll(w, Transfer(token), paid)
                = IF Held(w, token) + paid < 0 THEN Refused
                  ELSE [w EXCEPT ![token] = Held(w, token) + paid]
<1> DEFINE seq == Transfer(token)
           held == Held(w, token)
           v == [w EXCEPT ![token] = held]
<1>1. /\ DOMAIN seq = 1..2
      /\ seq[1] = [kind |-> "create", token |-> token]
      /\ seq[2] = [kind |-> "program", token |-> token]
  BY DEF Transfer
<1> HIDE DEF seq
<1> DEFINE one == AfterInstruction(w, seq[1], paid)
<1>2. /\ one = AfterInstruction(w, seq[1], paid)
      /\ AfterAll(w, seq, paid) = AfterInstruction(one, seq[2], paid)
  BY <1>1, TwoInstructions, Zenon
<1> HIDE DEF one
<1>3. one = v
  BY <1>1, <1>2, CreateEffect
<1>4. held \in Nat /\ held # NoAccount
  BY HeldNat, NoAccountAssumption
<1>5. v \in Wallet /\ v[token] = held
  <2>1. held \in Nat \cup {NoAccount}
    BY <1>4
  <2> HIDE DEF held
  <2> QED
    BY <2>1, TokensSet
<1>6. [v EXCEPT ![token] = held + paid] = [w EXCEPT ![token] = held + paid]
  BY DEF Wallet
<1> HIDE DEF v
<1>7. AfterAll(w, seq, paid) = IF v[token] + paid < 0 THEN Refused
                               ELSE [v EXCEPT ![token] = v[token] + paid]
  BY <1>1, <1>2, <1>3, <1>4, <1>5, ProgramEffect
<1> QED
  BY <1>5, <1>6, <1>7 DEF seq

LEMMA WrappedTransferEffect ==
    ASSUME NEW w \in Wallet, NEW amount \in Nat, NEW paid \in Int
    PROVE  LET held == Held(w, "quote")
           IN  AfterAll(w, WrappedTransfer(amount), paid)
                = IF w.sol < amount \/ held + amount + paid < 0 THEN Refused
                  ELSE [w EXCEPT !.sol = (w.sol - amount) + (held + amount + paid),
                                 !.quote = NoAccount]
<1> DEFINE seq == WrappedTransfer(amount)
           held == Held(w, "quote")
           created == [w EXCEPT !["quote"] = held]
           sol == w.sol - amount
           all == held + amount
           wrapped == [created EXCEPT !.sol = sol, !.quote = all]
           rest == held + amount + paid
           moved == [wrapped EXCEPT !["quote"] = rest]
<1>0. DOMAIN seq = 1..4
  BY DEF WrappedTransfer
<1>1. /\ seq[1] = [kind |-> "create", token |-> "quote"]
      /\ seq[2] = [kind |-> "wrap", amount |-> amount]
      /\ seq[3] = [kind |-> "program", token |-> "quote"]
      /\ seq[4] = [kind |-> "unwrap"]
  BY DEF WrappedTransfer
<1> HIDE DEF seq
<1> DEFINE one == AfterInstruction(w, seq[1], paid)
           two == AfterInstruction(one, seq[2], paid)
           three == AfterInstruction(two, seq[3], paid)
           four == AfterAll(w, seq, paid)
<1>2. /\ one = AfterInstruction(w, seq[1], paid)
      /\ two = AfterInstruction(one, seq[2], paid)
      /\ three = AfterInstruction(two, seq[3], paid)
      /\ four = AfterInstruction(three, seq[4], paid)
  BY <1>0, FourInstructions, Zenon
<1> HIDE DEF one, two, three, four
<1>4. "quote" \in Tokens
  BY DEF Tokens
<1>5. held \in Nat /\ held # NoAccount /\ w.sol \in Nat
  BY <1>4, HeldNat, NoAccountAssumption DEF Wallet
<1>6. one = created
  BY <1>1, <1>2, <1>4, CreateEffect
<1>7. created \in Wallet /\ created.quote = held /\ created.sol = w.sol
  <2>1. held \in Nat \cup {NoAccount}
    BY <1>5
  <2> HIDE DEF held
  <2> QED
    BY <1>4, <2>1, TokensSet
<1>8. created = [w EXCEPT !.quote = held]
  OBVIOUS
<1> HIDE DEF created
<1>9. two = IF w.sol < amount THEN Refused ELSE wrapped
  <2>1. created.quote # NoAccount
    BY <1>5, <1>7
  <2>2. two = IF created.sol < amount THEN Refused
                   ELSE [created EXCEPT !.sol = created.sol - amount,
                                        !.quote = created.quote + amount]
    <3>1. two = AfterInstruction(created,
                                      [kind |-> "wrap", amount |-> amount], paid)
      BY <1>1, <1>2, <1>6
    <3> QED
      BY <1>7, <2>1, <3>1, WrapEffect, Zenon
  <2> QED
    BY <1>7, <2>2
<1>10. CASE w.sol < amount
  <2>1. two = Refused
    BY <1>9, <1>10
  <2>2. four = Refused
    BY <1>2, <2>1, OnceRefused
  <2> QED
    BY <1>2, <1>10, <2>2 DEF seq, four
<1>11. CASE ~(w.sol < amount)
  <2>1. sol \in Nat /\ all \in Nat /\ all # NoAccount
    BY <1>5, <1>11, NoAccountAssumption
  <2>2. wrapped \in Wallet /\ wrapped.sol = sol /\ wrapped.quote = all
    <3>1. all \in Nat \cup {NoAccount}
      BY <2>1
    <3> HIDE DEF sol, all
    <3> QED
      BY <1>7, <2>1, <3>1 DEF Wallet
  <2>3. two = wrapped
    BY <1>9, <1>11
  <2> HIDE DEF wrapped
  <2>4. three = IF rest < 0 THEN Refused ELSE moved
    <3>1. wrapped["quote"] = all /\ wrapped["quote"] # NoAccount
      BY <2>1, <2>2
    <3>2. all + paid = rest
      OBVIOUS
    <3> HIDE DEF all, rest
    <3>3. three = IF wrapped["quote"] + paid < 0 THEN Refused
                     ELSE [wrapped EXCEPT !["quote"] = wrapped["quote"] + paid]
      BY <1>1, <1>2, <1>4, <2>2, <2>3, <3>1, ProgramEffect
    <3> QED
      BY <3>1, <3>2, <3>3
  <2>5. CASE rest < 0
    <3>1. three = Refused
      BY <2>4, <2>5
    <3>2. four = Refused
      BY <1>2, <3>1, OnceRefused
    <3> QED
      BY <1>2, <2>5, <3>2 DEF seq, four
  <2>6. CASE ~(rest < 0)
    <3>1. rest \in Nat /\ rest # NoAccount
      BY <1>5, <2>6, NoAccountAssumption
    <3>2. moved \in Wallet /\ moved.quote = rest /\ moved.sol = sol
      <4>1. rest \in Nat \cup {NoAccount}
        BY <3>1
      <4> HIDE DEF rest, sol
      <4> QED
        BY <1>4, <2>2, <4>1, TokensSet
    <3>3. moved = [wrapped EXCEPT !.quote = rest]
      OBVIOUS
    <3>4. three = moved
      BY <2>4, <2>6
    <3> HIDE DEF moved
    <3>5. four = [moved EXCEPT !.sol = sol + rest, !.quote = NoAccount]
      <4>1. moved.quote # NoAccount
        BY <3>1, <3>2
      <4>2. four = [moved EXCEPT !.sol = moved.sol + moved.quote,
                                     !.quote = NoAccount]
        <5>1. four = AfterInstruction(moved, [kind |-> "unwrap"], paid)
          BY <1>1, <1>2, <3>4
        <5> QED
          BY <3>2, <4>1, <5>1, UnwrapEffect, Zenon
      <4> QED
        BY <3>2, <4>2
    <3>6. [moved EXCEPT !.sol = sol + rest, !.quote = NoAccount]
            = [w EXCEPT !.sol = sol + rest, !.quote = NoAccount]
      <4> HIDE DEF rest, sol, held, all
      <4> QED
        BY <1>8, <3>3 DEF Wallet, wrapped
    <3>7. four = [w EXCEPT !.sol = sol + rest, !.quote = NoAccount]
      BY <3>5, <3>6
    <3> QED
      BY <1>2, <1>11, <2>6, <3>7 DEF seq, four
  <2> QED
    BY <2>5, <2>6
<1> QED
  BY <1>10, <1>11

---------------------------------------------------------------------------
(* The invariant *)

WalletsHold == wallets \in [Users -> Wallet] /\ quoteIsNative \in BOOLEAN

\* What a transaction that pays its signer does to the signer's accounts.
Receives(instructions) ==
    \/ instructions = <<>>
    \/ \E token \in Tokens : instructions = Transfer(token)

IsDeposit(tx) ==
    /\ tx.key \in EscrowKeys /\ tx.amount \in Amounts /\ tx.user = tx.key[1]
    /\ tx.instructions = IF quoteIsNative
                         THEN WrappedTransfer(WrappedAmount(tx.key, tx.amount))
                         ELSE Transfer("quote")

\* A built transaction has the instructions of its method, and a deposit wraps
\* what the ledger charges for the whole amount asked for.
AsBuilt(tx) ==
    \/ tx.method = "deposit" /\ IsDeposit(tx)
    \/ /\ tx.method \in {"withdraw", "claim", "withdrawRemainingQuote", "closeEscrow"}
       /\ tx.key \in EscrowKeys /\ tx.user = tx.key[1] /\ Receives(tx.instructions)
       /\ tx.method = "withdraw" => tx.amount \in Amounts
    \/ /\ tx.method \in {"creatorWithdraw", "creatorCollectFee",
                         "performUnsoldBaseTokenAction"}
       /\ tx.user = Creator /\ Receives(tx.instructions)

TransactionsInv ==
    /\ LedgerInv /\ ClaimsWithinEntitlement /\ VaultInv
    /\ WalletsHold
    /\ \A tx \in built : AsBuilt(tx)

---------------------------------------------------------------------------
(* The steps are steps of the ledger *)

LEMMA LedgerStepIsNext ==
    ASSUME NEW tx, AsBuilt(tx), LedgerStep(tx)
    PROVE  Next
BY DEF AsBuilt, IsDeposit, LedgerStep, Next

LEMMA TransactionsStepOfLedger ==
    ASSUME \A tx \in built : AsBuilt(tx), [TransactionsNext]_ledgerAndTransactions
    PROVE  [Next]_vars
<1>1. CASE Tick
  BY <1>1 DEF Next
<1>2. ASSUME NEW tx \in built, LandTransaction(tx)
      PROVE  Next
  BY <1>2, LedgerStepIsNext DEF LandTransaction
<1>3. CASE UNCHANGED vars
  BY <1>3
<1>4. CASE TransactionsNext
  BY <1>1, <1>2, <1>3, <1>4
    DEF TransactionsNext, BuildDeposit, BuildWithdraw, BuildClaim,
        BuildWithdrawRemainingQuote, BuildCloseEscrow, BuildCreatorWithdraw,
        BuildCreatorCollectFee, BuildPerformUnsoldBaseTokenAction, Build, Drop
<1>5. CASE UNCHANGED ledgerAndTransactions
  BY <1>5 DEF ledgerAndTransactions, vars
<1> QED
  BY <1>4, <1>5

---------------------------------------------------------------------------
(* What is built *)

LEMMA Joined ==
    ASSUME NEW a, NEW b, NEW c, NEW d
    PROVE  /\ <<a>> \o <<b>> = <<a, b>>
           /\ <<a>> \o <<b>> \o <<c>> \o <<d>> = <<a, b, c, d>>
<1> DEFINE S == {a, b, c, d}
<1>1. ASSUME NEW s \in Seq(S), NEW t \in Seq(S), NEW x \in S,
             Len(t) = Len(s) + 1, t[Len(t)] = x,
             \A i \in 1..Len(s) : t[i] = s[i]
      PROVE  s \o <<x>> = t
  <2>1. <<x>> \in Seq(S) /\ Len(<<x>>) = 1 /\ <<x>>[1] = x
    OBVIOUS
  <2>2. /\ s \o <<x>> \in Seq(S) /\ Len(s \o <<x>>) = Len(s) + 1
        /\ \A i \in 1..(Len(s) + 1) :
                (s \o <<x>>)[i] = IF i <= Len(s) THEN s[i] ELSE <<x>>[i - Len(s)]
    BY <2>1, ConcatProperties
  <2>3. Len(s) \in Nat
    BY LenProperties
  <2>4. ASSUME NEW i \in 1..(Len(s) + 1)
        PROVE  (s \o <<x>>)[i] = t[i]
    <3>1. CASE i <= Len(s)
      BY <1>1, <2>2, <2>3, <3>1
    <3>2. CASE ~(i <= Len(s))
      <4>1. i = Len(s) + 1 /\ i - Len(s) = 1
        BY <2>3, <3>2
      <4> QED
        BY <1>1, <2>1, <2>2, <3>2, <4>1
    <3> QED
      BY <3>1, <3>2
  <2> HIDE DEF S
  <2> QED
    BY <1>1, <2>2, <2>4, SeqEqual
<1>2. /\ <<a>> \in Seq(S) /\ <<a, b>> \in Seq(S) /\ <<a, b, c>> \in Seq(S)
      /\ <<a, b, c, d>> \in Seq(S)
  OBVIOUS
<1>3. a \in S /\ b \in S /\ c \in S /\ d \in S
  OBVIOUS
<1> HIDE DEF S
<1>4. <<a>> \o <<b>> = <<a, b>>
  <2> DEFINE s == <<a>>
             t == <<a, b>>
  <2>1. /\ Len(s) = 1 /\ Len(t) = Len(s) + 1 /\ t[Len(t)] = b
        /\ \A i \in 1..Len(s) : t[i] = s[i]
    OBVIOUS
  <2>2. s \in Seq(S) /\ t \in Seq(S)
    BY <1>2
  <2> HIDE DEF s, t
  <2>3. s \o <<b>> = t
    BY <1>1, <1>3, <2>1, <2>2
  <2> QED
    BY <2>3 DEF s, t
<1>5. <<a, b>> \o <<c>> = <<a, b, c>>
  <2> DEFINE s == <<a, b>>
             t == <<a, b, c>>
  <2>1. /\ Len(s) = 2 /\ Len(t) = Len(s) + 1 /\ t[Len(t)] = c
        /\ \A i \in 1..Len(s) : t[i] = s[i]
    OBVIOUS
  <2>2. s \in Seq(S) /\ t \in Seq(S)
    BY <1>2
  <2> HIDE DEF s, t
  <2>3. s \o <<c>> = t
    BY <1>1, <1>3, <2>1, <2>2
  <2> QED
    BY <2>3 DEF s, t
<1>6. <<a, b, c>> \o <<d>> = <<a, b, c, d>>
  <2> DEFINE s == <<a, b, c>>
             t == <<a, b, c, d>>
  <2>1. /\ Len(s) = 3 /\ Len(t) = Len(s) + 1 /\ t[Len(t)] = d
        /\ \A i \in 1..Len(s) : t[i] = s[i]
    OBVIOUS
  <2>2. s \in Seq(S) /\ t \in Seq(S)
    BY <1>2
  <2> HIDE DEF s, t
  <2>3. s \o <<d>> = t
    BY <1>1, <1>3, <2>1, <2>2
  <2> QED
    BY <2>3 DEF s, t
<1> QED
  BY <1>4, <1>5, <1>6

LEMMA Instructions ==
    ASSUME NEW user, NEW token, NEW amount
    PROVE  /\ CreateTokenAccount(user, token) \o Program(token) = Transfer(token)
           /\ CreateTokenAccount(user, "quote") \o WrapSOLInstruction(amount)
                 \o Program("quote") \o UnwrapSOLInstruction
                = WrappedTransfer(amount)
  BY Joined, Zenon
     DEF CreateTokenAccount, Program, WrapSOLInstruction, UnwrapSOLInstruction,
         Transfer, WrappedTransfer

LEMMA DepositBuilt ==
    ASSUME NEW k \in EscrowKeys, NEW amount \in Amounts, NEW opens
    PROVE  AsBuilt(OfEscrow("deposit", k, amount, opens, CreateDepositIx(k, amount)))
  BY Instructions DEF AsBuilt, IsDeposit, OfEscrow, CreateDepositIx

LEMMA PaymentBuilt ==
    ASSUME NEW k \in EscrowKeys, NEW amount,
           NEW method \in {"withdraw", "claim", "withdrawRemainingQuote",
                           "closeEscrow"},
           method = "withdraw" => amount \in Amounts,
           NEW instructions, Receives(instructions)
    PROVE  AsBuilt(OfEscrow(method, k, amount, FALSE, instructions))
  BY DEF AsBuilt, OfEscrow

LEMMA CreatorBuilt ==
    ASSUME NEW method \in {"creatorWithdraw", "creatorCollectFee",
                           "performUnsoldBaseTokenAction"},
           NEW instructions, Receives(instructions)
    PROVE  AsBuilt(OfCreator(method, instructions))
  BY DEF AsBuilt, OfCreator

\* An account made sure of, and then the program.
LEMMA CreateAndPay ==
    ASSUME NEW user
    PROVE  /\ \A token \in Tokens :
                Receives(CreateTokenAccount(user, token) \o Program(token))
           /\ "quote" \in Tokens /\ "base" \in Tokens /\ Receives(<<>>)
BY Instructions DEF Receives, Tokens

LEMMA PaymentInstructions ==
    ASSUME NEW k \in EscrowKeys
    PROVE  /\ Receives(CreateWithdrawIx(k)) /\ Receives(CreateClaimIx(k))
           /\ Receives(CreateWithdrawRemainingQuoteIx(k)) /\ Receives(<<>>)
BY CreateAndPay
   DEF CreateWithdrawIx, CreateWithdrawRemainingQuoteIx, CreateClaimIx

LEMMA CreatorInstructions ==
    /\ \A outcome : Receives(CreateCreatorWithdrawIx(outcome))
    /\ Receives(CreateCreatorCollectFeeIx)
    /\ Receives(CreatePerformUnsoldBaseTokenActionIx)
BY CreateAndPay
   DEF CreateCreatorWithdrawIx, CreateCreatorCollectFeeIx,
       CreatePerformUnsoldBaseTokenActionIx

\* What was built stays as it was built: no fee changes.
LEMMA AsBuiltKept ==
    ASSUME LedgerInv, [Next]_vars, UNCHANGED quoteIsNative, NEW tx, AsBuilt(tx)
    PROVE  AsBuilt(tx)'
<1>1. CASE tx.method = "deposit" /\ IsDeposit(tx)
  <2>1. tx.key[2] \in RegistryIndex
    BY <1>1 DEF IsDeposit, EscrowKeys
  <2>2. WrappedAmount(tx.key, tx.amount)' = WrappedAmount(tx.key, tx.amount)
    BY <2>1, FeesKept DEF WrappedAmount
  <2> QED
    BY <1>1, <2>2 DEF AsBuilt, IsDeposit
<1>2. CASE ~(tx.method = "deposit" /\ IsDeposit(tx))
  BY <1>2 DEF AsBuilt
<1> QED
  BY <1>1, <1>2

LEMMA BuiltStep ==
    ASSUME TransactionsInv, [TransactionsNext]_ledgerAndTransactions
    PROVE  \A tx \in built' : AsBuilt(tx)'
<1>1. /\ \A tx \in built : AsBuilt(tx)
      /\ LedgerInv
  BY DEF TransactionsInv
<1>2. [Next]_vars
  BY <1>1, TransactionsStepOfLedger
<1>3. UNCHANGED quoteIsNative
  BY DEF TransactionsNext, ledgerAndTransactions, walletVars, BuildDeposit, BuildWithdraw, BuildClaim,
         BuildWithdrawRemainingQuote, BuildCloseEscrow, BuildCreatorWithdraw,
         BuildCreatorCollectFee, BuildPerformUnsoldBaseTokenAction, Build, Drop, LandTransaction
<1>4. \A tx \in built : AsBuilt(tx)'
  BY <1>1, <1>2, <1>3, AsBuiltKept
<1>5. ASSUME NEW tx, AsBuilt(tx), Build(tx)
      PROVE  \A new \in built' : AsBuilt(new)'
  <2>1. built' = built \cup {tx} /\ AsBuilt(tx)'
    BY <1>1, <1>2, <1>3, <1>5, AsBuiltKept DEF Build
  <2> QED
    BY <1>4, <2>1
<1>6. ASSUME NEW k \in EscrowKeys, NEW amount \in Amounts,
             BuildDeposit(k, amount) \/ BuildWithdraw(k, amount)
      PROVE  \A new \in built' : AsBuilt(new)'
  <2>1. CASE BuildDeposit(k, amount)
    BY <1>5, <2>1, DepositBuilt DEF BuildDeposit
  <2>2. CASE BuildWithdraw(k, amount)
    BY <1>5, <2>2, PaymentBuilt, PaymentInstructions DEF BuildWithdraw
  <2> QED
    BY <1>6, <2>1, <2>2
<1>7. ASSUME NEW k \in EscrowKeys,
             \/ BuildClaim(k) \/ BuildWithdrawRemainingQuote(k)
             \/ BuildCloseEscrow(k)
      PROVE  \A new \in built' : AsBuilt(new)'
  <2>1. CASE BuildClaim(k)
    BY <1>5, <2>1, PaymentBuilt, PaymentInstructions DEF BuildClaim
  <2>2. CASE BuildWithdrawRemainingQuote(k)
    BY <1>5, <2>2, PaymentBuilt, PaymentInstructions DEF BuildWithdrawRemainingQuote
  <2>3. CASE BuildCloseEscrow(k)
    BY <1>5, <2>3, PaymentBuilt, PaymentInstructions DEF BuildCloseEscrow
  <2> QED
    BY <1>7, <2>1, <2>2, <2>3
<1>8. CASE BuildCreatorWithdraw \/ BuildCreatorCollectFee
            \/ BuildPerformUnsoldBaseTokenAction
  <2>1. CASE BuildCreatorWithdraw
    <3>1. PICK outcome \in {"Completed", "Failed"} :
            Build(OfCreator("creatorWithdraw", CreateCreatorWithdrawIx(outcome)))
      BY <2>1 DEF BuildCreatorWithdraw
    <3>2. AsBuilt(OfCreator("creatorWithdraw", CreateCreatorWithdrawIx(outcome)))
      BY CreatorBuilt, CreatorInstructions
    <3> QED
      BY <1>5, <3>1, <3>2
  <2>2. CASE BuildCreatorCollectFee
    BY <1>5, <2>2, CreatorBuilt, CreatorInstructions DEF BuildCreatorCollectFee
  <2>3. CASE BuildPerformUnsoldBaseTokenAction
    BY <1>5, <2>3, CreatorBuilt, CreatorInstructions
       DEF BuildPerformUnsoldBaseTokenAction
  <2> QED
    BY <1>8, <2>1, <2>2, <2>3
<1>9. CASE built' \subseteq built
  BY <1>4, <1>9
<1> QED
  BY <1>6, <1>7, <1>8, <1>9 DEF TransactionsNext, ledgerAndTransactions, walletVars, LandTransaction, Drop

---------------------------------------------------------------------------
(* The wallets *)

LEMMA WrappedNat ==
    ASSUME LedgerInv, NEW k \in EscrowKeys, NEW amount \in Amounts
    PROVE  WrappedAmount(k, amount) \in Nat
<1>1. presale.presaleRegistries[k[2]].depositFeeBps \in 0..(BpsBase - 1)
  BY EscrowTypes DEF LedgerInv, PresaleRegistry
<1> QED
  BY <1>1, AmountsNat, FeeIncludedAtLeast DEF WrappedAmount

LEMMA WalletAfter ==
    ASSUME LedgerInv, NEW tx, AsBuilt(tx), NEW w \in Wallet, NEW paid \in Int
    PROVE  AfterAll(w, tx.instructions, paid) \in Wallet \cup {Refused}
<1>1. ASSUME NEW token \in Tokens
      PROVE  AfterAll(w, Transfer(token), paid) \in Wallet \cup {Refused}
  <2> DEFINE n == Held(w, token) + paid
  <2>1. CASE n < 0
    BY <2>1, TransferEffect
  <2>2. CASE ~(n < 0)
    <3>1. n \in Nat \cup {NoAccount}
      BY <2>2, HeldNat
    <3>2. AfterAll(w, Transfer(token), paid) = [w EXCEPT ![token] = n]
      BY <2>2, TransferEffect
    <3> HIDE DEF n
    <3>3. [w EXCEPT ![token] = n] \in Wallet
      BY <3>1, TokensSet, Zenon
    <3> QED
      BY <3>2, <3>3
  <2> QED
    BY <2>1, <2>2
<1>2. ASSUME NEW amount \in Nat
      PROVE  AfterAll(w, WrappedTransfer(amount), paid) \in Wallet \cup {Refused}
  <2> DEFINE held == Held(w, "quote")
             sol == (w.sol - amount) + (held + amount + paid)
  <2>1. CASE w.sol < amount \/ held + amount + paid < 0
    BY <2>1, WrappedTransferEffect
  <2>2. CASE ~(w.sol < amount \/ held + amount + paid < 0)
    <3>1. held \in Nat /\ w.sol \in Nat
      BY HeldNat DEF Wallet, Tokens
    <3>2. sol \in Nat
      BY <2>2, <3>1
    <3>3. AfterAll(w, WrappedTransfer(amount), paid)
            = [w EXCEPT !.sol = sol, !.quote = NoAccount]
      <4>1. AfterAll(w, WrappedTransfer(amount), paid)
              = IF w.sol < amount \/ held + amount + paid < 0 THEN Refused
                ELSE [w EXCEPT !.sol = sol, !.quote = NoAccount]
        BY WrappedTransferEffect, Zenon
      <4> HIDE DEF sol, held
      <4> QED
        BY <2>2, <4>1
    <3> HIDE DEF sol
    <3> QED
      BY <3>2, <3>3 DEF Wallet
  <2> QED
    BY <2>1, <2>2
<1>3. AfterAll(w, <<>>, paid) \in Wallet
  BY NothingDone
<1>4. "quote" \in Tokens
  BY DEF Tokens
<1>5. CASE tx.method = "deposit" /\ IsDeposit(tx)
  <2>1. WrappedAmount(tx.key, tx.amount) \in Nat
    BY <1>5, WrappedNat DEF IsDeposit
  <2> QED
    BY <1>1, <1>2, <1>4, <1>5, <2>1 DEF IsDeposit
<1>6. CASE Receives(tx.instructions)
  BY <1>1, <1>3, <1>6 DEF Receives
<1> QED
  BY <1>5, <1>6 DEF AsBuilt

LEMMA VaultsAreInts ==
    LedgerInv /\ VaultInv => quoteVault \in Int /\ baseVault \in Int
<1>1. LedgerInv => presale \in PresaleAccounts
  BY SumTypes DEF LedgerInv
<1> QED
  BY <1>1 DEF VaultInv, Untouched, Covered, PresaleAccounts

LEMMA VaultsAreIntsNext ==
    (LedgerInv /\ VaultInv)' => (quoteVault \in Int /\ baseVault \in Int)'
BY VaultsAreInts, PTL

LEMMA SignerIsUser ==
    ASSUME NEW tx, AsBuilt(tx)
    PROVE  tx.user \in Users
BY DEF AsBuilt, IsDeposit, EscrowKeys, Users

LEMMA WalletsStep ==
    ASSUME TransactionsInv, [TransactionsNext]_ledgerAndTransactions,
           (LedgerInv /\ VaultInv)'
    PROVE  WalletsHold'
<1>1. LedgerInv /\ VaultInv /\ WalletsHold /\ \A tx \in built : AsBuilt(tx)
  BY DEF TransactionsInv
<1>2. ASSUME NEW tx \in built, LandTransaction(tx)
      PROVE  WalletsHold'
  <2> DEFINE paid == (quoteVault - quoteVault') + (baseVault - baseVault')
             after == AfterAll(wallets[tx.user], tx.instructions, paid)
  <2>1. quoteVault' \in Int /\ baseVault' \in Int
    BY VaultsAreIntsNext
  <2>2. paid \in Int
    BY <1>1, <2>1, VaultsAreInts
  <2>3. tx.user \in Users /\ wallets[tx.user] \in Wallet
    BY <1>1, SignerIsUser DEF WalletsHold
  <2>4. /\ after # Refused /\ UNCHANGED quoteIsNative
        /\ wallets' = [wallets EXCEPT ![tx.user] = after]
    BY <1>2 DEF LandTransaction
  <2> HIDE DEF paid
  <2>5. after \in Wallet
    BY <1>1, <2>2, <2>3, <2>4, WalletAfter
  <2> HIDE DEF after
  <2> QED
    BY <1>1, <2>4, <2>5 DEF WalletsHold
<1>3. CASE UNCHANGED <<quoteIsNative, wallets>>
  BY <1>1, <1>3 DEF WalletsHold
<1> QED
  BY <1>2, <1>3
     DEF TransactionsNext, ledgerAndTransactions, walletVars, BuildDeposit, BuildWithdraw, BuildClaim,
         BuildWithdrawRemainingQuote, BuildCloseEscrow, BuildCreatorWithdraw,
         BuildCreatorCollectFee, BuildPerformUnsoldBaseTokenAction, Build, Drop

---------------------------------------------------------------------------
(* The invariant holds *)

LEMMA TransactionsInitOK == TransactionsInit => TransactionsInv
<1> SUFFICES ASSUME TransactionsInit
             PROVE  TransactionsInv
  OBVIOUS
<1>1. Init
  BY DEF TransactionsInit
<1>2. LedgerInv /\ VaultInv
  BY <1>1, InitOK, VaultInit
<1>3. ClaimsWithinEntitlement
  BY <1>1 DEF Init, ClaimsWithinEntitlement, OpenEscrows, Exists
<1>4. WalletsHold
  BY BuiltAssumption DEF TransactionsInit, WalletsHold, Wallet
<1> QED
  BY <1>2, <1>3, <1>4 DEF TransactionsInv, TransactionsInit

LEMMA TransactionsStepOK ==
    ASSUME TransactionsInv, [TransactionsNext]_ledgerAndTransactions
    PROVE  TransactionsInv'
<1>1. LedgerInv /\ ClaimsWithinEntitlement /\ VaultInv /\ \A tx \in built : AsBuilt(tx)
  BY DEF TransactionsInv
<1>2. [Next]_vars
  BY <1>1, TransactionsStepOfLedger
<1>3. LedgerInv' /\ ClaimsWithinEntitlement' /\ VaultInv'
  BY <1>1, <1>2, StepOK, ClaimsStep, VaultStep
<1>4. WalletsHold'
  BY <1>3, WalletsStep
<1>5. \A tx \in built' : AsBuilt(tx)'
  BY BuiltStep
<1> QED
  BY <1>3, <1>4, <1>5 DEF TransactionsInv

LEMMA TransactionsInvariant == TransactionsSpec => []TransactionsInv
<1>1. TransactionsInv /\ [TransactionsNext]_ledgerAndTransactions => TransactionsInv'
  BY TransactionsStepOK
<1> QED
  BY <1>1, TransactionsInitOK, PTL DEF TransactionsSpec

\* Whatever is built and whenever it lands, the ledger does what it allows: all
\* that is proved of the ledger holds of presales whose users build their
\* transactions with Presale's methods.
THEOREM TransactionsImplementLedger == TransactionsSpec => Spec
<1>1. TransactionsInit => Init
  BY DEF TransactionsInit
<1>2. TransactionsInv /\ [TransactionsNext]_ledgerAndTransactions => [Next]_vars
  BY TransactionsStepOfLedger DEF TransactionsInv
<1> QED
  BY <1>1, <1>2, TransactionsInvariant, PTL DEF TransactionsSpec, Spec

---------------------------------------------------------------------------
(* Nobody is refused *)

\* The ledger charges a deposit no more than was wrapped for the whole of it.
LEMMA Charge ==
    ASSUME LedgerInv, NEW k \in EscrowKeys, NEW e, Holds(k, e),
           NEW maxAmount \in Amounts
    PROVE  LET amount == SuggestDepositAmount(presale, e, maxAmount)
               charge == amount + DepositFee(presale, k[2], amount)
           IN  charge \in Nat /\ charge <= WrappedAmount(k, maxAmount)
<1> DEFINE amount == SuggestDepositAmount(presale, e, maxAmount)
           bps == presale.presaleRegistries[k[2]].depositFeeBps
           included(n) == CalculateDepositFeeIncludedAmount(n, bps, "Up")
<1>1. maxAmount \in Nat
  BY AmountsNat
<1>2. amount \in Nat /\ amount <= maxAmount
  BY <1>1, SuggestedDeposit
<1>3. bps \in 0..(BpsBase - 1)
  BY EscrowTypes DEF LedgerInv, PresaleRegistry
<1>4. WrappedAmount(k, maxAmount) = included(maxAmount)
  BY DEF WrappedAmount
<1>5. DepositFee(presale, k[2], amount) = included(amount) - amount
  BY DEF DepositFee
<1> HIDE DEF amount, bps
<1>6. included(amount) \in Nat /\ included(amount) <= included(maxAmount)
  BY <1>1, <1>2, <1>3, FeeIncludedAtLeast, FeeIncludedMonotone
<1> HIDE DEF included
<1>7. amount + DepositFee(presale, k[2], amount) = included(amount)
  BY <1>2, <1>5, <1>6
<1> QED
  BY <1>4, <1>6, <1>7 DEF amount

LEMMA PaymentBounds ==
    ASSUME LedgerInv, NEW tx, AsBuilt(tx), NEW payment \in Payment(tx)
    PROVE  /\ tx.method # "deposit" => payment = 0
           /\ tx.method = "deposit" =>
                /\ payment \in Int
                /\ 0 <= WrappedAmount(tx.key, tx.amount) + payment
<1>1. CASE tx.method # "deposit"
  BY <1>1 DEF Payment
<1>2. CASE tx.method = "deposit"
  <2> DEFINE k == tx.key
             charge(e) ==
                LET amount == SuggestDepositAmount(presale, e, tx.amount)
                IN  amount + DepositFee(presale, tx.key[2], amount)
  <2>1. k \in EscrowKeys /\ tx.amount \in Amounts
    BY <1>2 DEF AsBuilt, IsDeposit
  <2>2. PICK e \in IF Exists(k) THEN {escrows[k]} ELSE NewEscrows(k) :
            payment = -charge(e)
    BY <1>2 DEF Payment
  <2>3. Holds(k, e)
    BY <2>1, <2>2, EscrowHolds, NewEscrowHolds
  <2>4. charge(e) \in Nat /\ charge(e) <= WrappedAmount(k, tx.amount)
    BY <2>1, <2>3, Charge
  <2>5. WrappedAmount(k, tx.amount) \in Nat
    BY <2>1, WrappedNat
  <2> HIDE DEF charge
  <2> QED
    BY <1>2, <2>2, <2>4, <2>5
<1> QED
  BY <1>1, <1>2

\* The accounts a payment goes to are there: it is never refused.
LEMMA PaymentsArrive ==
    ASSUME NEW w \in Wallet, NEW instructions, Receives(instructions)
    PROVE  AfterAll(w, instructions, 0) # Refused
<1>1. CASE instructions = <<>>
  BY <1>1, NothingDone, RefusedAssumption
<1>2. ASSUME NEW token \in Tokens, instructions = Transfer(token)
      PROVE  AfterAll(w, instructions, 0) # Refused
  <2> DEFINE n == Held(w, token) + 0
  <2>1. n \in Nat /\ n \in Nat \cup {NoAccount} /\ ~(n < 0)
    BY HeldNat
  <2>2. AfterAll(w, instructions, 0) = [w EXCEPT ![token] = n]
    BY <1>2, <2>1, TransferEffect
  <2> HIDE DEF n
  <2>3. [w EXCEPT ![token] = n] \in Wallet
    BY <2>1, TokensSet, Zenon
  <2> QED
    BY <2>2, <2>3, RefusedAssumption
<1> QED
  BY <1>1, <1>2 DEF Receives

\* A funded deposit is not refused either, whatever the account holds.
LEMMA DepositsArrive ==
    ASSUME LedgerInv, WalletsHold, NEW tx, tx.method = "deposit", IsDeposit(tx),
           NEW payment \in Int, 0 <= WrappedAmount(tx.key, tx.amount) + payment,
           Funded(tx, payment)
    PROVE  AfterAll(wallets[tx.user], tx.instructions, payment) # Refused
<1> DEFINE w == wallets[tx.user]
           wrapped == WrappedAmount(tx.key, tx.amount)
           held == Held(w, "quote")
<1>1. AsBuilt(tx)
  BY DEF AsBuilt
<1>2. w \in Wallet /\ "quote" \in Tokens
  BY <1>1, SignerIsUser DEF WalletsHold, Tokens
<1>3. held \in Nat /\ (w.quote # NoAccount => w.quote = held) /\ w.sol \in Nat
  BY <1>2, HeldNat DEF Wallet
<1>4. wrapped \in Nat
  BY WrappedNat DEF IsDeposit
<1>5. CASE quoteIsNative
  <2>1. tx.instructions = WrappedTransfer(wrapped)
    BY <1>5 DEF IsDeposit
  <2>2. tx.instructions[2] = [kind |-> "wrap", amount |-> wrapped]
        /\ 2 \in DOMAIN tx.instructions
    BY <2>1 DEF WrappedTransfer
  <2>3. wrapped <= w.sol
    BY <1>5, <2>2 DEF Funded
  <2> DEFINE sol == (w.sol - wrapped) + (held + wrapped + payment)
  <2> HIDE DEF w, wrapped, held
  <2>4. ~(w.sol < wrapped \/ held + wrapped + payment < 0) /\ sol \in Nat
    BY <1>3, <1>4, <2>3 DEF wrapped
  <2>5. AfterAll(w, WrappedTransfer(wrapped), payment)
            = [w EXCEPT !.sol = sol, !.quote = NoAccount]
    <3>1. AfterAll(w, WrappedTransfer(wrapped), payment)
            = IF w.sol < wrapped \/ held + wrapped + payment < 0 THEN Refused
              ELSE [w EXCEPT !.sol = sol, !.quote = NoAccount]
      BY <1>2, <1>4, WrappedTransferEffect, Zenon DEF held
    <3> QED
      BY <2>4, <3>1
  <2> HIDE DEF sol
  <2>6. [w EXCEPT !.sol = sol, !.quote = NoAccount] \in Wallet
    BY <1>2, <2>4 DEF Wallet
  <2> QED
    BY <2>1, <2>5, <2>6, RefusedAssumption DEF w
<1>6. CASE ~quoteIsNative
  <2> DEFINE n == held + payment
  <2>1. tx.instructions = Transfer("quote")
    BY <1>6 DEF IsDeposit
  <2>2. n \in Nat /\ n \in Nat \cup {NoAccount} /\ ~(n < 0)
    BY <1>3, <1>6 DEF Funded
  <2>3. AfterAll(w, tx.instructions, payment) = [w EXCEPT !["quote"] = n]
    BY <1>2, <2>1, <2>2, TransferEffect
  <2> HIDE DEF n, w
  <2>4. [w EXCEPT !["quote"] = n] \in Wallet
    BY <1>2, <2>2, TokensSet, Zenon
  <2> QED
    BY <2>3, <2>4, RefusedAssumption DEF w
<1> QED
  BY <1>5, <1>6

\* Whatever landed before it, a built transaction finds the token accounts it
\* needs and what the program takes from them: an account that is missing is
\* created (createAssociatedTokenAccountIdempotentInstruction), and what is
\* wrapped is enough for every amount that the ledger may take (Presale.deposit,
\* wrapSOLInstruction).
THEOREM OnlyTheLedgerRefusesTheorem == TransactionsSpec => []OnlyTheLedgerRefuses
<1>1. ASSUME TransactionsInv, NEW tx \in built, NEW payment \in Payment(tx),
             tx.method # "deposit" \/ Funded(tx, payment)
      PROVE  AfterAll(wallets[tx.user], tx.instructions, payment) # Refused
  <2>1. LedgerInv /\ WalletsHold /\ AsBuilt(tx)
    BY <1>1 DEF TransactionsInv
  <2>2. wallets[tx.user] \in Wallet
    BY <2>1, SignerIsUser DEF WalletsHold
  <2>3. CASE tx.method = "deposit"
    <3>1. IsDeposit(tx)
      BY <2>1, <2>3 DEF AsBuilt
    <3> QED
      BY <1>1, <2>1, <2>3, <3>1, PaymentBounds, DepositsArrive
  <2>4. CASE tx.method # "deposit"
    <3>1. payment = 0 /\ Receives(tx.instructions)
      BY <2>1, <2>4, PaymentBounds DEF AsBuilt
    <3> QED
      BY <2>2, <3>1, PaymentsArrive
  <2> QED
    BY <2>3, <2>4
<1>2. TransactionsInv => OnlyTheLedgerRefuses
  BY <1>1 DEF OnlyTheLedgerRefuses
<1> QED
  BY <1>2, TransactionsInvariant, PTL

---------------------------------------------------------------------------
(* A deposit leaves nothing wrapped *)

\* Nothing but a deposit fills the quote vault.
LEMMA OnlyDepositsFill ==
    ASSUME LedgerInv, ClaimsWithinEntitlement, VaultInv,
           (LedgerInv /\ ClaimsWithinEntitlement /\ VaultInv)',
           NEW tx, AsBuilt(tx), LedgerStep(tx), tx.method # "deposit"
    PROVE  quoteVault' <= quoteVault
<1>1. Next
  BY LedgerStepIsNext
<1>2. quoteVault \in Int /\ baseVault \in Int
  BY VaultsAreInts
<1>3. CASE tx.method = "withdraw"
  <2>1. /\ tx.key \in EscrowKeys /\ tx.amount \in Nat
        /\ Withdraw(tx.key, tx.amount)
    BY <1>3, AmountsNat DEF AsBuilt, LedgerStep
  <2>2. \E a \in Nat : \E f \in Nat : quoteVault' = quoteVault - a - f
    BY <2>1, WithdrawMoves
  <2> QED
    BY <1>2, <2>2
<1>4. CASE quoteVault' = quoteVault
  BY <1>2, <1>4
<1>5. CASE /\ ~(quoteVault' = quoteVault)
           /\ \/ WithdrawRemainingQuote(tx.key) /\ tx.key \in EscrowKeys
              \/ CreatorWithdraw \/ CreatorCollectFee
              \/ PerformUnsoldBaseTokenAction
  <2>1. Decided
    BY <1>5, PresaleTypes
       DEF WithdrawRemainingQuote, CanWithdrawRemainingQuoteAmount,
           CanWithdrawRemainingQuote, CreatorWithdraw, CanCreatorWithdraw,
           CreatorCollectFee, CanCreatorCollectFee, PerformUnsoldBaseTokenAction,
           VaultInv, Settings, Decided, Progress, PresaleProgressState
  <2>2. Decided'
    BY <1>1, <2>1, OutcomeKept DEF Decided
  <2>3. PromiseInv /\ Covered /\ Settings
    BY <2>1, CoveredWhenDecided DEF VaultInv
  <2>4. (PromiseInv /\ Covered)'
    BY <2>2, DecidedIsCoveredNext
  <2>5. /\ quoteVault \in Nat /\ baseVault \in Nat
        /\ quoteVault' \in Nat /\ baseVault' \in Nat
    BY <2>3, <2>4, VaultsHold, VaultsHoldNext
  <2>6. CASE WithdrawRemainingQuote(tx.key) /\ tx.key \in EscrowKeys
    <3>1. ASale!Refund(tx.key)
      BY <1>1, <2>1, <2>3, <2>5, <2>6, RefundIsRefund
    <3>2. 0 <= quoteVault - quoteVault'
      BY <3>1 DEF ASale!Refund
    <3>3. \A m, n \in Nat : 0 <= m - n => n <= m
      OBVIOUS
    <3> QED
      BY <2>5, <3>2, <3>3, Zenon
  <2>7. CASE CreatorWithdraw \/ CreatorCollectFee \/ PerformUnsoldBaseTokenAction
    <3>1. ASale!TakeProceeds \/ ASale!TakeFees \/ ASale!TakeUnsold
      BY <1>1, <2>3, <2>5, <2>7, CreatorTakes
    <3> QED
      BY <2>5, <3>1 DEF ASale!TakeProceeds, ASale!TakeFees, ASale!TakeUnsold
  <2> QED
    BY <1>5, <2>6, <2>7
<1>6. CASE tx.method # "withdraw"
  <2>1. CASE Claim(tx.key) \/ CloseEscrow(tx.key)
    BY <1>4, <2>1 DEF Claim, CloseEscrow
  <2>2. CASE ~(Claim(tx.key) \/ CloseEscrow(tx.key))
    BY <1>4, <1>5, <1>6, <2>2 DEF AsBuilt, LedgerStep
  <2> QED
    BY <2>1, <2>2
<1> QED
  BY <1>3, <1>6

\* What a deposit pays is what the quote vault receives.
LEMMA DepositFills ==
    ASSUME NEW tx, tx.method = "deposit", LedgerStep(tx)
    PROVE  baseVault' = baseVault
BY DEF LedgerStep, Deposit, OpenAndDeposit, DepositInto

LEMMA DepositLands ==
    ASSUME TransactionsInv, (LedgerInv /\ VaultInv)',
           NEW tx \in built, LandTransaction(tx), tx.method = "deposit", quoteIsNative
    PROVE  LET w == wallets[tx.user]
           IN  /\ tx \in built \ built'
               /\ wallets'[tx.user].quote = NoAccount
               /\ wallets'[tx.user].sol
                    = w.sol + Held(w, "quote") - (quoteVault' - quoteVault)
<1> DEFINE w == wallets[tx.user]
           wrapped == WrappedAmount(tx.key, tx.amount)
           held == Held(w, "quote")
           paid == (quoteVault - quoteVault') + (baseVault - baseVault')
           after == AfterAll(w, tx.instructions, paid)
<1>1. LedgerInv /\ VaultInv /\ WalletsHold /\ AsBuilt(tx)
  BY DEF TransactionsInv
<1>2. /\ LedgerStep(tx) /\ after # Refused /\ built' = built \ {tx}
      /\ wallets' = [wallets EXCEPT ![tx.user] = after]
  BY DEF LandTransaction
<1>3. w \in Wallet /\ "quote" \in Tokens /\ tx.user \in DOMAIN wallets
  BY <1>1, SignerIsUser DEF WalletsHold, Tokens
<1>4. held \in Nat /\ w.sol \in Nat
  BY <1>3, HeldNat DEF Wallet
<1>5. /\ quoteVault \in Int /\ baseVault \in Int
      /\ quoteVault' \in Int /\ baseVault' \in Int
  BY <1>1, VaultsAreInts, VaultsAreIntsNext
<1>6. paid = quoteVault - quoteVault' /\ paid \in Int
  BY <1>2, <1>5, DepositFills
<1>7. tx.instructions = WrappedTransfer(wrapped) /\ wrapped \in Nat
  BY <1>1, WrappedNat DEF AsBuilt, IsDeposit
<1> HIDE DEF paid, wrapped
<1> DEFINE sol == (w.sol - wrapped) + (held + wrapped + paid)
<1>8. after = IF w.sol < wrapped \/ held + wrapped + paid < 0 THEN Refused
              ELSE [w EXCEPT !.sol = sol, !.quote = NoAccount]
  <2> HIDE DEF w, sol
  <2>1. AfterAll(w, WrappedTransfer(wrapped), paid)
            = IF w.sol < wrapped \/ held + wrapped + paid < 0 THEN Refused
              ELSE [w EXCEPT !.sol = sol, !.quote = NoAccount]
    BY <1>3, <1>6, <1>7, WrappedTransferEffect, Zenon DEF sol
  <2> QED
    BY <1>7, <2>1
<1>9. sol = w.sol + held - (quoteVault' - quoteVault)
  BY <1>4, <1>5, <1>6, <1>7
<1> HIDE DEF sol, held
<1>10. after = [w EXCEPT !.sol = sol, !.quote = NoAccount]
  BY <1>2, <1>8
<1>11. after.quote = NoAccount /\ after.sol = sol
  BY <1>3, <1>10 DEF Wallet
<1> HIDE DEF after
<1>12. wallets'[tx.user] = after
  BY <1>2, <1>3
<1> QED
  BY <1>2, <1>9, <1>11, <1>12 DEF held

\* What a deposit wrapped and the program did not take comes back with what was
\* wrapped before, and the account is closed (Presale.deposit,
\* unwrapSOLInstruction): no order of transactions leaves SOL behind in it.
THEOREM DepositReturnsTheRestTheorem == TransactionsSpec => DepositReturnsTheRest
<1> DEFINE Returns ==
        quoteIsNative /\ quoteVault' > quoteVault =>
            \E tx \in built \ built' :
                LET w == wallets[tx.user]
                    held == IF w.quote = NoAccount THEN 0 ELSE w.quote
                IN  /\ wallets'[tx.user].quote = NoAccount
                    /\ wallets'[tx.user].sol
                            = w.sol + held - (quoteVault' - quoteVault)
<1>1. ASSUME TransactionsInv, TransactionsInv', [TransactionsNext]_ledgerAndTransactions,
             quoteIsNative, quoteVault' > quoteVault
      PROVE  Returns
  <2>1. LedgerInv /\ ClaimsWithinEntitlement /\ VaultInv
        /\ \A tx \in built : AsBuilt(tx)
    BY <1>1 DEF TransactionsInv
  <2>2. (LedgerInv /\ ClaimsWithinEntitlement /\ VaultInv)'
    BY <1>1 DEF TransactionsInv
  <2>3. quoteVault \in Int /\ quoteVault' \in Int
    BY <2>1, <2>2, VaultsAreInts, VaultsAreIntsNext
  <2>4. ~(quoteVault' <= quoteVault)
    BY <1>1, <2>3
  <2>5. quoteVault' # quoteVault
    BY <2>3, <2>4
  <2>6. PICK tx \in built : LandTransaction(tx)
    BY <1>1, <2>5
       DEF TransactionsNext, ledgerAndTransactions, vars, Tick, BuildDeposit, BuildWithdraw,
           BuildClaim, BuildWithdrawRemainingQuote, BuildCloseEscrow,
           BuildCreatorWithdraw, BuildCreatorCollectFee,
           BuildPerformUnsoldBaseTokenAction, Build, Drop
  <2>7. tx.method = "deposit"
    <3>1. LedgerStep(tx)
      BY <2>6 DEF LandTransaction
    <3> QED
      BY <2>1, <2>2, <2>4, <3>1, OnlyDepositsFill
  <2> QED
    BY <1>1, <2>2, <2>6, <2>7, DepositLands DEF Held
<1>2. TransactionsInv /\ TransactionsInv' /\ [TransactionsNext]_ledgerAndTransactions
        => [Returns]_ledgerAndTransactions
  BY <1>1
<1> HIDE DEF Returns
<1>3. TransactionsSpec => [][Returns]_ledgerAndTransactions
  BY <1>2, TransactionsInvariant, PTL DEF TransactionsSpec
<1> QED
  BY <1>3 DEF DepositReturnsTheRest, Returns
=============================================================================
