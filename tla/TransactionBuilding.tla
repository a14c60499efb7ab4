------------------------- MODULE TransactionBuilding -------------------------
(***************************************************************************)
(* How a method of Presale turns into a transaction that lands (presale.ts *)
(* 191-228, rpc.ts 41-81): the mints are read, every instruction is built  *)
(* with its accounts, the transaction is simulated for its compute units   *)
(* and given a blockhash; then it lands before the blockhash expires, or   *)
(* it does not and the caller calls the method again.                      *)
(*                                                                         *)
(* A request to the RPC node, or to a server that keeps the proofs, may    *)
(* fail or be refused at any await.  Between the simulation and the        *)
(* landing other transactions change what the transaction costs: a token   *)
(* account that existed must be created, for instance.  The account that   *)
(* the object has cached, with the clock, may say that the presale is      *)
(* decided or not.  What the program decides is the ledger's and left out. *)
(***************************************************************************)
EXTENDS InstructionAccounts, Integers, Sequences

CONSTANTS
    Methods,        \* the methods to be called
    MintPrograms,   \* token programs the mints may belong to
    Costs,          \* compute units a transaction may use
    MaxUnits,       \* the most units a transaction may have, 1,400,000
    DefaultUnits,   \* units per instruction without a limit set, 200,000
    MaxChanges      \* bound of the changes by others

ASSUME UnitsAssumption ==
    /\ MaxUnits \in Nat \ {0} /\ DefaultUnits \in Nat \ {0}
    /\ Costs \subseteq 1..MaxUnits
    /\ MaxChanges \in Nat

VARIABLES
    method,     \* the method that the caller wants a transaction of
    optimize,   \* shouldOptimizeComputeUnit
    mints,      \* token programs of the base and the quote mint
    decided,    \* whether the cached presale is completed or failed by now
    stage,      \* where the call is
    left,       \* the program's instructions that are still to be built
    known,      \* accounts known of the first of them
    rpcFailed,  \* whether a request of this call has failed
    limit,      \* compute unit limit of the transaction
    cost,       \* units that the transaction would use now
    changes     \* how often others have changed that

vars == <<method, optimize, mints, decided, stage, left, known, rpcFailed,
          limit, cost, changes>>

None == 0   \* no units reported: null in the code

---------------------------------------------------------------------------
(* Methods *)

\* The program's instructions of a method's transaction, and how many other
\* instructions stand beside them: token accounts, wrapping and unwrapping.
Of(instructions, others) == [instructions |-> instructions, others |-> others]

Transactions ==
    [createProrataPresale |-> Of(<<CreateInitializeProrataPresaleIx>>, 0),
     createFcfsPresale |-> Of(<<CreateInitializeFcfsPresaleIx>>, 0),
     createFixedPricePresale |->
        Of(<<CreateInitializeFixedPricePresaleArgsIx,
             CreateInitializeFixedPricePresaleIx>>, 0),
     closeFixedPricePresaleArgs |-> Of(<<CreateCloseFixedPriceArgsIx>>, 0),
     createMerkleRootConfig |-> Of(<<CreateMerkleRootConfigIx>>, 0),
     closeMerkleRootConfig |-> Of(<<CloseMerkleRootConfigIx>>, 0),
     createPermissionlessEscrow |-> Of(<<CreatePermissionlessEscrowIx>>, 0),
     createPermissionedEscrowWithMerkleProof |->
        Of(<<CreatePermissionedEscrowWithMerkleProofIx>>, 0),
     createPermissionedEscrowWithCreator |->
        Of(<<CreatePermissionedEscrowWithCreatorIx>>, 0),
     createOperator |-> Of(<<CreateOperatorIx>>, 0),
     revokeOperator |-> Of(<<CreateRevokeOperatorIx>>, 0),
     deposit |-> Of(<<CreateDepositIx>>, 1),
     depositSOLWithNewEscrow |->
        Of(<<CreatePermissionlessEscrowIx, CreateDepositIx>>, 4),
     depositWithMerkleProof |->
        Of(<<CreatePermissionedEscrowWithMerkleProofIx, CreateDepositIx>>, 1),
     withdraw |-> Of(<<CreateWithdrawIx>>, 1),
     claim |-> Of(<<CreateClaimIx>>, 1),
     withdrawRemainingQuote |-> Of(<<CreateWithdrawRemainingQuoteIx>>, 1),
     performUnsoldBaseTokenAction |->
        Of(<<CreatePerformUnsoldBaseTokenActionIx>>, 1),
     creatorWithdraw |-> Of(<<CreateCreatorWithdrawIx>>, 1),
     closeEscrow |-> Of(<<CreateCloseEscrowIx>>, 0),
     createPermissionedServerMetadata |->
        Of(<<CreateInitializePermissionedServerMetadataIx>>, 0),
     closePermissionedServerMetadata |->
        Of(<<CreateClosePermissionedServerMetadataIx>>, 0),
     refreshEscrow |-> Of(<<CreateRefreshEscrowIx>>, 0),
     creatorCollectFee |-> Of(<<CreateCreatorCollectFeeIx>>, 1)]

ASSUME MethodsAssumption == Methods \subseteq DOMAIN Transactions

NumberOfInstructions ==
    Len(Transactions[method].instructions) + Transactions[method].others

\* createOperator builds its transaction without the optimization.
Optimizes == optimize /\ method # "createOperator"

---------------------------------------------------------------------------
(* Compute units *)

\* Without a simulation: so much for every instruction.
DefaultEstimate ==
    IF NumberOfInstructions * DefaultUnits > MaxUnits
    THEN MaxUnits ELSE NumberOfInstructions * DefaultUnits

\* Mutant: never more than by default.
LimitCappedAtDefault(units) ==
    IF units > DefaultEstimate THEN DefaultEstimate ELSE units

\* A tenth on top of the estimate, as far as there is room.
LimitOf(units) ==
    LET buffered == (11 * units) \div 10
    IN  IF buffered > MaxUnits THEN MaxUnits ELSE buffered

---------------------------------------------------------------------------
(* The call *)

TypeOK ==
    /\ method \in Methods /\ optimize \in BOOLEAN
    /\ mints \in MintPrograms \X MintPrograms
    /\ decided \in BOOLEAN
    /\ stage \in {"idle", "mints", "accounts", "simulation", "blockhash",
                  "built", "landed", "thrown"}
    /\ rpcFailed \in BOOLEAN
    /\ limit \in 0..MaxUnits
    /\ cost \in Costs
    /\ changes \in 0..MaxChanges

Init ==
    /\ method \in Methods
    /\ optimize \in BOOLEAN
    /\ mints \in MintPrograms \X MintPrograms
    /\ decided \in BOOLEAN
    /\ stage = "idle"
    /\ left = <<>> /\ known = {}
    /\ rpcFailed = FALSE
    /\ limit = 0
    /\ cost \in Costs
    /\ changes = 0

Environment == <<method, mints, decided, cost, changes>>

\* The invariant of createCreatorWithdrawIx: there is an outcome, whose vault the
\* instruction names.  No await is before it.
HasOutcome == method = "creatorWithdraw" => decided

\* The caller calls the method, for the first time or again.
Call ==
    LET instructions == Transactions[method].instructions
    IN  /\ stage \in {"idle", "thrown"}
        /\ HasOutcome
        /\ stage' = IF method = "createFixedPricePresale"
                    THEN "mints" ELSE "accounts"
        /\ left' = instructions
        /\ known' = Head(instructions).named
        /\ rpcFailed' = FALSE
        /\ limit' = 0
        /\ UNCHANGED <<Environment, optimize>>

\* The call throws before anything is asked of the node.
CallWithoutOutcome ==
    /\ stage \in {"idle", "thrown"}
    /\ ~HasOutcome
    /\ stage' = "thrown"
    /\ left' = <<>> /\ known' = {}
    /\ rpcFailed' = FALSE
    /\ limit' = 0
    /\ UNCHANGED <<Environment, optimize>>

\* createFixedPricePresale reads the mints for their decimals; unpackMint without
\* a program accepts the mints of the token program only.
UnpackMints ==
    /\ stage = "mints"
    /\ stage' = IF mints = <<"Token", "Token">> THEN "accounts" ELSE "thrown"
    /\ UNCHANGED <<Environment, optimize, left, known, rpcFailed, limit>>

\* instruction(): Anchor looks for one account more.
ResolveAccount ==
    /\ stage = "accounts"
    /\ left # <<>>
    /\ \E a \in Findable(Head(left).idl, known) : known' = known \cup {a}
    /\ UNCHANGED <<Environment, optimize, stage, left, rpcFailed, limit>>

\* When it finds no more, all must be there.
BuildInstruction ==
    /\ stage = "accounts"
    /\ left # <<>>
    /\ Findable(Head(left).idl, known) = {}
    /\ IF Head(left).idl.accounts \subseteq known
       THEN /\ left' = Tail(left)
            /\ known' = IF left' = <<>> THEN {} ELSE Head(left').named
            /\ stage' = IF left' # <<>> THEN "accounts"
                        ELSE IF Optimizes THEN "simulation" ELSE "blockhash"
            /\ limit' = IF left' = <<>> /\ ~Optimizes THEN DefaultEstimate ELSE limit
       ELSE /\ stage' = "thrown"
            /\ UNCHANGED <<left, known, limit>>
    /\ UNCHANGED <<Environment, optimize, rpcFailed>>

\* getSimulationComputeUnits reports what the transaction costs now.
SimulateReports ==
    /\ stage = "simulation"
    /\ limit' = LimitOf(cost)
    /\ stage' = "blockhash"
    /\ UNCHANGED <<Environment, optimize, left, known, rpcFailed>>

\* The node reports no units: null, which counts as 0.
SimulateReportsNothing ==
    /\ stage = "simulation"
    /\ limit' = LimitOf(None)
    /\ stage' = "blockhash"
    /\ UNCHANGED <<Environment, optimize, left, known, rpcFailed>>

\* The simulation fails or cannot be had; the error is caught.
SimulateFails ==
    /\ stage = "simulation"
    /\ limit' = LimitOf(DefaultEstimate)
    /\ stage' = "blockhash"
    /\ UNCHANGED <<Environment, optimize, left, known, rpcFailed>>

\* getLatestBlockhash: the call is done.
BuildTransaction ==
    /\ stage = "blockhash"
    /\ stage' = "built"
    /\ UNCHANGED <<Environment, optimize, left, known, rpcFailed, limit>>

\* A request fails and with it the call.
RpcFails ==
    /\ stage \in {"mints", "accounts", "blockhash"}
    /\ stage' = "thrown"
    /\ rpcFailed' = TRUE
    /\ UNCHANGED <<Environment, optimize, left, known, limit>>

---------------------------------------------------------------------------
(* The transaction *)

\* It lands with units enough.
Land ==
    /\ stage = "built"
    /\ cost <= limit
    /\ stage' = "landed"
    /\ UNCHANGED <<Environment, optimize, left, known, rpcFailed, limit>>

\* It runs out of units, or its blockhash expires before it lands.
Lapse ==
    /\ stage = "built"
    /\ stage' = "idle"
    /\ UNCHANGED <<Environment, optimize, left, known, rpcFailed, limit>>

SetComputeUnitOptimization ==
    /\ changes < MaxChanges
    /\ changes' = changes + 1
    /\ optimize' = ~optimize
    /\ UNCHANGED <<method, mints, decided, cost, stage, left, known, rpcFailed,
                   limit>>

\* What others do changes what the transaction costs.
CostChanges ==
    /\ changes < MaxChanges
    /\ changes' = changes + 1
    /\ cost' \in Costs
    /\ UNCHANGED <<method, optimize, mints, decided, stage, left, known,
                   rpcFailed, limit>>

\* The end has come, or another account is in the cache: a newer one, or one read
\* before it that arrives after it.
OutcomeChanges ==
    /\ changes < MaxChanges
    /\ changes' = changes + 1
    /\ decided' = ~decided
    /\ UNCHANGED <<method, optimize, mints, cost, stage, left, known,
                   rpcFailed, limit>>

Next ==
    \/ Call \/ CallWithoutOutcome \/ UnpackMints \/ ResolveAccount \/ BuildInstruction
    \/ SimulateReports \/ SimulateReportsNothing \/ SimulateFails
    \/ BuildTransaction \/ RpcFails
    \/ Land \/ Lapse
    \/ SetComputeUnitOptimization \/ CostChanges \/ OutcomeChanges

Spec == Init /\ [][Next]_vars

\* The caller keeps calling, and a call that waits for nothing goes on.  Of the
\* simulations not all are lost, nor of the transactions that could land.
Fairness ==
    /\ WF_vars(Call)
    /\ WF_vars(UnpackMints)
    /\ WF_vars(ResolveAccount)
    /\ WF_vars(BuildInstruction)
    /\ SF_vars(SimulateReports)
    /\ WF_vars(BuildTransaction)
    /\ SF_vars(Land)
    /\ WF_vars(Lapse)

FairSpec == Spec /\ Fairness

---------------------------------------------------------------------------
(* What must hold *)

\* A method throws only when a request has failed, or a creator withdrawal is
\* called while the account at hand has no outcome: Anchor finds every account that
\* a builder does not name, and every mint can be unpacked.
ThrowsHaveACause ==
    [][stage' = "thrown" => stage = "thrown" \/ rpcFailed' \/ ~HasOutcome]_vars

\* A caller who leaves the optimization on and calls again whenever the call threw,
\* the units ran out or the blockhash expired, gets the transaction landed if the
\* requests do not go on failing - and, for a creator withdrawal, once it stays so
\* that there is an outcome -, also where the units by default would not do: an
\* estimate that has become too small is made anew (presale.ts 198-217).
CallerGetsThrough ==
    <>[](Optimizes /\ HasOutcome /\ ~rpcFailed) => <>(stage = "landed")
=============================================================================
