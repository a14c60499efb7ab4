----------------------- MODULE TransactionBuildingProofs -----------------------
(***************************************************************************)
(* A method of Presale throws only when a request has failed, or when it   *)
(* is a creator withdrawal and there is no outcome: whatever the methods   *)
(* called, the costs and the limits, for mints of the token program and    *)
(* the methods but closeMerkleRootConfig, whose builder names too few      *)
(* accounts.                                                               *)
(***************************************************************************)
EXTENDS TransactionBuilding, SequenceTheorems, TLAPS

(* Accounts *)

\* From what its builder names, Anchor finds every account of an instruction.
FindsAll(ix) ==
    \A accounts :
        ix.named \subseteq accounts /\ Findable(ix.idl, accounts) = {}
            => ix.idl.accounts \subseteq accounts

LEMMA EveryAccountIsFound ==
    /\ FindsAll(CreateInitializeProrataPresaleIx)
    /\ FindsAll(CreateInitializeFcfsPresaleIx)
    /\ FindsAll(CreateInitializeFixedPricePresaleArgsIx)
    /\ FindsAll(CreateInitializeFixedPricePresaleIx)
    /\ FindsAll(CreateCloseFixedPriceArgsIx)
    /\ FindsAll(CreateMerkleRootConfigIx)
    /\ FindsAll(CreatePermissionlessEscrowIx)
    /\ FindsAll(CreatePermissionedEscrowWithMerkleProofIx)
    /\ FindsAll(CreatePermissionedEscrowWithCreatorIx)
    /\ FindsAll(CreateOperatorIx)
    /\ FindsAll(CreateRevokeOperatorIx)
    /\ FindsAll(CreateDepositIx)
    /\ FindsAll(CreateWithdrawIx)
    /\ FindsAll(CreateClaimIx)
    /\ FindsAll(CreateWithdrawRemainingQuoteIx)
    /\ FindsAll(CreatePerformUnsoldBaseTokenActionIx)
    /\ FindsAll(CreateCreatorWithdrawIx)
    /\ FindsAll(CreateCloseEscrowIx)
    /\ FindsAll(CreateInitializePermissionedServerMetadataIx)
    /\ FindsAll(CreateClosePermissionedServerMetadataIx)
    /\ FindsAll(CreateRefreshEscrowIx)
    /\ FindsAll(CreateCreatorCollectFeeIx)
<1>1. FindsAll(CreateInitializeProrataPresaleIx)
  BY DEF FindsAll, Findable, CreateInitializeProrataPresaleIx, InitializePresaleAccounts
<1>2. FindsAll(CreateInitializeFcfsPresaleIx)
  BY DEF FindsAll, Findable, CreateInitializeFcfsPresaleIx, InitializePresaleAccounts
<1>3. FindsAll(CreateInitializeFixedPricePresaleArgsIx)
  BY DEF FindsAll, Findable, CreateInitializeFixedPricePresaleArgsIx,
     InitializeFixedPricePresaleArgsAccounts
<1>4. FindsAll(CreateInitializeFixedPricePresaleIx)
  BY DEF FindsAll, Findable, CreateInitializeFixedPricePresaleIx,
     InitializePresaleAccounts
<1>5. FindsAll(CreateCloseFixedPriceArgsIx)
  BY DEF FindsAll, Findable, CreateCloseFixedPriceArgsIx,
     CloseFixedPricePresaleArgsAccounts
<1>6. FindsAll(CreateMerkleRootConfigIx)
  BY DEF FindsAll, Findable, CreateMerkleRootConfigIx, CreateMerkleRootConfigAccounts
<1>7. FindsAll(CreatePermissionlessEscrowIx)
  BY DEF FindsAll, Findable, CreatePermissionlessEscrowIx,
     CreatePermissionlessEscrowAccounts
<1>8. FindsAll(CreatePermissionedEscrowWithMerkleProofIx)
  BY DEF FindsAll, Findable, CreatePermissionedEscrowWithMerkleProofIx,
     CreatePermissionedEscrowWithMerkleProofAccounts
<1>9. FindsAll(CreatePermissionedEscrowWithCreatorIx)
  BY DEF FindsAll, Findable, CreatePermissionedEscrowWithCreatorIx,
     CreatePermissionedEscrowWithCreatorAccounts
<1>10. FindsAll(CreateOperatorIx)
  BY DEF FindsAll, Findable, CreateOperatorIx, CreateOperatorAccounts
<1>11. FindsAll(CreateRevokeOperatorIx)
  BY DEF FindsAll, Findable, CreateRevokeOperatorIx, RevokeOperatorAccounts
<1>12. FindsAll(CreateDepositIx)
  BY DEF FindsAll, Findable, CreateDepositIx, DepositAccounts
<1>13. FindsAll(CreateWithdrawIx)
  BY DEF FindsAll, Findable, CreateWithdrawIx, WithdrawAccounts
<1>14. FindsAll(CreateClaimIx)
  BY DEF FindsAll, Findable, CreateClaimIx, ClaimAccounts
<1>15. FindsAll(CreateWithdrawRemainingQuoteIx)
  BY DEF FindsAll, Findable, CreateWithdrawRemainingQuoteIx,
     WithdrawRemainingQuoteAccounts
<1>16. FindsAll(CreatePerformUnsoldBaseTokenActionIx)
  BY DEF FindsAll, Findable, CreatePerformUnsoldBaseTokenActionIx,
     PerformUnsoldBaseTokenActionAccounts
<1>17. FindsAll(CreateCreatorWithdrawIx)
  BY DEF FindsAll, Findable, CreateCreatorWithdrawIx, CreatorWithdrawAccounts
<1>18. FindsAll(CreateCloseEscrowIx)
  BY DEF FindsAll, Findable, CreateCloseEscrowIx, CloseEscrowAccounts
<1>19. FindsAll(CreateInitializePermissionedServerMetadataIx)
  BY DEF FindsAll, Findable, CreateInitializePermissionedServerMetadataIx,
     CreatePermissionedServerMetadataAccounts
<1>20. FindsAll(CreateClosePermissionedServerMetadataIx)
  BY DEF FindsAll, Findable, CreateClosePermissionedServerMetadataIx,
     ClosePermissionedServerMetadataAccounts
<1>21. FindsAll(CreateRefreshEscrowIx)
  BY DEF FindsAll, Findable, CreateRefreshEscrowIx, RefreshEscrowAccounts
<1>22. FindsAll(CreateCreatorCollectFeeIx)
  BY DEF FindsAll, Findable, CreateCreatorCollectFeeIx, CreatorCollectFeeAccounts
<1> QED
  BY <1>1, <1>2, <1>3, <1>4, <1>5, <1>6, <1>7, <1>8, <1>9, <1>10, <1>11, <1>12,
     <1>13, <1>14, <1>15, <1>16, <1>17, <1>18, <1>19, <1>20, <1>21, <1>22

\* The instructions of a method, each with every account found.
Complete(instructions) ==
    /\ instructions # <<>>
    /\ \E S : instructions \in Seq(S) /\ \A ix \in S : FindsAll(ix)

LEMMA OneIsComplete ==
    ASSUME NEW a, FindsAll(a)
    PROVE  Complete(<<a>>)
<1>1. <<a>> # <<>> /\ <<a>> \in Seq({a})
  OBVIOUS
<1>2. \A ix \in {a} : FindsAll(ix)
  OBVIOUS
<1> DEFINE S == {a}
           instructions == <<a>>
<1>3. instructions # <<>> /\ instructions \in Seq(S) /\ \A ix \in S : FindsAll(ix)
  BY <1>1, <1>2
<1> HIDE DEF S, instructions
<1>4. Complete(instructions)
  BY <1>3 DEF Complete
<1> QED
  BY <1>4 DEF instructions

LEMMA TwoAreComplete ==
    ASSUME NEW a, NEW b, FindsAll(a), FindsAll(b)
    PROVE  Complete(<<a, b>>)
<1>1. <<a, b>> # <<>> /\ <<a, b>> \in Seq({a, b})
  OBVIOUS
<1>2. \A ix \in {a, b} : FindsAll(ix)
  OBVIOUS
<1> DEFINE S == {a, b}
           instructions == <<a, b>>
<1>3. instructions # <<>> /\ instructions \in Seq(S) /\ \A ix \in S : FindsAll(ix)
  BY <1>1, <1>2
<1> HIDE DEF S, instructions
<1>4. Complete(instructions)
  BY <1>3 DEF Complete
<1> QED
  BY <1>4 DEF instructions

\* The head of complete instructions is complete, and so are those after it.
LEMMA CompleteOneByOne ==
    ASSUME NEW instructions, Complete(instructions)
    PROVE  /\ FindsAll(Head(instructions))
           /\ Tail(instructions) # <<>> => Complete(Tail(instructions))
<1>1. PICK S : instructions \in Seq(S) /\ \A ix \in S : FindsAll(ix)
  BY DEF Complete
<1>2. instructions # <<>>
  BY DEF Complete
<1>3. Head(instructions) \in S /\ Tail(instructions) \in Seq(S)
  BY <1>1, <1>2, HeadTailProperties
<1> QED
  BY <1>1, <1>3 DEF Complete

LEMMA MethodsAreComplete ==
    ASSUME NEW m \in DOMAIN Transactions, m # "closeMerkleRootConfig"
    PROVE  Complete(Transactions[m].instructions)
<1>1. CASE m = "createProrataPresale"
  <2>1. Transactions[m].instructions = <<CreateInitializeProrataPresaleIx>>
    BY <1>1 DEF Transactions, Of
  <2> QED
    BY <2>1, EveryAccountIsFound, OneIsComplete
<1>2. CASE m = "createFcfsPresale"
  <2>1. Transactions[m].instructions = <<CreateInitializeFcfsPresaleIx>>
    BY <1>2 DEF Transactions, Of
  <2> QED
    BY <2>1, EveryAccountIsFound, OneIsComplete
<1>3. CASE m = "createFixedPricePresale"
  <2>1. Transactions[m].instructions =
          <<CreateInitializeFixedPricePresaleArgsIx, CreateInitializeFixedPricePresaleIx>>
    BY <1>3 DEF Transactions, Of
  <2> QED
    BY <2>1, EveryAccountIsFound, TwoAreComplete
<1>4. CASE m = "closeFixedPricePresaleArgs"
  <2>1. Transactions[m].instructions = <<CreateCloseFixedPriceArgsIx>>
    BY <1>4 DEF Transactions, Of
  <2> QED
    BY <2>1, EveryAccountIsFound, OneIsComplete
<1>5. CASE m = "createMerkleRootConfig"
  <2>1. Transactions[m].instructions = <<CreateMerkleRootConfigIx>>
    BY <1>5 DEF Transactions, Of
  <2> QED
    BY <2>1, EveryAccountIsFound, OneIsComplete
<1>6. CASE m = "createPermissionlessEscrow"
  <2>1. Transactions[m].instructions = <<CreatePermissionlessEscrowIx>>
    BY <1>6 DEF Transactions, Of
  <2> QED
    BY <2>1, EveryAccountIsFound, OneIsComplete
<1>7. CASE m = "createPermissionedEscrowWithMerkleProof"
  <2>1. Transactions[m].instructions = <<CreatePermissionedEscrowWithMerkleProofIx>>
    BY <1>7 DEF Transactions, Of
  <2> QED
    BY <2>1, EveryAccountIsFound, OneIsComplete
<1>8. CASE m = "createPermissionedEscrowWithCreator"
  <2>1. Transactions[m].instructions = <<CreatePermissionedEscrowWithCreatorIx>>
    BY <1>8 DEF Transactions, Of
  <2> QED
    BY <2>1, EveryAccountIsFound, OneIsComplete
<1>9. CASE m = "createOperator"
  <2>1. Transactions[m].instructions = <<CreateOperatorIx>>
    BY <1>9 DEF Transactions, Of
  <2> QED
    BY <2>1, EveryAccountIsFound, OneIsComplete
<1>10. CASE m = "revokeOperator"
  <2>1. Transactions[m].instructions = <<CreateRevokeOperatorIx>>
    BY <1>10 DEF Transactions, Of
  <2> QED
    BY <2>1, EveryAccountIsFound, OneIsComplete
<1>11. CASE m = "deposit"
  <2>1. Transactions[m].instructions = <<CreateDepositIx>>
    BY <1>11 DEF Transactions, Of
  <2> QED
    BY <2>1, EveryAccountIsFound, OneIsComplete
<1>12. CASE m = "depositSOLWithNewEscrow"
  <2>1. Transactions[m].instructions = <<CreatePermissionlessEscrowIx, CreateDepositIx>>
    BY <1>12 DEF Transactions, Of
  <2> QED
    BY <2>1, EveryAccountIsFound, TwoAreComplete
<1>13. CASE m = "depositWithMerkleProof"
  <2>1. Transactions[m].instructions =
          <<CreatePermissionedEscrowWithMerkleProofIx, CreateDepositIx>>
    BY <1>13 DEF Transactions, Of
  <2> QED
    BY <2>1, EveryAccountIsFound, TwoAreComplete
<1>14. CASE m = "withdraw"
  <2>1. Transactions[m].instructions = <<CreateWithdrawIx>>
    BY <1>14 DEF Transactions, Of
  <2> QED
    BY <2>1, EveryAccountIsFound, OneIsComplete
<1>15. CASE m = "claim"
  <2>1. Transactions[m].instructions = <<CreateClaimIx>>
    BY <1>15 DEF Transactions, Of
  <2> QED
    BY <2>1, EveryAccountIsFound, OneIsComplete
<1>16. CASE m = "withdrawRemainingQuote"
  <2>1. Transactions[m].instructions = <<CreateWithdrawRemainingQuoteIx>>
    BY <1>16 DEF Transactions, Of
  <2> QED
    BY <2>1, EveryAccountIsFound, OneIsComplete
<1>17. CASE m = "performUnsoldBaseTokenAction"
  <2>1. Transactions[m].instructions = <<CreatePerformUnsoldBaseTokenActionIx>>
    BY <1>17 DEF Transactions, Of
  <2> QED
    BY <2>1, EveryAccountIsFound, OneIsComplete
<1>18. CASE m = "creatorWithdraw"
  <2>1. Transactions[m].instructions = <<CreateCreatorWithdrawIx>>
    BY <1>18 DEF Transactions, Of
  <2> QED
    BY <2>1, EveryAccountIsFound, OneIsComplete
<1>19. CASE m = "closeEscrow"
  <2>1. Transactions[m].instructions = <<CreateCloseEscrowIx>>
    BY <1>19 DEF Transactions, Of
  <2> QED
    BY <2>1, EveryAccountIsFound, OneIsComplete
<1>20. CASE m = "createPermissionedServerMetadata"
  <2>1. Transactions[m].instructions = <<CreateInitializePermissionedServerMetadataIx>>
    BY <1>20 DEF Transactions, Of
  <2> QED
    BY <2>1, EveryAccountIsFound, OneIsComplete
<1>21. CASE m = "closePermissionedServerMetadata"
  <2>1. Transactions[m].instructions = <<CreateClosePermissionedServerMetadataIx>>
    BY <1>21 DEF Transactions, Of
  <2> QED
    BY <2>1, EveryAccountIsFound, OneIsComplete
<1>22. CASE m = "refreshEscrow"
  <2>1. Transactions[m].instructions = <<CreateRefreshEscrowIx>>
    BY <1>22 DEF Transactions, Of
  <2> QED
    BY <2>1, EveryAccountIsFound, OneIsComplete
<1>23. CASE m = "creatorCollectFee"
  <2>1. Transactions[m].instructions = <<CreateCreatorCollectFeeIx>>
    BY <1>23 DEF Transactions, Of
  <2> QED
    BY <2>1, EveryAccountIsFound, OneIsComplete
<1>24. m \in {"createProrataPresale", "createFcfsPresale",
            "createFixedPricePresale", "closeFixedPricePresaleArgs",
            "createMerkleRootConfig", "closeMerkleRootConfig",
            "createPermissionlessEscrow",
            "createPermissionedEscrowWithMerkleProof",
            "createPermissionedEscrowWithCreator", "createOperator",
            "revokeOperator", "deposit", "depositSOLWithNewEscrow",
            "depositWithMerkleProof", "withdraw", "claim",
            "withdrawRemainingQuote", "performUnsoldBaseTokenAction",
            "creatorWithdraw", "closeEscrow", "createPermissionedServerMetadata",
            "closePermissionedServerMetadata", "refreshEscrow",
            "creatorCollectFee"}
  BY DEF Transactions
<1> QED
  BY <1>1, <1>2, <1>3, <1>4, <1>5, <1>6, <1>7, <1>8, <1>9, <1>10, <1>11, <1>12,
     <1>13, <1>14, <1>15, <1>16, <1>17, <1>18, <1>19, <1>20, <1>21, <1>22, <1>23, <1>24

---------------------------------------------------------------------------
(* Types *)

LEMMA LimitOfType ==
    ASSUME NEW units \in Nat
    PROVE  LimitOf(units) \in 0..MaxUnits
<1>1. MaxUnits \in Nat
  BY UnitsAssumption
<1>2. (11 * units) \div 10 \in Nat
  OBVIOUS
<1> QED
  BY <1>1, <1>2 DEF LimitOf

LEMMA InstructionsCounted ==
    ASSUME method \in Methods
    PROVE  NumberOfInstructions \in Nat
<1>1. method \in DOMAIN Transactions
  BY MethodsAssumption
<1>2. ASSUME NEW m \in DOMAIN Transactions, m # "closeMerkleRootConfig"
      PROVE  Len(Transactions[m].instructions) \in Nat
  BY <1>2, MethodsAreComplete, LenProperties DEF Complete
<1>3. Len(Transactions["closeMerkleRootConfig"].instructions) = 1
  BY DEF Transactions, Of
<1>4. \A m \in DOMAIN Transactions : Transactions[m].others \in Nat
  BY DEF Transactions, Of
<1> QED
  BY <1>1, <1>2, <1>3, <1>4 DEF NumberOfInstructions

LEMMA DefaultEstimateType ==
    ASSUME method \in Methods
    PROVE  DefaultEstimate \in 0..MaxUnits
<1>1. NumberOfInstructions \in Nat /\ DefaultUnits \in Nat /\ MaxUnits \in Nat
  BY InstructionsCounted, UnitsAssumption
<1>2. NumberOfInstructions * DefaultUnits \in Nat
  <2>1. \A a, b \in Nat : a * b \in Nat
    BY SMT
  <2> QED
    BY <1>1, <2>1
<1> QED
  BY <1>1, <1>2 DEF DefaultEstimate

\* A limit is never more than the most a transaction may have.
THEOREM BuildingTypeTheorem == Spec => []TypeOK
<1>1. Init => TypeOK
  <2>1. 0 \in 0..MaxUnits /\ 0 \in 0..MaxChanges
    BY UnitsAssumption
  <2> QED
    BY <2>1 DEF Init, TypeOK
<1>2. TypeOK /\ [Next]_vars => TypeOK'
  <2> SUFFICES ASSUME TypeOK, [Next]_vars PROVE TypeOK'
    OBVIOUS
  <2>1. /\ method \in Methods /\ optimize \in BOOLEAN
        /\ mints \in MintPrograms \X MintPrograms /\ decided \in BOOLEAN
        /\ rpcFailed \in BOOLEAN /\ limit \in 0..MaxUnits
        /\ cost \in Costs /\ changes \in 0..MaxChanges
        /\ stage \in {"idle", "mints", "accounts", "simulation", "blockhash",
                      "built", "landed", "thrown"}
    BY DEF TypeOK
  <2>2. 0 \in 0..MaxUnits /\ MaxChanges \in Nat /\ cost \in Nat
    BY <2>1, UnitsAssumption
  <2>3. DefaultEstimate \in 0..MaxUnits
    BY <2>1, DefaultEstimateType
  <2>4. /\ LimitOf(cost) \in 0..MaxUnits /\ LimitOf(None) \in 0..MaxUnits
        /\ LimitOf(DefaultEstimate) \in 0..MaxUnits
    <3>1. DefaultEstimate \in Nat /\ None \in Nat
      BY <2>3, UnitsAssumption DEF None
    <3> HIDE DEF DefaultEstimate
    <3> QED
      BY <2>2, <3>1, LimitOfType
  <2>5. CASE Call
    BY <2>1, <2>2, <2>5 DEF Call, Environment, TypeOK
  <2>6. CASE UnpackMints
    BY <2>1, <2>6 DEF UnpackMints, Environment, TypeOK
  <2>7. CASE ResolveAccount
    BY <2>1, <2>7 DEF ResolveAccount, Environment, TypeOK
  <2>8. CASE BuildInstruction
    <3>1. /\ UNCHANGED <<Environment, optimize, rpcFailed>>
          /\ limit' \in {DefaultEstimate, limit}
          /\ stage' \in {"accounts", "simulation", "blockhash", "thrown"}
      BY <2>8 DEF BuildInstruction
    <3> QED
      BY <2>1, <2>3, <3>1 DEF Environment, TypeOK
  <2>9. CASE SimulateReports
    BY <2>1, <2>4, <2>9 DEF SimulateReports, Environment, TypeOK
  <2>10. CASE SimulateReportsNothing
    BY <2>1, <2>4, <2>10 DEF SimulateReportsNothing, Environment, TypeOK
  <2>11. CASE SimulateFails
    BY <2>1, <2>4, <2>11 DEF SimulateFails, Environment, TypeOK
  <2>12. CASE BuildTransaction
    BY <2>1, <2>12 DEF BuildTransaction, Environment, TypeOK
  <2>13. CASE RpcFails
    BY <2>1, <2>13 DEF RpcFails, Environment, TypeOK
  <2>14. CASE Land
    BY <2>1, <2>14 DEF Land, Environment, TypeOK
  <2>15. CASE Lapse
    BY <2>1, <2>15 DEF Lapse, Environment, TypeOK
  <2>16. CASE SetComputeUnitOptimization
    BY <2>1, <2>2, <2>16 DEF SetComputeUnitOptimization, TypeOK
  <2>17. CASE CostChanges
    BY <2>1, <2>2, <2>17 DEF CostChanges, TypeOK
  <2>18. CASE CallWithoutOutcome
    BY <2>1, <2>2, <2>18 DEF CallWithoutOutcome, Environment, TypeOK
  <2>19. CASE OutcomeChanges
    BY <2>1, <2>2, <2>19 DEF OutcomeChanges, TypeOK
  <2>20. CASE UNCHANGED vars
    BY <2>1, <2>20 DEF vars, TypeOK
  <2> QED
    BY <2>5, <2>6, <2>7, <2>8, <2>9, <2>10, <2>11, <2>12, <2>13, <2>14, <2>15,
       <2>16, <2>17, <2>18, <2>19, <2>20 DEF Next
<1> QED
  BY <1>1, <1>2, PTL DEF Spec

---------------------------------------------------------------------------
(* A call *)

\* What is still to be built has all its accounts, or Anchor will find them; the
\* mints that are read can be unpacked.
CallInv ==
    /\ stage = "mints" =>
          /\ method = "createFixedPricePresale"
          /\ Complete(left) /\ Head(left).named \subseteq known
    /\ stage = "accounts" => Complete(left) /\ Head(left).named \subseteq known

\* closeMerkleRootConfig is not called, and where a presale of fixed price is
\* created, no mint belongs to another token program.
MethodsWork ==
    /\ "closeMerkleRootConfig" \notin Methods
    /\ "createFixedPricePresale" \in Methods => MintPrograms \subseteq {"Token"}

\* No step leads a call into an error but a request that fails and the invariant of
\* createCreatorWithdrawIx.
Causes == stage' = "thrown" => stage = "thrown" \/ rpcFailed' \/ ~HasOutcome

LEMMA BuildingStep ==
    ASSUME MethodsWork, TypeOK, CallInv, [Next]_vars
    PROVE  CallInv' /\ Causes
<1>0. method \in Methods /\ mints \in MintPrograms \X MintPrograms
  BY DEF TypeOK
<1>1. ASSUME Call PROVE CallInv' /\ Causes
  <2>1. Complete(Transactions[method].instructions)
    BY <1>0, MethodsAssumption, MethodsAreComplete DEF MethodsWork
  <2>2. /\ left' = Transactions[method].instructions
        /\ known' = Head(left').named
        /\ stage' \in {"mints", "accounts"} /\ method' = method
        /\ stage' = "mints" => method = "createFixedPricePresale"
    BY <1>1 DEF Call, Environment
  <2> QED
    BY <2>1, <2>2 DEF CallInv, Causes
<1>2. ASSUME UnpackMints PROVE CallInv' /\ Causes
  <2>1. /\ stage = "mints" /\ UNCHANGED <<method, left, known>>
        /\ stage' = IF mints = <<"Token", "Token">> THEN "accounts" ELSE "thrown"
    BY <1>2 DEF UnpackMints, Environment
  <2>2. method = "createFixedPricePresale" /\ Complete(left) /\ Head(left).named \subseteq known
    BY <2>1 DEF CallInv
  <2>3. mints = <<"Token", "Token">>
    BY <1>0, <2>2 DEF MethodsWork
  <2> QED
    BY <2>1, <2>2, <2>3 DEF CallInv, Causes
<1>3. ASSUME ResolveAccount PROVE CallInv' /\ Causes
  <2>1. /\ stage = "accounts" /\ UNCHANGED <<method, left, stage>>
        /\ known \subseteq known'
    BY <1>3 DEF ResolveAccount, Environment
  <2> QED
    BY <2>1 DEF CallInv, Causes
<1>4. ASSUME BuildInstruction PROVE CallInv' /\ Causes
  <2>1. Complete(left) /\ Head(left).named \subseteq known
    BY <1>4 DEF BuildInstruction, CallInv
  <2>2. FindsAll(Head(left)) /\ (Tail(left) # <<>> => Complete(Tail(left)))
    BY <2>1, CompleteOneByOne
  <2>3. Head(left).idl.accounts \subseteq known
    BY <1>4, <2>1, <2>2 DEF BuildInstruction, FindsAll
  <2>4. /\ left' = Tail(left)
        /\ known' = IF left' = <<>> THEN {} ELSE Head(left').named
        /\ stage' = IF left' # <<>> THEN "accounts"
                    ELSE IF Optimizes THEN "simulation" ELSE "blockhash"
    BY <1>4, <2>3 DEF BuildInstruction
  <2> QED
    BY <2>2, <2>4 DEF CallInv, Causes
<1>5. ASSUME \/ SimulateReports \/ SimulateReportsNothing \/ SimulateFails
             \/ BuildTransaction \/ Land \/ Lapse
      PROVE  CallInv' /\ Causes
  <2>1. stage' \in {"blockhash", "built", "landed", "idle"}
    BY <1>5 DEF SimulateReports, SimulateReportsNothing, SimulateFails,
                BuildTransaction, Land, Lapse
  <2> QED
    BY <2>1 DEF CallInv, Causes
<1>6. ASSUME RpcFails PROVE CallInv' /\ Causes
  BY <1>6 DEF RpcFails, CallInv, Causes
<1>7. ASSUME CallWithoutOutcome PROVE CallInv' /\ Causes
  BY <1>7 DEF CallWithoutOutcome, CallInv, Causes
<1>8. ASSUME \/ SetComputeUnitOptimization \/ CostChanges \/ OutcomeChanges
             \/ UNCHANGED vars
      PROVE  CallInv' /\ Causes
  BY <1>8 DEF SetComputeUnitOptimization, CostChanges, OutcomeChanges, vars, CallInv,
              Causes
<1> QED
  BY <1>1, <1>2, <1>3, <1>4, <1>5, <1>6, <1>7, <1>8 DEF Next

\* A method throws only when a request has failed or a creator withdrawal has no
\* outcome to name the vault of: no builder names too few of its instruction's
\* accounts and no mint fails to unpack, for every set of methods and mints but the
\* one method and the one kind of mint for which they do.
THEOREM ThrowsHaveACauseTheorem ==
    ASSUME MethodsWork
    PROVE  Spec => ThrowsHaveACause
<1>1. Init => CallInv
  BY DEF Init, CallInv
<1>2. TypeOK /\ CallInv /\ [Next]_vars => CallInv' /\ [Causes]_vars
  BY BuildingStep
<1>3. Spec => []TypeOK
  BY BuildingTypeTheorem
<1>4. Spec => [][Causes]_vars
  BY <1>1, <1>2, <1>3, PTL DEF Spec
<1> QED
  BY <1>4 DEF ThrowsHaveACause, Causes
=============================================================================
