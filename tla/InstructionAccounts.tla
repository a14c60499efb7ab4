------------------------- MODULE InstructionAccounts -------------------------
(***************************************************************************)
(* The accounts of the program's instructions (idl/presale.ts) and those   *)
(* that the builders of the SDK name (instructions/).                      *)
(*                                                                         *)
(* For every instruction of the IDL: the accounts it takes, which of them  *)
(* Anchor finds by itself and from what (the accounts in the seeds of an   *)
(* address, or the account that has the address in a field).  Accounts     *)
(* with an address of their own in the IDL, which Anchor always fills in,  *)
(* are left out, and so are discriminators, instruction arguments, and who *)
(* must sign.                                                              *)
(***************************************************************************)

(* Instructions of the IDL *)

ClaimAccounts ==
    [accounts |-> {"presale", "baseTokenVault", "baseMint", "escrow",
                   "ownerBaseToken", "owner", "tokenProgram"},
     found |-> [presale |-> {"escrow"}, baseTokenVault |-> {"presale"},
                baseMint |-> {"presale"}, owner |-> {"escrow"}]]

CloseEscrowAccounts ==
    [accounts |-> {"presale", "escrow", "owner", "rentReceiver"},
     found |-> [presale |-> {"escrow"}, owner |-> {"escrow"}]]

CloseFixedPricePresaleArgsAccounts ==
    [accounts |-> {"fixedPricePresaleArgs", "owner"},
     found |-> [owner |-> {"fixedPricePresaleArgs"}]]

CloseMerkleRootConfigAccounts ==
    [accounts |-> {"presale", "merkleRootConfig", "rentReceiver", "creator"},
     found |-> [presale |-> {"merkleRootConfig"}]]

ClosePermissionedServerMetadataAccounts ==
    [accounts |-> {"presale", "permissionedServerMetadata", "rentReceiver",
                   "owner"},
     found |-> [presale |-> {"permissionedServerMetadata"},
                owner |-> {"presale"}]]

CreateMerkleRootConfigAccounts ==
    [accounts |-> {"presale", "merkleRootConfig", "creator"},
     found |-> [merkleRootConfig |-> {"presale"}]]

CreateOperatorAccounts ==
    [accounts |-> {"operator", "operatorOwner", "creator"},
     found |-> [operator |-> {"creator", "operatorOwner"}]]

CreatePermissionedEscrowWithCreatorAccounts ==
    [accounts |-> {"presale", "escrow", "owner", "operator", "operatorOwner",
                   "payer"},
     found |-> [escrow |-> {"presale", "owner"}]]

CreatePermissionedEscrowWithMerkleProofAccounts ==
    [accounts |-> {"presale", "escrow", "owner", "merkleRootConfig", "payer"},
     found |-> [presale |-> {"merkleRootConfig"},
                escrow |-> {"presale", "owner"}]]

CreatePermissionedServerMetadataAccounts ==
    [accounts |-> {"presale", "permissionedServerMetadata", "owner"},
     found |-> [permissionedServerMetadata |-> {"presale"},
                owner |-> {"presale"}]]

CreatePermissionlessEscrowAccounts ==
    [accounts |-> {"presale", "escrow", "owner", "payer"},
     found |-> [escrow |-> {"presale", "owner"}]]

CreatorCollectFeeAccounts ==
    [accounts |-> {"presale", "quoteTokenVault", "quoteMint",
                   "feeReceivingAccount", "owner", "tokenProgram"},
     found |-> [quoteTokenVault |-> {"presale"}, quoteMint |-> {"presale"},
                owner |-> {"presale"}]]

CreatorWithdrawAccounts ==
    [accounts |-> {"presale", "ownerToken", "owner", "tokenProgram"},
     found |-> [owner |-> {"presale"}]]

DepositAccounts ==
    [accounts |-> {"presale", "quoteTokenVault", "quoteMint", "escrow",
                   "payerQuoteToken", "payer", "tokenProgram"},
     found |-> [presale |-> {"escrow"}, quoteTokenVault |-> {"presale"},
                quoteMint |-> {"presale"}]]

InitializeFixedPricePresaleArgsAccounts ==
    [accounts |-> {"fixedPricePresaleParams", "owner", "payer"},
     found |-> [fixedPricePresaleParams |-> {}]]

InitializePresaleAccounts ==
    [accounts |-> {"presaleMint", "presale", "quoteTokenMint", "presaleVault",
                   "quoteTokenVault", "payerPresaleToken", "creator", "base",
                   "payer", "baseTokenProgram", "quoteTokenProgram"},
     found |-> [presale |-> {"base", "presaleMint", "quoteTokenMint"},
                presaleVault |-> {"presale"}, quoteTokenVault |-> {"presale"}]]

PerformUnsoldBaseTokenActionAccounts ==
    [accounts |-> {"presale", "baseTokenVault", "baseMint", "creatorBaseToken",
                   "tokenProgram"},
     found |-> [baseTokenVault |-> {"presale"}, baseMint |-> {"presale"},
                creatorBaseToken |-> {"presale", "tokenProgram", "baseMint"}]]

RefreshEscrowAccounts ==
    [accounts |-> {"presale", "escrow"},
     found |-> [presale |-> {"escrow"}]]

RevokeOperatorAccounts ==
    [accounts |-> {"operator", "creator"},
     found |-> [creator |-> {"operator"}]]

WithdrawAccounts ==
    [accounts |-> {"presale", "quoteTokenVault", "quoteMint", "escrow",
                   "ownerQuoteToken", "owner", "tokenProgram"},
     found |-> [presale |-> {"escrow"}, quoteTokenVault |-> {"presale"},
                quoteMint |-> {"presale"}, owner |-> {"escrow"}]]

WithdrawRemainingQuoteAccounts ==
    [accounts |-> {"presale", "quoteTokenVault", "quoteMint", "escrow",
                   "ownerQuoteToken", "owner", "tokenProgram"},
     found |-> [presale |-> {"escrow"}, quoteTokenVault |-> {"presale"},
                quoteMint |-> {"presale"}, owner |-> {"escrow"}]]

---------------------------------------------------------------------------
(* Builders: the instruction and the accounts given to accountsPartial *)

CreateClaimIx ==
    [idl |-> ClaimAccounts,
     named |-> {"presale", "escrow", "baseMint", "baseTokenVault", "owner",
                "ownerBaseToken", "tokenProgram"}]

CreateCloseEscrowIx ==
    [idl |-> CloseEscrowAccounts,
     named |-> {"escrow", "presale", "owner", "rentReceiver"}]

CreateCloseFixedPriceArgsIx ==
    [idl |-> CloseFixedPricePresaleArgsAccounts,
     named |-> {"owner", "fixedPricePresaleArgs"}]

CloseMerkleRootConfigIx ==
    [idl |-> CloseMerkleRootConfigAccounts,
     named |-> {"presale", "merkleRootConfig", "creator"}]

CreateClosePermissionedServerMetadataIx ==
    [idl |-> ClosePermissionedServerMetadataAccounts,
     named |-> {"permissionedServerMetadata", "presale", "owner",
                "rentReceiver"}]

CreateMerkleRootConfigIx ==
    [idl |-> CreateMerkleRootConfigAccounts,
     named |-> {"presale", "merkleRootConfig", "creator"}]

CreateOperatorIx ==
    [idl |-> CreateOperatorAccounts,
     named |-> {"operator", "creator", "operatorOwner"}]

CreatePermissionedEscrowWithCreatorIx ==
    [idl |-> CreatePermissionedEscrowWithCreatorAccounts,
     named |-> {"escrow", "presale", "owner", "operator", "operatorOwner",
                "payer"}]

CreatePermissionedEscrowWithMerkleProofIx ==
    [idl |-> CreatePermissionedEscrowWithMerkleProofAccounts,
     named |-> {"presale", "merkleRootConfig", "payer", "escrow", "owner"}]

CreateInitializePermissionedServerMetadataIx ==
    [idl |-> CreatePermissionedServerMetadataAccounts,
     named |-> {"permissionedServerMetadata", "presale", "owner"}]

CreatePermissionlessEscrowIx ==
    [idl |-> CreatePermissionlessEscrowAccounts,
     named |-> {"escrow", "presale", "owner", "payer"}]

CreateCreatorCollectFeeIx ==
    [idl |-> CreatorCollectFeeAccounts,
     named |-> {"presale", "owner", "tokenProgram", "quoteMint",
                "quoteTokenVault", "feeReceivingAccount"}]

\* Its invariant is HasOutcome in TransactionBuilding.
CreateCreatorWithdrawIx ==
    [idl |-> CreatorWithdrawAccounts,
     named |-> {"presale", "owner", "ownerToken", "tokenProgram"}]

CreateDepositIx ==
    [idl |-> DepositAccounts,
     named |-> {"presale", "payer", "escrow", "payerQuoteToken", "quoteMint",
                "tokenProgram"}]

CreateInitializeFixedPricePresaleArgsIx ==
    [idl |-> InitializeFixedPricePresaleArgsAccounts,
     named |-> {"fixedPricePresaleParams", "owner", "payer"}]

CreateInitializeProrataPresaleIx ==
    [idl |-> InitializePresaleAccounts,
     named |-> {"presale", "presaleMint", "quoteTokenMint", "presaleVault",
                "payerPresaleToken", "quoteTokenProgram", "quoteTokenVault",
                "baseTokenProgram", "base", "creator", "payer"}]

CreateInitializeFcfsPresaleIx ==
    [idl |-> InitializePresaleAccounts,
     named |-> {"presale", "presaleMint", "quoteTokenMint", "presaleVault",
                "payerPresaleToken", "quoteTokenProgram", "quoteTokenVault",
                "baseTokenProgram", "base", "creator", "payer"}]

CreateInitializeFixedPricePresaleIx ==
    [idl |-> InitializePresaleAccounts,
     named |-> {"presale", "presaleMint", "quoteTokenMint", "presaleVault",
                "payerPresaleToken", "quoteTokenProgram", "quoteTokenVault",
                "baseTokenProgram", "base", "creator", "payer"}]

CreatePerformUnsoldBaseTokenActionIx ==
    [idl |-> PerformUnsoldBaseTokenActionAccounts,
     named |-> {"presale", "baseTokenVault", "baseMint", "creatorBaseToken",
                "tokenProgram"}]

CreateRefreshEscrowIx ==
    [idl |-> RefreshEscrowAccounts,
     named |-> {"escrow", "presale"}]

\* Mutant: the address of the operator not derived.
CreateRevokeOperatorOfAnyIx ==
    [idl |-> RevokeOperatorAccounts,
     named |-> {"creator"}]

CreateRevokeOperatorIx ==
    [idl |-> RevokeOperatorAccounts,
     named |-> {"operator", "creator"}]

CreateWithdrawIx ==
    [idl |-> WithdrawAccounts,
     named |-> {"presale", "owner", "escrow", "quoteMint", "quoteTokenVault",
                "ownerQuoteToken", "tokenProgram"}]

CreateWithdrawRemainingQuoteIx ==
    [idl |-> WithdrawRemainingQuoteAccounts,
     named |-> {"presale", "owner", "quoteMint", "quoteTokenVault",
                "ownerQuoteToken", "tokenProgram", "escrow"}]

---------------------------------------------------------------------------
(* Account resolution of Anchor *)

\* The accounts that can be found when those of `known` are.
Findable(idl, known) ==
    {a \in DOMAIN idl.found : a \notin known /\ idl.found[a] \subseteq known}
=============================================================================
