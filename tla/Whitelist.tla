------------------------------ MODULE Whitelist ------------------------------
(***************************************************************************)
(* A presale with Merkle proofs, from the creator's list of wallets to the *)
(* escrows of its buyers (presale.ts: createMerkleRootConfigFromAddresses, *)
(* createMerkleProofResponse, createPermissionedEscrowWithMerkleProof).    *)
(*                                                                         *)
(* The list is an array of the caller's; roots and proofs are built from   *)
(* it chunk by chunk, in separate calls, and meet again on chain only      *)
(* through the version numbers of the root configs.                        *)
(***************************************************************************)
EXTENDS MerkleTree, FiniteSetsExt

CONSTANTS
    Lists,          \* the whitelists a creator may have
    WalletPerTree,  \* the tree sizes a caller may ask for
    None            \* nothing there

VARIABLES
    wallets,        \* params.whitelistWallets, the caller's array
    built,          \* root config transactions that have not landed
    configs,        \* the merkle_root_config accounts by version
    responses,      \* what the proof server holds
    escrows         \* the wallets that have an escrow, with its cap

vars == <<wallets, built, configs, responses, escrows>>

Versions == 0..(Max({Len(list) : list \in Lists}) - 1)

\* Finitely many lists, none of them empty, of wallets that have a hash.
ASSUME ListsAssumption ==
    /\ IsFiniteSet(Lists)
    /\ Lists \subseteq Seq(DOMAIN HashRank) \ {<<>>}
    /\ \A w \in DOMAIN HashRank :
          w = [account |-> w.account, registryIndex |-> w.registryIndex,
               depositCap |-> w.depositCap]
ASSUME WalletPerTreeAssumption == WalletPerTree \subseteq Nat \ {0}

Init ==
    /\ wallets \in Lists
    /\ built = {}
    /\ configs = [v \in Versions |-> None]
    /\ responses = None
    /\ escrows = {}

---------------------------------------------------------------------------
(* Chunks *)

\* The wallets of tree v, cut from the front of the list by splice.
Chunk(list, perTree, v) ==
    LET end == Min({(v + 1) * perTree, Len(list)})
    IN  SubSeq(list, v * perTree + 1, end)

TreesOf(list, perTree) == {v \in Versions : v * perTree < Len(list)}

\* The name of a wallet in the responses.
Key(w) == <<w.account, w.registryIndex>>

\* Mutant: the trees of the proofs numbered from 1.
VersionFromOne(list, perTree, i) == ((i - 1) \div perTree) + 1

\* The tree of the i-th wallet.
VersionOf(list, perTree, i) == (i - 1) \div perTree

---------------------------------------------------------------------------
(* The creator *)

\* createMerkleRootConfigFromAddresses works on a copy of the array.  A new batch
\* of transactions gives up what has not landed of the one before.
CreateMerkleRootConfigFromAddresses(perTree) ==
    /\ wallets # <<>>
    /\ built' = {[version |-> v, root |-> GetRoot(Chunk(wallets, perTree, v)),
                  source |-> [list |-> wallets, perTree |-> perTree]] :
                    v \in TreesOf(wallets, perTree)}
    /\ UNCHANGED <<wallets, configs, responses, escrows>>

\* create_merkle_root_config lands, in any order, where there is no config yet.
LandMerkleRootConfig(tx) ==
    /\ configs[tx.version] = None
    /\ configs' = [configs EXCEPT ![tx.version] =
                      [root |-> tx.root, source |-> tx.source]]
    /\ built' = built \ {tx}
    /\ UNCHANGED <<wallets, responses, escrows>>

\* close_merkle_root_config
CloseMerkleRootConfig(v) ==
    /\ configs[v] # None
    /\ configs' = [configs EXCEPT ![v] = None]
    /\ UNCHANGED <<wallets, built, responses, escrows>>

\* The proofs of a list: of two wallets with one key the later one is kept.
ProofsOf(list, perTree) ==
    LET lastOf(key) == Max({i \in DOMAIN list : Key(list[i]) = key})
    IN  [key \in {Key(w) : w \in ToSet(list)} |->
            LET i == lastOf(key)
                v == VersionOf(list, perTree, i)
            IN  [version |-> v,
                 proof |-> GetProof(Chunk(list, perTree, (i - 1) \div perTree), list[i]),
                 depositCap |-> list[i].depositCap]]

\* createMerkleProofResponse splices the caller's array until it is empty.
CreateMerkleProofResponse(perTree) ==
    /\ responses' = [source |-> [list |-> wallets, perTree |-> perTree],
                     proofs |-> ProofsOf(wallets, perTree)]
    /\ wallets' = <<>>
    /\ UNCHANGED <<built, configs, escrows>>

\* The caller makes a new array when the old one is used up.
Relist(list) ==
    /\ wallets = <<>>
    /\ wallets' = list
    /\ UNCHANGED <<built, configs, responses, escrows>>

---------------------------------------------------------------------------
(* The buyers *)

\* createPermissionedEscrowWithMerkleProof with the response for a key; the
\* program checks the proof against the config that the response names.  The
\* lookup of the escrow and of the response are one step with the landing: the
\* program refuses an escrow that was opened meanwhile, and a proof that the
\* config of the moment does not verify.
CreatePermissionedEscrow(key) ==
    LET response == responses.proofs[key]
        wallet == [account |-> key[1], registryIndex |-> key[2],
                   depositCap |-> response.depositCap]
        config == configs[response.version]
    IN  /\ config # None
        /\ VerifyProof(wallet, response.proof, config.root)
        /\ \A w \in escrows : Key(w) # key
        /\ escrows' = escrows \cup {wallet}
        /\ UNCHANGED <<wallets, built, configs, responses>>

Next ==
    \/ \E n \in WalletPerTree : CreateMerkleRootConfigFromAddresses(n)
    \/ \E tx \in built : LandMerkleRootConfig(tx)
    \/ \E v \in Versions : CloseMerkleRootConfig(v)
    \/ \E n \in WalletPerTree : CreateMerkleProofResponse(n)
    \/ \E list \in Lists : Relist(list)
    \/ /\ responses # None
       /\ \E key \in DOMAIN responses.proofs : CreatePermissionedEscrow(key)

Spec == Init /\ [][Next]_vars

---------------------------------------------------------------------------
(* What must hold *)

\* Everyone on a list has a response, for a cap that is listed, and the proof
\* in it is good for the config it names once that landed from the same list
\* and tree size.
ListedWalletsAreAdmitted ==
    responses # None =>
        LET list == responses.source.list
        IN  \A w \in ToSet(list) :
              LET response == responses.proofs[Key(w)]
                  granted == [w EXCEPT !.depositCap = response.depositCap]
                  config == configs[response.version]
              IN  /\ granted \in ToSet(list)
                  /\ config # None /\ config.source = responses.source
                        => VerifyProof(granted, response.proof, config.root)

\* Nobody gets an escrow with a cap that was not listed for them in a list that
\* a landed config was made from, whatever list the proof was made from.
EscrowsWereListed ==
    [][\A w \in escrows' \ escrows : \E v \in Versions :
        configs[v] # None /\ w \in ToSet(configs[v].source.list)]_vars
=============================================================================
