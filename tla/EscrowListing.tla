---------------------------- MODULE EscrowListing ----------------------------
(***************************************************************************)
(* getEscrowsByPresale and getEscrowsByPresaleRegistry (presale.ts) with   *)
(* fetchMultipleAccountsAutoChunk (rpc.ts) beside the ledger: the          *)
(* addresses that pass a filter are listed first, the accounts are read    *)
(* chunk by chunk, all requests at once, any of them may fail, and the     *)
(* ledger goes on between any two reads.  getPresales is the same two      *)
(* steps over presales, which are never closed.                            *)
(***************************************************************************)
EXTENDS PresaleLedger, SequencesExt

CONSTANTS
    ChunkSize,      \* addresses per getMultipleAccountsInfo, 100 in rpc.ts
    None            \* nothing there

VARIABLES
    scope,          \* the registries a listing asks for
    addresses,      \* the escrow addresses of a listing under way, or None
    replies,        \* replies[n]: what was read for chunk n, or None
    result,         \* of the last listing: how it ended, and its pairs
    seen            \* seen[k]: the states of an address asked for since the listing began

ledgerAndListing == <<clock, presale, escrows, quoteVault, baseVault,
             scope, addresses, replies, result, seen>>

ASSUME ChunkSizeAssumption == ChunkSize \in Nat \ {0}

Nothing == [outcome |-> "none", pairs |-> {}]

ListingInit ==
    /\ Init
    /\ scope = {}
    /\ addresses = None
    /\ replies = <<>>
    /\ result = Nothing
    /\ seen = <<>>

---------------------------------------------------------------------------
(* Chunks *)

\* Mutant: only full chunks requested.
FullChunks(list) ==
    [n \in 1..(Len(list) \div ChunkSize) |->
        SubSeq(list, (n - 1) * ChunkSize + 1, n * ChunkSize)]

\* The addresses cut into chunks by splice.
ChunkedAddresses(list) ==
    [n \in 1..CeilDiv(Len(list), ChunkSize) |->
        SubSeq(list, (n - 1) * ChunkSize + 1, Least(n * ChunkSize, Len(list)))]

\* Mutant: every account paired with an address of the first chunk.
PairedWithFirstChunk(outerIdx, innerIdx) ==
    <<ChunkedAddresses(addresses)[1][innerIdx], replies[outerIdx][innerIdx]>>

\* An account with its address, by the position of both in the chunk.
Paired(outerIdx, innerIdx) ==
    <<ChunkedAddresses(addresses)[outerIdx][innerIdx], replies[outerIdx][innerIdx]>>

---------------------------------------------------------------------------
(* The steps of a listing *)

\* Mutant: the registry of the filter not compared.
InAnyScope(k) == Exists(k)

\* getEscrowPresaleFilter, with getEscrowRegistryIndexFilter for one registry.
InScope(k) == Exists(k) /\ k[2] \in scope'

\* getEscrowsByPresale asks for all registries, getEscrowsByPresaleRegistry for
\* one.  getProgramAccounts answers with the addresses there are, in an order of
\* the node's.
ListAddresses ==
    /\ addresses = None
    /\ scope' \in {RegistryIndex} \cup {{i} : i \in RegistryIndex}
    /\ \E list \in SetToSeqs({k \in EscrowKeys : InScope(k)}) :
          /\ addresses' = list
          /\ replies' = [n \in DOMAIN ChunkedAddresses(list) |-> None]
    /\ result' = Nothing
    /\ seen' = [k \in Owners \X scope' |-> {escrows[k]}]
    /\ UNCHANGED vars

\* getMultipleAccountsInfo: an account that is gone is null.
ReadChunk(n) ==
    LET chunk == ChunkedAddresses(addresses)[n]
    IN  /\ replies[n] = None
        /\ replies' = [replies EXCEPT ![n] =
                          [m \in DOMAIN chunk |-> escrows[chunk[m]]]]
        /\ UNCHANGED <<vars, scope, addresses, result, seen>>

\* Mutant: the chunks that were read are decoded without the others.
DecodeWhatArrived ==
    LET places == {p \in (DOMAIN replies) \X (1..ChunkSize) :
                        replies[p[1]] # None /\ p[2] \in DOMAIN replies[p[1]]}
    IN  /\ \A p \in places : replies[p[1]][p[2]] # NoEscrow
        /\ result' = [outcome |-> "listed",
                      pairs |-> {Paired(p[1], p[2]) : p \in places}]
        /\ addresses' = None
        /\ replies' = <<>>
        /\ UNCHANGED <<vars, scope, seen>>

\* A request fails: Promise.all rejects and nothing of the others is returned.
ReadFails ==
    /\ \E n \in DOMAIN replies : replies[n] = None
    /\ result' = [outcome |-> "requestFailed", pairs |-> {}]
    /\ addresses' = None
    /\ replies' = <<>>
    /\ UNCHANGED <<vars, scope, seen>>

\* Promise.all: the replies are flattened and decoded; a null account throws.
Decode ==
    LET places == {p \in (DOMAIN replies) \X (1..ChunkSize) :
                        p[2] \in DOMAIN replies[p[1]]}
    IN  /\ \A n \in DOMAIN replies : replies[n] # None
        /\ result' = IF \E p \in places : replies[p[1]][p[2]] = NoEscrow
                     THEN [outcome |-> "undecodable", pairs |-> {}]
                     ELSE [outcome |-> "listed",
                           pairs |-> {Paired(p[1], p[2]) : p \in places}]
        /\ addresses' = None
        /\ replies' = <<>>
        /\ UNCHANGED <<vars, scope, seen>>

\* The ledger goes on.  What an address holds during a listing is remembered, the
\* result of a finished one is not.
OthersAct ==
    /\ Next
    /\ IF addresses = None
       THEN /\ result' = Nothing
            /\ scope' = {}
            /\ seen' = <<>>
       ELSE /\ UNCHANGED <<result, scope>>
            /\ seen' = [k \in DOMAIN seen |-> seen[k] \cup {escrows'[k]}]
    /\ UNCHANGED <<addresses, replies>>

ListingNext ==
    \/ OthersAct
    \/ ListAddresses
    \/ addresses # None /\ \E n \in DOMAIN replies : ReadChunk(n)
    \/ addresses # None /\ (Decode \/ ReadFails)

ListingSpec == ListingInit /\ [][ListingNext]_ledgerAndListing

---------------------------------------------------------------------------
(* What must hold *)

\* Every pair of a result was a pair of the ledger's at some moment of the
\* listing and is of a registry that was asked for: no account under the address
\* of another, no escrow of another registry.
PairsWereThere ==
    \A pair \in result.pairs :
        /\ pair[1] \in DOMAIN seen
        /\ pair[2] \in seen[pair[1]] \ {NoEscrow}

\* A listing that answers has every escrow that was there all the time, none
\* twice, however the requests for its chunks went.
ListingIsComplete ==
    result.outcome = "listed" =>
        /\ \A k \in DOMAIN seen : NoEscrow \notin seen[k] =>
              \E pair \in result.pairs : pair[1] = k
        /\ \A x \in result.pairs : \A y \in result.pairs : x[1] = y[1] => x = y

(* What the documentation says and the code does not do *)

\* "A promise that resolves to an array of objects, each containing the public
\* key and the decoded escrow account data" (presale.ts:1331): if every request
\* was answered, the listing is.
ListingResolves == result.outcome # "undecodable"
=============================================================================
