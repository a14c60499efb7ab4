------------------------------ MODULE MerkleTree ------------------------------
(***************************************************************************)
(* The whitelist trees of the SDK (libs/merkle_tree).                      *)
(*                                                                         *)
(* Hashes are symbolic: a node is its leaf, or the unordered pair of nodes *)
(* it combines, so that two nodes are equal only if they are built alike.  *)
(* The hashes of the leaves are numbers, for Buffer.compare orders them,   *)
(* but which is below which is arbitrary: HashRank gives the hash of every *)
(* wallet.                                                                 *)
(***************************************************************************)
EXTENDS Naturals, SequencesExt

CONSTANT HashRank       \* HashRank[w]: the hash of wallet w

ASSUME HashRankAssumption ==
    /\ \A w \in DOMAIN HashRank : HashRank[w] \in Nat
    /\ \A w \in DOMAIN HashRank : \A x \in DOMAIN HashRank :
        HashRank[w] = HashRank[x] => w = x

\* Mutant: a leaf that hashes the account and the registry only.
LeafWithoutCap(w) ==
    [leaf |-> CHOOSE rank \in {HashRank[x] : x \in {y \in DOMAIN HashRank :
                                  [y EXCEPT !.depositCap = w.depositCap] = w}} : TRUE,
     pair |-> {}]

ToNode(w) == [leaf |-> HashRank[w], pair |-> {}]

\* combinedHash sorts the two hashes before it hashes them.
CombinedHash(first, second) == [leaf |-> 0, pair |-> {first, second}]

\* Array.sort: node after node goes behind those that are not above it.
Sorted(nodes) ==
    LET sorted[n \in 0..Len(nodes)] ==
            IF n = 0 THEN <<>>
            ELSE LET before == sorted[n - 1]
                     upTo == {i \in DOMAIN before : before[i].leaf <= nodes[n].leaf}
                 IN  InsertAt(before, Cardinality(upTo) + 1, nodes[n])
    IN  sorted[Len(nodes)]

\* Every element that is not the same as the one before it.
BufDedup(elements) ==
    LET kept[n \in 0..Len(elements)] ==
            IF n = 0 THEN <<>>
            ELSE IF n = 1 \/ elements[n - 1] # elements[n]
            THEN Append(kept[n - 1], elements[n])
            ELSE kept[n - 1]
    IN  kept[Len(elements)]

\* The sorted and deduplicated leaves of a tree.
Elements(wallets) ==
    BufDedup(Sorted([i \in DOMAIN wallets |-> ToNode(wallets[i])]))

\* Mutant: a last element without a pair is forgotten.
OddElementDropped(elements) ==
    [i \in 1..(Len(elements) \div 2) |->
        CombinedHash(elements[2 * i - 1], elements[2 * i])]

\* An element without a pair moves up as it is.
GetNextLayer(elements) ==
    [i \in 1..((Len(elements) + 1) \div 2) |->
        IF 2 * i <= Len(elements)
        THEN CombinedHash(elements[2 * i - 1], elements[2 * i])
        ELSE elements[2 * i - 1]]

\* The layers of a tree from its leaves (layer 0) up to its root.
GetLayers(elements) ==
    LET layer[k \in 0..Len(elements)] ==
            IF k = 0 THEN elements ELSE GetNextLayer(layer[k - 1])
        height == CHOOSE k \in 0..Len(elements) :
                    Len(layer[k]) <= 1 /\ \A j \in 0..(k - 1) : Len(layer[j]) > 1
    IN  [k \in 1..(height + 1) |-> layer[k - 1]]

GetRoot(wallets) == Last(GetLayers(Elements(wallets)))[1]

\* The neighbour of position idx (from 0) in a layer, if it has one.
GetPairElement(idx, layer) ==
    LET pairIdx == IF idx % 2 = 0 THEN idx + 1 ELSE idx - 1
    IN  IF pairIdx < Len(layer) THEN <<layer[pairIdx + 1]>> ELSE <<>>

\* From the position of the leaf up, layer by layer, with the neighbours met.
GetProof(wallets, w) ==
    LET elements == Elements(wallets)
        layers == GetLayers(elements)
        initialIdx == (CHOOSE i \in DOMAIN elements : elements[i] = ToNode(w)) - 1
        climb[k \in 0..Len(layers)] ==
            IF k = 0 THEN [idx |-> initialIdx, proof |-> <<>>]
            ELSE LET at == climb[k - 1]
                 IN  [idx |-> at.idx \div 2,
                      proof |-> at.proof \o GetPairElement(at.idx, layers[k])]
    IN  climb[Len(layers)].proof

\* What the program checks of a proof, and BalanceTree.verifyProof.
VerifyProof(w, proof, root) ==
    FoldLeft(CombinedHash, ToNode(w), proof) = root
=============================================================================
