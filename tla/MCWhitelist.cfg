SPECIFICATION Spec
CONSTANTS
    HashRank <- SampleRank
    Lists <- SampleLists
    WalletPerTree <- TreeSizes
    None = None
INVARIANTS
    ListedWalletsAreAdmitted
PROPERTIES
    EscrowsWereListed
