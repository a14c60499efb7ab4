SPECIFICATION FairOperatorsSpec
CONSTANTS
    Scale = 4
    BpsBase = 10
    U64Max = 100
    RegistryIndex <- TwoRegistries
    Owners <- Buyers
    Presales <- OpenPresales
    WhitelistCaps = {1, 2, 5}
    Amounts = {2}
    NoEscrow = NoEscrow
    MaxTime = 1
    Candidates <- TwoCandidates
    Listed <- Lists
    NoServer = NoServer
    MaxSent = 2
INVARIANTS
    DepositsWithinListing
PROPERTIES
    ListedBuyersGetIn
