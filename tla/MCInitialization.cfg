SPECIFICATION FairSpec
CONSTANTS
    Scale = 4
    BpsBase = 10
    U64Max = 100
    RegistryIndex <- TwoRegistries
    Bases <- TwoBases
    Terms <- AllTerms
    Wanted <- WantedTerms
    Funds = 5
    MaxSent = 2
    Absent = Absent
    Refused = Refused
INVARIANTS
    InitializedIsFresh
    SupplyTakenOnce
PROPERTIES
    TermsOfOneCall
    CreatorGetsThePresale
