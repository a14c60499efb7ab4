SPECIFICATION ListingSpec
CONSTANTS
    Scale = 4
    BpsBase = 10
    U64Max = 100
    RegistryIndex <- TwoRegistries
    Owners = {alice, bob}
    Presales <- ListedPresales
    WhitelistCaps = {}
    Amounts = {1}
    NoEscrow = NoEscrow
    MaxTime = 0
    ChunkSize = 2
    None = None
SYMMETRY Symmetry
INVARIANTS
    ListingResolves
