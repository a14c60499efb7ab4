SPECIFICATION ClientSpec
CONSTANTS
    Scale = 4
    BpsBase = 10
    U64Max = 100
    RegistryIndex <- OneRegistry
    Owners = {alice}
    Presales <- ClientPresales
    WhitelistCaps = {}
    Amounts = {1, 2}
    NoEscrow = NoEscrow
    MaxTime = 1
    Callers = {c1, c2}
    Idle = Idle
SYMMETRY Symmetry
\* A presale is over when everyone has been paid and the clock stands.
CHECK_DEADLOCK FALSE
INVARIANTS
    DecidedCacheIsRight
    ViewIsConsistent
PROPERTIES
    WrappedSolCoversDeposit
