SPECIFICATION Spec
CONSTANTS
    Scale = 4
    BpsBase = 10
    U64Max = 100
    RegistryIndex <- TwoRegistries
    Owners = {alice, bob}
    Presales <- NoVestingPresales
    WhitelistCaps = {}
    Amounts = {1, 2, 3, 4, 5}
    NoEscrow = NoEscrow
    MaxTime = 5
SYMMETRY Symmetry
CHECK_DEADLOCK FALSE
INVARIANT PendingAfterLock
