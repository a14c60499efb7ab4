SPECIFICATION TransactionsSpec
CONSTANTS
    Scale = 4
    BpsBase = 10
    U64Max = 100
    RegistryIndex <- OneRegistry
    Owners = {alice}
    Presales <- SomePresales
    WhitelistCaps = {}
    Amounts = {1, 3}
    NoEscrow = NoEscrow
    MaxTime = 2
    Creator = creator
    NoAccount = NoAccount
    Refused = Refused
    MaxBuilt = 3
    Sol = 6
\* A presale is over when everyone has been paid and the clock stands.
CHECK_DEADLOCK FALSE
INVARIANTS
    OnlyTheLedgerRefuses
PROPERTIES
    DepositReturnsTheRest
