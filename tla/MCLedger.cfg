SPECIFICATION Spec
CONSTANTS
    Scale = 4
    BpsBase = 10
    U64Max = 100
    RegistryIndex <- TwoRegistries
    Owners = {alice, bob}
    Presales <- AllPresales
    WhitelistCaps = {2}
    Amounts = {1, 2, 3, 4, 5, 6, 7, 8}
    NoEscrow = NoEscrow
    MaxTime = 5
SYMMETRY Symmetry
\* A presale is over when everyone has been paid and the clock stands.
CHECK_DEADLOCK FALSE
INVARIANTS
    TypeOK
    CapNeverExceeded
    BuyerCapRespected
    NobodyIsDiluted
    OverpaymentBounded
    QuotaBuysAllThatIsLeft
    ClaimsWithinEntitlement
    VestingReleasesEverything
    PendingNeverNegative
    BaseVaultCoversPromises
    QuoteVaultCoversPromises
    OnlyDustIsStranded
    RefundsWithinAnnounced
PROPERTIES
    OutcomeIsFinal
    ClosedEscrowIsOwedNothing
    ImplementsSale
