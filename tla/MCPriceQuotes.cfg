SPECIFICATION Spec
CONSTANTS
    Scale = 16
    Digits = 2
    BpsBase = 10
    MaxPrice = 16
    MaxDecimals = 1
    MaxFee = 6
    MaxAmount = 12
\* Every amount has been asked for.
CHECK_DEADLOCK FALSE
INVARIANTS
    CapNeverOversells
    LittleIsLeftAtTheCap
    SuggestionIsCheapest
    FeeIncludedIsLeast
    TransferFeeIncludedIsLeast
    PriceNearItsSide
