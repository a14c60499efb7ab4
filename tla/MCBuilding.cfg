SPECIFICATION FairSpec
CONSTANTS
    Methods <- WorkingMethods
    MintPrograms = {"Token"}
    Costs = {7, 30, 100, 133}
    MaxUnits = 140
    DefaultUnits = 20
    MaxChanges = 2
\* A landed transaction is the end.
CHECK_DEADLOCK FALSE
PROPERTIES
    ThrowsHaveACause
    CallerGetsThrough
