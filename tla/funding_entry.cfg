SPECIFICATION Spec
CONSTANTS
    Target = 2
    Prices <- TwoPrices
    Commission <- NoCommission
    Step = 1
    MinQuantity = 1
    MinNotional = 2
    Capital = 2
    Tolerance = 1
    MaxActions = 12
    MaxFaults = 1
INVARIANTS
    TypeOK
    NeverOverHedged
    OneHedgeAtATime
    OpenIsNeutral
    FailedHedgeStops
    PausedEntryHasNoMaker
CHECK_DEADLOCK FALSE
