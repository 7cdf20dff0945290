SPECIFICATION Spec
CONSTANTS
    Target = 3
    Prices <- OnePrice
    Commission <- HighCommission
    Step = 1
    MinQuantity = 1
    MinNotional = 1
    Capital = 3
    Tolerance = 1
    MaxActions = 12
    MaxFaults = 1
INVARIANTS
    OpenIsFeeComplete
CHECK_DEADLOCK FALSE
