SPECIFICATION Spec
CONSTANTS
    Target = 2
    Prices <- OnePrice
    Commission <- NoCommission
    Step = 1
    MinQuantity = 1
    MinNotional = 1
    Capital = 2
    Tolerance = 1
    MaxActions = 16
    MaxFaults = 2
INVARIANTS
    PausedEntryHasNoMaker
CHECK_DEADLOCK FALSE
