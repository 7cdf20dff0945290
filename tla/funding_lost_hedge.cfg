SPECIFICATION FairSpec
CONSTANTS
    Target = 1
    Prices <- OnePrice
    Commission <- NoCommission
    Step = 1
    MinQuantity = 1
    MinNotional = 1
    Capital = 1
    Tolerance = 1
    MaxActions = 12
    MaxFaults = 2
PROPERTIES
    FillsAreHedged
CHECK_DEADLOCK FALSE
