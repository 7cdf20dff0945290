SPECIFICATION FairSpec
CONSTANTS
    Target = 1
    Prices <- OnePrice
    Commission <- NoCommission
    Step = 1
    MinQuantity = 1
    MinNotional = 1
    Capital = 1
    Tolerance = 1
    MaxActions = 16
    MaxFaults = 2
INVARIANTS
    NeverOverHedged
    ResumedHedgeIsKnown
PROPERTIES
    FillsAreHedgedOrForgotten
CHECK_DEADLOCK FALSE
