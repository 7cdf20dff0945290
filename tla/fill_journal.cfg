SPECIFICATION FairSpec
CONSTANTS
    Quantity = 2
    MaxFaults = 1
INVARIANTS
    TypeOK
    RowIsItsJournal
    PriceIsOfItsFills
    FeesAreCountedOnce
    CompleteMeansEveryFee
PROPERTIES
    ImplementsLedger
    FeesAreLearned
CHECK_DEADLOCK FALSE
