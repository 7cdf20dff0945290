SPECIFICATION FairSpec
CONSTANTS
    c1 = c1
    c2 = c2
    Calls = {c1, c2}
    MaxFaults = 2
INVARIANTS
    LeverageIsConfirmed
PROPERTIES
    ImplementsSideEffect
    CallsEnd
CHECK_DEADLOCK FALSE
