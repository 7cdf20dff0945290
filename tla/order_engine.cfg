SPECIFICATION FairSpec
CONSTANTS
    o1 = o1
    w1 = w1
    w2 = w2
    monitor = monitor
    cli = cli
    Orders = {o1}
    Workers = {w1, w2}
    Monitor = monitor
    Cli = {}
    Quantity = 2
    MaxFaults = 2
INVARIANTS
    TypeOK
    FillsAreReal
    TerminalIsFinal
    AtMostOnePlacement
    AnswersAreAccepted
PROPERTIES
    EndsAreLearned
    LocksAreReleased
    ImplementsLedger
