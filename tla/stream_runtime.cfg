SPECIFICATION FairSpec
CONSTANTS
    MaxVersion = 2
    MaxFaults = 2
    MaxConnections = 2
    MaxSignals = 3
PROPERTIES ChangesAreLearnedWithAKey
INVARIANTS
    NoChangeIsMissed
    FlagFollowsConnection
    MakerStartsReconciled
