SPECIFICATION FairSpec
CONSTANTS
    MaxVersion = 1
    MaxFaults = 2
    MaxConnections = 1
    MaxSignals = 2
PROPERTIES
    ChangesAreLearned
