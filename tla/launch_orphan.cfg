SPECIFICATION FairSpec
CONSTANTS
    A = A
    B = B
    None = None
    Symbols = {A}
    Listings <- AllListed
    MarketRows <- AlwaysA
    Answering <- AnswerA
    Prices <- OnePrice
    MinRate = 100
    MinVolume = 5
    TopN = 1
    Capital = 100
    Leverage = 5
    MonitorSettings <- OwnSettings
    PlanIds = {1}
    MaxShift = 1020
    MaxFaults = 0
    Processes = {"main"}
    Confirmed = {A}
    PerpBooks <- OneBook
    SpotBooks <- DeepSpot
    PerpInfo <- EvenTicks
    SpotInfo <- SpotSteps
    Accounts <- IndebtedAccount
PROPERTIES
    EveryMakerGetsASession
CHECK_DEADLOCK FALSE
