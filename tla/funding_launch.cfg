SPECIFICATION Spec
CONSTANTS
    A = A
    B = B
    None = None
    Symbols = {A, B}
    Listings <- AllListed
    MarketRows <- ShorterIntervalWins
    Answering <- SomeAnswer
    Prices <- TwoPrices
    MinRate = 100
    MinVolume = 5
    TopN = 1
    Capital = 100
    Leverage = 5
    MonitorSettings <- OldAndNewSettings
    PlanIds = {1, 2}
    MaxShift = 0
    MaxFaults = 1
    Processes = {"main", "order"}
    Confirmed = {A}
    PerpBooks <- TwoBooks
    SpotBooks <- TwoDepths
    PerpInfo <- EvenTicks
    SpotInfo <- SpotSteps
    Accounts <- FourAccounts
INVARIANTS
    OneEntryPerSymbol
    EntryStartsFlat
    OneSessionPerSymbol
    EndedSessionHasNoMaker
    PreparedMakerRests
    PreparedFitsCapital
CHECK_DEADLOCK FALSE
