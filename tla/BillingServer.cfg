SPECIFICATION ServerSpec
CHECK_DEADLOCK FALSE
CONSTANTS
    Date <- MCDate
    Unit = 12
    LimitsDivider = 1
    NoSource = NoSource
    None = None
    DayLength = 1
    Id = {1}
    Bids <- MCOneBid
    Configs <- MCConfigs
    Stats <- MCSomeStats
    Now = 2
    StatDelay = 0
    MaxOffset = 0
    MaxRestarts = 1
    MaxDumps = 2
INVARIANTS
    StopLosesNothing
PROPERTIES
    RestartRestoresDump
