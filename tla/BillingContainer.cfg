SPECIFICATION Spec
CHECK_DEADLOCK FALSE
CONSTANTS
    Date <- MCDate
    Unit = 12
    LimitsDivider = 1
    NoSource = NoSource
    None = None
    DayLength = 2
    Id = {1, 2, 3, 4}
    Stats <- MCStats
    Now = 6
    StatDelay = 2
    MaxOffset = 1
    Bids <- MCBids
    Configs <- MCConfigs
ACTION_CONSTRAINT
    OneStory
INVARIANTS
    BooksWithinBudget
    AccountPaysForDelivery
    RepliesAddUp
    CheckAgreesWithConfirm
    RevertFindsEntry
PROPERTIES
    ChargesStayWithinLimits
    FreshDaysSurviveStatistics
