SPECIFICATION LedgerSpec
CONSTANTS
    Date <- MCDate
    Amounts <- MCAmounts
    Sources <- MCSources
    NoSource = NoSource
    Unit = 10
    LimitsDivider = 2
    StatDays = 1
    HistoryDays = 3
    MaxAmount = 3
    OverflowStores = TRUE
    MaxDay = 5
INVARIANTS
    RunningTotals
PROPERTIES
    RestartKeepsBooks
    ImplementsDayLedger
    FailedAddChangesNothing
