SPECIFICATION Spec
CHECK_DEADLOCK FALSE
CONSTANTS
    Key = {k1, k2}
    Client = {c1, c2}
    First = c1
    FirstKey = k1
    None = None
    RWMax = 2
    MaxUndumped = 4
    MaxLevels0 = 2
    MaxWaiters = 1
    MaxWrites = 3
    MaxOld = 1
    MaxRestarts = 1
    MaxFailures = 1
ACTION_CONSTRAINTS
    FewTransactions
    TransactionsEnd
    WritesTell
    StopFindsNoCall
    OneStory
INVARIANTS
    OneTransactionPerKey
    TransactionReadsLast
    MergeIsScheduled
    CountersMatchLevels
PROPERTIES
    ImplementsStore
    BlockedWriteProceeds
    StopCompletes
