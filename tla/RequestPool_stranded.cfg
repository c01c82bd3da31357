SPECIFICATION Spec
CHECK_DEADLOCK FALSE
CONSTANTS
    ServerCount = 2
    Key = {k1}
    Times <- MCTimes
    Amounts = {2}
    Callers = {c1}
    Workers = {w1}
    MaxRequests = 100
    LostReplies = FALSE
    None = None
    MaxAdds = 1
    MaxTimers = 0
    MaxRestarts = 0
INVARIANTS
    NonEmptyServersListed
