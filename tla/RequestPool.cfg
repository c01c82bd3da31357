SPECIFICATION Spec
CHECK_DEADLOCK FALSE
CONSTANTS
    ServerCount = 2
    Key = {k1}
    Times = {1}
    Amounts = {3}
    Callers = {c1}
    Workers = {w1, w2}
    MaxRequests = 1
    LostReplies = TRUE
    None = None
    MaxAdds = 1
    MaxTimers = 1
    MaxRestarts = 2
INVARIANTS
    AcceptedIsNotLost
    NotBilledTwice
