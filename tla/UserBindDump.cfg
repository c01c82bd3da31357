SPECIFICATION MCSpec
CONSTANTS
    None = None
    NoUid = NoUid
    Id = {a, b}
    Uid = {u1, u2, u3}
    Caller = {c1, c2}
    Calls <- MCCalls
    Blacklisted = {u1}
    BindAtMinAge = TRUE
    MaxBad = 1
    CountSize = 3
    Expire = 1
    Lag = 1
    MaxClock = 2
    Numbers = {1, 2}
    MaxCrashes = 1
INVARIANTS
    OneHome
    AnswerIsBinding
PROPERTIES
    ImplementsDirectory
    LoadsWhatWasKnown
SYMMETRY MCSymmetry
VIEW MCView
CONSTRAINT MCUpToCrash
CHECK_DEADLOCK FALSE
