SPECIFICATION FairSpec
CONSTANTS
    ServerCount = 2
    Checkers = {t1}
    Confirmers = {t2}
    Amount = 1
    MaxUseCount = 1
    MaxTryCount = 1
    MaxConfigs = 2
    None = None
INVARIANTS
    UnavailableIsRechecked
PROPERTIES
    NoServerOverlooked
    DeactivatedComesBack
    DisabledIsRetried
ACTION_CONSTRAINT MCConfirmsBeforeConfig
