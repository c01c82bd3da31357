CONSTANTS
    None = None
    File = {1, 2}
    Hosts = 2
    TriesPerFile = 2
    MaxFaults = 2
ACTION_CONSTRAINTS
    TwoMeetAtSender
    OneStory
SPECIFICATION Spec
INVARIANTS
    NothingLost
    ProcessedOnce
PROPERTY
    FilesArrive
