CONSTANTS
    request = request
    impression = impression
    None = None
    LogType = {request, impression}
    File <- MCFile
    TypeOf <- MCTypeOf
    Priority <- MCPriority
    Thread = {c1, c2}
    MaxFiles = 1
    Records <- MCRecords
    MaxFaults = 1
ACTION_CONSTRAINTS
    StopInterrupts
    OneStory
SPECIFICATION Spec
INVARIANTS
    RecordsOnce
PROPERTIES
    ImplementsQueue
    FilesAreLoaded
