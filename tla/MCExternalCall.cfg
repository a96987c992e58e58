SPECIFICATION FairSpec
CONSTANTS
    RequestSize = 2
    PipeSize = 1
    MaxLines = 4
    MaxOutput = 3
    MaxEvents = 3
    MaxCancels = 2
INVARIANTS
    ResultIsEarned
    ProcessReaped
    ResultIsDurable
    WorkerQuiet
PROPERTIES
    EveryCallEnds
CHECK_DEADLOCK FALSE
