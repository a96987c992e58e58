SPECIFICATION FairSpec
CONSTANTS
    s1 = s1
    b1 = b1
    Streamers = {s1}
    Pollers = {b1}
    PageLimit = 2
    MaxLength = 4
INVARIANTS
    NothingSkipped
    EndedRunIsRead
PROPERTIES
    StreamAdvances
CHECK_DEADLOCK FALSE
