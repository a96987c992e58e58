SPECIFICATION FairSpec
CONSTANTS
    l = l
    a = a
    b = b
    d = d
    c1 = c1
    c2 = c2
    Runs = {l, a, b}
    Leader = l
    Callers = {c1, c2}
    MaxSubagents = 1
    MaxDepth = 1
    Slots = 1
    MaxOther = 1
    MaxCrashes = 1
    None = None
INVARIANTS
    TypeOK
    TeamsAreBounded
    OneTeam
    ChildrenAreAnnounced
    MembersExist
    RunsQueueOnce
PROPERTIES
    EverySpawnEnds
CHECK_DEADLOCK FALSE
