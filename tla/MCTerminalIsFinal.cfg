SPECIFICATION Spec
CONSTANTS
    t1 = t1
    t2 = t2
    r1 = r1
    r2 = r2
    g1 = g1
    g2 = g2
    Tasks = {t1}
    Requests = {r1, r2}
    Operations = {"start", "approve", "reject"}
    Graders = {g1}
    Results <- MCResults
    PassMark = 1
    MaxRetries = 0
    HumanOnExhaustion = TRUE
    MaxSteps = 1
    MaxTokens = 1
    MaxCost = 1
    Usages <- MCUsages
    BadWeights = FALSE
    HarnessEvents = {"step"}
    Keys = {"k1"}
    Directives = {}
    HasHandler = TRUE
    DetachedEmit = FALSE
    MaxEvents = 0
    MaxRequests = 3
    MaxCrashes = 0
    None = None
PROPERTIES
    TerminalIsFinal
CHECK_DEADLOCK FALSE
