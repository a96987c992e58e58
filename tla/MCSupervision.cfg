SPECIFICATION FairSpec
CONSTANTS
    t1 = t1
    t2 = t2
    r1 = r1
    r2 = r2
    g1 = g1
    g2 = g2
    Tasks = {t1}
    Requests = {r1}
    Operations = {"start", "recover"}
    Graders = {g1, g2}
    Results <- MCResults
    PassMark = 1
    MaxRetries = 1
    HumanOnExhaustion = FALSE
    MaxSteps = 1
    MaxTokens = 2
    MaxCost = 1
    Usages <- MCTokens
    BadWeights = TRUE
    HarnessEvents = {"step", "other"}
    Keys = {"k1"}
    Directives <- MCDirectives
    HasHandler = TRUE
    DetachedEmit = TRUE
    MaxEvents = 2
    MaxRequests = 2
    MaxCrashes = 1
    None = None
INVARIANTS
    StepsWithinBudget
    HintsRepeatOnlyLate
    SignalsTakeEffect
PROPERTIES
    EveryTaskEnds
CHECK_DEADLOCK FALSE
