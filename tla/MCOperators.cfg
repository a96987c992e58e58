SPECIFICATION Spec
CONSTANTS
    t1 = t1
    t2 = t2
    r1 = r1
    r2 = r2
    g1 = g1
    g2 = g2
    Tasks = {t1, t2}
    Requests = {r1, r2}
    Operations = {"start", "pause", "resume", "recover", "approve", "reject", "retry"}
    Graders = {g1}
    Results <- MCResults
    PassMark = 1
    MaxRetries = 1
    HumanOnExhaustion = TRUE
    MaxSteps = 1
    MaxTokens = 3
    MaxCost = 2
    Usages <- MCUsages
    BadWeights = FALSE
    HarnessEvents = {"step"}
    Keys = {"k1"}
    Directives = {}
    HasHandler = TRUE
    DetachedEmit = TRUE
    MaxEvents = 1
    MaxRequests = 3
    MaxCrashes = 1
    None = None
INVARIANTS
    TypeOK
    OneLiveTask
    AttemptsIncrease
    RetriesBounded
    GradingWithinBudget
    EarnedSuccess
    BenchmarkIsGraded
CHECK_DEADLOCK FALSE
SYMMETRY MCSymmetry
