SPECIFICATION Spec
CONSTANTS
    v1 = v1
    v2 = v2
    None = None
    Scale = 2
    Rules <- MCRules
    Outputs <- MCOutputs
    Verdicts <- MCVerdicts
    Policies <- MCPolicies
    MapNames = {"skills", "mcp_servers"}
    ConfigNames = {"workflow_config"}
    Keys = {"k", "l", "m"}
    Dict = Dict
    Roots <- MCRoots
    Plans <- MCPlans
    BenchmarkRuns <- MCBenchmarkRuns
    Promotion <- MCPromotion
    BaseVersion = v1
    CandidateVersion = v2
    MaxBenchmarks = 2
    AfterToolErrors = 2
    EveryModelCalls = 3
    OnAgentComplete = TRUE
    MaxObserved = 6
INVARIANTS
    GradesFailClosed
    LineageKeepsScope
    PatchesMergeDeeply
    PromotionFavoursTheBetter
    ReviewsOnSchedule
CHECK_DEADLOCK FALSE
