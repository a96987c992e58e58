SPECIFICATION FairSpec
CONSTANTS
    b1 = b1
    b2 = b2
    b3 = b3
    c1 = c1
    c2 = c2
    Bundles = {b1, b2, b3}
    Calls = {c1, c2}
    Benchmarks <- MCBenchmarks
    Policy <- MCPolicy
    MaxCalls = 6
    None = None
INVARIANTS
    TypeOK
    HistoryExplains
    PromotedOnce
    PromotedOnEvidence
PROPERTIES
    EveryCallAnswered
CHECK_DEADLOCK FALSE
