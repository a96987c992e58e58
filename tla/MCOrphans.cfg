SPECIFICATION Spec
CONSTANTS
    l = l
    a = a
    b = b
    d = d
    c1 = c1
    c2 = c2
    Runs = {l, a, b, d}
    Leader = l
    Callers = {c1, c2}
    MaxSubagents = 1
    MaxDepth = 1
    Slots = 1
    MaxOther = 0
    MaxCrashes = 0
    None = None
INVARIANTS
    ChildrenAreBounded
CHECK_DEADLOCK FALSE
