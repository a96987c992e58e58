SPECIFICATION Spec
CONSTANTS
    p1 = p1
    p2 = p2
    w1 = w1
    w2 = w2
    w3 = w3
    e1 = e1
    e2 = e2
    Processes = {p1, p2}
    Writers = {w1, w2, w3}
    Home <- MCHome
    Events = {e1, e2}
    Batches <- MCBatches
    MaxLength = 2
    NoWriter = NoWriter
INVARIANTS
    TypeOK
    Contiguous
    CollisionMeansConflict
PROPERTIES
    ImplementsRunStream
SYMMETRY MCSymmetry
CHECK_DEADLOCK FALSE
