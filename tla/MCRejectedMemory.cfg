SPECIFICATION Spec
CONSTANTS
    m1 = m1
    v1 = v1
    v2 = v2
    n1 = n1
    d1 = d1
    q1 = q1
    q2 = q2
    Memories = {m1}
    Versions = {v1, v2}
    Agents = {n1}
    Owner <- MCOwner
    Runs = {d1}
    VersionOf <- MCVersionOf
    Reviewers = {q1, q2}
    None = None
PROPERTIES
    RejectedStaysRejected
CHECK_DEADLOCK FALSE
