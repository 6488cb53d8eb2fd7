SPECIFICATION Spec
CONSTANTS
    r1 = r1
    r2 = r2
    r3 = r3
    r4 = r4
    n1 = n1
    n2 = n2
    a1 = a1
    None = None
    Request <- MCRequests
    Number <- MCNumbers
    Agent <- MCAgents
    Interrupts = TRUE
INVARIANTS
    TypeOK
    MirrorAgrees
    KeyOutlivesRow
    CallInitVerifies
PROPERTIES
    ListedUntilDeleted
SYMMETRY MCSymmetry
CHECK_DEADLOCK FALSE
