SPECIFICATION Spec
CONSTANTS
    Session = {s1, s2}
    Create = {c1, c2}
    Teardown = {d1}
    NoAgent = NoAgent
    NoSession = NoSession
    NoRow = NoRow
    BasePort = 9001
    Faults <- MCNoFaults
INVARIANT GenerateNeverRaises
