SPECIFICATION ConsoleSpec
CONSTANTS
    r1 = r1
    r2 = r2
    r3 = r3
    r4 = r4
    s1 = s1
    s2 = s2
    b1 = b1
    b2 = b2
    b3 = b3
    p1 = p1
    p2 = p2
    Session <- MCSessions
    Request <- MCRequests
    First = First
    None = None
    Faults = TRUE
    Base <- MCBases
    Upload <- MCRequests
    NoBase = NoBase
    KBFaults = TRUE
    Reader <- MCReaders
    Version = {"v1", "v2"}
    TTL = 2
    MaxTime = 5
    Spelling = {"Ann", "ann", "bob"}
    Canonical <- MCCanonical
    Role = {"viewer", "editor"}
    Caller <- MCCallers
    Nobody = Nobody
    Tool = {"book", "cancel"}
    Key = {"name", "api_key"}
    SecretKey = {"api_key"}
    MaxDepth = 2
    MaxItems = 2
    MaxLength = 5
INVARIANTS
    TypeOK
    SessionsAsAnswered
    AttachedIffExists
    DocumentsReachAgent
    FailuresKeepTheListing
    OneEmailOneAccount
    NormalizingIsInvisible
    ProbeCoversMapper
    SecretsMasked
    RangeIsExact
    VerdictFitsCause
SYMMETRY MCSymmetry
CHECK_DEADLOCK FALSE
