SPECIFICATION Spec
CONSTANTS
    alice = alice
    pathTarget = pathTarget
    rootTarget = rootTarget
    v1 = v1
    v2 = v2
    app = app
    tool = tool
    env = env
    c1 = c1
    c2 = c2
    q1 = q1
    q2 = q2
    None = None
    User <- MCUsers
    Target <- MCTargets
    Rooted <- MCRooted
    Name <- MCNames
    Skipped <- MCSkipped
    Content <- MCContents
    Version <- MCVersions
    FilesOf <- MCFilesOf
    Foreign <- MCForeign
    Request <- MCRequests
    Faults = TRUE
INVARIANTS
    TypeOK
    
    
PROPERTIES
    BaselineSparesEdits
SYMMETRY MCSymmetry
CHECK_DEADLOCK FALSE
