SPECIFICATION FairSpec
CONSTANTS
    b0 = b0
    t1 = t1
    t2 = t2
    booking = booking
    faq = faq
    bookingReworded = bookingReworded
    toolsA = toolsA
    toolsB = toolsB
    Task <- MCTask
    BuildTask = b0
    Config <- MCConfig
    InitialConfig = booking
    ToolSet <- MCToolSet
    ToolsOf <- MCToolsOf
    NoTools = NoTools
    HasSecret = TRUE
    Faults <- MCFaults
INVARIANTS
    TypeOK
    InSyncWhenSerial
    DeletedIsDown
PROPERTIES
    EditsKept
    RegenSparesEnv
    GeneratingSettles
ACTION_CONSTRAINT FirstThingsFirst
CHECK_DEADLOCK FALSE
