SPECIFICATION Spec
CONSTANTS
    NPROC = 3
    NPAGES = 19
    NPTENTRIES = 2
    UserTables = 10
    FbPages = 1
    Images <- MCImages
    Deltas <- MCDeltas
    MaxCalls = 4
    DEV = DEV
    data = data
    junk = junk
INVARIANTS
    PagesAccountedFor
    RunsOnLiveMemory
    BrkIsWhatIsMapped
    TlbHoldsOnlyMapped
    NoPanic
PROPERTIES
    FramebufferStays
CHECK_DEADLOCK FALSE
