SPECIFICATION Spec
CONSTANTS
    p1 = p1
    p2 = p2
    nullptr = nullptr
    init = p1
    Procs <- MCProcs
    Inums <- MCInums
    EXT2INO = 1
    NINODE = 3
    Blocks <- MCBlocks
    Names <- MCNames
    NFILE = 2
    NOFILE = 2
    Calls <- MCCalls
    Images <- MCImages
    MaxCalls = 3
    MaxCrashes = 1
INVARIANTS
    EntriesNameLiveInodes
    BlocksOwnedOnce
    CacheMatchesDisk
    RefsExact
    OpenInodeKept
    NoPanic
CHECK_DEADLOCK FALSE
