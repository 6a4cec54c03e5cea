SPECIFICATION FairSpec
CONSTANTS
    c1 = c1
    c2 = c2
    ch = ch
    nullptr = nullptr
    CPUs <- MCCPUs
    Chans <- MCChans
    Tasks <- MCSlots
    KillPids <- MCKillPids
    NPROC = 3
    MaxPid = 3
    MaxAhead = 2
    TIME_SLICE_TICKS = 1
PROPERTIES RunnableEventuallyRuns
