SPECIFICATION FairSpec
CONSTANTS
    c1 = c1
    c2 = c2
    p1 = p1
    nullptr = nullptr
    CPUs <- MCCPUs
    Procs <- MCProcs
    Locks <- MCLocks
    PTable = 2
INVARIANTS
    TypeOK
    MutualExclusion
    NoPanic
    InterruptStateFollowsThread
    NoSelfDeadlock
PROPERTIES
    PTableReleased
