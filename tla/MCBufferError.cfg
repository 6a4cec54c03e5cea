SPECIFICATION Spec
CONSTANTS
    p1 = p1
    p2 = p2
    nullptr = nullptr
    Procs <- MCProcs
    NBUF = 2
    NBLOCK = 3
    MaxHeld = 2
    MaxFailed = 1
INVARIANT ValidMeansRead
