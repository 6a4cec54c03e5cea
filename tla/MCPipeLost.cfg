SPECIFICATION Spec
CONSTANTS
    w1 = w1
    w2 = w2
    r1 = r1
    nullptr = nullptr
    Writers <- MCWriters
    Readers <- MCReaders
    Bytes = {0, 1}
    PIPESIZE = 2
    Wrap = 4
    ReadCounts <- MCReadCounts
    WriteCounts <- MCWriteCounts
INVARIANTS ReaderSleepsOnlyIfEmpty
CHECK_DEADLOCK FALSE
