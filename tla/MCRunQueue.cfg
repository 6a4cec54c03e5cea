SPECIFICATION Spec
CONSTANTS
    t1 = t1
    t2 = t2
    t3 = t3
    t4 = t4
    nullptr = nullptr
    Tasks <- MCTasks
    MaxAhead = 2
    MaxSize = 7
INVARIANTS
    ListWellFormed
PROPERTIES
    ImplementsTaskQueue
