CONSTANTS
    s1 = s1
    s2 = s2
    w1 = w1
    w2 = w2
    Submitters = {s1, s2}
    Workers = {w1, w2}
    kMaxParallelChunks = 2
    Faulty = {0}
    Widths = {0}
    EnvThreads = 0
    HardwareThreads = 3
    MaxCalls = 1
    NoThread = NoThread
    NoJob = NoJob
    NoError = NoError
SPECIFICATION Spec
SYMMETRY WorkerSymmetry
INVARIANTS
    TypeOK
    NoDanglingJob
    HoldersCounted
    NoLostWakeup
    ClaimsAreCounted
PROPERTIES
    ImplementsSerialLoops
CHECK_DEADLOCK FALSE
