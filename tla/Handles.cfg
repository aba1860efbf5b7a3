SPECIFICATION Spec
CONSTANTS
    Threads = {t1, t2}
    Errors = {broken}
    Null = null
    k_MAX_THREADS = 1
    MaxRegistrations = 1
    MaxRecords = 1
    MaxDepth = 3
    MaxLocals = 2
SYMMETRY ThreadSymmetry
INVARIANTS TypeOK LiveIsHeldOnce ErrorsArrive
PROPERTY ImplementsLife
