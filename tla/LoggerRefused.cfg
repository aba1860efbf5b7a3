SPECIFICATION Spec
CONSTANTS
    Threads = {t1, t2, t3}
    ForeignThreads = {}
    k_MAX_THREADS = 2
    k_RING_CAPACITY = 1
    Null = null
    MaxRegistrations = 1
    MaxRecords = 0
    MaxSharedRecords = 0
SYMMETRY ThreadSymmetry
INVARIANT RefusedOnlyIfFull
