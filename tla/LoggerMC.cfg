SPECIFICATION Spec
CONSTANTS
    Threads = {t1, t2}
    ForeignThreads = {}
    k_MAX_THREADS = 2
    k_RING_CAPACITY = 1
    Null = null
    MaxRegistrations = 2
    MaxRecords = 2
    MaxSharedRecords = 0
SYMMETRY ThreadSymmetry
INVARIANTS TypeOK FreedIsWritten HandleOrder NoUseAfterFree RegisteredIsInOneSlot DestroyedLeavesNothing
