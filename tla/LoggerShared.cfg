SPECIFICATION Spec
CONSTANTS
    Threads = {t1}
    ForeignThreads = {f1, f2}
    k_MAX_THREADS = 2
    k_RING_CAPACITY = 1
    Null = null
    MaxRegistrations = 2
    MaxRecords = 1
    MaxSharedRecords = 3
INVARIANT EveryRecordIsAccounted
PROPERTIES RingsAreUsedAsPromised ImplementsLife ImplementsPass CallsReturn
