SPECIFICATION FairSpec
CONSTANTS
    k_MAX_THREADS = 2
    k_RING_CAPACITY = 2
INVARIANT PassInvariant
PROPERTIES FloodStarvesNobody ClosedIsCleared DestroyedAtLast
