SPECIFICATION StoreFairSpec
CONSTANTS
    Long = k3
    CacheKeys = {k1, k2, k3}
    KeySize <- Lengths
    Sizes <- TwoSizes
    MaxEntries = 2
    MaxBytes = 4
    TTL = 1
    Closers = {c1, c2}
    None = None
    MaxTime = 2
    MaxSets = 4
INVARIANTS Consistent GetsCurrent
PROPERTIES EvictionNeeded IdleExpires CloseEnds
CHECK_DEADLOCK FALSE
