SPECIFICATION Spec
CONSTANTS
    Requests = {r1, r2}
    Buckets <- Scopes
    Limit <- Limits
    Window <- Windows
    Lifetime = 3
    Lag = 1
    MaxTime = 5
SYMMETRY Symmetry
INVARIANTS TriesBounded
PROPERTIES AcceptedInTime
CHECK_DEADLOCK FALSE
