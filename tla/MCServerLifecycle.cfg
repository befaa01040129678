SPECIFICATION ServerFairSpec
CONSTANTS
    Requests = {r1, r2, r3}
    Batch = batch
    Conns = 1
INVARIANTS ClosedInOrder ReturnsTruth
PROPERTIES StopsEventually
CHECK_DEADLOCK FALSE
