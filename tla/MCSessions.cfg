SPECIFICATION Spec
CONSTANTS
    Requests = {r1, r2, r3, r4}
    Emails = {e1, e2}
    Subs <- TwoSubs
    None = None
    AccessTTL = 1
    RefreshTTL = 2
    MaxTime = 2
SYMMETRY Symmetry
INVARIANTS RowsCurrent NoForkedSession VerifiedWasLive SessionOwner
PROPERTIES RevokedStayDead SessionsNotLost LateRefreshRefused ImplementsContract
CHECK_DEADLOCK FALSE
