SPECIFICATION Spec
CONSTANTS
    Requests = {r1, r2, r3}
    s1 = s1
    s2 = s2
    t1 = t1
    t2 = t2
    Subs = {s1, s2}
    Emails = {e1, e2}
    Tokens = {t1, t2}
    Owner <- OfOneAccount
    PoolSizes <- Pools
    None = None
SYMMETRY Symmetry
INVARIANTS SessionsInOrder NobodyHangs
CHECK_DEADLOCK FALSE
