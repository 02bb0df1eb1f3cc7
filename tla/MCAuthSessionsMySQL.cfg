SPECIFICATION Spec
CONSTANTS
    Subjects = {s1}
    Secrets = {p1}
    SessionIds = {x1, x2}
    Tokens = {t1, t2, t3, t4}
    Keys = {k1}
    None = None
    RefreshTTL = 1
    MaxTime = 1
    MaxContext = 1
    SelfUpdateAllowed = FALSE
SYMMETRY Symmetry
CHECK_DEADLOCK FALSE
INVARIANTS
    ReuseEndsTheFamily
