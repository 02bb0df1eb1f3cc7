SPECIFICATION Spec
CONSTANTS
    Subjects = {s1}
    Secrets = {p1, p2}
    SessionIds = {x1, x2}
    Tokens = {t1, t2}
    Keys = {k1, k2}
    Slots = {r1, r2}
    Operations = {"login", "rotate", "logout", "status", "reset", "change", "revoke"}
    None = None
    MaxContext = 1
    SelfUpdateAllowed = FALSE
SYMMETRY Symmetry
CHECK_DEADLOCK FALSE
INVARIANTS
    TypeOK
PROPERTIES
    Serializable
