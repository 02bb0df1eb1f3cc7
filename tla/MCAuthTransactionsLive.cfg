SPECIFICATION FairSpec
CONSTANTS
    Subjects = {s1}
    Secrets = {p1}
    SessionIds = {x1}
    Tokens = {t1, t2}
    Keys = {k1}
    Slots = {r1, r2}
    Operations = {"login", "rotate", "logout", "status", "switch"}
    None = None
    MaxContext = 2
    SelfUpdateAllowed = TRUE
CHECK_DEADLOCK FALSE
PROPERTIES
    EveryRequestEnds
    Serializable
