SPECIFICATION Spec
CONSTANTS
    Subjects = {s1}
    Secrets = {p1, p2}
    SessionIds = {x1, x2}
    Tokens = {t1, t2, t3, t4}
    Keys = {k1, k2, k3}
    None = None
    RefreshTTL = 1
    MaxTime = 1
    MaxContext = 2
    SelfUpdateAllowed = TRUE
SYMMETRY Symmetry
CHECK_DEADLOCK FALSE
INVARIANTS
    TypeOK
    OneLiveTokenPerLiveSession
    RotatedAtMostOnce
    ReuseEndsTheFamily
    DisabledIsLoggedOut
    LiveSessionsKnowThePassword
    GrantsFollowTheMember
PROPERTIES
    EndedIsFinal
