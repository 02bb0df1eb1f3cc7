SPECIFICATION Spec
CONSTANTS
    Shops = {s1, s2}
    Destinations = {d1}
    Subjects = {u1, u2}
    SessionIds = {x1, x2, x3}
    Challenges = {c1, c2}
    None = None
    Cooldown = 1
    TTL = 2
    Window = 1
    MaxAttempts = 2
    MaxLag = 1
    MaxTime = 3
SYMMETRY Symmetry
CHECK_DEADLOCK FALSE
PROPERTIES
    NoLoginIntoInactiveShop
