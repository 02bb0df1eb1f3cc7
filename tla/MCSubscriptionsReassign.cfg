SPECIFICATION Spec
CONSTANTS
    Plans = {q1, q2}
    Orders = {o1}
    Payments = {y1}
    Slots = {r1}
    Durations = {1}
    MaxTime = 0
    MaxCommands = 2
    Crashes = FALSE
    None = None
SYMMETRY Symmetry
CHECK_DEADLOCK FALSE
INVARIANT
    EntitlementFollowsAssignment
