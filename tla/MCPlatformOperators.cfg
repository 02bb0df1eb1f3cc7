SPECIFICATION Spec
CONSTANTS
    Operators = {adm, o2}
    Admin = adm
    Roles = {sys, clerk}
    SystemRole = sys
    Keys = {k1, k2}
    Slots = {r1, r2}
    Operations = {"create", "status", "reset", "grants"}
    None = None
    MaxRoleChanges = 1
    MaxCommits = 3
SYMMETRY Symmetry
CONSTRAINT FewCommits
CHECK_DEADLOCK FALSE
INVARIANTS
    TypeOK
    HoldersAreActive
    GrantsFollowTheOperator
PROPERTIES
    PermissionsMoveTheRevision
