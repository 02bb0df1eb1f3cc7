SPECIFICATION Spec
CONSTANTS
    p1 = p1
    p2 = p2
    Permissions = {p1, p2}
    Contributions <- MCContributions
    Budgets <- MCBudgets
    Replicas = {a, b}
    EntitlementStaleness = 0
    RegistryStaleness = 2
    CallTimeout = 1
    Owner = boss
    Workforce = {s1}
    Roles = {r1}
    Shops = {h1, h2}
    Units = {u1}
    Scopes = {"ASSIGNED_SHOPS", "CURRENT_ORG_UNIT"}
    None = None
SYMMETRY Symmetry
CHECK_DEADLOCK FALSE
INVARIANTS
    TypeOK
    AcceptedCapabilityIsCurrent
    GrantsFollowMembers
    ProjectionsAreSnapshots
    EntitlementsExpire
PROPERTIES
    ProjectionsNeverGoBack
