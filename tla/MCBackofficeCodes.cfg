SPECIFICATION Spec
CONSTANTS
    MaxMerchants = 2
    MaxShops = 3
    FirstShops = {1}
    People = {p1, p2}
    Categories = {c1}
    Subdomains = {2, 7}
    Modules = {"domains", "apps", "policies", "privacy", "shipping"}
    MaxWrites = 5
    Shorter = 2
    DomainIds = {d1, d2}
    Hosts = {h1, h2}
    Scenes = {shopfront}
    Lookups = {t1, t2}
    Apps = {a1}
    Policies = {l1, l2}
    PolicyTypes = {returns}
    Locales = {zh, en}
    Rules = {r1}
    Presets = {e1, e2}
    Shipments = {x1, x2}
    Aftersales = {f1}
    Complaints = {g1}
    ShopOrders = {u1}
    Writers = {w1, w2}
    MaxTraces = 1
    MaxAmount = 2
    Customers = {k1}
    Addresses = {b1, b2}
    Products = {j1}
    Accounts = {n1, n2}
    Contacts = {i1, i2}
    Plans = {q1, q2}
    Orders = {o1, o2}
    Payments = {y1, y2}
    Slots = {s1, s2}
    Durations = {1}
    MaxTime = 1
    MaxCommands = 3
    Crashes = TRUE
    None = None
CHECK_DEADLOCK FALSE
INVARIANT
    NextMerchantCanOpen
