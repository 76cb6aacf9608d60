CONSTANTS
    Ops = {1, 2}
    MaxTurns = 2
    Shops = {s1, s2}
    PerShop = 2
    BATCH = 1
    MAX_PER_SHOP_PER_RUN = 1
    MaxTrouble = 2
    Checks = {1, 2}
    MaxChanges = 2
    Readers = {1}
    Writers = {1, 2}
    MaxSaves = 2
    Forms = {f1, f2, f3, f4}
    Tabs = {1, 2}
    FormLimit = 2
    MaxEdits = 3
SPECIFICATION TenantSpec
INVARIANTS
    KeepsGrant
    ServedIsRecent
    FormsHold
PROPERTIES
    AccessSettles
    ExpiredIsErased
    PlanSettles
CHECK_DEADLOCK FALSE
