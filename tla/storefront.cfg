CONSTANTS
    Configs <- MCConfigs
    NoConfig = NoConfig
    MaxActs = 4
    MaxMounts = 2
    MaxReqs = 2
    Codes = {"a", "b", "c"}
    Known = {"a", "c"}
    Blocked = {"c"}
    MaxEdits = 4
    Tags <- MCTags
    Orders = {1, 2}
    MaxConsents = 1
SPECIFICATION StorefrontSpec
INVARIANTS
    OrdersAreHonest
    SaleHeardOnce
    GatesHold
    ResolvedIsForCode
PROPERTIES
    ConfigStaysWhileOpen
    ChangeIsSeen
    WaitsEnd
CHECK_DEADLOCK FALSE
