CONSTANTS
    Jobs = {o1, o2}
    Workers = {w1}
    o1 = o1
    w1 = w1
    Null = Null
    MaxAttempts = 2
    MaxStalledCount = 1
    Steals = FALSE
    Sheets = {s1}
    InsertAtTop = TRUE
    Outages = FALSE
    Removals = FALSE
    MaxActs = 2
    Deliveries = {d1, d2}
    Procs = {p1, p2}
    Topics = {"orders/create", "orders/updated", "orders/cancelled", "orders/fulfilled", "refunds/create"}
SPECIFICATION SettleSpec
INVARIANT OneRowPerOrder
PROPERTIES
    WebhookIsApplied
    InProgressEnds
    OfficeSettles
CHECK_DEADLOCK FALSE
