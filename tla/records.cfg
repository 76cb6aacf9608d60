CONSTANTS
    Orders = {o1}
    Deliveries = {d1, d2}
    Procs = {p1, p2}
    Null = Null
    Topics = {"orders/create", "orders/updated", "orders/cancelled", "orders/fulfilled", "refunds/create"}
    Outages = TRUE
    Replays = FALSE
    d1 = d1
    d2 = d2
    Submissions = {s1, s2}
    Purchases = {b1, b2}
    Limit = 1
    Rescanned = {s1}
    Verdicts = {"ALLOW", "REVIEW", "CHALLENGE_OTP", "BLOCK"}
    s1 = s1
    s2 = s2
    b1 = b1
    b2 = b2
    Counted = {c1, c2}
    One = {c1}
    Rebuilds = {r1}
    LastDay = 2
    ChunkDays = 1
    MaxTries = 2
    c1 = c1
    c2 = c2
SPECIFICATION RecordsSpec
INVARIANTS
    ResubmissionFindsOrder
    OvershootBounded
    AnswerNamesPurchase
    StoredIsQueuedOrHeld
    CountedOnlyIfStamped
    CountedPerWebhook
    MapAgreesWithRevenue
    DaysAreExact
    AverageSettles
CHECK_DEADLOCK FALSE
