CONSTANTS
    Suspects <- MCSuspects
    RuleLists <- MCRules
    Configured <- MCSettings
    Known <- MCKnown
    Failing <- MCFailing
    Held = {1, 2}
    PhoneOf <- MCPhone
    FactsOf <- MCFacts
    Desks = {1, 2}
    Thresholds = {30, 50}
    ScanLimit = 2
    MaxDesk = 2
    MaxFaults = 1
    Jobs = {o1}
    Workers = {w1, w2}
    w1 = w1
    w2 = w2
    Null = Null
    MaxAttempts = 2
    MaxStalledCount = 1
    Steals = FALSE
    Sheets = {s1, s2}
    InsertAtTop = FALSE
    Outages = TRUE
    Removals = TRUE
    MaxActs = 3
    Pixels = {1, 2}
    Platforms = {"CUSTOM"}
    PixelTabs = {1}
    PlanPixels = 2
    Edits <- MCEdits
    MaxRuns = 2
    MaxChanges = 1
    MaxLosses = 1
    Verdicts = {"ALLOW", "CHALLENGE_OTP"}
    MaxOrders = 2
    PageSize = 1
    COUNT_CAP = 1
    MaxMoves = 2
    MaxLooks = 2
    Requests = {1, 2}
    Shop <- MCShop
    Backups <- MCBackups
    Foreign <- MCForeign
    Screens <- MCScreens
    MaxRequests = 2
    MaxFailures = 1
SPECIFICATION OfficeSpec
INVARIANTS
    EngineIsFair
    DeskAgrees
    PixelsTellTheTruth
    TransferIsFaithful
    StuckListIsWhole
    SyncedIsInSheet
    OneRunPerJob
CHECK_DEADLOCK FALSE
