SPECIFICATION TransferSpec
CONSTANTS
    Requests = {1}
    Shop <- SomeShop
    Backups <- SomeBackups
    Foreign <- SomeForeign
    Screens <- SomeScreens
    MaxRequests = 2
    MaxFailures = 0
INVARIANT SnapshotRecovers
CHECK_DEADLOCK FALSE
