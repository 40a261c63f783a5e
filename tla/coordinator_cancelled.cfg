SPECIFICATION Spec
CONSTANTS
    Commands = {}
    Attempts = 3
    RetryDelay = 1
    RefreshTimeout = 1
    CloseTimeout = 1
    ConnectTimeout = 2
    PollInterval = 1
    BackoffInitial = 1
    BackoffMax = 3
    SnapshotMaxAge = 3
    MaxUnhealthy = 3
    FullRefreshInterval = 4
    MaxWrites = 0
    AgeCap = 10
    MayCancel = TRUE
INVARIANT StaleDataBounded
