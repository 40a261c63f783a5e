SPECIFICATION Spec
CONSTANTS
    Commands = {c1}
    Attempts = 3
    RetryDelay = 1
    RefreshTimeout = 1
    CloseTimeout = 1
    ConnectTimeout = 2
    PollInterval = 1
    BackoffInitial = 1
    BackoffMax = 3
    SnapshotMaxAge = 3
    MaxUnhealthy = 3
    FullRefreshInterval = 4
    MaxWrites = 1
    AgeCap = 5
    MayCancel = FALSE
INVARIANT ShutdownDisconnects
