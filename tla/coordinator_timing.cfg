SPECIFICATION Spec
CONSTANTS
    Commands = {}
    Attempts = 3
    RetryDelay = 1
    RefreshTimeout = 1
    CloseTimeout = 1
    ConnectTimeout = 2
    PollInterval = 1
    BackoffInitial = 1
    BackoffMax = 2
    SnapshotMaxAge = 2
    MaxUnhealthy = 2
    FullRefreshInterval = 2
    MaxWrites = 0
    AgeCap = 9
    MayCancel = FALSE
INVARIANT StaleDataBounded
PROPERTIES UpdateTerminates Recovers ImplementsPolicy
