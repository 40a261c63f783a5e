SPECIFICATION Spec
CONSTANTS
    Commands = {c1}
    Attempts = 2
    RetryDelay = 1
    RefreshTimeout = 1
    CloseTimeout = 1
    ConnectTimeout = 1
    PollInterval = 1
    BackoffInitial = 1
    BackoffMax = 1
    SnapshotMaxAge = 1
    MaxUnhealthy = 1
    FullRefreshInterval = 1
    MaxWrites = 1
    AgeCap = 2
    MayCancel = TRUE
PROPERTY SettingsConverge
