SPECIFICATION Spec
CONSTANTS
    Commands = {c1, c2}
    Attempts = 3
    RetryDelay = 1
    RefreshTimeout = 1
    CloseTimeout = 1
    ConnectTimeout = 1
    PollInterval = 1
    BackoffInitial = 1
    BackoffMax = 2
    SnapshotMaxAge = 2
    MaxUnhealthy = 2
    FullRefreshInterval = 2
    MaxWrites = 1
    AgeCap = 3
    MayCancel = TRUE
INVARIANTS TypeOK BackoffIsQuiet ReadsKnownPlant AvailabilityMatchesState NotificationMatchesState FailureMatchesState
PROPERTIES SettingsNeverRegress RetryFromSnapshot
SYMMETRY CommandSymmetry
