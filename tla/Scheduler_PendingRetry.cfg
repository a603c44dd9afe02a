\* An interrupted benchmark retry cycle beside health checks of the same model.
SPECIFICATION Spec
CONSTANTS
    Models <- MCModels
    Providers <- MCProviders
    ProviderOf <- MCProviderOf
    Rank <- MCRank
    Configs <- Staggered
    MaxReloads = 0
    Kinds = {"health", "benchmark"}
    AuditAvailable = FALSE
    Interval <- UnitInterval
    AgeCap = 1
    TotalAttempts = 1
    TestTicks = 1
    Timely = FALSE
    InternalErrors = TRUE
    Archivable = {}
    MaxLate = 0
PROPERTY PendingRetryResumed
