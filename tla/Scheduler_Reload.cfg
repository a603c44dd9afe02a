\* Hot reloads that lower the limits, remove a model and reset epochs; audits take no permit.
SPECIFICATION Spec
CONSTANTS
    Models <- TwoModels
    Providers <- MCProviders
    ProviderOf <- TwoProviderOf
    Rank <- TwoRank
    Configs <- Reloaded
    MaxReloads = 1
    Kinds = {"benchmark", "audit"}
    AuditAvailable = TRUE
    Interval <- UnitInterval
    AgeCap = 1
    TotalAttempts = 1
    TestTicks = 1
    Timely = FALSE
    InternalErrors = FALSE
    Archivable = {}
    MaxLate = 0
INVARIANTS InFlightBounded SchedulerSleeps NoSemaphoreQueue
