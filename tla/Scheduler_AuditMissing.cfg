\* Audits enabled, no suite binary installed: the loop must still reach its wait.
SPECIFICATION Spec
CONSTANTS
    Models <- TwoModels
    Providers <- MCProviders
    ProviderOf <- SplitProviderOf
    Rank <- TwoRank
    Configs <- Steady
    MaxReloads = 0
    Kinds = {"benchmark", "audit"}
    AuditAvailable = FALSE
    Interval <- UnitInterval
    AgeCap = 1
    TotalAttempts = 1
    TestTicks = 1
    Timely = FALSE
    InternalErrors = FALSE
    Archivable = {}
    MaxLate = 0
INVARIANT SchedulerSleeps
