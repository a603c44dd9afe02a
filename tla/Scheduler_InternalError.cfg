\* As Scheduler_Timed, but attempts may end in an internal error.
SPECIFICATION FairSpec
CONSTANTS
    Models <- TwoModels
    Providers <- MCProviders
    ProviderOf <- TwoProviderOf
    Rank <- TwoRank
    Configs <- Steady
    MaxReloads = 0
    Kinds = {"health", "benchmark"}
    AuditAvailable = FALSE
    Interval <- MCInterval
    AgeCap = 8
    TotalAttempts = 1
    TestTicks = 1
    Timely = TRUE
    InternalErrors = TRUE
    Archivable = {}
    MaxLate = 2
PROPERTIES DueIsServed
