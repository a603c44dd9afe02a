\* One provider without spare capacity, timely event loop: nothing starves.
SPECIFICATION FairSpec
CONSTANTS
    Models <- TwoModels
    Providers <- MCProviders
    ProviderOf <- TwoProviderOf
    Rank <- TwoRank
    Configs <- Steady
    MaxReloads = 0
    Kinds = {"health", "benchmark"}
    AuditAvailable = FALSE
    Interval <- MCInterval
    AgeCap = 8
    TotalAttempts = 1
    TestTicks = 1
    Timely = TRUE
    InternalErrors = FALSE
    Archivable = {}
    MaxLate = 2
PROPERTIES DueIsServed
