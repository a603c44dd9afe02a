\* Two models of two providers, health checks and staggered benchmarks, any timing;
\* tests are retried or end without a record, a model is archived and unarchived.
SPECIFICATION Spec
CONSTANTS
    Models <- TwoModels
    Providers <- MCProviders
    ProviderOf <- SplitProviderOf
    Rank <- TwoRank
    Configs <- Staggered
    MaxReloads = 0
    Kinds = {"health", "benchmark"}
    AuditAvailable = FALSE
    Interval <- UnitInterval
    AgeCap = 1
    TotalAttempts = 2
    TestTicks = 1
    Timely = FALSE
    InternalErrors = TRUE
    Archivable = {"a1"}
    MaxLate = 0
INVARIANTS RunningSetsSound StaggerOneProvider OfflineOnlyHealth
