\* Records, retries, flushes, prunes and a crash of one model.
SPECIFICATION Spec
CONSTANTS
    Models <- OneModel
    TotalAttempts = 2
    MaxRecords = 4
    MaxPrunes = 1
    MaxCrashes = 1
    MaxCutoff = 2
INVARIANTS ReplayAgrees DatabaseAgrees
PROPERTIES HealthKeepsOwner PruneKeepsSuccesses
CHECK_DEADLOCK FALSE
