\* A prune beside a buffered record.
SPECIFICATION Spec
CONSTANTS
    Models <- OneModel
    TotalAttempts = 1
    MaxRecords = 3
    MaxPrunes = 1
    MaxCrashes = 0
    MaxCutoff = 0
INVARIANT PruneIsSafe
CHECK_DEADLOCK FALSE
