\* A prune recounts the tests with the retries.
SPECIFICATION Spec
CONSTANTS
    Models <- OneModel
    TotalAttempts = 2
    MaxRecords = 4
    MaxPrunes = 1
    MaxCrashes = 0
    MaxCutoff = 0
INVARIANT PrunedCountersCount
CHECK_DEADLOCK FALSE
