\* Overlapping flushes, a failed one, other commits, shutdown and a crash.
SPECIFICATION FairSpec
CONSTANTS
    Models <- MCModels
    MaxResults = 4
    MaxBuffer = 3
    Triggered = {"full1"}
    MaxFailures = 1
    OtherWriters = TRUE
    MayStop = TRUE
    MaxCrashes = 1
INVARIANTS NothingLost StoreIsOrdered
PROPERTIES ImplementsLog EventuallyDurable
CHECK_DEADLOCK FALSE
