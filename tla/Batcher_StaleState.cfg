\* A failed flush is put back behind newer results.
SPECIFICATION Spec
CONSTANTS
    Models <- MCModels
    MaxResults = 3
    MaxBuffer = 9
    Triggered = {"full1"}
    MaxFailures = 1
    OtherWriters = FALSE
    MayStop = FALSE
    MaxCrashes = 0
INVARIANTS LatestStateStored
CHECK_DEADLOCK FALSE
