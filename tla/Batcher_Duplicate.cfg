\* A flush that fails half way and is repeated.
SPECIFICATION Spec
CONSTANTS
    Models <- MCModels
    MaxResults = 2
    MaxBuffer = 9
    Triggered = {"full1"}
    MaxFailures = 1
    OtherWriters = TRUE
    MayStop = FALSE
    MaxCrashes = 0
INVARIANTS StoredOnce
