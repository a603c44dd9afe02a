\* The process is stopped while the loop has a batch in its thread.
SPECIFICATION Spec
CONSTANTS
    Models <- MCModels
    MaxResults = 3
    MaxBuffer = 9
    Triggered = {"full1"}
    MaxFailures = 0
    OtherWriters = FALSE
    MayStop = TRUE
    MaxCrashes = 0
INVARIANTS OrderlyShutdownKeepsAll
