\* Bodies of one and two events of either protocol, cut into chunks anywhere.
SPECIFICATION FairSpec
CONSTANTS
    Bodies <- MCBodies
    TestTypes = {"benchmark", "health"}
    RequestTimeout = 3
    ActivityTimeout = 2
    HeaderTimes = {0, 4}
INVARIANTS ChunkingIsInvisible RecordIsHonest DeadlineHolds
PROPERTIES EveryStreamEnds
