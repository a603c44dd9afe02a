\* Four results of one model over a few intervals, with reloads and restarts.
SPECIFICATION HistorySpec
CONSTANTS
    Thresholds <- MCThresholds
    Weights <- MCWeights
    TrendLimits <- MCTrendLimits
    MinPoints = 2
    MinScorePoints = 2
    RecentPoints = 1
    MinSamples = 3
    StallVisible = 10
    StallHiccup = 8
    HiccupMultiplier = 3
    HealthTokens = 10
    TargetTokens = 50
    ThinkingBudget = 20
    Samples <- MCSamples
    Failures <- MCFailures
    Windows = {1, 2}
    UptimeWindow = 1
    HealthInterval = 1
    BenchmarkInterval = 1
    MaxRtts = 2
    ChartBuckets = 3
    MaxNow = 2
    MaxRows = 4
INVARIANTS MemoryAgrees GradesAgree MeasurementsAgree ChartsAgree
CHECK_DEADLOCK FALSE
