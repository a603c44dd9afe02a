\* A recovery soon after a degradation.
SPECIFICATION Spec
CONSTANTS
    Models <- OneModel
    Cooldown = 1
    MetricCooldown = 1
    WorstTier = 1
    DegradedTier = 1
    Failures = FALSE
PROPERTY RecoveryAnnounced
CHECK_DEADLOCK FALSE
