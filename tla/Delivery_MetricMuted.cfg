\* A metric that recovers while the status changes.
SPECIFICATION Spec
CONSTANTS
    Models <- OneModel
    Cooldown = 1
    MetricCooldown = 1
    WorstTier = 1
    DegradedTier = 1
    Failures = FALSE
PROPERTY MetricRecoveryFires
CHECK_DEADLOCK FALSE
