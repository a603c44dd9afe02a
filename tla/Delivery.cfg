\* Results, flushes and notices of one model in any order.
SPECIFICATION Spec
CONSTANTS
    Models <- OneModel
    Cooldown = 2
    MetricCooldown = 3
    WorstTier = 2
    DegradedTier = 1
    Failures = TRUE
PROPERTIES ImplementsChannel OfflineAnnounced
CHECK_DEADLOCK FALSE
