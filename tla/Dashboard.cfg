\* Two models and two requests of any kind among two changes.
SPECIFICATION Spec
CONSTANTS
    Models = {m1, m2}
    Registry = registry
    Titles = titles
    Requests = {r1, r2}
    None = none
    MaxChanges = 2
SYMMETRY Symmetric
INVARIANTS CleanIsCurrent AnswersAreFresh LockMovesOn
PROPERTIES MetricsMoveForward
CHECK_DEADLOCK FALSE
