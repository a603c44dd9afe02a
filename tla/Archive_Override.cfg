\* archived: false while the model is being archived.
SPECIFICATION Spec
CONSTANTS
    Models <- OneModel
    AutoEnabled <- Enabled
    Threshold = 1
    MaxReloads = 1
    MaxRestarts = 0
    MaxFailures = 0
INVARIANT FalseUnarchives
