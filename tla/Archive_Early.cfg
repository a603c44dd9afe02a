\* A long degradation that ends in an outage.
SPECIFICATION Spec
CONSTANTS
    Models <- OneModel
    AutoEnabled <- Enabled
    Threshold = 2
    MaxReloads = 0
    MaxRestarts = 0
    MaxFailures = 0
PROPERTY ArchivedAfterOffline
