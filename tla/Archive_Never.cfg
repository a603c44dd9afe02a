\* An unarchived model goes offline again.
SPECIFICATION FairSpec
CONSTANTS
    Models <- OneModel
    AutoEnabled <- Enabled
    Threshold = 1
    MaxReloads = 2
    MaxRestarts = 0
    MaxFailures = 0
PROPERTY OfflineIsArchived
