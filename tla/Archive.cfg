\* Automatic archiving, directives and reloads, failures and a restart.
SPECIFICATION FairSpec
CONSTANTS
    Models <- OneModel
    AutoEnabled <- EitherWay
    Threshold = 2
    MaxReloads = 2
    MaxRestarts = 1
    MaxFailures = 2
INVARIANTS MemoryIsDatabase DirectivesHold
PROPERTIES AutoArchivePersists OutageIsArchived
