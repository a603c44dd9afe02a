\* Two clients for one or two places, and a notification that they may mute.
SPECIFICATION FairSpec
CONSTANTS
    Clients = {c1, c2}
    Broadcasts = {b1}
    Filtered = {b1}
    Limits = {1, 2}
    MaxReloads = 1
INVARIANTS ConnectionsBounded NothingLeftBehind NobodyMissesSilently
PROPERTIES StallsAlone
CHECK_DEADLOCK FALSE
