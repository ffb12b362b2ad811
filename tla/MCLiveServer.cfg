SPECIFICATION FairSpec
CONSTANTS
    Items = {i1}
    PublishKey <- LineKey
    nl = nl
    Newline = nl
    Keys <- MCKeys
    ClusterID = 4
    Maintenance = FALSE
    Redirects = TRUE
    MaxSignals = 4
    MaxCrashes = 1
INVARIANTS SignalsInOrder AcksBounded
PROPERTIES ModeSettles AckEnds
CHECK_DEADLOCK FALSE
