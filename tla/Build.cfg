SPECIFICATION FairSpec
CONSTANTS
    Templates = {"t", "u"}
    MaxClock = 3
    MaxStarts = 2
INVARIANTS TypeOK RoundIsFresh
PROPERTY Converges
CHECK_DEADLOCK FALSE
