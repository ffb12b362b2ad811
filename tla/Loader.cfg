SPECIFICATION FairSpec
CONSTANTS
    width = 10
    MaxEvents = 2
INVARIANTS NeverStalls StartsOnce
PROPERTY LoadingEnds
CHECK_DEADLOCK FALSE
