SPECIFICATION FairSpec
CONSTANTS
    MaxMsgs = 4
    Windows = {1, 3}
    Control = Control
    TooBig = TooBig
INVARIANTS NeverSelfBlocked InFlight
PROPERTIES Echoes LockstepReturns ReaderEnds
CHECK_DEADLOCK FALSE
