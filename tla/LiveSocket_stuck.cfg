SPECIFICATION FairSpec
CONSTANTS
    MaxMsgs = 2
    Windows = {2}
    Control = Control
    TooBig = TooBig
PROPERTY HandlerReturns
CHECK_DEADLOCK FALSE
