SPECIFICATION FairSpec
CONSTANTS
    RxSize = 1  MsgSize = 2  DataSize = 1  ReadSize = 2
    Stops = {"signal"}  UserActions = FALSE
PROPERTIES SignalStops
CHECK_DEADLOCK FALSE
