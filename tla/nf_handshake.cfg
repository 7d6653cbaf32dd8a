SPECIFICATION FairSpec
CONSTANTS
    p1 = p1  p2 = p2  p3 = p3
    Proc = {p1, p2, p3}
    MaxNfs = 4  MaxServices = 2  MaxPerService = 3
    NumCores = 2  Enabled = {0, 1}  PoolSize = 4
    Options <- MCShared2
    Signals = FALSE  Reassign = TRUE
INVARIANTS NoOrphans CoreTotalExact
PROPERTY HandshakesEnd
