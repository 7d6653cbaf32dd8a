SPECIFICATION Spec
CONSTANTS
    p1 = p1  p2 = p2  p3 = p3
    Proc = {p1, p2, p3}
    MaxNfs = 3  MaxServices = 2  MaxPerService = 3
    NumCores = 1  Enabled = {0}  PoolSize = 4
    Options <- MCShared
    Signals = FALSE  Reassign = FALSE
INVARIANTS NoRingClash
