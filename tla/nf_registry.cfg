SPECIFICATION Spec
CONSTANTS
    p1 = p1  p2 = p2  p3 = p3
    Proc = {p1, p2, p3}
    MaxNfs = 4  MaxServices = 2  MaxPerService = 2
    NumCores = 3  Enabled = {0, 1}  PoolSize = 4
    Options <- MCMixed
    Signals = TRUE  Reassign = FALSE
INVARIANTS RegistryExact CoresExact
SYMMETRY Symmetry
