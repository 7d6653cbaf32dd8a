SPECIFICATION Spec
CONSTANTS
    Faults = {"load"}
    ModeSwitching = FALSE  MaxSessions = 1
    Ttl = 1  PktLimit = 1  MaxPkts = 1
INVARIANTS RunsOnlyInitialised
