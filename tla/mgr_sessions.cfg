SPECIFICATION FairAll
CONSTANTS
    Faults = {"args", "preflight", "attach", "map", "rlimit", "hugepage", "memalign", "umem", "socket", "create_rx", "create_mgr", "create_wake"}
    ModeSwitching = TRUE  MaxSessions = 2
    Ttl = 2  PktLimit = 1  MaxPkts = 2
    LcoreCounts = {2, 3, 4, 5}  Cpus = 2  TotalPorts = 2
    PortMasks = {{}, {0, 2}, {1}}  CoreMasks = {{0, 3}, {1}}
    MAX_NFS = 5  MaxServices = 3  WakeupThreads = 1
    MaxOptions = 2  MaxShutdownIters = 2  MaxLinkChecks = 2
    Queues <- QueueNumbers  MaxEntries = 2  MaxPackets = 1
    Ports = {0}  Nfs = {1}  ServiceOf <- NfServices  MaxCount = 2
INVARIANTS WorkersSafe CleanShutdown ReleasedAsAllocated SetupSound ThreadsCoverNfs 
PROPERTIES BufferKept  FramesComeBack
