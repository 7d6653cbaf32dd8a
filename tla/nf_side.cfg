SPECIFICATION FairAll
CONSTANTS
    RxSize = 3  MsgSize = 2  DataSize = 2  ReadSize = 2
    Stops = {"signal", "manager", "ttl"}  UserActions = TRUE
    Child = {1, 2}  Stranger = {3}  MaxId = 3  StopIters = 2
    Nf = {1, 2}  Buf = {1, 2}  QueueSize = 1  MaxRequests = 1
    Key = {"k1", "k2"}  HwRss <- HwHash  SoftRss <- SoftHash  Slot = {1, 2}  Addr = {1, 2, 3}
    Destination = 1  Builds <- ChainLists  MaxChain = 3
    Flow = {"f1", "f2", "f3"}  ExpireTime = 2  MaxTime = 4
    Backends = {0, 1, 2}  TableSize = 3  TblSize = 2  PrintDelay = 1  MaxPackets = 3
    Bits = 2  RuleSets <- RuleFiles  MaxRules = 3  ActionWidth = 4
    Programs = {"HHD", "SSD", "SYNFD", "UDPFM", "DNSAM", "NAPT", "SFW", "SLFW"}
    Inside = {1}  Outside = {2}  Threshold = 2  FirstPort = 2  PortWidth = 3  SrcPorts = {1, 3}
    NfdPackets = 5  IdLists <- PortLists  Ips <- Addresses  IpLists <- AddressLists
    Routers <- RouterFiles  EntryNumbers = {4, 6, 9}  HashEntries = 8  LineWidth = 8  FwdPackets = 2
    Rate = 3  Depth = 4  Hz = 2  CycleWidth = 16  PacketSizes = {1, 3, 5}  MaxCycles = 5  MaxSent = 5
    QueueOf <- FlowQueues  NumQueues = 2  FqSize = 2  Batch = 2  TxRing = 3
    Capa = {"tcp"}  Payloads = {0, 26, 221}  Leftover = {0, 257}  Room = 3
    PoolSize = 7  MsgRing = 4  Burst = 2  MaxStrangers = 3  MaxLate = 2
INVARIANTS SleeperSafe OneNotification RequestsAnswered  FlowsFound 
INVARIANTS ArgumentsApply SdnSound  FairlyQueued  
INVARIANTS  TestReports
PROPERTIES EventuallyServed StopsInRound 
CHECK_DEADLOCK FALSE
