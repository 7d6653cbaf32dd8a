SPECIFICATION Spec
CONSTANTS
    p1 = p1  p2 = p2  p3 = p3
    Packet <- MCPackets  NumIds = 2  ReadSize = 2  RingSize = 1
    HandleTx = {TRUE, FALSE}  Keeping = {FALSE}
    Mishaps = {"invalid", "badport", "chain_out", "chain_other"}  MaxStarts = 2
SYMMETRY Alike
INVARIANT PacketsSafe
CHECK_DEADLOCK FALSE
