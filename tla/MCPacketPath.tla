---------------------------- MODULE MCPacketPath ----------------------------
(* Small instances of the packet path: all mbufs are alike. *)
EXTENDS PacketPath, TLC

CONSTANTS p1, p2, p3

MCPackets == {p1, p2, p3}
Alike == Permutations(MCPackets)
=============================================================================
