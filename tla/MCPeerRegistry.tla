--------------------------- MODULE MCPeerRegistry ---------------------------
(* Instances of PeerRegistry for TLC: devices are model values.            *)
EXTENDS PeerRegistry, TLC

DeviceSymmetry == Permutations(Serials)
=============================================================================
