------------------------------ MODULE MCPeerMap ------------------------------
(* Two peers for a map of one entry (PeerMap.cfg), so that each of them    *)
(* pushes the other out, or of two (PeerMapLimit.cfg), and two connection  *)
(* tasks, which may be for the same peer.                                  *)
EXTENDS PeerMap
=============================================================================
