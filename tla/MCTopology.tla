----------------------------- MODULE MCTopology -----------------------------
(* Two peers and pools of one entry, so that every pool overflows; two     *)
(* attempts at a time, so that a peer is reported while it is quarantined. *)
EXTENDS Topology

MCWhitelist == {}
=============================================================================
