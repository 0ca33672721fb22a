---------------------------- MODULE MCChainSync ----------------------------
(* Two branches from block 0: 1 and 2 at peer a, 11 to 13 at peer b.  Two   *)
(* slots per epoch, so that block 0 is not the last block of its epoch and *)
(* the checkpoints of one branch meet the other in block 0 alone.          *)
EXTENDS ChainSync

MCBlocks == (0 .. 2) \cup (11 .. 13)
MCParent == [b \in MCBlocks \ {0} |-> IF b = 11 THEN 0 ELSE b - 1]
MCChainLength == [b \in MCBlocks |-> b % 10]
MCPeerStore == [p \in Peers |-> IF p = "a" THEN 0 .. 2 ELSE {0} \cup (11 .. 13)]
=============================================================================
