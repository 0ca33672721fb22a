------------------------------ MODULE MCMempool ------------------------------
(* A chain c1, c2, c3 of the network.  The node may build o2 on c1, in     *)
(* competition with c2, and o3 on c2, in competition with c3.              *)
EXTENDS Mempool, TLC

CONSTANTS b0, c1, c2, c3, o2, o3, f1, f2

Parents == (c1 :> b0) @@ (c2 :> c1) @@ (c3 :> c2) @@ (o2 :> c1) @@ (o3 :> c2)
Lengths == (b0 :> 0) @@ (c1 :> 1) @@ (c2 :> 2) @@ (c3 :> 3) @@ (o2 :> 2) @@ (o3 :> 3)
Bodies == (b0 :> <<>>) @@ (c1 :> <<f1>>) @@ (c2 :> <<f2>>) @@ (c3 :> <<>>)
MCParent == [b \in Blocks \ {Block0} |-> Parents[b]]
MCLength == [b \in Blocks |-> Lengths[b]]
MCBlockFragments == [b \in Blocks |-> IF b \in OwnBlocks THEN <<>> ELSE Bodies[b]]
MCSize == (f1 :> 1) @@ (f2 :> 1)
MCValidUntil == (f1 :> 3) @@ (f2 :> 2)
MCRequests == {[fragments |-> <<f1>>, failFast |-> FALSE],
               [fragments |-> <<f2, f1>>, failFast |-> FALSE]}
=============================================================================
