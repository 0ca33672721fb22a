---------------------------- MODULE MCBlockchain ----------------------------
(* A small tree for TLC: two branches from block0, a header x2 whose chain *)
(* length does not follow from its parent, and a block y3 whose contents   *)
(* are not valid.                                                          *)
EXTENDS Blockchain, TLC

CONSTANTS b0, a1, a2, c1, x2, y3

MCBlocks == {b0, a1, a2, c1, x2, y3}
SmallBlocks == {b0, a1, a2, c1}
Parents == (a1 :> b0) @@ (a2 :> a1) @@ (c1 :> b0) @@ (x2 :> a1) @@ (y3 :> a2)
Lengths == (b0 :> 0) @@ (a1 :> 1) @@ (a2 :> 2) @@ (c1 :> 1) @@ (x2 :> 4) @@ (y3 :> 3)
MCParent == [b \in Blocks \ {Block0} |-> Parents[b]]
MCLength == [b \in Blocks |-> Lengths[b]]
Symmetry == Permutations(Tasks)
=============================================================================
