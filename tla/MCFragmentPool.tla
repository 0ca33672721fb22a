--------------------------- MODULE MCFragmentPool ---------------------------
(* Five fragments: one is malformed, one is too large for a block, one has *)
(* no expiry date; two blocks of other nodes.                              *)
EXTENDS FragmentPool, TLC

CONSTANTS b0, b1, b2, f1, f2, f3, f4, f5

MCParent == (b1 :> b0) @@ (b2 :> b1)
MCLength == (b0 :> 0) @@ (b1 :> 1) @@ (b2 :> 2)
MCSize == (f1 :> 1) @@ (f2 :> 2) @@ (f3 :> 1) @@ (f4 :> 3) @@ (f5 :> 1)
MCValidUntil == (f1 :> 1) @@ (f2 :> 2) @@ (f3 :> 2) @@ (f4 :> 3) @@ (f5 :> 2)
MCBlockFragments == (b0 :> <<>>) @@ (b1 :> <<f1, f4>>) @@ (b2 :> <<f2, f3>>)
MCRequests ==
    {[fragments |-> <<f1, f2>>, failFast |-> FALSE],
     [fragments |-> <<f4, f4, f1>>, failFast |-> FALSE],
     [fragments |-> <<f5, f2>>, failFast |-> TRUE],
     [fragments |-> <<f5, f3>>, failFast |-> FALSE]}
=============================================================================
