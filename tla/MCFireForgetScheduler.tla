----------------------- MODULE MCFireForgetScheduler -----------------------
(* Two tasks for three slots, at most two of them for one task: both       *)
(* limits are met.                                                         *)
EXTENDS FireForgetScheduler
=============================================================================
