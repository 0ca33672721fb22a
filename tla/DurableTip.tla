----------------------------- MODULE DurableTip -----------------------------
(***************************************************************************)
(* What the blockchain promises of its tip: the rest of the node only ever *)
(* sees a tip that is already on disk, a stop loses no more than what was  *)
(* not yet shown, and the chain on disk never gets shorter.                *)
(***************************************************************************)
EXTENDS Naturals

CONSTANTS Blocks, Block0, ChainLength, None

VARIABLES
    durable,   \* the block a restart resumes from
    visible    \* the tip the node works with, None while it is stopped

dvars == <<durable, visible>>

Init == durable = None /\ visible = None

Create == durable = None /\ durable' = Block0 /\ visible' = Block0

Persist ==
    /\ visible # None
    /\ durable' \in Blocks
    /\ ChainLength[durable'] > ChainLength[visible]
    /\ ChainLength[durable'] >= ChainLength[durable]
    /\ UNCHANGED visible

Publish == visible # None /\ visible' = durable /\ UNCHANGED durable

Lose == visible' = None /\ UNCHANGED durable

Recover == durable # None /\ visible = None /\ visible' = durable /\ UNCHANGED durable

Next == Create \/ Persist \/ Publish \/ Lose \/ Recover

Spec == Init /\ [][Next]_dvars
=============================================================================
