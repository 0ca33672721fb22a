---------------------------- MODULE MCLeadership ----------------------------
(* Slots of two ticks, epochs of three slots.  The node starts on block0,  *)
(* or on a tip that its clock puts in the next epoch.                      *)
EXTENDS Leadership

MCStartTips == {[length |-> 0, date |-> 0], [length |-> 0, date |-> 3]}
=============================================================================
