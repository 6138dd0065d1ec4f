---------------------------- MODULE MCBroadcastPlan ----------------------------
(* Two changes of the slots, which can be refreshed at once.               *)
EXTENDS BroadcastPlan
===============================================================================
