------------------------------- MODULE MCPump --------------------------------
(***************************************************************************)
(* Small instances of the pump for TLC: where an unforeseen exception may  *)
(* strike.  The cfgs fix the numbers: enough calls to queue behind the cap *)
(* and behind the budget, one child, and few enough jobs to meet the limit.*)
(***************************************************************************)
EXTENDS Pump

NoFaults       == {}
FaultsAnywhere == LoopPoints
=============================================================================
