---------------------------- MODULE MCSuperloop -----------------------------
(* The superloop for TLC: two tasks, one of which is to run half as often as *)
(* the other, and two timers, one of which is asked for but not started.     *)
EXTENDS Superloop, TLC

CONSTANTS LED, ADJ, receipt, management

MCList == <<ADJ, LED>>
MCPeriod == (ADJ :> 4) @@ (LED :> 2)
MCIntervals == (receipt :> {0, 2}) @@ (management :> {})
=============================================================================
