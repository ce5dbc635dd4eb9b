---------------------------- MODULE MCScheduler ----------------------------
(* Small instances of Scheduler for TLC: every combination of the fault     *)
(* policies, with and without a watchdog, is an initial state.              *)
EXTENDS Scheduler

AllPolicies == {"AllOff", "HoldLast", "UserDefined"}
AllOverruns == {"Fault", "Warn", "Ignore"}
=============================================================================
