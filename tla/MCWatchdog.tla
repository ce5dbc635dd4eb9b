----------------------------- MODULE MCWatchdog -----------------------------
(* Small instances of Watchdog for TLC: the constants are numbers, which the *)
(* configurations give directly.  Timeout 8 makes the check interval 2.      *)
EXTENDS Watchdog
=============================================================================
