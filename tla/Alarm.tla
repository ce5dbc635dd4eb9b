-------------------------------- MODULE Alarm --------------------------------
(***************************************************************************)
(* What the software watchdog promises to the loop it watches, without its *)
(* threads, its clock and its timeout: an alarm that is raised only while  *)
(* it is armed, and then stays raised until the loop itself lowers it.     *)
(* Scheduler uses a watchdog through this; Watchdog implements it.         *)
(***************************************************************************)
VARIABLES
  armed,    \* is_running()
  raised    \* has_triggered()

Init == armed = FALSE /\ raised = FALSE

\* start(): lowers the alarm; it is armed unless the thread cannot be spawned.
Arm(spawned) ==
  /\ ~armed
  /\ armed' = spawned
  /\ raised' = FALSE

\* The timeout was seen to pass.
Raise ==
  /\ armed
  /\ ~raised
  /\ raised' = TRUE
  /\ UNCHANGED armed

\* stop(): what was raised before it returns stays raised.
Disarm == armed' = FALSE /\ UNCHANGED raised

\* reset() and full_reset().
Lower == raised' = FALSE /\ UNCHANGED armed

Next ==
  \/ \E spawned \in BOOLEAN : Arm(spawned)
  \/ Raise \/ Disarm \/ Lower

Spec == Init /\ [][Next]_<<armed, raised>>
=============================================================================
