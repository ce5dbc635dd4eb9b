---------------------------- MODULE SafeOutputs ----------------------------
(***************************************************************************)
(* What a PLC promises about its outputs, whoever holds them: while it is  *)
(* live the logic drives them; the step that makes it stop or fault also   *)
(* puts the configured safe value on them, and that value stays until the  *)
(* PLC is brought up again.                                                *)
(***************************************************************************)
CONSTANTS
  Outputs,     \* values of the output words
  Zero,        \* all outputs off
  UserSafe,    \* SafeOutputPolicy::UserDefined { digital, analog }
  Policies     \* the SafeOutputPolicy values considered

VARIABLES
  policy,      \* fault_policy.safe_outputs, fixed at construction
  mode,        \* "live" or "safe"
  out,         \* the outputs
  driven       \* the last outputs the logic produced

SafeValue(p, held) ==
  CASE p = "AllOff" -> Zero
    [] p = "HoldLast" -> held
    [] p = "UserDefined" -> UserSafe

Init ==
  /\ policy \in Policies
  /\ mode = "live"
  /\ out = Zero
  /\ driven = Zero

\* A scan cycle in which the logic produced o.
Drive(o) ==
  /\ mode = "live"
  /\ driven' = o
  /\ out' = o
  /\ UNCHANGED <<policy, mode>>

\* Stop or fault, perhaps at the end of a cycle that has just produced o.
EnterSafe(o) ==
  /\ mode = "live"
  /\ mode' = "safe"
  /\ driven' = o
  /\ out' = SafeValue(policy, o)
  /\ UNCHANGED policy

\* stop() before the PLC ever ran: outputs are parked, it stays startable.
Park ==
  /\ mode = "live"
  /\ out' = SafeValue(policy, driven)
  /\ UNCHANGED <<policy, mode, driven>>

\* Recovery from a fault hands the outputs back to the logic.
Recover ==
  /\ mode = "safe"
  /\ mode' = "live"
  /\ UNCHANGED <<policy, out, driven>>

Next ==
  \/ \E o \in Outputs : Drive(o) \/ EnterSafe(o)
  \/ Park
  \/ Recover

Spec == Init /\ [][Next]_<<policy, mode, out, driven>>
=============================================================================
