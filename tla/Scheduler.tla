----------------------------- MODULE Scheduler -----------------------------
(***************************************************************************)
(* The cyclic scheduler, plc-runtime/src/scheduler.rs, over the lifecycle  *)
(* of plc-common/src/state.rs.  One action per public operation; run_cycle *)
(* has one per way it can end.  A Scheduler is &mut: its operations never  *)
(* overlap.  Only the watchdog's monitor thread runs beside it, and all it *)
(* does to the scheduler is raise the triggered flag.  Times, metrics and  *)
(* the recorder's ring are other modules' concern; an operation refused    *)
(* with Err changes nothing, so it is no step.                             *)
(***************************************************************************)
EXTENDS Integers

CONSTANTS
  Outputs,        \* values of the output words
  Zero,           \* ProcessData::default()
  UserSafe,       \* the user-defined safe outputs
  Policies,       \* SafeOutputPolicy values to choose from
  Overruns,       \* OverrunPolicy values to choose from
  MaxCycles,      \* bound: cycle_count stays there once it gets there, so that
                  \* a scheduler that never stops is still a finite model
  MaxLives        \* bound: calls of initialize() that are accepted

ASSUME OutputsAssumption == Zero \in Outputs /\ UserSafe \in Outputs
ASSUME PoliciesAssumption == Policies \subseteq {"AllOff", "HoldLast", "UserDefined"}
ASSUME OverrunsAssumption == Overruns \subseteq {"Fault", "Warn", "Ignore"}
ASSUME BoundsAssumption == MaxCycles \in Nat /\ MaxLives \in Nat

VARIABLES
  config,       \* [safe, overrun, watchdog]: fault_policy and set_watchdog
  st,           \* StateMachine.current
  call,         \* "initialize" while engine.init() is running, else "none"
  engine,       \* the LogicEngine: "loaded", "ready", "faulted"
  out,          \* the output half of the I/O image
  lastOut,      \* last_outputs
  cycles,       \* cycle_count
  wdRunning,    \* Watchdog.running
  wdTriggered,  \* WatchdogState.triggered
  rec,          \* FaultRecorder: [frozen, fault frame, newest normal frame]
  lives,        \* history: accepted initialize() calls
  faults        \* history: [first, last] fault raised by run_cycle

schedVars == <<config, st, call, engine, out, lastOut, cycles, wdRunning,
               wdTriggered, rec, lives, faults>>

\* The watchdog, by what it promises.
Wd == INSTANCE Alarm WITH armed <- wdRunning, raised <- wdTriggered

States == {"Boot", "Init", "PreOp", "Run", "Fault", "SafeStop"}
Reasons == {"WatchdogTimeout", "LogicError", "CycleOverrun"}
NoFault == [cycle |-> 0, reason |-> "None"]
Frames == [cycle : Nat, reason : Reasons] \cup {NoFault}

TypeOK ==
  /\ config \in [safe : Policies, overrun : Overruns, watchdog : BOOLEAN]
  /\ st \in States
  /\ call \in {"none", "initialize"}
  /\ engine \in {"loaded", "ready", "faulted"}
  /\ out \in Outputs
  /\ lastOut \in Outputs
  /\ cycles \in Nat
  /\ wdRunning \in BOOLEAN
  /\ wdTriggered \in BOOLEAN
  /\ rec \in [frozen : BOOLEAN, fault : Frames, newest : Nat]
  /\ lives \in Nat
  /\ faults \in [first : Frames, last : Frames]

-----------------------------------------------------------------------------
(* plc-common state.rs *)

CanTransition(from, to) ==
  <<from, to>> \in
    { <<"Boot", "Init">>, <<"Init", "PreOp">>, <<"PreOp", "Run">>,
      <<"Boot", "Fault">>, <<"Init", "Fault">>, <<"PreOp", "Fault">>,
      <<"Run", "Fault">>, <<"Fault", "SafeStop">>, <<"Run", "SafeStop">>,
      <<"Fault", "Init">>, <<"SafeStop", "Boot">>, <<"PreOp", "SafeStop">> }

\* transition(target)?: the caller returns early when it is not allowed.
Transition(to) == CanTransition(st, to) /\ st' = to

\* StateMachine::enter_fault: to FAULT where the table allows it, else nothing.
FaultState == IF CanTransition(st, "Fault") THEN "Fault" ELSE st

-----------------------------------------------------------------------------
(* Pieces of the scheduler's operations *)

\* Mutant: HoldLast switches off.
SafeValueForgetful(held) == IF config.safe = "UserDefined" THEN UserSafe ELSE Zero

SafeValue(held) ==
  CASE config.safe = "AllOff" -> Zero
    [] config.safe = "HoldLast" -> held
    [] config.safe = "UserDefined" -> UserSafe

\* Mutant: the outputs are left as they are.
EnterFaultStateOnly(held) ==
  /\ st' = FaultState
  /\ engine' = "faulted"
  /\ UNCHANGED out

\* Scheduler::enter_fault when the last logic outputs are held: the state, the
\* safe outputs into the image, engine.fault() whose error is only logged.
EnterFault(held) ==
  /\ st' = FaultState
  /\ out' = SafeValue(held)
  /\ engine' = "faulted"

\* Mutant: a frozen recorder is overwritten.
RecordFaultAlways(r, n, why) ==
  [r EXCEPT !.frozen = TRUE, !.fault = [cycle |-> n, reason |-> why]]

\* Mutant: the frame of the cycle before.
RecordFaultBefore(r, n, why) ==
  IF r.frozen THEN r
  ELSE [r EXCEPT !.frozen = TRUE, !.fault = [cycle |-> n - 1, reason |-> why]]

\* FaultRecorder::record_fault, a no-op on a frozen recorder.
RecordFault(r, n, why) ==
  IF r.frozen THEN r
  ELSE [r EXCEPT !.frozen = TRUE, !.fault = [cycle |-> n, reason |-> why]]

\* FaultRecorder::record_cycle, which returns None on a frozen recorder.
RecordCycle(r, n) == IF r.frozen THEN r ELSE [r EXCEPT !.newest = n]

\* cycle_count += 1, up to the bound.
NextCycle == IF cycles < MaxCycles THEN cycles + 1 ELSE cycles

\* History of the faults run_cycle raised (not state of the code).
NoteFault(n, why) ==
  LET f == [cycle |-> n, reason |-> why]
  IN  faults' = [first |-> IF faults.first = NoFault THEN f ELSE faults.first,
                 last |-> f]

Init ==
  /\ config \in [safe : Policies, overrun : Overruns, watchdog : BOOLEAN]
  /\ st = "Boot"
  /\ call = "none"
  /\ engine = "loaded"
  /\ out = Zero
  /\ lastOut = Zero
  /\ cycles = 0
  /\ wdRunning = FALSE
  /\ wdTriggered = FALSE
  /\ rec = [frozen |-> FALSE, fault |-> NoFault, newest |-> 0]
  /\ lives = 0
  /\ faults = [first |-> NoFault, last |-> NoFault]

-----------------------------------------------------------------------------
(* Operations *)

\* initialize(), up to the call of engine.init().
InitializeBegin ==
  /\ call = "none"
  /\ lives < MaxLives
  /\ Transition("Init")
  /\ call' = "initialize"
  /\ lives' = lives + 1
  /\ UNCHANGED <<config, engine, out, lastOut, cycles, wdRunning, wdTriggered,
                 rec, faults>>

\* engine.init() returned: an error leaves the scheduler in INIT.
InitializeEnd ==
  /\ call = "initialize"
  /\ call' = "none"
  /\ \/ Transition("PreOp") /\ engine' = "ready"
     \/ UNCHANGED <<st, engine>>
  /\ UNCHANGED <<config, out, lastOut, cycles, wdRunning, wdTriggered, rec,
                 lives, faults>>

\* Watchdog::start: refused while running, otherwise clears the trigger; a
\* failed spawn takes running back.
StartWatchdog(spawned) ==
  IF wdRunning THEN UNCHANGED <<wdRunning, wdTriggered>> ELSE Wd!Arm(spawned)

\* Mutant: the error of Watchdog::start is dropped.
WatchdogTried(spawned) == TRUE

\* Watchdog::start returns Ok.
WatchdogStarted(spawned) == ~wdRunning /\ spawned

\* start(): the watchdog first, and only then PRE_OP -> RUN.
Start ==
  /\ call = "none"
  /\ st = "PreOp"
  /\ IF config.watchdog
     THEN \E spawned \in BOOLEAN :
            /\ StartWatchdog(spawned)
            /\ IF WatchdogStarted(spawned) THEN Transition("Run") ELSE st' = st
     ELSE /\ Transition("Run")
          /\ UNCHANGED <<wdRunning, wdTriggered>>
  /\ UNCHANGED <<config, call, engine, out, lastOut, cycles, rec, lives, faults>>

\* run_cycle ends before the kick: the watchdog has triggered.
CycleWatchdogTimeout ==
  /\ call = "none"
  /\ st = "Run"
  /\ wdTriggered
  /\ rec' = RecordFault(rec, cycles, "WatchdogTimeout")
  /\ NoteFault(cycles, "WatchdogTimeout")
  /\ EnterFault(lastOut)
  /\ UNCHANGED <<config, call, lastOut, cycles, wdRunning, wdTriggered, lives>>

\* run_cycle ends in engine.step(): trap, fuel, epoch deadline, bad memory.
CycleLogicError ==
  /\ call = "none"
  /\ st = "Run"
  /\ ~wdTriggered
  /\ rec' = RecordFault(rec, cycles, "LogicError")
  /\ NoteFault(cycles, "LogicError")
  /\ EnterFault(lastOut)
  /\ UNCHANGED <<config, call, lastOut, cycles, wdRunning, wdTriggered, lives>>

\* The logic produced o.  A cycle longer than cycle_period + max_overrun is
\* critical; only then does the overrun policy decide.
CycleCompletes(o, critical) ==
  /\ call = "none"
  /\ st = "Run"
  /\ ~wdTriggered
  /\ cycles' = NextCycle
  /\ lastOut' = o
  /\ IF critical /\ config.overrun = "Fault"
     THEN /\ EnterFault(o)
          /\ rec' = RecordFault(RecordCycle(rec, NextCycle), NextCycle, "CycleOverrun")
          /\ NoteFault(NextCycle, "CycleOverrun")
     ELSE /\ out' = o
          /\ rec' = RecordCycle(rec, NextCycle)
          /\ UNCHANGED <<st, engine, faults>>
  /\ UNCHANGED <<config, call, wdRunning, wdTriggered, lives>>

RunCycle ==
  \/ CycleWatchdogTimeout
  \/ CycleLogicError
  \/ \E o \in Outputs, critical \in BOOLEAN : CycleCompletes(o, critical)

\* stop(): joins the monitor thread, RUN -> SAFE_STOP, safe outputs in any state.
Stop ==
  /\ call = "none"
  /\ Wd!Disarm
  /\ st' = IF st = "Run" THEN "SafeStop" ELSE st
  /\ out' = SafeValue(lastOut)
  /\ UNCHANGED <<config, call, engine, lastOut, cycles, rec, lives, faults>>

\* enter_fault(reason) by an external component; it records no frame.
ExternalFault ==
  /\ call = "none"
  /\ EnterFault(lastOut)
  /\ UNCHANGED <<config, call, lastOut, cycles, wdRunning, wdTriggered, rec, lives, faults>>

\* The monitor thread finds the last kick too old.
WatchdogTriggers ==
  /\ Wd!Raise
  /\ UNCHANGED <<config, st, call, engine, out, lastOut, cycles, rec, lives, faults>>

Next ==
  \/ InitializeBegin \/ InitializeEnd \/ Start
  \/ RunCycle \/ Stop \/ ExternalFault
  \/ WatchdogTriggers

Spec == Init /\ [][Next]_schedVars

-----------------------------------------------------------------------------
(* Properties *)

\* Whatever sequence of calls led there, a scheduler that is in FAULT or
\* SAFE_STOP has the policy's safe outputs in its I/O image.
SafeWhenStopped == st \in {"Fault", "SafeStop"} => out = SafeValue(lastOut)

\* A running scheduler has an engine whose init() succeeded and whose fault()
\* was not called since, and the configured watchdog is watching it.
RunIsGuarded ==
  st = "Run" => engine = "ready" /\ (config.watchdog => wdRunning)

\* The fault frame of the first fault stays available: neither later cycles
\* nor later faults, after a recovery, replace it.
FirstFaultKept == faults.first # NoFault => rec.fault = faults.first

\* The image outputs of the scheduler behave as SafeOutputs promises.
Promise == INSTANCE SafeOutputs WITH
  policy <- config.safe,
  mode <- IF st \in {"Fault", "SafeStop"} THEN "safe" ELSE "live",
  driven <- lastOut
SafeOutputsSpec == Promise!Spec

-----------------------------------------------------------------------------
(* The inductive invariant. *)

\* The recorder holds a fault exactly when it is frozen, and then the first.
FrozenByFirst ==
  /\ rec.fault = faults.first
  /\ rec.frozen <=> faults.first # NoFault

\* initialize() is between its two transitions only in INIT.
InitializingInInit == call = "initialize" => st = "Init"

\* PRE_OP is reached only through a successful engine.init().
PreOpReady == st = "PreOp" => engine = "ready"

IInv ==
  /\ TypeOK
  /\ SafeWhenStopped
  /\ RunIsGuarded
  /\ FrozenByFirst
  /\ InitializingInInit
  /\ PreOpReady
=============================================================================
