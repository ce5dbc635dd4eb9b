------------------------------- MODULE Daemon -------------------------------
(***************************************************************************)
(* plc-daemon: the main loop of main.rs around the scheduler, a fieldbus   *)
(* driver and its device, the signal handlers with their poll thread       *)
(* (signals.rs), and the state the web UI shows.  The main thread is the   *)
(* program counter pc; the poll thread, the signals and the watchdog's     *)
(* monitor thread interleave with it.  cycles_run is the scheduler's own   *)
(* cycle count: both are incremented by the same successful cycles.        *)
(***************************************************************************)
EXTENDS Integers, Landing

CONSTANTS
  Outputs, Zero, UserSafe,   \* output images: records [digital, analog]
  Policies, Overruns,        \* see Scheduler
  MaxCycles, MaxLives,       \* bounds, see Scheduler
  FailureLimits,             \* max_consecutive_failures to choose from
  Graces,                    \* recovery_grace_cycles to choose from
  CycleLimits,               \* --max-cycles to choose from; 0 is unlimited
  MaxRun                     \* bound: the failure counter and the histories
                             \* of it saturate here

ASSUME ValuesAssumption ==
  /\ Zero \in Outputs /\ UserSafe \in Outputs
  /\ \A o \in Outputs : o = [digital |-> o.digital, analog |-> o.analog]
  /\ Policies \subseteq {"AllOff", "HoldLast", "UserDefined"}
  /\ Overruns \subseteq {"Fault", "Warn", "Ignore"}
  /\ MaxCycles \in Nat /\ MaxLives \in Nat

ASSUME DaemonAssumption ==
  /\ FailureLimits \cup Graces \cup CycleLimits \subseteq Nat
  /\ MaxRun \in Nat /\ \A n \in FailureLimits \cup Graces : n < MaxRun

VARIABLES config, st, call, engine, out, lastOut, cycles, wdRunning,
          wdTriggered, rec, lives, faults   \* the scheduler's

VARIABLES
  limits,       \* [failures, grace, cycles]: FieldbusFailurePolicy, --max-cycles
  pc,           \* where the main thread is
  drvOut,       \* the driver's pending outputs (set_outputs)
  devOut,       \* the outputs the device holds
  leftover,     \* what exchanges that failed since the last good one may still
                \* have written to the device
  failures,     \* consecutive_fb_failures
  inStreak,     \* in_failure_streak
  graceLeft,    \* recovery_cycles_remaining
  flags,        \* the static flags set by the signal handlers
  poll,         \* program counter of the poll thread
  shutdownReq,  \* SignalState.shutdown_requested
  reloadReq,    \* SignalState.reload_requested
  uiState,      \* RuntimeState last given to the web UI
  uiFaults,     \* faults recorded in the web UI
  okRun,        \* history: exchanges of the loop that succeeded in a row
  badRun,       \* history: exchanges of the loop that failed in a row
  lateCycles    \* history: cycles run since shutdown was requested

Sched == INSTANCE Scheduler

schedVars == <<config, st, call, engine, out, lastOut, cycles, wdRunning,
               wdTriggered, rec, lives, faults>>

busVars == <<drvOut, devOut, leftover, failures, inStreak, graceLeft, okRun, badRun>>
signalVars == <<flags, poll, shutdownReq, reloadReq, lateCycles>>
uiVars == <<uiState, uiFaults>>
vars == <<schedVars, limits, pc, busVars, signalVars, uiVars>>

Signals == {"INT", "TERM", "HUP"}
Loop == {"top", "exchange", "safe", "resume", "cycle"}
Ended == {"done", "aborted"}
Words == {"digital", "analog"}
Digitals == {o.digital : o \in Outputs}
Analogs == {o.analog : o \in Outputs}

\* Mutant: no saturation.
BumpUnbounded(n) == n + 1
Bump(n) == IF n < MaxRun THEN n + 1 ELSE n

TypeOK ==
  /\ Sched!TypeOK
  /\ limits \in [failures : FailureLimits, grace : Graces, cycles : CycleLimits]
  /\ pc \in Loop \cup Ended \cup {"connect", "initialize", "start", "stop", "shutdown"}
  /\ drvOut \in Outputs
  /\ devOut \in [digital : Digitals, analog : Analogs]
  /\ leftover \in [digital : SUBSET Digitals, analog : SUBSET Analogs]
  /\ failures \in 0 .. MaxRun
  /\ inStreak \in BOOLEAN
  /\ graceLeft \in Nat
  /\ flags \subseteq Signals
  /\ poll \in {"int", "term", "hup", "check", "exited"}
  /\ shutdownReq \in BOOLEAN /\ reloadReq \in BOOLEAN
  /\ uiState \in Sched!States \cup {"None"}
  /\ uiFaults \in 0 .. 1
  /\ okRun \in 0 .. MaxRun /\ badRun \in 0 .. MaxRun /\ lateCycles \in 0 .. MaxRun

Init ==
  /\ Sched!Init
  /\ config.watchdog
  /\ limits \in [failures : FailureLimits, grace : Graces, cycles : CycleLimits]
  /\ pc = "connect"
  /\ drvOut = Zero /\ devOut = Zero /\ leftover = Nothing
  /\ failures = 0 /\ inStreak = FALSE /\ graceLeft = 0
  /\ flags = {} /\ poll = "int" /\ shutdownReq = FALSE /\ reloadReq = FALSE
  /\ uiState = "None" /\ uiFaults = 0
  /\ okRun = 0 /\ badRun = 0 /\ lateCycles = 0

-----------------------------------------------------------------------------
(* Start-up: an error returns from run_daemon without stop() or shutdown(). *)

\* fieldbus.init().
Connect ==
  /\ pc = "connect"
  /\ pc' \in {"initialize", "aborted"}
  /\ UNCHANGED <<schedVars, limits, busVars, signalVars, uiVars>>

\* scheduler.initialize(), in its two halves; success is shown to the web UI.
Initialize ==
  /\ pc = "initialize"
  /\ \/ Sched!InitializeBegin /\ UNCHANGED <<pc, uiState>>
     \/ /\ Sched!InitializeEnd
        /\ pc' = IF st' = "PreOp" THEN "start" ELSE "aborted"
        /\ uiState' = IF st' = "PreOp" THEN "Init" ELSE uiState
  /\ UNCHANGED <<limits, busVars, signalVars, uiFaults>>

\* scheduler.start().
Start ==
  /\ pc = "start"
  /\ Sched!Start
  /\ pc' = IF st' = "Run" THEN "top" ELSE "aborted"
  /\ uiState' = IF st' = "Run" THEN "Run" ELSE uiState
  /\ UNCHANGED <<limits, busVars, signalVars, uiFaults>>

-----------------------------------------------------------------------------
(* The loop *)

\* Mutant: the loop does not look at the shutdown request.
LeaveOnFault == st # "Run"

\* The while condition and the check of the shutdown request.
LeaveLoop == st # "Run" \/ shutdownReq

\* Mutant: requests wait until the fieldbus has recovered.
TakeReloadWhenHealthy == reloadReq' = (reloadReq /\ inStreak)

\* take_reload_request().  What reload_module() then does to the engine stays
\* inside the engine.
TakeReload == reloadReq' = FALSE

\* Mutant: not skipped.
PendAlways == drvOut' = out

\* set_outputs() from the image, skipped during a failure streak.
PendOutputs == drvOut' = IF inStreak THEN drvOut ELSE out

Top ==
  /\ pc = "top"
  /\ IF LeaveLoop
     THEN pc' = "stop" /\ UNCHANGED <<drvOut, reloadReq>>
     ELSE pc' = "exchange" /\ TakeReload /\ PendOutputs
  /\ UNCHANGED <<schedVars, limits, devOut, leftover, failures, inStreak, graceLeft,
                 flags, poll, shutdownReq, lateCycles, uiVars, okRun, badRun>>

\* The exchange returned Ok: the device holds what was pending, and the server
\* has nothing left to write.
Delivered ==
  /\ devOut' = drvOut
  /\ leftover' = Nothing

\* It returned an error: what was pending is with the device, or will be, or not.
Undelivered ==
  /\ UNCHANGED devOut
  /\ leftover' = LeftBehind(leftover, drvOut)

\* Mutant: one success too few.
GraceTooShort ==
  LET left == IF graceLeft = 0 THEN limits.grace ELSE graceLeft
  IN  IF left > 1 THEN left - 2 ELSE 0

\* recovery_cycles_remaining after a success during a streak.
GraceAfter ==
  LET left == IF graceLeft = 0 THEN limits.grace ELSE graceLeft
  IN  IF left > 0 THEN left - 1 ELSE 0

\* The exchange succeeded.  In a failure streak the grace period counts down;
\* at its end the logic outputs are pending again and resume is next.
ExchangeOk ==
  /\ pc = "exchange"
  /\ Delivered
  /\ okRun' = Bump(okRun) /\ badRun' = 0
  /\ \/ /\ ~inStreak
        /\ pc' = "cycle"
        /\ UNCHANGED <<drvOut, failures, inStreak, graceLeft>>
     \/ /\ inStreak /\ GraceAfter > 0
        /\ graceLeft' = GraceAfter
        /\ pc' = "cycle"
        /\ UNCHANGED <<drvOut, failures, inStreak>>
     \/ /\ inStreak /\ GraceAfter = 0
        /\ graceLeft' = 0
        /\ inStreak' = FALSE
        /\ failures' = 0
        /\ drvOut' = out
        /\ pc' = "resume"
  /\ UNCHANGED <<schedVars, limits, signalVars, uiVars>>

\* The extra exchange at the end of a streak; its result is ignored.
Resume ==
  /\ pc = "resume"
  /\ Delivered \/ Undelivered
  /\ pc' = "cycle"
  /\ UNCHANGED <<schedVars, limits, drvOut, failures, inStreak, graceLeft,
                 okRun, badRun, signalVars, uiVars>>

\* Any other error: count it, start or prolong the streak, zeros are pending.
ExchangeFails ==
  /\ pc = "exchange"
  /\ Undelivered
  /\ failures' = Bump(failures)
  /\ inStreak' = TRUE
  /\ graceLeft' = 0
  /\ drvOut' = Zero
  /\ okRun' = 0 /\ badRun' = Bump(badRun)
  /\ pc' = "safe"
  /\ UNCHANGED <<schedVars, limits, signalVars, uiVars>>

\* enter_fault() after the web UI was told, then the loop is left.
FaultAndLeave ==
  /\ uiState' = "Fault" /\ uiFaults' = 1
  /\ Sched!ExternalFault
  /\ shutdownReq' = TRUE
  /\ pc' = "stop"

\* Mutant: one failure too many.
LimitPassed == limits.failures > 0 /\ failures > limits.failures
LimitReached == limits.failures > 0 /\ failures >= limits.failures

\* The exchange that sends the zeros, its result ignored; then the limit.
SafeExchange ==
  /\ pc = "safe"
  /\ Delivered \/ Undelivered
  /\ IF LimitReached
     THEN FaultAndLeave
     ELSE pc' = "cycle" /\ UNCHANGED <<schedVars, shutdownReq, uiVars>>
  /\ UNCHANGED <<limits, drvOut, failures, inStreak, graceLeft, okRun, badRun,
                 flags, poll, reloadReq, lateCycles>>

\* PlcError::WkcThresholdExceeded faults at once.
WkcExceeded ==
  /\ pc = "exchange"
  /\ Undelivered
  /\ FaultAndLeave
  /\ UNCHANGED <<limits, drvOut, failures, inStreak, graceLeft, okRun, badRun,
                 flags, poll, reloadReq, lateCycles>>

\* run_cycle() on whatever inputs the driver has, then the cycle limit.
Cycle ==
  /\ pc = "cycle"
  /\ Sched!RunCycle
  /\ LET last == st' # "Run" \/ (limits.cycles > 0 /\ cycles' >= limits.cycles)
     IN  /\ pc' = IF last THEN "stop" ELSE "top"
         /\ shutdownReq' = (shutdownReq \/ last)
  /\ lateCycles' = IF shutdownReq THEN Bump(lateCycles) ELSE lateCycles
  /\ UNCHANGED <<limits, busVars, flags, poll, reloadReq, uiVars>>

-----------------------------------------------------------------------------
(* The way out *)

\* Mutant: the web UI is told before stop() decides the final state.
StopAfterUi ==
  /\ pc = "stop"
  /\ Sched!Stop
  /\ uiState' = st
  /\ pc' = "shutdown"
  /\ UNCHANGED <<limits, busVars, signalVars, uiFaults>>

\* scheduler.stop(), then the web UI is given the final state.
StopScheduler ==
  /\ pc = "stop"
  /\ Sched!Stop
  /\ uiState' = st'
  /\ pc' = "shutdown"
  /\ UNCHANGED <<limits, busVars, signalVars, uiFaults>>

\* fieldbus.shutdown(): closes the connection and writes nothing.
Shutdown ==
  /\ pc = "shutdown"
  /\ pc' = "done"
  /\ UNCHANGED <<schedVars, limits, busVars, signalVars, uiVars>>

-----------------------------------------------------------------------------
(* The other threads, while the process lives *)

\* A signal's handler sets its static flag.
Signal(s) ==
  /\ pc \notin Ended
  /\ flags' = flags \cup {s}
  /\ UNCHANGED <<schedVars, limits, pc, busVars, poll, shutdownReq,
                 reloadReq, lateCycles, uiVars>>

\* The poll thread swaps one flag with false and forwards what it found.
Swap(at, s, next) ==
  /\ poll = at
  /\ flags' = flags \ {s}
  /\ poll' = next

Poll ==
  /\ pc \notin Ended
  /\ \/ /\ Swap("int", "INT", "term") \/ Swap("term", "TERM", "hup")
        /\ shutdownReq' = (shutdownReq \/ flags' # flags)
        /\ UNCHANGED reloadReq
     \/ /\ Swap("hup", "HUP", "check")
        /\ reloadReq' = (reloadReq \/ flags' # flags)
        /\ UNCHANGED shutdownReq
     \/ /\ poll = "check"
        /\ poll' = IF shutdownReq THEN "exited" ELSE "int"
        /\ UNCHANGED <<flags, shutdownReq, reloadReq>>
  /\ UNCHANGED <<schedVars, limits, pc, busVars, lateCycles, uiVars>>

\* A server that is still connected carries out a write of an exchange that
\* failed: at once, in the middle of a later exchange, or a cycle later.
LateWrite ==
  /\ pc \notin Ended
  /\ devOut' \in Landed(devOut, leftover)
  /\ UNCHANGED <<schedVars, limits, pc, drvOut, leftover, failures, inStreak, graceLeft,
                 okRun, badRun, signalVars, uiVars>>

\* The watchdog's monitor thread.
WatchdogTriggers ==
  /\ pc \notin Ended
  /\ Sched!WatchdogTriggers
  /\ UNCHANGED <<limits, pc, busVars, signalVars, uiVars>>

Running ==
  \/ Top \/ ExchangeOk \/ Resume \/ ExchangeFails \/ SafeExchange \/ WkcExceeded
  \/ Cycle \/ StopScheduler \/ Shutdown

Next ==
  \/ Connect \/ Initialize \/ Start \/ Running
  \/ Poll
  \/ \E s \in Signals : Signal(s)
  \/ WatchdogTriggers
  \/ LateWrite

Spec == Init /\ [][Next]_vars

(* The loop's calls return: sockets have timeouts and the epoch ticker     *)
(* bounds engine.step().  The poll thread is scheduled.  engine.init() is  *)
(* bounded by its fuel alone, which may be off (the ticker is started      *)
(* after it), so start-up is not fair.                                     *)
FairSpec == Spec /\ WF_vars(Running) /\ WF_vars(Poll)

-----------------------------------------------------------------------------
(* Properties *)

\* From the step that starts a failure streak to the one that ends it, zeros
\* are pending in the driver, whatever the logic computes meanwhile.
StreakPendsZero == inStreak => drvOut = Zero

\* No output that the logic computes during a failure streak reaches the device:
\* in a step of the streak each word of the device keeps its value, becomes zero,
\* or takes a value left behind by an exchange from before it, and nothing but
\* zeros is left behind from then on.
StreakOnlyClears ==
  [][inStreak /\ inStreak' =>
       \A w \in Words : /\ devOut'[w] \in {devOut[w], Zero[w]} \cup leftover[w]
                        /\ leftover'[w] \subseteq leftover[w] \cup {Zero[w]}]_vars

\* A streak ends only after as many successes in a row as the grace period
\* asks for: a failure in the middle starts the count afresh.
GraceServed == [][inStreak /\ ~inStreak' => okRun' >= limits.grace]_vars

\* With a limit of N, the logic never runs after N failed exchanges in a row.
NoCycleAtLimit ==
  pc = "cycle" /\ limits.failures > 0 => badRun < limits.failures

\* Once shutdown is requested, by a signal or by the loop itself, at most the
\* cycle already begun is completed.
OneLateCycle == lateCycles <= 1

\* The two bounds on cycles that should not run.
CyclesBounded == NoCycleAtLimit /\ OneLateCycle

\* When the daemon has gone through its shutdown, the scheduler is in FAULT or
\* SAFE_STOP with safe outputs in its image, no monitor thread is left, and
\* the web UI shows that very state.
StoppedCleanly ==
  /\ st \in {"Fault", "SafeStop"}
  /\ out = Sched!SafeValue(lastOut)
  /\ ~wdRunning
  /\ uiState = st
CleanEnd == pc = "done" => StoppedCleanly

\* A running daemon that is sent SIGTERM, or whose watchdog triggers, ends.
StopsWhenTold ==
  pc \in Loop /\ ("TERM" \in flags \/ wdTriggered) ~> pc = "done"

\* A reload the poll thread forwarded is taken by the loop, unless the daemon
\* is on its way out: a fieldbus that keeps failing does not put it off.
ReloadTaken ==
  pc \in Loop /\ reloadReq ~> ~reloadReq \/ pc \in {"stop", "shutdown", "done"}

\* What signals.rs and the watchdog ask of the loop, it does.
RequestsAreHeard == StopsWhenTold /\ ReloadTaken

-----------------------------------------------------------------------------
(* The inductive invariants: the types, the daemon's way through its life, *)
(* and the loop's own bookkeeping, which needs nothing of the other two.   *)

\* The scheduler's part in each stage of run_daemon: the main thread is its
\* only caller, so its state follows from where that thread is.
StageOf ==
  /\ pc # "initialize" => call = "none"
  /\ pc = "connect" => st = "Boot"
  /\ pc = "initialize" => <<call, st>> \in {<<"none", "Boot">>, <<"initialize", "Init">>}
  /\ pc = "start" => st = "PreOp"
  /\ pc \in Loop => st = "Run"
  /\ pc = "stop" => st \in {"Run", "Fault"}

\* What stop() established is not undone on the way to the end.
EndedCleanly == pc = "shutdown" => StoppedCleanly

LifeIInv == StageOf /\ EndedCleanly /\ CleanEnd

CountersType ==
  /\ limits \in [failures : FailureLimits, grace : Graces, cycles : CycleLimits]
  /\ failures \in 0 .. MaxRun /\ badRun \in 0 .. MaxRun
  /\ okRun \in 0 .. MaxRun /\ graceLeft \in Nat
  /\ inStreak \in BOOLEAN /\ shutdownReq \in BOOLEAN

\* The counter covers every failure in a row; it is below the limit except
\* between the failure that reaches it and the loop's end.
FailuresCounted ==
  /\ badRun <= failures
  /\ limits.failures > 0 /\ pc \notin {"safe", "stop", "shutdown", "done"} =>
       failures < limits.failures

\* What is left of the grace period and the successes so far make up the whole.
GraceCounted == inStreak /\ graceLeft > 0 => okRun + graceLeft >= limits.grace

\* A cycle that ran late leads to the top of the loop or out of it.
LateCycleLast ==
  /\ lateCycles \in {0, 1}
  /\ lateCycles = 1 => shutdownReq /\ pc \in {"top", "stop", "shutdown", "done"}

LoopIInv ==
  /\ CountersType
  /\ StreakPendsZero
  /\ FailuresCounted
  /\ GraceCounted
  /\ LateCycleLast
=============================================================================
