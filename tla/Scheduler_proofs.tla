------------------------- MODULE Scheduler_proofs -------------------------
(***************************************************************************)
(* For every set of output values, policy and bound: the scheduler's I/O   *)
(* image keeps the promise of SafeOutputs, a running scheduler is guarded, *)
(* and the first fault frame is kept.                                      *)
(***************************************************************************)
EXTENDS Scheduler, TLAPS

\* The table of state.rs, as the facts the steps need.
LEMMA Table ==
  /\ \A s \in States : CanTransition(s, "Fault") <=> s \in {"Boot", "Init", "PreOp", "Run"}
  /\ \A s \in States : CanTransition(s, "Init") <=> s \in {"Boot", "Fault"}
  /\ CanTransition("Init", "PreOp")
  /\ CanTransition("PreOp", "Run")
  BY DEF CanTransition, States

\* The safe value is an output value whatever the policy.
LEMMA SafeValueType ==
  ASSUME TypeOK, NEW held \in Outputs PROVE SafeValue(held) \in Outputs
  BY OutputsAssumption, PoliciesAssumption DEF TypeOK, SafeValue

\* The scheduler is built in BOOT with everything off.
LEMMA InitIInv == Init => IInv
<1> SUFFICES ASSUME Init PROVE IInv
  OBVIOUS
<1>1. NoFault \in Frames
  BY DEF Frames
<1>2. TypeOK
  BY <1>1, OutputsAssumption DEF Init, TypeOK, States
<1>3. QED
  BY <1>2
  DEF Init, IInv, SafeWhenStopped, RunIsGuarded, FrozenByFirst,
      InitializingInInit, PreOpReady

\* INIT is neither a stopped nor a running state.
LEMMA InitializeBeginIInv == ASSUME IInv, InitializeBegin PROVE IInv'
  BY DEF InitializeBegin, Transition, States,
     IInv, TypeOK, SafeWhenStopped, SafeValue, RunIsGuarded, FrozenByFirst,
     InitializingInInit, PreOpReady

\* PRE_OP is entered with a ready engine only.
LEMMA InitializeEndIInv == ASSUME IInv, InitializeEnd PROVE IInv'
  BY Table DEF InitializeEnd, Transition, States,
     IInv, TypeOK, SafeWhenStopped, SafeValue, RunIsGuarded, FrozenByFirst,
     InitializingInInit, PreOpReady

\* RUN is entered from PRE_OP, after the watchdog was started.
LEMMA StartIInv == ASSUME IInv, Start PROVE IInv'
  BY Table DEF Start, StartWatchdog, Wd!Arm, WatchdogStarted, Transition, States,
     IInv, TypeOK, SafeWhenStopped, SafeValue, RunIsGuarded, FrozenByFirst,
     InitializingInInit, PreOpReady

\* FAULT is entered with the safe value of unchanged last outputs.
LEMMA CycleWatchdogTimeoutIInv == ASSUME IInv, CycleWatchdogTimeout PROVE IInv'
<1> USE DEF IInv
<1> DEFINE frame == [cycle |-> cycles, reason |-> "WatchdogTimeout"]
<1>1. /\ st = "Run" /\ st' = "Fault" /\ engine' = "faulted"
      /\ out' = SafeValue(lastOut)
      /\ UNCHANGED <<config, call, lastOut, cycles, wdRunning, wdTriggered, lives>>
  BY Table DEF CycleWatchdogTimeout, EnterFault, FaultState, States
<1>2. frame \in Frames \ {NoFault}
  BY DEF TypeOK, Frames, Reasons, NoFault
<1>3. /\ rec' = IF rec.frozen THEN rec ELSE [rec EXCEPT !.frozen = TRUE, !.fault = frame]
      /\ faults' = [first |-> IF faults.first = NoFault THEN frame ELSE faults.first,
                    last |-> frame]
  BY DEF CycleWatchdogTimeout, RecordFault, NoteFault
<1>4. TypeOK'
  BY <1>1, <1>2, <1>3, SafeValueType DEF TypeOK, States
<1>5. SafeWhenStopped' /\ RunIsGuarded' /\ InitializingInInit' /\ PreOpReady'
  BY <1>1
  DEF SafeWhenStopped, SafeValue, RunIsGuarded, InitializingInInit, PreOpReady
<1>6. FrozenByFirst'
  BY <1>2, <1>3 DEF TypeOK, FrozenByFirst
<1>7. QED
  BY <1>4, <1>5, <1>6

\* As for the watchdog: a failed step leaves the last outputs as they were.
LEMMA CycleLogicErrorIInv == ASSUME IInv, CycleLogicError PROVE IInv'
<1> USE DEF IInv
<1> DEFINE frame == [cycle |-> cycles, reason |-> "LogicError"]
<1>1. /\ st = "Run" /\ st' = "Fault" /\ engine' = "faulted"
      /\ out' = SafeValue(lastOut)
      /\ UNCHANGED <<config, call, lastOut, cycles, wdRunning, wdTriggered, lives>>
  BY Table DEF CycleLogicError, EnterFault, FaultState, States
<1>2. frame \in Frames \ {NoFault}
  BY DEF TypeOK, Frames, Reasons, NoFault
<1>3. /\ rec' = IF rec.frozen THEN rec ELSE [rec EXCEPT !.frozen = TRUE, !.fault = frame]
      /\ faults' = [first |-> IF faults.first = NoFault THEN frame ELSE faults.first,
                    last |-> frame]
  BY DEF CycleLogicError, RecordFault, NoteFault
<1>4. TypeOK'
  BY <1>1, <1>2, <1>3, SafeValueType DEF TypeOK, States
<1>5. SafeWhenStopped' /\ RunIsGuarded' /\ InitializingInInit' /\ PreOpReady'
  BY <1>1
  DEF SafeWhenStopped, SafeValue, RunIsGuarded, InitializingInInit, PreOpReady
<1>6. FrozenByFirst'
  BY <1>2, <1>3 DEF TypeOK, FrozenByFirst
<1>7. QED
  BY <1>4, <1>5, <1>6

\* A completed cycle stays in RUN or, on a critical overrun, faults.
LEMMA CycleCompletesIInv ==
  ASSUME IInv, NEW o \in Outputs, NEW critical \in BOOLEAN, CycleCompletes(o, critical)
  PROVE  IInv'
<1> USE DEF IInv
<1> DEFINE next == [cycle |-> NextCycle, reason |-> "CycleOverrun"]
           faulty == critical /\ config.overrun = "Fault"
<1>0. NextCycle \in Nat
  BY DEF TypeOK, NextCycle
<1>1. CASE faulty
  <2>1. /\ st = "Run" /\ st' = "Fault" /\ engine' = "faulted"
        /\ out' = SafeValue(o) /\ lastOut' = o /\ cycles' = NextCycle
        /\ UNCHANGED <<config, call, wdRunning, wdTriggered, lives>>
    BY <1>1, Table DEF CycleCompletes, EnterFault, FaultState, States
  <2>2. next \in Frames \ {NoFault}
    BY <1>0 DEF Frames, Reasons, NoFault
  <2>3. /\ rec' = IF rec.frozen THEN rec
                  ELSE [frozen |-> TRUE, fault |-> next, newest |-> NextCycle]
        /\ faults' = [first |-> IF faults.first = NoFault THEN next ELSE faults.first,
                      last |-> next]
    BY <1>1 DEF CycleCompletes, RecordFault, RecordCycle, NoteFault, TypeOK
  <2>4. TypeOK'
    BY <1>0, <2>1, <2>2, <2>3, SafeValueType DEF TypeOK, States
  <2>5. SafeWhenStopped' /\ RunIsGuarded' /\ InitializingInInit' /\ PreOpReady'
    BY <2>1
    DEF SafeWhenStopped, SafeValue, RunIsGuarded, InitializingInInit, PreOpReady
  <2>6. FrozenByFirst'
    BY <2>2, <2>3 DEF TypeOK, FrozenByFirst
  <2>7. QED
    BY <2>4, <2>5, <2>6
<1>2. CASE ~faulty
  <2>1. /\ st = "Run" /\ out' = o /\ lastOut' = o /\ cycles' = NextCycle
        /\ UNCHANGED <<config, st, call, engine, wdRunning, wdTriggered, lives, faults>>
    BY <1>2 DEF CycleCompletes
  <2>2. rec' = IF rec.frozen THEN rec ELSE [rec EXCEPT !.newest = NextCycle]
    BY <1>2 DEF CycleCompletes, RecordCycle
  <2>3. TypeOK'
    BY <1>0, <2>1, <2>2 DEF TypeOK
  <2>4. SafeWhenStopped' /\ RunIsGuarded' /\ InitializingInInit' /\ PreOpReady'
    BY <2>1
    DEF SafeWhenStopped, RunIsGuarded, InitializingInInit, PreOpReady
  <2>5. FrozenByFirst'
    BY <2>1, <2>2 DEF TypeOK, FrozenByFirst
  <2>6. QED
    BY <2>3, <2>4, <2>5
<1>3. QED
  BY <1>1, <1>2

\* stop() writes the safe value in every state.
LEMMA StopIInv == ASSUME IInv, Stop PROVE IInv'
<1> USE DEF IInv
<1>1. TypeOK'
  BY SafeValueType DEF Stop, Wd!Disarm, TypeOK, States
<1>2. SafeWhenStopped'
  BY DEF Stop, SafeWhenStopped, SafeValue
<1>3. RunIsGuarded' /\ InitializingInInit' /\ PreOpReady'
  BY DEF Stop, Wd!Disarm, TypeOK, RunIsGuarded, InitializingInInit, PreOpReady
<1>4. FrozenByFirst'
  BY DEF Stop, FrozenByFirst
<1>5. QED
  BY <1>1, <1>2, <1>3, <1>4

\* An external fault writes the safe value in every state.
LEMMA ExternalFaultIInv == ASSUME IInv, ExternalFault PROVE IInv'
<1> USE DEF IInv
<1>1. TypeOK'
  BY SafeValueType DEF ExternalFault, EnterFault, FaultState, TypeOK, States
<1>2. SafeWhenStopped'
  BY DEF ExternalFault, EnterFault, FaultState, SafeWhenStopped, SafeValue
<1>3. RunIsGuarded' /\ InitializingInInit' /\ PreOpReady'
  BY Table DEF ExternalFault, EnterFault, FaultState, TypeOK, RunIsGuarded, InitializingInInit, PreOpReady
<1>4. FrozenByFirst'
  BY DEF ExternalFault, EnterFault, FaultState, FrozenByFirst
<1>5. QED
  BY <1>1, <1>2, <1>3, <1>4

\* The monitor thread touches its flag only.
LEMMA WatchdogTriggersIInv == ASSUME IInv, WatchdogTriggers PROVE IInv'
  BY DEF WatchdogTriggers, Wd!Raise,
     IInv, TypeOK, SafeWhenStopped, SafeValue, RunIsGuarded, FrozenByFirst,
     InitializingInInit, PreOpReady

\* Every step keeps the inductive invariant.
LEMMA NextIInv == IInv /\ [Next]_schedVars => IInv'
<1> SUFFICES ASSUME IInv, [Next]_schedVars PROVE IInv'
  OBVIOUS
<1>1. CASE RunCycle
  BY <1>1, CycleWatchdogTimeoutIInv, CycleLogicErrorIInv, CycleCompletesIInv DEF RunCycle
<1>2. CASE UNCHANGED schedVars
  BY <1>2
  DEF schedVars, IInv, TypeOK, SafeWhenStopped, SafeValue, RunIsGuarded,
      FrozenByFirst, InitializingInInit, PreOpReady
<1>3. QED
  BY <1>1, <1>2, InitializeBeginIInv, InitializeEndIInv, StartIInv, StopIInv,
     ExternalFaultIInv, WatchdogTriggersIInv
  DEF Next

\* Every reachable state of the scheduler satisfies the inductive invariant.
THEOREM Inductive == Spec => []IInv
  BY InitIInv, NextIInv, PTL DEF Spec

\* The variables of the scheduler keep their types (initialize(), start(),
\* run_cycle(), stop(), enter_fault() and the monitor thread).
THEOREM TypeCorrect == Spec => []TypeOK
<1>1. IInv => TypeOK
  BY DEF IInv
<1>2. QED
  BY <1>1, Inductive, PTL

\* In FAULT and SAFE_STOP the I/O image holds the policy's safe outputs.
THEOREM StoppedIsSafe == Spec => []SafeWhenStopped
<1>1. IInv => SafeWhenStopped
  BY DEF IInv
<1>2. QED
  BY <1>1, Inductive, PTL

\* In RUN the engine is initialised and the configured watchdog runs.
THEOREM RunningIsGuarded == Spec => []RunIsGuarded
<1>1. IInv => RunIsGuarded
  BY DEF IInv
<1>2. QED
  BY <1>1, Inductive, PTL

\* record_fault never replaces the fault frame of the first fault.
THEOREM FirstFaultIsKept == Spec => []FirstFaultKept
<1>1. IInv => FirstFaultKept
  BY DEF IInv, FrozenByFirst, FirstFaultKept
<1>2. QED
  BY <1>1, Inductive, PTL

\* Every call is a step of SafeOutputs: completed cycles drive, faults and a
\* stop of a running PLC enter the safe mode, any other stop parks.
LEMMA StepRefines ==
  ASSUME IInv, IInv', [Next]_schedVars
  PROVE  [Promise!Next]_<<config.safe,
                          IF st \in {"Fault", "SafeStop"} THEN "safe" ELSE "live",
                          out, lastOut>>
<1> DEFINE mode == IF st \in {"Fault", "SafeStop"} THEN "safe" ELSE "live"
           Quiet == UNCHANGED <<config.safe, mode, out, lastOut>>
<1> SUFFICES Promise!Next \/ Quiet
  OBVIOUS
<1> USE DEF IInv, Promise!SafeValue, SafeValue
<1>1. CASE InitializeBegin
  <2>1. CASE st = "Boot"
    BY <1>1, <2>1 DEF InitializeBegin, Transition
  <2>2. CASE st = "Fault"
    BY <1>1, <2>2 DEF InitializeBegin, Transition, Promise!Next, Promise!Recover
  <2>3. QED
    BY <1>1, <2>1, <2>2, Table DEF InitializeBegin, Transition, TypeOK
<1>2. CASE InitializeEnd
  BY <1>2 DEF InitializeEnd, InitializingInInit, Transition
<1>3. CASE Start
  BY <1>3 DEF Start, WatchdogStarted, Transition
<1>4. CASE CycleWatchdogTimeout
  <2>1. Promise!EnterSafe(lastOut)
    BY <1>4, Table DEF CycleWatchdogTimeout, EnterFault, FaultState, States, Promise!EnterSafe
  <2>2. QED
    BY <2>1 DEF TypeOK, Promise!Next
<1>5. CASE CycleLogicError
  <2>1. Promise!EnterSafe(lastOut)
    BY <1>5, Table DEF CycleLogicError, EnterFault, FaultState, States, Promise!EnterSafe
  <2>2. QED
    BY <2>1 DEF TypeOK, Promise!Next
<1>6. ASSUME NEW o \in Outputs, NEW critical \in BOOLEAN, CycleCompletes(o, critical)
      PROVE  Promise!Next
  <2>1. CASE critical /\ config.overrun = "Fault"
    <3>1. Promise!EnterSafe(o)
      BY <1>6, <2>1, Table
      DEF CycleCompletes, EnterFault, FaultState, States, Promise!EnterSafe
    <3>2. QED
      BY <3>1 DEF Promise!Next
  <2>2. CASE ~(critical /\ config.overrun = "Fault")
    <3>1. Promise!Drive(o)
      BY <1>6, <2>2 DEF CycleCompletes, Promise!Drive
    <3>2. QED
      BY <3>1 DEF Promise!Next
  <2>3. QED
    BY <2>1, <2>2
<1>7. CASE Stop \/ ExternalFault
  <2>1. CASE st \in {"Fault", "SafeStop"}
    BY <1>7, <2>1, Table DEF Stop, ExternalFault, EnterFault, FaultState, SafeWhenStopped, States
  <2>2. CASE st \notin {"Fault", "SafeStop"} /\ st' \in {"Fault", "SafeStop"}
    <3>1. Promise!EnterSafe(lastOut)
      BY <1>7, <2>2 DEF Stop, ExternalFault, EnterFault, Promise!EnterSafe
    <3>2. QED
      BY <3>1 DEF TypeOK, Promise!Next
  <2>3. CASE st \notin {"Fault", "SafeStop"} /\ st' \notin {"Fault", "SafeStop"}
    BY <1>7, <2>3 DEF Stop, ExternalFault, EnterFault, Promise!Next, Promise!Park
  <2>4. CASE st \in {"Fault", "SafeStop"} /\ st' \notin {"Fault", "SafeStop"}
    BY <1>7, <2>4, Table DEF Stop, ExternalFault, EnterFault, FaultState, States
  <2>5. QED
    BY <2>1, <2>2, <2>3, <2>4
<1>8. CASE WatchdogTriggers
  BY <1>8 DEF WatchdogTriggers
<1>9. CASE UNCHANGED schedVars
  BY <1>9 DEF schedVars
<1>10. QED
  BY <1>1, <1>2, <1>3, <1>4, <1>5, <1>6, <1>7, <1>8, <1>9 DEF Next, RunCycle

\* The outputs in the I/O image keep the promise of SafeOutputs under every
\* sequence of initialize, start, run_cycle, stop and enter_fault.
THEOREM Refinement == Spec => SafeOutputsSpec
<1>1. Init => Promise!Init
  BY DEF Init, Promise!Init
<1>2. IInv /\ IInv' /\ [Next]_schedVars
        => [Promise!Next]_<<config.safe,
                            IF st \in {"Fault", "SafeStop"} THEN "safe" ELSE "live",
                            out, lastOut>>
  BY StepRefines
<1>3. QED
  BY <1>1, <1>2, Inductive, PTL DEF Spec, SafeOutputsSpec, Promise!Spec
=============================================================================
