--------------------------- MODULE Daemon_proofs ---------------------------
(***************************************************************************)
(* For every limit, grace period and output image.  First the bookkeeping  *)
(* of the loop, whatever the scheduler does: failure counting, the grace   *)
(* period, what is pending and what reaches the device in a failure        *)
(* streak, the cycles run after a shutdown request.  Then the stages of    *)
(* run_daemon; that the daemon implements the scheduler, and what it gets  *)
(* from that; and the types.                                               *)
(***************************************************************************)
EXTENDS Daemon, TLAPS

\* The scheduler once more, with its theorems.
SP == INSTANCE Scheduler_proofs

\* The loop starts with no failure counted and no shutdown requested.
LEMMA InitLoop == Init => LoopIInv
<1> SUFFICES ASSUME Init PROVE LoopIInv
  OBVIOUS
<1>1. CountersType
  <2>1. inStreak \in BOOLEAN /\ shutdownReq \in BOOLEAN
    BY Zenon DEF Init
  <2>2. /\ failures \in 0 .. MaxRun /\ badRun \in 0 .. MaxRun
        /\ okRun \in 0 .. MaxRun /\ graceLeft \in Nat
    BY DaemonAssumption DEF Init
  <2>3. QED
    BY <2>1, <2>2 DEF Init, CountersType
<1>2. StreakPendsZero /\ GraceCounted /\ LateCycleLast
  BY DEF Init, StreakPendsZero, GraceCounted, LateCycleLast
<1>3. FailuresCounted
  BY DEF Init, FailuresCounted
<1>4. QED
  BY <1>1, <1>2, <1>3 DEF LoopIInv

\* fieldbus.init() leaves the bookkeeping alone.
LEMMA ConnectLoop == ASSUME LoopIInv, Connect PROVE LoopIInv'
<1> USE DaemonAssumption DEF LoopIInv, CountersType, Connect, busVars, signalVars
<1>1. CountersType'
  OBVIOUS
<1>2. StreakPendsZero'
  BY DEF StreakPendsZero
<1>3. FailuresCounted'
  BY DEF FailuresCounted
<1>4. GraceCounted'
  BY DEF GraceCounted
<1>5. LateCycleLast'
  BY DEF LateCycleLast
<1>6. QED
  BY <1>1, <1>2, <1>3, <1>4, <1>5

\* So does scheduler.initialize().
LEMMA InitializeLoop == ASSUME LoopIInv, Initialize PROVE LoopIInv'
<1> USE DaemonAssumption DEF LoopIInv, CountersType, Initialize, busVars, signalVars
<1>1. CountersType'
  OBVIOUS
<1>2. StreakPendsZero'
  BY DEF StreakPendsZero
<1>3. FailuresCounted'
  BY DEF FailuresCounted
<1>4. GraceCounted'
  BY DEF GraceCounted
<1>5. LateCycleLast'
  BY DEF LateCycleLast
<1>6. QED
  BY <1>1, <1>2, <1>3, <1>4, <1>5

\* scheduler.start() opens the loop.
LEMMA StartLoop == ASSUME LoopIInv, Start PROVE LoopIInv'
<1> USE DaemonAssumption DEF LoopIInv, CountersType, Start, busVars, signalVars
<1>1. CountersType'
  OBVIOUS
<1>2. StreakPendsZero'
  BY DEF StreakPendsZero
<1>3. FailuresCounted'
  BY DEF FailuresCounted
<1>4. GraceCounted'
  BY DEF GraceCounted
<1>5. LateCycleLast'
  BY DEF LateCycleLast
<1>6. QED
  BY <1>1, <1>2, <1>3, <1>4, <1>5

\* The top of the loop.
LEMMA TopLoop == ASSUME LoopIInv, Top PROVE LoopIInv'
<1> USE DaemonAssumption DEF LoopIInv, CountersType, Top, PendOutputs, TakeReload, LeaveLoop
<1>1. CountersType'
  OBVIOUS
<1>2. StreakPendsZero'
  BY DEF StreakPendsZero
<1>3. FailuresCounted'
  BY DEF FailuresCounted
<1>4. GraceCounted'
  BY DEF GraceCounted
<1>5. LateCycleLast'
  BY DEF LateCycleLast
<1>6. QED
  BY <1>1, <1>2, <1>3, <1>4, <1>5

\* A successful exchange.
LEMMA ExchangeOkLoop == ASSUME LoopIInv, ExchangeOk PROVE LoopIInv'
<1> USE DaemonAssumption DEF LoopIInv, CountersType, ExchangeOk, signalVars
<1>1. limits.grace \in Nat /\ limits.grace < MaxRun
  OBVIOUS
<1>2. /\ GraceAfter \in Nat
      /\ graceLeft = 0 => GraceAfter + 1 >= limits.grace
      /\ graceLeft > 0 => GraceAfter + 1 = graceLeft
  BY <1>1 DEF GraceAfter
<1>3. Bump(okRun) \in 0 .. MaxRun /\ (Bump(okRun) = MaxRun \/ Bump(okRun) = okRun + 1)
  BY DEF Bump
<1>4. CountersType'
  <2>1. inStreak' \in BOOLEAN /\ shutdownReq' \in BOOLEAN
    BY Zenon
  <2>2. failures' \in {failures, 0} /\ graceLeft' \in {graceLeft, GraceAfter, 0}
    OBVIOUS
  <2>3. badRun' = 0 /\ okRun' = Bump(okRun) /\ limits' = limits
    OBVIOUS
  <2>4. QED
    BY <1>2, <1>3, <2>1, <2>2, <2>3
<1>5. StreakPendsZero'
  BY DEF StreakPendsZero
<1>6. FailuresCounted'
  BY DEF FailuresCounted
<1>7. GraceCounted'
  <2>1. CASE inStreak /\ GraceAfter > 0
    BY <1>1, <1>2, <1>3, <2>1 DEF GraceCounted
  <2>2. CASE ~(inStreak /\ GraceAfter > 0)
    BY <2>2 DEF GraceCounted
  <2>3. QED
    BY <2>1, <2>2
<1>8. LateCycleLast'
  BY DEF LateCycleLast
<1>9. QED
  BY <1>4, <1>5, <1>6, <1>7, <1>8

\* The exchange that ends a streak.
LEMMA ResumeLoop == ASSUME LoopIInv, Resume PROVE LoopIInv'
<1> USE DaemonAssumption DEF LoopIInv, CountersType, Resume, signalVars
<1>1. CountersType'
  OBVIOUS
<1>2. StreakPendsZero'
  BY DEF StreakPendsZero
<1>3. FailuresCounted'
  BY DEF FailuresCounted
<1>4. GraceCounted'
  BY DEF GraceCounted
<1>5. LateCycleLast'
  BY DEF LateCycleLast
<1>6. QED
  BY <1>1, <1>2, <1>3, <1>4, <1>5

\* A failed exchange.
LEMMA ExchangeFailsLoop == ASSUME LoopIInv, ExchangeFails PROVE LoopIInv'
<1> USE DaemonAssumption DEF LoopIInv, CountersType, ExchangeFails, Bump, signalVars
<1>1. CountersType'
  OBVIOUS
<1>2. StreakPendsZero'
  BY DEF StreakPendsZero
<1>3. FailuresCounted'
  BY DEF FailuresCounted
<1>4. GraceCounted'
  BY DEF GraceCounted
<1>5. LateCycleLast'
  BY DEF LateCycleLast
<1>6. QED
  BY <1>1, <1>2, <1>3, <1>4, <1>5

\* The zeros are sent and the limit is looked at.
LEMMA SafeExchangeLoop == ASSUME LoopIInv, SafeExchange PROVE LoopIInv'
<1> USE DaemonAssumption DEF LoopIInv, CountersType, SafeExchange, FaultAndLeave, LimitReached
<1>1. CountersType'
  OBVIOUS
<1>2. StreakPendsZero'
  BY DEF StreakPendsZero
<1>3. FailuresCounted'
  BY DEF FailuresCounted
<1>4. GraceCounted'
  BY DEF GraceCounted
<1>5. LateCycleLast'
  BY DEF LateCycleLast
<1>6. QED
  BY <1>1, <1>2, <1>3, <1>4, <1>5

\* The working counter threshold.
LEMMA WkcExceededLoop == ASSUME LoopIInv, WkcExceeded PROVE LoopIInv'
<1> USE DaemonAssumption DEF LoopIInv, CountersType, WkcExceeded, FaultAndLeave
<1>1. CountersType'
  OBVIOUS
<1>2. StreakPendsZero'
  BY DEF StreakPendsZero
<1>3. FailuresCounted'
  BY DEF FailuresCounted
<1>4. GraceCounted'
  BY DEF GraceCounted
<1>5. LateCycleLast'
  BY DEF LateCycleLast
<1>6. QED
  BY <1>1, <1>2, <1>3, <1>4, <1>5

\* run_cycle().
LEMMA CycleLoop == ASSUME LoopIInv, Cycle PROVE LoopIInv'
<1> USE DaemonAssumption DEF LoopIInv, CountersType, Cycle, Bump, busVars
<1>1. CountersType'
  OBVIOUS
<1>2. StreakPendsZero'
  BY DEF StreakPendsZero
<1>3. FailuresCounted'
  BY DEF FailuresCounted
<1>4. GraceCounted'
  BY DEF GraceCounted
<1>5. LateCycleLast'
  BY DEF LateCycleLast
<1>6. QED
  BY <1>1, <1>2, <1>3, <1>4, <1>5

\* scheduler.stop().
LEMMA StopSchedulerLoop == ASSUME LoopIInv, StopScheduler PROVE LoopIInv'
<1> USE DaemonAssumption DEF LoopIInv, CountersType, StopScheduler, busVars, signalVars
<1>1. CountersType'
  OBVIOUS
<1>2. StreakPendsZero'
  BY DEF StreakPendsZero
<1>3. FailuresCounted'
  BY DEF FailuresCounted
<1>4. GraceCounted'
  BY DEF GraceCounted
<1>5. LateCycleLast'
  BY DEF LateCycleLast
<1>6. QED
  BY <1>1, <1>2, <1>3, <1>4, <1>5

\* fieldbus.shutdown().
LEMMA ShutdownLoop == ASSUME LoopIInv, Shutdown PROVE LoopIInv'
<1> USE DaemonAssumption DEF LoopIInv, CountersType, Shutdown, busVars, signalVars
<1>1. CountersType'
  OBVIOUS
<1>2. StreakPendsZero'
  BY DEF StreakPendsZero
<1>3. FailuresCounted'
  BY DEF FailuresCounted
<1>4. GraceCounted'
  BY DEF GraceCounted
<1>5. LateCycleLast'
  BY DEF LateCycleLast
<1>6. QED
  BY <1>1, <1>2, <1>3, <1>4, <1>5

\* The watchdog.
LEMMA WatchdogTriggersLoop == ASSUME LoopIInv, WatchdogTriggers PROVE LoopIInv'
<1> USE DaemonAssumption DEF LoopIInv, CountersType, WatchdogTriggers, busVars, signalVars
<1>1. CountersType'
  OBVIOUS
<1>2. StreakPendsZero'
  BY DEF StreakPendsZero
<1>3. FailuresCounted'
  BY DEF FailuresCounted
<1>4. GraceCounted'
  BY DEF GraceCounted
<1>5. LateCycleLast'
  BY DEF LateCycleLast
<1>6. QED
  BY <1>1, <1>2, <1>3, <1>4, <1>5

\* The server, late.
LEMMA LateWriteLoop == ASSUME LoopIInv, LateWrite PROVE LoopIInv'
<1> USE DaemonAssumption DEF LoopIInv, CountersType, LateWrite, signalVars
<1>1. CountersType'
  OBVIOUS
<1>2. StreakPendsZero'
  BY DEF StreakPendsZero
<1>3. FailuresCounted'
  BY DEF FailuresCounted
<1>4. GraceCounted'
  BY DEF GraceCounted
<1>5. LateCycleLast'
  BY DEF LateCycleLast
<1>6. QED
  BY <1>1, <1>2, <1>3, <1>4, <1>5

\* The poll thread.
LEMMA PollLoop == ASSUME LoopIInv, Poll PROVE LoopIInv'
<1> USE DaemonAssumption DEF LoopIInv, CountersType, Poll, Swap, busVars
<1>1. CountersType'
  OBVIOUS
<1>2. StreakPendsZero'
  BY DEF StreakPendsZero
<1>3. FailuresCounted'
  BY DEF FailuresCounted
<1>4. GraceCounted'
  BY DEF GraceCounted
<1>5. LateCycleLast'
  BY DEF LateCycleLast
<1>6. QED
  BY <1>1, <1>2, <1>3, <1>4, <1>5

\* A signal's handler.
LEMMA SignalLoop == ASSUME LoopIInv, NEW s \in Signals, Signal(s) PROVE LoopIInv'
<1> USE DaemonAssumption DEF LoopIInv, CountersType, Signal, busVars
<1>1. CountersType'
  OBVIOUS
<1>2. StreakPendsZero'
  BY DEF StreakPendsZero
<1>3. FailuresCounted'
  BY DEF FailuresCounted
<1>4. GraceCounted'
  BY DEF GraceCounted
<1>5. LateCycleLast'
  BY DEF LateCycleLast
<1>6. QED
  BY <1>1, <1>2, <1>3, <1>4, <1>5

\* Every step of every thread keeps the invariant.
LEMMA NextLoop == LoopIInv /\ [Next]_vars => LoopIInv'
<1> SUFFICES ASSUME LoopIInv, [Next]_vars PROVE LoopIInv'
  OBVIOUS
<1>1. CASE Running
  BY <1>1, TopLoop, ExchangeOkLoop, ResumeLoop, ExchangeFailsLoop,
     SafeExchangeLoop, WkcExceededLoop, CycleLoop, StopSchedulerLoop,
     ShutdownLoop DEF Running
<1>2. CASE \E s \in Signals : Signal(s)
  BY <1>2, SignalLoop
<1>3. CASE UNCHANGED vars
  BY <1>3 DEF vars, busVars, signalVars, LoopIInv, CountersType,
     StreakPendsZero, FailuresCounted, GraceCounted, LateCycleLast
<1>4. QED
  BY <1>1, <1>2, <1>3, ConnectLoop, InitializeLoop, StartLoop, PollLoop,
     WatchdogTriggersLoop, LateWriteLoop DEF Next

\* The invariant of run_scheduler_loop's counters, flags and pending outputs.
THEOREM Inductive == Spec => []LoopIInv
  BY InitLoop, NextLoop, PTL DEF Spec

\* Zeros are pending in the driver throughout a failure streak.
THEOREM ZerosPend == Spec => []StreakPendsZero
<1>1. LoopIInv => StreakPendsZero
  BY DEF LoopIInv
<1>2. QED
  BY Inductive, <1>1, PTL

\* run_cycle() is not called once max_consecutive_failures is reached.
THEOREM LimitStopsLogic == Spec => []NoCycleAtLimit
<1>1. LoopIInv => NoCycleAtLimit
  BY DaemonAssumption
  DEF LoopIInv, CountersType, FailuresCounted, NoCycleAtLimit
<1>2. QED
  BY Inductive, <1>1, PTL

\* A shutdown request costs at most the cycle already begun.
THEOREM LateCycleBound == Spec => []OneLateCycle
<1>1. LoopIInv => OneLateCycle
  BY DEF LoopIInv, LateCycleLast, OneLateCycle
<1>2. QED
  BY Inductive, <1>1, PTL

\* The bounds on late and forbidden cycles (the two theorems above) hold together.
THEOREM FewCycles == Spec => []CyclesBounded
<1>1. NoCycleAtLimit /\ OneLateCycle => CyclesBounded
  BY DEF CyclesBounded
<1>2. QED
  BY <1>1, LimitStopsLogic, LateCycleBound, PTL

\* recovery_grace_cycles successes in a row end a failure streak, and no fewer.
THEOREM GraceIsServed == Spec => GraceServed
<1>1. LoopIInv /\ [Next]_vars =>
        [inStreak /\ ~inStreak' => okRun' >= limits.grace]_vars
  <2> SUFFICES ASSUME LoopIInv, Next, inStreak, ~inStreak'
              PROVE  okRun' >= limits.grace
    BY DEF vars
  <2>1. ExchangeOk
    BY DEF Next, Running, Connect, Initialize, Start, Top, Resume,
       ExchangeFails, SafeExchange, WkcExceeded, Cycle, StopScheduler, Shutdown,
       Signal, Poll, WatchdogTriggers, LateWrite, busVars
  <2>2. GraceAfter = 0 /\ okRun' = Bump(okRun)
    BY <2>1 DEF ExchangeOk
  <2>3. limits.grace \in Nat /\ limits.grace < MaxRun
    BY DaemonAssumption DEF LoopIInv, CountersType
  <2>4. okRun + 1 >= limits.grace
    BY <2>2, <2>3 DEF GraceAfter, LoopIInv, CountersType, GraceCounted
  <2>5. MaxRun \in Nat /\ okRun \in 0 .. MaxRun
    BY DaemonAssumption DEF LoopIInv, CountersType
  <2>6. QED
    BY <2>2, <2>3, <2>4, <2>5 DEF Bump
<1>2. QED
  BY Inductive, <1>1, PTL DEF Spec, GraceServed

-----------------------------------------------------------------------------
(* The daemon's life: every stage knows the scheduler's state. *)

\* The daemon is built before anything runs.
LEMMA InitLife == Init => LifeIInv
  BY DEF Init, Sched!Init, LifeIInv, StageOf, EndedCleanly, CleanEnd, Loop

\* Start-up walks BOOT, INIT, PRE_OP, RUN or is given up.
LEMMA StartUpLife == ASSUME LifeIInv, Connect \/ Initialize \/ Start PROVE LifeIInv'
<1> USE DEF LifeIInv, StageOf, EndedCleanly, CleanEnd, Loop
<1>1. CASE Connect
  BY <1>1 DEF Connect, schedVars
<1>2. CASE Initialize
  <2>1. CASE Sched!InitializeBegin /\ UNCHANGED <<pc, uiState>>
    BY <1>2, <2>1 DEF Initialize, Sched!InitializeBegin, Sched!Transition
  <2>2. CASE Sched!InitializeEnd /\ pc' = IF st' = "PreOp" THEN "start" ELSE "aborted"
    BY <1>2, <2>2 DEF Initialize, Sched!InitializeEnd, Sched!Transition
  <2>3. QED
    BY <1>2, <2>1, <2>2 DEF Initialize
<1>3. CASE Start
  BY <1>3 DEF Start, Sched!Start
<1>4. QED
  BY <1>1, <1>2, <1>3

\* The exchanges of the loop do not touch the scheduler, unless they fault it.
LEMMA ExchangeLife ==
  ASSUME LifeIInv, Top \/ ExchangeOk \/ Resume \/ ExchangeFails \/ SafeExchange \/ WkcExceeded
  PROVE  LifeIInv'
<1> USE DEF LifeIInv, StageOf, EndedCleanly, CleanEnd, Loop
<1>1. CASE FaultAndLeave /\ pc \in Loop
  BY <1>1
  DEF FaultAndLeave, Sched!ExternalFault, Sched!EnterFault, Sched!FaultState,
      Sched!CanTransition
<1>2. CASE UNCHANGED schedVars /\ pc \in Loop /\ pc' \in Loop \cup {"stop"}
  BY <1>2 DEF schedVars
<1>3. QED
  BY <1>1, <1>2
  DEF Top, ExchangeOk, Resume, ExchangeFails, SafeExchange, WkcExceeded

\* A cycle leaves the scheduler in RUN or FAULT, and a fault ends the loop.
LEMMA CycleLife == ASSUME LifeIInv, Cycle PROVE LifeIInv'
<1>1. st' \in {"Run", "Fault"} /\ call' = "none"
  BY DEF Cycle, Sched!RunCycle, Sched!CycleWatchdogTimeout, Sched!CycleLogicError,
         Sched!CycleCompletes, Sched!EnterFault, Sched!FaultState, Sched!CanTransition
<1>2. pc' = "stop" \/ (pc' = "top" /\ st' = "Run")
  BY DEF Cycle
<1>3. QED
  BY <1>1, <1>2 DEF LifeIInv, StageOf, EndedCleanly, CleanEnd, Loop

\* stop() makes the end a clean one, and shutdown() keeps it.
LEMMA WayOutLife == ASSUME LifeIInv, StopScheduler \/ Shutdown PROVE LifeIInv'
<1> USE DEF LifeIInv, StageOf, EndedCleanly, CleanEnd, Loop, StoppedCleanly, Sched!SafeValue
<1>1. CASE StopScheduler
  BY <1>1 DEF StopScheduler, Sched!Stop, Sched!Wd!Disarm
<1>2. CASE Shutdown
  BY <1>2 DEF Shutdown, schedVars, uiVars
<1>3. QED
  BY <1>1, <1>2

\* The other threads leave the stages alone; without a monitor no trigger.
LEMMA OthersLife ==
  ASSUME LifeIInv, \/ Poll \/ (\E s \in Signals : Signal(s)) \/ WatchdogTriggers
                   \/ LateWrite \/ UNCHANGED vars
  PROVE  LifeIInv'
<1>1. UNCHANGED <<pc, config, st, call, out, lastOut, wdRunning, uiState>>
  BY DEF Poll, Signal, WatchdogTriggers, Sched!WatchdogTriggers, Sched!Wd!Raise, LateWrite, vars,
         schedVars, uiVars
<1>2. QED
  BY <1>1 DEF LifeIInv, StageOf, EndedCleanly, CleanEnd, StoppedCleanly, Sched!SafeValue

\* Every stage of run_daemon finds the scheduler in the state it relies on.
THEOREM StagesHold == Spec => []LifeIInv
<1>1. LifeIInv /\ [Next]_vars => LifeIInv'
  BY StartUpLife, ExchangeLife, CycleLife, WayOutLife, OthersLife DEF Next, Running
<1>2. QED
  BY InitLife, <1>1, PTL DEF Spec

\* A daemon that has shut down left safe outputs in the image, no monitor
\* thread, and the scheduler's final state on the page.
THEOREM EndsClean == Spec => []CleanEnd
<1>1. LifeIInv => CleanEnd
  BY DEF LifeIInv
<1>2. QED
  BY StagesHold, <1>1, PTL
-----------------------------------------------------------------------------
(* The scheduler inside the daemon is the scheduler of Scheduler.tla: what   *)
(* Scheduler_proofs shows of it, called as it may be, holds of the daemon.   *)

\* A step of the daemon is at most one call of the scheduler, or one step of
\* its watchdog's monitor.
LEMMA StepOfScheduler == [Next]_vars => [Sched!Next]_(Sched!schedVars)
<1>1. ASSUME Initialize PROVE Sched!Next
  BY <1>1 DEF Initialize, Sched!Next
<1>2. ASSUME Start PROVE Sched!Next
  BY <1>2 DEF Start, Sched!Next
<1>3. ASSUME SafeExchange \/ WkcExceeded PROVE Sched!Next \/ UNCHANGED schedVars
  BY <1>3 DEF SafeExchange, WkcExceeded, FaultAndLeave, Sched!Next
<1>4. ASSUME Cycle PROVE Sched!Next
  BY <1>4 DEF Cycle, Sched!Next
<1>5. ASSUME StopScheduler PROVE Sched!Next
  BY <1>5 DEF StopScheduler, Sched!Next
<1>6. ASSUME WatchdogTriggers PROVE Sched!Next
  BY <1>6 DEF WatchdogTriggers, Sched!Next
<1>7. ASSUME \/ Connect \/ Top \/ ExchangeOk \/ Resume \/ ExchangeFails \/ Shutdown
             \/ Poll \/ (\E s \in Signals : Signal(s)) \/ LateWrite \/ UNCHANGED vars
      PROVE  UNCHANGED schedVars
  BY <1>7 DEF Connect, Top, ExchangeOk, Resume, ExchangeFails, Shutdown, Poll, Signal, LateWrite,
         vars
<1> QED
  BY <1>1, <1>2, <1>3, <1>4, <1>5, <1>6, <1>7
     DEF Next, Running, schedVars, Sched!schedVars

\* The daemon implements the scheduler: main.rs, interleaved with the signal
\* handlers and the fieldbus, calls it only as scheduler.rs allows.
THEOREM SchedulerImplemented == Spec => Sched!Spec
<1>1. Init => Sched!Init
  BY DEF Init
<1> QED
  BY <1>1, StepOfScheduler, PTL DEF Spec, Sched!Spec

\* The scheduler of the instance with the proofs is the same one.
LEMMA SameInit == Sched!Init => SP!Init
  BY DEF Sched!Init, SP!Init, Sched!NoFault, SP!NoFault

LEMMA SameFault ==
  ASSUME NEW held PROVE Sched!EnterFault(held) <=> SP!EnterFault(held)
  BY DEF Sched!EnterFault, SP!EnterFault, Sched!SafeValue, SP!SafeValue,
         Sched!FaultState, SP!FaultState, Sched!CanTransition, SP!CanTransition

LEMMA SameRecord ==
  ASSUME NEW r, NEW n, NEW why
  PROVE  /\ Sched!RecordFault(r, n, why) = SP!RecordFault(r, n, why)
         /\ Sched!RecordCycle(r, n) = SP!RecordCycle(r, n)
         /\ Sched!NoteFault(n, why) <=> SP!NoteFault(n, why)
  BY DEF Sched!RecordFault, SP!RecordFault, Sched!RecordCycle, SP!RecordCycle,
         Sched!NoteFault, SP!NoteFault, Sched!NoFault, SP!NoFault

LEMMA SameCycle == Sched!RunCycle <=> SP!RunCycle
<1>1. Sched!CycleWatchdogTimeout <=> SP!CycleWatchdogTimeout
  BY SameFault, SameRecord DEF Sched!CycleWatchdogTimeout, SP!CycleWatchdogTimeout
<1>2. Sched!CycleLogicError <=> SP!CycleLogicError
  BY SameFault, SameRecord DEF Sched!CycleLogicError, SP!CycleLogicError
<1>3. ASSUME NEW o \in Outputs, NEW critical \in BOOLEAN
      PROVE  Sched!CycleCompletes(o, critical) <=> SP!CycleCompletes(o, critical)
  <2>1. Sched!NextCycle = SP!NextCycle
    BY DEF Sched!NextCycle, SP!NextCycle
  <2> QED
    BY <2>1, SameFault, SameRecord DEF Sched!CycleCompletes, SP!CycleCompletes
<1> QED
  BY <1>1, <1>2, <1>3 DEF Sched!RunCycle, SP!RunCycle

LEMMA SameStep == [Sched!Next]_(Sched!schedVars) => [SP!Next]_(SP!schedVars)
<1> USE DEF Sched!Transition, SP!Transition, Sched!CanTransition, SP!CanTransition
<1>1. Sched!InitializeBegin => SP!InitializeBegin
  BY DEF Sched!InitializeBegin, SP!InitializeBegin
<1>2. Sched!InitializeEnd => SP!InitializeEnd
  BY DEF Sched!InitializeEnd, SP!InitializeEnd
<1>3. Sched!Start => SP!Start
  BY DEF Sched!Start, SP!Start, Sched!StartWatchdog, SP!StartWatchdog,
         Sched!WatchdogStarted, SP!WatchdogStarted, Sched!Wd!Arm, SP!Wd!Arm
<1>4. Sched!Stop => SP!Stop
  BY DEF Sched!Stop, SP!Stop, Sched!SafeValue, SP!SafeValue, Sched!Wd!Disarm, SP!Wd!Disarm
<1>5. Sched!ExternalFault => SP!ExternalFault
  BY SameFault DEF Sched!ExternalFault, SP!ExternalFault
<1>6. Sched!WatchdogTriggers => SP!WatchdogTriggers
  BY DEF Sched!WatchdogTriggers, SP!WatchdogTriggers, Sched!Wd!Raise, SP!Wd!Raise
<1>7. UNCHANGED Sched!schedVars => UNCHANGED SP!schedVars
  BY DEF Sched!schedVars, SP!schedVars
<1> QED
  BY <1>1, <1>2, <1>3, <1>4, <1>5, <1>6, <1>7, SameCycle DEF Sched!Next, SP!Next

LEMMA ProvedScheduler == Spec => SP!Spec
  BY SchedulerImplemented, SameInit, SameStep, PTL DEF Sched!Spec, SP!Spec

\* In the whole daemon: a scheduler in FAULT or SAFE_STOP has its safe outputs
\* in the image, so PendOutputs hands the driver nothing else.
THEOREM DaemonStopsSafe == Spec => []Sched!SafeWhenStopped
<1>1. SP!Spec => []SP!SafeWhenStopped
  BY SP!StoppedIsSafe, ValuesAssumption
<1>2. SP!SafeWhenStopped => Sched!SafeWhenStopped
  BY DEF SP!SafeWhenStopped, Sched!SafeWhenStopped, SP!SafeValue, Sched!SafeValue
<1> QED
  BY <1>1, <1>2, ProvedScheduler, PTL

\* In the whole daemon: the loop turns only with an engine that is initialised
\* and under a watchdog that is armed; main.rs always configures one.
THEOREM LoopIsGuarded == Spec => [](pc \in Loop => engine = "ready" /\ wdRunning)
<1>1. SP!Spec => []SP!RunIsGuarded
  BY SP!RunningIsGuarded, ValuesAssumption
<1>2. Init => config.watchdog
  BY DEF Init
<1>3. config.watchdog /\ [Sched!Next]_(Sched!schedVars) => (config.watchdog)'
  BY DEF Sched!Next, Sched!InitializeBegin, Sched!InitializeEnd, Sched!Start, Sched!RunCycle,
         Sched!CycleWatchdogTimeout, Sched!CycleLogicError, Sched!CycleCompletes, Sched!Stop,
         Sched!ExternalFault, Sched!WatchdogTriggers, Sched!schedVars
<1>4. SP!RunIsGuarded /\ config.watchdog /\ LifeIInv =>
        (pc \in Loop => engine = "ready" /\ wdRunning)
  BY DEF SP!RunIsGuarded, LifeIInv, StageOf
<1> QED
  BY <1>1, <1>2, <1>3, <1>4, ProvedScheduler, StagesHold, StepOfScheduler, PTL DEF Spec

\* In the whole daemon: the fault the recorder shows is the first one.
THEOREM DaemonKeepsFirstFault == Spec => []Sched!FirstFaultKept
<1>1. SP!Spec => []SP!FirstFaultKept
  BY SP!FirstFaultIsKept, ValuesAssumption
<1>2. SP!FirstFaultKept => Sched!FirstFaultKept
  BY DEF SP!FirstFaultKept, Sched!FirstFaultKept, SP!NoFault, Sched!NoFault
<1> QED
  BY <1>1, <1>2, ProvedScheduler, PTL

\* In the whole daemon: the image outputs keep the promise of SafeOutputs.
THEOREM DaemonKeepsPromise == Spec => Sched!SafeOutputsSpec
<1>1. SP!Spec => SP!SafeOutputsSpec
  BY SP!Refinement, ValuesAssumption
<1> USE DEF SP!Promise!SafeValue, Sched!Promise!SafeValue
<1>2. SP!Promise!Init => Sched!Promise!Init
  BY DEF SP!Promise!Init, Sched!Promise!Init
<1>3. SP!Promise!Next => Sched!Promise!Next
  BY DEF SP!Promise!Next, Sched!Promise!Next, SP!Promise!Drive, Sched!Promise!Drive,
         SP!Promise!EnterSafe, Sched!Promise!EnterSafe, SP!Promise!Park, Sched!Promise!Park,
         SP!Promise!Recover, Sched!Promise!Recover
<1> DEFINE kept == <<config.safe, IF st \in {"Fault", "SafeStop"} THEN "safe" ELSE "live",
                     out, lastOut>>
<1>4. [SP!Promise!Next]_kept => [Sched!Promise!Next]_kept
  BY <1>3
<1> QED
  BY <1>1, <1>2, <1>4, ProvedScheduler, PTL
     DEF SP!SafeOutputsSpec, Sched!SafeOutputsSpec, SP!Promise!Spec, Sched!Promise!Spec

LEMMA SchedulerTyped == Spec => []Sched!TypeOK
<1>1. SP!Spec => []SP!TypeOK
  BY SP!TypeCorrect, ValuesAssumption
<1>2. SP!TypeOK => Sched!TypeOK
  BY DEF SP!TypeOK, Sched!TypeOK, SP!States, Sched!States, SP!Frames, Sched!Frames,
         SP!Reasons, Sched!Reasons, SP!NoFault, Sched!NoFault
<1> QED
  BY <1>1, <1>2, ProvedScheduler, PTL

-----------------------------------------------------------------------------
(* The device and what exchanges leave behind. *)

\* The images keep to the two words.
LEMMA WordsOfImages ==
  Zero \in Outputs /\ \A o \in Outputs : o \in [digital : Digitals, analog : Analogs]
<1>1. ASSUME NEW o \in Outputs PROVE o \in [digital : Digitals, analog : Analogs]
  <2>1. o = [digital |-> o.digital, analog |-> o.analog]
    BY ValuesAssumption
  <2>2. o.digital \in Digitals /\ o.analog \in Analogs
    BY DEF Digitals, Analogs
  <2>3. QED
    BY <2>1, <2>2
<1>2. QED
  BY <1>1, ValuesAssumption

\* What a step does to the device and to what is left for it.
LEMMA DeviceSteps ==
  ASSUME [Next]_vars
  PROVE  \/ devOut' = devOut /\ leftover' = leftover
         \/ Delivered \/ Undelivered
         \/ devOut' \in Landed(devOut, leftover) /\ leftover' = leftover
BY DEF Next, Running, Connect, Initialize, Start, Top, ExchangeOk, Resume, ExchangeFails,
   SafeExchange, WkcExceeded, Cycle, StopScheduler, Shutdown, Signal, Poll, WatchdogTriggers,
   LateWrite, vars, busVars

\* One write left behind changes one word of an image.
LEMMA LandsOneWord ==
  ASSUME NEW d, d = [digital |-> d.digital, analog |-> d.analog], NEW l,
         NEW e \in Landed(d, l), NEW w \in Words
  PROVE  e[w] \in {d[w]} \cup l[w]
<1>1. CASE \E v \in l.digital : e = [d EXCEPT !.digital = v]
  BY <1>1 DEF Words
<1>2. CASE \E v \in l.analog : e = [d EXCEPT !.analog = v]
  BY <1>2 DEF Words
<1>3. QED
  BY <1>1, <1>2 DEF Landed

-----------------------------------------------------------------------------
(* Types of what the daemon adds to the scheduler. *)

\* The bus, the signals and the page.
BusTyped ==
  /\ drvOut \in Outputs
  /\ devOut \in [digital : Digitals, analog : Analogs]
  /\ leftover \in [digital : SUBSET Digitals, analog : SUBSET Analogs]
SignalsTyped ==
  /\ flags \subseteq Signals
  /\ poll \in {"int", "term", "hup", "check", "exited"}
  /\ reloadReq \in BOOLEAN
PageTyped ==
  /\ pc \in Loop \cup Ended \cup {"connect", "initialize", "start", "stop", "shutdown"}
  /\ uiState \in Sched!States \cup {"None"}
  /\ uiFaults \in 0 .. 1
Typed == BusTyped /\ SignalsTyped /\ PageTyped

\* Everything starts within its type.
LEMMA InitTyped == Init => Typed
<1> SUFFICES ASSUME Init PROVE Typed
  OBVIOUS
<1>1. BusTyped
  BY WordsOfImages DEF Init, BusTyped, Nothing
<1>2. PageTyped
  BY DEF Init, PageTyped, Loop, Ended
<1>3. reloadReq \in BOOLEAN
  BY Zenon DEF Init
<1>4. SignalsTyped
  BY <1>3 DEF Init, SignalsTyped, Signals
<1>5. QED
  BY <1>1, <1>2, <1>4 DEF Typed

\* Only images are pending; the device holds, and may be given, only their words.
LEMMA BusStaysTyped == ASSUME Sched!TypeOK, Typed, [Next]_vars PROVE BusTyped'
<1>1. out \in Outputs /\ drvOut \in Outputs
  BY DEF Typed, BusTyped, Sched!TypeOK
<1>2. drvOut' \in {drvOut, out, Zero}
  BY DEF Next, Running, Connect, Initialize, Start, Top, PendOutputs, ExchangeOk,
     Resume, ExchangeFails, SafeExchange, WkcExceeded, Cycle, StopScheduler,
     Shutdown, Signal, Poll, WatchdogTriggers, LateWrite, vars, busVars
<1>3. drvOut' \in Outputs
  BY <1>1, <1>2, ValuesAssumption
<1> DEFINE Images == [digital : Digitals, analog : Analogs]
           Lefts == [digital : SUBSET Digitals, analog : SUBSET Analogs]
<1>4. drvOut \in Images /\ devOut \in Images /\ leftover \in Lefts
  BY <1>1, WordsOfImages DEF Typed, BusTyped
<1>5. devOut' \in Images /\ leftover' \in Lefts
  <2>1. CASE Delivered
    BY <1>4, <2>1 DEF Delivered, Nothing
  <2>2. CASE Undelivered
    BY <1>4, <2>2 DEF Undelivered, LeftBehind
  <2>3. CASE devOut' \in Landed(devOut, leftover) /\ leftover' = leftover
    <3>1. CASE \E v \in leftover.digital : devOut' = [devOut EXCEPT !.digital = v]
      BY <1>4, <2>3, <3>1
    <3>2. CASE \E v \in leftover.analog : devOut' = [devOut EXCEPT !.analog = v]
      BY <1>4, <2>3, <3>2
    <3>3. QED
      BY <2>3, <3>1, <3>2 DEF Landed
  <2>4. QED
    BY <1>4, <2>1, <2>2, <2>3, DeviceSteps
<1>6. QED
  BY <1>3, <1>5 DEF BusTyped

\* The flags and the poll thread.
LEMMA SignalsStayTyped == ASSUME Typed, [Next]_vars PROVE SignalsTyped'
<1>1. CASE UNCHANGED <<flags, poll>> /\ (reloadReq' = reloadReq \/ reloadReq' = FALSE)
  <2>1. reloadReq' \in BOOLEAN
    BY <1>1, Zenon DEF Typed, SignalsTyped
  <2>2. QED
    BY <1>1, <2>1 DEF Typed, SignalsTyped
<1>2. ASSUME NEW s \in Signals, Signal(s) PROVE SignalsTyped'
  BY <1>2 DEF Typed, SignalsTyped, Signal
<1>3. CASE Poll
  <2>1. reloadReq' \in BOOLEAN
    BY <1>3, Zenon DEF Typed, SignalsTyped, Poll
  <2>2. QED
    BY <1>3, <2>1 DEF Typed, SignalsTyped, Poll, Swap
<1>4. QED
  BY <1>1, <1>2, <1>3
  DEF Next, Running, Connect, Initialize, Start, Top, TakeReload, ExchangeOk, Resume,
      ExchangeFails, SafeExchange, WkcExceeded, Cycle, StopScheduler, Shutdown,
      WatchdogTriggers, LateWrite, vars, signalVars

\* The page shows a state of the scheduler, and the thread is somewhere.
LEMMA PageStaysTyped ==
  ASSUME Sched!TypeOK, Sched!TypeOK', Typed, [Next]_vars PROVE PageTyped'
<1>1. st \in Sched!States /\ st' \in Sched!States
  BY DEF Sched!TypeOK
<1>2. /\ uiState' \in {uiState, "Init", "Run", "Fault", st'}
      /\ uiFaults' \in {uiFaults, 1}
  BY DEF Next, Running, Connect, Initialize, Start, Top, ExchangeOk, Resume,
     ExchangeFails, SafeExchange, WkcExceeded, FaultAndLeave, Cycle, StopScheduler,
     Shutdown, Signal, Poll, WatchdogTriggers, LateWrite, vars, uiVars
<1>3. pc' \in Loop \cup Ended \cup {"connect", "initialize", "start", "stop", "shutdown"}
  BY DEF Typed, PageTyped, Loop, Ended, Next, Running, Connect, Initialize, Start, Top,
     ExchangeOk, Resume, ExchangeFails, SafeExchange, WkcExceeded, FaultAndLeave, Cycle,
     StopScheduler, Shutdown, Signal, Poll, WatchdogTriggers, LateWrite, vars
<1>4. QED
  BY <1>1, <1>2, <1>3 DEF Typed, PageTyped, Sched!States

\* Every variable of the daemon keeps its type, the device's outputs and the
\* scheduler's included.
THEOREM TypeCorrect == Spec => []TypeOK
<1>1. Sched!TypeOK /\ Sched!TypeOK' /\ Typed /\ [Next]_vars => Typed'
  BY BusStaysTyped, SignalsStayTyped, PageStaysTyped DEF Typed
<1>2. CountersType /\ LateCycleLast => lateCycles \in 0 .. MaxRun
  BY DaemonAssumption DEF CountersType, LateCycleLast
<1>3. Sched!TypeOK /\ Typed /\ LoopIInv => TypeOK
  BY <1>2 DEF Typed, BusTyped, SignalsTyped, PageTyped, LoopIInv, CountersType, TypeOK
<1>4. QED
  BY InitTyped, <1>1, <1>3, SchedulerTyped, Inductive, PTL DEF Spec

\* During a streak the device's words keep their value, become zero, or take one that
\* an exchange from before the streak has left behind, however exchanges fail and
\* whenever the server carries out what it was asked.
THEOREM NoNewOutputLands == Spec => StreakOnlyClears
<1>1. LoopIInv /\ TypeOK /\ [Next]_vars =>
        [inStreak /\ inStreak' =>
           \A w \in Words : /\ devOut'[w] \in {devOut[w], Zero[w]} \cup leftover[w]
                            /\ leftover'[w] \subseteq leftover[w] \cup {Zero[w]}]_vars
  <2> SUFFICES ASSUME LoopIInv, TypeOK, Next, inStreak, NEW w \in Words
              PROVE  /\ devOut'[w] \in {devOut[w], Zero[w]} \cup leftover[w]
                     /\ leftover'[w] \subseteq leftover[w] \cup {Zero[w]}
    BY DEF vars
  <2>1. drvOut = Zero
    BY DEF LoopIInv, StreakPendsZero
  <2>2. CASE devOut' = devOut /\ leftover' = leftover
    BY <2>2
  <2>3. CASE Delivered
    BY <2>1, <2>3 DEF Delivered, Nothing, Words
  <2>4. CASE Undelivered
    BY <2>1, <2>4 DEF Undelivered, LeftBehind, Words
  <2>5. CASE devOut' \in Landed(devOut, leftover) /\ leftover' = leftover
    <3>1. devOut = [digital |-> devOut.digital, analog |-> devOut.analog]
      BY DEF TypeOK
    <3>2. QED
      BY <2>5, <3>1, LandsOneWord
  <2>6. QED
    BY <2>2, <2>3, <2>4, <2>5, DeviceSteps
<1>2. QED
  BY Inductive, TypeCorrect, <1>1, PTL DEF Spec, StreakOnlyClears
=============================================================================
