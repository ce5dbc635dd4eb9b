-------------------------- MODULE Watchdog_proofs --------------------------
(***************************************************************************)
(* The watchdog's safety properties hold for every timeout, every floor of *)
(* the check interval and every bound, by the invariant IInv.              *)
(***************************************************************************)
EXTENDS Watchdog, TLAPS

\* The check interval is positive and the cap of the ages is above the largest
\* age that a property speaks of.
LEMMA Times ==
  /\ Interval \in Nat /\ Interval > 0
  /\ AgeCap \in Nat /\ AgeCap = Timeout + Interval + 1
<1>1. Timeout \div 4 \in Nat
  BY WatchdogAssumption
<1>2. QED
  BY <1>1, WatchdogAssumption DEF Interval, AgeCap

\* A new watchdog has no monitor and has never been kicked late.
LEMMA InitIInv == Init => IInv
<1> SUFFICES ASSUME Init PROVE IInv
  OBVIOUS
<1>1. TypeOK
  <2>1. /\ prompt \in BOOLEAN /\ running \in BOOLEAN /\ stopReq \in BOOLEAN
        /\ triggered \in BOOLEAN /\ late \in BOOLEAN
    BY WatchdogAssumption, Zenon DEF Init
  <2>2. /\ {kickAge, sampleAge, lastAge} \subseteq 0 .. AgeCap
        /\ sleepLeft \in 0 .. Interval
        /\ starts \in 0 .. MaxStarts /\ resets \in 0 .. MaxResets
        /\ callbacks \in Nat
    BY Times, WatchdogAssumption DEF Init
  <2>3. QED
    BY <2>1, <2>2 DEF Init, TypeOK
<1>2. MonitorLife /\ CallbacksDue
  BY DEF Init, MonitorLife, CallbacksDue, Alive
<1>3. PromptAge /\ LateKnown
  BY WatchdogAssumption DEF Init, PromptAge, LateKnown, Alive, Resetting
<1>4. QED
  BY <1>1, <1>2, <1>3 DEF IInv

\* Start() clears the flags, and only then is a monitor alive.
LEMMA StartIInv == ASSUME IInv, Start PROVE IInv'
<1> USE Times, WatchdogAssumption DEF IInv, Start, ClearStopRequest
<1>1. TypeOK'
  <2>1. prompt' \in BOOLEAN /\ running' \in BOOLEAN /\ stopReq' \in BOOLEAN
         /\ triggered' \in BOOLEAN /\ late' \in BOOLEAN
    BY Zenon DEF TypeOK
  <2>2. QED
    BY <2>1 DEF TypeOK
<1>2. MonitorLife'
  BY DEF TypeOK, MonitorLife, Alive
<1>3. CallbacksDue'
  BY DEF TypeOK, MonitorLife, CallbacksDue, Alive
<1>4. PromptAge'
  BY DEF TypeOK, MonitorLife, PromptAge, Alive, Resetting
<1>5. LateKnown'
  BY DEF TypeOK, MonitorLife, LateKnown, Alive, Resetting
<1>6. QED
  BY <1>1, <1>2, <1>3, <1>4, <1>5

\* Kick() reads the clock.
LEMMA KickSampleIInv == ASSUME IInv, KickSample PROVE IInv'
<1> USE Times, WatchdogAssumption DEF IInv, KickSample
<1>1. TypeOK'
  BY DEF TypeOK
<1>2. MonitorLife'
  BY DEF TypeOK, MonitorLife, Alive
<1>3. CallbacksDue'
  BY DEF TypeOK, MonitorLife, CallbacksDue, Alive
<1>4. PromptAge'
  BY DEF TypeOK, MonitorLife, PromptAge, Alive, Resetting
<1>5. LateKnown'
  BY DEF TypeOK, MonitorLife, LateKnown, Alive, Resetting
<1>6. QED
  BY <1>1, <1>2, <1>3, <1>4, <1>5

\* Kick() stores what it read.
LEMMA KickStoreIInv == ASSUME IInv, KickStore PROVE IInv'
<1> USE Times, WatchdogAssumption DEF IInv, KickStore
<1>1. TypeOK'
  BY DEF TypeOK
<1>2. MonitorLife'
  BY DEF TypeOK, MonitorLife, Alive
<1>3. CallbacksDue'
  BY DEF TypeOK, MonitorLife, CallbacksDue, Alive
<1>4. PromptAge'
  BY DEF TypeOK, MonitorLife, PromptAge, Alive, Resetting
<1>5. LateKnown'
  <2>1. CASE sampleAge > Timeout
    <3>1. late'
      BY <2>1
    <3>2. QED
      BY <3>1 DEF TypeOK, MonitorLife, LateKnown, Alive, Resetting
  <2>2. CASE ~(sampleAge > Timeout)
    <3>1. ~(kickAge' > Timeout)
      BY <2>2
    <3>2. owner = "kicking" => late' = late
      BY <2>2, Zenon DEF TypeOK
    <3>3. Resetting => resets # 0
      BY DEF TypeOK, LateKnown
    <3>4. QED
      BY <3>1, <3>2, <3>3, Zenon DEF TypeOK, LateKnown, Resetting
  <2>3. QED
    BY <2>1, <2>2
<1>6. QED
  BY <1>1, <1>2, <1>3, <1>4, <1>5

\* Reset() lowers the flag.
LEMMA ResetClearIInv == ASSUME IInv, ResetClear PROVE IInv'
<1> USE Times, WatchdogAssumption DEF IInv, ResetClear
<1>1. TypeOK'
  <2>1. prompt' \in BOOLEAN /\ running' \in BOOLEAN /\ stopReq' \in BOOLEAN
         /\ triggered' \in BOOLEAN /\ late' \in BOOLEAN
    BY Zenon DEF TypeOK
  <2>2. QED
    BY <2>1 DEF TypeOK
<1>2. MonitorLife'
  BY DEF TypeOK, MonitorLife, Alive
<1>3. CallbacksDue'
  BY DEF TypeOK, MonitorLife, CallbacksDue, Alive
<1>4. PromptAge'
  BY DEF TypeOK, MonitorLife, PromptAge, Alive, Resetting
<1>5. LateKnown'
  BY DEF TypeOK, MonitorLife, LateKnown, Alive, Resetting
<1>6. QED
  BY <1>1, <1>2, <1>3, <1>4, <1>5

\* Full_reset() of a stopped watchdog.
LEMMA FullResetIInv == ASSUME IInv, FullReset PROVE IInv'
<1> USE Times, WatchdogAssumption DEF IInv, FullReset
<1>1. TypeOK'
  <2>1. prompt' \in BOOLEAN /\ running' \in BOOLEAN /\ stopReq' \in BOOLEAN
         /\ triggered' \in BOOLEAN /\ late' \in BOOLEAN
    BY Zenon DEF TypeOK
  <2>2. QED
    BY <2>1 DEF TypeOK
<1>2. MonitorLife'
  BY DEF TypeOK, MonitorLife, Alive
<1>3. CallbacksDue'
  BY DEF TypeOK, MonitorLife, CallbacksDue, Alive
<1>4. PromptAge'
  BY DEF TypeOK, MonitorLife, PromptAge, Alive, Resetting
<1>5. LateKnown'
  BY DEF TypeOK, MonitorLife, LateKnown, Alive, Resetting
<1>6. QED
  BY <1>1, <1>2, <1>3, <1>4, <1>5

\* Stop() asks the monitor to end.
LEMMA StopRequestIInv == ASSUME IInv, StopRequest PROVE IInv'
<1> USE Times, WatchdogAssumption DEF IInv, StopRequest
<1>1. TypeOK'
  BY DEF TypeOK
<1>2. MonitorLife'
  BY DEF TypeOK, MonitorLife, Alive
<1>3. CallbacksDue'
  BY DEF TypeOK, MonitorLife, CallbacksDue, Alive
<1>4. PromptAge'
  BY DEF TypeOK, MonitorLife, PromptAge, Alive, Resetting
<1>5. LateKnown'
  BY DEF TypeOK, MonitorLife, LateKnown, Alive, Resetting
<1>6. QED
  BY <1>1, <1>2, <1>3, <1>4, <1>5

\* Stop() returns.
LEMMA StopJoinedIInv == ASSUME IInv, StopJoined PROVE IInv'
<1> USE Times, WatchdogAssumption DEF IInv, StopJoined
<1>1. TypeOK'
  BY DEF TypeOK
<1>2. MonitorLife'
  BY DEF TypeOK, MonitorLife, Alive
<1>3. CallbacksDue'
  BY DEF TypeOK, MonitorLife, CallbacksDue, Alive
<1>4. PromptAge'
  BY DEF TypeOK, MonitorLife, PromptAge, Alive, Resetting
<1>5. LateKnown'
  BY DEF TypeOK, MonitorLife, LateKnown, Alive, Resetting
<1>6. QED
  BY <1>1, <1>2, <1>3, <1>4, <1>5

\* The monitor goes to sleep or ends.
LEMMA LoopOrExitIInv == ASSUME IInv, LoopOrExit PROVE IInv'
<1> USE Times, WatchdogAssumption DEF IInv, LoopOrExit, Exit
<1>1. TypeOK'
  <2>1. CASE stopReq
    BY <2>1 DEF TypeOK
  <2>2. CASE ~stopReq
    BY <2>2 DEF TypeOK
  <2>3. QED
    BY <2>1, <2>2
<1>2. MonitorLife'
  BY DEF TypeOK, MonitorLife, Alive
<1>3. CallbacksDue'
  <2>1. CASE stopReq
    BY <2>1 DEF TypeOK, MonitorLife, CallbacksDue, Alive
  <2>2. CASE ~stopReq
    BY <2>2 DEF TypeOK, MonitorLife, CallbacksDue, Alive
  <2>3. QED
    BY <2>1, <2>2
<1>4. PromptAge'
  <2>1. CASE stopReq
    BY <2>1 DEF TypeOK, MonitorLife, PromptAge, Alive, Resetting
  <2>2. CASE ~stopReq
    BY <2>2 DEF TypeOK, MonitorLife, PromptAge, Alive, Resetting
  <2>3. QED
    BY <2>1, <2>2
<1>5. LateKnown'
  BY DEF TypeOK, MonitorLife, LateKnown, Alive, Resetting
<1>6. QED
  BY <1>1, <1>2, <1>3, <1>4, <1>5

\* The monitor wakes up or ends.
LEMMA WakeIInv == ASSUME IInv, Wake PROVE IInv'
<1> USE Times, WatchdogAssumption DEF IInv, Wake, Exit
<1>1. TypeOK'
  BY DEF TypeOK
<1>2. MonitorLife'
  BY DEF TypeOK, MonitorLife, Alive
<1>3. CallbacksDue'
  <2>1. CASE stopReq
    BY <2>1 DEF TypeOK, MonitorLife, CallbacksDue, Alive
  <2>2. CASE ~stopReq
    BY <2>2 DEF TypeOK, MonitorLife, CallbacksDue, Alive
  <2>3. QED
    BY <2>1, <2>2
<1>4. PromptAge'
  BY DEF TypeOK, MonitorLife, PromptAge, Alive, Resetting
<1>5. LateKnown'
  BY DEF TypeOK, MonitorLife, LateKnown, Alive, Resetting
<1>6. QED
  BY <1>1, <1>2, <1>3, <1>4, <1>5

\* The monitor loads the last kick.
LEMMA LoadLastKickIInv == ASSUME IInv, LoadLastKick PROVE IInv'
<1> USE Times, WatchdogAssumption DEF IInv, LoadLastKick
<1>1. TypeOK'
  BY DEF TypeOK
<1>2. MonitorLife'
  BY DEF TypeOK, MonitorLife, Alive
<1>3. CallbacksDue'
  BY DEF TypeOK, MonitorLife, CallbacksDue, Alive
<1>4. PromptAge'
  BY DEF TypeOK, MonitorLife, PromptAge, Alive, Resetting
<1>5. LateKnown'
  BY DEF TypeOK, MonitorLife, LateKnown, Alive, Resetting
<1>6. QED
  BY <1>1, <1>2, <1>3, <1>4, <1>5

\* The monitor compares it with the clock.
LEMMA CompareIInv == ASSUME IInv, Compare PROVE IInv'
<1> USE Times, WatchdogAssumption DEF IInv, Compare, TimedOut
<1>1. TypeOK'
  BY DEF TypeOK
<1>2. MonitorLife'
  BY DEF TypeOK, MonitorLife, Alive
<1>3. CallbacksDue'
  BY DEF TypeOK, MonitorLife, CallbacksDue, Alive
<1>4. PromptAge'
  BY DEF TypeOK, MonitorLife, PromptAge, Alive, Resetting
<1>5. LateKnown'
  BY DEF TypeOK, MonitorLife, LateKnown, Alive, Resetting
<1>6. QED
  BY <1>1, <1>2, <1>3, <1>4, <1>5

\* The monitor raises the flag.
LEMMA SwapTriggeredIInv == ASSUME IInv, SwapTriggered PROVE IInv'
<1> USE Times, WatchdogAssumption DEF IInv, SwapTriggered, FirstTrigger
<1>1. TypeOK'
  BY DEF TypeOK
<1>2. MonitorLife'
  BY DEF TypeOK, MonitorLife, Alive
<1>3. CallbacksDue'
  BY DEF TypeOK, MonitorLife, CallbacksDue, Alive
<1>4. PromptAge'
  BY DEF TypeOK, MonitorLife, PromptAge, Alive, Resetting
<1>5. LateKnown'
  BY DEF TypeOK, MonitorLife, LateKnown, Alive, Resetting
<1>6. QED
  BY <1>1, <1>2, <1>3, <1>4, <1>5

\* The monitor calls on_trigger.
LEMMA CallbackIInv == ASSUME IInv, Callback PROVE IInv'
<1> USE Times, WatchdogAssumption DEF IInv, Callback
<1>1. TypeOK'
  BY DEF TypeOK
<1>2. MonitorLife'
  BY DEF TypeOK, MonitorLife, Alive
<1>3. CallbacksDue'
  BY DEF TypeOK, MonitorLife, CallbacksDue, Alive
<1>4. PromptAge'
  BY DEF TypeOK, MonitorLife, PromptAge, Alive, Resetting
<1>5. LateKnown'
  BY DEF TypeOK, MonitorLife, LateKnown, Alive, Resetting
<1>6. QED
  BY <1>1, <1>2, <1>3, <1>4, <1>5

\* Time passes.
LEMMA TickIInv == ASSUME IInv, Tick PROVE IInv'
<1> USE Times, WatchdogAssumption DEF IInv, Tick, Older
<1>1. TypeOK'
  BY DEF TypeOK
<1>2. MonitorLife'
  BY DEF TypeOK, MonitorLife, Alive
<1>3. CallbacksDue'
  BY DEF TypeOK, MonitorLife, CallbacksDue, Alive
<1>4. PromptAge'
  BY DEF TypeOK, MonitorLife, PromptAge, Alive, Resetting
<1>5. LateKnown'
  BY DEF TypeOK, MonitorLife, LateKnown, Alive, Resetting
<1>6. QED
  BY <1>1, <1>2, <1>3, <1>4, <1>5

\* Every step of the owning thread, of the monitor and of the clock keeps the
\* invariant.
LEMMA NextIInv == IInv /\ [Next]_vars => IInv'
<1> SUFFICES ASSUME IInv, [Next]_vars PROVE IInv'
  OBVIOUS
<1>1. CASE Owner
  BY <1>1, StartIInv, KickSampleIInv, KickStoreIInv, ResetClearIInv,
     FullResetIInv, StopRequestIInv, StopJoinedIInv DEF Owner
<1>2. CASE Monitor
  BY <1>2, LoopOrExitIInv, WakeIInv, LoadLastKickIInv, CompareIInv,
     SwapTriggeredIInv, CallbackIInv DEF Monitor
<1>3. CASE Tick
  BY <1>3, TickIInv
<1>4. CASE UNCHANGED vars
  BY <1>4 DEF vars, IInv, TypeOK, MonitorLife, CallbacksDue, PromptAge,
     LateKnown, Alive, Resetting
<1>5. QED
  BY <1>1, <1>2, <1>3, <1>4 DEF Next

\* The invariant of start(), kick(), reset(), stop() and the monitor thread, for
\* every timeout.
THEOREM Inductive == Spec => []IInv
  BY InitIInv, NextIInv, PTL DEF Spec

\* The atomics and locals of the watchdog keep their types.
THEOREM TypeCorrect == Spec => []TypeOK
<1>1. IInv => TypeOK
  BY DEF IInv
<1>2. QED
  BY Inductive, <1>1, PTL

\* A watchdog that is_running() outside stop() has a monitor thread that was not
\* told to stop, also after restart().
THEOREM RunningWatched == Spec => []RunningIsWatched
<1>1. IInv => RunningIsWatched
  BY DEF IInv, MonitorLife, RunningIsWatched
<1>2. QED
  BY Inductive, <1>1, PTL

\* on_trigger runs at most once for each start() and each reset().
THEOREM CallbacksPaid == Spec => []OneCallbackPerArming
<1>1. IInv => OneCallbackPerArming
  BY DEF IInv, TypeOK, CallbacksDue, OneCallbackPerArming
<1>2. QED
  BY Inductive, <1>1, PTL

\* On a prompt machine the monitor notices a stalled loop within the timeout plus
\* one check interval.
THEOREM StallNoticed == Spec => []DetectionBound
<1>1. IInv => DetectionBound
  BY Times, WatchdogAssumption DEF IInv, TypeOK, MonitorLife, PromptAge,
     Resetting, DetectionBound
<1>2. QED
  BY Inductive, <1>1, PTL

\* On a prompt machine the monitor leaves a loop alone that kicks in time.
THEOREM KickedIsQuiet == Spec => []QuietWhenKicked
<1>1. IInv => QuietWhenKicked
  BY DEF IInv, LateKnown, QuietWhenKicked
<1>2. QED
  BY Inductive, <1>1, PTL

\* With prompt threads the watchdog triggers when it should and only then: the two
\* theorems above, of elapsed_ns() against the timeout.
THEOREM PromptBounds == Spec => []PromptlyRight
<1>1. DetectionBound /\ QuietWhenKicked => PromptlyRight
  BY DEF PromptlyRight
<1>2. QED
  BY <1>1, StallNoticed, KickedIsQuiet, PTL

\* The two threads together implement the alarm: the monitor raises the flag
\* only while running says so, whichever steps of stop(), start() or reset()
\* fall in between its own.
THEOREM AlarmKept == Spec => AlarmSpec
<1> DEFINE alarm == <<running, triggered>>
<1>1. Init => Promise!Init
  BY DEF Init, Promise!Init
<1>2. IInv /\ [Next]_vars => [Promise!Next]_alarm
  <2> SUFFICES ASSUME IInv, [Next]_vars
               PROVE  Promise!Next \/ UNCHANGED alarm
    OBVIOUS
  <2>1. CASE Start
    <3>1. \E spawned \in BOOLEAN : Promise!Arm(spawned)
      BY <2>1 DEF Start, IInv, TypeOK, Promise!Arm
    <3> QED
      BY <3>1 DEF Promise!Next
  <2>2. CASE KickSample \/ KickStore \/ StopRequest \/ StopJoined
    BY <2>2 DEF KickSample, KickStore, StopRequest, StopJoined
  <2>3. CASE ResetClear \/ FullReset
    BY <2>3 DEF ResetClear, FullReset, Promise!Next, Promise!Lower
  <2>4. CASE LoopOrExit \/ Wake
    BY <2>4 DEF LoopOrExit, Wake, Exit, Promise!Next, Promise!Disarm
  <2>5. CASE LoadLastKick \/ Compare \/ Callback \/ Tick \/ UNCHANGED vars
    BY <2>5 DEF LoadLastKick, Compare, Callback, Tick, vars
  <2>6. CASE SwapTriggered
    <3>1. running
      BY <2>6 DEF SwapTriggered, IInv, MonitorLife, Alive
    <3>2. CASE triggered
      BY <2>6, <3>2 DEF SwapTriggered
    <3>3. CASE ~triggered
      BY <2>6, <3>1, <3>3 DEF SwapTriggered, Promise!Next, Promise!Raise
    <3> QED
      BY <3>2, <3>3
  <2> QED
    BY <2>1, <2>2, <2>3, <2>4, <2>5, <2>6 DEF Next, Owner, Monitor
<1> QED
  BY Inductive, <1>1, <1>2, PTL DEF Spec, AlarmSpec, Promise!Spec
=============================================================================
