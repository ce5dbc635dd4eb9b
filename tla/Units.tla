-------------------------------- MODULE Units --------------------------------
(***************************************************************************)
(* The sequential units beside each other: the cycle's timing and          *)
(* statistics, the fault recorder, the DC system time, the web UI, and the *)
(* function blocks of plc-stdlib.  They share nothing here, so each        *)
(* behaviour exercises one while the others stay as they begin.            *)
(***************************************************************************)
EXTENDS Integers

CONSTANTS
  Period, MaxOverrun, Execs, Outside, Wakes, MaxCycles, Size, Modulus,   \* CycleTiming
  Capacity, Cycles, Reasons, MaxCount,                                   \* FaultRecorder
  Word, Filter, Threshold, StartTimes, Offsets, MaxElapsed, MaxJumps,    \* DcSync
  Fields, Values, Cap, KeptFaults, FullFaults, PageFaults, MaxSends,     \* WebState
  MaxTime, Times, Deltas, Long,                                          \* Timers
  MaxInt, MinInt, Numbers                                                \* Counters

VARIABLES
  unit,
  onOverrun, state, pc, now, deadline, metrics, diag, exec, start, kicks, between, excess,
  done, work, why,
  frames, writePos, frameCount, frozen, faultIndex,
  active, reference, elapsed, correction, deviation, stats, offset, jumps, seen,
  shared, pending, ring, sent, prom, conn, page,
  in, pt, ton, tof, tp, high, steady, low, expired, pulse,
  cu, cd, r, ld, pv, ctu, ctd, ctud, ups, downs, base, net, inRange,
  sr, rs, rising, falling, clk, last, driven

Timing == INSTANCE CycleTiming
Recorder == INSTANCE FaultRecorder
Clock == INSTANCE DcSync
Web == INSTANCE WebState
Delays == INSTANCE Timers WITH Presets <- Times
Counts == INSTANCE Counters WITH Presets <- Numbers
Bits == INSTANCE Latches

ASSUME TimingAssumption ==
  /\ Timing!PeriodAssumption /\ Timing!TimesAssumption
  /\ Timing!SizeAssumption /\ Timing!ModulusAssumption
ASSUME RecorderAssumption == Recorder!RecorderAssumption
ASSUME ClockAssumption == Clock!WordAssumption /\ Clock!OffsetsAssumption
ASSUME WebAssumption == Web!FieldsAssumption /\ Web!ValuesAssumption /\ Web!SizesAssumption
ASSUME TimersAssumption ==
  /\ Delays!MaxTimeAssumption /\ Delays!PresetsAssumption /\ Delays!DeltasAssumption
  /\ Delays!LongAssumption
ASSUME CountersAssumption == Counts!RangeAssumption /\ Counts!PresetsAssumption

timing == <<onOverrun, state, pc, now, deadline, metrics, diag, exec, start, kicks, between,
            excess, done, work, why>>
recorder == <<frames, writePos, frameCount, frozen, faultIndex>>
clock == <<active, reference, elapsed, correction, deviation, stats, offset, jumps, seen>>
web == <<shared, pending, ring, sent, prom, conn, page>>
timers == <<in, pt, ton, tof, tp, high, steady, low, expired, pulse>>
counters == <<cu, cd, r, ld, pv, ctu, ctd, ctud, ups, downs, base, net, inRange>>
latches == <<sr, rs, rising, falling, clk, last, driven>>
records == <<timing, recorder, clock, web>>
blocks == <<timers, counters, latches>>
vars == <<unit, records, blocks>>

Init ==
  /\ unit \in {"timing", "recorder", "clock", "web", "timers", "counters", "latches"}
  /\ Timing!Init /\ Recorder!Init /\ Clock!Init /\ Web!Init
  /\ Delays!Init /\ Counts!Init /\ Bits!Init
  /\ unit # "timing" => onOverrun = "Fault"
  /\ unit # "latches" => rs

ClockUpdate ==
  /\ unit = "clock" /\ Clock!Update
  /\ UNCHANGED <<unit, timing, recorder, web, blocks>>

NextRecord ==
  \/ unit = "timing" /\ Timing!Next /\ UNCHANGED <<recorder, clock, web>>
  \/ unit = "recorder" /\ Recorder!Next /\ UNCHANGED <<timing, clock, web>>
  \/ unit = "clock" /\ Clock!Next /\ UNCHANGED <<timing, recorder, web>>
  \/ unit = "web" /\ Web!Next /\ UNCHANGED <<timing, recorder, clock>>

NextBlock ==
  \/ unit = "timers" /\ Delays!Next /\ UNCHANGED <<counters, latches>>
  \/ unit = "counters" /\ Counts!Next /\ UNCHANGED <<timers, latches>>
  \/ unit = "latches" /\ Bits!Next /\ UNCHANGED <<timers, counters>>

Next ==
  \/ NextRecord /\ UNCHANGED <<unit, blocks>>
  \/ NextBlock /\ UNCHANGED <<unit, records>>

Spec == Init /\ [][Next]_vars /\ WF_vars(ClockUpdate)

-----------------------------------------------------------------------------
(* Properties: each unit's own, see its module. *)

\* scheduler.rs, wait_until(), the kick at the head of run_cycle() and the next
\* deadline; metrics.rs beside diagnostics.rs.
TimingInv ==
  /\ Timing!TypeOK
  /\ Timing!OnTheGrid /\ Timing!KicksInTime
  /\ Timing!CountsAgree /\ Timing!StatisticsHold

\* fault_recorder.rs, recent_frames() and record_fault().
RecorderInv == Recorder!TypeOK /\ Recorder!RecentIsReversed /\ Recorder!FaultIsNewest

\* metrics.rs, fault_recorder.rs frames_chronological() and the web UI's state.rs:
\* three bounded logs, each the window of what was last put into it; the recorder reads
\* the same from either end.
LogsAreWindows ==
  /\ Timing!SamplesAreWindow /\ Recorder!WindowSpec /\ Web!FaultsAreWindow
  /\ []RecorderInv

\* dc_sync.rs, DcSyncStats and the range of the correction.
ClockInv == Clock!TypeOK /\ Clock!StatsHold

\* dc_sync.rs, the drift filter of update() in the long run.
ClockSettles == Clock!Settles

\* websocket.rs and dashboard.rs, what an open page shows; the Prometheus counters of
\* the web UI's metrics.rs.
WebInv == Web!TypeOK /\ Web!ShowsCurrent /\ Web!ShowsRecentFaults /\ Web!CountersFollow

\* timers.rs, counters.rs and bistable.rs against IEC 61131-3.
BlocksInv ==
  /\ Delays!TypeOK /\ Counts!TypeOK /\ Bits!TypeOK
  /\ Delays!TonIsOnDelay /\ Delays!TofIsOffDelay /\ Delays!TpIsPulse
  /\ Counts!CountsEveryEdge /\ Counts!NetOfEdges
  /\ Bits!LatchesAreDual

\* counters.rs at the ends of the range, triggers.rs on one clock, and one update of
\* the drift filter of dc_sync.rs.
UnitSteps == Counts!NeverWraps /\ Bits!EdgesAlternate /\ Clock!NeverOvershoots

=============================================================================
