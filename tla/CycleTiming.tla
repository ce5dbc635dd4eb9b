---------------------------- MODULE CycleTiming ----------------------------
(***************************************************************************)
(* The time of the scan cycle: run_cycle() of plc-runtime/src/scheduler.rs *)
(* with its absolute deadlines, what it records in CycleMetrics, and what  *)
(* the daemon's loop records beside it in DiagnosticsState.                *)
(***************************************************************************)
EXTENDS CycleMetrics, Sequences

CONSTANTS
  Period,      \* cycle_period
  MaxOverrun,  \* max_overrun
  Execs,       \* execution times of a cycle
  Outside,     \* times the daemon takes between two cycles
  Wakes,       \* how late a sleep may end
  MaxCycles    \* bound

PeriodAssumption == Period \in Nat \ {0} /\ MaxOverrun \in Nat
TimesAssumption ==
  /\ Execs \subseteq 0..Modulus - 1 /\ Outside \subseteq Nat /\ Wakes \subseteq Nat /\ 0 \in Wakes
  /\ MaxCycles \in Nat

VARIABLES
  onOverrun,   \* the policy
  state,       \* "Run" or "Fault"
  pc,          \* "outside" the scheduler, in a "cycle", or at its "wait"
  now,
  deadline,    \* next_deadline
  metrics,
  diag,        \* DiagnosticsState: cycles, overruns
  exec,        \* the time this cycle took
  start,       \* history: when start() returned
  kicks,       \* history: this cycle's kick of the watchdog and the one before
  between,     \* history: time outside before this cycle, and how late the wake was
  excess,      \* history: by how much cycles with what is between them were too long
  done,        \* history: the execution times recorded
  work,        \* history: what they add up to
  why          \* history: what ended it

vars == <<onOverrun, state, pc, now, deadline, metrics, diag, exec, start, kicks, between,
          excess, done, work, why>>

Positive(x) == IF x > 0 THEN x ELSE 0
Larger(a, b) == IF a > b THEN a ELSE b

TypeOK ==
  /\ onOverrun \in {"Fault", "Warn", "Ignore"} /\ state \in {"Run", "Fault"}
  /\ pc \in {"outside", "cycle", "wait"}
  /\ {now, deadline, exec, start, excess, work} \subseteq Nat
  /\ metrics \in Metrics
  /\ diag \in [cycles : Nat, overruns : Nat]
  /\ {kicks, between} \subseteq Nat \X Nat /\ done \in Seq(Execs)
  /\ why \in {"none", "overrun", "logic"}

\* Mutant: the first deadline is two periods away.
FirstDeadlineLate(t) == t + 2 * Period

\* start().
FirstDeadline(t) == t + Period

Init ==
  /\ onOverrun \in {"Fault", "Warn", "Ignore"}
  /\ state = "Run" /\ pc = "outside" /\ now = 0 /\ start = 0
  /\ deadline = FirstDeadline(0)
  /\ metrics = NewMetrics /\ diag = [cycles |-> 0, overruns |-> 0]
  /\ exec = 0 /\ kicks = <<0, 0>> /\ between = <<0, 0>> /\ excess = 0
  /\ done = <<>> /\ work = 0 /\ why = "none"

-----------------------------------------------------------------------------

\* The daemon comes back with run_cycle(), whose first act is to kick the watchdog.
Enter(t) ==
  /\ pc = "outside" /\ state = "Run" /\ Len(done) < MaxCycles
  /\ pc' = "cycle" /\ now' = now + t
  /\ kicks' = <<kicks[2], now'>>
  /\ between' = <<t, between[2]>>
  /\ UNCHANGED <<onOverrun, state, deadline, metrics, diag, exec, start, excess, done, work, why>>

\* The engine fails after e: nothing is recorded.
LogicFails(e) ==
  /\ pc = "cycle"
  /\ now' = now + e /\ state' = "Fault" /\ pc' = "outside" /\ why' = "logic"
  /\ UNCHANGED <<onOverrun, deadline, metrics, diag, exec, start, kicks, between, excess, done,
                 work>>

\* Mutant: an overrun is critical when it is the tolerance.
CriticalEarly(e) == e >= Period + MaxOverrun

Critical(e) == e > Period + MaxOverrun

\* The cycle's work took e: metrics, then the policy.
Execute(e) ==
  /\ pc = "cycle"
  /\ now' = now + e /\ exec' = e
  /\ metrics' = RecordNs(metrics, e, Period)
  /\ done' = Append(done, e) /\ work' = work + e
  /\ IF onOverrun = "Fault" /\ Critical(e)
       THEN state' = "Fault" /\ pc' = "outside" /\ why' = "overrun"
       ELSE pc' = "wait" /\ UNCHANGED <<state, why>>
  /\ excess' = excess + Positive(between[1] + between[2] + e - Period)
  /\ UNCHANGED <<onOverrun, deadline, diag, start, kicks, between>>

\* Mutant: the next deadline is a period from now.
RearmFromNow(t) == t + Period

\* next_deadline = deadline + cycle_period.
Rearm(t) == deadline + Period

\* Mutant: the sleep is relative, and as long as the period.
WakeAfterPeriod(late) == now + Period + late

\* wait_until(): at once when the deadline is past.
Wake(late) == IF deadline <= now THEN now ELSE deadline + late

\* Mutant: only what is past the tolerance is an overrun.
DiagOverrunCritical(e) == Critical(e)

\* CycleResult::overrun.
DiagOverrun(e) == e > Period

\* The wait ends, run_cycle() returns and the daemon records the cycle.
Return(late) ==
  /\ pc = "wait"
  /\ now' = Wake(late) /\ deadline' = Rearm(now')
  /\ between' = <<0, IF deadline <= now THEN 0 ELSE late>>
  /\ diag' = [cycles |-> diag.cycles + 1,
              overruns |-> diag.overruns + IF DiagOverrun(exec) THEN 1 ELSE 0]
  /\ pc' = "outside"
  /\ UNCHANGED <<onOverrun, state, metrics, exec, start, kicks, excess, done, work, why>>

Next ==
  \/ \E t \in Outside : Enter(t)
  \/ \E e \in Execs : Execute(e) \/ LogicFails(e)
  \/ \E late \in Wakes : Return(late)

Spec == Init /\ [][Next]_vars

-----------------------------------------------------------------------------
(* Properties. *)

\* No scan begins before its place on the grid of the periods since start(), and late
\* wakes and long cycles are made up for: a scan is late by no more than its own wake and
\* the time by which earlier ones did not fit the period; wakes do not add up.
OnTheGrid ==
  pc = "cycle" =>
    LET due == start + Len(done) * Period
    IN due <= now /\ now <= due + between[1] + between[2] + excess

\* Between two kicks of the watchdog lies no more than the longer of the period and the
\* last cycle's work, with the time outside and a late wake, even when cycles catch up.
KicksInTime ==
  pc = "cycle" /\ done # <<>> =>
    kicks[2] - kicks[1] <= Larger(Period, exec) + between[1] + between[2]

\* The metrics and the diagnostics count the same cycles and overruns, but for the
\* cycle that is not over yet and the one whose overrun was the fault.
CountsAgree ==
  LET open == IF pc = "wait" \/ why = "overrun" THEN 1 ELSE 0
  IN /\ metrics.total = diag.cycles + open
     /\ metrics.overruns = diag.overruns + IF open = 1 /\ exec > Period THEN 1 ELSE 0
     /\ why = "overrun" => exec > Period + MaxOverrun /\ onOverrun = "Fault"

\* What the statistics say is true of the cycles that were run: the extremes of all of
\* them, the mean unless the sum has wrapped, the percentiles of the last ones.
StatisticsHold ==
  done # <<>> =>
    LET all == {done[i] : i \in 1..Len(done)}
        newest == {done[i] : i \in Positive(Len(done) - Size) + 1..Len(done)}
    IN /\ metrics.min \in all /\ metrics.max \in all
       /\ \A e \in all : metrics.min <= e /\ e <= metrics.max
       /\ work < Modulus => metrics.min <= Mean(metrics) /\ Mean(metrics) <= metrics.max
       /\ \A p \in {0, 50, 100} : Percentile(metrics, p) \in newest
       /\ \A e \in newest : Percentile(metrics, 0) <= e /\ e <= Percentile(metrics, 100)

\* The ring holds the last samples in their order.
Samples ==
  [i \in 1..metrics.count |->
     metrics.samples[((IF metrics.total > Size THEN metrics.writePos ELSE 0) + i - 1) % Size]]
Window == INSTANCE SlidingWindow WITH Items <- Execs, window <- Samples
SamplesAreWindow == Window!Spec

-----------------------------------------------------------------------------
(* The inductive invariant. *)

\* The place of the next cycle on the grid.
Due == start + Len(done) * Period

\* A cycle has run that is not counted yet, or never will be.
Ran == pc = "wait" \/ why = "overrun"

StatesAgree ==
  /\ state = "Run" <=> why = "none"
  /\ pc # "outside" => state = "Run"

\* Where the clock stands, and the watchdog's kick, at each stage of a cycle.
OnSchedule ==
  /\ deadline = Due + IF Ran THEN 0 ELSE Period
  /\ pc = "outside" /\ state = "Run" =>
       /\ Due <= now /\ now <= Due + between[2] + excess
       /\ between[1] = 0
       /\ done # <<>> => now - kicks[2] <= Larger(Period, exec) + between[2]
  /\ pc = "cycle" => now = kicks[2]
  /\ pc = "wait" =>
       /\ now = kicks[2] + exec /\ Due <= kicks[2] + Period
       /\ now <= Due + excess

\* After n cycles, with the position at w: the cycle whose sample is in the slot s.
CycleOf(n, w, s) == n - w + s + 1 - IF s < w THEN 0 ELSE Size

\* The ring holds the execution times of the last cycles.
RingHoldsLast ==
  /\ metrics.total = Len(done)
  /\ metrics.count = IF Len(done) < Size THEN Len(done) ELSE Size
  /\ Len(done) < Size => metrics.writePos = Len(done)
  /\ Len(done) = Size => metrics.writePos = 0
  /\ \A s \in 0..metrics.count - 1 :
       metrics.samples[s] = done[CycleOf(Len(done), metrics.writePos, s)]

\* The extremes are those of all cycles, and the sum lies between what they would give.
ExtremesHold ==
  /\ done = <<>> => metrics.min = Modulus - 1 /\ metrics.max = 0
  /\ done # <<>> => \E i, j \in DOMAIN done : metrics.min = done[i] /\ metrics.max = done[j]
  /\ \A i \in DOMAIN done : metrics.min <= done[i] /\ done[i] <= metrics.max
  /\ Len(done) * metrics.min <= work /\ work <= Len(done) * metrics.max
  /\ work < Modulus => metrics.sum = work

IInv ==
  /\ TypeOK /\ StatesAgree /\ OnSchedule /\ OnTheGrid /\ KicksInTime /\ CountsAgree
  /\ RingHoldsLast /\ ExtremesHold

=============================================================================
