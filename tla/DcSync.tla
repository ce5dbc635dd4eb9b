------------------------------- MODULE DcSync -------------------------------
(***************************************************************************)
(* The DC system time of plc-fieldbus/src/dc_sync.rs: the master's clock   *)
(* follows the reference clock of the bus through a filter. Which slave    *)
(* that is, is in Ethercat.                                                *)
(***************************************************************************)
EXTENDS Integers

CONSTANTS
  Word,        \* 2^64; signed values are Word / 2 wide on each side of 0
  Filter,      \* 2^FILTER_SHIFT
  Threshold,   \* error_threshold_ns
  StartTimes,  \* readings at initialize()
  Offsets,     \* how far the reference clock may come to stand from the host's
  MaxElapsed,  \* bound: ticks of the host since then
  MaxJumps     \* bound: how often the offset changes

Half == Word \div 2
Signed == -Half..Half - 1

WordAssumption == Word = 2 * Half /\ Half \in Nat \ {0} /\ Filter \in Nat \ {0} /\ Filter < Word
OffsetsAssumption ==
  /\ StartTimes \subseteq 0..Word - 1 /\ Offsets \subseteq Int /\ 0 \in Offsets
  /\ Threshold \in Nat /\ MaxElapsed \in Nat /\ MaxJumps \in Nat
  /\ \A s \in StartTimes, o \in Offsets : s + o >= 0 /\ s + o + MaxElapsed < Word
  /\ \A o, p \in Offsets : o - p \in Signed

VARIABLES
  active,      \* DcController::active
  reference,   \* dc_time_at_reference
  elapsed,     \* of the host's clock, since reference_instant
  correction,  \* drift_correction_ns
  deviation,   \* what update() returned last
  stats,       \* DcSyncStats: extremes, and whether there was an error
  offset,      \* of the reference clock
  jumps,       \* history
  seen         \* history: the deviations since initialize()

vars == <<active, reference, elapsed, correction, deviation, stats, offset, jumps, seen>>

Smaller(a, b) == IF a < b THEN a ELSE b
Larger(a, b) == IF a > b THEN a ELSE b

TypeOK ==
  /\ active \in BOOLEAN /\ reference \in 0..Word - 1 /\ elapsed \in 0..MaxElapsed
  /\ {correction, deviation} \subseteq Signed
  /\ stats \in [min : Signed, max : Signed, error : BOOLEAN]
  /\ offset \in Offsets /\ jumps \in 0..MaxJumps /\ seen \subseteq Signed

\* Mutant: the extremes begin at 0.
NewStatsFromZero == [min |-> 0, max |-> 0, error |-> FALSE]

NewStats == [min |-> Half - 1, max |-> -Half, error |-> FALSE]

Init ==
  /\ active = FALSE /\ reference = 0 /\ elapsed = 0 /\ correction = 0 /\ deviation = 0
  /\ stats = NewStats /\ offset = 0 /\ jumps = 0 /\ seen = {}

-----------------------------------------------------------------------------

\* initialize() when there is a reference clock: the clocks agree from here.
Initialize(t) ==
  /\ ~active
  /\ active' = TRUE /\ reference' = t /\ elapsed' = 0 /\ correction' = 0 /\ deviation' = 0
  /\ stats' = NewStats /\ offset' = 0 /\ seen' = {}
  /\ UNCHANGED jumps

\* clear(), before the next scan of the network.
Clear ==
  /\ active /\ jumps < MaxJumps
  /\ active' = FALSE /\ jumps' = jumps + 1
  /\ reference' = 0 /\ elapsed' = 0 /\ correction' = 0 /\ stats' = NewStats /\ seen' = {}
  /\ UNCHANGED <<deviation, offset>>

\* Time passes, and the reference clock may run fast or slow.
Tick ==
  /\ active /\ elapsed < MaxElapsed /\ elapsed' = elapsed + 1
  /\ UNCHANGED <<active, reference, correction, deviation, stats, offset, jumps, seen>>

Drift(o) ==
  /\ active /\ jumps < MaxJumps /\ offset' = o /\ jumps' = jumps + 1
  /\ UNCHANGED <<active, reference, elapsed, correction, deviation, stats, seen>>

Reading == reference + elapsed + offset

\* expected_dc_time(), clamped to the type.
Expected == Smaller(Larger(reference + elapsed + correction, 0), Word - 1)

\* wrapping_sub() as a signed value.
Difference(a, b) == ((a - b + Half) % Word) - Half

\* Mutant: the quotient is rounded towards zero.
FilteredTowardsZero(d) == correction + IF d < 0 THEN -((-d) \div Filter) ELSE d \div Filter

\* Mutant: twice the measurement is added.
FilteredTwice(d) == correction + 2 * d

\* drift >> FILTER_SHIFT rounds down.
Filtered(d) == correction + d \div Filter

\* DcController::update(): the filter, then DcSyncStats::record().
Update ==
  /\ active
  /\ LET d == Difference(Reading, Expected) IN
       /\ correction' = Filtered(d) /\ deviation' = d
       /\ stats' = [min |-> Smaller(stats.min, d), max |-> Larger(stats.max, d),
                    error |-> stats.error \/ d > Threshold \/ -d > Threshold]
       /\ seen' = seen \cup {d}
  /\ UNCHANGED <<active, reference, elapsed, offset, jumps>>

Next ==
  \/ \E t \in StartTimes : Initialize(t)
  \/ Clear \/ Tick \/ Update
  \/ \E o \in Offsets : Drift(o)

\* Every exchange of a running master updates the clock.
Spec == Init /\ [][Next]_vars /\ WF_vars(Update)

-----------------------------------------------------------------------------
(* Properties. *)

\* The master's clock never overtakes the reference: while that stays where it is, the
\* distance after an update is on the same side and no larger.
NeverOvershoots ==
  [][Update =>
       LET before == offset - correction
           after == offset - correction'
       IN IF before >= 0 THEN after \in 0..before ELSE after \in before..0]_vars

\* A reference that stays where it is is reached, up to the part the filter drops:
\* what remains is less than its divisor, and the master is never ahead.
Settles == <>[](active => offset - correction \in 0..Filter - 1)

\* The extremes are measurements of this session, the error says that one was too far.
StatsHold ==
  seen # {} =>
    /\ {stats.min, stats.max} \subseteq seen
    /\ \A d \in seen : stats.min <= d /\ d <= stats.max
    /\ stats.error <=> \E d \in seen : d \notin -Threshold..Threshold

-----------------------------------------------------------------------------
(* The inductive invariant. *)

\* A running clock began at a reading, and what corrects it lies between offsets that
\* the reference has had.
CorrectionIsBetween ==
  /\ active => reference \in StartTimes
  /\ \E low, high \in Offsets : low <= correction /\ correction <= high

\* Before the first measurement the statistics are new.
NewUntilSeen == seen = {} => stats = NewStats

IInv == TypeOK /\ CorrectionIsBetween /\ NewUntilSeen /\ StatsHold

=============================================================================
