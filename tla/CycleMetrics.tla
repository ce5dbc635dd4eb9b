---------------------------- MODULE CycleMetrics ----------------------------
(***************************************************************************)
(* The cycle statistics of plc-common/src/metrics.rs, as operators on the  *)
(* record CycleMetrics; times are in one unit.                             *)
(***************************************************************************)
EXTENDS Integers, FiniteSets

CONSTANTS
  Size,     \* histogram_size, at least 1
  Modulus   \* one more than u64::MAX, where the sum wraps

SizeAssumption == Size \in Nat \ {0}
ModulusAssumption == Modulus \in Nat \ {0}

Slots == 0..Size - 1

Metrics == [samples : [Slots -> 0..Modulus - 1], writePos : Slots, count : 0..Size, total : Nat,
            min : 0..Modulus - 1, max : 0..Modulus - 1, sum : 0..Modulus - 1, overruns : Nat]

\* new() and reset().
NewMetrics ==
  [samples |-> [s \in Slots |-> 0], writePos |-> 0, count |-> 0, total |-> 0,
   min |-> Modulus - 1, max |-> 0, sum |-> 0, overruns |-> 0]

\* Mutant: the first extreme is compared with 0.
RecordNsFromZero(m, ns, deadline) ==
  [m EXCEPT !.samples[m.writePos] = ns, !.writePos = (@ + 1) % Size,
            !.count = IF @ < Size THEN @ + 1 ELSE Size, !.total = @ + 1,
            !.min = IF ns < @ \/ m.total = 1 THEN ns ELSE @, !.max = IF ns > @ THEN ns ELSE @,
            !.sum = (@ + ns) % Modulus, !.overruns = IF ns > deadline THEN @ + 1 ELSE @]

\* Mutant: a full ring is written at its end.
RecordNsAtEnd(m, ns, deadline) ==
  [m EXCEPT !.samples[m.writePos] = ns, !.writePos = IF @ < Size - 1 THEN @ + 1 ELSE @,
            !.count = IF @ < Size THEN @ + 1 ELSE Size, !.total = @ + 1,
            !.min = IF ns < @ THEN ns ELSE @, !.max = IF ns > @ THEN ns ELSE @,
            !.sum = (@ + ns) % Modulus, !.overruns = IF ns > deadline THEN @ + 1 ELSE @]

\* record() and record_ns().
RecordNs(m, ns, deadline) ==
  [m EXCEPT !.samples[m.writePos] = ns, !.writePos = (@ + 1) % Size,
            !.count = IF @ < Size THEN @ + 1 ELSE Size, !.total = @ + 1,
            !.min = IF ns < @ THEN ns ELSE @, !.max = IF ns > @ THEN ns ELSE @,
            !.sum = (@ + ns) % Modulus, !.overruns = IF ns > deadline THEN @ + 1 ELSE @]

Mean(m) == m.sum \div m.total
Jitter(m) == m.max - m.min

\* percentile(p) for p in 0..100: the sample at the rounded rank, halves up.
Percentile(m, p) ==
  LET valid == 0..m.count - 1
      index == (2 * p * (m.count - 1) + 100) \div 200
      below(v) == Cardinality({s \in valid : m.samples[s] < v})
      upTo(v) == Cardinality({s \in valid : m.samples[s] <= v})
  IN CHOOSE v \in {m.samples[s] : s \in valid} : below(v) <= index /\ index < upTo(v)

=============================================================================
