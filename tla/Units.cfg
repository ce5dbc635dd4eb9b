SPECIFICATION Spec
CONSTANTS
  Period = 2
  MaxOverrun = 1
  Execs <- MCExecs
  Outside = {0, 1}
  Wakes = {0, 1}
  MaxCycles = 4
  Size = 2
  Modulus = 12
  Capacity = 3
  Cycles = {1, 2}
  Reasons = {"LogicError"}
  MaxCount = 5
  Word = 64
  Filter = 4
  Threshold = 3
  StartTimes = {7, 20}
  Offsets <- MCOffsets
  MaxElapsed = 2
  MaxJumps = 2
  Fields = {"state", "metrics"}
  Values = {0, 1, 2}
  Cap = 2
  KeptFaults = 2
  FullFaults = 2
  PageFaults = 4
  MaxSends = 4
  MaxTime = 4
  Times <- MCTimes
  Deltas <- MCDeltas
  Long = 6
  MaxInt = 2
  MinInt <- MCMinInt
  Numbers <- MCNumbers
\* Counts and sends are bounded: a unit stops at its bound.
CHECK_DEADLOCK FALSE
INVARIANTS
  TimingInv
  ClockInv
  WebInv
  BlocksInv
PROPERTIES
  LogsAreWindows
  ClockSettles
  UnitSteps
