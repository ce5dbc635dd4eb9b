\* The process ends: its last state has no successor.
CHECK_DEADLOCK FALSE
CONSTANTS
  Outputs <- TwoOutputs
  Zero <- Off
  UserSafe <- On
  Policies <- OnePolicy
  Overruns <- FaultOnOverrun
  MaxCycles = 1
  MaxLives = 1
  FailureLimits = {0, 2}
  Graces = {0, 2}
  CycleLimits = {0, 1}
  MaxRun = 3
SPECIFICATION FairSpec
INVARIANTS
  CyclesBounded
  CleanEnd
PROPERTIES
  StreakOnlyClears
  GraceServed
  RequestsAreHeard
