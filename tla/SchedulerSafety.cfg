\* 0 is all-off, 9 the user-defined safe value, 5 what the logic drives.
CONSTANTS
  Outputs = {0, 5, 9}
  Zero = 0
  UserSafe = 9
  Policies <- AllPolicies
  Overruns <- AllOverruns
  MaxCycles = 3
  MaxLives = 2
SPECIFICATION Spec
INVARIANTS
  RunIsGuarded
  FirstFaultKept
PROPERTIES
  SafeOutputsSpec
