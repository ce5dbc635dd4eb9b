SPECIFICATION Spec
CONSTANTS
  Programs <- MCPrograms
  Values = {0, 1}
  Zero = 0
  MaxEpochs = 1
  FuelPerCycle = 2
  MaxCalls = 1
  MaxAge = 2
  MaxCycles = 1
INVARIANT OverrunIsCut
