SPECIFICATION Spec
CONSTANTS
  Networks <- MCNetworks
  Transports = {"simulated", "soem"}
  Thresholds = {0, 2}
  Values = {0, 1}
  Zero = 0
  MaxFaults = 3
  MaxErrors = 3
INVARIANTS
  StateIsHonest
  MissesAreCounted
PROPERTIES
  GoodExchangeIsWhole
  InitHeals
