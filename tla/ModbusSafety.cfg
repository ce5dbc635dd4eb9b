SPECIFICATION FairSpec
CONSTANTS
  Values = {0, 1}
  Zero = 0
  Mappings <- SomeMappings
  MaxAttempts = 2
  TidModulus = 2
  MaxFaults = 3
  MaxQueue = 2
CHECK_DEADLOCK FALSE
INVARIANTS
  InputsAreFresh
  ExchangeLands
  GivesUpWhenRefused
PROPERTIES
  ExchangeReturns
  Recovers
