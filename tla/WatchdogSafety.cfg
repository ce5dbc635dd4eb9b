CONSTANTS
  Timeout = 8
  MinInterval = 1
  Schedulings = {TRUE, FALSE}
  MaxStarts = 2
  MaxResets = 1
SPECIFICATION FairSpec
INVARIANTS
  OneCallbackPerArming
  RunningIsWatched
  PromptlyRight
PROPERTIES
  AlarmSpec
  StallDetected
