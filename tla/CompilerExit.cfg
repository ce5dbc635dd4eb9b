SPECIFICATION Spec
CONSTANTS
  Base <- MCBase
  AppBase <- MCAppBase
  MemSize <- MCMemSize
  Inputs <- MCInputs
  Sources <- ExitSources
  Cycles = 2
INVARIANT ExitLeavesInnermost
