SPECIFICATION Spec
CONSTANTS
  Base <- MCBase
  AppBase <- MCAppBase
  MemSize <- MCMemSize
  Inputs <- MCInputs
  Sources <- GoodSources
  Cycles = 3
INVARIANTS
  FrontEndIsRight
  CodeIsRight
PROPERTIES
  StoresInOneVariable
  StepsReturn
