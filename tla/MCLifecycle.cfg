CONSTANTS
  Handlers <- MCHandlers
  Tasks <- MCTasks
  MaxDepth = 2
SPECIFICATION LSpec
INVARIANTS
  LTypeOK
  CloseIsAccepted
  CleanExit
  NoDefaultTermination
PROPERTIES
  SigtermEnds
