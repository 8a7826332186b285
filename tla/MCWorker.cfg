CONSTANTS
  c1 = c1
  c2 = c2
  c3 = c3
  c4 = c4
  Tasks = {c1, c2, c3, c4}
  MaxDepth = 2
SPECIFICATION LiveSpec
INVARIANTS
  TypeOK
  FifoOrder
  DrainedMeansDone
  NoLostWakeup
PROPERTIES
  AcceptedReturns
  DrainTerminates
