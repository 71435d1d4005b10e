SPECIFICATION Spec
CONSTANTS
  M = 16
  QueueSize = 4
  Empty = Empty
  First = 14
  DataCount = 3
  Bang = 1
  AvCount = 1
  MaxAvArrivals = 1
  EnableCrypt = TRUE
  MaxTries = 2
  PostponeSize = 1
  Faults = {}
INVARIANTS
  RecheckSurvives
CHECK_DEADLOCK FALSE
