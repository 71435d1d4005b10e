\* A ring of four slots whose numbers wrap after the second packet. The second packet
\* is the BANG, so that others can be ahead of it.
SPECIFICATION Spec
CONSTANTS
  M = 16
  QueueSize = 4
  Empty = Empty
  First = 14
  DataCount = 5
  Bang = 2
  AvCount = 2
  MaxAvArrivals = 2
  EnableCrypt = TRUE
  MaxTries = 2
  PostponeSize = 1
  Faults = {"stop", "send", "recv", "setup", "reject"}
INVARIANTS
  DataInOrderOnce
  AcksOnlyHandled
  AvInArrivalOrder
PROPERTIES
  CallbackProtocol
  
  DataArrives
CHECK_DEADLOCK FALSE
