\* Numbers of four bits and a queue of four slots that starts two numbers before the
\* wrap, so that both ends of the window pass it. The arrivals lie around the window
\* and its limits (13 .. 3), half the circle away (6, 7) and in the past (11).
SPECIFICATION Spec
CONSTANTS
  M = 16
  QueueSize = 4
  Empty = Empty
  Starts = {14}
  Arrivals = {0, 1, 2, 3, 6, 7, 11, 13, 14, 15}
  MaxPush = 4
  MaxDrop = 1
INVARIANTS
  TypeOK
  FiledUnderOwnNumber
  EachElementOwnedOnce
PROPERTIES
  NoGaps
  DropsTheRightEnd
  ImplementsWindow
CHECK_DEADLOCK FALSE
