\* One rejected PIN and one message of the user.
SPECIFICATION Spec
CONSTANTS
  MaxRejects = 1
  MaxSends = 1
  Faults = {"reset", "close", "bad_id", "late_pin"}
INVARIANTS
  PromptTellsTruth
  ThreadsEndFirst
PROPERTIES
  FallbackGivesWay
  PinReachesConsole
  StopEndsSession
CHECK_DEADLOCK FALSE
