SPECIFICATION Spec
CONSTANTS
  MaxRejects = 0
  MaxSends = 0
  Faults = {"reset", "close", "bad_id", "late_pin"}
PROPERTIES
  StopAlwaysEnds
CHECK_DEADLOCK FALSE
