SPECIFICATION Spec
CONSTANT
  Faults = {"start", "send", "takion", "bad_bang", "bad_info"}
INVARIANTS
  NothingSendsAfterClose
CHECK_DEADLOCK FALSE
