\* The console sends each kind of message once, good or bad.
SPECIFICATION Spec
CONSTANT
  Faults = {"start", "send", "takion", "bad_bang", "bad_info"}
INVARIANTS
  ConnectedMeansReady
  NoWaitInVain
  TeardownInOrder

  
CHECK_DEADLOCK FALSE
