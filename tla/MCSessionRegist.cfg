\* A registration over PSN that fails.
SPECIFICATION Spec
CONSTANTS
  Kinds = {"lan", "psn", "cloud"}
  MaxAddresses = 2
  MaxFailures = 3
INVARIANTS
  RegistFailureIsReported
CHECK_DEADLOCK FALSE
