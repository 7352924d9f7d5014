SPECIFICATION Spec
CONSTANTS
  MaxFaults = 1
INVARIANTS
  EchoAgreed
CHECK_DEADLOCK FALSE
