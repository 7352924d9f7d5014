SPECIFICATION Spec
CONSTANTS
  MaxFaults = 2
INVARIANTS
  TypeOK
  VerboseAgreed
  FlowAgreed
  SetupSucceeds
CHECK_DEADLOCK FALSE
