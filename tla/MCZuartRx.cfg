SPECIFICATION FairSpec
CONSTANTS
  RxSize = 2
  FifoDepth = 1
  MaxBytes = 6
  ReadSizes = {0, 1, 3}
INVARIANTS
  TypeOK
  EachByteOnce
  NoLostWakeup
  HolesReported
PROPERTIES
  PortKept
  CallReturns
