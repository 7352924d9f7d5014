SPECIFICATION FairSpec
CONSTANTS
  TxSize = 2
  HwDepth = 2
  MaxBytes = 8
  WriteSizes = {0, 1, 3}
INVARIANTS
  TypeOK
  LineOrder
  NothingStranded
  NoLostWakeup
PROPERTIES
  PortKept
  EverythingSent
