SPECIFICATION Spec
CONSTANTS
  BufSizes = {0, 1, 2, 3, 4}
  Lines = {0, 1, 2, 3}
  AtBufSize = 3
  MaxBytes = 6
INVARIANTS
  TextComplete
CHECK_DEADLOCK FALSE
