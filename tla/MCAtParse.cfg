SPECIFICATION Spec
CONSTANTS
  BufSizes = {0, 1, 2, 3, 4}
  Lines = {0, 1, 2, 3}
  AtBufSize = 3
  MaxBytes = 6
INVARIANTS
  TypeOK
  InBounds
  EndsInTime
  AnswerRight
  OverflowRight
CHECK_DEADLOCK FALSE
