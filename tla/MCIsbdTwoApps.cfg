SPECIFICATION Spec
CONSTANTS
  Apps = {t1, t2}
  Blocks = {b1, b2, b3}
  NULL = NULL
  MoQueueLen = 1
  EvtQueueLen = 1
  RetryBudgets <- MCOneRetry
  MsgLens <- MCOneLen
  SigLevels <- MCOneLevel
  SigqThreshold = 0
  MoStatuses <- MCMoStatuses
SYMMETRY AppSymmetry
INVARIANTS
  TypeOK
  Ownership
  NoOtherLeak
  RequestNotForgotten
PROPERTIES
  DeliveryKept
