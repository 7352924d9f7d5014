SPECIFICATION Spec
CONSTANTS
  Apps = {t1}
  Blocks = {b1, b2, b3}
  NULL = NULL
  MoQueueLen = 2
  EvtQueueLen = 1
  RetryBudgets <- MCRetries
  MsgLens <- MCOneLen
  SigLevels <- MCOneLevel
  SigqThreshold = 0
  MoStatuses <- MCMoStatuses
INVARIANTS
  NoLeak
