SPECIFICATION FairSpec
CONSTANTS
  Apps = {t1}
  Blocks = {b1, b2}
  NULL = NULL
  MoQueueLen = 1
  EvtQueueLen = 1
  RetryBudgets <- MCRetries
  MsgLens <- MCOneLen
  SigLevels <- MCSigLevels
  SigqThreshold = 1
  MoStatuses <- MCMoStatuses
PROPERTIES
  MessageResolved
  RequestServed
