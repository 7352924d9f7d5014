SPECIFICATION FairSpec
CONSTANTS
  Modes <- MCModes
  Calls <- AllCalls
  MaxCalls = 2
INVARIANTS
  TypeOK
  OkMeansDone
  AnswerIsOwn
  SessionCarriesMessage
  SvcaTracks
  
PROPERTIES
  DataWhenReady
  CallReturns
CHECK_DEADLOCK FALSE
