SPECIFICATION Spec
CONSTANTS
  Null = null
  ErrorQueue = errorQueue
  Documents <- MCDocuments
  Ids <- MCIds
INVARIANTS
  DebuggersAreDebuggers
CHECK_DEADLOCK FALSE
