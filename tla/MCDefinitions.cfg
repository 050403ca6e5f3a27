SPECIFICATION Spec
CONSTANTS
  Null = null
  ErrorQueue = errorQueue
  Documents <- MCDocuments
  Ids <- MCIds
INVARIANTS
  ElementsAreNested
  IndexesAreFresh
  MessageFlowsLead
  GatewaysBranch
CHECK_DEADLOCK FALSE
