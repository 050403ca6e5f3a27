SPECIFICATION Spec
CONSTANTS
  FlowObjects <- MCFlowObjects
  Kind <- MCKind
  Outgoing <- MCOutgoing
  Boundaries <- MCBoundaries
  Processes <- MCProcesses
  Main = "main"
  ProcessOf <- MCProcessOf
  CallOf <- MCCallOf
  StartOf <- MCStartOf
  Late <- MCLate
  Undecided <- MCUndecided
  PastDue <- MCPastDue
  SavesMayFail = TRUE
  CloseAnswers = TRUE
  Client = "eager"
  Budget <- MCBudget
INVARIANTS
  TypeOK TokensHaveWork NoTokenStranded
