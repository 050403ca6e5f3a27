SPECIFICATION Spec
CONSTANTS
  FlowObjects <- MCFlowObjects
  Kind <- MCKind
  Outgoing <- MCOutgoing
  Boundaries <- MCBoundaries
  Processes <- MCProcesses
  Main = "main"
  ProcessOf <- MCProcessOf
  CallOf <- MCCallOf
  StartOf <- MCStartOf
  Late <- MCLate
  Undecided = {}
  PastDue = {}
  SavesMayFail = FALSE
  CloseAnswers = TRUE
  Client = "prompt"
  Budget <- MCReports
INVARIANTS
  DoneTasksDoNotTimeOut
