SPECIFICATION RecoveryFairSpec
CONSTANTS
  FlowObjects <- MCFlowObjects
  Kind <- MCKind
  Outgoing <- MCOutgoing
  Boundaries <- MCBoundaries
  Processes <- MCProcesses
  Main = "main"
  ProcessOf <- MCProcessOf
  CallOf <- MCCallOf
  StartOf <- MCStartOf
  Late <- MCLate
  Undecided = {}
  PastDue = {}
  SavesMayFail = TRUE
  CloseAnswers = TRUE
  Client = "patient"
  Budget <- MCBudget
  WritesAtOnce = TRUE
  SlowTimers = TRUE
  MaxRestarts = 2
INVARIANTS
  AckedNotLost WaitingTimersRun SavedTokensWait OneAtATime
PROPERTIES
  EndsDespiteRestarts
