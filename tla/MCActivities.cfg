SPECIFICATION FairSpec
CONSTANTS
  FlowObjects <- MCFlowObjects
  Kind <- MCKind
  Outgoing <- MCOutgoing
  Boundaries <- MCBoundaries
  Processes <- MCProcesses
  Main = "main"
  ProcessOf <- MCProcessOf
  CallOf <- MCCallOf
  StartOf <- MCStartOf
  Late <- MCLate
  Undecided = {}
  PastDue = {}
  SavesMayFail = FALSE
  CloseAnswers = TRUE
  Client = "patient"
  Budget <- MCBudget
INVARIANTS
  OnePathLeaves TimersHaveTokens NothingLeftAtEnd TokensHaveOneOwner TokensPassOnce
PROPERTIES
  ProcessEnds DeferredIsEmitted TokenGameIsPlayed
