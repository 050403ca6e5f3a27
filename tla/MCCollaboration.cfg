SPECIFICATION FairSpec
CONSTANTS
  First = "first"
  Second = "second"
  KindOf <- MCKindOf
  FlowsOf <- MCFlowsOf
  BoundariesOf <- MCBoundariesOf
  LateOf <- MCLateOf
  StartOf <- MCStartOf
  MessageTo <- MCMessageTo
  Client = "prompt"
  Budget <- MCBudget
PROPERTIES
  CollaborationEnds PartnersPlayTheGame
