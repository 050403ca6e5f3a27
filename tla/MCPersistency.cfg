SPECIFICATION FairSpec
CONSTANTS
  p1 = p1  p2 = p2
  c1 = c1  c2 = c2  c3 = c3
  Procs <- MCProcs
  Calls <- MCCalls
  MaxChanges <- MCMaxChanges
  Nobody = Nobody
INVARIANTS
  AnsweredOnce OneDocument
PROPERTIES
  AllAnswered ImplementsStore
