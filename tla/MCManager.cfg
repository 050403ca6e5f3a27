SPECIFICATION Spec
CONSTANTS
  a = a
  b = b
  stored = stored
  document = document
  double = double
  i = i
  k = k
  putter = putter
  maker = maker
  other = other
  Nothing = Nothing
  Names <- MCNames
  Ids <- MCIds
  NameOf <- MCNameOf
  IdOf <- MCIdOf
  Stores <- MCStores
  Requests <- MCRequests
  Calls <- MCCalls
  MaxAdds = 2
INVARIANTS
  CreatedIsFound
  AnsweredOncePerRound
  StoredIsLoaded
  DeliveredOnce
  AcknowledgedIsDelivered
CHECK_DEADLOCK FALSE
PROPERTIES
  CacheOnlyGrows
  RequestsAnswered
