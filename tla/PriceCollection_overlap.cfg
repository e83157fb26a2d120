SPECIFICATION FairSpec
CONSTANTS
  Clients = {c1, c2}
  Workers = {w1, w2}
  Orders = {"o1"}
  CompletedOrders = {"o1"}
  Requests <- TwoKeys
  Responses <- FewResponses
  MaxRuns = 3
INVARIANTS
  StatusIsLastOutcome
  EventsOfSuccesses
  AttemptsWithinLog
  ErrorsAreRecent
PROPERTIES
  ImplementsLedger
  CallsEnd
CHECK_DEADLOCK FALSE
