SPECIFICATION Spec
CONSTANTS
  Clients = {c1, c2, c3}
  Workers = {w1}
  Orders = {"o1", "o2"}
  CompletedOrders = {"o1"}
  Requests <- SharedKey
  Responses <- SomeResponses
  MaxRuns = 2
INVARIANTS
  IdempotentCreation
  OneJobPerOrderRows
CHECK_DEADLOCK FALSE
