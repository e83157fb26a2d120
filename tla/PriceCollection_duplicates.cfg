SPECIFICATION Spec
CONSTANTS
  Clients = {c1, c2}
  Workers = {w1, w2}
  Orders = {"o1"}
  CompletedOrders = {"o1"}
  Requests <- TwoKeys
  Responses <- FewResponses
  MaxRuns = 2
INVARIANTS
  OneJobPerOrderRows
CHECK_DEADLOCK FALSE
