SPECIFICATION Spec
CONSTANTS
  Emitters = {e1}
  Results = {res1}
  Recipients = {r1}
  Consenters = {}
  Authors = {a1}
  Contents <- RendersOrNot
  Fallbacks = {}
  NoDelivery = NoDelivery
INVARIANTS
  RenderFailureRecorded
CHECK_DEADLOCK FALSE
