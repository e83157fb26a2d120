SPECIFICATION FairSpec
CONSTANTS
  Emitters = {e1, e2}
  Results = {res1}
  Recipients = {r1}
  Consenters = {r1}
  Authors = {a1}
  Contents <- RendersOrNot
  Fallbacks = {f1, f2}
  NoDelivery = NoDelivery
INVARIANTS
  EventsAnswered
  FallbackOnce
  FallbackConsented
PROPERTIES
  ImplementsPromise
  CallsEnd
CHECK_DEADLOCK FALSE
