SPECIFICATION Spec
CONSTANTS
  Emitters = {e1}
  Results = {res1}
  Recipients = {r1, r2}
  Consenters = {}
  Authors = {a1, a2}
  Contents <- Differing
  Fallbacks = {}
  NoDelivery = NoDelivery
INVARIANTS
  Audience
  CurrentTemplate
  VersionsDense
PROPERTIES
  VersionsImmutable
SYMMETRY Symmetric
CHECK_DEADLOCK FALSE
