SPECIFICATION Spec
CONSTANTS
  c1 = c1
  c2 = c2
  c3 = c3
  Callers = {c1, c2, c3}
  Versions = {1, 2}
  VersionOf <- TwoReleases
  Sessions = {c1, c2}
  Texts <- AllTexts
  ModelAnswers <- SomeAnswers
  Cap = 3
  PriorUse = 1
  Prices = {7, 99}
INVARIANTS
  ParsesAsWritten
  PricedAsWritten
  VersionsApart
  ModelIsRationed
  CachedOnceCommitted
CHECK_DEADLOCK FALSE
