SPECIFICATION Spec
CONSTANTS
  c1 = c1
  c2 = c2
  c3 = c3
  Callers = {c1, c2, c3}
  Versions = {1, 2}
  VersionOf <- TwoReleases
  Sessions = {c1, c2}
  Texts <- ZeroTexts
  ModelAnswers <- SomeAnswers
  Cap = 3
  PriorUse = 1
  Prices = {7, 99}
INVARIANTS
  ZeroQuantityUnpriced
CHECK_DEADLOCK FALSE
