SPECIFICATION FairSpec
CONSTANTS
  c1 = c1
  c2 = c2
  c3 = c3
  s1 = s1
  s2 = s2
  i0 = i0
  i1 = i1
  i2 = i2
  o0 = o0
  None = None
  Callers = {c1, c2, c3}
  Wants <- SomeWants
  States = {s1, s2}
  Identities = {i0, i1, i2}
  NameOf <- TwoNames
  Suffixes = {"x", "y"}
  OldLogins = {o0}
  OldIdentity <- OldUser
INVARIANTS
  AccountsArePaired
  StateOnce
  SessionsContinue
  ReuseOnlyWhileOverlapping
  LogoutEnds
PROPERTY CallsEnd
CHECK_DEADLOCK FALSE
