SPECIFICATION FairSpec
CONSTANTS
  c1 = c1
  c2 = c2
  c3 = c3
  r1 = r1
  r2 = r2
  r3 = r3
  s1 = s1
  s2 = s2
  u1 = u1
  u2 = u2
  None = None
  Calls = {c1, c2, c3}
  CallerOf <- Callers
  UserTenant <- Users
  Wants <- SomeWants
  OldRecipients <- Recipients
  OldConsents <- Consents
  OldShops <- Shops
  Numbers = {"A", "B", "C"}
INVARIANTS
  OneRecipientPerPhone
  LaterCallPrevails
  RevocationHolds
PROPERTIES
  CallsEnd
CHECK_DEADLOCK FALSE
