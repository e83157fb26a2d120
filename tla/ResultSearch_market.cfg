SPECIFICATION Spec
CONSTANTS
  t1 = t1
  t2 = t2
  c1 = c1
  c2 = c2
  c3 = c3
  Calls = {c1, c2}
  Tenants = {t1, t2}
  TenantOf <- AllOfT1
  MonthlyQuota <- QuotaOfOne
  LastMonth = 1
  Wants <- MarketWants
  Shops <- TwoShops
  OldOrders <- ThreeOrders
  Offers <- OneAnswer
  MaxCollections = 1
  Reporters = {r1}
  ReporterTenant <- ReportOfT1
  Windows <- FirstDay
  Keys = {}
  OldEntries = {}
INVARIANTS
  GrantsWithinQuota
  RefusalIsFinal
  OnlyCrashesLeak
  TenantsApart
  EventsOfUploads
  ReportBracketed
CHECK_DEADLOCK FALSE
