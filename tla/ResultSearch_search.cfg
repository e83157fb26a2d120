SPECIFICATION FairSpec
CONSTANTS
  t1 = t1
  t2 = t2
  c1 = c1
  c2 = c2
  c3 = c3
  Calls = {c1, c2, c3}
  Tenants = {t1, t2}
  TenantOf <- AllOfT1
  MonthlyQuota <- QuotaOfThree
  LastMonth = 0
  Wants <- SearchWants
  Shops <- TwoShops
  OldOrders <- TwoOrders
  Offers <- OneAnswer
  MaxCollections = 1
  Reporters = {}
  ReporterTenant <- ReportOfT1
  Windows <- FirstDay
  Keys <- RiceOnce
  OldEntries <- OldOfT1
INVARIANTS
  AnswersWereTrue
PROPERTIES
  StaleEnds
CHECK_DEADLOCK FALSE
