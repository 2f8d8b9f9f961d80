SPECIFICATION Spec
CONSTANTS
  ListCap = 10
  RuleLimit = 2
  KeyLimit = 2
  AccessTTL = 2
  RefreshTTL = 9
  MaxSessions = 2
  MaxFailed = 2
  LockTTL = 2
  FreezeLimit = 2
  BulkLimit = 2
  AppCap = 0
  PlanApps <- MCPlanApps
  Areas = {"settings", "row", "rules", "keys", "admin", "quota", "idempotency", "sessions", "totp", "team", "domains", "ops", "infra", "views"}
  Requests <- MCRequests
  Start <- MCStart
  MaxRequests <- MCMaxRequests
  MaxOpen = 2
  MaxNow <- MCMaxNow
  DefaultRate = 3
  AuthRate = 2
  Services = 2
INVARIANTS ListsExact  IdempotentOnce  SignOutEnds QuotaHeld
PROPERTIES  PagesExact 
