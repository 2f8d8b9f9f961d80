\* Tenant A's builds hang.  A can hold one of the two global slots, as
\* PerTenantCap 0 is clamped to 1, and B must be served by the other.
CONSTANTS
  a1 = a1
  a2 = a2
  b1 = b1
  b2 = b2
  A = A
  B = B
  s1 = s1
  Jobs = {a1, a2, b1, b2}
  Tenants = {A, B}
  TenantOf <- MCTenantOf
  Hung = {a1, a2}
  Cancelable = {a1, b1}
  Stoppers = {s1}
  GlobalCap = 2
  PerTenantCap = 0
SPECIFICATION FairSpec
INVARIANTS
  SlotAccounting
  CapsRespected
PROPERTIES
  ImplementsDrainGate
  HealthyTenantServed
  ShutdownUnblocksSubmit
CHECK_DEADLOCK FALSE
