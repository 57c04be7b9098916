SPECIFICATION Spec
CONSTANTS
  k1 = k1
  k2 = k2
  t1 = t1
  c1 = c1
  a1 = a1
  a2 = a2
  ck = ck
  Tenant = {t1}
  Deletable = {t1}
  Publisher = {k1, k2, ck}
  NewRules <- MCNewRules
  Patches <- MCPatches
  Keep = Keep
  NoEvent = NoEvent
  HistorySize = 2
  BufferSize = 1
  Budgets <- MCBudgets
  Agent = {k1, k2}
  TenantOf <- MCTenantOf
  Offers <- MCOffers
  Capability = {c1}
  Addr = {a1, a2}
  Places = {a1, NoAddr}
  NoAddr = NoAddr
  Checker = ck
  Rank <- MCRank
  TTL = 1
INVARIANTS
  RulesAreExact
  EventsArrive
  RegistryIsCurrent
PROPERTIES
  RunningWorkerListed
  ComesBackByRegistering
CHECK_DEADLOCK FALSE
