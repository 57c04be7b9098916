SPECIFICATION FairSpec
CONSTANTS
  t1 = t1
  t2 = t2
  h1 = h1
  h2 = h2
  NoBucket = NoBucket
  NoHash = NoHash
  Tenant = {t1, t2}
  Handler = {h1, h2}
  Kinds <- MCKinds
  Damageable = {t2}
  Quota = 2
  Signing = TRUE
  ImportLen = 3
  Flaky = {t1}
  MaxOp = 3
  MaxCrash = 1
  MaxCorrupt = 1
INVARIANTS
  ServedIntact
  ServedHasAll
  QuotaOvershoot
PROPERTIES
  RequestsEnd
CHECK_DEADLOCK FALSE
