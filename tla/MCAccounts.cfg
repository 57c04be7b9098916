SPECIFICATION Spec
CONSTANTS
  dflt = dflt
  t1 = t1
  free = free
  pro = pro
  n1 = n1
  c1 = c1
  c2 = c2
  i1 = i1
  i2 = i2
  sign = sign
  again = again
  key = key
  use = use
  drop = drop
  name = name
  plan = plan
  gone = gone
  g1 = g1
  g2 = g2
  g3 = g3
  g4 = g4
  job = job
  job2 = job2
  adv = adv
  show = show
  put1 = put1
  put2 = put2
  del = del
  None = None
  NoName = NoName
  Default = dflt
  Free = free
  Tenant = {dflt, t1}
  Plan = {free, pro}
  Name = {n1}
  Client = {c1, c2}
  Item = {i1, i2}
  Request <- MCRequest
  Op <- MCOp
  From <- MCFrom
  Cred <- MCCred
  Target <- MCTarget
  Arg <- MCArg
  Public = {"signup"}
  AdminOnly = {"plan", "deltenant"}
  Rate = 1
  Burst = 2
  TTL = 2
  TenantRate = 1
  TenantBurst = 3
  DayLength = 2
  Scripts <- MCScripts
  MaxTime = 3
INVARIANTS
  KeysAreExact
  ProfilesAreExact
  RecordedOnce
  RateBounded
  PruneInvisible
SYMMETRY Symmetric
CHECK_DEADLOCK FALSE
