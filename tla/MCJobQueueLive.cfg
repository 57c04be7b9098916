SPECIFICATION FairSpec
CONSTANTS
  t1 = t1
  t2 = t2
  a1 = a1
  a2 = a2
  cA = cA
  cB = cB
  p1 = p1
  p2 = p2
  None = None
  NoJob = NoJob
  Tenant = {t1}
  Agent = {a1, a2}
  Capability = {cA, cB}
  Client = {p1, p2}
  Requests <- Mixed
  Schedules <- ScheduleT1
  Offers <- OffersBoth
  Home <- HomeBoth
  Slots = 1
  PruneAge = 0
  Janitor = {"ExpireStale", "Prune"}
  Deletable = {}
  Flaky = {}
  Lossy = FALSE
  MaxSubmit = 2
  MaxTime = 3
  MaxCrash = 0
  PatchTo = {}
  MaxPatch = 0
PROPERTIES
  ClaimableJobSettles
  ImplementsService
CHECK_DEADLOCK FALSE
