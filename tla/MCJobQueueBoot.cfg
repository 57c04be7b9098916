SPECIFICATION Spec
CONSTANTS
  t1 = t1
  t2 = t2
  a1 = a1
  a2 = a2
  cA = cA
  cB = cB
  p1 = p1
  p2 = p2
  None = None
  NoJob = NoJob
  Tenant = {t1, t2}
  Agent = {a1, a2}
  Capability = {cA}
  Client = {p1, p2}
  Requests <- ByCapability
  Schedules <- ScheduleT1
  Offers <- OffersEach
  Home <- HomeEach
  Slots = 1
  PruneAge = 0
  Janitor = {}
  Deletable = {}
  Flaky = {}
  Lossy = FALSE
  MaxSubmit = 2
  MaxTime = 1
  MaxCrash = 1
  PatchTo = {}
  MaxPatch = 0
INVARIANTS
  UniqueIds
CHECK_DEADLOCK FALSE
