SPECIFICATION Spec
CONSTANTS
  t1 = t1
  t2 = t2
  a1 = a1
  a2 = a2
  cA = cA
  cB = cB
  p1 = p1
  p2 = p2
  None = None
  NoJob = NoJob
  Tenant = {t1, t2}
  Agent = {a1}
  Capability = {cA}
  Client = {p1, p2}
  Requests <- ForEach
  Schedules <- NoRequests
  Offers <- OffersOne
  Home <- HomeOne
  Slots = 1
  PruneAge = 0
  Janitor = {"Prune"}
  Deletable = {t2}
  Flaky = {t2}
  Lossy = TRUE
  MaxSubmit = 2
  MaxTime = 2
  MaxCrash = 2
  PatchTo = {"pending"}
  MaxPatch = 1
INVARIANTS
  TypeOK
  UniqueIds
  StoreMirrorsQueue
  ClaimedOnce
  HeldJobIsOwn
PROPERTIES
  ImplementsService
CHECK_DEADLOCK FALSE
