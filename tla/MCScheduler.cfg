SPECIFICATION FairSpec
CONSTANTS
  t1 = t1
  t2 = t2
  x1 = x1
  l1 = l1
  l2 = l2
  l3 = l3
  NoSched = NoSched
  NoLoop = NoLoop
  NoTarget = NoTarget
  Tenant = {t1, t2}
  Target = {x1}
  Loop = {l1,l2,l3}
  Deletable = {t2}
  Flaky = {t2}
  MaxSched = 2
  MaxRun <- MCMaxRun
  MaxUpdate <- MCMaxUpdate
  MaxCrash = 1
INVARIANTS
  LoopsUnderControl
  SchedulesAreExact
PROPERTIES
  ActiveScheduleRuns
CHECK_DEADLOCK FALSE
