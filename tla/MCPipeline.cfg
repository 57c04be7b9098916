SPECIFICATION FairSpec
CONSTANTS
  t1 = t1
  t2 = t2
  c1 = c1
  c2 = c2
  NoPipe = NoPipe
  NoRun = NoRun
  NoCall = NoCall
  Tenant = {t1, t2}
  Caller = {c1, c2}
  Retry = TRUE
  Unavailable = TRUE
  MayDelete = TRUE
  Keep = Keep
  Bad = Bad
  Bodies <- SomeBodies
  Deletable = {t2}
  Flaky = {t2}
  MaxPipe = 2
  MaxStages = 2
  MaxRun = 1
  MaxUpdate = 1
  MaxCrash = 1
INVARIANTS
  RunsAreExact
PROPERTIES
  RunMovesForward
  RunSettles
CHECK_DEADLOCK FALSE
