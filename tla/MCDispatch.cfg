SPECIFICATION FairDispatchSpec
CONSTANTS
  a1 = a1
  a2 = a2
  n1 = n1
  n2 = n2
  c1 = c1
  NoGroup = NoGroup
  NoCall = NoCall
  NoRead = NoRead
  Flaky = TRUE
  Deletable = TRUE
  Agent = {a1, a2}
  Name = {n1}
  Weight <- Weights
  Caller = {c1}
  Reported = {a1}
  CircuitThreshold = 1
  ResetTimeout = 1
  MaxWeight = 3
  Period = 6
  MaxGroup = 1
  MaxEdit = 3
  MaxCrash = 1
INVARIANTS
  GroupsAreExact
  NextIsFair
PROPERTIES
  NotShutOut
CHECK_DEADLOCK FALSE
