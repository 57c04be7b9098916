SPECIFICATION Spec
CONSTANTS
  w1 = w1
  w2 = w2
  Write = {w1, w2}
  Retention = 2
  Scenarios <- MCScenarios
INVARIANTS
  DatabaseIsWhole
  DataKept
  MigrationIsSound
SYMMETRY Symmetric
CHECK_DEADLOCK FALSE
