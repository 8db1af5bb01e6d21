SPECIFICATION Spec
CONSTANTS
  Syncs = {"p", "q"}
  Clients = {"a", "b"}
  MaxItems = 1
  JobTtl = 1
  MaxRounds = 1
  Scenarios <- MCAll
INVARIANTS PassedOverIsFresh GoneForAReason DocumentsAccountedFor NoMissedCounterpart LinesUsedOnce
CHECK_DEADLOCK FALSE
