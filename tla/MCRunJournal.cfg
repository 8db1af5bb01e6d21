SPECIFICATION Spec
CONSTANTS
  Executor = {e1, e2}
  Delivery = {1}
  Reader = {r1}
  MaxRuns = 3
  MaxIssues = 2
  MaxCrashes = 1
  Limit = 1
INVARIANTS
  RecordedWhole
  PagingSkipsNothing
PROPERTIES
  SavedAtOnce
CHECK_DEADLOCK FALSE
