SPECIFICATION Spec
CONSTANTS
  Key = {k1, k2, k3}
  Thread = {t1, t2}
  TTL = 1
  MaxEntries = 2
  Timeout = 1
  Operations = 2
  MaxClock = 4
PROPERTIES
  LeavesForAReason
  BoundedlyStale
CHECK_DEADLOCK FALSE
SYMMETRY Symmetry
