SPECIFICATION Spec
CONSTANTS
  Readings <- MCAllocatedReadings
  Settlements <- MCSettlements
INVARIANT DistinctRowsDistinctLines
CHECK_DEADLOCK FALSE
