SPECIFICATION Spec
CONSTANTS
  Spec_ids <- MCSpec_ids
  MaxRuns = 2
  MaxLoads = 1
  MaxVisits = 2
INVARIANTS
  SelectionShown
  RunOfSelection
PROPERTIES
  ReloadKeepsScreen
  EveryRunEnds
CHECK_DEADLOCK FALSE
