SPECIFICATION Spec
CONSTANTS
  Job = {j1}
  Client = {c1}
  Spec_ids <- MCSpec_ids
  MaxBatch = 3
  MaxWorkers = 2
  MaxRestarts = 1
INVARIANTS
  RecordedOnce
  AnswersUsable
PROPERTIES
  AnswersProgress
  JobsEnd
CHECK_DEADLOCK FALSE
