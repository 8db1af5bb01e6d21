SPECIFICATION CommentsSpec
CONSTANTS
  User = {u1}
  Text = {x, y}
  RunIssues <- SamePlace
  MaxSaves = 1
  MaxAtOnce = 2
  MaxClock = 0
INVARIANT RowSaidSavedIsStored
CHECK_DEADLOCK FALSE
