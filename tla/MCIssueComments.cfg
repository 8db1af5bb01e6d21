SPECIFICATION CommentsSpec
SYMMETRY Symmetry
CONSTANTS
  User = {u1, u2}
  Text = {x}
  RunIssues <- SamePlace
  MaxSaves = 3
  MaxAtOnce = 2
  MaxClock = 1
INVARIANTS
  SavedWasStored
  LatestChangeShown
CHECK_DEADLOCK FALSE
