SPECIFICATION CommentsSpec
CONSTANTS
  User = {u1}
  Text = {x, y}
  RunIssues <- Shifted
  MaxSaves = 1
  MaxAtOnce = 2
  MaxClock = 0
INVARIANT AnalysisSurvivesRerun
CHECK_DEADLOCK FALSE
