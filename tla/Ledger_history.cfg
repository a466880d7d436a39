SPECIFICATION Spec
CONSTANTS
  LastDay = 3
  MaxPositions = 3
  Others = {1}
  From = 1
  To = 2
  MaxRuns = 2
  MaxReplays = 1
  QueryReach = 1
INVARIANTS HistoryIsTrue 
CHECK_DEADLOCK FALSE
