SPECIFICATION Spec
CONSTANTS
  Tasks = {1, 2}
  IDs = {11, 12}
  Programs <- Mixed
  FinishedActions = {TRUE}
  MayFail = TRUE
  MaxLoops = 1
INVARIANTS
  FinishedWhenOver
PROPERTIES
  TaskEnds
CHECK_DEADLOCK FALSE
