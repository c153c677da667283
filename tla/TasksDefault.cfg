SPECIFICATION Spec
CONSTANTS
  Tasks = {1}
  IDs = {11}
  Programs <- Mixed
  FinishedActions = {FALSE}
  MayFail = TRUE
  MaxLoops = 1
PROPERTIES
  ResourcesCleared
CHECK_DEADLOCK FALSE
