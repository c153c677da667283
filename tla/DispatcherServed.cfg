SPECIFICATION FairSpec
CONSTANTS
  Workers = {w1, w2}
  IOThreads = {i1}
  Jobs = {j1, j2}
  NoJob = NoJob
  NoWorker = NoWorker
PROPERTIES
  ServedOnceWoken
  WorkersLeave
  IOPhaseEnds
  
CHECK_DEADLOCK FALSE
