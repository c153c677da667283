SPECIFICATION Spec
CONSTANTS
  Workers = {w1, w2}
  IOThreads = {i1, i2}
  Jobs = {j1, j2}
  NoJob = NoJob
  NoWorker = NoWorker
SYMMETRY ThreadSymmetry
INVARIANTS
  TypeOK
  IdleIsAsleep
  NoWorkerLost
  JobInOnePlace
  WorkersLeftFirst
  IOThreadsLeftFirst
PROPERTIES
  ImplementsWorkQueue
CHECK_DEADLOCK FALSE
