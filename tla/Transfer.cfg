SPECIFICATION FairSpec
CONSTANTS
  Uploads = {"u1", "u2"}
  Downloads = {"d1"}
  Size <- MCSize
  IOThreads = {"i1", "i2"}
  Limits = {0, 1}
  Prompt = TRUE
PROPERTIES
  TransferEnds
  WaitersServed
INVARIANTS
  
  OneTransferAtATime
CHECK_DEADLOCK FALSE
