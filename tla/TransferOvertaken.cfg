SPECIFICATION Spec
CONSTANTS
  Uploads = {"u1"}
  Downloads = {"d1"}
  Size <- MCSize
  IOThreads = {"i1", "i2"}
  Limits = {0}
  Prompt = FALSE
INVARIANTS
  PostTransmitWhenDone
CHECK_DEADLOCK FALSE
