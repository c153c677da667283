SPECIFICATION Spec
CONSTANTS
  IOThreads = {i1, i2}
  Workers = {w1}
  Users = {}
  Bricks = {}
  NoBrick = NoBrick
  Kinds <- MixedModes
  Modulus = 16
INVARIANTS
  AtMostOneRead
CHECK_DEADLOCK FALSE
