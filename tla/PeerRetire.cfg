SPECIFICATION FairSpec
CONSTANTS
  IOThreads = {i1}
  Workers = {w1}
  Users = {u1}
  Bricks = {b1}
  NoBrick = NoBrick
  Kinds <- TwoWays
  Modulus = 16
PROPERTIES
  RetireCloses
CHECK_DEADLOCK FALSE
