SPECIFICATION Spec
CONSTANTS
  IOThreads = {i1, i2}
  Workers = {w1}
  Users = {u1}
  Bricks = {b1, b2, b3}
  NoBrick = NoBrick
  Kinds <- InOrOut
  Modulus = 16
SYMMETRY PeerSymmetry
INVARIANTS
  TypeOK
  AtMostOneRead
  ReadContextOwned
  ReadContinues
  RefsCounted
  
PROPERTIES
  SentOnce
CHECK_DEADLOCK FALSE
