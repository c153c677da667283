SPECIFICATION Spec
CONSTANTS
  Cap = 9
  ChunkCount = 8
  MaxWalls = 3
  Restriction <- MCRestriction
  Scripts <- MCSealed
  ReadSizes = {7, 9}
  BufferSize = 20
  Protocol = "Ashley"
INVARIANT SealedVerifies
CHECK_DEADLOCK FALSE
