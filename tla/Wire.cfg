SPECIFICATION Spec
CONSTANTS
  Cap = 9
  ChunkCount = 8
  MaxWalls = 4
  Restriction <- MCRestriction
  Scripts <- MCScripts
  ReadSizes = {1, 7}
  BufferSize = 20
  Protocol = "Ashley"
INVARIANTS TypeOK BricksConserved
PROPERTIES ImplementsChannel Served
CHECK_DEADLOCK FALSE
