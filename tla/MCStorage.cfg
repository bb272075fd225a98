SPECIFICATION Spec
CONSTANTS
  NBUF = 2
  Blocks = {0, 1, 2}
  Buckets = {0, 1}
  HashOf <- Parity
  Contents = {k, l}
  ReadFails = TRUE
  WriteFails = TRUE
  Sectors = 3
  MaxCount = 3
  MaxChunk = 2
  MaxPolls = 1
  Data = {x, y}
  Faults = TRUE
SYMMETRY Symmetry
CONSTRAINT NotResumed
CHECK_DEADLOCK FALSE
INVARIANTS TreeSound FilesShowTheirData KeptFindable SpaceAccounted Coherent BuffersSound 
