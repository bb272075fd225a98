SPECIFICATION AllSpec
CONSTANTS
  Size = 14
  Requests = {0, 16, 17, 33, 100}
  p0 = p0
  p1 = p1
  p2 = p2
SYMMETRY Symmetry
CONSTRAINT KinUntilExhausted
CHECK_DEADLOCK FALSE
INVARIANTS WellFormed  SlabSound ArenaSound
PROPERTIES Refines
