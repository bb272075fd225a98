SPECIFICATION Spec
CONSTANTS
  Frames = {1, 2, 3, 4, 5}
  MaxRef = 3
  HeapPages = 1
  USTACK_LIMIT = 1
  USTACK_BASE = 2
  PageUnits = 2
  TablesOf <- Walk
  Procs = {p0, p1}
  First = p0
  Images = {0}
  Breaks = {1}
  Values = {z, w}
  Zero = z
SYMMETRY Symmetry
CONSTRAINT UntilExhausted
CHECK_DEADLOCK FALSE
 
PROPERTIES PrivateSpec
