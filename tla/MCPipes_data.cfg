CONSTANTS
  Procs = {sh, a}
  Shell = sh
  MaxFds = 3
  NPIPES = 1
  PIPE_CAP = 2
  Byte = {x, y}
  Lens = {3}
  OpenKinds = {}
SPECIFICATION Spec
SYMMETRY Symmetry
CHECK_DEADLOCK FALSE
CONSTRAINT FewEnds
INVARIANTS ShortTransferJustified BlockedPipeStays
PROPERTIES ChannelSpec
