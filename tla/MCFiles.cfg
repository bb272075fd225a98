SPECIFICATION AllSpec
CONSTANTS
  Names <- Nested
  Contents = {"x"}
  MaxFiles = 2
  PoolSlots = 2
  Fds = {f1, f2}
  NInodes = 5
  Calls = {"open", "creat", "close", "write", "unlink", "rename", "reboot", "truncate", "full", "proc", "dev", "writeproc"}
  MaxSteps = 5
SYMMETRY Symmetry
CONSTRAINT Usual
CHECK_DEADLOCK FALSE
INVARIANTS OpenFilesKept  CurrentUnlessSplit  EnvironmentIsMap
