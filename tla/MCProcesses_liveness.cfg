CONSTANTS
  Procs = {nsh, hb, a}
  Nsh = nsh
  Heartbeat = hb
  Idle = idle
  NULL = NULL
  Spaces = {s0, s1}
  NshSpace = s0
  KernelSpace = kas
  Signals = {2, 15}
  TargetPids = {3}
  Quantum = 1
  MaxPid = 4
SPECIFICATION FairSpec
PROPERTIES EveryReadyRuns WaitpidCompletes KilledInOrder
