CONSTANTS
  Procs = {nsh, hb, a}
  Nsh = nsh
  Heartbeat = hb
  Idle = idle
  NULL = NULL
  Spaces = {s0, s1}
  NshSpace = s0
  KernelSpace = kas
  Signals = {2}
  TargetPids = {3}
  Quantum = 1
  MaxPid = 3
SPECIFICATION FairSpec
PROPERTY SigintDelivered
