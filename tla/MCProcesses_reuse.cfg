CONSTANTS
  Procs = {nsh, hb, a, b}
  Nsh = nsh
  Heartbeat = hb
  Idle = idle
  NULL = NULL
  Spaces = {s0, s1, s2}
  NshSpace = s0
  KernelSpace = kas
  Signals = {}
  TargetPids = {}
  Quantum = 1
  MaxPid = 5
SPECIFICATION Spec
PROPERTY WaitpidReapsOwnChild
