SPECIFICATION AllSpec
CONSTANTS
  Procs = {"p", "q"}
  Width = 10
  Quantum = 2
  MaxMs = 3
CHECK_DEADLOCK FALSE
INVARIANTS  EarlyOnlyIfWrapped  CleanPrompt PsExact
