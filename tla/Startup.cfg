CONSTANTS
  d1 = d1
  d2 = d2
  d3 = d3
  Pids <- MCPids
  MaxCommands = 1
SYMMETRY MCSymmetry
SPECIFICATION Spec
CHECK_DEADLOCK FALSE
INVARIANTS
  LockNamesTheDaemon
  StartIsClean
