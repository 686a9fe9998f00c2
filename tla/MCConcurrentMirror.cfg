SPECIFICATION Spec
CONSTANTS
  Procs = {p1, p2}
  Threads = {t1}
  Options <- MCOptions
  MaxCycles = 1
  MaxWrites = 2
  SelfPointers = FALSE
CHECK_DEADLOCK FALSE

INVARIANT MirrorUpToDate
