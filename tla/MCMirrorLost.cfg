SPECIFICATION Spec
CONSTANTS
  Procs = {p1}
  Threads = {t1}
  Options <- MCOptions
  MaxCycles = 3
  MaxWrites = 1
  SelfPointers = TRUE
CHECK_DEADLOCK FALSE

INVARIANT NoNurseryPointer
