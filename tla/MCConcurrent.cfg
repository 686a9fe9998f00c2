SPECIFICATION Spec
CONSTANTS
  Procs = {p1, p2}
  Threads = {t1}
  Options <- MCOptions
  MaxCycles = 2
  MaxWrites = 1
  SelfPointers = FALSE
CHECK_DEADLOCK FALSE
INVARIANTS
  TypeOK
  EmptyAtFlip
  RootsFlipped
  NoNurseryPointer
PROPERTIES
  CollectorTurnsOff
