CONSTANTS
  Procs = {p1, p2}
  NumThread = 2
  Programs <- AllocatingPrograms
  Code <- Allocating
  Main = "alloc"
SPECIFICATION Spec
INVARIANT HeldOnce
CHECK_DEADLOCK FALSE
