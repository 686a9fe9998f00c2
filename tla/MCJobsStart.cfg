CONSTANTS
  Procs = {p1, p2}
  NumThread = 1
  Programs <- SinglePrograms
  Code <- Single
  Main = "single"
SPECIFICATION Spec
INVARIANT ProcessorsStopFirst
CHECK_DEADLOCK FALSE
