CONSTANTS
  Procs = {p1, p2}
  NumThread = 3
  Programs <- JoiningPrograms
  Code <- Joining
  Main = "join"
SPECIFICATION Spec
INVARIANT ParentNotFinished
CHECK_DEADLOCK FALSE
