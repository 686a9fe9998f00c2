CONSTANTS
  Procs = {p1, p2, p3}
  NumThread = 3
  Programs <- JoiningPrograms
  Code <- Joining
  Main = "join"
SPECIFICATION Spec
INVARIANTS TypeOK OneProcessor StatusCounts EmptyMeansNoJobs
PROPERTIES YieldJoins ProcessorsStop
CHECK_DEADLOCK FALSE
